--------------------------- MODULE ImageProvider ---------------------------
(***************************************************************************)
(* The answers one ImageGenerationProvider.generateBackground() call can   *)
(* give, as the worker sees them.  An answer carries a fact the worker     *)
(* never sees, `accepted`: whether the remote service took the request on  *)
(* (and bills it).  The Qwen adapter sends one POST and then downloads the *)
(* picture from the URL it got; the mock adapter answers by scenario.      *)
(***************************************************************************)
Dispositions == {"NOT_SENT", "REJECTED", "MAY_HAVE_BEEN_ACCEPTED"}

Answers == [accepted    : BOOLEAN,
            result      : {"OK", "INVALID_ID", "ADAPTER_ERROR", "OTHER_ERROR"},
            disposition : Dispositions,
            retryable   : BOOLEAN,
            requestId   : BOOLEAN]     \* providerRequestId # null

\* The request was taken on and its id came back.
Accepted == [accepted |-> TRUE, result |-> "OK", retryable |-> FALSE,
             disposition |-> "MAY_HAVE_BEEN_ACCEPTED", requestId |-> TRUE]

\* The adapter resolved with an id the worker refuses: none, or a string that
\* is blank or too long (which the failure then carries along).
InvalidId(requestId) == [Accepted EXCEPT !.result = "INVALID_ID",
                                         !.requestId = requestId]

\* The adapter threw something that is not a ProviderAdapterError.
OtherError(accepted) ==
  [accepted |-> accepted, result |-> "OTHER_ERROR", retryable |-> FALSE,
   disposition |-> "MAY_HAVE_BEEN_ACCEPTED", requestId |-> FALSE]

AdapterError(accepted, retryable, requestId, disposition) ==
  [accepted |-> accepted, result |-> "ADAPTER_ERROR", retryable |-> retryable,
   disposition |-> disposition, requestId |-> requestId]

\* The constructor's default: an error that knows a request id is ambiguous.
DefaultDisposition(requestId) ==
  IF requestId THEN "MAY_HAVE_BEEN_ACCEPTED" ELSE "NOT_SENT"

InvalidResponse(accepted, requestId) ==
  AdapterError(accepted, FALSE, requestId, DefaultDisposition(requestId))

TimedOut(accepted, requestId) ==
  AdapterError(accepted, TRUE, requestId, "MAY_HAVE_BEEN_ACCEPTED")

-----------------------------------------------------------------------------
(* The classes of HTTP error the Qwen adapter tells apart, by status or by *)
(* the error code of the body.                                             *)
HttpErrors == {"AUTH", "RATE_LIMITED", "POLICY", "UNAVAILABLE", "OTHER"}

\* mapHttpError(): the class alone decides whether the error says REJECTED;
\* the id the caller already holds is only carried along.
MapHttpError(class, accepted, requestId) ==
  CASE class \in {"AUTH", "POLICY"} ->
         AdapterError(accepted, FALSE, requestId, "REJECTED")
    [] class = "RATE_LIMITED" ->
         AdapterError(accepted, TRUE, requestId, "REJECTED")
    [] class = "UNAVAILABLE" -> TimedOut(accepted, requestId)
    [] class = "OTHER" -> InvalidResponse(accepted, requestId)

\* The POST is answered with an error.  Assumed of the service: only a
\* timeout or a 5xx answer can hide an accepted request.
QwenPostErrors ==
  {MapHttpError(class, FALSE, requestId) :
      class \in HttpErrors, requestId \in BOOLEAN}
  \cup {MapHttpError("UNAVAILABLE", TRUE, requestId) : requestId \in BOOLEAN}
  \cup {TimedOut(accepted, FALSE) : accepted \in BOOLEAN}
  \cup {InvalidResponse(FALSE, FALSE)}            \* bad input image, redirect

\* The POST succeeded and what follows in the same call failed: no usable
\* URL, a broken or oversized picture, a redirect, a lost connection, or an
\* HTTP error of the download, mapped by the same mapHttpError().  The
\* download passes no body, so no code can select the policy class.
QwenAcceptedErrors(downloadErrors) ==
  {AdapterError(TRUE, FALSE, FALSE, "MAY_HAVE_BEEN_ACCEPTED"),
   InvalidResponse(TRUE, TRUE), TimedOut(TRUE, TRUE)}
  \cup {MapHttpError(class, TRUE, TRUE) : class \in downloadErrors}

DownloadErrors == HttpErrors \ {"POLICY"}

QwenAnswers(downloadErrors) ==
  {Accepted} \cup QwenPostErrors \cup QwenAcceptedErrors(downloadErrors)

\* The mock's scenarios; its timeout may or may not hide an acceptance.
MockAnswers ==
  {Accepted,
   TimedOut(TRUE, TRUE), TimedOut(FALSE, TRUE),
   AdapterError(FALSE, TRUE, TRUE, "REJECTED"),
   AdapterError(FALSE, FALSE, TRUE, "REJECTED")}

\* The port's contract: an error whose disposition says the request was not
\* sent or was rejected is never the error of an accepted request.
Honest(answers) ==
  \A a \in answers :
    a.result = "ADAPTER_ERROR" /\ a.disposition # "MAY_HAVE_BEEN_ACCEPTED"
      => ~a.accepted
=============================================================================
