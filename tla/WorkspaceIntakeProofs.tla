----------------------- MODULE WorkspaceIntakeProofs -----------------------
(***************************************************************************)
(* Theorems about WorkspaceIntake for every number of tokens, sign-ins,    *)
(* requests, keys and faults, and for all limits.                          *)
(***************************************************************************)
EXTENDS WorkspaceIntake, FiniteSetTheorems, TLAPS

USE IntakeAssumption

-----------------------------------------------------------------------------
(* Steps that concern nobody's request, and the ones of a single request.  *)

LEMMA InitTypes == Init => TypeOK
  BY DEF Init, TypeOK, IdleRequest, Request, Steps, SignInSteps

LEMMA StepFacts ==
  /\ InScope \subseteq Steps /\ Storing \subseteq Steps /\ Resolving \subseteq Steps
  /\ "answered" \in Steps /\ "dead" \in Steps /\ "compensating" \in Steps
  /\ "lockingActor" \in Steps /\ "lockingMembership" \in Steps
  /\ "counting" \in Steps /\ "uploading" \in Steps
  BY DEF Steps, InScope, Storing, Resolving

\* The parts of a request that move on with it.
LEMMA StepType ==
  ASSUME TypeOK, NEW r \in Requests, NEW step \in Steps, Step(r, step)
  PROVE  /\ request' \in [Requests -> Request]
         /\ request' = [request EXCEPT ![r].step = step]
  BY DEF TypeOK, Step, Request

LEMMA AnswerType ==
  ASSUME TypeOK, NEW r \in Requests, NEW p \in Requests \cup {None}, Answer(r, p)
  PROVE  request' \in [Requests -> Request]
<1> DEFINE answered == [request[r] EXCEPT !.step = "answered", !.answer = p]
<1>1. request[r] \in Request
  BY DEF TypeOK
<1>2. answered \in Request
  BY <1>1, StepFacts DEF Request
<1>3. request' = [request EXCEPT ![r] = answered]
  BY <1>1 DEF Answer, TypeOK, Request
<1> QED BY <1>2, <1>3 DEF TypeOK

\* A request that arrives has no key yet, or no kind.
LEMMA BeginType ==
  ASSUME TypeOK, NEW r \in Requests, Begin(r)
  PROVE  /\ request' \in [Requests -> Request]
         /\ request' = [request EXCEPT ![r] = request'[r]]
         /\ request'[r].answer = request[r].answer
         /\ \/ /\ request'[r].step = "session"
               /\ request'[r].op = "project"
               /\ request'[r].key \in Keys /\ request'[r].name \in Names
            \/ request'[r].step = "session" /\ request'[r].op = "source"
            \/ /\ request'[r].step = "counting"
               /\ request'[r].op = "upload" /\ request'[r].kind \in Kinds
<1> USE DEF TypeOK
<1>1. request[r] \in Request
  OBVIOUS
<1>2. "session" \in Steps /\ "counting" \in Steps
  BY DEF Steps, Resolving
<1>3. CASE \E k \in Keys, n \in Names :
             request' = [request EXCEPT ![r].step = "session", ![r].op = "project",
                                        ![r].key = k, ![r].name = n]
  <2>1. PICK k \in Keys, n \in Names :
          request' = [request EXCEPT ![r].step = "session", ![r].op = "project",
                                     ![r].key = k, ![r].name = n]
    BY <1>3
  <2> DEFINE q == [request[r] EXCEPT !.step = "session", !.op = "project",
                                     !.key = k, !.name = n]
  <2>2. request' = [request EXCEPT ![r] = q]
    BY <1>1, <2>1 DEF Request
  <2>3. q \in Request /\ q.step = "session" /\ q.op = "project" /\ q.key = k
        /\ q.name = n /\ q.answer = request[r].answer
    BY <1>1, <1>2 DEF Request, Operations
  <2> HIDE DEF q
  <2> QED BY <2>2, <2>3
<1>4. CASE request' = [request EXCEPT ![r].step = "session", ![r].op = "source"]
  <2> DEFINE q == [request[r] EXCEPT !.step = "session", !.op = "source"]
  <2>1. request' = [request EXCEPT ![r] = q]
    BY <1>1, <1>4 DEF Request
  <2>2. q \in Request /\ q.step = "session" /\ q.op = "source"
        /\ q.answer = request[r].answer
    BY <1>1, <1>2 DEF Request, Operations
  <2> HIDE DEF q
  <2> QED BY <2>1, <2>2
<1>5. CASE \E kind \in Kinds :
             request' = [request EXCEPT ![r].step = "counting", ![r].op = "upload",
                                        ![r].kind = kind]
  <2>1. PICK kind \in Kinds :
          request' = [request EXCEPT ![r].step = "counting", ![r].op = "upload",
                                     ![r].kind = kind]
    BY <1>5
  <2> DEFINE q == [request[r] EXCEPT !.step = "counting", !.op = "upload",
                                     !.kind = kind]
  <2>2. request' = [request EXCEPT ![r] = q]
    BY <1>1, <2>1 DEF Request
  <2>3. q \in Request /\ q.step = "counting" /\ q.op = "upload" /\ q.kind = kind
        /\ q.answer = request[r].answer
    BY <1>1, <1>2 DEF Request, Operations
  <2> HIDE DEF q
  <2> QED BY <2>2, <2>3
<1> QED
  BY <1>3, <1>4, <1>5 DEF Begin

-----------------------------------------------------------------------------
(* Types.                                                                  *)

LEMMA TypeStep ==
  ASSUME TypeOK, RequestInv, KeyInv, [Next]_vars
  PROVE  TypeOK'
<1> USE DEF TypeOK
<1>1. ASSUME NEW t \in Tokens, CreateVerificationToken(t)
      PROVE  TypeOK'
  BY <1>1 DEF CreateVerificationToken, rows
<1>2. ASSUME NEW s \in SignIns, NEW t \in Tokens, UseVerificationToken(s, t)
      PROVE  TypeOK'
  BY <1>2 DEF UseVerificationToken, rows, Spent, Fault, NoFault, SignInSteps
<1>3. ASSUME NEW s \in SignIns, Authorize(s) \/ CreateSession(s) \/ DeleteSession(s)
      PROVE  TypeOK'
  <2>1. signIn' \in [SignIns -> [step : SignInSteps, token : Tokens \cup {None}]]
    <3>1. CASE Authorize(s) BY <3>1 DEF Authorize, SignInSteps
    <3>2. CASE CreateSession(s) BY <3>2 DEF CreateSession, SignInSteps
    <3>3. CASE DeleteSession(s) BY <3>3 DEF DeleteSession
    <3> QED BY <1>3, <3>1, <3>2, <3>3
  <2> QED BY <1>3, <2>1 DEF Authorize, CreateSession, DeleteSession, rows
<1>4. ASSUME NEW r \in Requests, Begin(r)
      PROVE  TypeOK'
  <2>1. request' \in [Requests -> Request]
    BY <1>4, BeginType
  <2> QED BY <1>4, <2>1 DEF Begin, rows, auth
<1>5. ASSUME NEW r \in Requests, ReadSession(r)
      PROVE  TypeOK'
  <2>1. request' \in [Requests -> Request]
    BY <1>5, StepFacts, StepType, AnswerType DEF ReadSession, Refuse, Resolving
  <2> QED BY <1>5, <2>1 DEF ReadSession, rows
<1>6. ASSUME NEW r \in Requests,
             \/ ResolvePrincipal(r) \/ RefuseInput(r) \/ LockActor(r)
             \/ LockMembership(r) \/ CheckProject(r) \/ CountAssets(r) \/ LockProject(r)
      PROVE  TypeOK'
  <2>1. request' \in [Requests -> Request]
    BY <1>6, StepFacts, StepType, AnswerType
    DEF ResolvePrincipal, RefuseInput, LockActor, LockMembership, CheckProject,
        CountAssets, LockProject, Refuse, Resolving, InScope, Storing
  <2>2. UNCHANGED <<auth, rows, objects, inDoubt, faults>>
    BY <1>6 DEF ResolvePrincipal, RefuseInput, LockActor, LockMembership,
                CheckProject, CountAssets, LockProject
  <2> QED BY <2>1, <2>2 DEF rows, auth
<1>7. ASSUME NEW r \in Requests, FindRecord(r)
      PROVE  TypeOK'
  <2>1. request[r].op = "project" /\ request[r].key \in Keys
    BY <1>7 DEF FindRecord, At, RequestInv
  <2>2. request' \in [Requests -> Request]
    BY <1>7, <2>1, StepFacts, StepType, AnswerType
    DEF FindRecord, Replay, Refuse, InScope, Record
  <2> QED BY <1>7, <2>2 DEF FindRecord, rows, auth
<1>8. ASSUME NEW r \in Requests, InsertRecord(r)
      PROVE  TypeOK'
  <2>1. request' \in [Requests -> Request]
    BY <1>8, StepFacts, StepType DEF InsertRecord, InScope, Request
  <2> QED BY <1>8, <2>1 DEF InsertRecord, rows, auth
<1>9. ASSUME NEW r \in Requests, CommitProject(r)
      PROVE  TypeOK'
  <2>1. request[r].key \in Keys /\ request[r].name \in Names
    BY <1>9 DEF CommitProject, At, RequestInv
  <2>2. request' \in [Requests -> Request]
    BY <1>9, AnswerType DEF CommitProject, Refuse
  <2>3. record' \in [Keys -> Record \cup {None}] /\ projects' \subseteq Requests
    BY <1>9, <2>1 DEF CommitProject, Record
  <2> QED BY <1>9, <2>2, <2>3 DEF CommitProject, auth, Fault, NoFault
<1>10. ASSUME NEW r \in Requests, PutObject(r) \/ Compensate(r)
       PROVE  TypeOK'
  <2>1. request' \in [Requests -> Request]
    BY <1>10, StepFacts, StepType, AnswerType
    DEF PutObject, Compensate, Refuse, Storing
  <2> QED BY <1>10, <2>1 DEF PutObject, Compensate, Deleted, rows, auth, Fault, NoFault
<1>11. ASSUME NEW r \in Requests, CommitStored(r)
       PROVE  TypeOK'
  <2>1. request' \in [Requests -> Request]
    BY <1>11, StepFacts, StepType, AnswerType DEF CommitStored
  <2> QED BY <1>11, <2>1 DEF CommitStored, auth, Fault, NoFault
<1>12. ASSUME NEW r \in Requests, Crash(r)
       PROVE  TypeOK'
  BY <1>12, StepFacts, StepType DEF Crash, rows, auth, Fault
<1>13. ASSUME NEW x \in Identity, Disable(x)
       PROVE  TypeOK'
  BY <1>13 DEF Disable, rows
<1>14. CASE Expire
  BY <1>14 DEF Expire, rows
<1>15. CASE UNCHANGED vars
  BY <1>15 DEF vars, rows
<1> QED
  BY <1>1, <1>2, <1>3, <1>4, <1>5, <1>6, <1>7, <1>8, <1>9, <1>10, <1>11, <1>12,
     <1>13, <1>14, <1>15
  DEF Next, SignInStep, Proceed, Finished

-----------------------------------------------------------------------------
(* How a request moves: everybody else's and its own other parts stay.     *)

Kept(r) ==
  /\ \A q \in Requests \ {r} : request'[q] = request[q]
  /\ request'[r].op = request[r].op /\ request'[r].key = request[r].key
  /\ request'[r].name = request[r].name /\ request'[r].kind = request[r].kind

LEMMA StepKeeps ==
  ASSUME TypeOK, NEW r \in Requests, NEW step, Step(r, step)
  PROVE  Kept(r) /\ request'[r].step = step /\ request'[r].answer = request[r].answer
  BY DEF TypeOK, Step, Kept, Request

LEMMA AnswerKeeps ==
  ASSUME TypeOK, NEW r \in Requests, NEW p, Answer(r, p)
  PROVE  Kept(r) /\ request'[r].step = "answered" /\ request'[r].answer = p
  BY DEF TypeOK, Answer, Kept, Request

LEMMA RefuseKeeps ==
  ASSUME TypeOK, NEW r \in Requests, Refuse(r)
  PROVE  Kept(r) /\ request'[r].step = "answered" /\ request'[r].answer = None
  BY AnswerKeeps DEF Refuse

LEMMA BeginKeeps ==
  ASSUME TypeOK, NEW r \in Requests, Begin(r)
  PROVE  /\ \A q \in Requests \ {r} : request'[q] = request[q]
         /\ At(r, "idle") /\ request'[r].step \in {"session", "counting"}
<1>1. request' = [request EXCEPT ![r] = request'[r]]
      /\ request'[r].step \in {"session", "counting"}
  BY BeginType
<1>2. \A q \in Requests \ {r} : request'[q] = request[q]
  <2> DEFINE p == request'[r]
  <2>1. request' = [request EXCEPT ![r] = p]
    BY <1>1
  <2> HIDE DEF p
  <2> QED BY <2>1 DEF TypeOK
<1> QED BY <1>1, <1>2 DEF Begin

\* Every step of a request but its first and its last in a transaction.
LEMMA ProceedMoves ==
  ASSUME TypeOK, NEW r \in Requests,
         \/ ReadSession(r) \/ ResolvePrincipal(r) \/ RefuseInput(r)
         \/ LockActor(r) \/ LockMembership(r) \/ FindRecord(r) \/ InsertRecord(r)
         \/ CheckProject(r) \/ CountAssets(r) \/ LockProject(r)
  PROVE  /\ Kept(r)
         /\ request[r].step \notin {"idle", "answered", "dead", "compensating",
                                   "committingProject", "committingSource",
                                   "committingAsset", "putting"}
         /\ UNCHANGED <<active, token, signIn, rows, objects, inDoubt, faults>>
<1>1. CASE ReadSession(r)
  BY <1>1, StepKeeps, RefuseKeeps DEF ReadSession, At
<1>2. CASE ResolvePrincipal(r)
  BY <1>2, StepKeeps, RefuseKeeps DEF ResolvePrincipal, At, auth
<1>3. CASE RefuseInput(r)
  BY <1>3, RefuseKeeps DEF RefuseInput, auth
<1>4. CASE LockActor(r)
  BY <1>4, StepKeeps, RefuseKeeps DEF LockActor, At, auth
<1>5. CASE LockMembership(r)
  BY <1>5, StepKeeps, RefuseKeeps DEF LockMembership, At, auth
<1>6. CASE FindRecord(r)
  <2>1. Replay(r) => Kept(r)
    BY RefuseKeeps, AnswerKeeps DEF Replay
  <2>2. Step(r, "inserting") => Kept(r)
    BY StepKeeps
  <2> QED BY <1>6, <2>1, <2>2 DEF FindRecord, At, auth
<1>7. CASE InsertRecord(r)
  <2>1. CASE Step(r, "committingProject")
    BY <1>7, <2>1, StepKeeps DEF InsertRecord, At, auth
  <2>2. CASE request' = [request EXCEPT ![r].step = "lockingActor",
                                        ![r].replaying = TRUE]
    BY <1>7, <2>2 DEF InsertRecord, At, auth, Kept, TypeOK, Request
  <2> QED BY <1>7, <2>1, <2>2 DEF InsertRecord
<1>8. CASE CheckProject(r)
  BY <1>8, StepKeeps, RefuseKeeps DEF CheckProject, At, auth
<1>9. CASE CountAssets(r)
  BY <1>9, StepKeeps, RefuseKeeps DEF CountAssets, At, auth
<1>10. CASE LockProject(r)
  BY <1>10, StepKeeps DEF LockProject, At, auth
<1> QED
  BY <1>1, <1>2, <1>3, <1>4, <1>5, <1>6, <1>7, <1>8, <1>9, <1>10

-----------------------------------------------------------------------------
(* A scope stays open on ACTIVE rows.                                      *)

LEMMA ScopeStep ==
  ASSUME TypeOK, ScopeInv, [Next]_vars
  PROVE  ScopeInv'
<1> USE DEF ScopeInv
<1>1. ASSUME UNCHANGED <<active, request>>
      PROVE  ScopeInv'
  BY <1>1 DEF At
<1>2. ASSUME NEW r \in Requests, Begin(r)
      PROVE  ScopeInv'
  BY <1>2, BeginKeeps DEF Begin, auth, At, InScope
<1>3. ASSUME NEW r \in Requests, LockActor(r)
      PROVE  ScopeInv'
  BY <1>3, StepKeeps, RefuseKeeps DEF LockActor, auth, At, InScope, Kept
<1>4. ASSUME NEW r \in Requests, LockMembership(r)
      PROVE  ScopeInv'
  <2>1. active["actor"]
    BY <1>4 DEF LockMembership, At
  <2>2. CASE active["membership"] /\ active["workspace"]
    BY <1>4, <2>1, <2>2, StepKeeps DEF LockMembership, auth, At, InScope, Kept, Identity
  <2>3. CASE ~(active["membership"] /\ active["workspace"])
    BY <1>4, <2>3, RefuseKeeps DEF LockMembership, auth, At, InScope, Kept
  <2> QED BY <2>2, <2>3
<1>5. ASSUME NEW r \in Requests, ReadSession(r) \/ ResolvePrincipal(r) \/ RefuseInput(r)
                                  \/ CountAssets(r) \/ LockProject(r) \/ Compensate(r)
                                  \/ CommitProject(r) \/ CommitStored(r) \/ Crash(r)
      PROVE  ScopeInv'
  <2>1. active' = active
    BY <1>5 DEF ReadSession, ResolvePrincipal, RefuseInput, CountAssets, LockProject,
                Compensate, CommitProject, CommitStored, Crash, auth
  <2>2. Kept(r) /\ request'[r].step \notin InScope \cup {"lockingMembership"}
    BY <1>5, StepKeeps, RefuseKeeps, AnswerKeeps
    DEF ReadSession, ResolvePrincipal, RefuseInput, CountAssets, LockProject,
        Compensate, CommitProject, CommitStored, Crash, InScope
  <2> QED BY <2>1, <2>2 DEF At, Kept
<1>6. ASSUME NEW r \in Requests, FindRecord(r) \/ CheckProject(r) \/ PutObject(r)
      PROVE  ScopeInv'
  <2>1. active' = active
    BY <1>6 DEF FindRecord, CheckProject, PutObject, auth
  <2>2. Kept(r) /\ request'[r].step # "lockingMembership"
        /\ (request'[r].step \in InScope => request[r].step \in InScope)
    BY <1>6, StepKeeps, RefuseKeeps, AnswerKeeps
    DEF FindRecord, Replay, CheckProject, PutObject, InScope, At
  <2> QED BY <2>1, <2>2 DEF At, Kept
<1>7. ASSUME NEW r \in Requests, InsertRecord(r)
      PROVE  ScopeInv'
  <2>1. CASE Step(r, "committingProject")
    BY <1>7, <2>1, StepKeeps DEF InsertRecord, auth, At, InScope, Kept
  <2>2. CASE request' = [request EXCEPT ![r].step = "lockingActor",
                                        ![r].replaying = TRUE]
    BY <1>7, <2>2 DEF InsertRecord, auth, At, InScope, TypeOK, Request
  <2> QED BY <1>7, <2>1, <2>2 DEF InsertRecord
<1>8. ASSUME NEW x \in Identity, Disable(x)
      PROVE  ScopeInv'
  <2>1. \A r \in Requests : At(r, "lockingMembership") => x # "actor"
    BY <1>8 DEF Disable, SharedBy, At
  <2>2. \A r \in Requests : request[r].step \notin InScope
    BY <1>8 DEF Disable, SharedBy, InScope
  <2> QED BY <1>8, <2>1, <2>2 DEF Disable, At, TypeOK
<1> QED
  BY <1>1, <1>2, <1>3, <1>4, <1>5, <1>6, <1>7, <1>8
  DEF Next, SignInStep, Proceed, Finished, vars, CreateVerificationToken,
      UseVerificationToken, Authorize, CreateSession, DeleteSession, Expire

-----------------------------------------------------------------------------
(* A token is borne by one sign-in.                                        *)

LEMMA TokenStep ==
  ASSUME TypeOK, TokenInv, [Next]_vars
  PROVE  TokenInv'
<1> USE DEF TokenInv, Bearing
<1>1. ASSUME UNCHANGED <<token, signIn>>
      PROVE  TokenInv'
  BY <1>1
<1>2. ASSUME NEW t \in Tokens, CreateVerificationToken(t)
      PROVE  TokenInv'
  BY <1>2 DEF CreateVerificationToken, TypeOK
<1>3. ASSUME NEW s \in SignIns, NEW t \in Tokens, UseVerificationToken(s, t)
      PROVE  TokenInv'
  <2>1. \A u \in Tokens : token[u] = "gone" => token'[u] = "gone"
    BY <1>3 DEF UseVerificationToken, Spent, TypeOK
  <2>2. token'[t] = "gone"
    BY <1>3 DEF UseVerificationToken, Spent, TypeOK
  <2>3. CASE /\ token[t] = "valid"
             /\ signIn' = [signIn EXCEPT ![s] = [step |-> "authorizing", token |-> t]]
    BY <2>1, <2>2, <2>3 DEF TypeOK
  <2>4. CASE signIn' = [signIn EXCEPT ![s] = [step |-> "refused", token |-> t]]
    BY <2>1, <2>4 DEF TypeOK
  <2> QED BY <1>3, <2>3, <2>4 DEF UseVerificationToken
<1>4. ASSUME NEW s \in SignIns, Authorize(s) \/ CreateSession(s)
      PROVE  TokenInv'
  <2>1. PICK step \in SignInSteps : signIn' = [signIn EXCEPT ![s].step = step]
    BY <1>4 DEF Authorize, CreateSession, SignInSteps
  <2>2. token' = token /\ Bearing(s)
    BY <1>4 DEF Authorize, CreateSession
  <2>3. /\ signIn'[s].token = signIn[s].token
        /\ \A u \in SignIns \ {s} : signIn'[u] = signIn[u]
    BY <2>1 DEF TypeOK
  <2> QED BY <2>2, <2>3
<1>5. ASSUME NEW r \in Requests, Begin(r) \/ Proceed(r) \/ Crash(r)
      PROVE  UNCHANGED <<token, signIn>>
  <2>1. CASE Begin(r) \/ Crash(r)
    BY <2>1 DEF Begin, Crash, auth
  <2>2. CASE CommitProject(r) \/ PutObject(r) \/ CommitStored(r) \/ Compensate(r)
    BY <2>2 DEF CommitProject, PutObject, CommitStored, Compensate, auth
  <2> QED BY <1>5, <2>1, <2>2, ProceedMoves DEF Proceed
<1>6. CASE Expire
  BY <1>6 DEF Expire, TypeOK
<1> QED
  BY <1>1, <1>2, <1>3, <1>4, <1>5, <1>6
  DEF Next, SignInStep, Finished, vars, DeleteSession, Disable

-----------------------------------------------------------------------------
(* What a request is.                                                      *)

LEMMA RequestStep ==
  ASSUME TypeOK, RequestInv, [Next]_vars
  PROVE  RequestInv'
<1> USE DEF RequestInv
<1>1. ASSUME request' = request
      PROVE  RequestInv'
  BY <1>1
<1>2. ASSUME NEW r \in Requests, Begin(r)
      PROVE  RequestInv'
  <2>1. request[r].answer = None
    BY <1>2, BeginKeeps DEF At
  <2> QED BY <1>2, <2>1, BeginType, BeginKeeps DEF Storing
<1>3. ASSUME NEW r \in Requests, Kept(r),
             request'[r].step # "answered" => request'[r].answer = None,
             request'[r].step \in {"finding", "inserting", "committingProject"}
               => request[r].op = "project",
             request'[r].step \in Storing \cup {"checking", "putting", "counting",
                                               "uploading", "compensating"}
               => request[r].op # "project",
             request'[r].step \in {"counting", "uploading", "lockingProject",
                                   "committingAsset"}
               => request[r].kind \in Kinds
      PROVE  RequestInv'
  BY <1>3 DEF Kept
<1>4. ASSUME NEW r \in Requests, request'[r].step = "answered", Kept(r)
      PROVE  RequestInv'
  BY <1>3, <1>4 DEF Storing
<1>5. ASSUME NEW r \in Requests, NEW step, Step(r, step),
             request[r].step # "answered",
             step \in {"finding", "inserting", "committingProject"}
               => request[r].op = "project",
             step \in Storing \cup {"checking", "putting", "counting",
                                    "uploading", "compensating"}
               => request[r].op # "project",
             step \in {"counting", "uploading", "lockingProject", "committingAsset"}
               => request[r].kind \in Kinds
      PROVE  RequestInv'
  BY <1>3, <1>5, StepKeeps
<1>6. ASSUME NEW r \in Requests, Refuse(r)
      PROVE  RequestInv'
  BY <1>4, <1>6, RefuseKeeps
<1>7. ASSUME NEW r \in Requests, NEW p, Answer(r, p)
      PROVE  RequestInv'
  BY <1>4, <1>7, AnswerKeeps
<1>8. ASSUME NEW r \in Requests,
             \/ ReadSession(r) \/ ResolvePrincipal(r) \/ RefuseInput(r) \/ LockActor(r)
      PROVE  RequestInv'
  BY <1>5, <1>6, <1>8
  DEF ReadSession, ResolvePrincipal, RefuseInput, LockActor, At, Storing
<1>9. ASSUME NEW r \in Requests, LockMembership(r)
      PROVE  RequestInv'
  BY <1>5, <1>6, <1>9 DEF LockMembership, At, Storing
<1>10. ASSUME NEW r \in Requests, FindRecord(r)
       PROVE  RequestInv'
  BY <1>5, <1>6, <1>7, <1>10 DEF FindRecord, Replay, At, Storing
<1>11. ASSUME NEW r \in Requests, InsertRecord(r)
       PROVE  RequestInv'
  <2>1. CASE Step(r, "committingProject")
    BY <1>5, <1>11, <2>1 DEF InsertRecord, At, Storing
  <2>2. CASE request' = [request EXCEPT ![r].step = "lockingActor",
                                        ![r].replaying = TRUE]
    <3>1. Kept(r) /\ request'[r].step = "lockingActor"
          /\ request'[r].answer = request[r].answer
      BY <2>2 DEF Kept, TypeOK, Request
    <3> QED BY <1>3, <1>11, <3>1 DEF InsertRecord, At, Storing
  <2> QED BY <1>11, <2>1, <2>2 DEF InsertRecord
<1>12. ASSUME NEW r \in Requests, CheckProject(r) \/ CountAssets(r) \/ LockProject(r)
       PROVE  RequestInv'
  BY <1>5, <1>6, <1>12 DEF CheckProject, CountAssets, LockProject, At, Storing
<1>13. ASSUME NEW r \in Requests, CommitProject(r) \/ Compensate(r)
       PROVE  RequestInv'
  BY <1>6, <1>7, <1>13 DEF CommitProject, Compensate
<1>14. ASSUME NEW r \in Requests, PutObject(r)
       PROVE  RequestInv'
  BY <1>5, <1>6, <1>14 DEF PutObject, At, Storing
<1>15. ASSUME NEW r \in Requests, CommitStored(r)
       PROVE  RequestInv'
  BY <1>5, <1>7, <1>15 DEF CommitStored, At, Storing
<1>16. ASSUME NEW r \in Requests, Crash(r)
       PROVE  RequestInv'
  BY <1>5, <1>16 DEF Crash, Storing
<1> QED
  BY <1>1, <1>2, <1>8, <1>9, <1>10, <1>11, <1>12, <1>13, <1>14, <1>15, <1>16
  DEF Next, SignInStep, Proceed, Finished, vars, CreateVerificationToken,
      UseVerificationToken, Authorize, CreateSession, DeleteSession, Expire, Disable

-----------------------------------------------------------------------------
(* A key makes one project.                                                *)

LEMMA KeyStep ==
  ASSUME TypeOK, RequestInv, KeyInv, [Next]_vars
  PROVE  KeyInv'
<1> USE DEF KeyInv
<1>1. ASSUME UNCHANGED <<request, record, projects>>
      PROVE  KeyInv'
  BY <1>1 DEF At
<1>2. ASSUME NEW r \in Requests, Begin(r)
      PROVE  KeyInv'
  <2>1. /\ request[r].answer = None /\ request'[r].answer = None
        /\ r \notin projects
    BY <1>2, BeginType, BeginKeeps DEF At, RequestInv
  <2>2. UNCHANGED <<record, projects>> /\ projects \subseteq Requests
    BY <1>2 DEF Begin, rows, TypeOK
  <2> QED BY <1>2, <2>1, <2>2, BeginKeeps DEF At
\* Steps that neither write nor enter the transaction's end.
<1>3. ASSUME NEW r \in Requests, Kept(r), UNCHANGED <<record, projects>>,
             request[r].step # "answered",
             request'[r].step # "committingProject",
             \/ request'[r].answer = None
             \/ request[r].op # "project"
             \/ /\ record[request[r].key] # None
                /\ request'[r].answer = record[request[r].key].project
      PROVE  KeyInv'
  <2>1. projects \subseteq Requests /\ r \notin projects
    BY <1>3 DEF TypeOK, At
  <2> QED BY <1>3, <2>1 DEF At, Kept
<1>4. ASSUME NEW r \in Requests, NEW step, Step(r, step), UNCHANGED <<record, projects>>,
             request[r].step # "answered", step # "committingProject"
      PROVE  KeyInv'
  <2>1. request'[r].answer = None
    BY <1>4, StepKeeps DEF RequestInv
  <2> QED BY <1>3, <1>4, <2>1, StepKeeps
<1>5. ASSUME NEW r \in Requests, Refuse(r), UNCHANGED <<record, projects>>,
             request[r].step # "answered"
      PROVE  KeyInv'
  BY <1>3, <1>5, RefuseKeeps
<1>6. ASSUME NEW r \in Requests,
             \/ ReadSession(r) \/ ResolvePrincipal(r) \/ RefuseInput(r) \/ LockActor(r)
             \/ LockMembership(r) \/ CheckProject(r) \/ CountAssets(r) \/ LockProject(r)
      PROVE  KeyInv'
  <2>1. request[r].step # "answered" /\ UNCHANGED <<record, projects>>
    BY <1>6, ProceedMoves DEF rows
  <2> QED
    BY <1>4, <1>5, <1>6, <2>1
    DEF ReadSession, ResolvePrincipal, RefuseInput, LockActor, LockMembership,
        CheckProject, CountAssets, LockProject
<1>7. ASSUME NEW r \in Requests, FindRecord(r)
      PROVE  KeyInv'
  <2>1. request[r].step # "answered" /\ UNCHANGED <<record, projects>>
    BY <1>7, ProceedMoves DEF rows
  <2>2. CASE Step(r, "inserting") \/ Refuse(r)
    BY <1>4, <1>5, <2>1, <2>2
  <2>3. CASE /\ record[request[r].key] # None
             /\ Answer(r, record[request[r].key].project)
    BY <1>3, <2>1, <2>3, AnswerKeeps
  <2> QED BY <1>7, <2>2, <2>3 DEF FindRecord, Replay
<1>8. ASSUME NEW r \in Requests, InsertRecord(r)
      PROVE  KeyInv'
  <2>1. request[r].step = "inserting" /\ UNCHANGED <<record, projects>>
    BY <1>8 DEF InsertRecord, At, rows
  <2>2. projects \subseteq Requests /\ r \notin projects /\ request[r].answer = None
    BY <2>1 DEF TypeOK, At, RequestInv
  <2>3. CASE ~Taken(r) /\ Step(r, "committingProject")
    <3>1. record[request[r].key] = None
      BY <2>3 DEF Taken
    <3>2. \A q \in Requests :
            ~(At(q, "committingProject") /\ request[q].key = request[r].key)
      BY <1>8 DEF InsertRecord
    <3>3. Kept(r) /\ request'[r].answer = None
      BY <2>2, <2>3, StepKeeps
    <3> QED BY <2>1, <2>2, <3>1, <3>2, <3>3 DEF At, Kept
  <2>4. CASE request' = [request EXCEPT ![r].step = "lockingActor",
                                        ![r].replaying = TRUE]
    <3>1. Kept(r) /\ request'[r].step = "lockingActor" /\ request'[r].answer = None
      BY <2>2, <2>4 DEF Kept, TypeOK, Request
    <3> QED BY <1>3, <2>1, <3>1
  <2> QED BY <1>8, <2>3, <2>4 DEF InsertRecord
<1>9. ASSUME NEW r \in Requests, CommitProject(r)
      PROVE  KeyInv'
  <2>1. request[r].step = "committingProject" /\ request[r].op = "project"
        /\ request[r].key \in Keys /\ request[r].answer = None
    BY <1>9 DEF CommitProject, At, RequestInv
  <2>2. record[request[r].key] = None
    BY <2>1 DEF At
  <2>3. CASE Refuse(r) /\ UNCHANGED <<record, projects>>
    BY <1>5, <2>1, <2>3
  <2>4. CASE /\ projects' = projects \cup {r}
             /\ record' = [record EXCEPT ![request[r].key] =
                             [name |-> request[r].name, project |-> r]]
             /\ Answer(r, r) \/ Refuse(r)
    <3>1. Kept(r) /\ At(r, "answered")' /\ request'[r].answer \in {r, None}
      BY <2>4, AnswerKeeps, RefuseKeeps DEF At
    <3>2. record'[request[r].key].project = r /\ record'[request[r].key] # None
      <4>1. r \in Requests /\ request[r].name \in Names
        BY <2>1 DEF RequestInv
      <4>2. [name |-> request[r].name, project |-> r] # None
        BY <4>1 DEF Record
      <4> QED BY <2>1, <2>4, <4>1, <4>2 DEF TypeOK
    <3>3. \A k \in Keys \ {request[r].key} : record'[k] = record[k]
      BY <2>4 DEF TypeOK
    <3>4. \A q \in Requests : request[q].op = "project" /\ request[q].answer # None
            => request[q].key # request[r].key
      BY <2>2
    <3>5. \A q \in projects : request[q].key # request[r].key /\ q # r
      BY <2>1, <2>2 DEF At
    <3>6. \A q \in Requests : At(q, "committingProject") /\ q # r
            => request[q].key # request[r].key
      BY <2>1 DEF At
    <3>7. \A q \in Requests : request[q].op = "project" => request[q].key \in Keys
      BY DEF RequestInv
    <3>8. projects \subseteq Requests
      BY DEF TypeOK
    <3>9. (\A q \in Requests : At(q, "committingProject") =>
            /\ record[request[q].key] = None
            /\ \A p \in Requests :
                 At(p, "committingProject") /\ request[p].key = request[q].key => p = q)'
      BY <3>1, <3>3, <3>6, <3>7 DEF At, Kept, RequestInv
    <3>10. (\A q \in projects :
             /\ request[q].op = "project" /\ At(q, "answered")
             /\ record[request[q].key] # None /\ record[request[q].key].project = q)'
      BY <2>1, <2>4, <3>1, <3>2, <3>3, <3>5, <3>7, <3>8 DEF At, Kept
    <3>11. (\A q \in Requests :
             request[q].op = "project" /\ request[q].answer # None =>
               /\ record[request[q].key] # None
               /\ request[q].answer = record[request[q].key].project)'
      BY <2>1, <3>1, <3>2, <3>3, <3>4, <3>7 DEF Kept
    <3> QED BY <3>9, <3>10, <3>11
  <2> QED BY <1>9, <2>3, <2>4 DEF CommitProject
<1>10. ASSUME NEW r \in Requests, PutObject(r) \/ CommitStored(r) \/ Compensate(r)
       PROVE  KeyInv'
  <2>1. request[r].step # "answered" /\ UNCHANGED <<record, projects>>
    BY <1>10 DEF PutObject, CommitStored, Compensate, At, rows
  <2>2. CASE CommitStored(r) /\ Answer(r, r)
    BY <1>3, <2>1, <2>2, AnswerKeeps DEF CommitStored, RequestInv, Storing
  <2> QED BY <1>4, <1>5, <1>10, <2>1, <2>2 DEF PutObject, CommitStored, Compensate
<1>11. ASSUME NEW r \in Requests, Crash(r)
       PROVE  KeyInv'
  BY <1>4, <1>11 DEF Crash, rows
<1> QED
  BY <1>1, <1>2, <1>6, <1>7, <1>8, <1>9, <1>10, <1>11
  DEF Next, SignInStep, Proceed, Finished, vars, rows, CreateVerificationToken,
      UseVerificationToken, Authorize, CreateSession, DeleteSession, Expire, Disable

-----------------------------------------------------------------------------
(* The limits of the pictures.                                             *)

LEMMA OfKindFinite ==
  ASSUME TypeOK, NEW kind
  PROVE  IsFiniteSet(OfKind(kind)) /\ Cardinality(OfKind(kind)) \in Nat
<1>1. OfKind(kind) \subseteq Requests
  BY DEF OfKind, TypeOK
<1> QED BY <1>1, FS_Subset, FS_CardinalityType

LEMMA CapacityStep ==
  ASSUME TypeOK, RequestInv, CapacityInv, [Next]_vars
  PROVE  CapacityInv'
<1>1. ASSUME UNCHANGED <<request, assets>>
      PROVE  CapacityInv'
  BY <1>1 DEF CapacityInv, At, OfKind
<1>2. assets \subseteq Requests
  BY DEF TypeOK
\* A step that writes no asset and takes no lock.
<1>3. ASSUME NEW r \in Requests, assets' = assets,
             \A q \in Requests \ {r} : request'[q] = request[q],
             request'[r].step # "committingAsset",
             \/ r \notin assets
             \/ /\ request'[r].kind = request[r].kind
                /\ request'[r].step \in {"compensating", "answered", "dead"}
      PROVE  CapacityInv'
  <2>1. \A kind : OfKind(kind)' = OfKind(kind)
    BY <1>2, <1>3 DEF OfKind
  <2> QED BY <1>2, <1>3, <2>1 DEF CapacityInv, At
<1>4. ASSUME NEW r \in Requests, Begin(r)
      PROVE  CapacityInv'
  <2>1. assets' = assets /\ r \notin assets
    BY <1>4 DEF CapacityInv, Begin, rows, At
  <2> QED BY <1>3, <1>4, <2>1, BeginKeeps
<1>5. ASSUME NEW r \in Requests,
             \/ ReadSession(r) \/ ResolvePrincipal(r) \/ RefuseInput(r) \/ LockActor(r)
             \/ LockMembership(r) \/ CheckProject(r) \/ CountAssets(r)
             \/ FindRecord(r) \/ InsertRecord(r)
      PROVE  CapacityInv'
  <2>1. Kept(r) /\ r \notin assets /\ assets' = assets
    BY <1>5, ProceedMoves DEF CapacityInv, rows
  <2>2. request'[r].step # "committingAsset"
    <3>1. CASE \/ ReadSession(r) \/ ResolvePrincipal(r) \/ RefuseInput(r) \/ LockActor(r)
               \/ LockMembership(r) \/ CheckProject(r) \/ CountAssets(r)
      BY <3>1, StepKeeps, RefuseKeeps
      DEF ReadSession, ResolvePrincipal, RefuseInput, LockActor, LockMembership,
          CheckProject, CountAssets
    <3>2. CASE FindRecord(r)
      BY <3>2, StepKeeps, RefuseKeeps, AnswerKeeps DEF FindRecord, Replay
    <3>3. CASE InsertRecord(r)
      BY <3>3, StepKeeps DEF InsertRecord, TypeOK, Request
    <3> QED BY <1>5, <3>1, <3>2, <3>3
  <2> QED BY <1>3, <2>1, <2>2 DEF Kept
<1>6. ASSUME NEW r \in Requests, LockProject(r)
      PROVE  CapacityInv'
  <2>1. Kept(r) /\ r \notin assets /\ assets' = assets
    BY <1>6, ProceedMoves DEF CapacityInv, rows
  <2>2. \A kind : OfKind(kind)' = OfKind(kind)
    BY <1>2, <2>1 DEF OfKind, Kept
  <2>3. CASE Fits(r) /\ Step(r, "committingAsset")
    <3>1. Cardinality(OfKind(request[r].kind)) < AssetLimit[request[r].kind]
      BY <2>3 DEF Fits, OfKind
    <3>2. \A q \in Requests : ~At(q, "committingAsset")
      BY <1>6 DEF LockProject
    <3> QED BY <1>2, <2>1, <2>2, <2>3, <3>1, <3>2, StepKeeps DEF CapacityInv, At, Kept
  <2>4. CASE Step(r, "compensating")
    BY <1>3, <2>1, <2>4, StepKeeps DEF Kept
  <2> QED BY <1>6, <2>3, <2>4 DEF LockProject
<1>7. ASSUME NEW r \in Requests, CommitProject(r) \/ PutObject(r) \/ Compensate(r)
      PROVE  CapacityInv'
  <2>1. assets' = assets /\ Kept(r)
    BY <1>7, StepKeeps, RefuseKeeps, AnswerKeeps DEF CommitProject, PutObject, Compensate, rows
  <2>2. request'[r].step # "committingAsset"
    BY <1>7, StepKeeps, RefuseKeeps, AnswerKeeps DEF CommitProject, PutObject, Compensate
  <2>3. CASE CommitProject(r) \/ PutObject(r)
    <3>1. r \notin assets
      BY <2>3 DEF CapacityInv, CommitProject, PutObject, At
    <3> QED BY <1>3, <2>1, <2>2, <3>1 DEF Kept
  <2>4. CASE Compensate(r)
    <3>1. request'[r].step = "answered"
      BY <2>4, RefuseKeeps DEF Compensate
    <3> QED BY <1>3, <2>1, <2>2, <3>1 DEF Kept
  <2> QED BY <1>7, <2>3, <2>4
<1>8. ASSUME NEW r \in Requests, CommitStored(r)
      PROVE  CapacityInv'
  <2>1. /\ r \notin assets /\ Kept(r)
        /\ request'[r].step \in {"answered", "compensating"}
    BY <1>8, StepKeeps, AnswerKeeps DEF CapacityInv, CommitStored, At
  <2>2. CASE assets' = assets
    BY <1>3, <2>1, <2>2 DEF Kept
  <2>3. CASE At(r, "committingAsset") /\ assets' = assets \cup {r}
    <3>1. PICK kept \in Kinds : kept = request[r].kind
      BY <2>3 DEF RequestInv, At
    <3>2. \A kind \in Kinds \ {kept} : OfKind(kind)' = OfKind(kind)
      BY <1>2, <2>1, <2>3, <3>1 DEF OfKind, Kept
    <3>3. OfKind(kept)' = OfKind(kept) \cup {r} /\ r \notin OfKind(kept)
      BY <1>2, <2>1, <2>3, <3>1 DEF OfKind, Kept
    <3>4. Cardinality(OfKind(kept)') = Cardinality(OfKind(kept)) + 1
      BY <3>3, OfKindFinite, FS_AddElement
    <3>5. Cardinality(OfKind(kept)') <= AssetLimit[kept]
      <4>1. Cardinality(OfKind(kept)) < AssetLimit[kept]
        BY <2>3, <3>1 DEF CapacityInv
      <4>2. Cardinality(OfKind(kept)) \in Nat
        BY OfKindFinite
      <4>3. AssetLimit[kept] \in Nat
        BY <3>1
      <4> QED BY <3>4, <4>1, <4>2, <4>3
    <3>6. ASSUME NEW kind \in Kinds
          PROVE  Cardinality(OfKind(kind)') <= AssetLimit[kind]
      <4>1. CASE kind = kept
        BY <3>5, <4>1
      <4>2. CASE kind # kept
        <5>1. OfKind(kind)' = OfKind(kind)
          BY <3>2, <4>2
        <5>2. Cardinality(OfKind(kind)) <= AssetLimit[kind]
          BY DEF CapacityInv
        <5> QED BY <5>1, <5>2
      <4> QED BY <4>1, <4>2
    <3>7. \A q \in Requests : ~At(q, "committingAsset")'
      BY <2>1, <2>3 DEF At, Kept, CapacityInv
    <3>8. \A q \in assets' : request'[q].step \in {"compensating", "answered", "dead"}
      BY <1>2, <2>1, <2>3 DEF CapacityInv, Kept
    <3> QED BY <3>6, <3>7, <3>8 DEF CapacityInv
  <2> QED BY <1>8, <2>2, <2>3 DEF CommitStored, At
<1>9. ASSUME NEW r \in Requests, Crash(r)
      PROVE  CapacityInv'
  <2>1. Kept(r) /\ request'[r].step = "dead" /\ assets' = assets
    BY <1>9, StepKeeps DEF Crash, rows
  <2> QED BY <1>3, <2>1 DEF Kept
<1> QED
  BY <1>1, <1>4, <1>5, <1>6, <1>7, <1>8, <1>9
  DEF Next, SignInStep, Proceed, Finished, vars, rows, CreateVerificationToken,
      UseVerificationToken, Authorize, CreateSession, DeleteSession, Expire, Disable

-----------------------------------------------------------------------------
(* The store and the tables.                                               *)

LEMMA ObjectStep ==
  ASSUME TypeOK, ObjectInv, [Next]_vars
  PROVE  ObjectInv'
<1> USE DEF ObjectInv, ObjectsMatchRows, At
<1>1. ASSUME UNCHANGED <<request, sources, assets, objects, inDoubt>>,
             faults' = 0 => faults = 0
      PROVE  ObjectInv'
  BY <1>1
\* A step of a request that has no answer yet and leaves the store alone.
<1>2. ASSUME NEW r \in Requests, UNCHANGED <<sources, assets, objects>>,
             inDoubt \subseteq inDoubt', faults' = 0 => faults = 0,
             \A q \in Requests \ {r} : request'[q] = request[q],
             request[r].step # "answered",
             request'[r].step \in Storing => r \in objects,
             r \in objects => \/ request'[r].step \in Storing \cup {"compensating"}
                              \/ request'[r].step = "dead" /\ faults' # 0
      PROVE  ObjectInv'
  <2>1. objects \subseteq Requests /\ sources \subseteq Requests /\ assets \subseteq Requests
    BY DEF TypeOK
  <2>2. request'[r].step \notin {"answered", "dead"} \/ r \notin objects \/ faults' # 0
    BY <1>2 DEF Storing
  <2> QED BY <1>2, <2>1, <2>2
<1>3. ASSUME NEW r \in Requests, Begin(r)
      PROVE  ObjectInv'
  <2>1. r \notin objects
    BY <1>3, BeginKeeps DEF Storing
  <2> QED BY <1>2, <1>3, <2>1, BeginKeeps DEF Begin, rows, Storing
<1>4. ASSUME NEW r \in Requests,
             \/ ReadSession(r) \/ ResolvePrincipal(r) \/ RefuseInput(r) \/ LockActor(r)
             \/ LockMembership(r) \/ CheckProject(r) \/ CountAssets(r)
             \/ FindRecord(r) \/ InsertRecord(r)
      PROVE  ObjectInv'
  <2>1. /\ Kept(r) /\ request[r].step # "answered"
        /\ UNCHANGED <<sources, assets, objects, inDoubt, faults>>
    BY <1>4, ProceedMoves DEF rows
  <2>2. r \notin objects /\ request'[r].step \notin Storing
    <3>1. CASE \/ ReadSession(r) \/ ResolvePrincipal(r) \/ RefuseInput(r) \/ LockActor(r)
               \/ LockMembership(r) \/ CheckProject(r) \/ CountAssets(r)
      BY <3>1, StepKeeps, RefuseKeeps
      DEF ReadSession, ResolvePrincipal, RefuseInput, LockActor, LockMembership,
          CheckProject, CountAssets, Storing
    <3>2. CASE FindRecord(r)
      BY <3>2, StepKeeps, RefuseKeeps, AnswerKeeps DEF FindRecord, Replay, Storing
    <3>3. CASE InsertRecord(r)
      BY <3>3, StepKeeps DEF InsertRecord, TypeOK, Request, Storing
    <3> QED BY <1>4, <3>1, <3>2, <3>3
  <2> QED BY <1>2, <2>1, <2>2 DEF Kept
<1>5. ASSUME NEW r \in Requests, LockProject(r)
      PROVE  ObjectInv'
  <2>1. /\ Kept(r) /\ UNCHANGED <<sources, assets, objects, inDoubt, faults>>
        /\ request[r].step = "lockingProject"
    BY <1>5, ProceedMoves DEF rows, LockProject
  <2>2. r \in objects /\ request'[r].step \in {"committingAsset", "compensating"}
    BY <1>5, <2>1, StepKeeps DEF LockProject, Storing
  <2> QED BY <1>2, <2>1, <2>2 DEF Kept, Storing
<1>6. ASSUME NEW r \in Requests, CommitProject(r) \/ Crash(r)
      PROVE  ObjectInv'
  <2>1. /\ Kept(r) /\ UNCHANGED <<sources, assets, objects>> /\ inDoubt \subseteq inDoubt'
        /\ faults' = 0 => faults = 0
    BY <1>6, StepKeeps, RefuseKeeps, AnswerKeeps
    DEF CommitProject, Crash, rows, Fault, NoFault, TypeOK
  <2>2. CASE CommitProject(r)
    <3>1. request[r].step = "committingProject" /\ request'[r].step = "answered"
      BY <2>2, RefuseKeeps, AnswerKeeps DEF CommitProject
    <3>2. r \notin objects
      BY <3>1 DEF Storing
    <3> QED BY <1>2, <2>1, <3>1, <3>2 DEF Kept, Storing
  <2>3. CASE Crash(r)
    <3>1. /\ request[r].step # "answered" /\ request'[r].step = "dead"
          /\ faults' # 0
      BY <2>3, StepKeeps DEF Crash, Fault, TypeOK
    <3> QED BY <1>2, <2>1, <3>1 DEF Kept, Storing
  <2> QED BY <1>6, <2>2, <2>3
<1>7. ASSUME NEW r \in Requests, PutObject(r)
      PROVE  ObjectInv'
  <2>1. /\ Kept(r) /\ UNCHANGED <<sources, assets, inDoubt>>
        /\ request[r].step \in {"putting", "uploading"}
    BY <1>7, StepKeeps, RefuseKeeps DEF PutObject, rows
  <2>2. CASE /\ objects' = objects \cup {r}
             /\ request'[r].step \in {"committingSource", "lockingProject"}
             /\ faults' = faults
    BY <2>1, <2>2 DEF Kept, Storing, TypeOK
  <2>3. CASE /\ objects' \in {objects, objects \cup {r}}
             /\ request'[r].step = "answered" /\ faults' # 0
    BY <2>1, <2>3 DEF Kept, Storing, TypeOK
  <2> QED BY <1>7, <2>2, <2>3, StepKeeps, RefuseKeeps DEF PutObject, Fault, NoFault, TypeOK
<1>8. ASSUME NEW r \in Requests, CommitStored(r)
      PROVE  ObjectInv'
  <2>1. /\ Kept(r) /\ objects' = objects /\ r \in objects
        /\ request[r].step \in {"committingSource", "committingAsset"}
    BY <1>8, StepKeeps, AnswerKeeps DEF CommitStored, Storing
  <2>2. CASE /\ (sources' \cup assets') = (sources \cup assets) \cup {r}
             /\ request'[r].step = "answered"
             /\ faults' = faults /\ inDoubt' = inDoubt
    BY <2>1, <2>2 DEF Kept, Storing, TypeOK
  <2>3. CASE /\ (sources' \cup assets') = (sources \cup assets) \cup {r}
             /\ request'[r].step = "compensating"
             /\ faults' # 0 /\ inDoubt' = inDoubt \cup {r}
    BY <2>1, <2>3 DEF Kept, Storing, TypeOK
  <2>4. CASE /\ UNCHANGED <<sources, assets, inDoubt>>
             /\ request'[r].step = "compensating" /\ faults' # 0
    BY <2>1, <2>4 DEF Kept, Storing, TypeOK
  <2> QED
    BY <1>8, <2>2, <2>3, <2>4, StepKeeps, AnswerKeeps
    DEF CommitStored, Fault, NoFault, TypeOK
<1>9. ASSUME NEW r \in Requests, Compensate(r)
      PROVE  ObjectInv'
  <2>1. /\ Kept(r) /\ UNCHANGED <<sources, assets, inDoubt>>
        /\ request[r].step = "compensating" /\ request'[r].step = "answered"
        /\ objects' \in {objects, objects \ {r}}
        /\ faults' = 0 => objects' = objects \ {r} /\ faults = 0
    BY <1>9, RefuseKeeps DEF Compensate, rows, Deleted, Fault, NoFault, TypeOK
  <2>2. r \notin (sources \cup assets) \ inDoubt
    BY <2>1
  <2>3. CASE objects' = objects \ {r}
    BY <2>1, <2>2, <2>3 DEF Kept, Storing, TypeOK
  <2>4. CASE objects' = objects /\ faults' # 0
    BY <2>1, <2>2, <2>4 DEF Kept, Storing, TypeOK
  <2> QED BY <2>1, <2>3, <2>4
<1> QED
  <2>1. ASSUME NEW s \in SignIns, SignInStep(s)
        PROVE  ObjectInv'
    BY <1>1, <2>1
    DEF SignInStep, rows, UseVerificationToken, Authorize, CreateSession, DeleteSession,
        Fault, NoFault, TypeOK
  <2>2. CASE \/ \E t \in Tokens : CreateVerificationToken(t)
             \/ \E x \in Identity : Disable(x)
             \/ Expire \/ Finished \/ UNCHANGED vars
    BY <1>1, <2>2 DEF vars, rows, CreateVerificationToken, Disable, Expire, Finished
  <2>3. ASSUME NEW r \in Requests, Proceed(r)
        PROVE  ObjectInv'
    BY <1>4, <1>5, <1>6, <1>7, <1>8, <1>9, <2>3 DEF Proceed
  <2> QED BY <1>3, <1>6, <2>1, <2>2, <2>3 DEF Next

-----------------------------------------------------------------------------
(* The theorems.                                                           *)

LEMMA InitInv == Init => IntakeInv
<1> SUFFICES ASSUME Init PROVE IntakeInv
  OBVIOUS
<1>1. TypeOK
  BY InitTypes
<1>2. /\ assets = {} /\ sources = {} /\ projects = {} /\ objects = {}
      /\ \A r \in Requests : request[r] = IdleRequest
      /\ \A s \in SignIns : signIn[s].step = "idle"
  BY DEF Init
<1>3. ScopeInv /\ RequestInv /\ KeyInv
  <2>1. \A r \in Requests : /\ request[r].step = "idle" /\ request[r].answer = None
                            /\ request[r].op \notin Operations
    BY <1>2 DEF IdleRequest
  <2> QED
    BY <1>2, <2>1
    DEF ScopeInv, RequestInv, KeyInv, At, InScope, Storing, Operations
<1>4. TokenInv
  BY <1>2 DEF TokenInv, Bearing
<1>5. CapacityInv
  <2>1. \A kind \in Kinds : OfKind(kind) = {} /\ AssetLimit[kind] \in Nat
    BY <1>2 DEF OfKind
  <2>2. \A kind \in Kinds : Cardinality(OfKind(kind)) <= AssetLimit[kind]
    BY <2>1, FS_EmptySet
  <2> QED BY <1>2, <2>2 DEF CapacityInv, IdleRequest, At
<1>6. ObjectInv
  BY <1>2 DEF ObjectInv, ObjectsMatchRows, IdleRequest, At, Storing
<1> QED BY <1>1, <1>3, <1>4, <1>5, <1>6 DEF IntakeInv

\* The rows of registerP2SourceSnapshot() and createAssetRecord() have their
\* objects unless an answer of COMMIT was lost, no object is left behind
\* without a fault, and what a request found before an await still holds
\* after it wherever a lock keeps it so.
THEOREM IntakeInvariant == Spec => []IntakeInv
<1>1. Init => IntakeInv
  BY InitInv
<1>2. IntakeInv /\ [Next]_vars => IntakeInv'
  BY TypeStep, ScopeStep, TokenStep, RequestStep, KeyStep, CapacityStep, ObjectStep
  DEF IntakeInv
<1> QED BY <1>1, <1>2, PTL DEF Spec

\* The count under the lock of createAssetRecord() holds the limit of every
\* kind, although the count before the upload is stale by then.
THEOREM CapacityKept == Spec => []AssetsWithinLimit
<1>1. IntakeInv => AssetsWithinLimit
  BY DEF IntakeInv, CapacityInv, AssetsWithinLimit, OfKind
<1> QED BY <1>1, IntakeInvariant, PTL

\* The DELETE of useVerificationToken() and the unique key of
\* runIdempotentCreate() let a token open one session and a key make one
\* project.
THEOREM TokensAndKeysUsedOnce == Spec => []UsedOnce
<1>1. IntakeInv => UsedOnce
  BY DEF IntakeInv, TokenInv, KeyInv, UsedOnce, Bearing
<1> QED BY <1>1, IntakeInvariant, PTL

\* The FOR SHARE locks of withP2WorkspaceMembershipScope() last until the
\* commit: no project and no source is written for a disabled principal.
THEOREM NoWriteAfterDisable == Spec => NoWriteWhenDisabled
<1>1. IntakeInv /\ [Next]_vars
        => (projects' # projects \/ sources' # sources => \A x \in Identity : active[x])
  <2> SUFFICES ASSUME IntakeInv, [Next]_vars, projects' # projects \/ sources' # sources
               PROVE  \A x \in Identity : active[x]
    OBVIOUS
  <2>1. PICK r \in Requests : CommitProject(r) \/ CommitStored(r)
    <3>1. ASSUME NEW r \in Requests,
                 \/ Begin(r) \/ Crash(r)
                 \/ Proceed(r) /\ ~CommitProject(r) /\ ~CommitStored(r)
          PROVE  FALSE
      BY <3>1, ProceedMoves DEF IntakeInv, Proceed, Begin, Crash, PutObject, Compensate, rows
    <3>2. ASSUME NEW s \in SignIns, SignInStep(s)
          PROVE  FALSE
      BY <3>2
      DEF SignInStep, rows, UseVerificationToken, Authorize, CreateSession, DeleteSession
    <3>3. ~ \/ \E t \in Tokens : CreateVerificationToken(t)
            \/ \E x \in Identity : Disable(x)
            \/ Expire \/ Finished \/ UNCHANGED vars
      BY DEF vars, rows, CreateVerificationToken, Disable, Expire, Finished
    <3> QED BY <3>1, <3>2, <3>3 DEF Next
  <2>2. request[r].step \in InScope
    BY <2>1 DEF CommitProject, CommitStored, At, InScope
  <2> QED BY <2>2 DEF IntakeInv, ScopeInv
<1> QED BY <1>1, IntakeInvariant, PTL DEF Spec, NoWriteWhenDisabled
=============================================================================
