-------------------------- MODULE MCBenchmarkRuns --------------------------
(* An instance of BenchmarkRuns for TLC. *)
EXTENDS BenchmarkInvariants

\* The Qwen adapter, with downloads that fail only as the port's contract
\* allows (QwenDownloadRateLimited shows what the other ones do).
HonestQwen == QwenAnswers({"UNAVAILABLE", "OTHER"})
              \cup {OtherError(TRUE), OtherError(FALSE)}
=============================================================================
