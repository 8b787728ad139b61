------------------------ MODULE MCGenerationWorker ------------------------
(* Small instances of GenerationWorker for TLC. *)
EXTENDS GenerationInvariants, TLC

CONSTANTS j1, j2, w1, w2, w3, p1, p2, qwen, mock

OneProject  == [j \in Jobs |-> p1]
AllQwen     == [j \in Jobs |-> qwen]
WorkersQwen == [w \in Workers |-> qwen]

\* Every answer the Qwen adapter can give.
QwenAll == QwenAnswers(DownloadErrors)

\* The Qwen adapter with downloads that fail only as the port's contract
\* allows (timeouts, 5xx, other errors), and the mock's scenarios.
HonestQwen == QwenAnswers({"UNAVAILABLE", "OTHER"})
              \cup {InvalidId(TRUE), InvalidId(FALSE),
                   OtherError(TRUE), OtherError(FALSE)}

ASSUME HonestQwenIsHonest == Honest(HonestQwen) /\ Honest(MockAnswers)
=============================================================================
