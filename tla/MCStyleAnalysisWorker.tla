----------------------- MODULE MCStyleAnalysisWorker -----------------------
(* Small instances of StyleAnalysisWorker for TLC. *)
EXTENDS StyleAnalysisInvariants, TLC

CONSTANTS j1, j2, p1, mock

OneProject  == [j \in Jobs |-> p1]
AllMock     == [j \in Jobs |-> mock]
WorkersMock == [w \in Workers |-> mock]
=============================================================================
