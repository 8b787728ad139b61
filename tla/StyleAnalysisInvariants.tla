----------------------- MODULE StyleAnalysisInvariants -----------------------
(***************************************************************************)
(* The inductive invariant behind the safety properties of                 *)
(* StyleAnalysisWorker: why the project lock alone numbers the revisions   *)
(* without a gap, and what a worker knows of its job without a lease token.*)
(***************************************************************************)
EXTENDS StyleAnalysisWorker

\* Under the lock of its project a transaction that has read the latest
\* number is about to write the next one, and the numbers are those of
\* RevisionsAreNumberedInTurn.
NumberingInv ==
  /\ IsFiniteSet(revisions)
  /\ RevisionsAreNumberedInTurn
  /\ \A w \in Workers : worker[w].step = "writing" =>
       worker[w].number = NextNumber(ProjectOf[worker[w].job])
  /\ \A e \in Editors : editor[e].step = "writing" =>
       editor[e].number = NextNumber(editor[e].project)

\* A row nobody inserted was never attempted.
AbsentInv == \A j \in Jobs : job[j].status = "ABSENT" => job[j].attempts = 0

\* While no worker has outlasted its lease, a worker at its turn has its job
\* to itself, the job waits for nobody, and while it is running the worker
\* knows the row's attempt count and holds a lease that has not run out.
TurnInv == ~overran =>
  /\ \A w \in Workers : Busy(w) =>
       /\ job[worker[w].job].status \notin {"ABSENT", "QUEUED"}
       /\ job[worker[w].job].status = "RUNNING" =>
            /\ worker[w].attempts = job[worker[w].job].attempts
            /\ ~job[worker[w].job].expired
  /\ \A v, w \in Workers :
       Busy(v) /\ Busy(w) /\ worker[v].job = worker[w].job => v = w

\* Types and locks, numbers, and who works on what.
StyleInv == TypeOK /\ NumberingInv /\ OneRevisionPerSuccess
            /\ AbsentInv /\ TurnInv
=============================================================================
