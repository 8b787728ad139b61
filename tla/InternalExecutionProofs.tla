----------------------- MODULE InternalExecutionProofs -----------------------
(***************************************************************************)
(* Theorems about InternalExecution for every number of tasks, requests,   *)
(* processes and faults.                                                   *)
(***************************************************************************)
EXTENDS InternalExecution, TLAPS

-----------------------------------------------------------------------------
(* Type correctness.                                                       *)

\* A well typed request stays so when it moves on or is answered.
LEMMA RequestTypes ==
  ASSUME TypeOK, NEW r \in Requests
  PROVE  /\ request[r].task \in Tasks
         /\ \A step \in Working \cup {"claimUnknown"} :
              Goto(r, step) => request' \in [Requests -> Request]
         /\ \A a \in Answers : Reply(r, a) => request' \in [Requests -> Request]
<1> DEFINE Steps == {"idle", "claiming", "claimUnknown", "answered"}
                      \cup Working
<1>1. request \in [Requests -> [step : Steps, task : Tasks,
                                put : {"CONFIRMED", "UNKNOWN"},
                                answer : Answers]]
  BY DEF TypeOK, Request
<1>2. Working \cup {"claimUnknown", "answered"} \subseteq Steps
  OBVIOUS
<1> HIDE DEF Steps
<1>3. request[r].task \in Tasks
  BY <1>1
<1>4. ASSUME NEW step \in Steps, Goto(r, step)
      PROVE  request' \in [Requests -> [step : Steps, task : Tasks,
                                        put : {"CONFIRMED", "UNKNOWN"},
                                        answer : Answers]]
  BY <1>1, <1>4 DEF Goto
<1>5. ASSUME NEW a \in Answers, Reply(r, a)
      PROVE  request' \in [Requests -> [step : Steps, task : Tasks,
                                        put : {"CONFIRMED", "UNKNOWN"},
                                        answer : Answers]]
  BY <1>1, <1>2, <1>5 DEF Reply
<1>6. QED
  BY <1>2, <1>3, <1>4, <1>5 DEF Request, Steps

LEMMA AnswerType == \A s \in Status : AnswerOf(s) \in Answers
  BY DEF Status, Decided, AnswerOf, Answers

LEMMA VerdictType ==
  ASSUME TypeOK, NEW r \in Requests
  PROVE  Verdict(r, stored[request[r].task]) \in Working
  BY DEF TypeOK, Verdict, Contents, Working, Request

\* The end of a transaction on a row that is not decided.
LEMMA RowTypes ==
  ASSUME TypeOK, NEW t \in Tasks, NEW s \in Status \ {"QUEUED"},
         Committed(t, s) \/ InDoubt(t, s),
         Locks(t), status[t] \notin Decided
  PROVE  /\ status' \in [Tasks -> Status]
         /\ pending' \in [Tasks -> Status \cup {"none"}]
         /\ \A u \in Tasks : pending'[u] # "none" => status'[u] \notin Decided
  BY DEF TypeOK, Committed, InDoubt, Locks

LEMMA FaultType == TypeOK /\ (Fault \/ NoFault) => faults' \in Nat
  BY DEF TypeOK, Fault, NoFault

LEMMA TypeInit == Init => TypeOK
  BY DEF Init, TypeOK, Status, Contents, Request, Answers, Decided, Working

LEMMA TypeStep == TypeOK /\ [Next]_vars => TypeOK'
<1> SUFFICES ASSUME TypeOK, [Next]_vars PROVE TypeOK'
  OBVIOUS
<1>0. DEFINE Rows == /\ status' \in [Tasks -> Status]
                     /\ pending' \in [Tasks -> Status \cup {"none"}]
                     /\ \A u \in Tasks :
                          pending'[u] # "none" => status'[u] \notin Decided
<1>1. ASSUME NEW r \in Requests, NEW t \in Tasks, Begin(r, t) PROVE TypeOK'
  BY <1>1 DEF Begin, TypeOK, Request
<1>2. ASSUME NEW r \in Requests, Claim(r) PROVE TypeOK'
  <2> DEFINE t == request[r].task
  <2>1. faults' \in Nat
    BY <1>2, FaultType DEF Claim, InDoubt
  <2>2. Rows
    <3>1. CASE UNCHANGED <<status, pending>>
      BY <3>1 DEF TypeOK
    <3>2. CASE Locks(t) /\ Claimable(t)
               /\ (Committed(t, "RUNNING") \/ InDoubt(t, "RUNNING"))
      BY <3>2, RowTypes, RequestTypes DEF Claimable, Status, Decided
    <3>3. QED
      BY <1>2, <3>1, <3>2 DEF Claim
  <2>3. request' \in [Requests -> Request]
    <3>1. status[t] \in Status
      BY RequestTypes DEF TypeOK
    <3>2. QED
      BY <1>2, <3>1, RequestTypes, AnswerType DEF Claim, Working, Answers
  <2>4. QED
    BY <1>2, <2>1, <2>2, <2>3 DEF TypeOK, Claim
<1>3. ASSUME NEW r \in Requests, Reread(r) PROVE TypeOK'
  <2>1. status[request[r].task] \in Status
    BY RequestTypes DEF TypeOK
  <2>2. request' \in [Requests -> Request] /\ faults' \in Nat
    BY <1>3, <2>1, RequestTypes, AnswerType, FaultType DEF Reread, Answers
  <2>3. QED
    BY <1>3, <2>2 DEF TypeOK, Reread
<1>4. ASSUME NEW r \in Requests, Execute(r) PROVE TypeOK'
  <2>1. request' \in [Requests -> Request]
    BY <1>4, RequestTypes DEF Execute, Working
  <2>2. QED
    BY <1>4, <2>1, RequestTypes DEF TypeOK, Execute
<1>5. ASSUME NEW r \in Requests, PutObject(r) PROVE TypeOK'
  <2>1. faults' \in Nat
    BY <1>5, FaultType DEF PutObject
  <2>2. stored' \in [Tasks -> Contents]
    BY <1>5, RequestTypes DEF PutObject, TypeOK, Contents
  <2>3. request' \in [Requests -> Request]
    BY <1>5, RequestTypes DEF PutObject, TypeOK, Request, Working
  <2>4. QED
    BY <1>5, <2>1, <2>2, <2>3 DEF TypeOK, PutObject
<1>6. ASSUME NEW r \in Requests, ReadObject(r) PROVE TypeOK'
  <2>1. request' \in [Requests -> Request] /\ faults' \in Nat
    BY <1>6, RequestTypes, VerdictType, FaultType DEF ReadObject, Working
  <2>2. QED
    BY <1>6, <2>1 DEF TypeOK, ReadObject
<1>7. ASSUME NEW r \in Requests, Finalize(r) PROVE TypeOK'
  <2> DEFINE t == request[r].task
  <2>1. request' \in [Requests -> Request]
    BY <1>7, RequestTypes DEF Finalize, Working, Answers
  <2>2. faults' \in Nat
    BY <1>7, FaultType DEF Finalize, InDoubt, TypeOK
  <2>3. Rows
    <3>1. CASE UNCHANGED <<status, pending>>
      BY <3>1 DEF TypeOK
    <3>2. CASE status[t] = "RUNNING" /\ Locks(t)
               /\ (Committed(t, "SUCCEEDED") \/ InDoubt(t, "SUCCEEDED"))
      BY <3>2, RowTypes, RequestTypes DEF Status, Decided
    <3>3. QED
      BY <1>7, <3>1, <3>2 DEF Finalize
  <2>4. QED
    BY <1>7, <2>1, <2>2, <2>3 DEF TypeOK, Finalize
<1>8. ASSUME NEW r \in Requests, RereadBeforeDeletion(r) PROVE TypeOK'
  <2>1. status[request[r].task] \in Status
    BY RequestTypes DEF TypeOK
  <2>2. request' \in [Requests -> Request] /\ faults' \in Nat
    BY <1>8, <2>1, RequestTypes, AnswerType, FaultType
       DEF RereadBeforeDeletion, Answers, Working
  <2>3. QED
    BY <1>8, <2>2 DEF TypeOK, RereadBeforeDeletion
<1>9. ASSUME NEW r \in Requests, DeleteExact(r) PROVE TypeOK'
  <2>1. request' \in [Requests -> Request] /\ faults' \in Nat
    BY <1>9, RequestTypes, FaultType DEF DeleteExact, Working
  <2>2. stored' \in [Tasks -> Contents]
    BY <1>9, RequestTypes DEF DeleteExact, TypeOK, Contents
  <2>3. QED
    BY <1>9, <2>1, <2>2 DEF TypeOK, DeleteExact
<1>10. ASSUME NEW r \in Requests, Terminal(r) PROVE TypeOK'
  <2> DEFINE t == request[r].task
             s == IF request[r].step = "blocking" THEN "HARD_BLOCKED"
                  ELSE "FAILED"
  <2>1. s \in Status \ {"QUEUED"} /\ AnswerOf(s) \in Answers
    BY AnswerType DEF Status, Decided
  <2>2. request' \in [Requests -> Request]
    BY <1>10, <2>1, RequestTypes DEF Terminal, Working
  <2>3. faults' \in Nat
    BY <1>10, FaultType DEF Terminal, InDoubt, TypeOK
  <2>4. Rows
    <3>1. CASE UNCHANGED <<status, pending>>
      BY <3>1 DEF TypeOK
    <3>2. CASE status[t] = "RUNNING" /\ Locks(t)
               /\ (Committed(t, s) \/ InDoubt(t, s))
      BY <2>1, <3>2, RowTypes, RequestTypes DEF Decided
    <3>3. QED
      BY <1>10, <3>1, <3>2 DEF Terminal
  <2>5. QED
    BY <1>10, <2>2, <2>3, <2>4 DEF TypeOK, Terminal
<1>11. ASSUME NEW t \in Tasks, EndOpenTransaction(t) PROVE TypeOK'
  BY <1>11 DEF EndOpenTransaction, TypeOK
<1>12. ASSUME NEW p \in Processes, Crash(p) PROVE TypeOK'
  <2>1. request' \in [Requests -> Request]
    BY <1>12 DEF Crash, TypeOK, Request
  <2>2. stored' \in [Tasks -> Contents] /\ faults' \in Nat
    BY <1>12, FaultType DEF Crash, TypeOK, Contents
  <2>3. QED
    BY <1>12, <2>1, <2>2 DEF Crash, TypeOK
<1>13. CASE UNCHANGED vars
  BY <1>13 DEF vars, TypeOK
<1>14. QED
  BY <1>1, <1>2, <1>3, <1>4, <1>5, <1>6, <1>7, <1>8, <1>9, <1>10, <1>11,
     <1>12, <1>13 DEF Next, Proceed

\* Every reachable state is well typed, and no transaction is left open on a
\* task that is decided: executeInternalAssetTask() and its callees never
\* leave their domain.
THEOREM ExecutionTypeCorrect == Spec => []TypeOK
<1>1. Init => TypeOK
  BY TypeInit
<1>2. TypeOK /\ [Next]_vars => TypeOK'
  BY TypeStep
<1>3. QED
  BY <1>1, <1>2, PTL DEF Spec
-----------------------------------------------------------------------------
(* The inductive invariant.                                                *)

LEMMA InvInit == Init => CoreInv
<1> SUFFICES ASSUME Init PROVE CoreInv
  OBVIOUS
<1>1. \A r \in Requests : request[r].step = "idle"
  BY DEF Init
<1>2. OneWorker /\ WorkerInv /\ AnswersAreFinal
  BY <1>1 DEF OneWorker, Works, WorkerInv, Working, AnswersAreFinal
<1>3. RowInv /\ ExecutedOnce
  BY DEF Init, RowInv, ExecutedOnce
<1>4. QED
  BY <1>2, <1>3 DEF CoreInv

\* A task stays with its worker when requests only move on.
LEMMA OneWorkerKept ==
  ASSUME OneWorker,
         \A r \in Requests : /\ request'[r].task = request[r].task
                             /\ request'[r].step \in Working =>
                                  request[r].step \in Working
  PROVE  OneWorker'
  BY DEF OneWorker, Works

LEMMA InvStep == TypeOK /\ CoreInv /\ [Next]_vars => CoreInv'
<1> SUFFICES ASSUME TypeOK, CoreInv, [Next]_vars PROVE CoreInv'
  OBVIOUS
<1> USE RequestTypes DEF CoreInv
<1>1. ASSUME NEW r \in Requests, NEW t \in Tasks, Begin(r, t) PROVE CoreInv'
  <2>1. OneWorker'
    BY <1>1 DEF Begin, OneWorker, Works, WorkerInv, Working, TypeOK, Request
  <2>2. RowInv'
    BY <1>1 DEF Begin, RowInv, WorkerInv, Working, TypeOK, Request
  <2>3. WorkerInv'
    BY <1>1
       DEF Begin, WorkerInv, RowInv, OneWorker, Works, Working, Contents,
           TypeOK, Request
  <2>4. ExecutedOnce'
    BY <1>1 DEF Begin, ExecutedOnce, RowInv, WorkerInv, TypeOK, Request
  <2>5. AnswersAreFinal'
    BY <1>1
       DEF Begin, AnswersAreFinal, AnswerOf, WorkerInv, Working, Status,
           Decided, TypeOK, Request
  <2>6. QED
    BY <2>1, <2>2, <2>3, <2>4, <2>5
<1>2. ASSUME NEW r \in Requests, Claim(r) PROVE CoreInv'
  <2>1. OneWorker'
    BY <1>2
       DEF Claim, Claimable, Committed, InDoubt, Locks, Goto, Reply,
           OneWorker, Works, WorkerInv, Working, TypeOK, Request
  <2>2. RowInv'
    BY <1>2
       DEF Claim, Claimable, Committed, InDoubt, Locks, Goto, Reply, RowInv,
           WorkerInv, Working, TypeOK, Request
  <2>3. WorkerInv'
    BY <1>2
       DEF Claim, Claimable, Committed, InDoubt, Locks, Goto, Reply,
           WorkerInv, RowInv, OneWorker, Works, Working, Contents, TypeOK,
           Request
  <2>4. ExecutedOnce'
    BY <1>2
       DEF Claim, Claimable, Committed, InDoubt, Locks, Goto, Reply,
           ExecutedOnce, RowInv, WorkerInv, TypeOK, Request
  <2>5. AnswersAreFinal'
    BY <1>2
       DEF Claim, Claimable, Committed, InDoubt, Locks, Goto, Reply,
           AnswersAreFinal, AnswerOf, WorkerInv, Working, Status, Decided,
           TypeOK, Request
  <2>6. QED
    BY <2>1, <2>2, <2>3, <2>4, <2>5
<1>3. ASSUME NEW r \in Requests, Reread(r) PROVE CoreInv'
  <2>1. OneWorker'
    BY <1>3
       DEF Reread, Locks, Goto, Reply, OneWorker, Works, WorkerInv, Working,
           TypeOK, Request
  <2>2. RowInv'
    BY <1>3
       DEF Reread, Locks, Goto, Reply, RowInv, WorkerInv, Working, TypeOK,
           Request
  <2>3. WorkerInv'
    BY <1>3
       DEF Reread, Locks, Goto, Reply, WorkerInv, RowInv, OneWorker, Works,
           Working, Contents, TypeOK, Request
  <2>4. ExecutedOnce'
    BY <1>3
       DEF Reread, Locks, Goto, Reply, ExecutedOnce, RowInv, WorkerInv,
           TypeOK, Request
  <2>5. AnswersAreFinal'
    BY <1>3
       DEF Reread, Locks, Goto, Reply, AnswersAreFinal, AnswerOf, WorkerInv,
           Working, Status, Decided, TypeOK, Request
  <2>6. QED
    BY <2>1, <2>2, <2>3, <2>4, <2>5
<1>4. ASSUME NEW r \in Requests, Execute(r) PROVE CoreInv'
  <2>1. OneWorker'
    BY <1>4
       DEF Execute, Goto, OneWorker, Works, WorkerInv, Working, TypeOK,
           Request
  <2>2. RowInv'
    BY <1>4 DEF Execute, Goto, RowInv, WorkerInv, Working, TypeOK, Request
  <2>3. WorkerInv'
    BY <1>4
       DEF Execute, Goto, WorkerInv, RowInv, OneWorker, Works, Working,
           Contents, TypeOK, Request
  <2>4. ExecutedOnce'
    BY <1>4
       DEF Execute, Goto, ExecutedOnce, RowInv, WorkerInv, TypeOK, Request
  <2>5. AnswersAreFinal'
    BY <1>4
       DEF Execute, Goto, AnswersAreFinal, AnswerOf, WorkerInv, Working,
           Status, Decided, TypeOK, Request
  <2>6. QED
    BY <2>1, <2>2, <2>3, <2>4, <2>5
<1>5. ASSUME NEW r \in Requests, PutObject(r) PROVE CoreInv'
  <2>1. OneWorker'
    BY <1>5
       DEF PutObject, Goto, OneWorker, Works, WorkerInv, Working, TypeOK,
           Request
  <2>2. RowInv'
    BY <1>5 DEF PutObject, Goto, RowInv, WorkerInv, Working, TypeOK, Request
  <2>3. WorkerInv'
    BY <1>5
       DEF PutObject, Goto, WorkerInv, RowInv, OneWorker, Works, Working,
           Contents, TypeOK, Request
  <2>4. ExecutedOnce'
    BY <1>5
       DEF PutObject, Goto, ExecutedOnce, RowInv, WorkerInv, TypeOK, Request
  <2>5. AnswersAreFinal'
    BY <1>5
       DEF PutObject, Goto, AnswersAreFinal, AnswerOf, WorkerInv, Working,
           Status, Decided, TypeOK, Request
  <2>6. QED
    BY <2>1, <2>2, <2>3, <2>4, <2>5
<1>6. ASSUME NEW r \in Requests, ReadObject(r) PROVE CoreInv'
  <2>1. OneWorker'
    BY <1>6
       DEF ReadObject, Goto, Verdict, OneWorker, Works, WorkerInv, Working,
           TypeOK, Request
  <2>2. RowInv'
    BY <1>6
       DEF ReadObject, Goto, Verdict, RowInv, WorkerInv, Working, TypeOK,
           Request
  <2>3. WorkerInv'
    BY <1>6
       DEF ReadObject, Goto, Verdict, WorkerInv, RowInv, OneWorker, Works,
           Working, Contents, TypeOK, Request
  <2>4. ExecutedOnce'
    BY <1>6
       DEF ReadObject, Goto, Verdict, ExecutedOnce, RowInv, WorkerInv,
           TypeOK, Request
  <2>5. AnswersAreFinal'
    BY <1>6, VerdictType
       DEF ReadObject, Goto, AnswersAreFinal, Working, TypeOK, Request
  <2>6. QED
    BY <2>1, <2>2, <2>3, <2>4, <2>5
<1>7. ASSUME NEW r \in Requests, Finalize(r) PROVE CoreInv'
  <2>1. OneWorker'
    BY <1>7
       DEF Finalize, Committed, InDoubt, Locks, Goto, Reply, OneWorker,
           Works, WorkerInv, Working, TypeOK, Request
  <2>2. RowInv'
    <3> DEFINE t == request[r].task
    <3>1. status[t] = "RUNNING" /\ pending[t] = "none"
      BY <1>7 DEF Finalize, WorkerInv, Working
    <3>2. stored[t] = "exact"
      BY <1>7 DEF Finalize, WorkerInv
    <3>3. \/ status' = [status EXCEPT ![t] = "SUCCEEDED"] /\ pending' = pending
          \/ status' = status /\ pending' = [pending EXCEPT ![t] = "SUCCEEDED"]
          \/ status' = status /\ pending' = pending
      BY <1>7, <3>1 DEF Finalize, Committed, InDoubt
    <3>4. stored' = stored /\ executed' = executed
      BY <1>7 DEF Finalize
    <3> HIDE DEF t
    <3>5. "SUCCEEDED" \in Decided /\ "SUCCEEDED" \notin {"QUEUED", "RUNNING", "FAILED"}
      BY DEF Decided
    <3>6. QED
      BY <3>1, <3>2, <3>3, <3>4, <3>5 DEF RowInv, TypeOK, Decided
  <2>3. WorkerInv'
    BY <1>7
       DEF Finalize, Committed, InDoubt, Locks, Goto, Reply, WorkerInv,
           RowInv, OneWorker, Works, Working, Contents, TypeOK, Request
  <2>4. ExecutedOnce'
    BY <1>7
       DEF Finalize, Committed, InDoubt, Locks, Goto, Reply, ExecutedOnce,
           RowInv, WorkerInv, TypeOK, Request
  <2>5. AnswersAreFinal'
    BY <1>7
       DEF Finalize, Committed, InDoubt, Locks, Goto, Reply, AnswersAreFinal,
           AnswerOf, WorkerInv, Working, Status, Decided, TypeOK, Request
  <2>6. QED
    BY <2>1, <2>2, <2>3, <2>4, <2>5
<1>8. ASSUME NEW r \in Requests, RereadBeforeDeletion(r) PROVE CoreInv'
  <2>1. OneWorker'
    BY <1>8
       DEF RereadBeforeDeletion, Locks, Goto, Reply, OneWorker, Works,
           WorkerInv, Working, TypeOK, Request
  <2>2. RowInv'
    BY <1>8
       DEF RereadBeforeDeletion, Locks, Goto, Reply, RowInv, WorkerInv,
           Working, TypeOK, Request
  <2>3. WorkerInv'
    BY <1>8
       DEF RereadBeforeDeletion, Locks, Goto, Reply, WorkerInv, RowInv,
           OneWorker, Works, Working, Contents, TypeOK, Request
  <2>4. ExecutedOnce'
    BY <1>8
       DEF RereadBeforeDeletion, Locks, Goto, Reply, ExecutedOnce, RowInv,
           WorkerInv, TypeOK, Request
  <2>5. AnswersAreFinal'
    BY <1>8
       DEF RereadBeforeDeletion, Locks, Goto, Reply, AnswersAreFinal,
           AnswerOf, WorkerInv, Working, Status, Decided, TypeOK, Request
  <2>6. QED
    BY <2>1, <2>2, <2>3, <2>4, <2>5
<1>9. ASSUME NEW r \in Requests, DeleteExact(r) PROVE CoreInv'
  <2>1. OneWorker'
    BY <1>9
       DEF DeleteExact, Goto, OneWorker, Works, WorkerInv, Working, TypeOK,
           Request
  <2>2. RowInv'
    BY <1>9 DEF DeleteExact, Goto, RowInv, WorkerInv, Working, TypeOK, Request
  <2>3. WorkerInv'
    BY <1>9
       DEF DeleteExact, Goto, WorkerInv, RowInv, OneWorker, Works, Working,
           Contents, TypeOK, Request
  <2>4. ExecutedOnce'
    BY <1>9
       DEF DeleteExact, Goto, ExecutedOnce, RowInv, WorkerInv, TypeOK,
           Request
  <2>5. AnswersAreFinal'
    BY <1>9
       DEF DeleteExact, Goto, AnswersAreFinal, AnswerOf, WorkerInv, Working,
           Status, Decided, TypeOK, Request
  <2>6. QED
    BY <2>1, <2>2, <2>3, <2>4, <2>5
<1>10. ASSUME NEW r \in Requests, Terminal(r) PROVE CoreInv'
  <2>1. OneWorker'
    BY <1>10
       DEF Terminal, Committed, InDoubt, Locks, Goto, Reply, OneWorker,
           Works, WorkerInv, Working, TypeOK, Request
  <2>2. RowInv'
    <3> DEFINE t == request[r].task
             s == IF request[r].step = "blocking" THEN "HARD_BLOCKED"
                  ELSE "FAILED"
    <3>1. status[t] = "RUNNING" /\ pending[t] = "none"
      BY <1>10 DEF Terminal, WorkerInv, Working
    <3>2. s = "FAILED" => stored[t] = "none"
      BY <1>10 DEF Terminal, WorkerInv
    <3>3. \/ status' = [status EXCEPT ![t] = s] /\ pending' = pending
          \/ status' = status /\ pending' = [pending EXCEPT ![t] = s]
          \/ status' = status /\ pending' = pending
      BY <1>10, <3>1 DEF Terminal, Committed, InDoubt
    <3>4. stored' = stored /\ executed' = executed
      BY <1>10 DEF Terminal
    <3> HIDE DEF t, s
    <3>5. s \in Decided /\ s \notin {"QUEUED", "RUNNING", "SUCCEEDED"}
      BY DEF Decided, s
    <3>6. QED
      BY <3>1, <3>2, <3>3, <3>4, <3>5 DEF RowInv, TypeOK, Decided
  <2>3. WorkerInv'
    BY <1>10
       DEF Terminal, Committed, InDoubt, Locks, Goto, Reply, WorkerInv,
           RowInv, OneWorker, Works, Working, Contents, TypeOK, Request
  <2>4. ExecutedOnce'
    BY <1>10
       DEF Terminal, Committed, InDoubt, Locks, Goto, Reply, ExecutedOnce,
           RowInv, WorkerInv, TypeOK, Request
  <2>5. AnswersAreFinal'
    BY <1>10
       DEF Terminal, Committed, InDoubt, Locks, Goto, Reply, AnswersAreFinal,
           AnswerOf, WorkerInv, Working, Status, Decided, TypeOK, Request
  <2>6. QED
    BY <2>1, <2>2, <2>3, <2>4, <2>5
<1>11. ASSUME NEW t \in Tasks, EndOpenTransaction(t) PROVE CoreInv'
  BY <1>11
     DEF EndOpenTransaction, OneWorker, Works, RowInv, WorkerInv, Working,
         ExecutedOnce, AnswersAreFinal, TypeOK, Request, Status, Decided
<1>12. ASSUME NEW p \in Processes, Crash(p) PROVE CoreInv'
  BY <1>12, ExecutionAssumption
     DEF Crash, OneWorker, Works, RowInv, WorkerInv, Working, ExecutedOnce,
         AnswersAreFinal, TypeOK, Request
<1>13. CASE UNCHANGED vars
  BY <1>13
     DEF vars, OneWorker, Works, RowInv, WorkerInv, ExecutedOnce,
         AnswersAreFinal
<1>14. QED
  BY <1>1, <1>2, <1>3, <1>4, <1>5, <1>6, <1>7, <1>8, <1>9, <1>10, <1>11, <1>12, <1>13
     DEF Next, Proceed
\* The step of a request that meets no fault, from a state without doubt.
LEMMA CleanProceeds ==
  ASSUME TypeOK, CoreInv, CleanInv, NEW r \in Requests, Proceed(r), faults' = 0
  PROVE  CleanInv'
<1> DEFINE t    == request[r].task
           step == request[r].step
<1>1. t \in Tasks /\ request \in [Requests -> Request]
  BY RequestTypes DEF TypeOK
<1>2. faults = 0 /\ NoFault
  <2>1. Fault \/ NoFault
    BY DEF Proceed, Claim, Reread, Execute, PutObject, ReadObject, Finalize,
           RereadBeforeDeletion, DeleteExact, Terminal, InDoubt, NoFault
  <2>2. faults \in Nat
    BY DEF TypeOK
  <2>3. QED
    BY <2>1, <2>2 DEF Fault, NoFault
<1>3. ~Fault
  BY <1>2 DEF Fault, NoFault
<1>4. /\ step \in Working => status[t] = "RUNNING" /\ pending[t] = "none"
      /\ step \in {"putting", "failing"} => stored[t] = "none"
      /\ step \notin {"claimUnknown", "finalizeUnknown", "deleting",
                      "blocking", "terminalUnknown"}
      /\ step = "reading" => stored[t] = "exact"
  BY <1>2 DEF CoreInv, WorkerInv, CleanInv, Working
<1>5. CASE Claim(r)
  BY <1>1, <1>2, <1>3, <1>5
     DEF Claim, Committed, InDoubt, Goto, Reply, CleanInv, Claimable, TypeOK,
         Request
<1>6. CASE Execute(r)
  BY <1>1, <1>2, <1>4, <1>6 DEF Execute, Goto, CleanInv, Request
<1>7. CASE PutObject(r)
  <2>1. /\ stored' = [stored EXCEPT ![t] = "exact"]
        /\ request' = [request EXCEPT ![r].step = "reading",
                                      ![r].put = "CONFIRMED"]
        /\ UNCHANGED <<status, pending>>
    BY <1>3, <1>4, <1>7 DEF PutObject
  <2>2. /\ \A s \in Requests \ {r} : request'[s] = request[s]
        /\ request'[r].step = "reading" /\ request'[r].task = t
    BY <1>1, <2>1 DEF Request
  <2>3. step = "putting"
    BY <1>7 DEF PutObject
  <2>4. \A u \in Tasks : u # t => stored'[u] = stored[u]
    BY <2>1 DEF TypeOK
  <2>5. stored'[t] = "exact" /\ status[t] = "RUNNING"
    BY <1>1, <1>4, <2>1, <2>3 DEF TypeOK, Working
  <2>6. ASSUME NEW u \in Tasks
        PROVE  /\ pending'[u] = "none" /\ status'[u] # "HARD_BLOCKED"
               /\ stored'[u] # "none" => status'[u] \in {"RUNNING", "SUCCEEDED"}
    BY <1>2, <2>1, <2>4, <2>5 DEF CleanInv
  <2>7. ASSUME NEW s \in Requests
        PROVE  /\ request'[s].step \notin {"claimUnknown", "finalizeUnknown",
                                     "deleting", "blocking", "terminalUnknown"}
               /\ request'[s].step = "reading" =>
                    stored'[request'[s].task] = "exact"
    <3>1. CASE s = r
      BY <2>2, <2>5, <3>1
    <3>2. CASE s # r
      <4>1. request'[s] = request[s] /\ request[s].task \in Tasks
        BY <1>1, <2>2, <3>2 DEF Request
      <4>2. QED
        BY <1>2, <2>4, <2>5, <4>1 DEF CleanInv
    <3>3. QED
      BY <3>1, <3>2
  <2>8. QED
    BY <2>6, <2>7 DEF CleanInv
<1>8. CASE ReadObject(r)
  <2>1. Goto(r, "finalizing") /\ UNCHANGED <<status, pending, stored>>
    BY <1>3, <1>4, <1>8 DEF ReadObject, Verdict
  <2>2. QED
    BY <1>1, <1>2, <2>1 DEF Goto, CleanInv, Request
<1>9. CASE Finalize(r)
  <2>1. Committed(t, "SUCCEEDED") /\ Reply(r, "succeeded") /\ UNCHANGED stored
    BY <1>3, <1>4, <1>9 DEF Finalize, InDoubt, Working
  <2>2. QED
    BY <1>1, <1>2, <2>1 DEF Committed, Reply, CleanInv, Request, TypeOK
<1>10. CASE Terminal(r)
  <2>1. Committed(t, "FAILED") /\ Reply(r, "failed") /\ UNCHANGED stored
    BY <1>3, <1>4, <1>10 DEF Terminal, InDoubt, Working, AnswerOf
  <2>2. stored[t] = "none"
    BY <1>4, <1>10 DEF Terminal
  <2>3. QED
    BY <1>1, <1>2, <2>1, <2>2 DEF Committed, Reply, CleanInv, Request, TypeOK
<1>11. QED
  BY <1>4, <1>5, <1>6, <1>7, <1>8, <1>9, <1>10
     DEF Proceed, Reread, RereadBeforeDeletion, DeleteExact

LEMMA CleanStep == TypeOK /\ CoreInv /\ CleanInv /\ [Next]_vars => CleanInv'
<1> SUFFICES ASSUME TypeOK, CoreInv, CleanInv, [Next]_vars, faults' = 0
             PROVE  CleanInv'
  BY DEF CleanInv
<1>1. ASSUME NEW r \in Requests, NEW t \in Tasks, Begin(r, t) PROVE CleanInv'
  BY <1>1 DEF Begin, CleanInv, TypeOK, Request
<1>2. ASSUME NEW t \in Tasks, EndOpenTransaction(t) PROVE CleanInv'
  BY <1>2 DEF EndOpenTransaction, CleanInv
<1>3. ASSUME NEW p \in Processes, Crash(p) PROVE CleanInv'
  BY <1>3 DEF Crash, Fault, TypeOK
<1>4. CASE UNCHANGED vars
  BY <1>4 DEF vars, CleanInv
<1>5. QED
  BY <1>1, <1>2, <1>3, <1>4, CleanProceeds DEF Next

LEMMA Inductive == Spec => [](TypeOK /\ IInv)
<1>1. Init => TypeOK /\ IInv
  BY TypeInit, InvInit DEF IInv, Init, CleanInv
<1>2. TypeOK /\ IInv /\ [Next]_vars => (TypeOK /\ IInv)'
  BY TypeStep, InvStep, CleanStep DEF IInv
<1>3. QED
  BY <1>1, <1>2, PTL DEF Spec

\* The strengthening that ties a task's row to the process that claimed it and
\* to the object it leaves, kept by executeInternalAssetTask() from its claim
\* to its last transaction.
THEOREM ExecutionInvariant == Spec => []IInv
  BY Inductive, PTL

\* Whatever is lost, retried or requested twice, the executor runs at most
\* once for a task (the claim under the row lock in claimExecution()).
THEOREM ExecutedOnlyOnce == Spec => []ExecutedOnce
<1>1. IInv => ExecutedOnce
  BY DEF IInv, CoreInv
<1>2. QED
  BY <1>1, Inductive, PTL

\* A final answer of executeInternalAssetTask() stays true of the row, for the
\* process that decided it and for those that only reread it.
THEOREM AnswersStayTrue == Spec => []AnswersAreFinal
<1>1. IInv => AnswersAreFinal
  BY DEF IInv, CoreInv
<1>2. QED
  BY <1>1, Inductive, PTL

\* As long as the infrastructure keeps its word, no task is blocked and no
\* object stays behind a task that failed: executeInternalAssetTask() blocks
\* only after a real fault.
THEOREM CleanUnlessFaulty == Spec => []CleanWithoutFaults
<1>1. IInv => CleanWithoutFaults
  BY DEF IInv, CleanInv, CleanWithoutFaults
<1>2. QED
  BY <1>1, Inductive, PTL

-----------------------------------------------------------------------------
(* The refinement of TaskOutcome.                                          *)

Kept == [t \in Tasks |-> IF status[t] \in Decided THEN stored[t] ELSE "none"]

\* A step that leaves the rows and the objects of decided tasks alone.
LEMMA OutcomeStutters ==
  ASSUME UNCHANGED status,
         \A t \in Tasks : status[t] \in Decided => stored'[t] = stored[t]
  PROVE  UNCHANGED Outcome!vars
<1>1. Kept' = Kept
  BY DEF Kept
<1>2. QED
  BY <1>1 DEF Kept, Outcome!vars

LEMMA OutcomeClaim ==
  ASSUME TypeOK, NEW t \in Tasks, status[t] = "QUEUED",
         Committed(t, "RUNNING"), UNCHANGED stored
  PROVE  Outcome!Claim(t)
<1>1. Kept' = Kept
  BY DEF Kept, TypeOK, Committed, Decided
<1>2. QED
  BY <1>1 DEF Kept, Outcome!Claim, Committed

\* A running task is decided with what the store holds for it.
LEMMA OutcomeDecide ==
  ASSUME TypeOK, NEW t \in Tasks, NEW s \in Decided, status[t] = "RUNNING",
         status' = [status EXCEPT ![t] = s], UNCHANGED stored,
         s = "SUCCEEDED" => \/ stored[t] = "exact"
                            \/ ~StoreSurvives /\ stored[t] = "none",
         s = "FAILED" => stored[t] = "none"
  PROVE  Outcome!Decide(t)
<1>1. stored[t] \in Outcome!Leaves(s)
  BY DEF Outcome!Leaves, Outcome!Contents, TypeOK, Contents, Decided
<1>2. Kept' = [Kept EXCEPT ![t] = stored[t]]
  BY DEF Kept, TypeOK, Decided
<1>3. QED
  BY <1>1, <1>2 DEF Kept, Outcome!Decide, Outcome!Decided, Decided

LEMMA OutcomeInit == Init => Outcome!Init
  BY DEF Init, Outcome!Init, Decided

\* A transaction on a task ends in a decision, or changes nothing yet.
LEMMA OutcomeTransaction ==
  ASSUME TypeOK, NEW t \in Tasks, NEW s \in Decided, status[t] = "RUNNING",
         Committed(t, s) \/ InDoubt(t, s), UNCHANGED stored,
         s = "SUCCEEDED" => stored[t] = "exact",
         s = "FAILED" => stored[t] = "none"
  PROVE  Outcome!Decide(t) \/ UNCHANGED Outcome!vars
<1>1. CASE status' = [status EXCEPT ![t] = s]
  BY <1>1, OutcomeDecide
<1>2. CASE UNCHANGED status
  BY <1>2, OutcomeStutters
<1>3. QED
  BY <1>1, <1>2 DEF Committed, InDoubt

LEMMA OutcomeStep ==
  TypeOK /\ CoreInv /\ [Next]_vars => [Outcome!Next]_(Outcome!vars)
<1> SUFFICES ASSUME TypeOK, CoreInv, [Next]_vars
             PROVE  Outcome!Next \/ UNCHANGED Outcome!vars
  OBVIOUS
<1> USE RequestTypes DEF CoreInv
<1>1. ASSUME NEW r \in Requests, Claim(r)
      PROVE  Outcome!Next \/ UNCHANGED Outcome!vars
  <2> DEFINE t == request[r].task
  <2>1. CASE Claimable(t) /\ Committed(t, "RUNNING")
    <3>1. Outcome!Claim(t)
      BY <1>1, <2>1, OutcomeClaim DEF Claim, Claimable
    <3>2. QED
      BY <3>1 DEF Outcome!Next
  <2>2. CASE UNCHANGED status
    BY <1>1, <2>2, OutcomeStutters DEF Claim
  <2>3. QED
    BY <1>1, <2>1, <2>2 DEF Claim, InDoubt, Committed
<1>2. ASSUME NEW r \in Requests,
             \/ Reread(r) \/ Execute(r) \/ ReadObject(r)
             \/ RereadBeforeDeletion(r) \/ \E t \in Tasks : Begin(r, t)
      PROVE  Outcome!Next \/ UNCHANGED Outcome!vars
  <2>1. UNCHANGED <<status, stored>>
    BY <1>2 DEF Reread, Execute, ReadObject, RereadBeforeDeletion, Begin
  <2>2. QED
    BY <2>1, OutcomeStutters
<1>3. ASSUME NEW r \in Requests, PutObject(r) \/ DeleteExact(r)
      PROVE  Outcome!Next \/ UNCHANGED Outcome!vars
  <2> DEFINE t == request[r].task
  <2>1. status[t] = "RUNNING" /\ UNCHANGED status
    BY <1>3 DEF PutObject, DeleteExact, WorkerInv, Working
  <2>2. \A u \in Tasks : u # t => stored'[u] = stored[u]
    BY <1>3 DEF PutObject, DeleteExact, TypeOK
  <2>3. QED
    BY <2>1, <2>2, OutcomeStutters DEF Decided
<1>4. ASSUME NEW r \in Requests, Finalize(r)
      PROVE  Outcome!Next \/ UNCHANGED Outcome!vars
  <2>1. PICK t \in Tasks : t = request[r].task
    OBVIOUS
  <2>2. status[t] = "RUNNING" /\ stored[t] = "exact" /\ UNCHANGED stored
    BY <1>4, <2>1 DEF Finalize, WorkerInv, Working
  <2>3. Committed(t, "SUCCEEDED") \/ InDoubt(t, "SUCCEEDED")
    BY <1>4, <2>1, <2>2 DEF Finalize
  <2>4. Outcome!Decide(t) \/ UNCHANGED Outcome!vars
    BY <2>2, <2>3, OutcomeTransaction DEF Decided
  <2>5. QED
    BY <2>4 DEF Outcome!Next
<1>5. ASSUME NEW r \in Requests, Terminal(r)
      PROVE  Outcome!Next \/ UNCHANGED Outcome!vars
  <2>1. PICK t \in Tasks : t = request[r].task
    OBVIOUS
  <2>2. PICK s \in {"HARD_BLOCKED", "FAILED"} :
               s = IF request[r].step = "blocking" THEN "HARD_BLOCKED"
                   ELSE "FAILED"
    OBVIOUS
  <2>3. status[t] = "RUNNING" /\ UNCHANGED stored
    BY <1>5, <2>1 DEF Terminal, WorkerInv, Working
  <2>4. s = "FAILED" => stored[t] = "none"
    BY <1>5, <2>1, <2>2 DEF Terminal, WorkerInv
  <2>5. Committed(t, s) \/ InDoubt(t, s)
    BY <1>5, <2>1, <2>2, <2>3 DEF Terminal
  <2>6. Outcome!Decide(t) \/ UNCHANGED Outcome!vars
    BY <2>3, <2>4, <2>5, OutcomeTransaction DEF Decided
  <2>7. QED
    BY <2>6 DEF Outcome!Next
<1>6. ASSUME NEW t \in Tasks, EndOpenTransaction(t)
      PROVE  Outcome!Next \/ UNCHANGED Outcome!vars
  <2> DEFINE s == pending[t]
  <2>1. CASE UNCHANGED status
    BY <1>6, <2>1, OutcomeStutters DEF EndOpenTransaction
  <2>2. CASE status[t] = "QUEUED" /\ status' = [status EXCEPT ![t] = s]
    <3>1. s = "RUNNING"
      BY <1>6, <2>2 DEF EndOpenTransaction, RowInv
    <3>2. Kept' = Kept
      BY <1>6, <2>2, <3>1 DEF EndOpenTransaction, Kept, TypeOK, Decided
    <3>3. Outcome!Claim(t)
      BY <2>2, <3>1, <3>2 DEF Kept, Outcome!Claim
    <3>4. QED
      BY <3>3 DEF Outcome!Next
  <2>3. CASE status[t] = "RUNNING" /\ status' = [status EXCEPT ![t] = s]
    <3>1. s \in Decided /\ UNCHANGED stored
      BY <1>6, <2>3 DEF EndOpenTransaction, RowInv
    <3>2. Outcome!Decide(t)
      BY <2>3, <3>1, OutcomeDecide DEF RowInv
    <3>3. QED
      BY <3>2 DEF Outcome!Next
  <2>4. status[t] \in {"QUEUED", "RUNNING"}
    BY <1>6 DEF EndOpenTransaction, TypeOK, Status
  <2>5. QED
    BY <1>6, <2>1, <2>2, <2>3, <2>4 DEF EndOpenTransaction
<1>7. ASSUME NEW p \in Processes, Crash(p)
      PROVE  Outcome!Next \/ UNCHANGED Outcome!vars
  <2>1. CASE StoreSurvives
    BY <1>7, <2>1, OutcomeStutters DEF Crash
  <2>2. CASE ~StoreSurvives
    <3>1. Kept' = [t \in Tasks |-> "none"]
      BY <1>7, <2>2 DEF Crash, Kept
    <3>2. Outcome!Lose
      BY <1>7, <2>2, <3>1 DEF Crash, Kept, Outcome!Lose
    <3>3. QED
      BY <3>2 DEF Outcome!Next
  <2>3. QED
    BY <2>1, <2>2
<1>8. CASE UNCHANGED vars
  BY <1>8, OutcomeStutters DEF vars
<1>9. QED
  BY <1>1, <1>2, <1>3, <1>4, <1>5, <1>6, <1>7, <1>8 DEF Next, Proceed

\* Task row and object are decided as if in one step, although the store and
\* the database are written in separate calls whose answers may be lost.
THEOREM ExecutionOutcomeAtomic == Spec => OutcomeIsAtomic
<1>1. Init => Outcome!Init
  BY OutcomeInit
<1>2. Init => TypeOK /\ CoreInv
  BY TypeInit, InvInit
<1>3. TypeOK /\ CoreInv /\ [Next]_vars => (TypeOK /\ CoreInv)'
  BY TypeStep, InvStep
<1>4. TypeOK /\ CoreInv /\ [Next]_vars => [Outcome!Next]_(Outcome!vars)
  BY OutcomeStep
<1>5. QED
  BY <1>1, <1>2, <1>3, <1>4, PTL DEF Spec, OutcomeIsAtomic, Outcome!Spec
=============================================================================
