------------------------ MODULE TruthRequestsProofs ------------------------
(***************************************************************************)
(* Theorems about TruthRequests for every number of keys, sources,         *)
(* requests, revisions and faults.                                         *)
(***************************************************************************)
EXTENDS TruthRequests, SequenceTheorems, TLAPS

USE TruthAssumption

-----------------------------------------------------------------------------
(* Types.                                                                  *)

LEMMA NumberFacts ==
  /\ 0 \in Numbers
  /\ Numbers \subseteq Nat
  /\ \A n \in Nat : n <= MaxRevisions => n \in Numbers
  BY DEF Numbers

LEMMA NoInputType == NoInput \in Input
  BY NumberFacts DEF NoInput, Input

LEMMA AsksType ==
  ASSUME NEW step \in Steps, NEW k \in Keys, NEW i \in Input
  PROVE  Asks(step, k, i) \in Request
  BY NumberFacts DEF Asks, Request

\* A well typed request stays so when it moves on or is answered.
LEMMA RequestTypes ==
  ASSUME TypeOK, NEW r \in Requests
  PROVE  /\ request[r] \in Request
         /\ \A step \in Steps : Goto(r, step) =>
              request' \in [Requests -> Request] /\ told' = told
         /\ Forget(r) => request' \in [Requests -> Request]
<1>1. request \in [Requests -> Request]
  BY DEF TypeOK
<1>2. ASSUME NEW step \in Steps, Goto(r, step)
      PROVE  request' \in [Requests -> Request] /\ told' = told
  BY <1>1, <1>2 DEF Goto, Request
<1>3. ASSUME Forget(r) PROVE request' \in [Requests -> Request]
  <2>1. Asks("idle", request[r].key, NoInput) \in Request
    BY <1>1, AsksType, NoInputType DEF Request, Steps
  <2>2. QED
    BY <1>1, <1>3, <2>1 DEF Forget
<1>4. QED
  BY <1>1, <1>2, <1>3

LEMMA AnswerTypes ==
  ASSUME TypeOK, NEW r \in Requests, NEW n \in Numbers,
         Succeed(r, n) \/ Refuse(r)
  PROVE  /\ request' \in [Requests -> Request]
         /\ told' \in [Keys -> SUBSET [input : Input, revision : Numbers]]
<1>1. request[r].key \in Keys /\ request[r].input \in Input
  BY RequestTypes DEF Request
<1>2. [input |-> request[r].input, revision |-> n]
        \in [input : Input, revision : Numbers]
  BY <1>1
<1>3. QED
  BY <1>1, <1>2, RequestTypes DEF Succeed, Refuse, TypeOK

LEMMA ReplayTypes ==
  ASSUME TypeOK, NEW r \in Requests, Replay(r)
  PROVE  /\ request' \in [Requests -> Request]
         /\ told' \in [Keys -> SUBSET [input : Input, revision : Numbers]]
<1>1. request[r].key \in Keys
  BY RequestTypes DEF Request
<1>2. record[request[r].key].revision \in Numbers
  BY <1>1 DEF TypeOK, Record
<1>3. QED
  BY <1>2, AnswerTypes DEF Replay

LEMMA DecideTypes ==
  ASSUME TypeOK, NEW r \in Requests, NEW n \in Numbers, NEW step \in Steps,
         NEW accepted \in BOOLEAN, Decide(r, accepted, n, step)
  PROVE  /\ request' \in [Requests -> Request]
         /\ told' \in [Keys -> SUBSET [input : Input, revision : Numbers]]
<1>1. CASE accepted
  <2>1. request' = [request EXCEPT ![r] =
                      [step |-> step, key |-> request[r].key,
                       input |-> request[r].input, seen |-> active,
                       revision |-> n]]
    BY <1>1, RequestTypes DEF Decide, TypeOK, Request
  <2>2. [step |-> step, key |-> request[r].key, input |-> request[r].input,
         seen |-> active, revision |-> n] \in Request
    BY RequestTypes DEF TypeOK, Request
  <2>3. QED
    BY <1>1, <2>1, <2>2 DEF Decide, TypeOK
<1>2. CASE ~accepted
  BY <1>2, AnswerTypes DEF Decide
<1>3. QED
  BY <1>1, <1>2

LEMMA TypeInit == Init => TypeOK
<1> SUFFICES ASSUME Init PROVE TypeOK
  OBVIOUS
<1>1. PICK k \in Keys :
        request = [r \in Requests |-> Asks("idle", k, NoInput)]
  BY DEF Init
<1>2. request \in [Requests -> Request]
  BY <1>1, AsksType, NoInputType DEF Steps
<1>3. record \in [Keys -> Record]
  BY NoInputType, NumberFacts DEF Init, NoRecord, Record
<1>4. revision \in Seq(Revision) /\ Len(revision) = 0 /\ log \in Seq(Entry)
  BY EmptySeq DEF Init
<1>5. told \in [Keys -> SUBSET [input : Input, revision : Numbers]]
  BY DEF Init
<1>6. QED
  BY <1>2, <1>3, <1>4, <1>5, NumberFacts DEF Init, TypeOK

LEMMA SupersedeType ==
  ASSUME TypeOK, NEW n \in Numbers, NEW m \in Numbers
  PROVE  /\ Supersede(n, m) \in Seq(Revision)
         /\ Len(Supersede(n, m)) = Len(revision)
         /\ \A k \in 1 .. Len(revision) :
              /\ Supersede(n, m)[k].status = IF k = m THEN "ACTIVE"
                                             ELSE IF k = n THEN "SUPERSEDED"
                                             ELSE revision[k].status
              /\ Supersede(n, m)[k].parent = revision[k].parent
<1> DEFINE New(k) ==
      [status  |-> IF k = m THEN "ACTIVE" ELSE IF k = n THEN "SUPERSEDED"
                   ELSE revision[k].status,
       parent  |-> revision[k].parent,
       sources |-> revision[k].sources]
<1>1. \A k \in 1 .. Len(revision) : revision[k] \in Revision
  BY ElementOfSeq DEF TypeOK
<1>2. \A k \in 1 .. Len(revision) :
        [revision[k] EXCEPT !.status =
           IF k = m THEN "ACTIVE" ELSE IF k = n THEN "SUPERSEDED" ELSE @]
          = New(k)
  BY <1>1 DEF Revision
<1>3. Supersede(n, m) = [k \in 1 .. Len(revision) |-> New(k)]
  BY <1>2 DEF Supersede
<1>4. \A k \in 1 .. Len(revision) : New(k) \in Revision
  BY <1>1 DEF Revision
<1>5. Len(revision) \in Nat
  BY LenProperties DEF TypeOK
<1>6. \A k \in 1 .. Len(revision) :
         /\ New(k).status = IF k = m THEN "ACTIVE"
                            ELSE IF k = n THEN "SUPERSEDED"
                            ELSE revision[k].status
         /\ New(k).parent = revision[k].parent
  OBVIOUS
<1> HIDE DEF New
<1>7. Supersede(n, m) \in [1 .. Len(revision) -> Revision]
  BY <1>3, <1>4
<1>8. Supersede(n, m) \in Seq(Revision)
  BY <1>5, <1>7, SeqDef
<1>9. Len(Supersede(n, m)) = Len(revision)
  BY <1>5, <1>7, <1>8, LenProperties
<1>10. QED
  BY <1>3, <1>8, <1>9, <1>6

\* What a request writes fits the rows, because of what it planned.
LEMMA EffectTypes ==
  ASSUME TypeOK, PlanInv, NEW r \in Requests,
         request[r].step = "committing", Effect(r)
  PROVE  /\ active' \in Numbers
         /\ revision' \in Seq(Revision) /\ Len(revision') <= MaxRevisions
         /\ record' \in [Keys -> Record]
         /\ log' \in Seq(Entry)
<1> DEFINE q == request[r]
<1>1. /\ q.key \in Keys /\ q.input \in Input
      /\ q.seen \in Numbers /\ q.revision \in Numbers
  BY RequestTypes DEF Request
<1>2. record' \in [Keys -> Record]
  BY <1>1 DEF Effect, TypeOK, Record
<1>3. log' \in Seq(Entry)
  <2>1. [key |-> q.key, revision |-> q.revision, previous |-> q.seen] \in Entry
    BY <1>1 DEF Entry
  <2>2. QED
    BY <2>1, AppendProperties DEF Effect, TypeOK
<1>4. CASE Operation(r) = "create"
  <2> DEFINE e == [status |-> "DRAFT", parent |-> q.input.about,
                   sources |-> q.input.sources]
  <2>1. e \in Revision
    BY <1>1 DEF Input, Revision
  <2>2. revision' = Append(revision, e) /\ active' = active
    BY <1>4 DEF Effect
  <2>3. q.revision = Len(revision) + 1
    BY <1>4 DEF PlanInv, Planned
  <2> HIDE DEF e
  <2>4. revision' \in Seq(Revision) /\ Len(revision') = Len(revision) + 1
    BY <2>1, <2>2, AppendProperties DEF TypeOK
  <2>5. QED
    BY <1>1, <1>2, <1>3, <2>2, <2>3, <2>4 DEF TypeOK, Numbers
<1>5. CASE Operation(r) = "activate"
  BY <1>1, <1>2, <1>3, <1>5, SupersedeType DEF Effect, TypeOK
<1>6. CASE Operation(r) = "task"
  BY <1>2, <1>3, <1>6 DEF Effect, TypeOK
<1>7. QED
  BY <1>1, <1>4, <1>5, <1>6 DEF Operation

LEMMA TypeStep == TypeOK /\ PlanInv /\ [Next]_vars => TypeOK'
<1> SUFFICES ASSUME TypeOK, PlanInv, [Next]_vars PROVE TypeOK'
  OBVIOUS
<1> DEFINE Local == /\ request' \in [Requests -> Request]
                    /\ told' \in [Keys -> SUBSET [input : Input,
                                                 revision : Numbers]]
<1>1. Local /\ Unchanged => TypeOK'
  BY DEF TypeOK, Unchanged
<1>2. ASSUME NEW r \in Requests, NEW step \in Steps, Goto(r, step) PROVE Local
  BY <1>2, RequestTypes DEF TypeOK
<1>3. ASSUME NEW r \in Requests, Refuse(r) PROVE Local
  BY <1>3, AnswerTypes, NumberFacts
<1>4. \A r \in Requests : Replay(r) => Local
  BY ReplayTypes
<1> HIDE DEF Local
<1>5. ASSUME NEW r \in Requests, NEW k \in Keys, NEW i \in Inputs(k),
             Begin(r, k, i)
      PROVE  TypeOK'
  <2>1. i \in Input
    BY DEF Inputs
  <2>2. Asks("finding", k, i) \in Request
    BY <2>1, AsksType DEF Steps
  <2>3. Local
    BY <1>5, <2>2 DEF Begin, TypeOK, Local
  <2>4. QED
    BY <1>1, <1>5, <2>3 DEF Begin
<1>6. ASSUME NEW r \in Requests, FindRecord(r) PROVE TypeOK'
  BY <1>1, <1>2, <1>4, <1>6 DEF FindRecord, Steps
<1>7. ASSUME NEW r \in Requests, InsertRecord(r) PROVE TypeOK'
  BY <1>1, <1>2, <1>7 DEF InsertRecord, Steps
<1>8. ASSUME NEW r \in Requests, ReadConcurrentReplay(r) PROVE TypeOK'
  BY <1>1, <1>4, <1>8 DEF ReadConcurrentReplay
<1>9. ASSUME NEW r \in Requests, LockProject(r) PROVE TypeOK'
  BY <1>1, <1>2, <1>9 DEF LockProject, Steps
<1>10. ASSUME NEW r \in Requests, Operate(r) PROVE TypeOK'
  <2>1. PICK n : /\ n = IF Operation(r) = "create" THEN Len(revision) + 1
                        ELSE request[r].input.about
                 /\ n <= MaxRevisions
                 /\ Decide(r, Acceptable(r), n, "committing")
    BY <1>10 DEF Operate
  <2>2. n \in Numbers
    BY <2>1, RequestTypes, NumberFacts, LenProperties DEF TypeOK, Request, Input
  <2>3. Acceptable(r) \in BOOLEAN
    BY DEF Acceptable
  <2>4. Local
    BY <2>1, <2>2, <2>3, DecideTypes DEF Local, Steps
  <2>5. QED
    BY <1>1, <1>10, <2>4 DEF Operate
<1>11. ASSUME NEW r \in Requests, LockDependencies(r) PROVE TypeOK'
  <2>1. PICK a \in BOOLEAN : Decide(r, a, request[r].input.about, "inserting")
    BY <1>11 DEF LockDependencies
  <2>2. request[r].input.about \in Numbers
    BY RequestTypes DEF Request, Input
  <2>3. Local
    BY <2>1, <2>2, DecideTypes DEF Local, Steps
  <2>4. QED
    BY <1>1, <1>11, <2>3 DEF LockDependencies
<1>12. ASSUME NEW r \in Requests, Commit(r) PROVE TypeOK'
  <2>1. request[r].revision \in Numbers
    BY RequestTypes DEF Request
  <2>2. Local /\ faults' \in Nat /\ eligible' = eligible
    BY <1>12, <2>1, AnswerTypes DEF Commit, Fault, TypeOK, Local
  <2>3. QED
    BY <1>12, <2>2, EffectTypes DEF Commit, TypeOK, Local
<1>13. ASSUME NEW r \in Requests, RollBack(r) PROVE TypeOK'
  BY <1>3, <1>13 DEF RollBack, Fault, TypeOK, Local
<1>14. ASSUME NEW r \in Requests, AbortDeadlocked(r) PROVE TypeOK'
  BY <1>1, <1>3, <1>14 DEF AbortDeadlocked
<1>15. ASSUME NEW s \in Sources, Revoke(s) PROVE TypeOK'
  BY <1>15 DEF Revoke, TypeOK
<1>16. CASE UNCHANGED vars
  BY <1>16 DEF vars, TypeOK
<1>17. QED
  BY <1>5, <1>6, <1>7, <1>8, <1>9, <1>10, <1>11, <1>12, <1>13, <1>14, <1>15,
     <1>16 DEF Next, Proceed

-----------------------------------------------------------------------------
(* What a step does to the request that takes it, and to the others.       *)

LEMMA Moves ==
  ASSUME TypeOK, NEW r \in Requests, NEW step \in Steps, Goto(r, step)
  PROVE  /\ request'[r].step = step
         /\ request'[r].key = request[r].key
         /\ request'[r].input = request[r].input
         /\ request'[r].seen = request[r].seen
         /\ request'[r].revision = request[r].revision
         /\ \A q \in Requests \ {r} : request'[q] = request[q]
  BY DEF Goto, TypeOK, Request

LEMMA Ends ==
  ASSUME TypeOK, NEW r \in Requests, Forget(r)
  PROVE  /\ request'[r].step = "idle"
         /\ request'[r].key = request[r].key
         /\ \A q \in Requests \ {r} : request'[q] = request[q]
  BY DEF Forget, Asks, TypeOK

LEMMA Plans ==
  ASSUME TypeOK, NEW r \in Requests, NEW n, NEW step,
         Decide(r, TRUE, n, step)
  PROVE  /\ request'[r].step = step
         /\ request'[r].key = request[r].key
         /\ request'[r].input = request[r].input
         /\ request'[r].seen = active
         /\ request'[r].revision = n
         /\ told' = told
         /\ \A q \in Requests \ {r} : request'[q] = request[q]
  BY DEF Decide, TypeOK, Request

-----------------------------------------------------------------------------
(* The parts of the invariant under the steps that leave the rows alone.   *)

Rows == <<active, revision, eligible, record, log>>

\* No lock is taken: what is held was held before.
LEMMA NoLockTaken ==
  ASSUME LockInv,
         \A q \in Requests :
           \/ request'[q].step \in {"idle", "finding", "replaying"}
           \/ /\ request'[q].key = request[q].key
              /\ \/ request'[q].step = request[q].step
                 \/ /\ request[q].step = "finding"
                    /\ request'[q].step = "locking"
                    /\ Operation(q) = "task"
                 \/ /\ request[q].step = "finding"
                    /\ request'[q].step = "inserting"
                    /\ Operation(q) # "task"
                 \/ /\ request[q].step = "operating"
                    /\ request'[q].step = "committing"
                    /\ Operation(q) # "task"
  PROVE  LockInv'
<1> SUFFICES ASSUME NEW q \in Requests, NEW r \in Requests, q # r
             PROVE /\ ~(HoldsKey(q, request[r].key) /\ HoldsKey(r, request[r].key))'
                   /\ HoldsProject(q)' => ~HoldsProject(r)'
                   /\ HoldsProject(q)' => ~SharesProject(r)'
  BY DEF LockInv
<1>1. \A p \in Requests :
        /\ HoldsKey(p, request[p].key)' =>
             HoldsKey(p, request[p].key) /\ request'[p].key = request[p].key
        /\ HoldsProject(p)' => HoldsProject(p)
        /\ SharesProject(p)' => SharesProject(p)
  BY DEF HoldsKey, HoldsProject, SharesProject, Operation
<1>2. HoldsKey(q, request[r].key)' => HoldsKey(q, request[q].key)'
                                      /\ request'[q].key = request'[r].key
  BY DEF HoldsKey
<1>3. QED
  BY <1>1, <1>2 DEF LockInv, HoldsKey

LEMMA PlanKept ==
  ASSUME PlanInv, NEW q \in Requests, request'[q] = request[q],
         UNCHANGED Rows
  PROVE  Planned(q)'
  BY DEF PlanInv, Planned, HoldsKey, Operation, Eligible, Inputs, Rows

LEMMA IdleIsPlanned ==
  ASSUME NEW q \in Requests, request'[q].step = "idle"
  PROVE  Planned(q)'
  BY DEF Planned, HoldsKey

LEMMA RowsKept ==
  ASSUME RowInv, LogInv, ExpectationsHonoured, UNCHANGED Rows
  PROVE  RowInv' /\ LogInv' /\ ExpectationsHonoured'
  BY DEF RowInv, LogInv, ExpectationsHonoured, Rows

\* A request that ends without a COMMIT.
LEMMA EndInv ==
  ASSUME TypeOK, IInv, NEW r \in Requests, Forget(r), UNCHANGED Rows,
         AnswersAgree'
  PROVE  IInv'
<1>1. LockInv'
  BY Ends, NoLockTaken DEF IInv
<1>2. \A q \in Requests : Planned(q)'
  BY Ends, IdleIsPlanned, PlanKept DEF IInv
<1>3. QED
  BY <1>1, <1>2, RowsKept DEF IInv, PlanInv

LEMMA AnswersKept ==
  ASSUME AnswersAgree, UNCHANGED <<told, record>>
  PROVE  AnswersAgree'
  BY DEF AnswersAgree

LEMMA RefuseInv ==
  ASSUME TypeOK, IInv, NEW r \in Requests, Refuse(r), UNCHANGED Rows
  PROVE  IInv'
  BY EndInv, AnswersKept DEF Refuse, Rows, IInv

\* A replay tells what every success of its key was told.
LEMMA ReplayInv ==
  ASSUME TypeOK, IInv, NEW r \in Requests, Replay(r), UNCHANGED Rows,
         record[request[r].key].done
  PROVE  IInv'
<1>1. CASE Matches(r)
  <2> DEFINE k == request[r].key
  <2>1. k \in Keys
    BY RequestTypes DEF Request
  <2>2. record[k] = [done |-> TRUE, input |-> request[r].input,
                     revision |-> record[k].revision]
    BY <1>1, <2>1 DEF Matches, TypeOK, Record
  <2>3. /\ Forget(r)
        /\ told' = [told EXCEPT ![k] = @ \cup
                      {[input |-> request[r].input,
                        revision |-> record[k].revision]}]
    BY <1>1 DEF Replay, Succeed
  <2>4. AnswersAgree'
    BY <2>1, <2>2, <2>3 DEF AnswersAgree, IInv, TypeOK, Rows
  <2>5. QED
    BY <2>3, <2>4, EndInv
<1>2. CASE ~Matches(r)
  BY <1>2, RefuseInv DEF Replay
<1>3. QED
  BY <1>1, <1>2

-----------------------------------------------------------------------------
(* The steps that leave the rows alone.                                    *)

LEMMA BeginInv ==
  ASSUME TypeOK, IInv, NEW r \in Requests, NEW k \in Keys,
         NEW i \in Inputs(k), Begin(r, k, i)
  PROVE  IInv'
<1>1. /\ request'[r].step = "finding" /\ request'[r].key = k
      /\ request'[r].input = i
      /\ \A q \in Requests \ {r} : request'[q] = request[q]
  BY DEF Begin, Asks, TypeOK
<1>2. UNCHANGED Rows /\ UNCHANGED told
  BY DEF Begin, Unchanged, Rows
<1>3. LockInv'
  BY <1>1, NoLockTaken DEF IInv
<1>4. Planned(r)'
  BY <1>1 DEF Planned, HoldsKey, Inputs
<1>5. PlanInv'
  BY <1>1, <1>2, <1>4, PlanKept DEF IInv, PlanInv
<1>6. QED
  BY <1>2, <1>3, <1>5, RowsKept, AnswersKept DEF IInv, Rows

\* A request moves on and takes no lock.
LEMMA MoveInv ==
  ASSUME TypeOK, IInv, NEW r \in Requests, NEW step \in Steps,
         Goto(r, step), UNCHANGED Rows, LockInv', Planned(r)'
  PROVE  IInv'
<1>1. PlanInv'
  BY Moves, PlanKept DEF IInv, PlanInv
<1>2. told' = told
  BY DEF Goto
<1>3. QED
  BY <1>1, <1>2, RowsKept, AnswersKept DEF IInv, Rows

LEMMA FindRecordInv ==
  ASSUME TypeOK, IInv, NEW r \in Requests, FindRecord(r)
  PROVE  IInv'
<1>1. UNCHANGED Rows /\ request[r].step = "finding"
  BY DEF FindRecord, Unchanged, Rows
<1>2. CASE record[request[r].key].done
  BY <1>1, <1>2, ReplayInv DEF FindRecord
<1>3. CASE ~record[request[r].key].done
  <2>1. PICK step \in Steps :
           /\ Goto(r, step)
           /\ step = IF Operation(r) = "task" THEN "locking" ELSE "inserting"
    BY <1>3 DEF FindRecord, Steps
  <2>2. LockInv'
    BY <1>1, <2>1, Moves, NoLockTaken DEF IInv
  <2>3. Planned(r)'
    BY <1>1, <1>3, <2>1, Moves
       DEF Planned, PlanInv, IInv, HoldsKey, Operation, Inputs, Rows
  <2>4. QED
    BY <1>1, <2>1, <2>2, <2>3, MoveInv
<1>4. QED
  BY <1>2, <1>3

LEMMA InsertRecordInv ==
  ASSUME TypeOK, IInv, NEW r \in Requests, InsertRecord(r)
  PROVE  IInv'
<1>1. UNCHANGED Rows /\ request[r].step = "inserting"
  BY DEF InsertRecord, Unchanged, Rows
<1>2. CASE Taken(r)
  <2>1. Goto(r, "replaying") /\ "replaying" \in Steps
    BY <1>2 DEF InsertRecord, Steps
  <2>2. LockInv'
    BY <1>1, <2>1, Moves, NoLockTaken DEF IInv
  <2>3. Planned(r)'
    BY <1>1, <1>2, <2>1, Moves
       DEF Planned, PlanInv, IInv, HoldsKey, Operation, Inputs, Rows, Taken
  <2>4. QED
    BY <1>1, <2>1, <2>2, <2>3, MoveInv
<1>3. CASE ~Taken(r)
  <2>1. PICK step \in Steps :
           /\ Goto(r, step)
           /\ step = IF Operation(r) = "task" THEN "committing" ELSE "locking"
    BY <1>3 DEF InsertRecord, Steps
  <2>2. LockInv'
    <3> SUFFICES ASSUME NEW p \in Requests, NEW q \in Requests, p # q
        PROVE /\ ~(HoldsKey(p, request[q].key) /\ HoldsKey(q, request[q].key))'
              /\ HoldsProject(p)' => ~HoldsProject(q)'
              /\ HoldsProject(p)' => ~SharesProject(q)'
      BY DEF LockInv
    <3>1. MayShareProject(r) /\ \A o \in Requests \ {r} :
                                  ~HoldsKey(o, request[r].key)
      BY <1>3 DEF InsertRecord
    <3>2. \A o \in Requests : request'[o].key = request[o].key
      BY <2>1, Moves
    <3>3. /\ ~HoldsProject(r)'
          /\ \A o \in Requests \ {r} :
               /\ \A k \in Keys : HoldsKey(o, k)' <=> HoldsKey(o, k)
               /\ HoldsProject(o)' <=> HoldsProject(o)
               /\ SharesProject(o)' <=> SharesProject(o)
      BY <2>1, Moves DEF HoldsProject, HoldsKey, SharesProject, Operation
    <3>4. \A o \in Requests : request[o].key \in Keys
      BY RequestTypes DEF Request
    <3>5. \A o \in Requests, k \in Keys :
            /\ HoldsKey(o, k) => request[o].key = k
            /\ HoldsKey(o, k)' => request'[o].key = k
      BY DEF HoldsKey
    <3>6. QED
      BY <3>1, <3>2, <3>3, <3>4, <3>5 DEF LockInv, IInv, MayShareProject
  <2>3. Planned(r)'
    BY <1>1, <1>3, <2>1, Moves
       DEF Planned, PlanInv, IInv, HoldsKey, Operation, Inputs, Rows, Taken,
           Eligible
  <2>4. QED
    BY <1>1, <2>1, <2>2, <2>3, MoveInv
<1>4. QED
  BY <1>2, <1>3

LEMMA ReadConcurrentReplayInv ==
  ASSUME TypeOK, IInv, NEW r \in Requests, ReadConcurrentReplay(r)
  PROVE  IInv'
<1>1. UNCHANGED Rows /\ request[r].step = "replaying"
  BY DEF ReadConcurrentReplay, Unchanged, Rows
<1>2. record[request[r].key].done
  BY <1>1 DEF IInv, PlanInv, Planned
<1>3. QED
  BY <1>1, <1>2, ReplayInv DEF ReadConcurrentReplay

LEMMA LockProjectInv ==
  ASSUME TypeOK, IInv, NEW r \in Requests, LockProject(r)
  PROVE  IInv'
<1>1. /\ UNCHANGED Rows
      /\ request[r].step = "locking" /\ Operation(r) # "task"
      /\ Goto(r, "operating") /\ "operating" \in Steps
      /\ MayUpdateProject(r)
  BY DEF LockProject, Unchanged, Rows, Steps
<1>2. LockInv'
  <2> SUFFICES ASSUME NEW p \in Requests, NEW q \in Requests, p # q
      PROVE /\ ~(HoldsKey(p, request[q].key) /\ HoldsKey(q, request[q].key))'
            /\ HoldsProject(p)' => ~HoldsProject(q)'
            /\ HoldsProject(p)' => ~SharesProject(q)'
    BY DEF LockInv
  <2>1. \A o \in Requests :
          /\ request'[o].key = request[o].key
          /\ \A k : HoldsKey(o, k)' <=> HoldsKey(o, k)
          /\ SharesProject(o)' => SharesProject(o)
    BY <1>1, Moves DEF HoldsKey, SharesProject, Operation
  <2>2. \A o \in Requests \ {r} : HoldsProject(o)' <=> HoldsProject(o)
    BY <1>1, Moves DEF HoldsProject, Operation
  <2>3. ~SharesProject(r)'
    BY <1>1, Moves DEF SharesProject, Operation
  <2>4. QED
    BY <1>1, <2>1, <2>2, <2>3 DEF LockInv, IInv, MayUpdateProject
<1>3. Planned(r)'
  BY <1>1, Moves DEF Planned, PlanInv, IInv, HoldsKey, Operation, Inputs, Rows
<1>4. QED
  BY <1>1, <1>2, <1>3, MoveInv

LEMMA OperateInv ==
  ASSUME TypeOK, IInv, NEW r \in Requests, Operate(r)
  PROVE  IInv'
<1>1. UNCHANGED Rows /\ request[r].step = "operating"
  BY DEF Operate, Unchanged, Rows
<1>2. PICK n : /\ n = IF Operation(r) = "create" THEN Len(revision) + 1
                      ELSE request[r].input.about
               /\ Decide(r, Acceptable(r), n, "committing")
  BY DEF Operate
<1>3. CASE Acceptable(r)
  <2>1. Decide(r, TRUE, n, "committing")
    BY <1>2, <1>3 DEF Decide
  <2>2. Operation(r) # "task" /\ request[r].input \in Inputs(request[r].key)
    BY <1>1 DEF IInv, PlanInv, Planned
  <2>3. LockInv'
    BY <1>1, <2>1, <2>2, Plans, NoLockTaken DEF IInv
  <2>4. request[r].input.about \in Nat /\ Len(revision) \in Nat
    BY RequestTypes, NumberFacts, LenProperties DEF Request, Input, TypeOK
  <2>5. ~record[request[r].key].done
    BY <1>1, <2>2 DEF IInv, PlanInv, Planned, HoldsKey, Operation
  <2>6. Operation(r) \in {"create", "activate"}
    BY <2>2, RequestTypes DEF Operation, Request
  <2>7. Planned(r)'
    <3>1. /\ request'[r].step = "committing"
          /\ request'[r].key = request[r].key
          /\ request'[r].input = request[r].input
          /\ request'[r].seen = active
          /\ request'[r].revision = n
          /\ Operation(r)' = Operation(r)
          /\ UNCHANGED <<active, revision, eligible, record>>
      BY <1>1, <2>1, Plans DEF Operation, Rows
    <3>2. Eligible(r)' /\ request[r].input.expected = active
      BY <1>3, <3>1 DEF Acceptable, Eligible, Expected
    <3>3. CASE Operation(r) = "create"
      BY <1>2, <1>3, <2>2, <2>5, <3>1, <3>2, <3>3
         DEF Planned, Acceptable, Inputs
    <3>4. CASE Operation(r) = "activate"
      <4>1. request[r].input.about # 0
        BY <2>2, <3>4 DEF Inputs, Operation
      <4>2. /\ request[r].input.about \in 1 .. Len(revision)
            /\ revision[request[r].input.about].status = "DRAFT"
        BY <1>3, <2>4, <3>4, <4>1 DEF Acceptable
      <4>3. QED
        BY <1>2, <2>2, <2>5, <3>1, <3>2, <3>4, <4>2 DEF Planned, Inputs
    <3>5. QED
      BY <2>6, <3>3, <3>4
  <2>8. PlanInv'
    BY <1>1, <2>1, <2>7, Plans, PlanKept DEF IInv, PlanInv
  <2>9. QED
    BY <1>1, <2>1, <2>3, <2>8, Plans, RowsKept, AnswersKept DEF IInv, Rows
<1>4. CASE ~Acceptable(r)
  BY <1>1, <1>2, <1>4, RefuseInv DEF Decide
<1>5. QED
  BY <1>3, <1>4

LEMMA LockDependenciesInv ==
  ASSUME TypeOK, IInv, NEW r \in Requests, LockDependencies(r)
  PROVE  IInv'
<1> DEFINE i == request[r].input
<1>1. /\ UNCHANGED Rows /\ MayShareProject(r)
      /\ request[r].step = "locking" /\ Operation(r) = "task"
  BY DEF LockDependencies, Unchanged, Rows
<1>2. PICK a \in BOOLEAN, n \in Numbers :
        /\ n = i.about
        /\ Decide(r, a, n, "inserting")
        /\ a => i.about = active /\ Eligible(r)
  <2>1. i.about \in Numbers
    BY RequestTypes DEF Request, Input
  <2>2. QED
    BY <2>1 DEF LockDependencies
<1>3. CASE a
  <2>1. Decide(r, TRUE, n, "inserting")
    BY <1>2, <1>3
  <2>2. /\ request'[r].step = "inserting"
        /\ request'[r].key = request[r].key
        /\ request'[r].input = request[r].input
        /\ request'[r].seen = active
        /\ request'[r].revision = n
        /\ Operation(r)' = Operation(r)
        /\ UNCHANGED <<active, revision, eligible, record>>
        /\ \A q \in Requests \ {r} : request'[q] = request[q]
    <3>1. UNCHANGED <<active, revision, eligible, record>>
      BY <1>1 DEF Rows
    <3>2. QED
      BY <2>1, <3>1, Plans DEF Operation
  <2>3. LockInv'
    <3> SUFFICES ASSUME NEW p \in Requests, NEW q \in Requests, p # q
        PROVE /\ ~(HoldsKey(p, request[q].key) /\ HoldsKey(q, request[q].key))'
              /\ HoldsProject(p)' => ~HoldsProject(q)'
              /\ HoldsProject(p)' => ~SharesProject(q)'
      BY DEF LockInv
    <3>1. \A o \in Requests :
            /\ request'[o].key = request[o].key
            /\ \A k : HoldsKey(o, k)' => HoldsKey(o, k)
            /\ HoldsProject(o)' => HoldsProject(o)
      BY <1>1, <2>2 DEF HoldsKey, HoldsProject, Operation
    <3>2. \A o \in Requests \ {r} : SharesProject(o)' => SharesProject(o)
      BY <2>2 DEF SharesProject, Operation
    <3>3. ~HoldsProject(r)'
      BY <1>1, <2>2 DEF HoldsProject
    <3>4. QED
      BY <1>1, <3>1, <3>2, <3>3 DEF LockInv, IInv, MayShareProject
  <2>4. i \in Inputs(request[r].key)
    BY <1>1 DEF IInv, PlanInv, Planned
  <2>5. i.about # 0
    BY <1>1, <2>4 DEF Inputs, Operation
  <2>6. Eligible(r)' /\ ~HoldsKey(r, request[r].key)'
    BY <1>1, <1>2, <1>3, <2>2 DEF Eligible, HoldsKey, Operation
  <2>7. Planned(r)'
    BY <1>1, <1>2, <1>3, <2>2, <2>4, <2>5, <2>6 DEF Planned, Inputs
  <2>8. PlanInv'
    BY <1>1, <2>2, <2>7, PlanKept DEF IInv, PlanInv
  <2>9. QED
    BY <1>1, <2>1, <2>3, <2>8, Plans, RowsKept, AnswersKept DEF IInv, Rows
<1>4. CASE ~a
  BY <1>1, <1>2, <1>4, RefuseInv DEF Decide
<1>5. QED
  BY <1>3, <1>4

\* What is checked and still to be committed is not revoked.
LEMMA RevokeInv ==
  ASSUME TypeOK, IInv, NEW s \in Sources, Revoke(s)
  PROVE  IInv'
<1>1. /\ UNCHANGED <<active, revision, record, log, request, told>>
      /\ eligible' = eligible \ {s}
      /\ \A r \in Requests : ~SharesSource(r, s)
  BY DEF Revoke
<1>2. LockInv'
  BY <1>1 DEF LockInv, IInv, HoldsKey, HoldsProject, SharesProject, Operation
<1>3. ASSUME NEW r \in Requests PROVE Planned(r)'
  <2>1. /\ Eligible(r)
        /\ \/ request[r].step = "committing"
           \/ request[r].step = "inserting" /\ Operation(r) = "task"
        => Eligible(r)'
    BY <1>1 DEF SharesSource, Eligible, Operation
  <2>2. \A k \in Keys : Inputs(k)' = Inputs(k)
    BY DEF Inputs
  <2>3. Planned(r) /\ request[r].key \in Keys
    BY RequestTypes DEF Request, IInv, PlanInv
  <2>4. QED
    BY <1>1, <2>1, <2>2, <2>3 DEF Planned, HoldsKey, Operation
<1>4. RowInv' /\ LogInv' /\ AnswersAgree' /\ ExpectationsHonoured'
  BY <1>1 DEF IInv, RowInv, LogInv, AnswersAgree, ExpectationsHonoured
<1>5. QED
  BY <1>2, <1>3, <1>4 DEF IInv, PlanInv

-----------------------------------------------------------------------------
(* COMMIT.                                                                 *)

\* The record and the log entry a COMMIT leaves.
LEMMA EffectRecord ==
  ASSUME TypeOK, IInv, NEW r \in Requests, request[r].step = "committing",
         Effect(r)
  PROVE  LET k == request[r].key
         IN /\ k \in Keys /\ ~record[k].done /\ record'[k].done
            /\ record'[k] = [done |-> TRUE, input |-> request[r].input,
                             revision |-> request[r].revision]
            /\ \A j \in Keys \ {k} : record'[j] = record[j]
            /\ Len(log) \in Nat /\ Len(log') = Len(log) + 1
            /\ \A i \in 1 .. Len(log) : log'[i] = log[i] /\ log[i].key # k
            /\ log'[Len(log) + 1] = [key |-> k, revision |-> request[r].revision,
                                     previous |-> request[r].seen]
<1> DEFINE k == request[r].key
           e == [key |-> k, revision |-> request[r].revision,
                 previous |-> request[r].seen]
<1>1. request[r] \in Request /\ k \in Keys
  BY RequestTypes DEF Request
<1>2. ~record[k].done
  <2>1. HoldsKey(r, k)
    BY DEF HoldsKey
  <2>2. QED
    BY <2>1 DEF IInv, PlanInv, Planned
<1>3. e \in Entry
  BY <1>1 DEF Entry, Request
<1>4. log' = Append(log, e)
  BY DEF Effect
<1> HIDE DEF e
<1>5. /\ Len(log) \in Nat /\ Len(log') = Len(log) + 1
      /\ \A i \in 1 .. Len(log) : log'[i] = log[i]
      /\ log'[Len(log) + 1] = e
  BY <1>3, <1>4, AppendProperties, LenProperties DEF TypeOK
<1>6. \A i \in 1 .. Len(log) : log[i].key # k
  BY <1>1, <1>2 DEF IInv, LogInv
<1>7. /\ record'[k] = [done |-> TRUE, input |-> request[r].input,
                       revision |-> request[r].revision]
      /\ \A j \in Keys \ {k} : record'[j] = record[j]
  BY <1>1 DEF Effect, TypeOK
<1>8. record'[k].done
  BY <1>7
<1>9. QED
  BY <1>1, <1>2, <1>5, <1>6, <1>7, <1>8 DEF e

\* The revisions a COMMIT leaves.
LEMMA EffectRows ==
  ASSUME TypeOK, IInv, NEW r \in Requests, request[r].step = "committing",
         Effect(r)
  PROVE  RowInv'
<1> DEFINE q == request[r]
<1>1. q \in Request /\ active \in Nat /\ Len(revision) \in Nat
  BY RequestTypes, NumberFacts, LenProperties DEF TypeOK
<1>2. /\ q.seen = active
      /\ Operation(r) = "create" => q.revision = Len(revision) + 1
      /\ Operation(r) = "activate" =>
           /\ q.revision \in 1 .. Len(revision)
           /\ revision[q.revision].status = "DRAFT"
  BY DEF IInv, PlanInv, Planned
<1>3. /\ active <= Len(revision)
      /\ \A n \in 1 .. Len(revision) :
           (revision[n].status = "ACTIVE") <=> (n = active)
  BY DEF IInv, RowInv
<1>4. CASE Operation(r) = "create"
  <2> DEFINE e == [status |-> "DRAFT", parent |-> q.input.about,
                   sources |-> q.input.sources]
  <2>1. e \in Revision /\ e.status = "DRAFT"
    BY <1>1 DEF Request, Input, Revision
  <2>2. revision' = Append(revision, e) /\ active' = active
    BY <1>4 DEF Effect
  <2> HIDE DEF e
  <2>3. /\ Len(revision') = Len(revision) + 1
        /\ \A n \in 1 .. Len(revision) : revision'[n] = revision[n]
        /\ revision'[Len(revision) + 1] = e
    BY <2>1, <2>2, AppendProperties DEF TypeOK
  <2>4. QED
    BY <1>1, <1>3, <2>1, <2>2, <2>3 DEF RowInv
<1>5. CASE Operation(r) = "activate"
  <2>1. revision' = Supersede(active, q.revision) /\ active' = q.revision
    BY <1>2, <1>5 DEF Effect
  <2>2. active \in Numbers /\ q.revision \in Numbers
    BY <1>1 DEF TypeOK, Request
  <2>3. PICK a \in Numbers, m \in Numbers : a = active /\ m = q.revision
    BY <2>2
  <2>4. /\ Len(revision') = Len(revision)
        /\ \A n \in 1 .. Len(revision) :
             revision'[n].status = IF n = q.revision THEN "ACTIVE"
                                   ELSE IF n = active THEN "SUPERSEDED"
                                   ELSE revision[n].status
    <3>1. revision' = Supersede(a, m)
      BY <2>1, <2>3
    <3>2. Len(Supersede(a, m)) = Len(revision)
      BY SupersedeType
    <3>3. \A n \in 1 .. Len(revision) :
            Supersede(a, m)[n].status = IF n = m THEN "ACTIVE"
                                        ELSE IF n = a THEN "SUPERSEDED"
                                        ELSE revision[n].status
      BY SupersedeType
    <3>4. QED
      BY <2>3, <3>1, <3>2, <3>3
  <2>5. q.revision \in 1 .. Len(revision)
    BY <1>2, <1>5
  <2>6. QED
    BY <1>1, <1>3, <2>1, <2>4, <2>5 DEF RowInv
<1>6. CASE Operation(r) = "task"
  BY <1>6 DEF Effect, IInv, RowInv
<1>7. QED
  BY <1>1, <1>4, <1>5, <1>6 DEF Operation, Request

\* What another request planned is not disturbed: it could not plan it while
\* this one held the project, or this one only reads.
LEMMA EffectPlans ==
  ASSUME TypeOK, IInv, NEW r \in Requests, request[r].step = "committing",
         Effect(r), UNCHANGED eligible,
         NEW q \in Requests \ {r}, request'[q] = request[q]
  PROVE  Planned(q)'
<1> DEFINE Plan(p) == \/ request[p].step = "committing"
                      \/ /\ request[p].step = "inserting"
                         /\ Operation(p) = "task"
<1>1. request[q].key \in Keys /\ Planned(q)
  BY RequestTypes DEF Request, IInv, PlanInv
<1>2. HoldsKey(r, request[r].key)
  BY DEF HoldsKey
<1>3. HoldsKey(q, request[q].key) => request[q].key # request[r].key
  BY <1>2 DEF IInv, LockInv
<1>4. /\ ~record[request[r].key].done /\ record'[request[r].key].done
      /\ \A j \in Keys \ {request[r].key} : record'[j] = record[j]
  BY EffectRecord
<1>5. \A k \in Keys : Inputs(k)' = Inputs(k)
  BY DEF Inputs
<1>6. Operation(q)' = Operation(q)
  BY DEF Operation
<1>7. HoldsKey(q, request[q].key)' <=> HoldsKey(q, request[q].key)
  BY DEF HoldsKey
<1>8. /\ request[q].step # "idle" => request[q].input \in Inputs(request[q].key)'
      /\ HoldsKey(q, request[q].key)' => ~record'[request[q].key].done
      /\ request[q].step = "replaying" => record'[request[q].key].done
      /\ request[q].step = "operating" => Operation(q)' # "task"
  BY <1>1, <1>3, <1>4, <1>5, <1>6, <1>7 DEF Planned
<1>9. CASE Plan(q)
  <2>1. HoldsProject(q) \/ SharesProject(q)
    BY <1>9 DEF HoldsProject, SharesProject
  <2>2. ~HoldsProject(r)
    BY <2>1 DEF IInv, LockInv
  <2>3. Operation(r) = "task"
    BY <2>2 DEF HoldsProject
  <2>4. UNCHANGED <<active, revision>>
    BY <2>3 DEF Effect
  <2>5. Eligible(q)' <=> Eligible(q)
    BY <2>4 DEF Eligible, Operation
  <2>6. QED
    BY <1>1, <1>6, <1>8, <1>9, <2>4, <2>5 DEF Planned
<1>10. CASE ~Plan(q)
  BY <1>6, <1>8, <1>10 DEF Planned
<1>11. QED
  BY <1>9, <1>10

LEMMA CommitInv ==
  ASSUME TypeOK, IInv, NEW r \in Requests, Commit(r)
  PROVE  IInv'
<1> DEFINE k == request[r].key
<1>1. /\ request[r].step = "committing" /\ Effect(r) /\ UNCHANGED eligible
      /\ Forget(r)
      /\ \/ told' = told
         \/ told' = [told EXCEPT ![k] = @ \cup
                       {[input |-> request[r].input,
                         revision |-> request[r].revision]}]
  BY DEF Commit, Succeed, Refuse
<1>2. /\ k \in Keys /\ ~record[k].done
      /\ record'[k] = [done |-> TRUE, input |-> request[r].input,
                       revision |-> request[r].revision]
      /\ \A j \in Keys \ {k} : record'[j] = record[j]
      /\ Len(log) \in Nat /\ Len(log') = Len(log) + 1
      /\ \A i \in 1 .. Len(log) : log'[i] = log[i] /\ log[i].key # k
      /\ log'[Len(log) + 1] = [key |-> k, revision |-> request[r].revision,
                               previous |-> request[r].seen]
  BY <1>1, EffectRecord
<1>3. LockInv'
  BY <1>1, Ends, NoLockTaken DEF IInv
<1>4. PlanInv'
  BY <1>1, Ends, IdleIsPlanned, EffectPlans DEF PlanInv
<1>5. LogInv'
  <2> SUFFICES ASSUME NEW j \in Keys
               PROVE  record'[j].done <=>
                        \E i \in 1 .. Len(log') : log'[i].key = j
    BY DEF LogInv
  <2>1. CASE j = k
    <3>1. Len(log') \in 1 .. Len(log') /\ log'[Len(log')].key = k
      BY <1>2
    <3>2. QED
      BY <1>2, <2>1, <3>1
  <2>2. CASE j # k
    <3>1. record[j].done <=> \E i \in 1 .. Len(log) : log[i].key = j
      BY DEF IInv, LogInv
    <3>2. (\E i \in 1 .. Len(log) : log[i].key = j)
            <=> \E i \in 1 .. Len(log') : log'[i].key = j
      BY <1>2, <2>2
    <3>3. QED
      BY <1>2, <2>2, <3>1, <3>2
  <2>3. QED
    BY <2>1, <2>2
<1>6. AnswersAgree'
  <2>1. ASSUME NEW a \in told[k] PROVE FALSE
    <3>1. record[k] = [done |-> TRUE, input |-> a.input,
                       revision |-> a.revision]
      BY <1>2 DEF IInv, AnswersAgree
    <3>2. QED
      BY <1>2, <3>1
  <2>2. \A a \in told'[k] : /\ a.input = request[r].input
                           /\ a.revision = request[r].revision
    BY <1>1, <1>2, <2>1 DEF TypeOK
  <2>3. \A j \in Keys \ {k} : told'[j] = told[j]
    BY <1>1 DEF TypeOK
  <2>4. QED
    BY <1>2, <2>2, <2>3 DEF IInv, AnswersAgree
<1>7. ExpectationsHonoured'
  <2> SUFFICES ASSUME NEW i \in 1 .. Len(log'),
                      OperationOf[log'[i].key] # "task"
               PROVE  log'[i].previous = record'[log'[i].key].input.expected
    BY DEF ExpectationsHonoured
  <2>1. CASE i \in 1 .. Len(log)
    <3>1. log[i].key \in Keys
      <4>1. log[i] \in Entry
        BY <2>1, ElementOfSeq DEF TypeOK
      <4>2. QED
        BY <4>1 DEF Entry
    <3>2. QED
      BY <1>2, <2>1, <3>1 DEF IInv, ExpectationsHonoured
  <2>2. CASE i = Len(log) + 1
    <3>1. /\ request[r].seen = active
          /\ Operation(r) # "task" => request[r].input.expected = active
      BY <1>1 DEF IInv, PlanInv, Planned
    <3>2. QED
      BY <1>2, <2>2, <3>1 DEF Operation
  <2>3. QED
    BY <1>2, <2>1, <2>2
<1>8. QED
  BY <1>1, <1>3, <1>4, <1>5, <1>6, <1>7, EffectRows DEF IInv

LEMMA InvInit == Init => IInv
<1> SUFFICES ASSUME Init PROVE IInv
  OBVIOUS
<1>1. \A r \in Requests : request[r].step = "idle"
  BY DEF Init, Asks
<1>2. LockInv /\ PlanInv
  BY <1>1 DEF LockInv, PlanInv, Planned, HoldsKey, HoldsProject, SharesProject
<1>3. Len(revision) = 0 /\ Len(log) = 0 /\ active = 0
  BY EmptySeq DEF Init
<1>4. RowInv /\ ExpectationsHonoured
  BY <1>3 DEF RowInv, ExpectationsHonoured
<1>5. \A k \in Keys : ~record[k].done /\ told[k] = {}
  BY DEF Init, NoRecord
<1>6. LogInv /\ AnswersAgree
  BY <1>3, <1>5 DEF LogInv, AnswersAgree
<1>7. QED
  BY <1>2, <1>4, <1>6 DEF IInv

LEMMA InvStep == TypeOK /\ IInv /\ [Next]_vars => IInv'
<1> SUFFICES ASSUME TypeOK, IInv, [Next]_vars PROVE IInv'
  OBVIOUS
<1>1. ASSUME NEW r \in Requests, RollBack(r) PROVE IInv'
  BY <1>1, RefuseInv DEF RollBack, Rows
<1>2. ASSUME NEW r \in Requests, AbortDeadlocked(r) PROVE IInv'
  BY <1>2, RefuseInv DEF AbortDeadlocked, Unchanged, Rows
<1>3. CASE UNCHANGED vars
  <2>1. UNCHANGED Rows /\ UNCHANGED <<request, told>>
    BY <1>3 DEF vars, Rows
  <2>2. LockInv' /\ PlanInv'
    BY <2>1, NoLockTaken, PlanKept DEF IInv, PlanInv
  <2>3. QED
    BY <2>1, <2>2, RowsKept, AnswersKept DEF IInv, Rows
<1>4. QED
  BY <1>1, <1>2, <1>3, BeginInv, FindRecordInv, InsertRecordInv,
     ReadConcurrentReplayInv, LockProjectInv, OperateInv, LockDependenciesInv,
     CommitInv, RevokeInv
     DEF Next, Proceed

LEMMA Inductive == Spec => [](TypeOK /\ IInv)
<1>1. Init => TypeOK /\ IInv
  BY TypeInit, InvInit
<1>2. TypeOK /\ IInv /\ [Next]_vars => (TypeOK /\ IInv)'
  BY TypeStep, InvStep DEF IInv
<1>3. QED
  BY <1>1, <1>2, PTL DEF Spec

\* Every reachable state is well typed: revisions keep their numbers and
\* states, and the pointer names one of them.
THEOREM TruthTypeCorrect == Spec => []TypeOK
  BY Inductive, PTL

\* The strengthening: locks exclude each other, at most one revision is active
\* and the pointer names it, and what a transaction plans is still what it read
\* under its locks (the project lock every operation takes first).
THEOREM TruthInvariant == Spec => []IInv
  BY Inductive, PTL

\* Everyone who repeats a request under one idempotency key is told the same,
\* whatever requests overlap and whichever answers are lost.
THEOREM RepeatsAgree == Spec => []AnswersAgree
<1>1. IInv => AnswersAgree
  BY DEF IInv
<1>2. QED
  BY <1>1, Inductive, PTL

\* No client's update is lost: what a draft or an activation follows is the
\* revision its client said it had seen (the check of the expected revision
\* under the project lock).
THEOREM NoUpdateIsLost == Spec => []ExpectationsHonoured
<1>1. IInv => ExpectationsHonoured
  BY DEF IInv
<1>2. QED
  BY <1>1, Inductive, PTL

\* Whatever is revoked meanwhile, what a COMMIT makes visible rests on sources
\* that are eligible at that moment.
THEOREM TruthRestsOnEligibleSources == Spec => RestsOnEligibleSources
<1> DEFINE Rests ==
      \A k \in Keys :
        ~record[k].done /\ record'[k].done =>
          IF OperationOf[k] = "activate"
            THEN revision[record'[k].revision].sources \cap eligible # {}
            ELSE record'[k].input.sources \subseteq eligible
<1>1. ASSUME TypeOK, IInv, [Next]_vars PROVE Rests
  <2>1. CASE record' = record
    BY <2>1
  <2>2. ASSUME NEW r \in Requests, Commit(r) PROVE Rests
    <3> DEFINE k == request[r].key
    <3>1. request[r].step = "committing" /\ Effect(r)
      BY <2>2 DEF Commit
    <3>2. /\ record'[k] = [done |-> TRUE, input |-> request[r].input,
                           revision |-> request[r].revision]
          /\ \A j \in Keys \ {k} : record'[j] = record[j]
      BY <1>1, <3>1, EffectRecord
    <3>3. /\ Eligible(r)
          /\ Operation(r) = "activate" =>
               request[r].revision = request[r].input.about
      BY <1>1, <3>1 DEF IInv, PlanInv, Planned
    <3>4. QED
      BY <3>2, <3>3 DEF Eligible, Operation
  <2>3. QED
    BY <1>1, <2>1, <2>2
       DEF Next, Proceed, Begin, FindRecord, InsertRecord, ReadConcurrentReplay,
           LockProject, Operate, LockDependencies, RollBack, AbortDeadlocked,
           Revoke, Unchanged, vars
<1>2. TypeOK /\ IInv /\ [Next]_vars => [Rests]_vars
  BY <1>1
<1>3. QED
  BY <1>2, Inductive, PTL DEF Spec, RestsOnEligibleSources

-----------------------------------------------------------------------------
(* The refinement of TruthLedger.                                          *)

\* What the ledger sees of the revisions.
Shown(s) == [n \in 1 .. Len(s) |-> [status |-> s[n].status,
                                    parent |-> s[n].parent]]

LEMMA ShownFacts ==
  ASSUME NEW s \in Seq(Revision)
  PROVE  /\ Shown(s) \in Seq([status : {"DRAFT", "ACTIVE", "SUPERSEDED"},
                              parent : Numbers])
         /\ Len(Shown(s)) = Len(s)
         /\ \A n \in 1 .. Len(s) : /\ Shown(s)[n].status = s[n].status
                                   /\ Shown(s)[n].parent = s[n].parent
<1> DEFINE H == [status : {"DRAFT", "ACTIVE", "SUPERSEDED"}, parent : Numbers]
<1>1. Len(s) \in Nat /\ \A n \in 1 .. Len(s) : s[n] \in Revision
  BY LenProperties, ElementOfSeq
<1>2. \A n \in 1 .. Len(s) : [status |-> s[n].status,
                              parent |-> s[n].parent] \in H
  BY <1>1 DEF Revision
<1>3. \A n \in 1 .. Len(s) : /\ Shown(s)[n].status = s[n].status
                             /\ Shown(s)[n].parent = s[n].parent
  BY DEF Shown
<1> HIDE DEF H
<1>4. Shown(s) \in [1 .. Len(s) -> H]
  BY <1>2 DEF Shown
<1>5. Shown(s) \in Seq(H)
  BY <1>1, <1>4, SeqDef
<1>6. Len(Shown(s)) = Len(s)
  BY <1>1, <1>4, <1>5, LenProperties
<1>7. QED
  BY <1>3, <1>5, <1>6 DEF H

LEMMA ShownAppend ==
  ASSUME NEW s \in Seq(Revision), NEW e \in Revision
  PROVE  Shown(Append(s, e)) =
           Append(Shown(s), [status |-> e.status, parent |-> e.parent])
<1> DEFINE H == [status : {"DRAFT", "ACTIVE", "SUPERSEDED"}, parent : Numbers]
           h == [status |-> e.status, parent |-> e.parent]
           a == Shown(Append(s, e))
           b == Append(Shown(s), h)
<1>1. h \in H
  BY DEF Revision
<1>2. /\ Append(s, e) \in Seq(Revision) /\ Len(Append(s, e)) = Len(s) + 1
      /\ \A n \in 1 .. Len(s) : Append(s, e)[n] = s[n]
      /\ Append(s, e)[Len(s) + 1] = e
      /\ Len(s) \in Nat
  BY AppendProperties, LenProperties
<1>3. Shown(s) \in Seq(H) /\ Len(Shown(s)) = Len(s)
  BY ShownFacts
<1>4. a \in Seq(H) /\ Len(a) = Len(s) + 1
  BY <1>2, ShownFacts
<1>5. \A n \in 1 .. Len(s) + 1 :
        a[n] = [status |-> Append(s, e)[n].status,
                parent |-> Append(s, e)[n].parent]
  BY <1>2 DEF Shown
<1>6. \A n \in 1 .. Len(s) : a[n] = Shown(s)[n]
  BY <1>2, <1>5 DEF Shown
<1>7. a[Len(s) + 1] = h
  BY <1>2, <1>5
<1> HIDE DEF H, h
<1>8. /\ b \in Seq(H) /\ Len(b) = Len(s) + 1
      /\ \A n \in 1 .. Len(s) : b[n] = Shown(s)[n]
      /\ b[Len(s) + 1] = h
  BY <1>1, <1>3, AppendProperties
<1> HIDE DEF a, b
<1>9. \A n \in 1 .. Len(a) : a[n] = b[n]
  BY <1>2, <1>4, <1>6, <1>7, <1>8
<1>10. a = b
  BY <1>4, <1>8, <1>9, SeqEqual
<1>11. QED
  BY <1>10 DEF a, b, h

LEMMA ShownSupersede ==
  ASSUME TypeOK, NEW n \in Numbers, NEW m \in Numbers
  PROVE  Shown(Supersede(n, m)) =
           [k \in 1 .. Len(Shown(revision)) |->
              [Shown(revision)[k] EXCEPT !.status =
                 IF k = m THEN "ACTIVE" ELSE IF k = n THEN "SUPERSEDED" ELSE @]]
<1> DEFINE New(k) ==
      [status |-> IF k = m THEN "ACTIVE" ELSE IF k = n THEN "SUPERSEDED"
                  ELSE revision[k].status,
       parent |-> revision[k].parent]
<1>1. /\ Len(Shown(revision)) = Len(revision)
      /\ Len(Supersede(n, m)) = Len(revision)
  BY ShownFacts, SupersedeType DEF TypeOK
<1>2. \A k \in 1 .. Len(revision) :
        /\ Shown(revision)[k] \in [status : {"DRAFT", "ACTIVE", "SUPERSEDED"},
                                   parent : Numbers]
        /\ Shown(revision)[k].status = revision[k].status
        /\ Shown(revision)[k].parent = revision[k].parent
  BY ShownFacts, ElementOfSeq DEF TypeOK
<1>3. \A k \in 1 .. Len(revision) :
        [Shown(revision)[k] EXCEPT !.status =
           IF k = m THEN "ACTIVE" ELSE IF k = n THEN "SUPERSEDED" ELSE @]
          = New(k)
  BY <1>2
<1>4. \A k \in 1 .. Len(revision) :
        [status |-> Supersede(n, m)[k].status,
         parent |-> Supersede(n, m)[k].parent] = New(k)
  BY SupersedeType
<1> HIDE DEF New
<1>5. Shown(Supersede(n, m)) = [k \in 1 .. Len(revision) |-> New(k)]
  BY <1>1, <1>4 DEF Shown
<1>6. QED
  BY <1>1, <1>3, <1>5

LEMMA LedgerInit == Init => Ledger!Init
<1> SUFFICES ASSUME Init PROVE Ledger!Init
  OBVIOUS
<1>1. revision \in Seq(Revision) /\ Len(revision) = 0
  BY EmptySeq DEF Init
<1>2. Shown(revision) = <<>>
  BY <1>1, ShownFacts, EmptySeq
<1>3. QED
  BY <1>2 DEF Init, Ledger!Init, Shown

LEMMA LedgerStutters ==
  ASSUME UNCHANGED <<active, revision, log>>
  PROVE  UNCHANGED Ledger!vars
  BY DEF Ledger!vars

LEMMA LedgerCommit ==
  ASSUME TypeOK, IInv, NEW r \in Requests, request[r].step = "committing",
         Effect(r)
  PROVE  Ledger!Next
<1> DEFINE q == request[r]
<1>1. PICK k \in Keys, n \in Numbers, a \in Numbers, i \in Input :
        k = q.key /\ n = q.revision /\ a = active /\ i = q.input
  BY RequestTypes DEF Request, TypeOK
<1>2. /\ q.seen = a
      /\ OperationOf[k] = "create" => i.about = a /\ n = Len(revision) + 1
      /\ OperationOf[k] = "activate" =>
           n \in 1 .. Len(revision) /\ revision[n].status = "DRAFT"
      /\ OperationOf[k] = "task" => n = a /\ a # 0
  BY <1>1 DEF IInv, PlanInv, Planned, Operation
<1>3. Ledger!Fresh(k)
  BY <1>1, EffectRecord DEF Ledger!Fresh
<1>4. Ledger!Took(k, n)
  BY <1>1, <1>2 DEF Effect, Ledger!Took
<1>5. /\ revision \in Seq(Revision)
      /\ Len(Shown(revision)) = Len(revision)
      /\ \A m \in 1 .. Len(revision) :
           Shown(revision)[m].status = revision[m].status
  BY ShownFacts DEF TypeOK
<1>6. CASE OperationOf[k] = "create"
  <2> DEFINE e == [status |-> "DRAFT", parent |-> i.about,
                   sources |-> i.sources]
  <2>1. e \in Revision
    BY DEF Input, Revision
  <2>2. revision' = Append(revision, e) /\ active' = active
    BY <1>1, <1>6 DEF Effect, Operation
  <2>3. Shown(Append(revision, e)) =
          Append(Shown(revision), [status |-> "DRAFT", parent |-> a])
    <3>1. Shown(Append(revision, e)) =
            Append(Shown(revision), [status |-> e.status, parent |-> e.parent])
      BY <1>5, <2>1, ShownAppend
    <3>2. QED
      BY <1>2, <1>6, <3>1
  <2>4. Shown(revision)' = Append(Shown(revision),
                                  [status |-> "DRAFT", parent |-> active])
    BY <1>1, <2>2, <2>3 DEF Shown
  <2>5. Ledger!Took(k, Len(Shown(revision)) + 1)
    BY <1>2, <1>4, <1>5, <1>6
  <2>6. Ledger!Draft(k)
    BY <1>3, <1>6, <2>2, <2>4, <2>5 DEF Ledger!Draft, Shown
  <2>7. QED
    BY <2>6 DEF Ledger!Next
<1>7. CASE OperationOf[k] = "activate"
  <2>1. revision' = Supersede(a, n) /\ active' = n
    BY <1>1, <1>2, <1>7 DEF Effect, Operation
  <2>2. Shown(revision)' =
          [m \in 1 .. Len(Shown(revision)) |->
             [Shown(revision)[m] EXCEPT !.status =
                IF m = n THEN "ACTIVE"
                ELSE IF m = active THEN "SUPERSEDED" ELSE @]]
    <3>1. Shown(revision)' = Shown(Supersede(a, n))
      BY <2>1 DEF Shown
    <3>2. Shown(Supersede(a, n)) =
            [m \in 1 .. Len(Shown(revision)) |->
               [Shown(revision)[m] EXCEPT !.status =
                  IF m = n THEN "ACTIVE"
                  ELSE IF m = a THEN "SUPERSEDED" ELSE @]]
      BY ShownSupersede
    <3>3. a = active
      BY <1>1
    <3>4. QED
      BY <3>1, <3>2, <3>3
  <2>3. Shown(revision)[n].status = "DRAFT"
    BY <1>2, <1>5, <1>7
  <2>4. Ledger!Activate(k, n)
    BY <1>3, <1>4, <1>7, <2>1, <2>2, <2>3 DEF Ledger!Activate, Shown
  <2>5. n \in 1 .. Len(Shown(revision))
    BY <1>2, <1>5, <1>7
  <2>6. QED
    BY <2>4, <2>5 DEF Ledger!Next, Shown
<1>8. CASE OperationOf[k] = "task"
  <2>1. UNCHANGED <<revision, active>>
    BY <1>1, <1>8 DEF Effect, Operation
  <2>2. Ledger!Task(k)
    BY <1>1, <1>2, <1>3, <1>4, <1>8, <2>1 DEF Ledger!Task
  <2>3. QED
    BY <2>2 DEF Ledger!Next
<1>9. QED
  BY <1>6, <1>7, <1>8

LEMMA LedgerStep ==
  TypeOK /\ IInv /\ [Next]_vars => [Ledger!Next]_(Ledger!vars)
<1> SUFFICES ASSUME TypeOK, IInv, [Next]_vars
             PROVE  Ledger!Next \/ UNCHANGED Ledger!vars
  OBVIOUS
<1>1. CASE UNCHANGED <<active, revision, log>>
  BY <1>1, LedgerStutters
<1>2. ASSUME NEW r \in Requests, Commit(r) PROVE Ledger!Next
  BY <1>2, LedgerCommit DEF Commit
<1>3. QED
  BY <1>1, <1>2
     DEF Next, Proceed, Begin, FindRecord, InsertRecord, ReadConcurrentReplay,
         LockProject, Operate, LockDependencies, RollBack, AbortDeadlocked,
         Revoke, Unchanged, vars

\* The requests of a project take effect as if one after the other, at most
\* once for a key.
THEOREM LedgerImplemented == Spec => ImplementsLedger
<1>1. Init => Ledger!Init
  BY LedgerInit
<1>2. TypeOK /\ IInv /\ [Next]_vars => [Ledger!Next]_(Ledger!vars)
  BY LedgerStep
<1>3. QED
  BY <1>1, <1>2, Inductive, PTL DEF Spec, ImplementsLedger, Ledger!Spec
=============================================================================
