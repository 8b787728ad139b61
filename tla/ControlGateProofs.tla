------------------------- MODULE ControlGateProofs -------------------------
(***************************************************************************)
(* The safety theorems of ControlGate, for every set of contracts, heads   *)
(* and reviewers and every number of changes.                              *)
(*                                                                         *)
(* The pieces of a snapshot are read at different moments.  Of two states  *)
(* h and k of GitHub, Before(h, k) says of every piece what must hold when *)
(* h came first; every step of GitHub takes its state to a later one.  A   *)
(* piece that both passes saw alike was so in between: the moment the      *)
(* first pass ended lies between every reading of the first and every      *)
(* reading of the second, so the whole snapshot was true at that moment.   *)
(* Only what came and went between two readings is in neither.             *)
(***************************************************************************)
EXTENDS ControlGate, FiniteSetTheorems, SequenceTheorems,
        WellFoundedInduction, TLAPS

-----------------------------------------------------------------------------
(* What came before what.                                                  *)

IssueBefore(h, k) ==
  h.issue = k.issue \/ h.issue.updatedAt < k.issue.updatedAt

EditedTo(a, b, E, F) ==
  /\ a.id = b.id
  /\ a = b \/ (a.updatedAt <= b.updatedAt /\ <<b.id, b.updatedAt>> \in F \ E)

\* What is there and was not created since was there before; what was there
\* may have been deleted.
ApprovalsBefore(h, k) ==
  /\ h.edits \subseteq k.edits
  /\ \A b \in k.approvals : b.id < h.next =>
       \E a \in h.approvals : EditedTo(a, b, h.edits, k.edits)

Edited(r) == [r EXCEPT !.edited = TRUE]
ReviewBefore(r, q) == q = r \/ (~r.edited /\ q = Edited(r))
ReviewsBefore(h, k) ==
  \A q \in k.reviews : q.id < h.next => \E r \in h.reviews : ReviewBefore(r, q)

AttemptBefore(x, y) ==
  \/ x = y
  \/ x.attempt < y.attempt
  \/ x.attempt = y.attempt /\ x.status = "in_progress" /\ y.status = "completed"

RunBefore(r, q) ==
  /\ r.id = q.id /\ r.head = q.head /\ r.base = q.base /\ r.createdAt = q.createdAt
  /\ AttemptBefore(r.latest, q.latest)
RunsBefore(h, k) ==
  \A q \in k.runs : q.id < h.next => \E r \in h.runs : RunBefore(r, q)

BindingBefore(b, d) ==
  /\ b.id = d.id /\ b.ordinal = d.ordinal /\ b.base = d.base
  /\ b.merge = d.merge /\ b.parent = d.parent
  /\ b.open => d.open
  /\ AttemptBefore(b.ci, d.ci)
BindingsBefore(h, k) ==
  \A d \in k.bindings : d.id < h.next => \E b \in h.bindings : BindingBefore(b, d)

EventsBefore(h, k) ==
  h.timeline \subseteq k.timeline /\ h.issueTimeline \subseteq k.issueTimeline
CountsBefore(h, k) == h.related <= k.related /\ h.main <= k.main
StampsBefore(h, k) == h.at <= k.at /\ h.next <= k.next

\* A change of a pull request that leaves no event in its timeline after
\* which nothing is accepted.
Forward(p, q) ==
  /\ p.base = q.base /\ p.open = q.open
  /\ p.head <= q.head
  /\ q.draft => p.draft

\* The timeline of k has such an event, no older than the text of p.
Doubted(p, k) ==
  \E ev \in k.timeline : ev.event \in ProgramPermanent /\ p.updatedAt <= ev.at

LinkBefore(h, k) ==
  \/ h.bodyAt = k.bodyAt /\ h.pr.link = k.pr.link
  \/ h.bodyAt < k.bodyAt /\ h.pr.updatedAt <= k.bodyAt

PrBefore(h, k) ==
  /\ h.pr.program = k.pr.program
  /\ h.pr.updatedAt <= k.pr.updatedAt
  /\ Forward(h.pr, k.pr) \/ Doubted(h.pr, k)
  /\ LinkBefore(h, k)
  /\ h.pr = k.pr \/ h.at <= k.pr.updatedAt

Before(h, k) ==
  /\ IssueBefore(h, k) /\ ApprovalsBefore(h, k) /\ ReviewsBefore(h, k)
  /\ RunsBefore(h, k) /\ BindingsBefore(h, k)
  /\ EventsBefore(h, k) /\ CountsBefore(h, k) /\ StampsBefore(h, k)
  /\ PrBefore(h, k)

\* A state GitHub was in.
Been(h) == h \in Hubs /\ Consistent(h) /\ Past(h)

LEMMA PieceTypes ==
  ASSUME NEW h \in Hubs
  PROVE  /\ h.issue \in [body : Bodies, open : BOOLEAN, updatedAt : Nat]
         /\ h.approvals \subseteq [id : Nat, body : Bodies, createdAt : Nat, updatedAt : Nat]
         /\ h.edits \subseteq Nat \X Nat
         /\ h.issueTimeline \subseteq [event : Invalidating, at : Nat, id : Nat]
         /\ h.pr \in [program : BOOLEAN, head : Heads, base : Nat, open : BOOLEAN,
                      draft : BOOLEAN, updatedAt : Nat,
                      link : [approval : Nat, body : Bodies]]
         /\ h.bodyAt \in Nat
         /\ h.timeline \subseteq [event : Invalidating, at : Nat, id : Nat]
         /\ h.reviews \subseteq [id : Nat, head : Heads, session : Sessions,
                                 edited : BOOLEAN]
         /\ h.runs \subseteq [id : Nat, head : Heads, base : Nat, createdAt : Nat,
                              latest : Attempt]
         /\ h.due \in Seq([head : Heads, base : Nat])
         /\ h.related \in Nat /\ h.main \in Nat
         /\ h.bindings \subseteq [ordinal : Nat, id : Nat, base : Nat, merge : Nat,
                                  parent : Nat, open : BOOLEAN, ci : Attempt]
         /\ h.at \in Nat /\ h.next \in Nat
BY DEF Hubs

LEMMA HeadsAreNumbers == Heads \subseteq Nat
BY GateAssumption DEF Heads

-----------------------------------------------------------------------------
(* Before is a preorder on the states GitHub was in.                       *)

LEMMA AttemptsInOrder ==
  ASSUME NEW x \in Attempt, NEW y \in Attempt, NEW z \in Attempt,
         AttemptBefore(x, y), AttemptBefore(y, z)
  PROVE  AttemptBefore(x, z) /\ (x = z => x = y)
<1> USE DEF Attempt, AttemptBefore
<1>1. AttemptBefore(x, z) OBVIOUS
<1>2. ASSUME x = z PROVE x = y BY <1>2
<1> QED BY <1>1, <1>2

LEMMA BeforeReflexive == \A h \in Hubs : Before(h, h)
<1> SUFFICES ASSUME NEW h \in Hubs PROVE Before(h, h) OBVIOUS
<1>1. /\ h.related \in Nat /\ h.main \in Nat /\ h.bodyAt \in Nat
      /\ h.pr.updatedAt \in Nat /\ h.pr.head \in Nat /\ h.at \in Nat /\ h.next \in Nat
  BY PieceTypes, HeadsAreNumbers
<1>2. IssueBefore(h, h) /\ ReviewsBefore(h, h) /\ EventsBefore(h, h)
  BY DEF IssueBefore, ReviewsBefore, ReviewBefore, EventsBefore
<1>3. ApprovalsBefore(h, h) BY DEF ApprovalsBefore, EditedTo
<1>4. RunsBefore(h, h) BY DEF RunsBefore, RunBefore, AttemptBefore
<1>5. BindingsBefore(h, h) BY DEF BindingsBefore, BindingBefore, AttemptBefore
<1>6. CountsBefore(h, h) /\ StampsBefore(h, h) BY <1>1 DEF CountsBefore, StampsBefore
<1>7. PrBefore(h, h) BY <1>1 DEF PrBefore, Forward, LinkBefore
<1> QED BY <1>2, <1>3, <1>4, <1>5, <1>6, <1>7 DEF Before

LEMMA StampsInOrder ==
  ASSUME NEW h \in Hubs, NEW m \in Hubs, NEW k \in Hubs,
         StampsBefore(h, m), StampsBefore(m, k)
  PROVE  StampsBefore(h, k) /\ \A i \in Nat : i < h.next => i < m.next
<1>1. /\ h.at \in Nat /\ m.at \in Nat /\ k.at \in Nat
      /\ h.next \in Nat /\ m.next \in Nat /\ k.next \in Nat
  BY PieceTypes
<1> QED BY <1>1 DEF StampsBefore

LEMMA RunsInOrder ==
  ASSUME NEW h \in Hubs, NEW m \in Hubs, NEW k \in Hubs,
         StampsBefore(h, m), StampsBefore(m, k), RunsBefore(h, m), RunsBefore(m, k)
  PROVE  RunsBefore(h, k)
<1> SUFFICES ASSUME NEW q \in k.runs, q.id < h.next
             PROVE  \E r \in h.runs : RunBefore(r, q)
  BY DEF RunsBefore
<1>0. q.id \in Nat BY PieceTypes
<1>1. q.id < m.next BY <1>0, StampsInOrder
<1>2. PICK o \in m.runs : RunBefore(o, q) BY <1>1 DEF RunsBefore
<1>3. PICK r \in h.runs : RunBefore(r, o) BY <1>2 DEF RunsBefore, RunBefore
<1>4. r.latest \in Attempt /\ o.latest \in Attempt /\ q.latest \in Attempt
  BY PieceTypes
<1>5. AttemptBefore(r.latest, q.latest)
  BY <1>2, <1>3, <1>4, AttemptsInOrder DEF RunBefore
<1> QED BY <1>2, <1>3, <1>5 DEF RunBefore

LEMMA BindingsInOrder ==
  ASSUME NEW h \in Hubs, NEW m \in Hubs, NEW k \in Hubs,
         StampsBefore(h, m), StampsBefore(m, k),
         BindingsBefore(h, m), BindingsBefore(m, k)
  PROVE  BindingsBefore(h, k)
<1> SUFFICES ASSUME NEW d \in k.bindings, d.id < h.next
             PROVE  \E b \in h.bindings : BindingBefore(b, d)
  BY DEF BindingsBefore
<1>0. d.id \in Nat BY PieceTypes
<1>1. d.id < m.next BY <1>0, StampsInOrder
<1>2. PICK c \in m.bindings : BindingBefore(c, d) BY <1>1 DEF BindingsBefore
<1>3. PICK b \in h.bindings : BindingBefore(b, c) BY <1>2 DEF BindingsBefore, BindingBefore
<1>4. b.ci \in Attempt /\ c.ci \in Attempt /\ d.ci \in Attempt BY PieceTypes
<1>5. AttemptBefore(b.ci, d.ci)
  BY <1>2, <1>3, <1>4, AttemptsInOrder DEF BindingBefore
<1>6. BindingBefore(b, d) BY <1>2, <1>3, <1>5 DEF BindingBefore
<1> QED BY <1>6

LEMMA ApprovalsInOrder ==
  ASSUME NEW h \in Hubs, NEW m \in Hubs, NEW k \in Hubs,
         StampsBefore(h, m), StampsBefore(m, k),
         ApprovalsBefore(h, m), ApprovalsBefore(m, k)
  PROVE  ApprovalsBefore(h, k)
<1>1. h.edits \subseteq m.edits /\ m.edits \subseteq k.edits BY DEF ApprovalsBefore
<1> SUFFICES ASSUME NEW c \in k.approvals, c.id < h.next
             PROVE  \E a \in h.approvals : EditedTo(a, c, h.edits, k.edits)
  BY <1>1 DEF ApprovalsBefore
<1>0. c.id \in Nat BY PieceTypes
<1>2. c.id < m.next BY <1>0, StampsInOrder
<1>3. PICK b \in m.approvals : EditedTo(b, c, m.edits, k.edits)
  BY <1>2 DEF ApprovalsBefore
<1>4. PICK a \in h.approvals : EditedTo(a, b, h.edits, m.edits)
  BY <1>3 DEF ApprovalsBefore, EditedTo
<1>5. a.updatedAt \in Nat /\ b.updatedAt \in Nat /\ c.updatedAt \in Nat BY PieceTypes
<1>6. EditedTo(a, c, h.edits, k.edits) BY <1>1, <1>3, <1>4, <1>5 DEF EditedTo
<1> QED BY <1>6

LEMMA ReviewsInOrder ==
  ASSUME NEW h \in Hubs, NEW m \in Hubs, NEW k \in Hubs,
         StampsBefore(h, m), StampsBefore(m, k),
         ReviewsBefore(h, m), ReviewsBefore(m, k)
  PROVE  ReviewsBefore(h, k)
<1> SUFFICES ASSUME NEW q \in k.reviews, q.id < h.next
             PROVE  \E r \in h.reviews : ReviewBefore(r, q)
  BY DEF ReviewsBefore
<1>0. q.id \in Nat BY PieceTypes
<1>1. q.id < m.next BY <1>0, StampsInOrder
<1>2. PICK o \in m.reviews : ReviewBefore(o, q) BY <1>1 DEF ReviewsBefore
<1>3. o \in [id : Nat, head : Heads, session : Sessions, edited : BOOLEAN]
  BY PieceTypes
<1>4. o.id = q.id BY <1>2, <1>3 DEF ReviewBefore, Edited
<1>5. PICK r \in h.reviews : ReviewBefore(r, o) BY <1>4 DEF ReviewsBefore
<1>6. r \in [id : Nat, head : Heads, session : Sessions, edited : BOOLEAN]
  BY PieceTypes
<1>7. Edited(r).edited BY <1>6 DEF Edited
<1> QED BY <1>2, <1>5, <1>7 DEF ReviewBefore

LEMMA PrsInOrder ==
  ASSUME NEW h \in Hubs, NEW m \in Hubs, NEW k \in Hubs,
         PrBefore(h, m), PrBefore(m, k), StampsBefore(h, m), EventsBefore(m, k)
  PROVE  PrBefore(h, k)
<1>1. /\ h.bodyAt \in Nat /\ m.bodyAt \in Nat /\ k.bodyAt \in Nat
      /\ h.pr.updatedAt \in Nat /\ m.pr.updatedAt \in Nat /\ k.pr.updatedAt \in Nat
      /\ h.pr.head \in Nat /\ m.pr.head \in Nat /\ k.pr.head \in Nat
      /\ h.at \in Nat /\ m.at \in Nat
  BY PieceTypes, HeadsAreNumbers
<1>2. h.pr.program = k.pr.program /\ h.pr.updatedAt <= k.pr.updatedAt
  BY <1>1 DEF PrBefore
<1>3. Forward(h.pr, k.pr) \/ Doubted(h.pr, k)
  <2>1. CASE Forward(h.pr, m.pr) /\ Forward(m.pr, k.pr)
    BY <1>1, <2>1 DEF Forward
  <2>2. CASE Doubted(h.pr, m)
    BY <2>2 DEF Doubted, EventsBefore
  <2>3. CASE Doubted(m.pr, k)
    <3>1. PICK ev \in k.timeline : ev.event \in ProgramPermanent /\ m.pr.updatedAt <= ev.at
      BY <2>3 DEF Doubted
    <3>2. ev.at \in Nat BY PieceTypes
    <3> QED BY <1>1, <3>1, <3>2 DEF Doubted, PrBefore
  <2> QED BY <2>1, <2>2, <2>3 DEF PrBefore
<1>4. LinkBefore(h, k) BY <1>1 DEF PrBefore, LinkBefore
<1>5. h.pr = k.pr \/ h.at <= k.pr.updatedAt BY <1>1 DEF PrBefore, StampsBefore
<1> QED BY <1>2, <1>3, <1>4, <1>5 DEF PrBefore

LEMMA BeforeTransitive ==
  ASSUME NEW h \in Hubs, NEW m \in Hubs, NEW k \in Hubs, Before(h, m), Before(m, k)
  PROVE  Before(h, k)
<1>1. IssueBefore(h, k)
  <2>1. h.issue.updatedAt \in Nat /\ m.issue.updatedAt \in Nat /\ k.issue.updatedAt \in Nat
    BY PieceTypes
  <2> QED BY <2>1 DEF Before, IssueBefore
<1>2. ApprovalsBefore(h, k) BY ApprovalsInOrder DEF Before
<1>3. ReviewsBefore(h, k) BY ReviewsInOrder DEF Before
<1>4. RunsBefore(h, k) BY RunsInOrder DEF Before
<1>5. BindingsBefore(h, k) BY BindingsInOrder DEF Before
<1>6. EventsBefore(h, k) BY DEF Before, EventsBefore
<1>7. CountsBefore(h, k)
  <2>1. /\ h.related \in Nat /\ m.related \in Nat /\ k.related \in Nat
        /\ h.main \in Nat /\ m.main \in Nat /\ k.main \in Nat
    BY PieceTypes
  <2> QED BY <2>1 DEF Before, CountsBefore
<1>8. PrBefore(h, k) BY PrsInOrder DEF Before
<1>9. StampsBefore(h, k) BY StampsInOrder DEF Before
<1> QED BY <1>1, <1>2, <1>3, <1>4, <1>5, <1>6, <1>7, <1>8, <1>9 DEF Before


-----------------------------------------------------------------------------
(* A piece that is the same before and after a state is so in that state.  *)

\* One that is found twice the same was so in between, piece by piece.
LEMMA IssueBetween ==
  ASSUME NEW h \in Hubs, NEW m \in Hubs, NEW k \in Hubs,
         IssueBefore(h, m), IssueBefore(m, k), h.issue = k.issue
  PROVE  m.issue = h.issue
<1>1. h.issue.updatedAt \in Nat /\ m.issue.updatedAt \in Nat BY PieceTypes
<1> QED BY <1>1 DEF IssueBefore

\* Of what can be deleted, what the readers saw twice is what there was but
\* for what came after the first reader and was gone in the end, at e.
Separate(S, M, E, from, n, k) ==
  /\ from \in Nat /\ n \in Nat /\ k \in Nat /\ from <= n
  /\ \A x \in M : x.id \in Nat /\ x.id < k
  /\ IdsTell(M) /\ S \subseteq M
  /\ \A x \in M : x.id < n => \E y \in S : y.id = x.id
  /\ \A y \in E : y.id < k => \E x \in S : x.id = y.id

LEMMA CameAndWent ==
  ASSUME NEW S, NEW M, NEW E, NEW from, NEW n, NEW k, Separate(S, M, E, from, n, k)
  PROVE  \E D \in SUBSET Fleeting(M, E, from) : S = M \ D
<1> USE DEF Separate
<1>1. ASSUME NEW x \in M, x \notin S PROVE x \in Fleeting(M, E, from)
  <2>1. \A y \in S : y.id # x.id BY <1>1 DEF IdsTell
  <2>2. x.id >= from
    <3>1. ~(x.id < n) BY <2>1
    <3>2. x.id \in Nat OBVIOUS
    <3> QED BY <3>1, <3>2
  <2>3. ASSUME NEW y \in E, y.id = x.id PROVE FALSE BY <2>1, <2>3
  <2> QED BY <2>2, <2>3 DEF Fleeting
<1>2. M \ S \in SUBSET Fleeting(M, E, from) BY <1>1
<1>3. S = M \ (M \ S) OBVIOUS
<1> QED BY <1>2, <1>3

\* h, m, k and e came in this order, and what has an id from `from' on came
\* after h.
Read4(h, m, k, e, from) ==
  /\ Been(h) /\ Been(m) /\ Been(k) /\ e \in Hubs
  /\ Before(h, m) /\ Before(m, k) /\ Before(k, e)
  /\ from \in Nat /\ from <= h.next

LEMMA ApprovalsBetween ==
  ASSUME NEW h, NEW m, NEW k, NEW e, NEW from, Read4(h, m, k, e, from),
         h.approvals = k.approvals
  PROVE  \E D \in SUBSET Fleeting(m.approvals, e.approvals, from) :
           h.approvals = m.approvals \ D
<1>0. /\ h \in Hubs /\ m \in Hubs /\ k \in Hubs /\ e \in Hubs
      /\ h.next \in Nat /\ m.next \in Nat /\ k.next \in Nat /\ from \in Nat
      /\ from <= h.next /\ h.next <= m.next /\ m.next <= k.next
  BY PieceTypes DEF Read4, Been, Before, StampsBefore
<1>1. IdsTell(h.approvals) /\ IdsTell(m.approvals) BY DEF Read4, Been, Consistent
<1>2. /\ \A x \in h.approvals : x.id \in Nat /\ x.id < h.next /\ x.id < m.next
      /\ \A x \in m.approvals : x.id \in Nat /\ x.id < m.next /\ x.id < k.next
  <2>1. /\ \A x \in h.approvals : x.id \in Nat /\ x.id < h.next
        /\ \A x \in m.approvals : x.id \in Nat /\ x.id < m.next
    BY <1>0, PieceTypes DEF Read4, Been, Past
  <2> QED BY <1>0, <2>1
<1>3. h.approvals \subseteq m.approvals
  <2> SUFFICES ASSUME NEW c \in h.approvals PROVE c \in m.approvals OBVIOUS
  <2>1. PICK b \in m.approvals : EditedTo(b, c, m.edits, k.edits)
    BY <1>2 DEF Read4, Before, ApprovalsBefore
  <2>2. b.id = c.id BY <2>1 DEF EditedTo
  <2>3. PICK a \in h.approvals : EditedTo(a, b, h.edits, m.edits)
    BY <1>2, <2>2 DEF Read4, Before, ApprovalsBefore
  <2>4. a = c BY <1>1, <2>2, <2>3 DEF EditedTo, IdsTell
  <2>5. a.updatedAt \in Nat /\ b.updatedAt \in Nat BY <1>0, PieceTypes
  <2>6. ASSUME a # b PROVE FALSE
    <3>1. a.updatedAt <= b.updatedAt /\ <<b.id, b.updatedAt>> \in m.edits
      BY <2>3, <2>6 DEF EditedTo
    <3>2. b.updatedAt <= a.updatedAt /\ <<a.id, a.updatedAt>> \notin m.edits
      BY <2>1, <2>4, <2>6 DEF EditedTo
    <3>3. a.updatedAt = b.updatedAt BY <2>5, <3>1, <3>2
    <3> QED BY <2>2, <2>4, <3>1, <3>2, <3>3
  <2> QED BY <2>4, <2>6
<1>4. \A x \in m.approvals : x.id < h.next => \E y \in h.approvals : y.id = x.id
  BY DEF Read4, Before, ApprovalsBefore, EditedTo
<1>5. \A y \in e.approvals : y.id < k.next => \E x \in h.approvals : x.id = y.id
  BY DEF Read4, Before, ApprovalsBefore, EditedTo
<1>6. Separate(h.approvals, m.approvals, e.approvals, from, h.next, k.next)
  BY <1>0, <1>1, <1>2, <1>3, <1>4, <1>5 DEF Separate
<1> QED BY <1>6, CameAndWent

LEMMA ReviewParts ==
  ASSUME NEW h \in Hubs, NEW r \in h.reviews
  PROVE  /\ r \in [id : Nat, head : Heads, session : Sessions, edited : BOOLEAN]
         /\ Edited(r).id = r.id /\ Edited(r).edited
         /\ \A q : ReviewBefore(r, q) => q.id = r.id
<1>1. r \in [id : Nat, head : Heads, session : Sessions, edited : BOOLEAN]
  BY PieceTypes
<1>2. Edited(r).id = r.id /\ Edited(r).edited BY <1>1 DEF Edited
<1> QED BY <1>1, <1>2 DEF ReviewBefore

LEMMA ReviewsBetween ==
  ASSUME NEW h, NEW m, NEW k, NEW e, NEW from, Read4(h, m, k, e, from),
         h.reviews = k.reviews
  PROVE  \E D \in SUBSET Fleeting(m.reviews, e.reviews, from) :
           h.reviews = m.reviews \ D
<1>0. /\ h \in Hubs /\ m \in Hubs /\ k \in Hubs /\ e \in Hubs
      /\ h.next \in Nat /\ m.next \in Nat /\ k.next \in Nat /\ from \in Nat
      /\ from <= h.next /\ h.next <= m.next /\ m.next <= k.next
  BY PieceTypes DEF Read4, Been, Before, StampsBefore
<1>1. IdsTell(h.reviews) /\ IdsTell(m.reviews) BY DEF Read4, Been, Consistent
<1>2. /\ \A x \in h.reviews : x.id \in Nat /\ x.id < h.next /\ x.id < m.next
      /\ \A x \in m.reviews : x.id \in Nat /\ x.id < m.next /\ x.id < k.next
  <2>1. /\ \A x \in h.reviews : x.id \in Nat /\ x.id < h.next
        /\ \A x \in m.reviews : x.id \in Nat /\ x.id < m.next
    BY <1>0, PieceTypes DEF Read4, Been, Past
  <2> QED BY <1>0, <2>1
<1>3. h.reviews \subseteq m.reviews
  <2> SUFFICES ASSUME NEW c \in h.reviews PROVE c \in m.reviews OBVIOUS
  <2>1. PICK b \in m.reviews : ReviewBefore(b, c)
    BY <1>2 DEF Read4, Before, ReviewsBefore
  <2>2. b.id = c.id BY <1>0, <2>1, ReviewParts
  <2>3. PICK a \in h.reviews : ReviewBefore(a, b)
    BY <1>2, <2>2 DEF Read4, Before, ReviewsBefore
  <2>4. a = c BY <1>0, <1>1, <2>2, <2>3, ReviewParts DEF IdsTell
  <2>5. b.edited => a.edited
    <3>1. CASE c = b BY <2>4, <3>1
    <3>2. CASE c = Edited(b) BY <1>0, <2>4, <3>2, ReviewParts
    <3> QED BY <2>1, <3>1, <3>2 DEF ReviewBefore
  <2>6. b = a
    <3>1. CASE ~a.edited /\ b = Edited(a) BY <1>0, <2>5, <3>1, ReviewParts
    <3> QED BY <2>3, <3>1 DEF ReviewBefore
  <2> QED BY <2>4, <2>6
<1>4. \A x \in m.reviews : x.id < h.next => \E y \in h.reviews : y.id = x.id
  BY <1>0, ReviewParts DEF Read4, Before, ReviewsBefore
<1>5. \A y \in e.reviews : y.id < k.next => \E x \in h.reviews : x.id = y.id
  BY <1>0, ReviewParts DEF Read4, Before, ReviewsBefore
<1>6. Separate(h.reviews, m.reviews, e.reviews, from, h.next, k.next)
  BY <1>0, <1>1, <1>2, <1>3, <1>4, <1>5 DEF Separate
<1> QED BY <1>6, CameAndWent

LEMMA BindingsBetween ==
  ASSUME NEW h, NEW m, NEW k, NEW e, NEW from, Read4(h, m, k, e, from),
         h.bindings = k.bindings
  PROVE  \E D \in SUBSET Fleeting(m.bindings, e.bindings, from) :
           h.bindings = m.bindings \ D
<1>0. /\ h \in Hubs /\ m \in Hubs /\ k \in Hubs /\ e \in Hubs
      /\ h.next \in Nat /\ m.next \in Nat /\ k.next \in Nat /\ from \in Nat
      /\ from <= h.next /\ h.next <= m.next /\ m.next <= k.next
  BY PieceTypes DEF Read4, Been, Before, StampsBefore
<1>1. IdsTell(h.bindings) /\ IdsTell(m.bindings) BY DEF Read4, Been, Consistent
<1>2. /\ \A x \in h.bindings : x.id \in Nat /\ x.id < h.next /\ x.id < m.next
      /\ \A x \in m.bindings : x.id \in Nat /\ x.id < m.next /\ x.id < k.next
  <2>1. /\ \A x \in h.bindings : x.id \in Nat /\ x.id < h.next
        /\ \A x \in m.bindings : x.id \in Nat /\ x.id < m.next
    BY <1>0, PieceTypes DEF Read4, Been, Past
  <2> QED BY <1>0, <2>1
<1>3. h.bindings \subseteq m.bindings
  <2> SUFFICES ASSUME NEW c \in h.bindings PROVE c \in m.bindings OBVIOUS
  <2>1. PICK d \in m.bindings : BindingBefore(d, c)
    BY <1>2 DEF Read4, Before, BindingsBefore
  <2>2. d.id = c.id BY <2>1 DEF BindingBefore
  <2>3. PICK b \in h.bindings : BindingBefore(b, d)
    BY <1>2, <2>2 DEF Read4, Before, BindingsBefore
  <2>4. b = c BY <1>1, <2>2, <2>3 DEF BindingBefore, IdsTell
  <2>5. b.ci \in Attempt /\ d.ci \in Attempt BY <1>0, PieceTypes
  <2>6. AttemptBefore(b.ci, d.ci) /\ AttemptBefore(d.ci, b.ci)
    BY <2>1, <2>3, <2>4 DEF BindingBefore
  <2>7. b.ci = d.ci BY <2>5, <2>6, AttemptsInOrder
  <2>8. /\ b \in [ordinal : Nat, id : Nat, base : Nat, merge : Nat, parent : Nat,
                  open : BOOLEAN, ci : Attempt]
        /\ d \in [ordinal : Nat, id : Nat, base : Nat, merge : Nat, parent : Nat,
                  open : BOOLEAN, ci : Attempt]
    BY <1>0, PieceTypes
  <2>9. b.open = d.open BY <2>1, <2>3, <2>4, <2>8 DEF BindingBefore
  <2>10. /\ b.ordinal = d.ordinal /\ b.id = d.id /\ b.base = d.base
         /\ b.merge = d.merge /\ b.parent = d.parent
    BY <2>3 DEF BindingBefore
  <2>11. b = d BY <2>7, <2>8, <2>9, <2>10
  <2> QED BY <2>4, <2>11
<1>4. \A x \in m.bindings : x.id < h.next => \E y \in h.bindings : y.id = x.id
  BY DEF Read4, Before, BindingsBefore, BindingBefore
<1>5. \A y \in e.bindings : y.id < k.next => \E x \in h.bindings : x.id = y.id
  BY DEF Read4, Before, BindingsBefore, BindingBefore
<1>6. Separate(h.bindings, m.bindings, e.bindings, from, h.next, k.next)
  BY <1>0, <1>1, <1>2, <1>3, <1>4, <1>5 DEF Separate
<1> QED BY <1>6, CameAndWent

\* Of the pull request this holds unless its timeline then puts it in doubt.
LEMMA PrBetween ==
  ASSUME NEW h \in Hubs, NEW m \in Hubs, NEW k \in Hubs,
         Consistent(k), PrBefore(h, m), PrBefore(m, k), EventsBefore(m, k),
         h.pr = k.pr, ~Doubted(h.pr, k)
  PROVE  m.pr = h.pr
<1>1. /\ h.bodyAt \in Nat /\ m.bodyAt \in Nat /\ k.bodyAt \in Nat
      /\ h.pr.updatedAt \in Nat /\ m.pr.updatedAt \in Nat
      /\ h.pr.head \in Nat /\ m.pr.head \in Nat
      /\ h.pr.draft \in BOOLEAN /\ m.pr.draft \in BOOLEAN
  BY PieceTypes, HeadsAreNumbers
<1>2. h.pr.program = m.pr.program /\ h.pr.updatedAt = m.pr.updatedAt
  BY <1>1 DEF PrBefore
<1>3. Forward(h.pr, m.pr) BY DEF PrBefore, Doubted, EventsBefore
<1>4. Forward(m.pr, h.pr) BY <1>2 DEF PrBefore, Doubted
<1>5. /\ h.pr.base = m.pr.base /\ h.pr.open = m.pr.open /\ h.pr.head = m.pr.head
  BY <1>1, <1>3, <1>4 DEF Forward
<1>6. h.pr.draft = m.pr.draft BY <1>1, <1>3, <1>4 DEF Forward
<1>7. h.pr.link = m.pr.link
  <2>1. k.bodyAt <= h.pr.updatedAt BY DEF Consistent
  <2> QED BY <1>1, <1>2, <2>1 DEF PrBefore, LinkBefore
<1>8. /\ h.pr \in [program : BOOLEAN, head : Heads, base : Nat, open : BOOLEAN,
                   draft : BOOLEAN, updatedAt : Nat,
                   link : [approval : Nat, body : Bodies]]
      /\ m.pr \in [program : BOOLEAN, head : Heads, base : Nat, open : BOOLEAN,
                   draft : BOOLEAN, updatedAt : Nat,
                   link : [approval : Nat, body : Bodies]]
  BY PieceTypes
<1> QED BY <1>2, <1>5, <1>6, <1>7, <1>8

-----------------------------------------------------------------------------
(* The run of a head.                                                      *)

\* A set of runs whose ids are bounded has a latest one.
LEMMA LatestRun ==
  ASSUME NEW S, S # {}, \A r \in S : r.id \in Nat,
         NEW n \in Nat, \A r \in S : r.id < n
  PROVE  \E q \in S : \A o \in S : o.id <= q.id
<1> DEFINE T == {n - r.id : r \in S}
<1>1. T \in SUBSET Nat /\ T # {} OBVIOUS
<1>2. PICK d \in T : \A e \in T : ~(<<e, d>> \in OpToRel(<, Nat))
  BY <1>1, WFMin, NatLessThanWellFounded
<1>3. PICK q \in S : d = n - q.id OBVIOUS
<1>4. ASSUME NEW o \in S PROVE o.id <= q.id
  <2>1. n - o.id \in T /\ n - o.id \in Nat /\ d \in Nat BY <1>1
  <2>2. ~(n - o.id < d) BY <1>2, <2>1 DEF OpToRel
  <2>3. o.id \in Nat /\ q.id \in Nat OBVIOUS
  <2> QED BY <1>3, <2>2, <2>3
<1> QED BY <1>4

\* ci says what the latest run of the head says.
FoundIn(ci, pr, runs, later) ==
  \E r \in Eligible(pr, runs) :
    /\ \A o \in Eligible(pr, runs) : o.id <= r.id
    /\ ci = [id |-> r.id, head |-> r.head, base |-> r.base,
             createdAt |-> r.createdAt, latest |-> r.latest,
             job |-> (CHOOSE q \in later : q.id = r.id).latest,
             named |-> \A o \in Eligible(pr, runs) : o.base = pr.base]

\* What the gate reads of CI is one run of the head, the latest it listed.
LEMMA CiIsLatest ==
  ASSUME NEW h \in Hubs, Been(h), NEW pr, NEW later, LatestCi(pr, h.runs, later) # None
  PROVE  FoundIn(LatestCi(pr, h.runs, later), pr, h.runs, later)
<1> DEFINE S == Eligible(pr, h.runs)
<1>1. S # {} BY DEF LatestCi
<1>2. h.next \in Nat /\ \A r \in h.runs : r.id < h.next BY PieceTypes DEF Been, Past
<1>3. \A r \in S : r.id \in Nat /\ r.id < h.next BY <1>2, PieceTypes DEF Eligible
<1>4. \E q \in S : \A o \in S : o.id <= q.id
  <2> HIDE DEF S
  <2> QED BY <1>1, <1>2, <1>3, LatestRun
<1> DEFINE r == LastRun(pr, h.runs)
<1>5. r \in S /\ \A o \in S : o.id <= r.id BY <1>4 DEF LastRun
<1> QED BY <1>1, <1>5 DEF LatestCi, FoundIn

\* Runs with one latest run of the head yield it.
LEMMA LatestIsCi ==
  ASSUME NEW runs, IdsTell(runs), \A x \in runs : x.id \in Nat, NEW pr,
         NEW r \in Eligible(pr, runs), \A o \in Eligible(pr, runs) : o.id <= r.id
  PROVE  LatestCi(pr, runs, runs) =
           [id |-> r.id, head |-> r.head, base |-> r.base,
            createdAt |-> r.createdAt, latest |-> r.latest, job |-> r.latest,
            named |-> \A o \in Eligible(pr, runs) : o.base = pr.base]
<1> DEFINE S == Eligible(pr, runs)
           q == LastRun(pr, runs)
           j == CHOOSE x \in runs : x.id = q.id
<1>1. \A x \in S : x \in runs /\ x.id \in Nat BY DEF Eligible
<1>2. q \in S /\ \A o \in S : o.id <= q.id BY DEF LastRun
<1>3. q.id = r.id
  <2>1. q.id <= r.id /\ r.id <= q.id BY <1>2
  <2>2. q.id \in Nat /\ r.id \in Nat BY <1>1, <1>2
  <2> QED BY <2>1, <2>2
<1>4. q = r BY <1>1, <1>2, <1>3 DEF IdsTell
<1>5. j \in runs /\ j.id = q.id BY <1>1, <1>2
<1>6. j = r BY <1>1, <1>4, <1>5 DEF IdsTell
<1>7. LatestCi(pr, runs, runs) =
        [id |-> q.id, head |-> q.head, base |-> q.base, createdAt |-> q.createdAt,
         latest |-> q.latest, job |-> j.latest, named |-> \A o \in S : o.base = pr.base]
  BY DEF LatestCi
<1> QED BY <1>4, <1>6, <1>7

Settled(ci) == ci # None /\ ci.job = ci.latest /\ ci.named

\* The list of runs was read at h, the job at some other moment.
CiReadAt(ci, pr, h) == \E k \in Hubs : ci = LatestCi(pr, h.runs, k.runs)

\* The run a pass read at h was created by then.
LEMMA CiIsOfRun ==
  ASSUME NEW h, Been(h), NEW pr, NEW ci, CiReadAt(ci, pr, h), ci # None
  PROVE  \E r \in h.runs :
           /\ ci.id = r.id /\ ci.head = r.head /\ ci.base = r.base
           /\ ci.createdAt = r.createdAt /\ ci.latest = r.latest /\ r.head = pr.head
           /\ \A o \in Eligible(pr, h.runs) : o.id <= r.id
           /\ ci.named <=> \A o \in Eligible(pr, h.runs) : o.base = pr.base
<1>1. PICK k \in Hubs : ci = LatestCi(pr, h.runs, k.runs) BY DEF CiReadAt
<1>2. FoundIn(ci, pr, h.runs, k.runs) BY <1>1, CiIsLatest DEF Been
<1> QED BY <1>2 DEF FoundIn, Eligible

LEMMA CiParts ==
  ASSUME NEW h, Been(h), NEW pr, NEW ci, CiReadAt(ci, pr, h), Settled(ci)
  PROVE  ci = [id |-> ci.id, head |-> ci.head, base |-> ci.base,
               createdAt |-> ci.createdAt, latest |-> ci.latest, job |-> ci.latest,
               named |-> TRUE]
<1>1. PICK k \in Hubs : ci = LatestCi(pr, h.runs, k.runs) BY DEF CiReadAt
<1>2. FoundIn(ci, pr, h.runs, k.runs) BY <1>1, CiIsLatest DEF Been, Settled
<1>3. PICK r : ci = [id |-> r.id, head |-> r.head, base |-> r.base,
             createdAt |-> r.createdAt, latest |-> r.latest,
             job |-> (CHOOSE q \in k.runs : q.id = r.id).latest,
             named |-> \A o \in Eligible(pr, h.runs) : o.base = pr.base]
  BY <1>2 DEF FoundIn
<1>4. ci.named = TRUE BY <1>3 DEF Settled
<1> QED BY <1>3, <1>4 DEF Settled

\* A run both passes saw alike, list and job, was so in between: it was the
\* latest but for those that came and went.
LEMMA CiBetween ==
  ASSUME NEW h, NEW m, NEW k, NEW e, NEW from, Read4(h, m, k, e, from),
         NEW pr, NEW ci, CiReadAt(ci, pr, h), CiReadAt(ci, pr, k), Settled(ci)
  PROVE  \E D \in SUBSET Fleeting(m.runs, e.runs, from) :
           ci = LatestCi(pr, m.runs \ D, m.runs \ D)
<1>0. /\ h \in Hubs /\ m \in Hubs /\ k \in Hubs /\ e \in Hubs
      /\ h.next \in Nat /\ m.next \in Nat /\ k.next \in Nat /\ from \in Nat
      /\ from <= h.next /\ h.next <= m.next /\ m.next <= k.next
  BY PieceTypes DEF Read4, Been, Before, StampsBefore
<1>1. IdsTell(h.runs) /\ IdsTell(m.runs) /\ IdsTell(k.runs)
  BY DEF Read4, Been, Consistent
<1>2. /\ \A x \in h.runs : x.id \in Nat /\ x.id < h.next
      /\ \A x \in m.runs : x.id \in Nat /\ x.id < m.next
  BY <1>0, PieceTypes DEF Read4, Been, Past
<1>3. PICK r \in h.runs :
        /\ ci.id = r.id /\ ci.head = r.head /\ ci.base = r.base
        /\ ci.createdAt = r.createdAt /\ ci.latest = r.latest /\ r.head = pr.head
        /\ \A o \in Eligible(pr, h.runs) : o.id <= r.id
        /\ \A o \in Eligible(pr, h.runs) : o.base = pr.base
  BY CiIsOfRun DEF Read4, Settled
<1>4. PICK q \in k.runs :
        /\ ci.id = q.id /\ ci.latest = q.latest
        /\ \A o \in Eligible(pr, k.runs) : o.id <= q.id
        /\ \A o \in Eligible(pr, k.runs) : o.base = pr.base
  BY CiIsOfRun DEF Read4, Settled
<1>5. r.id < h.next /\ r.id < m.next BY <1>0, <1>2
<1>6. PICK x \in m.runs : RunBefore(x, q)
  BY <1>3, <1>4, <1>5 DEF Read4, Before, RunsBefore
<1>7. x.id = r.id BY <1>3, <1>4, <1>6 DEF RunBefore
<1>8. RunBefore(r, x)
  <2>1. PICK z \in h.runs : RunBefore(z, x)
    BY <1>5, <1>7 DEF Read4, Before, RunsBefore
  <2>2. z = r BY <1>1, <1>7, <2>1 DEF RunBefore, IdsTell
  <2> QED BY <2>1, <2>2
<1>9. x.latest = ci.latest
  <2>1. r.latest \in Attempt /\ x.latest \in Attempt BY <1>0, PieceTypes
  <2>2. AttemptBefore(r.latest, x.latest) /\ AttemptBefore(x.latest, r.latest)
    BY <1>3, <1>4, <1>6, <1>8 DEF RunBefore
  <2> QED BY <1>3, <2>1, <2>2, AttemptsInOrder
<1> DEFINE D == {o \in Fleeting(m.runs, e.runs, from) : o.id # ci.id}
           R == m.runs \ D
<1>10. D \in SUBSET Fleeting(m.runs, e.runs, from) OBVIOUS
<1>11. x \in Eligible(pr, R) BY <1>3, <1>7, <1>8 DEF Eligible, RunBefore
<1>12. ASSUME NEW o \in Eligible(pr, R)
       PROVE  o.id <= x.id /\ o.base = pr.base
  <2>1. o \in m.runs /\ o \notin D /\ o.head = pr.head BY DEF Eligible
  <2>2. o.id \in Nat /\ o.id < m.next /\ o.id < k.next BY <1>0, <1>2, <2>1
  <2>3. CASE o.id < h.next
    <3>1. PICK z \in h.runs : RunBefore(z, o)
      BY <2>1, <2>3 DEF Read4, Before, RunsBefore
    <3>2. z \in Eligible(pr, h.runs) BY <2>1, <3>1 DEF Eligible, RunBefore
    <3> QED BY <1>3, <1>7, <3>1, <3>2 DEF RunBefore
  <2>4. CASE \E y \in e.runs : y.id = o.id
    <3>1. PICK y \in e.runs : y.id = o.id BY <2>4
    <3>2. PICK z \in k.runs : RunBefore(z, y)
      BY <2>2, <3>1 DEF Read4, Before, RunsBefore
    <3>3. z.id = o.id BY <3>1, <3>2 DEF RunBefore
    <3>4. PICK w \in m.runs : RunBefore(w, z)
      BY <2>2, <3>3 DEF Read4, Before, RunsBefore
    <3>5. w = o BY <1>1, <2>1, <3>3, <3>4 DEF RunBefore, IdsTell
    <3>6. z \in Eligible(pr, k.runs) BY <2>1, <3>4, <3>5 DEF Eligible, RunBefore
    <3> QED BY <1>4, <1>6, <3>4, <3>5, <3>6 DEF RunBefore
  <2>5. CASE o.id = ci.id
    <3>1. o = x BY <1>1, <1>3, <1>7, <2>1, <2>5 DEF IdsTell
    <3>2. o.id < h.next BY <1>5, <1>7, <3>1
    <3> QED BY <2>3, <3>2
  <2>6. o.id < h.next \/ (\E y \in e.runs : y.id = o.id) \/ o.id = ci.id
    <3>1. o \in Fleeting(m.runs, e.runs, from) => o.id = ci.id BY <2>1
    <3>2. ~(o.id < h.next) => o.id >= from BY <1>0, <2>2
    <3> QED BY <2>1, <3>1, <3>2 DEF Fleeting
  <2> QED BY <2>3, <2>4, <2>5, <2>6
<1>13. IdsTell(R) /\ \A o \in R : o.id \in Nat BY <1>1, <1>2 DEF IdsTell
<1>14. LatestCi(pr, R, R) =
         [id |-> x.id, head |-> x.head, base |-> x.base,
          createdAt |-> x.createdAt, latest |-> x.latest, job |-> x.latest,
          named |-> \A o \in Eligible(pr, R) : o.base = pr.base]
  <2> HIDE DEF R
  <2> QED BY <1>11, <1>12, <1>13, LatestIsCi
<1>15. (\A o \in Eligible(pr, R) : o.base = pr.base) = TRUE BY <1>12
<1>16. ci = [id |-> ci.id, head |-> ci.head, base |-> ci.base,
             createdAt |-> ci.createdAt, latest |-> ci.latest, job |-> ci.latest,
             named |-> TRUE]
  BY CiParts DEF Read4
<1>17. /\ x.id = ci.id /\ x.head = ci.head /\ x.base = ci.base
       /\ x.createdAt = ci.createdAt
  BY <1>3, <1>7, <1>8 DEF RunBefore
<1>18. ci = LatestCi(pr, R, R)
  <2> HIDE DEF R
  <2> QED BY <1>9, <1>14, <1>15, <1>16, <1>17
<1> QED BY <1>10, <1>18

-----------------------------------------------------------------------------
(* One step of GitHub, in the second t; the ids it gives are not below n,  *)
(* and below m.  Comments, runs and issues may be deleted.                 *)

IssueStep(h, k, t) ==
  \/ k.issue = h.issue
  \/ h.issue.updatedAt < t /\ k.issue.updatedAt = t

ApprovalsStep(h, k, t, n, m) ==
  \/ k.approvals = h.approvals /\ k.edits = h.edits
  \/ /\ ~h.pr.program /\ k.edits = h.edits
     /\ \E a : /\ k.approvals = h.approvals \cup {a}
               /\ n <= a.id /\ a.id < m /\ a.createdAt = t /\ a.updatedAt = t
  \/ \E a \in h.approvals : \E c :
       /\ k.approvals = (h.approvals \ {a}) \cup {c}
       /\ c.id = a.id /\ c.createdAt = a.createdAt /\ c.updatedAt = t
       /\ <<a.id, t>> \notin h.edits /\ k.edits = h.edits \cup {<<a.id, t>>}
  \/ \E a : k.approvals = h.approvals \ {a} /\ k.edits = h.edits

ReviewsStep(h, k, n, m) ==
  \/ k.reviews = h.reviews
  \/ \E r : k.reviews = h.reviews \cup {r} /\ n <= r.id /\ r.id < m
  \/ \E r \in h.reviews :
       ~r.edited /\ k.reviews = (h.reviews \ {r}) \cup {Edited(r)}
  \/ \E r : k.reviews = h.reviews \ {r}

RunsStep(h, k, t, n, m) ==
  /\ IdsTell(k.runs)
  /\ \A q \in k.runs : \/ \E r \in h.runs : RunBefore(r, q)
                       \/ n <= q.id /\ q.id < m /\ q.createdAt = t

BindingsStep(h, k, n, m) ==
  /\ IdsTell(k.bindings)
  /\ \A d \in k.bindings : \/ \E b \in h.bindings : BindingBefore(b, d)
                           \/ n <= d.id /\ d.id < m

PrStep(h, k, t, n, m) ==
  /\ k.pr.program = h.pr.program
  /\ EventsBefore(h, k)
  /\ \A ev \in k.timeline : \/ ev \in h.timeline
                            \/ n <= ev.id /\ ev.id < m /\ ev.at = t
  /\ \/ k.pr = h.pr /\ k.bodyAt = h.bodyAt
     \/ /\ k.pr.updatedAt = t
        /\ \/ Forward(h.pr, k.pr)
           \/ \E ev \in k.timeline : ev.event \in ProgramPermanent /\ ev.at = t
        /\ \/ k.pr.link = h.pr.link /\ k.bodyAt = h.bodyAt
           \/ h.bodyAt < t /\ k.bodyAt = t

HubStep(h, k, t, n, m) ==
  /\ IssueStep(h, k, t) /\ ApprovalsStep(h, k, t, n, m) /\ ReviewsStep(h, k, n, m)
  /\ RunsStep(h, k, t, n, m) /\ BindingsStep(h, k, n, m) /\ PrStep(h, k, t, n, m)
  /\ CountsBefore(h, k)

\* h was before the second t, and n is the id it gives next.
Going(h, t, n) == Consistent(h) /\ Past(h) /\ h.at <= t /\ n = h.next

LEMMA GoingTypes ==
  ASSUME NEW h \in Hubs, NEW t \in Nat, NEW n, Going(h, t, n)
  PROVE  /\ n \in Nat /\ h.next = n
         /\ h.issue.updatedAt <= t /\ h.pr.updatedAt <= t
         /\ \A a \in h.approvals : a.id < n /\ a.updatedAt <= t
         /\ \A ev \in h.timeline : ev.id < n /\ ev.at <= t
         /\ \A r \in h.runs : r.id < n /\ r.createdAt <= t
         /\ \A r \in h.reviews : r.id < n
         /\ \A b \in h.bindings : b.id < n
<1>1. h.at \in Nat /\ n \in Nat /\ h.next = n /\ h.at <= t BY PieceTypes DEF Going
<1>2. /\ h.issue.updatedAt \in Nat /\ h.pr.updatedAt \in Nat
      /\ \A a \in h.approvals : a.updatedAt \in Nat
      /\ \A ev \in h.timeline : ev.at \in Nat
      /\ \A r \in h.runs : r.createdAt \in Nat
  BY PieceTypes
<1> QED BY <1>1, <1>2 DEF Going, Past

\* The approvals of a step stay in order, with ids of their own.
LEMMA ApprovalsGoOn ==
  ASSUME NEW h \in Hubs, NEW k \in Hubs, NEW t \in Nat, NEW n \in Nat, NEW m \in Nat,
         n <= m, Going(h, t, n), ApprovalsStep(h, k, t, n, m)
  PROVE  /\ ApprovalsBefore(h, k) /\ IdsTell(k.approvals)
         /\ \A a \in k.approvals : a.id < m /\ a.updatedAt <= t
         /\ \A c \in k.approvals : \/ \E a \in h.approvals : a.id = c.id /\ a.createdAt = c.createdAt
                                   \/ n <= c.id /\ c.createdAt = t
         /\ h.approvals = {} /\ h.pr.program => k.approvals = {}
<1>1. \A a \in h.approvals : /\ a.id \in Nat /\ a.updatedAt \in Nat
                             /\ a.id < n /\ a.updatedAt <= t
  BY PieceTypes, GoingTypes
<1>2. /\ \A x, y \in h.approvals : x.id = y.id => x = y
      /\ h.next = n
  BY DEF Going, Consistent, IdsTell
<1>3. CASE k.approvals = h.approvals /\ k.edits = h.edits
  BY <1>1, <1>2, <1>3 DEF ApprovalsBefore, EditedTo, IdsTell
<1>4. CASE /\ ~h.pr.program /\ k.edits = h.edits
           /\ \E a : /\ k.approvals = h.approvals \cup {a}
                     /\ n <= a.id /\ a.id < m /\ a.createdAt = t /\ a.updatedAt = t
  <2>1. PICK a : /\ k.approvals = h.approvals \cup {a}
                 /\ n <= a.id /\ a.id < m /\ a.createdAt = t /\ a.updatedAt = t
    BY <1>4
  <2>2. a.id \in Nat
    <3>1. a \in k.approvals BY <2>1
    <3>2. k.approvals \subseteq [id : Nat, body : Bodies, createdAt : Nat, updatedAt : Nat]
      BY PieceTypes
    <3>3. a \in [id : Nat, body : Bodies, createdAt : Nat, updatedAt : Nat] BY <3>1, <3>2
    <3> QED BY <3>3
  <2>3. ApprovalsBefore(h, k)
    <3>1. ~(a.id < n) BY <2>1, <2>2
    <3> QED BY <1>2, <1>4, <2>1, <3>1 DEF ApprovalsBefore, EditedTo
  <2>4. IdsTell(k.approvals)
    <3>1. \A x \in h.approvals : x.id # a.id BY <1>1, <2>1, <2>2
    <3> QED BY <1>2, <2>1, <3>1 DEF IdsTell
  <2>5. \A c \in k.approvals : c.id < m /\ c.updatedAt <= t BY <1>1, <2>1, <2>2
  <2> QED BY <1>4, <2>1, <2>3, <2>4, <2>5
<1>5. CASE \E a \in h.approvals : \E c :
             /\ k.approvals = (h.approvals \ {a}) \cup {c}
             /\ c.id = a.id /\ c.createdAt = a.createdAt /\ c.updatedAt = t
             /\ <<a.id, t>> \notin h.edits /\ k.edits = h.edits \cup {<<a.id, t>>}
  <2>0. PICK a \in h.approvals : \E c :
             /\ k.approvals = (h.approvals \ {a}) \cup {c}
             /\ c.id = a.id /\ c.createdAt = a.createdAt /\ c.updatedAt = t
             /\ <<a.id, t>> \notin h.edits /\ k.edits = h.edits \cup {<<a.id, t>>}
    BY <1>5
  <2>1. PICK c :
             /\ k.approvals = (h.approvals \ {a}) \cup {c}
             /\ c.id = a.id /\ c.createdAt = a.createdAt /\ c.updatedAt = t
             /\ <<a.id, t>> \notin h.edits /\ k.edits = h.edits \cup {<<a.id, t>>}
    BY <2>0
  <2>2. EditedTo(a, c, h.edits, k.edits) BY <1>1, <2>1 DEF EditedTo
  <2>3. ApprovalsBefore(h, k)
    <3> SUFFICES ASSUME NEW y \in k.approvals
                 PROVE  \E x \in h.approvals : EditedTo(x, y, h.edits, k.edits)
      BY <2>1 DEF ApprovalsBefore
    <3>1. CASE y = c BY <2>0, <2>2, <3>1
    <3>2. CASE y # c BY <2>1, <3>2 DEF EditedTo
    <3> QED BY <3>1, <3>2
  <2>4. IdsTell(k.approvals) BY <1>2, <2>1 DEF IdsTell
  <2>5. \A x \in k.approvals : x.id < m /\ x.updatedAt <= t BY <1>1, <2>1
  <2> QED BY <2>1, <2>3, <2>4, <2>5
<1>6. CASE \E a : k.approvals = h.approvals \ {a} /\ k.edits = h.edits
  <2>1. k.approvals \subseteq h.approvals /\ k.edits = h.edits BY <1>6
  <2>2. ApprovalsBefore(h, k) /\ IdsTell(k.approvals)
    BY <1>2, <2>1 DEF ApprovalsBefore, EditedTo, IdsTell
  <2>3. \A c \in k.approvals : c.id < m /\ c.updatedAt <= t BY <1>1, <2>1
  <2> QED BY <2>1, <2>2, <2>3
<1> QED BY <1>3, <1>4, <1>5, <1>6 DEF ApprovalsStep

LEMMA ReviewsGoOn ==
  ASSUME NEW h \in Hubs, NEW k \in Hubs, NEW t \in Nat, NEW n \in Nat, NEW m \in Nat,
         n <= m, Going(h, t, n), ReviewsStep(h, k, n, m)
  PROVE  /\ ReviewsBefore(h, k) /\ IdsTell(k.reviews)
         /\ \A r \in k.reviews : r.id < m
<1>1. \A r \in h.reviews : /\ r.id \in Nat /\ r.id < n
                           /\ Edited(r).id = r.id
  <2>1. \A r \in h.reviews : r.id \in Nat /\ r.id < n BY PieceTypes, GoingTypes
  <2> QED BY <2>1, ReviewParts
<1>2. \A x, y \in h.reviews : x.id = y.id => x = y BY DEF Going, Consistent, IdsTell
<1>3. h.next = n BY DEF Going
<1>4. CASE k.reviews \subseteq h.reviews
  <2>1. \A r \in k.reviews : r.id < m BY <1>1, <1>4
  <2> QED BY <1>2, <1>4, <2>1 DEF ReviewsBefore, ReviewBefore, IdsTell
<1>5. CASE \E r : k.reviews = h.reviews \cup {r} /\ n <= r.id /\ r.id < m
  <2>1. PICK r : k.reviews = h.reviews \cup {r} /\ n <= r.id /\ r.id < m BY <1>5
  <2>2. r.id \in Nat
    <3>1. r \in k.reviews BY <2>1
    <3> QED BY <3>1, PieceTypes
  <2>3. \A x \in h.reviews : x.id # r.id BY <1>1, <2>1, <2>2
  <2>4. ~(r.id < n) BY <2>1, <2>2
  <2>5. \A x \in k.reviews : x.id < m BY <1>1, <2>1
  <2>6. ReviewsBefore(h, k) BY <1>3, <2>1, <2>4 DEF ReviewsBefore, ReviewBefore
  <2>7. IdsTell(k.reviews) BY <1>2, <2>1, <2>3 DEF IdsTell
  <2> QED BY <2>5, <2>6, <2>7
<1>6. CASE \E r \in h.reviews :
             ~r.edited /\ k.reviews = (h.reviews \ {r}) \cup {Edited(r)}
  <2>1. PICK r \in h.reviews :
          ~r.edited /\ k.reviews = (h.reviews \ {r}) \cup {Edited(r)}
    BY <1>6
  <2> DEFINE q == Edited(r)
  <2>2. q.id = r.id /\ ReviewBefore(r, q) BY <1>1, <2>1 DEF ReviewBefore
  <2> HIDE DEF q
  <2>3. k.reviews = (h.reviews \ {r}) \cup {q} BY <2>1 DEF q
  <2>4. \A x \in k.reviews : x.id < m BY <1>1, <2>2, <2>3
  <2>5. ReviewsBefore(h, k) BY <2>2, <2>3 DEF ReviewsBefore, ReviewBefore
  <2>6. IdsTell(k.reviews) BY <1>2, <2>2, <2>3 DEF IdsTell
  <2> QED BY <2>4, <2>5, <2>6
<1> QED BY <1>4, <1>5, <1>6 DEF ReviewsStep

LEMMA PrsGoOn ==
  ASSUME NEW h \in Hubs, NEW k \in Hubs, NEW t \in Nat, NEW n \in Nat, NEW m \in Nat,
         Going(h, t, n), PrStep(h, k, t, n, m)
  PROVE  PrBefore(h, k) /\ k.bodyAt <= k.pr.updatedAt /\ k.pr.updatedAt <= t
<1>1. /\ h.bodyAt \in Nat /\ h.pr.updatedAt \in Nat /\ h.pr.updatedAt <= t
      /\ h.bodyAt <= h.pr.updatedAt /\ h.pr.head \in Nat
      /\ h.at \in Nat /\ h.at <= t
  BY PieceTypes, HeadsAreNumbers, GoingTypes DEF Going, Consistent
<1>2. CASE k.pr = h.pr /\ k.bodyAt = h.bodyAt
  BY <1>1, <1>2 DEF PrBefore, Forward, LinkBefore
<1>3. CASE /\ k.pr.updatedAt = t
           /\ \/ Forward(h.pr, k.pr)
              \/ \E ev \in k.timeline : ev.event \in ProgramPermanent /\ ev.at = t
           /\ \/ k.pr.link = h.pr.link /\ k.bodyAt = h.bodyAt
              \/ h.bodyAt < t /\ k.bodyAt = t
  <2>1. Forward(h.pr, k.pr) \/ Doubted(h.pr, k) BY <1>1, <1>3 DEF Doubted
  <2>2. LinkBefore(h, k) BY <1>1, <1>3 DEF LinkBefore
  <2>3. k.bodyAt <= k.pr.updatedAt /\ k.pr.updatedAt <= t BY <1>1, <1>3
  <2>4. h.pr.program = k.pr.program BY DEF PrStep
  <2> QED BY <1>1, <1>3, <2>1, <2>2, <2>3, <2>4 DEF PrBefore
<1> QED BY <1>2, <1>3 DEF PrStep

\* Every step goes on from what was, and keeps what fits together so.
LEMMA StepGoesOn ==
  ASSUME NEW h \in Hubs, NEW k \in Hubs, NEW t \in Nat, NEW n \in Nat, NEW m \in Nat,
         n <= m, Going(h, t, n), HubStep(h, k, t, n, m), k.at = t, k.next = m
  PROVE  Before(h, k) /\ Consistent(k) /\ Past(k)
<1>1. /\ ApprovalsBefore(h, k) /\ IdsTell(k.approvals)
      /\ \A a \in k.approvals : a.id < m /\ a.updatedAt <= t
      /\ \A c \in k.approvals : \/ \E a \in h.approvals : a.id = c.id /\ a.createdAt = c.createdAt
                                \/ n <= c.id /\ c.createdAt = t
      /\ h.approvals = {} /\ h.pr.program => k.approvals = {}
  BY ApprovalsGoOn DEF HubStep
<1>2. /\ ReviewsBefore(h, k) /\ IdsTell(k.reviews)
      /\ \A r \in k.reviews : r.id < m
  BY ReviewsGoOn DEF HubStep
<1>3. PrBefore(h, k) /\ k.bodyAt <= k.pr.updatedAt /\ k.pr.updatedAt <= t
  BY PrsGoOn DEF HubStep
<1>4. /\ \A r \in h.runs : /\ r.id \in Nat /\ r.createdAt \in Nat
                           /\ r.id < n /\ r.createdAt <= t
      /\ \A a \in h.approvals : a.id \in Nat /\ a.createdAt \in Nat /\ a.id < n
      /\ \A ev \in h.timeline : ev.id \in Nat /\ ev.at \in Nat /\ ev.id < n /\ ev.at <= t
      /\ \A b \in h.bindings : b.id \in Nat /\ b.id < n
      /\ \A r \in k.runs : r.id \in Nat /\ r.createdAt \in Nat
      /\ \A a \in k.approvals : a.id \in Nat /\ a.createdAt \in Nat
      /\ \A ev \in k.timeline : ev.id \in Nat /\ ev.at \in Nat
      /\ \A b \in k.bindings : b.id \in Nat
  BY PieceTypes, GoingTypes
<1>5. h.issue.updatedAt \in Nat /\ h.issue.updatedAt <= t BY PieceTypes, GoingTypes
<1>6. IssueBefore(h, k) /\ k.issue.updatedAt <= t
  BY <1>5 DEF HubStep, IssueStep, IssueBefore
<1>7. \A q \in k.runs : \/ \E r \in h.runs : r.id = q.id /\ r.createdAt = q.createdAt
                        \/ n <= q.id /\ q.id < m /\ q.createdAt = t
  BY DEF HubStep, RunsStep, RunBefore
<1>8. \A ev \in k.timeline : ev \in h.timeline \/ (n <= ev.id /\ ev.id < m /\ ev.at = t)
  BY DEF HubStep, PrStep
<1>9. \A q \in k.runs : q.id < m /\ q.createdAt <= t BY <1>4, <1>7
<1>10. \A ev \in k.timeline : ev.id < m /\ ev.at <= t BY <1>4, <1>8
<1>11. \A d \in k.bindings : d.id < m
  BY <1>4 DEF HubStep, BindingsStep, BindingBefore
<1>12. ASSUME NEW q \in k.runs, NEW c \in k.approvals, q.id <= c.id
       PROVE  q.createdAt <= c.createdAt
  <2>1. CASE n <= c.id /\ c.createdAt = t BY <1>9, <2>1
  <2>2. ASSUME NEW a \in h.approvals, a.id = c.id, a.createdAt = c.createdAt
        PROVE  q.createdAt <= c.createdAt
    <3>1. c.id < n BY <1>4, <2>2
    <3>2. PICK r \in h.runs : r.id = q.id /\ r.createdAt = q.createdAt
      BY <1>4, <1>7, <1>12, <3>1
    <3>3. r.id <= a.id BY <1>12, <2>2, <3>2
    <3> QED BY <2>2, <3>2, <3>3 DEF Going, Consistent
  <2> QED BY <1>1, <2>1, <2>2
<1>13. ASSUME NEW q \in k.runs, NEW ev \in k.timeline, q.id <= ev.id
       PROVE  q.createdAt <= ev.at
  <2>1. CASE n <= ev.id /\ ev.at = t BY <1>9, <2>1
  <2>2. CASE ev \in h.timeline
    <3>1. PICK r \in h.runs : r.id = q.id /\ r.createdAt = q.createdAt
      BY <1>4, <1>7, <1>13, <2>2
    <3> QED BY <1>13, <2>2, <3>1 DEF Going, Consistent
  <2> QED BY <1>8, <2>1, <2>2
<1>14. Consistent(k)
  <2>1. k.pr.program => k.approvals = {} BY <1>1 DEF HubStep, PrStep, Going, Consistent
  <2> QED BY <1>1, <1>2, <1>3, <1>12, <1>13, <2>1
          DEF Consistent, HubStep, RunsStep, BindingsStep
<1>15. Past(k) BY <1>1, <1>2, <1>3, <1>6, <1>9, <1>10, <1>11 DEF Past
<1>16. RunsBefore(h, k)
  <2>1. \A q \in k.runs : q.id < n => ~(n <= q.id) BY <1>4
  <2> QED BY <2>1, GoingTypes DEF HubStep, RunsStep, RunsBefore
<1>17. BindingsBefore(h, k)
  <2>1. \A d \in k.bindings : d.id < n => ~(n <= d.id) BY <1>4
  <2> QED BY <2>1, GoingTypes DEF HubStep, BindingsStep, BindingsBefore
<1>18. StampsBefore(h, k) BY DEF Going, StampsBefore
<1>19. Before(h, k)
  BY <1>1, <1>2, <1>3, <1>6, <1>16, <1>17, <1>18 DEF Before, HubStep, PrStep
<1> QED BY <1>14, <1>15, <1>19


-----------------------------------------------------------------------------
(* Every action of GitHub is such a step.                                  *)

SameComments(h, k) ==
  k.approvals = h.approvals /\ k.edits = h.edits /\ k.reviews = h.reviews
SamePr(h, k) ==
  /\ k.pr = h.pr /\ k.bodyAt = h.bodyAt
  /\ k.timeline = h.timeline /\ h.issueTimeline \subseteq k.issueTimeline
SameProgram(h, k) ==
  k.bindings = h.bindings /\ k.related = h.related /\ k.main = h.main

LEMMA SameParts ==
  ASSUME NEW h \in Hubs, NEW k \in Hubs, Consistent(h), NEW t, NEW n, NEW m
  PROVE  /\ k.issue = h.issue => IssueStep(h, k, t)
         /\ k.approvals = h.approvals /\ k.edits = h.edits => ApprovalsStep(h, k, t, n, m)
         /\ k.reviews = h.reviews => ReviewsStep(h, k, n, m)
         /\ k.runs = h.runs => RunsStep(h, k, t, n, m)
         /\ k.bindings = h.bindings => BindingsStep(h, k, n, m)
         /\ SamePr(h, k) => PrStep(h, k, t, n, m)
         /\ k.related = h.related /\ k.main = h.main => CountsBefore(h, k)
<1>1. IssueStep(h, k, t) \/ k.issue # h.issue BY DEF IssueStep
<1>2. k.approvals = h.approvals /\ k.edits = h.edits => ApprovalsStep(h, k, t, n, m)
  BY DEF ApprovalsStep
<1>3. k.reviews = h.reviews => ReviewsStep(h, k, n, m) BY DEF ReviewsStep
<1>4. k.runs = h.runs => RunsStep(h, k, t, n, m)
  BY DEF RunsStep, RunBefore, AttemptBefore, Consistent
<1>5. k.bindings = h.bindings => BindingsStep(h, k, n, m)
  BY DEF BindingsStep, BindingBefore, AttemptBefore, Consistent
<1>6. SamePr(h, k) => PrStep(h, k, t, n, m) BY DEF SamePr, PrStep, EventsBefore
<1>7. k.related = h.related /\ k.main = h.main => CountsBefore(h, k)
  <2>1. h.related \in Nat /\ h.main \in Nat BY PieceTypes
  <2> QED BY <2>1 DEF CountsBefore
<1> QED BY <1>1, <1>2, <1>3, <1>4, <1>5, <1>6, <1>7

GitHubStep ==
  /\ gate.pc # "over"
  /\ hub' \in Hubs /\ HubStep(hub, hub', hub'.at, hub.next, hub'.next)
  /\ hub.at <= hub'.at /\ hub'.at <= now
  /\ hub.next <= hub'.next /\ hub'.next <= FirstId + MaxChanges
  /\ window' = IF window = <<>> THEN window ELSE Append(window, hub')
  /\ UNCHANGED <<now, gate, pass>>

LEMMA NextIdIsNumber ==
  TypeOK => NextId \in Nat /\ now \in Nat /\ hub.at \in Nat /\ FirstId + MaxChanges \in Nat
BY PieceTypes, GateAssumption DEF TypeOK, NextId, Times, FirstId

\* A record with the pieces of a state is one.
HasPieces(k) ==
  k = [issue |-> k.issue, approvals |-> k.approvals, edits |-> k.edits,
       issueTimeline |-> k.issueTimeline, pr |-> k.pr, bodyAt |-> k.bodyAt,
       timeline |-> k.timeline, reviews |-> k.reviews, runs |-> k.runs,
       due |-> k.due, related |-> k.related, main |-> k.main,
       bindings |-> k.bindings, at |-> k.at, next |-> k.next]

\* A step whose second and next id are not yet noted.
Unstamped(k) == HasPieces(k) /\ k.at = hub.at /\ k.next = hub.next

LEMMA Stamped ==
  ASSUME NEW k, HasPieces(k), NEW at, NEW next, NEW t, NEW n, NEW m,
         HubStep(hub, k, t, n, m)
  PROVE  HubStep(hub, [k EXCEPT !.at = at, !.next = next], t, n, m)
<1> PICK q : q = [k EXCEPT !.at = at, !.next = next] OBVIOUS
<1>1. q = [issue |-> k.issue, approvals |-> k.approvals, edits |-> k.edits,
           issueTimeline |-> k.issueTimeline, pr |-> k.pr, bodyAt |-> k.bodyAt,
           timeline |-> k.timeline, reviews |-> k.reviews, runs |-> k.runs,
           due |-> k.due, related |-> k.related, main |-> k.main,
           bindings |-> k.bindings, at |-> at, next |-> next]
  BY DEF HasPieces
<1>2. /\ q.issue = k.issue /\ q.approvals = k.approvals /\ q.edits = k.edits
      /\ q.issueTimeline = k.issueTimeline /\ q.pr = k.pr /\ q.bodyAt = k.bodyAt
      /\ q.timeline = k.timeline /\ q.reviews = k.reviews /\ q.runs = k.runs
      /\ q.related = k.related /\ q.main = k.main /\ q.bindings = k.bindings
  BY <1>1
<1>3. IssueStep(hub, q, t) BY <1>2 DEF HubStep, IssueStep
<1>4. ApprovalsStep(hub, q, t, n, m)
  BY <1>2 DEF HubStep, ApprovalsStep
<1>5. ReviewsStep(hub, q, n, m) BY <1>2 DEF HubStep, ReviewsStep
<1>6. RunsStep(hub, q, t, n, m) BY <1>2 DEF HubStep, RunsStep
<1>7. BindingsStep(hub, q, n, m) BY <1>2 DEF HubStep, BindingsStep
<1>8. PrStep(hub, q, t, n, m) BY <1>2 DEF HubStep, PrStep, EventsBefore
<1>9. CountsBefore(hub, q) BY <1>2 DEF HubStep, CountsBefore
<1> QED BY <1>3, <1>4, <1>5, <1>6, <1>7, <1>8, <1>9 DEF HubStep

LEMMA CountedStep ==
  ASSUME TypeOK, HubInv, NEW k \in Hubs, Counted(k),
         HubStep(hub, k, now, NextId, NextId + 1)
  PROVE  GitHubStep
<1> PICK q : q = [k EXCEPT !.at = now, !.next = hub.next + 1] OBVIOUS
<1>1. HasPieces(k) BY DEF Hubs, HasPieces
<1>2. /\ hub.next \in Nat /\ now \in Nat /\ hub.at \in Nat /\ FirstId + MaxChanges \in Nat
      /\ hub.next + 1 \in Nat
  BY NextIdIsNumber DEF NextId
<1>3. q \in Hubs /\ q.at = now /\ q.next = hub.next + 1
  <2>1. q = [issue |-> k.issue, approvals |-> k.approvals, edits |-> k.edits,
             issueTimeline |-> k.issueTimeline, pr |-> k.pr, bodyAt |-> k.bodyAt,
             timeline |-> k.timeline, reviews |-> k.reviews, runs |-> k.runs,
             due |-> k.due, related |-> k.related, main |-> k.main,
             bindings |-> k.bindings, at |-> now, next |-> hub.next + 1]
    BY <1>1 DEF HasPieces
  <2>2. q.at = now /\ q.next = hub.next + 1 BY <2>1
  <2>3. q \in Hubs BY <1>2, <2>1 DEF Hubs
  <2> QED BY <2>2, <2>3
<1>4. HubStep(hub, q, now, hub.next, hub.next + 1) BY <1>1, Stamped DEF NextId
<1>5. hub' = q /\ hub.next < FirstId + MaxChanges BY DEF Counted, Change
<1>6. hub.at <= now BY DEF HubInv
<1>7. /\ gate.pc # "over"
      /\ window' = IF window = <<>> THEN window ELSE Append(window, q)
      /\ UNCHANGED <<now, gate, pass>>
  BY DEF Counted, Change
<1> QED BY <1>2, <1>3, <1>4, <1>5, <1>6, <1>7 DEF GitHubStep

LEMMA FreeStep ==
  ASSUME TypeOK, HubInv, NEW k \in Hubs, k.at = hub.at, k.next = hub.next, Change(k),
         HubStep(hub, k, hub.at, NextId, NextId)
  PROVE  GitHubStep
<1>1. hub.next \in Nat /\ hub.at \in Nat /\ hub.next <= FirstId + MaxChanges
  BY NextIdIsNumber DEF NextId, TypeOK
<1>2. hub' = k /\ hub.at <= now BY DEF Change, HubInv
<1> QED BY <1>1, <1>2 DEF NextId, Change, GitHubStep

\* A change of the pull request that leaves the other pieces alone, ...
PrOnly(k) ==
  /\ Unstamped(k)
  /\ k.issue = hub.issue /\ SameComments(hub, k) /\ k.runs = hub.runs
  /\ SameProgram(hub, k) /\ k.issueTimeline = hub.issueTimeline
  /\ k.bodyAt = hub.bodyAt

\* ... of what is neither its program nor its text.
PrTouched(k) ==
  /\ k.pr = [hub.pr EXCEPT !.head = k.pr.head, !.base = k.pr.base, !.open = k.pr.open,
                           !.draft = k.pr.draft, !.updatedAt = now]
  /\ k.pr.head \in Heads /\ k.pr.base \in Nat
  /\ k.pr.open \in BOOLEAN /\ k.pr.draft \in BOOLEAN

Listed(k, name) == k.timeline = hub.timeline \cup {Event(name)}

LEMMA PrChanges ==
  ASSUME TypeOK, HubInv, NEW k, NEW name \in Invalidating, Counted(k),
         PrOnly(k), PrTouched(k), k.due \in Seq([head : Heads, base : Nat]),
         k.timeline = hub.timeline \/ Listed(k, name),
         Forward(hub.pr, k.pr) \/ (Listed(k, name) /\ name \in ProgramPermanent)
  PROVE  GitHubStep
<1>1. hub \in Hubs /\ Consistent(hub) BY DEF TypeOK, HubInv
<1> DEFINE ev == Event(name)
<1>2. /\ ev.id = NextId /\ ev.at = now /\ ev.event = name
      /\ ev \in [event : Invalidating, at : Nat, id : Nat]
  BY NextIdIsNumber DEF Event
<1>3. k.pr.program = hub.pr.program /\ k.pr.updatedAt = now /\ k.pr.link = hub.pr.link
  BY <1>1, PieceTypes DEF PrTouched
<1>4. k \in Hubs
  <2>1. k.pr \in [program : BOOLEAN, head : Heads, base : Nat, open : BOOLEAN,
                  draft : BOOLEAN, updatedAt : Nat,
                  link : [approval : Nat, body : Bodies]]
    BY <1>1, PieceTypes, NextIdIsNumber DEF PrTouched
  <2>2. k.timeline \subseteq [event : Invalidating, at : Nat, id : Nat]
    BY <1>1, <1>2, PieceTypes DEF Listed
  <2> QED BY <1>1, <2>1, <2>2, PieceTypes
          DEF Hubs, Unstamped, HasPieces, PrOnly, SameComments, SameProgram
<1>5. Listed(k, name) => k.timeline = hub.timeline \cup {ev} BY DEF Listed
<1>6. PrStep(hub, k, now, NextId, NextId + 1)
  <2> HIDE DEF ev
  <2>1. EventsBefore(hub, k) BY <1>5 DEF EventsBefore, PrOnly
  <2>2. \A x \in k.timeline : \/ x \in hub.timeline
                              \/ NextId <= x.id /\ x.id < NextId + 1 /\ x.at = now
    BY <1>2, <1>5, NextIdIsNumber
  <2>3. \/ Forward(hub.pr, k.pr)
        \/ \E x \in k.timeline : x.event \in ProgramPermanent /\ x.at = now
    BY <1>2, <1>5
  <2> QED BY <1>3, <2>1, <2>2, <2>3 DEF PrStep, PrOnly
<1>7. HubStep(hub, k, now, NextId, NextId + 1)
  BY <1>1, <1>4, <1>6, SameParts DEF HubStep, PrOnly, SameComments, SameProgram
<1> QED BY <1>4, <1>7, CountedStep

LEMMA HubParts ==
  ASSUME TypeOK
  PROVE  /\ hub \in Hubs /\ Unstamped(hub)
         /\ hub.pr.head \in Heads /\ hub.pr.head \in Nat /\ hub.pr.base \in Nat
         /\ hub.pr.open \in BOOLEAN /\ hub.pr.draft \in BOOLEAN
         /\ hub.pr = [hub.pr EXCEPT !.updatedAt = hub.pr.updatedAt]
BY PieceTypes, HeadsAreNumbers DEF TypeOK, Hubs, Unstamped, HasPieces

LEMMA DueGrows ==
  ASSUME TypeOK, NEW n \in Heads
  PROVE  Append(hub.due, [head |-> n, base |-> hub.pr.base])
           \in Seq([head : Heads, base : Nat])
<1> DEFINE S == [head : Heads, base : Nat]
<1>1. [head |-> n, base |-> hub.pr.base] \in S BY HubParts
<1>2. hub.due \in Seq(S) BY HubParts, PieceTypes
<1>3. Append(hub.due, [head |-> n, base |-> hub.pr.base]) \in Seq(S)
  <2> HIDE DEF S
  <2> QED BY <1>1, <1>2, AppendProperties
<1> QED BY <1>3

LEMMA PushStep ==
  ASSUME TypeOK, HubInv, NEW n \in Heads, Push(n)
  PROVE  GitHubStep
<1> DEFINE name == "head_ref_force_pushed"
<1>1. PICK k : /\ k = [hub EXCEPT !.pr.head = n, !.pr.updatedAt = now,
                         !.due = Append(@, [head |-> n, base |-> hub.pr.base]),
                         !.timeline = IF n > hub.pr.head THEN @
                                      ELSE @ \cup {Event(name)}]
               /\ Counted(k)
  BY DEF Push
<1>2. /\ PrOnly(k)
      /\ k.pr = [hub.pr EXCEPT !.head = n, !.updatedAt = now]
      /\ k.timeline = IF n > hub.pr.head THEN hub.timeline
                      ELSE hub.timeline \cup {Event(name)}
      /\ k.due = Append(hub.due, [head |-> n, base |-> hub.pr.base])
  BY <1>1, HubParts DEF Hubs, PrOnly, Unstamped, HasPieces, SameComments, SameProgram
<1>3. PrTouched(k) /\ k.pr.head = n /\ k.pr.base = hub.pr.base
      /\ k.pr.open = hub.pr.open /\ k.pr.draft = hub.pr.draft
  BY <1>2, HubParts, PieceTypes DEF PrTouched
<1>4. k.due \in Seq([head : Heads, base : Nat]) BY <1>2, DueGrows
<1>5. name \in Invalidating /\ name \in ProgramPermanent
  BY DEF Invalidating, ProgramPermanent
<1>6. CASE n > hub.pr.head
  <2>1. Forward(hub.pr, k.pr) BY <1>3, <1>6, HubParts, HeadsAreNumbers DEF Forward
  <2> QED BY <1>1, <1>2, <1>3, <1>4, <1>5, <1>6, <2>1, PrChanges
<1>7. CASE ~(n > hub.pr.head)
  <2>1. Listed(k, name) BY <1>2, <1>7 DEF Listed
  <2> QED BY <1>1, <1>2, <1>3, <1>4, <1>5, <2>1, PrChanges
<1> QED BY <1>6, <1>7

LEMMA ChangeBaseStep ==
  ASSUME TypeOK, HubInv, NEW b \in Nat, ChangeBase(b)
  PROVE  GitHubStep
<1> DEFINE name == "base_ref_changed"
<1>1. PICK k : /\ k = [hub EXCEPT !.pr.base = b, !.pr.updatedAt = now,
                         !.timeline = @ \cup {Event(name)}]
               /\ Counted(k)
  BY DEF ChangeBase
<1>2. /\ PrOnly(k) /\ Listed(k, name) /\ k.due = hub.due
      /\ k.pr = [hub.pr EXCEPT !.base = b, !.updatedAt = now]
  BY <1>1, HubParts DEF Hubs, PrOnly, Unstamped, HasPieces, SameComments, SameProgram, Listed
<1>3. PrTouched(k) BY <1>2, HubParts, PieceTypes DEF PrTouched
<1>4. name \in Invalidating /\ name \in ProgramPermanent
  BY DEF Invalidating, ProgramPermanent
<1> QED BY <1>1, <1>2, <1>3, <1>4, HubParts, PieceTypes, PrChanges

LEMMA ClosePrStep ==
  ASSUME TypeOK, HubInv, ClosePr
  PROVE  GitHubStep
<1> DEFINE name == "closed"
<1>1. PICK k : /\ k = [hub EXCEPT !.pr.open = FALSE, !.pr.updatedAt = now,
                         !.timeline = @ \cup {Event(name)}]
               /\ Counted(k)
  BY DEF ClosePr
<1>2. /\ PrOnly(k) /\ Listed(k, name) /\ k.due = hub.due
      /\ k.pr = [hub.pr EXCEPT !.open = FALSE, !.updatedAt = now]
  BY <1>1, HubParts DEF Hubs, PrOnly, Unstamped, HasPieces, SameComments, SameProgram, Listed
<1>3. PrTouched(k) BY <1>2, HubParts, PieceTypes DEF PrTouched
<1>4. name \in Invalidating /\ name \in ProgramPermanent
  BY DEF Invalidating, ProgramPermanent
<1> QED BY <1>1, <1>2, <1>3, <1>4, HubParts, PieceTypes, PrChanges

LEMMA ReopenPrStep ==
  ASSUME TypeOK, HubInv, ReopenPr
  PROVE  GitHubStep
<1> DEFINE name == "reopened"
           run == [head |-> hub.pr.head, base |-> hub.pr.base]
<1>1. PICK k : /\ k = [hub EXCEPT !.pr.open = TRUE, !.pr.updatedAt = now,
                         !.due = Append(@, run), !.timeline = @ \cup {Event(name)}]
               /\ Counted(k)
  BY DEF ReopenPr
<1>2. /\ PrOnly(k) /\ Listed(k, name) /\ k.due = Append(hub.due, run)
      /\ k.pr = [hub.pr EXCEPT !.open = TRUE, !.updatedAt = now]
  BY <1>1, HubParts DEF Hubs, PrOnly, Unstamped, HasPieces, SameComments, SameProgram, Listed
<1>3. PrTouched(k) BY <1>2, HubParts, PieceTypes DEF PrTouched
<1>4. name \in Invalidating /\ name \in ProgramPermanent
  BY DEF Invalidating, ProgramPermanent
<1>5. k.due \in Seq([head : Heads, base : Nat]) BY <1>2, HubParts, DueGrows
<1> QED BY <1>1, <1>2, <1>3, <1>4, <1>5, PrChanges

LEMMA ToggleDraftStep ==
  ASSUME TypeOK, HubInv, ToggleDraft
  PROVE  GitHubStep
<1> DEFINE name == IF hub.pr.draft THEN "ready_for_review" ELSE "convert_to_draft"
<1>1. PICK k : /\ k = [hub EXCEPT !.pr.draft = ~@, !.pr.updatedAt = now,
                         !.timeline = @ \cup {Event(name)}]
               /\ Counted(k)
  BY DEF ToggleDraft
<1>2. /\ PrOnly(k) /\ Listed(k, name) /\ k.due = hub.due
      /\ k.pr = [hub.pr EXCEPT !.draft = ~hub.pr.draft, !.updatedAt = now]
  <2> HIDE DEF name
  <2> QED BY <1>1, HubParts
          DEF Hubs, PrOnly, Unstamped, HasPieces, SameComments, SameProgram, Listed
<1>3. PrTouched(k) BY <1>2, HubParts, PieceTypes DEF PrTouched
<1>4. /\ k.pr.base = hub.pr.base /\ k.pr.open = hub.pr.open
      /\ k.pr.head = hub.pr.head /\ k.pr.draft = ~hub.pr.draft
  BY <1>2, HubParts, PieceTypes
<1>5. name \in Invalidating BY DEF Invalidating
<1>6. Forward(hub.pr, k.pr) \/ name \in ProgramPermanent
  <2>1. CASE hub.pr.draft BY <1>4, <2>1, HubParts DEF Forward
  <2>2. CASE ~hub.pr.draft BY <2>2 DEF ProgramPermanent, Invalidating
  <2> QED BY <2>1, <2>2
<1> HIDE DEF name
<1> QED BY <1>1, <1>2, <1>3, <1>5, <1>6, HubParts, PieceTypes, PrChanges

LEMMA ReconcileStep ==
  ASSUME TypeOK, HubInv, Reconcile
  PROVE  GitHubStep
<1>1. PICK k : k = [hub EXCEPT !.pr.updatedAt = now] /\ Counted(k) BY DEF Reconcile
<1>2. /\ PrOnly(k) /\ k.timeline = hub.timeline /\ k.due = hub.due
      /\ k.pr = [hub.pr EXCEPT !.updatedAt = now]
  BY <1>1, HubParts DEF Hubs, PrOnly, Unstamped, HasPieces, SameComments, SameProgram
<1>3. PrTouched(k) BY <1>2, HubParts, PieceTypes DEF PrTouched
<1>4. Forward(hub.pr, k.pr) BY <1>2, HubParts, PieceTypes DEF Forward
<1>5. "closed" \in Invalidating BY DEF Invalidating
<1> QED BY <1>1, <1>2, <1>3, <1>4, <1>5, HubParts, PieceTypes, PrChanges


\* Of an action that changes the issue, the comments, the runs or the other
\* issues, what is left to show is the step of the piece it changes.
PrLeft(k) ==
  /\ Unstamped(k)
  /\ k.pr = hub.pr /\ k.bodyAt = hub.bodyAt /\ k.timeline = hub.timeline

LEMMA EditIssueStep ==
  ASSUME TypeOK, HubInv, NEW b \in Bodies, EditIssue(b)
  PROVE  GitHubStep
<1>1. PICK k : k = [hub EXCEPT !.issue.body = b, !.issue.updatedAt = now] /\ Counted(k)
  BY DEF EditIssue
<1>2. /\ PrLeft(k) /\ k.issueTimeline = hub.issueTimeline /\ k.due = hub.due
      /\ SameComments(hub, k) /\ k.runs = hub.runs /\ SameProgram(hub, k)
      /\ k.issue = [hub.issue EXCEPT !.body = b, !.updatedAt = now]
  BY <1>1, HubParts DEF Hubs, PrLeft, Unstamped, HasPieces, SameComments, SameProgram
<1>3. /\ k.issue \in [body : Bodies, open : BOOLEAN, updatedAt : Nat]
      /\ k.issue.updatedAt = now
  BY <1>2, HubParts, PieceTypes, NextIdIsNumber
<1>4. k \in Hubs
  BY <1>2, <1>3, HubParts, PieceTypes
     DEF Hubs, Unstamped, HasPieces, PrLeft, SameComments, SameProgram
<1>5. IssueStep(hub, k, now) BY <1>3 DEF IssueStep, EditIssue
<1>6. HubStep(hub, k, now, NextId, NextId + 1)
  BY <1>2, <1>4, <1>5, HubParts, SameParts
     DEF HubInv, HubStep, PrLeft, SamePr, SameComments, SameProgram
<1> QED BY <1>1, <1>4, <1>6, CountedStep

LEMMA ToggleIssueStep ==
  ASSUME TypeOK, HubInv, ToggleIssue
  PROVE  GitHubStep
<1> DEFINE name == IF hub.issue.open THEN "closed" ELSE "reopened"
<1>1. PICK k : /\ k = [hub EXCEPT !.issue.open = ~@, !.issue.updatedAt = now,
                         !.issueTimeline = @ \cup {Event(name)}]
               /\ Counted(k)
  BY DEF ToggleIssue
<1>2. Event(name) \in [event : Invalidating, at : Nat, id : Nat]
  BY NextIdIsNumber DEF Event, Invalidating
<1> HIDE DEF name
<1>3. /\ PrLeft(k) /\ k.due = hub.due
      /\ k.issueTimeline = hub.issueTimeline \cup {Event(name)}
      /\ SameComments(hub, k) /\ k.runs = hub.runs /\ SameProgram(hub, k)
      /\ k.issue = [hub.issue EXCEPT !.open = ~hub.issue.open, !.updatedAt = now]
  BY <1>1, HubParts DEF Hubs, PrLeft, Unstamped, HasPieces, SameComments, SameProgram
<1>4. /\ k.issue \in [body : Bodies, open : BOOLEAN, updatedAt : Nat]
      /\ k.issue.updatedAt = now
  BY <1>3, HubParts, PieceTypes, NextIdIsNumber
<1>5. k \in Hubs
  BY <1>2, <1>3, <1>4, HubParts, PieceTypes
     DEF Hubs, Unstamped, HasPieces, PrLeft, SameComments, SameProgram
<1>6. IssueStep(hub, k, now) BY <1>4 DEF IssueStep, ToggleIssue
<1>7. HubStep(hub, k, now, NextId, NextId + 1)
  BY <1>3, <1>5, <1>6, HubParts, SameParts
     DEF HubInv, HubStep, PrLeft, SamePr, SameComments, SameProgram
<1> QED BY <1>1, <1>5, <1>7, CountedStep

LEMMA ApproveStep ==
  ASSUME TypeOK, HubInv, Approve
  PROVE  GitHubStep
<1> DEFINE a == [id |-> NextId, body |-> hub.issue.body, createdAt |-> now,
                 updatedAt |-> now]
<1>1. PICK k : k = [hub EXCEPT !.approvals = @ \cup {a}] /\ Counted(k) BY DEF Approve
<1>2. /\ a \in [id : Nat, body : Bodies, createdAt : Nat, updatedAt : Nat]
      /\ a.id = NextId /\ a.createdAt = now /\ a.updatedAt = now
  BY HubParts, PieceTypes, NextIdIsNumber
<1> HIDE DEF a
<1>3. /\ PrLeft(k) /\ k.due = hub.due /\ k.issueTimeline = hub.issueTimeline
      /\ k.issue = hub.issue /\ k.edits = hub.edits /\ k.reviews = hub.reviews
      /\ k.runs = hub.runs /\ SameProgram(hub, k)
      /\ k.approvals = hub.approvals \cup {a}
  BY <1>1, HubParts DEF Hubs, PrLeft, Unstamped, HasPieces, SameProgram
<1>4. k \in Hubs
  BY <1>2, <1>3, HubParts, PieceTypes DEF Hubs, Unstamped, HasPieces, PrLeft, SameProgram
<1>5. NextId <= a.id /\ a.id < NextId + 1 BY <1>2, NextIdIsNumber
<1>6. ApprovalsStep(hub, k, now, NextId, NextId + 1)
  BY <1>2, <1>3, <1>5 DEF ApprovalsStep, Approve
<1>7. HubStep(hub, k, now, NextId, NextId + 1)
  BY <1>3, <1>4, <1>6, HubParts, SameParts DEF HubInv, HubStep, PrLeft, SamePr, SameProgram
<1> QED BY <1>1, <1>4, <1>7, CountedStep

LEMMA EditApprovalStep ==
  ASSUME TypeOK, HubInv, NEW a \in hub.approvals, NEW b \in Bodies, EditApproval(a, b)
  PROVE  GitHubStep
<1> DEFINE c == [a EXCEPT !.body = b, !.updatedAt = now]
<1>1. PICK k : /\ k = [hub EXCEPT !.approvals = (@ \ {a}) \cup {c},
                                  !.edits = @ \cup {<<a.id, now>>}]
               /\ Counted(k)
  BY DEF EditApproval
<1>2. a \in [id : Nat, body : Bodies, createdAt : Nat, updatedAt : Nat] /\ now \in Nat
  BY HubParts, PieceTypes, NextIdIsNumber
<1>3. /\ c \in [id : Nat, body : Bodies, createdAt : Nat, updatedAt : Nat]
      /\ c.id = a.id /\ c.createdAt = a.createdAt /\ c.updatedAt = now
  BY <1>2
<1> HIDE DEF c
<1>4. /\ PrLeft(k) /\ k.due = hub.due /\ k.issueTimeline = hub.issueTimeline
      /\ k.issue = hub.issue /\ k.reviews = hub.reviews
      /\ k.runs = hub.runs /\ SameProgram(hub, k)
      /\ k.approvals = (hub.approvals \ {a}) \cup {c}
      /\ k.edits = hub.edits \cup {<<a.id, now>>}
  BY <1>1, HubParts DEF Hubs, PrLeft, Unstamped, HasPieces, SameProgram
<1>5. k.edits \subseteq Nat \X Nat BY <1>2, <1>4, HubParts, PieceTypes
<1>6. k \in Hubs
  BY <1>3, <1>4, <1>5, HubParts, PieceTypes DEF Hubs, Unstamped, HasPieces, PrLeft, SameProgram
<1>7. ApprovalsStep(hub, k, now, NextId, NextId + 1)
  BY <1>3, <1>4 DEF ApprovalsStep, EditApproval
<1>8. HubStep(hub, k, now, NextId, NextId + 1)
  BY <1>4, <1>6, <1>7, HubParts, SameParts DEF HubInv, HubStep, PrLeft, SamePr, SameProgram
<1> QED BY <1>1, <1>6, <1>8, CountedStep

LEMMA EditLinkStep ==
  ASSUME TypeOK, HubInv, NEW id \in Nat, EditLink(id)
  PROVE  GitHubStep
<1> DEFINE link == [approval |-> id, body |-> hub.issue.body]
<1>1. PICK k : /\ k = [hub EXCEPT !.pr.link = link, !.pr.updatedAt = now, !.bodyAt = now]
               /\ Counted(k)
  BY DEF EditLink
<1>2. link \in [approval : Nat, body : Bodies] /\ now \in Nat
  BY HubParts, PieceTypes, NextIdIsNumber
<1> HIDE DEF link
<1>3. /\ Unstamped(k) /\ k.due = hub.due /\ k.issueTimeline = hub.issueTimeline
      /\ k.timeline = hub.timeline /\ k.bodyAt = now
      /\ k.issue = hub.issue /\ SameComments(hub, k)
      /\ k.runs = hub.runs /\ SameProgram(hub, k)
      /\ k.pr = [hub.pr EXCEPT !.link = link, !.updatedAt = now]
  BY <1>1, HubParts DEF Hubs, Unstamped, HasPieces, SameComments, SameProgram
<1>4. /\ k.pr \in [program : BOOLEAN, head : Heads, base : Nat, open : BOOLEAN,
                   draft : BOOLEAN, updatedAt : Nat,
                   link : [approval : Nat, body : Bodies]]
      /\ k.pr.updatedAt = now /\ k.pr.program = hub.pr.program
      /\ k.pr.base = hub.pr.base /\ k.pr.open = hub.pr.open
      /\ k.pr.head = hub.pr.head /\ k.pr.draft = hub.pr.draft
  BY <1>2, <1>3, HubParts, PieceTypes
<1>5. k \in Hubs
  BY <1>2, <1>3, <1>4, HubParts, PieceTypes
     DEF Hubs, Unstamped, HasPieces, SameComments, SameProgram
<1>6. Forward(hub.pr, k.pr) BY <1>4, HubParts DEF Forward
<1>7. PrStep(hub, k, now, NextId, NextId + 1)
  BY <1>3, <1>4, <1>6 DEF PrStep, EventsBefore, EditLink
<1>8. HubStep(hub, k, now, NextId, NextId + 1)
  BY <1>3, <1>5, <1>7, HubParts, SameParts DEF HubInv, HubStep, SameComments, SameProgram
<1> QED BY <1>1, <1>5, <1>8, CountedStep

LEMMA ReviewStep ==
  ASSUME TypeOK, HubInv, NEW session \in Sessions, Review(session)
  PROVE  GitHubStep
<1> DEFINE r == [id |-> NextId, head |-> hub.pr.head, session |-> session,
                 edited |-> FALSE]
<1>1. PICK k : /\ k = [hub EXCEPT !.reviews = @ \cup {r}, !.pr.updatedAt = now]
               /\ Counted(k)
  BY DEF Review
<1>2. /\ r \in [id : Nat, head : Heads, session : Sessions, edited : BOOLEAN]
      /\ r.id = NextId /\ ~r.edited
  BY HubParts, NextIdIsNumber
<1> HIDE DEF r
<1>3. /\ Unstamped(k) /\ k.due = hub.due /\ k.issueTimeline = hub.issueTimeline
      /\ k.timeline = hub.timeline /\ k.bodyAt = hub.bodyAt
      /\ k.issue = hub.issue /\ k.approvals = hub.approvals /\ k.edits = hub.edits
      /\ k.runs = hub.runs /\ SameProgram(hub, k)
      /\ k.reviews = hub.reviews \cup {r}
      /\ k.pr = [hub.pr EXCEPT !.updatedAt = now]
  BY <1>1, HubParts DEF Hubs, Unstamped, HasPieces, SameProgram
<1>4. /\ k.pr \in [program : BOOLEAN, head : Heads, base : Nat, open : BOOLEAN,
                   draft : BOOLEAN, updatedAt : Nat,
                   link : [approval : Nat, body : Bodies]]
      /\ k.pr.updatedAt = now /\ k.pr.program = hub.pr.program
      /\ k.pr.base = hub.pr.base /\ k.pr.open = hub.pr.open
      /\ k.pr.head = hub.pr.head /\ k.pr.draft = hub.pr.draft
      /\ k.pr.link = hub.pr.link
  BY <1>3, HubParts, PieceTypes, NextIdIsNumber
<1>5. k \in Hubs
  BY <1>2, <1>3, <1>4, HubParts, PieceTypes DEF Hubs, Unstamped, HasPieces, SameProgram
<1>6. Forward(hub.pr, k.pr) BY <1>4, HubParts DEF Forward
<1>7. PrStep(hub, k, now, NextId, NextId + 1)
  BY <1>3, <1>4, <1>6 DEF PrStep, EventsBefore
<1>8. NextId <= r.id /\ r.id < NextId + 1 BY <1>2, NextIdIsNumber
<1>9. ReviewsStep(hub, k, NextId, NextId + 1) BY <1>2, <1>3, <1>8 DEF ReviewsStep
<1>10. HubStep(hub, k, now, NextId, NextId + 1)
  BY <1>3, <1>5, <1>7, <1>9, HubParts, SameParts DEF HubInv, HubStep, SameProgram
<1> QED BY <1>1, <1>5, <1>10, CountedStep

LEMMA EditReviewStep ==
  ASSUME TypeOK, HubInv, NEW r \in hub.reviews, EditReview(r)
  PROVE  GitHubStep
<1>1. PICK k : /\ k = [hub EXCEPT !.reviews = (@ \ {r}) \cup {Edited(r)}]
               /\ Counted(k)
  BY DEF EditReview, Edited
<1>2. Edited(r) \in [id : Nat, head : Heads, session : Sessions, edited : BOOLEAN]
  <2>1. r \in [id : Nat, head : Heads, session : Sessions, edited : BOOLEAN]
    BY HubParts, PieceTypes
  <2> QED BY <2>1 DEF Edited
<1>3. /\ PrLeft(k) /\ k.due = hub.due /\ k.issueTimeline = hub.issueTimeline
      /\ k.issue = hub.issue /\ k.approvals = hub.approvals /\ k.edits = hub.edits
      /\ k.runs = hub.runs /\ SameProgram(hub, k)
      /\ k.reviews = (hub.reviews \ {r}) \cup {Edited(r)}
  BY <1>1, HubParts DEF Hubs, PrLeft, Unstamped, HasPieces, SameProgram
<1>4. k \in Hubs
  BY <1>2, <1>3, HubParts, PieceTypes DEF Hubs, Unstamped, HasPieces, PrLeft, SameProgram
<1>5. ReviewsStep(hub, k, NextId, NextId + 1) BY <1>3 DEF ReviewsStep, EditReview
<1>6. HubStep(hub, k, now, NextId, NextId + 1)
  BY <1>3, <1>4, <1>5, HubParts, SameParts DEF HubInv, HubStep, PrLeft, SamePr, SameProgram
<1> QED BY <1>1, <1>4, <1>6, CountedStep

\* A second pull request, and main, only count up.
LEMMA CountStep ==
  ASSUME TypeOK, HubInv, OpenTwin \/ MainMoves
  PROVE  GitHubStep
<1>1. PICK k : /\ \/ k = [hub EXCEPT !.related = @ + 1]
                  \/ k = [hub EXCEPT !.main = @ + 1]
               /\ Counted(k)
  BY DEF OpenTwin, MainMoves
<1>2. /\ PrLeft(k) /\ k.due = hub.due /\ k.issueTimeline = hub.issueTimeline
      /\ k.issue = hub.issue /\ SameComments(hub, k)
      /\ k.runs = hub.runs /\ k.bindings = hub.bindings
      /\ k.related \in {hub.related, hub.related + 1}
      /\ k.main \in {hub.main, hub.main + 1}
  BY <1>1, HubParts DEF Hubs, PrLeft, Unstamped, HasPieces, SameComments
<1>3. hub.related \in Nat /\ hub.main \in Nat BY HubParts, PieceTypes
<1>4. CountsBefore(hub, k) /\ k.related \in Nat /\ k.main \in Nat
  BY <1>2, <1>3 DEF CountsBefore
<1>5. k \in Hubs
  BY <1>2, <1>4, HubParts, PieceTypes DEF Hubs, Unstamped, HasPieces, PrLeft, SameComments
<1>6. HubStep(hub, k, now, NextId, NextId + 1)
  BY <1>2, <1>4, <1>5, HubParts, SameParts DEF HubInv, HubStep, PrLeft, SamePr, SameComments
<1> QED BY <1>1, <1>5, <1>6, CountedStep


\* Of runs and of the issues of the program, one may take the place of an
\* earlier state of its own.
LEMMA RunReplaced ==
  ASSUME TypeOK, HubInv, NEW k, NEW r \in hub.runs, NEW q, RunBefore(r, q),
         k.runs = (hub.runs \ {r}) \cup {q}, NEW t, NEW n, NEW m
  PROVE  RunsStep(hub, k, t, n, m)
<1>1. \A x \in hub.runs : RunBefore(x, x) BY DEF RunBefore, AttemptBefore
<1>2. \A x, y \in hub.runs : x.id = y.id => x = y BY DEF HubInv, Consistent, IdsTell
<1>3. q.id = r.id BY DEF RunBefore
<1>4. IdsTell(k.runs) BY <1>2, <1>3 DEF IdsTell
<1>5. \A y \in k.runs : \E x \in hub.runs : RunBefore(x, y) BY <1>1
<1> QED BY <1>4, <1>5 DEF RunsStep

LEMMA RunChanges ==
  ASSUME TypeOK, HubInv, NEW r \in hub.runs, NEW latest \in Attempt,
         AttemptBefore(r.latest, latest),
         NEW k, k = [hub EXCEPT !.runs = (@ \ {r}) \cup {[r EXCEPT !.latest = latest]}]
  PROVE  /\ k \in Hubs /\ k.at = hub.at /\ k.next = hub.next
         /\ \A t, m : HubStep(hub, k, t, NextId, m)
<1> DEFINE q == [r EXCEPT !.latest = latest]
<1>1. r \in [id : Nat, head : Heads, base : Nat, createdAt : Nat, latest : Attempt]
  BY HubParts, PieceTypes
<1>2. /\ q \in [id : Nat, head : Heads, base : Nat, createdAt : Nat, latest : Attempt]
      /\ RunBefore(r, q)
  BY <1>1 DEF RunBefore
<1>3. k = [hub EXCEPT !.runs = (@ \ {r}) \cup {q}] OBVIOUS
<1> HIDE DEF q
<1>4. /\ PrLeft(k) /\ k.due = hub.due /\ k.issueTimeline = hub.issueTimeline
      /\ k.issue = hub.issue /\ SameComments(hub, k) /\ SameProgram(hub, k)
      /\ k.runs = (hub.runs \ {r}) \cup {q}
  BY <1>3, HubParts DEF Hubs, PrLeft, Unstamped, HasPieces, SameComments, SameProgram
<1>5. k \in Hubs
  BY <1>2, <1>4, HubParts, PieceTypes
     DEF Hubs, Unstamped, HasPieces, PrLeft, SameComments, SameProgram
<1>6. ASSUME NEW t, NEW m PROVE HubStep(hub, k, t, NextId, m)
  <2>1. RunsStep(hub, k, t, NextId, m) BY <1>2, <1>4, RunReplaced
  <2> QED BY <1>4, <1>5, <2>1, HubParts, SameParts
          DEF HubInv, HubStep, PrLeft, SamePr, SameComments, SameProgram
<1>7. k.at = hub.at /\ k.next = hub.next BY <1>4 DEF PrLeft, Unstamped
<1> QED BY <1>5, <1>6, <1>7

LEMMA AttemptsGoOn ==
  ASSUME NEW x \in Attempt, NEW c \in {"success", "failure", "cancelled"}
  PROVE  /\ Begun(x.attempt + 1) \in Attempt /\ AttemptBefore(x, Begun(x.attempt + 1))
         /\ Ended(x.attempt, c) \in Attempt
         /\ x.status = "in_progress" => AttemptBefore(x, Ended(x.attempt, c))
BY DEF Attempt, Begun, Ended, AttemptBefore

LEMMA CiEndsStep ==
  ASSUME TypeOK, HubInv, NEW r \in hub.runs, NEW c \in {"success", "failure"},
         CiEnds(r, c)
  PROVE  GitHubStep
<1>1. PICK k : /\ k = [hub EXCEPT !.runs = (@ \ {r}) \cup
                         {[r EXCEPT !.latest = Ended(r.latest.attempt, c)]}]
               /\ Change(k)
  BY DEF CiEnds
<1>2. r.latest \in Attempt BY HubParts, PieceTypes
<1>3. /\ k \in Hubs /\ k.at = hub.at /\ k.next = hub.next
      /\ \A t, m : HubStep(hub, k, t, NextId, m)
  BY <1>1, <1>2, AttemptsGoOn, RunChanges DEF CiEnds
<1> QED BY <1>1, <1>3, FreeStep

LEMMA CiRerunStep ==
  ASSUME TypeOK, HubInv, NEW r \in hub.runs, CiRerun(r)
  PROVE  GitHubStep
<1>1. PICK k : /\ k = [hub EXCEPT !.runs = (@ \ {r}) \cup
                         {[r EXCEPT !.latest = Begun(r.latest.attempt + 1)]}]
               /\ Counted(k)
  BY DEF CiRerun
<1>2. r.latest \in Attempt BY HubParts, PieceTypes
<1>3. k \in Hubs /\ \A t, m : HubStep(hub, k, t, NextId, m)
  BY <1>1, <1>2, AttemptsGoOn, RunChanges
<1> QED BY <1>1, <1>3, CountedStep

LEMMA CiBeginsStep ==
  ASSUME TypeOK, HubInv, CiBegins
  PROVE  GitHubStep
<1> DEFINE Cancelled(r) == IF r.latest.status = "completed" THEN r
                           ELSE [r EXCEPT !.latest = Ended(r.latest.attempt, "cancelled")]
           run == [id |-> NextId, head |-> Head(hub.due).head,
                   base |-> Head(hub.due).base, createdAt |-> now, latest |-> Begun(1)]
           Kind == [id : Nat, head : Heads, base : Nat, createdAt : Nat,
                    latest : Attempt]
<1>1. PICK k : /\ k = [hub EXCEPT !.due = Tail(@),
                         !.runs = {Cancelled(r) : r \in @} \cup {run}]
               /\ Counted(k)
  BY DEF CiBegins
<1>2. ASSUME NEW r \in hub.runs
      PROVE  Cancelled(r) \in Kind /\ RunBefore(r, Cancelled(r)) /\ Cancelled(r).id = r.id
  <2>1. r \in Kind BY HubParts, PieceTypes
  <2>2. r.latest \in Attempt BY <2>1
  <2>3. CASE r.latest.status = "completed" BY <2>1, <2>3 DEF RunBefore, AttemptBefore
  <2>4. CASE r.latest.status # "completed"
    <3>1. r.latest.status = "in_progress" BY <2>2, <2>4 DEF Attempt
    <3>2. /\ Ended(r.latest.attempt, "cancelled") \in Attempt
          /\ AttemptBefore(r.latest, Ended(r.latest.attempt, "cancelled"))
      BY <2>2, <3>1, AttemptsGoOn
    <3> QED BY <2>1, <2>4, <3>2 DEF RunBefore
  <2> QED BY <2>3, <2>4
<1>3. /\ Head(hub.due) \in [head : Heads, base : Nat]
      /\ Tail(hub.due) \in Seq([head : Heads, base : Nat])
  <2> DEFINE S == [head : Heads, base : Nat]
  <2>1. hub.due \in Seq(S) BY HubParts, PieceTypes
  <2>2. Head(hub.due) \in S /\ Tail(hub.due) \in Seq(S)
    <3> HIDE DEF S
    <3> QED BY <2>1, HeadTailProperties DEF CiBegins
  <2> QED BY <2>2
<1>4. run \in Kind /\ run.id = NextId /\ run.createdAt = now
  BY <1>3, NextIdIsNumber DEF Begun, Attempt
<1> HIDE DEF Cancelled, run
<1>5. /\ PrLeft(k) /\ k.due = Tail(hub.due) /\ k.issueTimeline = hub.issueTimeline
      /\ k.issue = hub.issue /\ SameComments(hub, k) /\ SameProgram(hub, k)
      /\ k.runs = {Cancelled(r) : r \in hub.runs} \cup {run}
  BY <1>1, HubParts DEF Hubs, PrLeft, Unstamped, HasPieces, SameComments, SameProgram
<1>6. k.runs \subseteq Kind BY <1>2, <1>4, <1>5
<1>7. k \in Hubs
  BY <1>3, <1>5, <1>6, HubParts, PieceTypes
     DEF Hubs, Unstamped, HasPieces, PrLeft, SameComments, SameProgram
<1>8. RunsStep(hub, k, now, NextId, NextId + 1)
  <2> HIDE DEF Kind
  <2>1. \A x, y \in hub.runs : x.id = y.id => x = y BY DEF HubInv, Consistent, IdsTell
  <2>2. \A x \in hub.runs : x.id # NextId
    <3>1. \A x \in hub.runs : x.id \in Nat /\ x.id < NextId
      BY HubParts, PieceTypes DEF HubInv, Past, NextId
    <3> QED BY <3>1, NextIdIsNumber
  <2>3. IdsTell(k.runs)
    <3> SUFFICES ASSUME NEW x \in k.runs, NEW y \in k.runs, x.id = y.id PROVE x = y
      BY DEF IdsTell
    <3> QED BY <1>2, <1>4, <1>5, <2>1, <2>2
  <2>4. NextId <= run.id /\ run.id < NextId + 1 BY <1>4, NextIdIsNumber
  <2> QED BY <1>2, <1>4, <1>5, <2>3, <2>4 DEF RunsStep
<1>9. HubStep(hub, k, now, NextId, NextId + 1)
  BY <1>5, <1>7, <1>8, HubParts, SameParts
     DEF HubInv, HubStep, PrLeft, SamePr, SameComments, SameProgram
<1> QED BY <1>1, <1>7, <1>9, CountedStep

BindingKind == [ordinal : Nat, id : Nat, base : Nat, merge : Nat, parent : Nat,
                open : BOOLEAN, ci : Attempt]

LEMMA BindingTypes == TypeOK => hub.bindings \subseteq BindingKind
BY PieceTypes DEF TypeOK, BindingKind

LEMMA BindingChanges ==
  ASSUME TypeOK, HubInv, NEW b \in hub.bindings, NEW d \in BindingKind,
         BindingBefore(b, d), NEW k,
         k = [hub EXCEPT !.bindings = (@ \ {b}) \cup {d}]
  PROVE  /\ k \in Hubs /\ k.at = hub.at /\ k.next = hub.next
         /\ \A t, m : HubStep(hub, k, t, NextId, m)
<1>1. /\ PrLeft(k) /\ k.due = hub.due /\ k.issueTimeline = hub.issueTimeline
      /\ k.issue = hub.issue /\ SameComments(hub, k) /\ k.runs = hub.runs
      /\ k.related = hub.related /\ k.main = hub.main
      /\ k.bindings = (hub.bindings \ {b}) \cup {d}
  BY HubParts DEF Hubs, PrLeft, Unstamped, HasPieces, SameComments
<1>2. k \in Hubs
  <2>1. k.bindings \subseteq BindingKind BY <1>1, BindingTypes
  <2> QED BY <1>1, <2>1, HubParts, PieceTypes
          DEF Hubs, Unstamped, HasPieces, PrLeft, SameComments, BindingKind
<1>3. ASSUME NEW t, NEW m PROVE HubStep(hub, k, t, NextId, m)
  <2>1. \A x \in hub.bindings : BindingBefore(x, x) BY DEF BindingBefore, AttemptBefore
  <2>2. \A x, y \in hub.bindings : x.id = y.id => x = y
    BY DEF HubInv, Consistent, IdsTell
  <2>3. d.id = b.id BY DEF BindingBefore
  <2>4. IdsTell(k.bindings) BY <1>1, <2>2, <2>3 DEF IdsTell
  <2>5. \A y \in k.bindings : \E x \in hub.bindings : BindingBefore(x, y) BY <1>1, <2>1
  <2>6. BindingsStep(hub, k, NextId, m) BY <2>4, <2>5 DEF BindingsStep
  <2> QED BY <1>1, <1>2, <2>6, HubParts, SameParts
          DEF HubInv, HubStep, PrLeft, SamePr, SameComments
<1>4. k.at = hub.at /\ k.next = hub.next BY <1>1 DEF PrLeft, Unstamped
<1> QED BY <1>2, <1>3, <1>4

LEMMA ReopenChildStep ==
  ASSUME TypeOK, HubInv, NEW b \in hub.bindings, ReopenChild(b)
  PROVE  GitHubStep
<1> DEFINE d == [b EXCEPT !.open = TRUE]
<1>1. PICK k : k = [hub EXCEPT !.bindings = (@ \ {b}) \cup {d}] /\ Counted(k)
  BY DEF ReopenChild
<1>2. b \in BindingKind BY BindingTypes
<1>3. d \in BindingKind /\ BindingBefore(b, d)
  BY <1>2 DEF BindingKind, BindingBefore, AttemptBefore
<1> HIDE DEF d
<1>4. k \in Hubs /\ \A t, m : HubStep(hub, k, t, NextId, m) BY <1>1, <1>3, BindingChanges
<1> QED BY <1>1, <1>4, CountedStep

LEMMA RerunMainCiStep ==
  ASSUME TypeOK, HubInv, NEW b \in hub.bindings, RerunMainCi(b)
  PROVE  GitHubStep
<1> DEFINE d == [b EXCEPT !.ci = Begun(b.ci.attempt + 1)]
<1>1. PICK k : k = [hub EXCEPT !.bindings = (@ \ {b}) \cup {d}] /\ Counted(k)
  BY DEF RerunMainCi
<1>2. b \in BindingKind BY BindingTypes
<1>3. /\ Begun(b.ci.attempt + 1) \in Attempt
      /\ AttemptBefore(b.ci, Begun(b.ci.attempt + 1))
  BY <1>2, AttemptsGoOn DEF BindingKind
<1>4. d \in BindingKind /\ BindingBefore(b, d) BY <1>2, <1>3 DEF BindingKind, BindingBefore
<1> HIDE DEF d
<1>5. k \in Hubs /\ \A t, m : HubStep(hub, k, t, NextId, m) BY <1>1, <1>4, BindingChanges
<1> QED BY <1>1, <1>5, CountedStep

LEMMA MainCiEndsStep ==
  ASSUME TypeOK, HubInv, NEW b \in hub.bindings, NEW c \in {"success", "failure"},
         MainCiEnds(b, c)
  PROVE  GitHubStep
<1> DEFINE d == [b EXCEPT !.ci = Ended(b.ci.attempt, c)]
<1>1. PICK k : /\ k = [hub EXCEPT !.bindings = (@ \ {b}) \cup {d}]
               /\ Change(k)
  BY DEF MainCiEnds
<1>2. b \in BindingKind BY BindingTypes
<1>3. Ended(b.ci.attempt, c) \in Attempt /\ AttemptBefore(b.ci, Ended(b.ci.attempt, c))
  BY <1>2, AttemptsGoOn DEF BindingKind, MainCiEnds
<1>4. d \in BindingKind /\ BindingBefore(b, d) BY <1>2, <1>3 DEF BindingKind, BindingBefore
<1> HIDE DEF d
<1>5. /\ k \in Hubs /\ k.at = hub.at /\ k.next = hub.next
      /\ \A t, m : HubStep(hub, k, t, NextId, m)
  BY <1>1, <1>4, BindingChanges
<1> QED BY <1>1, <1>5, FreeStep

LEMMA ReplayStep ==
  ASSUME TypeOK, HubInv, NEW b \in hub.bindings, Replay(b)
  PROVE  GitHubStep
<1> PICK d : d = [b EXCEPT !.id = NextId, !.merge = 0, !.parent = 0, !.open = TRUE]
  OBVIOUS
<1>1. PICK k : k = [hub EXCEPT !.bindings = @ \cup {d}] /\ Counted(k) BY DEF Replay
<1>2. d \in BindingKind /\ d.id = NextId
  <2>1. b \in BindingKind /\ NextId \in Nat BY BindingTypes, NextIdIsNumber
  <2>2. d = [ordinal |-> b.ordinal, id |-> NextId, base |-> b.base, merge |-> 0,
             parent |-> 0, open |-> TRUE, ci |-> b.ci]
    BY <2>1 DEF BindingKind
  <2>3. /\ b.ordinal \in Nat /\ b.base \in Nat /\ b.ci \in Attempt
    BY <2>1 DEF BindingKind
  <2>4. TRUE \in BOOLEAN /\ 0 \in Nat OBVIOUS
  <2>5. d.id = NextId BY <2>2
  <2>6. d \in BindingKind
    <3> PICK c : c = b.ci OBVIOUS
    <3> PICK i : i = NextId OBVIOUS
    <3>1. d = [ordinal |-> b.ordinal, id |-> i, base |-> b.base, merge |-> 0,
               parent |-> 0, open |-> TRUE, ci |-> c]
      BY <2>2
    <3>2. i \in Nat /\ c \in Attempt BY <2>1, <2>3
    <3> QED BY <2>3, <2>4, <3>1, <3>2 DEF BindingKind
  <2> QED BY <2>5, <2>6
<1>3. /\ PrLeft(k) /\ k.due = hub.due /\ k.issueTimeline = hub.issueTimeline
      /\ k.issue = hub.issue /\ SameComments(hub, k) /\ k.runs = hub.runs
      /\ k.related = hub.related /\ k.main = hub.main
      /\ k.bindings = hub.bindings \cup {d}
  BY <1>1, HubParts DEF Hubs, PrLeft, Unstamped, HasPieces, SameComments
<1>4. k \in Hubs
  <2>1. k.bindings \subseteq BindingKind BY <1>2, <1>3, BindingTypes
  <2> QED BY <1>3, <2>1, HubParts, PieceTypes
          DEF Hubs, Unstamped, HasPieces, PrLeft, SameComments, BindingKind
<1>5. BindingsStep(hub, k, NextId, NextId + 1)
  <2>1. \A x \in hub.bindings : BindingBefore(x, x) BY DEF BindingBefore, AttemptBefore
  <2>2. \A x, y \in hub.bindings : x.id = y.id => x = y
    BY DEF HubInv, Consistent, IdsTell
  <2>3. \A x \in hub.bindings : x.id # NextId
    <3>1. \A x \in hub.bindings : x.id \in Nat /\ x.id < NextId
      BY BindingTypes DEF BindingKind, HubInv, Past, NextId
    <3> QED BY <3>1, NextIdIsNumber
  <2>4. IdsTell(k.bindings) BY <1>2, <1>3, <2>2, <2>3 DEF IdsTell
  <2>5. NextId <= d.id /\ d.id < NextId + 1 BY <1>2, NextIdIsNumber
  <2> QED BY <1>3, <2>1, <2>4, <2>5 DEF BindingsStep
<1>6. HubStep(hub, k, now, NextId, NextId + 1)
  BY <1>3, <1>4, <1>5, HubParts, SameParts
     DEF HubInv, HubStep, PrLeft, SamePr, SameComments
<1> QED BY <1>1, <1>4, <1>6, CountedStep

\* What is deleted leaves the rest as it was.
LEMMA DeleteStep ==
  ASSUME TypeOK, HubInv, NEW kind \in {"approvals", "reviews", "runs", "bindings"},
         NEW x, Delete(kind, x)
  PROVE  GitHubStep
<1>1. CASE kind = "approvals"
  <2>1. PICK k : k = [hub EXCEPT !.approvals = @ \ {x}] /\ Counted(k)
    BY <1>1 DEF Delete
  <2>2. /\ PrLeft(k) /\ k.due = hub.due /\ k.issueTimeline = hub.issueTimeline
        /\ k.issue = hub.issue /\ k.related = hub.related /\ k.main = hub.main
        /\ k.edits = hub.edits /\ k.reviews = hub.reviews /\ k.runs = hub.runs
        /\ k.bindings = hub.bindings
        /\ k.approvals = hub.approvals \ {x}
    BY <2>1, HubParts DEF Hubs, PrLeft, Unstamped, HasPieces, SameComments
  <2>3. k \in Hubs
    BY <2>2, HubParts, PieceTypes DEF Hubs, Unstamped, HasPieces, PrLeft, SameComments
  <2>4. ApprovalsStep(hub, k, now, NextId, NextId + 1)
    BY <2>2 DEF ApprovalsStep
  <2>5. HubStep(hub, k, now, NextId, NextId + 1)
    BY <2>2, <2>3, <2>4, HubParts, SameParts DEF HubInv, HubStep, PrLeft, SamePr, SameComments
  <2> QED BY <2>1, <2>3, <2>5, CountedStep
<1>2. CASE kind = "reviews"
  <2>1. PICK k : k = [hub EXCEPT !.reviews = @ \ {x}] /\ Counted(k)
    BY <1>2 DEF Delete
  <2>2. /\ PrLeft(k) /\ k.due = hub.due /\ k.issueTimeline = hub.issueTimeline
        /\ k.issue = hub.issue /\ k.related = hub.related /\ k.main = hub.main
        /\ k.edits = hub.edits /\ k.approvals = hub.approvals /\ k.runs = hub.runs
        /\ k.bindings = hub.bindings
        /\ k.reviews = hub.reviews \ {x}
    BY <2>1, HubParts DEF Hubs, PrLeft, Unstamped, HasPieces, SameComments
  <2>3. k \in Hubs
    BY <2>2, HubParts, PieceTypes DEF Hubs, Unstamped, HasPieces, PrLeft, SameComments
  <2>4. ReviewsStep(hub, k, NextId, NextId + 1)
    BY <2>2 DEF ReviewsStep
  <2>5. HubStep(hub, k, now, NextId, NextId + 1)
    BY <2>2, <2>3, <2>4, HubParts, SameParts DEF HubInv, HubStep, PrLeft, SamePr, SameComments
  <2> QED BY <2>1, <2>3, <2>5, CountedStep
<1>3. CASE kind = "runs"
  <2>1. PICK k : k = [hub EXCEPT !.runs = @ \ {x}] /\ Counted(k)
    BY <1>3 DEF Delete
  <2>2. /\ PrLeft(k) /\ k.due = hub.due /\ k.issueTimeline = hub.issueTimeline
        /\ k.issue = hub.issue /\ k.related = hub.related /\ k.main = hub.main
        /\ SameComments(hub, k) /\ k.bindings = hub.bindings
        /\ k.runs = hub.runs \ {x}
    BY <2>1, HubParts DEF Hubs, PrLeft, Unstamped, HasPieces, SameComments
  <2>3. k \in Hubs
    BY <2>2, HubParts, PieceTypes DEF Hubs, Unstamped, HasPieces, PrLeft, SameComments
  <2>4. RunsStep(hub, k, now, NextId, NextId + 1)
    BY <2>2 DEF RunsStep, RunBefore, AttemptBefore, HubInv, Consistent, IdsTell
  <2>5. HubStep(hub, k, now, NextId, NextId + 1)
    BY <2>2, <2>3, <2>4, HubParts, SameParts DEF HubInv, HubStep, PrLeft, SamePr, SameComments
  <2> QED BY <2>1, <2>3, <2>5, CountedStep
<1>4. CASE kind = "bindings"
  <2>1. PICK k : k = [hub EXCEPT !.bindings = @ \ {x}] /\ Counted(k)
    BY <1>4 DEF Delete
  <2>2. /\ PrLeft(k) /\ k.due = hub.due /\ k.issueTimeline = hub.issueTimeline
        /\ k.issue = hub.issue /\ k.related = hub.related /\ k.main = hub.main
        /\ SameComments(hub, k) /\ k.runs = hub.runs
        /\ k.bindings = hub.bindings \ {x}
    BY <2>1, HubParts DEF Hubs, PrLeft, Unstamped, HasPieces, SameComments
  <2>3. k \in Hubs
    BY <2>2, HubParts, PieceTypes DEF Hubs, Unstamped, HasPieces, PrLeft, SameComments
  <2>4. BindingsStep(hub, k, NextId, NextId + 1)
    BY <2>2 DEF BindingsStep, BindingBefore, AttemptBefore, HubInv, Consistent,
                  IdsTell
  <2>5. HubStep(hub, k, now, NextId, NextId + 1)
    BY <2>2, <2>3, <2>4, HubParts, SameParts DEF HubInv, HubStep, PrLeft, SamePr, SameComments
  <2> QED BY <2>1, <2>3, <2>5, CountedStep
<1> QED BY <1>1, <1>2, <1>3, <1>4

\* Whatever happens on GitHub is a step of it.
LEMMA ActionsAreSteps ==
  ASSUME TypeOK, HubInv, PullRequest \/ Issue \/ Ci \/ Program
  PROVE  GitHubStep
<1>1. CASE PullRequest
  <2>1. {Contracts[x].base : x \in Bodies} \subseteq Nat BY GateAssumption DEF Bodies
  <2>2. \A a \in hub.approvals : a.id \in Nat BY HubParts, PieceTypes
  <2> QED BY <1>1, <2>1, <2>2, PushStep, ChangeBaseStep, ClosePrStep, ReopenPrStep,
             ToggleDraftStep, ReconcileStep, CountStep, EditLinkStep, ReviewStep,
             EditReviewStep, DeleteStep
          DEF PullRequest
<1>2. CASE Issue
  BY <1>2, EditIssueStep, ToggleIssueStep, ApproveStep, EditApprovalStep, DeleteStep DEF Issue
<1>3. CASE Ci
  BY <1>3, CiBeginsStep, CiRerunStep, CiEndsStep, DeleteStep DEF Ci, DeleteRun
<1>4. CASE Program
  BY <1>4, CountStep, ReplayStep, ReopenChildStep, RerunMainCiStep, MainCiEndsStep,
     DeleteStep
     DEF Program, DeleteIssue
<1> QED BY <1>1, <1>2, <1>3, <1>4


-----------------------------------------------------------------------------
(* What a pass read was read at moments after it asked for the pull        *)
(* request and before it ended.                                            *)

\* GitHub was in the state h after it was in p and before it was in q.
Within(p, h, q) == Been(h) /\ Before(p, h) /\ Before(h, q)

HasParts(s) ==
  s = [event |-> s.event, pr |-> s.pr, issue |-> s.issue, approvals |-> s.approvals,
       issueTimeline |-> s.issueTimeline, reviews |-> s.reviews,
       timeline |-> s.timeline, files |-> s.files, related |-> s.related,
       ci |-> s.ci, program |-> s.program]

CiWithin(s, p, q) ==
  \E h : Within(p, h, q) /\ CiReadAt(s.ci, s.pr, h)

\* The pieces every pass reads, of a pull request that was read at p.
Read(s, p, q) ==
  /\ HasParts(s) /\ Been(p) /\ s.pr = p.pr /\ Readable(s)
  /\ \E h : Within(p, h, q) /\ s.issue = h.issue
  /\ \E h : Within(p, h, q) /\ s.approvals = h.approvals
  /\ \E h : Within(p, h, q) /\ s.issueTimeline = h.issueTimeline
  /\ \E h : Within(p, h, q) /\ s.reviews = h.reviews
  /\ \E h : Within(p, h, q) /\ s.timeline = h.timeline
  /\ \E h : Within(p, h, q) /\ s.files = Listing(h.pr)
  /\ \E h : Within(p, h, q) /\ s.related = h.related
  /\ CiWithin(s, p, q)

\* And those it reads of a child of the program.
ReadProgram(s, p, q) ==
  IF s.pr.program
  THEN /\ s.program = [bindings |-> s.program.bindings, main |-> s.program.main,
                       now |-> s.program.now]
       /\ \E h : Within(p, h, q) /\ s.program.bindings = h.bindings
       /\ \E h : Within(p, h, q) /\ s.program.main = h.main
  ELSE s.program = None

ReadAll(s, p, q) == Before(p, q) /\ Read(s, p, q) /\ ReadProgram(s, p, q)

LEMMA WithinLater ==
  ASSUME NEW p \in Hubs, NEW q \in Hubs, NEW r \in Hubs, Before(q, r),
         NEW h, Within(p, h, q)
  PROVE  Within(p, h, r)
BY BeforeTransitive DEF Within, Been

LEMMA ReadLater ==
  ASSUME NEW q \in Hubs, NEW r \in Hubs, Before(q, r), NEW p, NEW s, Read(s, p, q)
  PROVE  Read(s, p, r)
<1>1. p \in Hubs BY DEF Read, Been
<1>2. \A h : Within(p, h, q) => Within(p, h, r) BY <1>1, WithinLater
<1> QED BY <1>2 DEF Read, CiWithin

LEMMA NotHeld ==
  ASSUME NEW s, Decision(s) # "HOLD"
  PROVE  /\ s.ci # None /\ s.ci.job = s.ci.latest
         /\ s.ci.base = s.pr.base
         /\ s.ci.latest.conclusion = "success"
         /\ IF s.pr.program THEN ProgramTimeline(s)
            ELSE /\ ValidTimeline(s)
                 /\ \A a \in Linked(s) : ValidCi(s.ci, s.pr, a.createdAt)
<1>1. CASE s.pr.program
  BY <1>1 DEF Decision, SafeChild, ValidCi
<1>2. CASE ~s.pr.program
  <2>1. Accepted(s) BY <1>2 DEF Decision
  <2>2. Linked(s) # {} BY <2>1, FS_EmptySet DEF Accepted, CurrentApproval
  <2>3. \A a \in Linked(s) : ValidCi(s.ci, s.pr, a.createdAt) BY <2>1 DEF Accepted
  <2>4. ValidTimeline(s) /\ s.ci.latest.conclusion = "success" BY <2>1 DEF Accepted
  <2> QED BY <1>2, <2>2, <2>3, <2>4 DEF ValidCi
<1> QED BY <1>1, <1>2

-----------------------------------------------------------------------------
(* Two passes that read the same, one before m and one after it, read m,   *)
(* but for what came after the first began and was gone at e.              *)

LEMMA WithoutParts ==
  ASSUME NEW m \in Hubs, NEW A, NEW R, NEW C, NEW B, NEW w, w = Without(m, A, R, C, B)
  PROVE  /\ w \in Hubs
         /\ w.issue = m.issue /\ w.approvals = m.approvals \ A
         /\ w.issueTimeline = m.issueTimeline /\ w.pr = m.pr /\ w.bodyAt = m.bodyAt
         /\ w.timeline = m.timeline /\ w.reviews = m.reviews \ R
         /\ w.runs = m.runs \ C /\ w.related = m.related /\ w.main = m.main
         /\ w.bindings = m.bindings \ B /\ w.at = m.at /\ w.next = m.next
<1>1. w = [issue |-> m.issue, approvals |-> m.approvals \ A, edits |-> m.edits,
           issueTimeline |-> m.issueTimeline, pr |-> m.pr, bodyAt |-> m.bodyAt,
           timeline |-> m.timeline, reviews |-> m.reviews \ R, runs |-> m.runs \ C,
           due |-> m.due, related |-> m.related, main |-> m.main,
           bindings |-> m.bindings \ B, at |-> m.at, next |-> m.next]
  BY DEF Hubs, Without
<1>2. /\ m.approvals \ A \subseteq m.approvals /\ m.reviews \ R \subseteq m.reviews
      /\ m.runs \ C \subseteq m.runs /\ m.bindings \ B \subseteq m.bindings
  OBVIOUS
<1>3. w \in Hubs BY <1>1, <1>2, PieceTypes DEF Hubs
<1> QED BY <1>1, <1>3

LEMMA WithoutBeen ==
  ASSUME NEW m, Been(m), NEW A, NEW R, NEW C, NEW B, NEW w, w = Without(m, A, R, C, B)
  PROVE  Been(w)
<1>1. m \in Hubs /\ Consistent(m) /\ Past(m) BY DEF Been
<1>2. /\ w \in Hubs
      /\ w.issue = m.issue /\ w.approvals \subseteq m.approvals /\ w.pr = m.pr
      /\ w.bodyAt = m.bodyAt /\ w.timeline = m.timeline
      /\ w.reviews \subseteq m.reviews /\ w.runs \subseteq m.runs
      /\ w.bindings \subseteq m.bindings /\ w.at = m.at /\ w.next = m.next
  BY <1>1, WithoutParts
<1>3. Consistent(w) BY <1>1, <1>2 DEF Consistent, IdsTell
<1>4. Past(w) BY <1>1, <1>2 DEF Past
<1> QED BY <1>2, <1>3, <1>4 DEF Been

\* What came and went is gone from every state the readers saw.
CameAndWentOf(m, e, from, A, R, C, B) ==
  /\ A \in SUBSET Fleeting(m.approvals, e.approvals, from)
  /\ R \in SUBSET Fleeting(m.reviews, e.reviews, from)
  /\ C \in SUBSET Fleeting(m.runs, e.runs, from)
  /\ B \in SUBSET Fleeting(m.bindings, e.bindings, from)

\* m is the state between the passes, p and r those in which they asked for
\* the pull request, e the one in which it was asked for again.
Passes(s, p, m, r, q, e, from) ==
  /\ Been(m) /\ q \in Hubs /\ e \in Hubs
  /\ ReadAll(s, p, m) /\ Before(m, r) /\ ReadAll(s, r, q) /\ Before(q, e)
  /\ e.pr = s.pr /\ Decision(s) # "HOLD"
  /\ from \in Nat /\ from <= p.next

LEMMA PassesOrdered ==
  ASSUME NEW s, NEW p, NEW m, NEW r, NEW q, NEW e, NEW from,
         Passes(s, p, m, r, q, e, from)
  PROVE  /\ Been(m) /\ Been(p) /\ Been(r) /\ Before(p, m) /\ Before(m, r)
         /\ m \in Hubs /\ p \in Hubs /\ r \in Hubs /\ q \in Hubs /\ e \in Hubs
         /\ \A h : Within(p, h, m) => Been(h) /\ Before(p, h) /\ Before(h, m)
         /\ \A k : Within(r, k, q) =>
              Been(k) /\ Before(r, k) /\ Before(m, k) /\ Before(k, e)
         /\ \A h, k : Within(p, h, m) /\ Within(r, k, q) => Read4(h, m, k, e, from)
<1>1. /\ Been(m) /\ Been(p) /\ Been(r) /\ Before(p, m) /\ Before(m, r)
      /\ m \in Hubs /\ p \in Hubs /\ r \in Hubs /\ q \in Hubs /\ e \in Hubs
      /\ Before(q, e) /\ from \in Nat /\ from <= p.next
  BY DEF Passes, ReadAll, Read, Been
<1>2. ASSUME NEW h, Within(p, h, m)
      PROVE  Been(h) /\ Before(p, h) /\ Before(h, m) /\ from <= h.next
  <2>1. Been(h) /\ Before(p, h) /\ Before(h, m) /\ h \in Hubs BY <1>2 DEF Within, Been
  <2>2. p.next \in Nat /\ h.next \in Nat BY <1>1, <2>1, PieceTypes
  <2>3. p.next <= h.next BY <2>1 DEF Before, StampsBefore
  <2> QED BY <1>1, <2>1, <2>2, <2>3
<1>3. ASSUME NEW k, Within(r, k, q)
      PROVE  Been(k) /\ Before(r, k) /\ Before(m, k) /\ Before(k, e)
  <2>1. Been(k) /\ Before(r, k) /\ Before(k, q) /\ k \in Hubs BY <1>3 DEF Within, Been
  <2> QED BY <1>1, <2>1, BeforeTransitive
<1> QED BY <1>1, <1>2, <1>3 DEF Read4

\* The run was created before the first pass ended.
LEMMA RunOfPasses ==
  ASSUME NEW s, NEW p, NEW m, NEW r, NEW q, NEW e, NEW from,
         Passes(s, p, m, r, q, e, from)
  PROVE  s.ci.createdAt \in Nat /\ s.ci.createdAt <= m.at
<1>1. PICK h : Within(p, h, m) /\ CiReadAt(s.ci, s.pr, h)
  BY DEF Passes, ReadAll, Read, CiWithin
<1>2. Been(h) /\ Before(h, m) /\ h \in Hubs /\ m \in Hubs
  BY <1>1, PassesOrdered DEF Been
<1>3. s.ci # None BY NotHeld DEF Passes
<1>4. PICK x \in h.runs : s.ci.createdAt = x.createdAt BY <1>1, <1>2, <1>3, CiIsOfRun
<1>5. x.createdAt <= h.at /\ h.at <= m.at
  BY <1>2 DEF Been, Past, Before, StampsBefore
<1>6. x.createdAt \in Nat /\ h.at \in Nat /\ m.at \in Nat BY <1>2, PieceTypes
<1> QED BY <1>4, <1>5, <1>6

\* What both read holds no doubt of the pull request, but, of an ordinary
\* one, what came before the run.
LEMMA NoDoubt ==
  ASSUME NEW s, NEW p, NEW m, NEW r, NEW q, NEW e, NEW from,
         Passes(s, p, m, r, q, e, from), Doubted(s.pr, r)
  PROVE  ~s.pr.program /\ s.pr.updatedAt < s.ci.createdAt
<1>1. PICK ev \in r.timeline : ev.event \in ProgramPermanent /\ s.pr.updatedAt <= ev.at
  BY DEF Doubted
<1>2. PICK k : Within(r, k, q) /\ s.timeline = k.timeline
  BY DEF Passes, ReadAll, Read
<1>3. ev \in s.timeline BY <1>2, PassesOrdered DEF Before, EventsBefore
<1>4. CASE s.pr.program
  BY <1>1, <1>3, <1>4, NotHeld DEF Passes, ProgramTimeline
<1>5. CASE ~s.pr.program
  <2>0. ValidTimeline(s) BY <1>5, NotHeld DEF Passes
  <2>1. ev.at < s.ci.createdAt BY <1>3, <2>0 DEF ValidTimeline
  <2>2. s.pr = r.pr /\ r \in Hubs
    <3>1. s.pr = r.pr BY DEF Passes, ReadAll, Read
    <3>2. r \in Hubs BY PassesOrdered
    <3> QED BY <3>1, <3>2
  <2>3. s.pr.updatedAt \in Nat /\ ev.at \in Nat BY <2>2, PieceTypes
  <2>4. s.ci.createdAt \in Nat BY RunOfPasses
  <2> QED BY <1>1, <1>5, <2>1, <2>3, <2>4
<1> QED BY <1>4, <1>5

LEMMA PrOfPasses ==
  ASSUME NEW s, NEW p, NEW m, NEW r, NEW q, NEW e, NEW from,
         Passes(s, p, m, r, q, e, from)
  PROVE  m.pr = s.pr
<1> SUFFICES ASSUME m.pr # s.pr PROVE FALSE OBVIOUS
<1>1. s.pr = p.pr /\ s.pr = r.pr BY DEF Passes, ReadAll, Read
<1>2. /\ Consistent(r) /\ m \in Hubs /\ p \in Hubs /\ r \in Hubs
      /\ Before(p, m) /\ Before(m, r)
  BY PassesOrdered DEF Been
<1>3. Doubted(s.pr, r) BY <1>1, <1>2, PrBetween DEF Before
<1>4. s.pr.updatedAt < s.ci.createdAt BY <1>3, NoDoubt
<1>5. m.at <= r.pr.updatedAt BY <1>1, <1>2 DEF Before, PrBefore
<1>6. s.ci.createdAt \in Nat /\ s.ci.createdAt <= m.at BY RunOfPasses
<1>7. m.at \in Nat /\ r.pr.updatedAt \in Nat BY <1>2, PieceTypes
<1> QED BY <1>1, <1>4, <1>5, <1>6, <1>7

\* A list of files taken at another head, by the first pass, needs a forced
\* push before the run; by the second pass, a change after it.
LEMMA FilesOfPasses ==
  ASSUME NEW s, NEW p, NEW m, NEW r, NEW q, NEW e, NEW from,
         Passes(s, p, m, r, q, e, from)
  PROVE  s.files = Listing(m.pr)
<1>1. PICK h : Within(p, h, m) /\ s.files = Listing(h.pr) BY DEF Passes, ReadAll, Read
<1>2. PICK k : Within(r, k, q) /\ s.files = Listing(k.pr) BY DEF Passes, ReadAll, Read
<1>3. m.pr = s.pr /\ p.pr = s.pr /\ e.pr = s.pr
  BY PrOfPasses DEF Passes, ReadAll, Read
<1>4. /\ m \in Hubs /\ p \in Hubs /\ h \in Hubs /\ k \in Hubs /\ e \in Hubs
      /\ Consistent(m) /\ Before(p, h) /\ Before(h, m) /\ Before(m, r)
      /\ Before(m, k) /\ Before(k, e)
  BY <1>1, <1>2, PassesOrdered DEF Been
<1> SUFFICES ASSUME h.pr # s.pr, k.pr # s.pr PROVE FALSE BY <1>1, <1>2, <1>3
<1>5. Doubted(s.pr, m) BY <1>3, <1>4, PrBetween DEF Before
<1>6. Doubted(s.pr, r) BY <1>4, <1>5 DEF Doubted, Before, EventsBefore
<1>7. s.pr.updatedAt < s.ci.createdAt BY <1>6, NoDoubt
<1>8. m.at <= k.pr.updatedAt /\ k.pr.updatedAt <= e.pr.updatedAt
  BY <1>3, <1>4 DEF Before, PrBefore
<1>9. s.ci.createdAt \in Nat /\ s.ci.createdAt <= m.at BY RunOfPasses
<1>10. m.at \in Nat /\ k.pr.updatedAt \in Nat /\ e.pr.updatedAt \in Nat
  BY <1>4, PieceTypes
<1> QED BY <1>3, <1>7, <1>8, <1>9, <1>10

LEMMA PassesMeet ==
  ASSUME NEW s, NEW p, NEW m, NEW r, NEW q, NEW e, NEW from,
         Passes(s, p, m, r, q, e, from)
  PROVE  \E A, R, C, B :
           /\ CameAndWentOf(m, e, from, A, R, C, B)
           /\ s = Whole(Without(m, A, R, C, B), s.event,
                        IF s.pr.program THEN s.program.now ELSE 0)
<1>1. /\ m \in Hubs /\ p \in Hubs /\ r \in Hubs
      /\ \A h : Within(p, h, m) => h \in Hubs /\ Before(h, m)
      /\ \A k : Within(r, k, q) => k \in Hubs /\ Before(m, k)
      /\ \A h, k : Within(p, h, m) /\ Within(r, k, q) => Read4(h, m, k, e, from)
  BY PassesOrdered DEF Been
<1>2. ReadAll(s, p, m) /\ ReadAll(s, r, q) /\ Decision(s) # "HOLD" BY DEF Passes
<1>3. m.pr = s.pr BY PrOfPasses
<1>4. PICK C \in SUBSET Fleeting(m.runs, e.runs, from) :
        s.ci = LatestCi(s.pr, m.runs \ C, m.runs \ C)
  <2>1. PICK h : Within(p, h, m) /\ CiReadAt(s.ci, s.pr, h)
    BY <1>2 DEF ReadAll, Read, CiWithin
  <2>2. PICK k : Within(r, k, q) /\ CiReadAt(s.ci, s.pr, k)
    BY <1>2 DEF ReadAll, Read, CiWithin
  <2>3. Settled(s.ci) BY <1>2, NotHeld DEF ReadAll, Read, Readable, Settled
  <2>4. Read4(h, m, k, e, from) BY <1>1, <2>1, <2>2
  <2> QED BY <2>1, <2>2, <2>3, <2>4, CiBetween
<1>5. m.issue = s.issue
  <2>1. PICK h : Within(p, h, m) /\ s.issue = h.issue BY <1>2 DEF ReadAll, Read
  <2>2. PICK k : Within(r, k, q) /\ s.issue = k.issue BY <1>2 DEF ReadAll, Read
  <2> QED BY <1>1, <2>1, <2>2, IssueBetween DEF Before
<1>6. PICK A \in SUBSET Fleeting(m.approvals, e.approvals, from) :
        s.approvals = m.approvals \ A
  <2>1. PICK h : Within(p, h, m) /\ s.approvals = h.approvals BY <1>2 DEF ReadAll, Read
  <2>2. PICK k : Within(r, k, q) /\ s.approvals = k.approvals BY <1>2 DEF ReadAll, Read
  <2>3. Read4(h, m, k, e, from) /\ h.approvals = k.approvals BY <1>1, <2>1, <2>2
  <2>4. \E S \in SUBSET Fleeting(m.approvals, e.approvals, from) :
          h.approvals = m.approvals \ S
    BY <2>3, ApprovalsBetween
  <2> QED BY <2>1, <2>4
<1>7. PICK R \in SUBSET Fleeting(m.reviews, e.reviews, from) :
        s.reviews = m.reviews \ R
  <2>1. PICK h : Within(p, h, m) /\ s.reviews = h.reviews BY <1>2 DEF ReadAll, Read
  <2>2. PICK k : Within(r, k, q) /\ s.reviews = k.reviews BY <1>2 DEF ReadAll, Read
  <2>3. Read4(h, m, k, e, from) /\ h.reviews = k.reviews BY <1>1, <2>1, <2>2
  <2>4. \E S \in SUBSET Fleeting(m.reviews, e.reviews, from) :
          h.reviews = m.reviews \ S
    BY <2>3, ReviewsBetween
  <2> QED BY <2>1, <2>4
<1>8. m.timeline = s.timeline
  <2>1. PICK h : Within(p, h, m) /\ s.timeline = h.timeline BY <1>2 DEF ReadAll, Read
  <2>2. PICK k : Within(r, k, q) /\ s.timeline = k.timeline BY <1>2 DEF ReadAll, Read
  <2>3. h.timeline \subseteq m.timeline BY <1>1, <2>1 DEF Before, EventsBefore
  <2>4. m.timeline \subseteq k.timeline BY <1>1, <2>2 DEF Before, EventsBefore
  <2> QED BY <2>1, <2>2, <2>3, <2>4
<1>9. m.issueTimeline = s.issueTimeline
  <2>1. PICK h : Within(p, h, m) /\ s.issueTimeline = h.issueTimeline
    BY <1>2 DEF ReadAll, Read
  <2>2. PICK k : Within(r, k, q) /\ s.issueTimeline = k.issueTimeline
    BY <1>2 DEF ReadAll, Read
  <2>3. h.issueTimeline \subseteq m.issueTimeline BY <1>1, <2>1 DEF Before, EventsBefore
  <2>4. m.issueTimeline \subseteq k.issueTimeline BY <1>1, <2>2 DEF Before, EventsBefore
  <2> QED BY <2>1, <2>2, <2>3, <2>4
<1>10. m.related = s.related
  <2>1. PICK h : Within(p, h, m) /\ s.related = h.related BY <1>2 DEF ReadAll, Read
  <2>2. PICK k : Within(r, k, q) /\ s.related = k.related BY <1>2 DEF ReadAll, Read
  <2>3. h.related <= m.related BY <1>1, <2>1 DEF Before, CountsBefore
  <2>4. m.related <= k.related BY <1>1, <2>2 DEF Before, CountsBefore
  <2>5. h.related \in Nat /\ m.related \in Nat BY <1>1, <2>1, PieceTypes
  <2> QED BY <2>1, <2>2, <2>3, <2>4, <2>5
<1>11. s.files = Listing(m.pr) BY FilesOfPasses
<1>12. PICK B \in SUBSET Fleeting(m.bindings, e.bindings, from) :
         s.program = IF m.pr.program
                     THEN [bindings |-> m.bindings \ B, main |-> m.main,
                           now |-> IF s.pr.program THEN s.program.now ELSE 0]
                     ELSE None
  <2>1. CASE ~s.pr.program
    <3>1. {} \in SUBSET Fleeting(m.bindings, e.bindings, from) OBVIOUS
    <3> QED BY <1>2, <1>3, <2>1, <3>1 DEF ReadAll, ReadProgram
  <2>2. CASE s.pr.program
    <3>1. PICK B \in SUBSET Fleeting(m.bindings, e.bindings, from) :
            s.program.bindings = m.bindings \ B
      <4>1. PICK h : Within(p, h, m) /\ s.program.bindings = h.bindings
        BY <1>2, <2>2 DEF ReadAll, ReadProgram
      <4>2. PICK k : Within(r, k, q) /\ s.program.bindings = k.bindings
        BY <1>2, <2>2 DEF ReadAll, ReadProgram
      <4>3. Read4(h, m, k, e, from) /\ h.bindings = k.bindings BY <1>1, <4>1, <4>2
      <4>4. \E D \in SUBSET Fleeting(m.bindings, e.bindings, from) :
              h.bindings = m.bindings \ D
        BY <4>3, BindingsBetween
      <4> QED BY <4>1, <4>4
    <3>2. m.main = s.program.main
      <4>1. PICK h : Within(p, h, m) /\ s.program.main = h.main
        BY <1>2, <2>2 DEF ReadAll, ReadProgram
      <4>2. PICK k : Within(r, k, q) /\ s.program.main = k.main
        BY <1>2, <2>2 DEF ReadAll, ReadProgram
      <4>3. h.main <= m.main BY <1>1, <4>1 DEF Before, CountsBefore
      <4>4. m.main <= k.main BY <1>1, <4>2 DEF Before, CountsBefore
      <4>5. h.main \in Nat /\ m.main \in Nat BY <1>1, <4>1, PieceTypes
      <4> QED BY <4>1, <4>2, <4>3, <4>4, <4>5
    <3>3. s.program = [bindings |-> s.program.bindings, main |-> s.program.main,
                       now |-> s.program.now]
      BY <1>2, <2>2 DEF ReadAll, ReadProgram
    <3> QED BY <1>3, <2>2, <3>1, <3>2, <3>3
  <2> QED BY <2>1, <2>2
<1>13. PICK w : w = Without(m, A, R, C, B) OBVIOUS
<1>14. /\ w.issue = s.issue /\ w.approvals = s.approvals
       /\ w.issueTimeline = s.issueTimeline /\ w.pr = s.pr
       /\ w.timeline = s.timeline /\ w.reviews = s.reviews
       /\ w.runs = m.runs \ C /\ w.related = s.related /\ w.main = m.main
       /\ w.bindings = m.bindings \ B
  BY <1>1, <1>3, <1>5, <1>6, <1>7, <1>8, <1>9, <1>10, <1>13, WithoutParts
<1>15. HasParts(s) BY <1>2 DEF ReadAll, Read
<1>16. s = Whole(w, s.event, IF s.pr.program THEN s.program.now ELSE 0)
  BY <1>3, <1>4, <1>11, <1>12, <1>14, <1>15 DEF Whole, HasParts
<1>17. CameAndWentOf(m, e, from, A, R, C, B)
  BY <1>4, <1>6, <1>7, <1>12 DEF CameAndWentOf
<1> QED BY <1>13, <1>16, <1>17

\* The run of a snapshot that was true of m, and is not held, is the last of
\* its head and came after what it has to come after.
LEMMA RunIsFresh ==
  ASSUME NEW m, Been(m), NEW s, NEW at, s = Whole(m, s.event, at), Decision(s) # "HOLD"
  PROVE  /\ \A a \in Linked(s) : s.ci.id > a.id
         /\ \A ev \in m.timeline : ev.event # "ready_for_review" => s.ci.id > ev.id
         /\ \A r \in m.runs : r.head = m.pr.head => r.id <= s.ci.id
         /\ \E r \in m.runs : /\ r.id = s.ci.id /\ r.head = m.pr.head
                              /\ r.base = m.pr.base
                              /\ r.latest.conclusion = "success"
<1>1. m \in Hubs /\ Consistent(m) BY DEF Been
<1>2. /\ s.ci = LatestCi(m.pr, m.runs, m.runs) /\ s.pr = m.pr
      /\ s.approvals = m.approvals /\ s.timeline = m.timeline
  BY DEF Whole
<1>3. PICK x \in Eligible(m.pr, m.runs) :
        /\ \A o \in Eligible(m.pr, m.runs) : o.id <= x.id
        /\ s.ci.id = x.id /\ s.ci.base = x.base /\ s.ci.createdAt = x.createdAt
        /\ s.ci.latest = x.latest
  <2>1. LatestCi(m.pr, m.runs, m.runs) # None BY <1>2, NotHeld
  <2>2. FoundIn(s.ci, m.pr, m.runs, m.runs) BY <1>1, <1>2, <2>1, CiIsLatest
  <2> QED BY <2>2 DEF FoundIn
<1>4. x \in m.runs /\ x.head = m.pr.head BY DEF Eligible
<1>5. x.id \in Nat /\ x.createdAt \in Nat BY <1>1, <1>4, PieceTypes
<1>6. ASSUME NEW a \in Linked(s) PROVE s.ci.id > a.id
  <2>1. a \in m.approvals BY <1>2 DEF Linked
  <2>2. ~s.pr.program BY <1>1, <1>2, <2>1 DEF Consistent
  <2>3. x.createdAt > a.createdAt BY <1>3, <2>2, NotHeld DEF ValidCi, AfterApproval
  <2>4. a.id \in Nat /\ a.createdAt \in Nat BY <1>1, <2>1, PieceTypes
  <2>5. ~(x.id <= a.id)
    <3>1. x.id <= a.id => x.createdAt <= a.createdAt BY <1>1, <1>4, <2>1 DEF Consistent
    <3> QED BY <1>5, <2>3, <2>4, <3>1
  <2> QED BY <1>3, <1>5, <2>4, <2>5
<1>7. ASSUME NEW ev \in m.timeline, ev.event # "ready_for_review"
      PROVE  s.ci.id > ev.id
  <2>1. ev.id \in Nat /\ ev.at \in Nat /\ ev.event \in Invalidating
    BY <1>1, PieceTypes
  <2>2. ~s.pr.program
    BY <1>2, <1>7, <2>1, NotHeld DEF ProgramTimeline, ProgramPermanent
  <2>3. ev.at < x.createdAt BY <1>2, <1>3, <2>2, NotHeld DEF ValidTimeline
  <2>4. ~(x.id <= ev.id)
    <3>1. x.id <= ev.id => x.createdAt <= ev.at BY <1>1, <1>4 DEF Consistent
    <3> QED BY <1>5, <2>1, <2>3, <3>1
  <2> QED BY <1>3, <1>5, <2>1, <2>4
<1>8. ASSUME NEW r \in m.runs, r.head = m.pr.head PROVE r.id <= s.ci.id
  BY <1>3, <1>8 DEF Eligible
<1>9. x.base = m.pr.base /\ x.latest.conclusion = "success" BY <1>2, <1>3, NotHeld
<1> QED BY <1>3, <1>4, <1>6, <1>7, <1>8, <1>9

\* So is the run of a snapshot that was true of m but for what came and went.
LEMMA RunIsFreshWithout ==
  ASSUME NEW m, Been(m), NEW e, NEW from, NEW A, NEW R, NEW C, NEW B,
         CameAndWentOf(m, e, from, A, R, C, B),
         NEW s, NEW at, s = Whole(Without(m, A, R, C, B), s.event, at),
         Decision(s) # "HOLD"
  PROVE  /\ \A a \in Linked(s) : s.ci.id > a.id
         /\ \A ev \in m.timeline : ev.event # "ready_for_review" => s.ci.id > ev.id
         /\ \A r \in m.runs : r.head = m.pr.head =>
              r.id <= s.ci.id \/ r \in Fleeting(m.runs, e.runs, from)
         /\ \E r \in m.runs : /\ r.id = s.ci.id /\ r.head = m.pr.head
                              /\ r.base = m.pr.base
                              /\ r.latest.conclusion = "success"
<1> PICK w : w = Without(m, A, R, C, B) OBVIOUS
<1>1. w.timeline = m.timeline /\ w.runs = m.runs \ C /\ w.pr = m.pr
  BY WithoutParts DEF Been
<1>2. Been(w) BY WithoutBeen
<1>3. /\ \A a \in Linked(s) : s.ci.id > a.id
      /\ \A ev \in w.timeline : ev.event # "ready_for_review" => s.ci.id > ev.id
      /\ \A r \in w.runs : r.head = w.pr.head => r.id <= s.ci.id
      /\ \E r \in w.runs : /\ r.id = s.ci.id /\ r.head = w.pr.head
                           /\ r.base = w.pr.base
                           /\ r.latest.conclusion = "success"
  BY <1>2, RunIsFresh
<1>4. C \subseteq Fleeting(m.runs, e.runs, from) BY DEF CameAndWentOf
<1> QED BY <1>1, <1>3, <1>4

-----------------------------------------------------------------------------
(* The inductive invariant.                                                *)

HasFields(g) ==
  g = [pc |-> g.pc, event |-> g.event, observedAt |-> g.observedAt,
       from |-> g.from, pr |-> g.pr, part |-> g.part, first |-> g.first, mid |-> g.mid]

\* The states of a window, in their order.
InOrder(w) ==
  /\ w \in Seq(Hubs)
  /\ \A i \in 1..Len(w) : Been(w[i]) /\ \A j \in i..Len(w) : Before(w[i], w[j])

\* p came after the gate began, and after its first pass if that has ended.
Since(p) ==
  /\ gate.from <= p.next
  /\ gate.first # None => Before(gate.mid, p)

\* The first pass ended when GitHub was in the state gate.mid.
FirstPass ==
  gate.first # None =>
    /\ Been(gate.mid) /\ Before(gate.mid, hub)
    /\ \E p : ReadAll(gate.first, p, gate.mid) /\ gate.from <= p.next

ChildRead(s, q) ==
  \E p : Before(p, q) /\ Read(s, p, q) /\ Since(p)

ReadTwice ==
  \E p, q : /\ q \in Hubs /\ Before(gate.mid, p) /\ ReadAll(gate.first, p, q)
            /\ Before(q, hub)

Reading ==
  /\ gate.from \in Nat /\ gate.from <= hub.next
  /\ gate.pc \in {"idle", "resolve", "over"} => gate.first = None
  /\ gate.pc = "rest" => gate.pr = window[1].pr /\ Since(window[1])
  /\ gate.pc = "context" => gate.part.pr.program /\ ChildRead(gate.part, window[1])
  /\ gate.pc = "final" => gate.first # None /\ ReadTwice

GateState == HasFields(gate) /\ InOrder(window) /\ FirstPass /\ Reading

\* After a PASS nothing is read any more.
PassIsLast == pass # None => gate.pc = "over"

IInv ==
  /\ TypeOK /\ HubInv /\ GateState
  /\ PassIsLast /\ PassHeldAtOneMoment /\ AcceptedRunIsFresh

LEMMA HubBeen == TypeOK /\ HubInv => Been(hub)
BY NextIdIsNumber DEF TypeOK, HubInv, Been

LEMMA InOrderGrows ==
  ASSUME NEW w, w # <<>>, InOrder(w), NEW k, Been(k), Before(w[Len(w)], k)
  PROVE  /\ InOrder(Append(w, k)) /\ Append(w, k) # <<>> /\ Append(w, k)[1] = w[1]
         /\ Append(w, k)[Len(Append(w, k))] = k
<1> DEFINE v == Append(w, k)
           n == Len(w)
<1>1. w \in Seq(Hubs) /\ k \in Hubs BY DEF InOrder, Been
<1>2. n \in Nat /\ n # 0 BY <1>1, EmptySeq, LenProperties
<1>3. /\ v \in Seq(Hubs) /\ v # <<>> /\ Len(v) = n + 1
      /\ \A i \in 1..n : v[i] = w[i]
      /\ v[n + 1] = k
  BY <1>1, AppendProperties
<1> HIDE DEF v
<1>4. \A i \in 1..n : w[i] \in Hubs /\ Been(w[i]) BY DEF InOrder, Been
<1>5. \A i \in 1..n : Before(w[i], k)
  <2> TAKE i \in 1..n
  <2>1. Before(w[i], w[n]) BY <1>2 DEF InOrder
  <2>2. w[i] \in Hubs /\ w[n] \in Hubs BY <1>2, <1>4
  <2> QED BY <1>1, <2>1, <2>2, BeforeTransitive
<1>6. Before(k, k) BY <1>1, BeforeReflexive
<1>7. ASSUME NEW i \in 1..(n + 1)
      PROVE  Been(v[i]) /\ \A j \in i..(n + 1) : Before(v[i], v[j])
  <2>1. CASE i = n + 1 BY <1>2, <1>3, <1>6, <2>1
  <2>2. CASE i # n + 1
    <3>1. i \in 1..n BY <1>2, <2>2
    <3>2. Been(v[i]) BY <1>3, <1>4, <3>1
    <3>3. ASSUME NEW j \in i..(n + 1) PROVE Before(v[i], v[j])
      <4>1. CASE j = n + 1 BY <1>3, <1>5, <3>1, <4>1
      <4>2. CASE j # n + 1
        <5>1. j \in i..n /\ j \in 1..n BY <1>2, <3>1, <4>2
        <5> QED BY <1>3, <3>1, <5>1 DEF InOrder
      <4> QED BY <4>1, <4>2
    <3> QED BY <3>2, <3>3
  <2> QED BY <2>1, <2>2
<1>8. InOrder(v) BY <1>3, <1>7 DEF InOrder
<1>9. v[1] = w[1] BY <1>2, <1>3
<1> QED BY <1>3, <1>8, <1>9 DEF v

LEMMA InOrderOne ==
  ASSUME NEW h, Been(h)
  PROVE  InOrder(<<h>>) /\ <<h>> # <<>> /\ <<h>>[Len(<<h>>)] = h /\ <<h>>[1] = h
<1>1. h \in Hubs BY DEF Been
<1>2. Before(h, h) BY <1>1, BeforeReflexive
<1>3. <<h>> \in Seq(Hubs) /\ Len(<<h>>) = 1 /\ <<h>>[1] = h BY <1>1
<1>4. \A i \in 1..1 : \A j \in i..1 : i = 1 /\ j = 1 OBVIOUS
<1> QED BY <1>2, <1>3, <1>4 DEF InOrder

LEMMA InOrderNone == InOrder(<<>>)
<1>1. <<>> \in Seq(Hubs) /\ Len(<<>>) = 0 OBVIOUS
<1>2. 1..0 = {} OBVIOUS
<1> QED BY <1>1, <1>2 DEF InOrder

-----------------------------------------------------------------------------
(* A step of GitHub, and of the clock, preserves it.                       *)

LEMMA GitHubKeeps ==
  ASSUME IInv, GitHubStep
  PROVE  IInv'
<1>1. TypeOK /\ HubInv /\ hub \in Hubs /\ hub' \in Hubs BY DEF IInv, TypeOK, GitHubStep
<1>2. /\ hub.next \in Nat /\ hub.at \in Nat /\ hub'.next \in Nat /\ hub'.at \in Nat
      /\ hub.next <= hub'.next
  BY <1>1, PieceTypes DEF GitHubStep
<1>3. Before(hub, hub') /\ Consistent(hub') /\ Past(hub')
  <2>1. Going(hub, hub'.at, hub.next) BY DEF Going, IInv, HubInv, GitHubStep
  <2>2. HubStep(hub, hub', hub'.at, hub.next, hub'.next) BY DEF GitHubStep
  <2>3. PICK k \in Hubs : k = hub' BY <1>1
  <2> QED BY <1>1, <1>2, <2>1, <2>2, <2>3, StepGoesOn
<1>4. HubInv' BY <1>3 DEF HubInv, GitHubStep
<1>5. Been(hub') BY <1>1, <1>3 DEF Been
<1>6. /\ InOrder(window') /\ (window' # <<>> <=> window # <<>>)
      /\ window # <<>> => window'[1] = window[1] /\ window'[Len(window')] = hub'
  <2>1. CASE window = <<>> BY <2>1 DEF GitHubStep, IInv, GateState
  <2>2. CASE window # <<>>
    <3>1. window[Len(window)] = hub BY <1>1, <2>2 DEF TypeOK
    <3>2. window' = Append(window, hub') BY <2>2 DEF GitHubStep
    <3> QED BY <1>3, <1>5, <2>2, <3>1, <3>2, InOrderGrows DEF IInv, GateState
  <2> QED BY <2>1, <2>2
<1>7. TypeOK' BY <1>1, <1>6 DEF TypeOK, GitHubStep
<1>8. gate' = gate /\ pass' = pass BY DEF GitHubStep
<1>9. FirstPass'
  <2> SUFFICES ASSUME gate.first # None
               PROVE  /\ Been(gate.mid) /\ Before(gate.mid, hub')
                      /\ \E p : ReadAll(gate.first, p, gate.mid) /\ gate.from <= p.next
    BY <1>8 DEF FirstPass
  <2>1. /\ Been(gate.mid) /\ Before(gate.mid, hub)
        /\ \E p : ReadAll(gate.first, p, gate.mid) /\ gate.from <= p.next
    BY DEF IInv, GateState, FirstPass
  <2>2. gate.mid \in Hubs BY <2>1 DEF Been
  <2> QED BY <1>1, <1>3, <2>1, <2>2, BeforeTransitive
<1>10. Reading'
  <2>1. gate.pc \in {"rest", "context"} => window # <<>> BY <1>1 DEF TypeOK
  <2>2. ReadTwice => ReadTwice'
    <3> SUFFICES ASSUME ReadTwice PROVE ReadTwice' OBVIOUS
    <3>1. PICK p, q : /\ q \in Hubs /\ Before(gate.mid, p) /\ ReadAll(gate.first, p, q)
                      /\ Before(q, hub)
      BY DEF ReadTwice
    <3>2. Before(q, hub') BY <1>1, <1>3, <3>1, BeforeTransitive
    <3> QED BY <1>8, <3>1, <3>2 DEF ReadTwice
  <2>3. gate.pc = "rest" => gate.pr = window'[1].pr /\ Since(window[1])
    BY <1>6, <2>1 DEF IInv, GateState, Reading
  <2>4. gate.pc = "rest" => (Since(window[1]))'
    BY <1>6, <1>8, <2>1, <2>3 DEF Since
  <2>5. gate.pc = "context" => gate.part.pr.program /\ ChildRead(gate.part, window[1])
    BY DEF IInv, GateState, Reading
  <2>6. gate.pc = "context" => (ChildRead(gate.part, window[1]))'
    BY <1>6, <1>8, <2>1, <2>5 DEF ChildRead, Since
  <2>7. gate.from \in Nat /\ gate.from <= hub'.next
    BY <1>2 DEF IInv, GateState, Reading
  <2> QED BY <1>8, <2>2, <2>3, <2>4, <2>5, <2>6, <2>7 DEF IInv, GateState, Reading
<1>11. pass' = None
  BY <1>8 DEF IInv, PassIsLast, GitHubStep
<1>12. GateState' BY <1>6, <1>8, <1>9, <1>10 DEF IInv, GateState
<1> QED BY <1>4, <1>7, <1>11, <1>12
        DEF IInv, PassIsLast, PassHeldAtOneMoment, AcceptedRunIsFresh

LEMMA TickKeeps ==
  ASSUME IInv, Tick
  PROVE  IInv'
<1>1. /\ now' = now + 1 /\ now < MaxTime
      /\ UNCHANGED <<hub, queue, gate, window, pass>>
  BY DEF Tick
<1>2. TypeOK' BY <1>1, GateAssumption DEF IInv, TypeOK, Times
<1>3. HubInv'
  <2>1. now \in Nat /\ hub.at \in Nat BY NextIdIsNumber DEF IInv
  <2>2. hub.at <= now' BY <1>1, <2>1 DEF IInv, HubInv
  <2> QED BY <1>1, <2>2 DEF IInv, HubInv
<1>4. pass' = None BY <1>1 DEF IInv, PassIsLast, Tick
<1>5. GateState'
  BY <1>1 DEF IInv, GateState, FirstPass, Reading, ReadTwice, ChildRead, Since
<1> QED BY <1>2, <1>3, <1>4, <1>5
        DEF IInv, PassIsLast, PassHeldAtOneMoment, AcceptedRunIsFresh

-----------------------------------------------------------------------------
(* So does every step of the gate.                                         *)

\* A step of the gate, as far as the rest of the state is concerned.
GateStep(g, w) ==
  /\ gate' = g /\ window' = w
  /\ UNCHANGED <<now, hub, pass>>

\* It leaves four things to show.
LEMMA GateStepKeeps ==
  ASSUME IInv, NEW g, NEW w, GateStep(g, w), HasFields(g),
         g.pc \in {"idle", "resolve", "pr", "rest", "context", "final", "over"},
         IF g.pc \in {"rest", "context"} THEN w = <<hub>> ELSE w = <<>>,
         gate.pc # "over", FirstPass', Reading'
  PROVE  IInv'
<1>1. gate' = g /\ window' = w /\ hub' = hub /\ now' = now
      /\ pass' = pass
  BY DEF GateStep
<1>2. Been(hub) BY HubBeen DEF IInv
<1>3. InOrder(w) BY <1>2, InOrderOne, InOrderNone
<1>4. <<hub>> # <<>> /\ <<hub>>[Len(<<hub>>)] = hub BY <1>2, InOrderOne
<1>5. TypeOK'
  <2>1. w # <<>> <=> g.pc \in {"rest", "context"} BY <1>4
  <2>2. w # <<>> => w[Len(w)] = hub BY <1>4
  <2>3. now \in Times /\ hub \in Hubs /\ hub.next <= FirstId + MaxChanges
    BY DEF IInv, TypeOK
  <2> QED BY <1>1, <2>1, <2>2, <2>3 DEF TypeOK
<1>6. HubInv' BY <1>1 DEF IInv, HubInv
<1>7. pass' = None BY <1>1 DEF IInv, PassIsLast
<1>8. GateState' BY <1>1, <1>3 DEF GateState
<1> QED BY <1>5, <1>6, <1>7, <1>8
        DEF IInv, PassIsLast, PassHeldAtOneMoment, AcceptedRunIsFresh

LEMMA NoFirst ==
  ASSUME IInv, NEW g, NEW w, GateStep(g, w), HasFields(g), g.first = None,
         g.pc \in {"idle", "resolve", "pr", "over"}, w = <<>>,
         g.from \in Nat /\ g.from <= hub.next, gate.pc # "over"
  PROVE  IInv'
<1>1. FirstPass' /\ Reading' BY DEF GateStep, FirstPass, Reading
<1> QED BY <1>1, GateStepKeeps

LEMMA HoldKeeps ==
  ASSUME IInv, Hold, gate.pc # "over"
  PROVE  IInv'
<1>1. HasFields(Over) /\ Over.first = None /\ Over.pc = "over" /\ Over.from = 0
  BY DEF Over, NoGate, HasFields
<1>2. GateStep(Over, <<>>) BY DEF Hold, GateStep
<1>3. 0 \in Nat /\ 0 <= hub.next BY NextIdIsNumber DEF IInv, NextId
<1> QED BY <1>1, <1>2, <1>3, NoFirst

LEMMA StartKeeps ==
  ASSUME IInv, NEW e, Start(e)
  PROVE  IInv'
<1> PICK g : g = [NoGate EXCEPT !.pc = "resolve", !.event = e] OBVIOUS
<1>1. HasFields(g) /\ g.first = None /\ g.pc = "resolve" /\ g.from = 0
  <2>1. HasFields(g) BY DEF HasFields, NoGate
  <2>2. g.first = None BY DEF NoGate
  <2>3. g.pc = "resolve" /\ g.from = 0 BY DEF NoGate
  <2> QED BY <2>1, <2>2, <2>3
<1>2. window = <<>> BY DEF Start, IInv, TypeOK
<1>3. GateStep(g, <<>>) /\ gate.pc # "over" BY <1>2 DEF Start, GateStep
<1>4. 0 \in Nat /\ 0 <= hub.next BY NextIdIsNumber DEF IInv, NextId
<1> QED BY <1>1, <1>3, <1>4, NoFirst

LEMMA ResolvePrKeeps ==
  ASSUME IInv, ResolvePr
  PROVE  IInv'
<1> PICK g : g = [gate EXCEPT !.pc = "pr", !.observedAt = now, !.from = hub.next]
  OBVIOUS
<1>0. gate.first = None BY DEF ResolvePr, IInv, GateState, Reading
<1>1. HasFields(g) /\ g.first = None /\ g.pc = "pr" /\ g.from = hub.next
  <2>1. g = [pc |-> "pr", event |-> gate.event, observedAt |-> now,
             from |-> hub.next, pr |-> gate.pr, part |-> gate.part,
             first |-> gate.first, mid |-> gate.mid]
    BY DEF IInv, GateState, HasFields
  <2> QED BY <1>0, <2>1 DEF HasFields
<1>2. Go(g, <<>>) => GateStep(g, <<>>) BY DEF Go, GateStep
<1>3. Go(g, <<>>) \/ Hold BY DEF ResolvePr
<1>4. gate.pc # "over" BY DEF ResolvePr
<1>5. hub.next \in Nat /\ hub.next <= hub.next BY NextIdIsNumber DEF IInv, NextId
<1> QED BY <1>1, <1>2, <1>3, <1>4, <1>5, NoFirst, HoldKeeps

LEMMA ReadPrKeeps ==
  ASSUME IInv, ReadPr
  PROVE  IInv'
<1> PICK g : g = [gate EXCEPT !.pc = "rest", !.pr = hub.pr] OBVIOUS
<1> PICK w : w = <<hub>> OBVIOUS
<1>1. /\ HasFields(g) /\ g.first = gate.first /\ g.mid = gate.mid /\ g.from = gate.from
      /\ g.pc = "rest" /\ g.pr = hub.pr
  <2>1. g = [pc |-> "rest", event |-> gate.event, observedAt |-> gate.observedAt,
             from |-> gate.from, pr |-> hub.pr, part |-> gate.part,
             first |-> gate.first, mid |-> gate.mid]
    BY DEF IInv, GateState, HasFields
  <2> QED BY <2>1 DEF HasFields
<1>2. GateStep(g, w) BY DEF ReadPr, Go, GateStep
<1>3. w[1] = hub OBVIOUS
<1>4. w = <<hub>> OBVIOUS
<1>5. gate' = g /\ window' = w /\ hub' = hub BY <1>2 DEF GateStep
<1>6. FirstPass' BY <1>1, <1>5 DEF IInv, GateState, FirstPass
<1>7. /\ gate.first # None => Before(gate.mid, hub)
      /\ gate.from \in Nat /\ gate.from <= hub.next
  BY DEF IInv, GateState, FirstPass, Reading
<1>8. Reading' BY <1>1, <1>3, <1>5, <1>7 DEF Reading, Since
<1>9. gate.pc # "over" BY DEF ReadPr
<1> QED BY <1>1, <1>2, <1>4, <1>6, <1>8, <1>9, GateStepKeeps

LEMMA CompletedKeeps ==
  ASSUME IInv, NEW s, NEW p, ReadAll(s, p, hub), Since(p), Completed(s),
         gate.pc # "over"
  PROVE  IInv'
<1>0. gate.from \in Nat /\ gate.from <= hub.next BY DEF IInv, GateState, Reading
<1>1. Been(hub) /\ hub \in Hubs BY HubBeen DEF IInv, TypeOK
<1>2. CASE gate.first = None
  <2> PICK g : g = [gate EXCEPT !.pc = "pr", !.pr = None, !.part = None,
                                !.first = s, !.mid = hub]
    OBVIOUS
  <2>1. /\ HasFields(g) /\ g.first = s /\ g.mid = hub /\ g.pc = "pr"
        /\ g.from = gate.from
    <3>1. g = [pc |-> "pr", event |-> gate.event, observedAt |-> gate.observedAt,
               from |-> gate.from, pr |-> None, part |-> None, first |-> s, mid |-> hub]
      BY DEF IInv, GateState, HasFields
    <3> QED BY <3>1 DEF HasFields
  <2>2. GateStep(g, <<>>) BY <1>2 DEF Completed, Go, GateStep
  <2>3. gate' = g /\ hub' = hub BY <2>2 DEF GateStep
  <2>4. Before(hub, hub) BY <1>1, BeforeReflexive
  <2>5. ReadAll(s, p, hub) /\ gate.from <= p.next BY DEF Since
  <2>6. FirstPass' BY <1>1, <2>1, <2>3, <2>4, <2>5 DEF FirstPass
  <2>7. Reading' BY <1>0, <2>1, <2>3 DEF Reading
  <2> QED BY <2>1, <2>2, <2>6, <2>7, GateStepKeeps
<1>3. CASE gate.first # None /\ SnapshotsAgree(gate.first, s)
  <2> PICK g : g = [gate EXCEPT !.pc = "final", !.pr = None, !.part = None] OBVIOUS
  <2>1. /\ HasFields(g) /\ g.first = gate.first /\ g.mid = gate.mid /\ g.pc = "final"
        /\ g.from = gate.from
    <3>1. g = [pc |-> "final", event |-> gate.event, observedAt |-> gate.observedAt,
               from |-> gate.from, pr |-> None, part |-> None,
               first |-> gate.first, mid |-> gate.mid]
      BY DEF IInv, GateState, HasFields
    <3> QED BY <3>1 DEF HasFields
  <2>2. GateStep(g, <<>>) BY <1>3 DEF Completed, Go, GateStep
  <2>3. gate' = g /\ hub' = hub BY <2>2 DEF GateStep
  <2>4. FirstPass' BY <2>1, <2>3 DEF IInv, GateState, FirstPass
  <2>5. gate.first = s /\ Before(gate.mid, p) BY <1>3 DEF SnapshotsAgree, Since
  <2>6. ReadTwice'
    <3>1. Before(hub, hub) BY <1>1, BeforeReflexive
    <3> QED BY <1>1, <2>1, <2>3, <2>5, <3>1 DEF ReadTwice
  <2>7. Reading' BY <1>0, <1>3, <2>1, <2>3, <2>6 DEF Reading
  <2> QED BY <2>1, <2>2, <2>4, <2>7, GateStepKeeps
<1>4. CASE gate.first # None /\ ~SnapshotsAgree(gate.first, s)
  BY <1>4, HoldKeeps DEF Completed
<1> QED BY <1>2, <1>3, <1>4

LEMMA WindowWithin ==
  ASSUME IInv, window # <<>>, NEW i \in DOMAIN window
  PROVE  /\ Within(window[1], window[i], hub) /\ window[1] \in Hubs
         /\ Been(window[1]) /\ Before(window[1], hub)
<1>1. window \in Seq(Hubs) BY DEF IInv, GateState, InOrder
<1>2. Len(window) \in Nat /\ Len(window) # 0 /\ i \in 1..Len(window)
  BY <1>1, EmptySeq, LenProperties
<1>3. window[Len(window)] = hub BY DEF IInv, TypeOK
<1>4. 1 \in 1..Len(window) /\ i \in 1..Len(window) /\ Len(window) \in i..Len(window)
      /\ Len(window) \in 1..Len(window)
  BY <1>2
<1>5. /\ Been(window[i]) /\ Before(window[1], window[i]) /\ Before(window[i], hub)
      /\ Been(window[1]) /\ Before(window[1], hub)
  BY <1>3, <1>4 DEF IInv, GateState, InOrder
<1> QED BY <1>5 DEF Within, Been

LEMMA SeenAt ==
  /\ \A x \in Seen("issue") : \E i \in DOMAIN window : x = window[i].issue
  /\ \A x \in Seen("approvals") : \E i \in DOMAIN window : x = window[i].approvals
  /\ \A x \in Seen("issueTimeline") : \E i \in DOMAIN window : x = window[i].issueTimeline
  /\ \A x \in Seen("reviews") : \E i \in DOMAIN window : x = window[i].reviews
  /\ \A x \in Seen("timeline") : \E i \in DOMAIN window : x = window[i].timeline
  /\ \A x \in Seen("pr") : \E i \in DOMAIN window : x = window[i].pr
  /\ \A x \in Seen("related") : \E i \in DOMAIN window : x = window[i].related
  /\ \A x \in Seen("bindings") : \E i \in DOMAIN window : x = window[i].bindings
  /\ \A x \in Seen("main") : \E i \in DOMAIN window : x = window[i].main
BY DEF Seen


LEMMA ReadRestKeeps ==
  ASSUME IInv, ReadRest
  PROVE  IInv'
<1>1. gate.pc = "rest" /\ window # <<>> BY DEF ReadRest, IInv, TypeOK
<1>2. PICK issue \in Seen("issue"), approvals \in Seen("approvals"),
        issueTimeline \in Seen("issueTimeline"), reviews \in Seen("reviews"),
        timeline \in Seen("timeline"), pr \in Seen("pr"), related \in Seen("related"),
        ci \in CiSeen(gate.pr) :
       LET s == [event |-> gate.event, pr |-> gate.pr, issue |-> issue,
                 approvals |-> approvals, issueTimeline |-> issueTimeline,
                 reviews |-> reviews, timeline |-> timeline,
                 files |-> Listing(pr), related |-> related, ci |-> ci,
                 program |-> None]
       IN IF ~Readable(s) THEN Hold
          ELSE IF gate.pr.program
          THEN Go([gate EXCEPT !.pc = "context", !.part = s], <<hub>>)
          ELSE Completed(s)
  BY DEF ReadRest
<1>3. PICK s :
        s = [event |-> gate.event, pr |-> gate.pr, issue |-> issue,
             approvals |-> approvals, issueTimeline |-> issueTimeline,
             reviews |-> reviews, timeline |-> timeline,
             files |-> Listing(pr), related |-> related, ci |-> ci,
             program |-> None]
  OBVIOUS
<1>4. \/ ~Readable(s) /\ Hold
      \/ /\ Readable(s) /\ gate.pr.program
         /\ Go([gate EXCEPT !.pc = "context", !.part = s], <<hub>>)
      \/ Readable(s) /\ ~gate.pr.program /\ Completed(s)
  BY <1>2, <1>3
<1>5. \A i \in DOMAIN window : Within(window[1], window[i], hub)
  BY <1>1, WindowWithin
<1>6. Been(window[1]) /\ Before(window[1], hub) /\ Since(window[1])
  <2>1. 1 \in DOMAIN window
    BY <1>1, EmptySeq, LenProperties DEF IInv, GateState, InOrder
  <2> QED BY <1>1, <2>1, WindowWithin DEF IInv, GateState, Reading
<1>7. gate.pr = window[1].pr BY <1>1 DEF IInv, GateState, Reading
<1>8. ASSUME Readable(s) PROVE Read(s, window[1], hub)
  <2>1. HasParts(s) /\ s.pr = window[1].pr BY <1>3, <1>7 DEF HasParts
  <2>2. \E h : Within(window[1], h, hub) /\ s.issue = h.issue BY <1>3, <1>5, SeenAt
  <2>3. \E h : Within(window[1], h, hub) /\ s.approvals = h.approvals
    BY <1>3, <1>5, SeenAt
  <2>4. \E h : Within(window[1], h, hub) /\ s.issueTimeline = h.issueTimeline
    BY <1>3, <1>5, SeenAt
  <2>5. \E h : Within(window[1], h, hub) /\ s.reviews = h.reviews BY <1>3, <1>5, SeenAt
  <2>6. \E h : Within(window[1], h, hub) /\ s.timeline = h.timeline
    BY <1>3, <1>5, SeenAt
  <2>7. \E h : Within(window[1], h, hub) /\ s.related = h.related BY <1>3, <1>5, SeenAt
  <2>8. \E h : Within(window[1], h, hub) /\ s.files = Listing(h.pr)
    <3>1. PICK i \in DOMAIN window : pr = window[i].pr BY SeenAt
    <3>2. s.files = Listing(window[i].pr) BY <1>3, <3>1
    <3> QED BY <1>5, <3>2
  <2>9. CiWithin(s, window[1], hub)
    <3>1. PICK i \in DOMAIN window : \E j \in i..Len(window) :
            ci = LatestCi(gate.pr, window[i].runs, window[j].runs)
      BY DEF CiSeen
    <3>2. PICK j \in i..Len(window) :
            ci = LatestCi(gate.pr, window[i].runs, window[j].runs)
      BY <3>1
    <3>3. window[j] \in Hubs
      <4>1. window \in Seq(Hubs) BY DEF IInv, GateState, InOrder
      <4>2. i \in 1..Len(window) /\ Len(window) \in Nat BY <4>1, LenProperties
      <4>3. j \in 1..Len(window) BY <4>2
      <4> QED BY <4>1, <4>3, ElementOfSeq
    <3>4. CiReadAt(s.ci, s.pr, window[i]) BY <1>3, <3>2, <3>3 DEF CiReadAt
    <3> QED BY <1>5, <3>4 DEF CiWithin
  <2> QED BY <1>6, <1>8, <2>1, <2>2, <2>3, <2>4, <2>5, <2>6, <2>7, <2>8, <2>9
        DEF Read
<1>9. CASE ~Readable(s) /\ Hold BY <1>1, <1>9, HoldKeeps
<1>10. CASE Readable(s) /\ ~gate.pr.program /\ Completed(s)
  <2>1. ReadProgram(s, window[1], hub) BY <1>3, <1>10 DEF ReadProgram
  <2>2. ReadAll(s, window[1], hub) BY <1>6, <1>8, <1>10, <2>1 DEF ReadAll
  <2> QED BY <1>1, <1>6, <1>10, <2>2, CompletedKeeps
<1>11. CASE /\ Readable(s) /\ gate.pr.program
            /\ Go([gate EXCEPT !.pc = "context", !.part = s], <<hub>>)
  <2> PICK g : g = [gate EXCEPT !.pc = "context", !.part = s] OBVIOUS
  <2> PICK w : w = <<hub>> OBVIOUS
  <2>1. /\ HasFields(g) /\ g.first = gate.first /\ g.mid = gate.mid
        /\ g.pc = "context" /\ g.part = s /\ g.from = gate.from
    <3>1. g = [pc |-> "context", event |-> gate.event, observedAt |-> gate.observedAt,
               from |-> gate.from, pr |-> gate.pr, part |-> s,
               first |-> gate.first, mid |-> gate.mid]
      BY DEF IInv, GateState, HasFields
    <3> QED BY <3>1 DEF HasFields
  <2>2. GateStep(g, w) BY <1>11 DEF Go, GateStep
  <2>3. gate' = g /\ window' = w /\ hub' = hub /\ w[1] = hub BY <2>2 DEF GateStep
  <2>4. FirstPass' BY <2>1, <2>3 DEF IInv, GateState, FirstPass
  <2>5. s.pr.program BY <1>3, <1>11
  <2>6. (ChildRead(gate.part, window[1]))'
    BY <1>6, <1>8, <1>11, <2>1, <2>3 DEF ChildRead, Since
  <2>7. gate.from \in Nat /\ gate.from <= hub.next BY DEF IInv, GateState, Reading
  <2>8. Reading' BY <2>1, <2>3, <2>5, <2>6, <2>7 DEF Reading
  <2>9. w = <<hub>> /\ gate.pc # "over" BY <1>1
  <2> QED BY <2>1, <2>2, <2>4, <2>8, <2>9, GateStepKeeps
<1> QED BY <1>4, <1>9, <1>10, <1>11

LEMMA ReadContextKeeps ==
  ASSUME IInv, ReadContext
  PROVE  IInv'
<1>1. gate.pc = "context" /\ window # <<>> BY DEF ReadContext, IInv, TypeOK
<1>2. PICK bindings \in Seen("bindings"), main \in Seen("main") :
        Completed([gate.part EXCEPT !.program =
          [bindings |-> bindings, main |-> main, now |-> gate.observedAt]])
  BY DEF ReadContext
<1> PICK t : t = gate.part OBVIOUS
<1>3. PICK s : s = [t EXCEPT !.program =
                     [bindings |-> bindings, main |-> main, now |-> gate.observedAt]]
  OBVIOUS
<1>4. Completed(s) BY <1>2, <1>3
<1>5. PICK p : Before(p, window[1]) /\ Read(t, p, window[1]) /\ Since(p)
  BY <1>1 DEF IInv, GateState, Reading, ChildRead
<1>6. \A i \in DOMAIN window : Within(window[1], window[i], hub)
  BY <1>1, WindowWithin
<1>7. window[1] \in Hubs /\ Before(window[1], hub) /\ p \in Hubs /\ hub \in Hubs
  <2>1. 1 \in DOMAIN window
    BY <1>1, EmptySeq, LenProperties DEF IInv, GateState, InOrder
  <2> QED BY <1>1, <1>5, <2>1, WindowWithin DEF Read, Been, IInv, TypeOK
<1>8. Before(p, hub) BY <1>5, <1>7, BeforeTransitive
<1>9. \A i \in DOMAIN window : Within(p, window[i], hub)
  BY <1>5, <1>6, <1>7, BeforeTransitive DEF Within, Been
<1>10. Read(t, p, hub) BY <1>5, <1>7, ReadLater
<1>11. /\ s = [event |-> t.event, pr |-> t.pr, issue |-> t.issue,
               approvals |-> t.approvals, issueTimeline |-> t.issueTimeline,
               reviews |-> t.reviews, timeline |-> t.timeline, files |-> t.files,
               related |-> t.related, ci |-> t.ci,
               program |-> [bindings |-> bindings, main |-> main,
                            now |-> gate.observedAt]]
  BY <1>3, <1>10 DEF Read, HasParts
<1>12. /\ HasParts(s) /\ s.pr = t.pr /\ s.issue = t.issue /\ s.approvals = t.approvals
       /\ s.issueTimeline = t.issueTimeline /\ s.reviews = t.reviews
       /\ s.timeline = t.timeline /\ s.files = t.files /\ s.related = t.related
       /\ s.ci = t.ci
       /\ s.program = [bindings |-> bindings, main |-> main, now |-> gate.observedAt]
  BY <1>11 DEF HasParts
<1>13. Read(s, p, hub) BY <1>10, <1>12 DEF Read, Readable, CiWithin
<1>14. ReadProgram(s, p, hub)
  <2>1. s.pr.program BY <1>1, <1>12 DEF IInv, GateState, Reading
  <2>2. s.program.bindings = bindings /\ s.program.main = main
        /\ s.program = [bindings |-> s.program.bindings, main |-> s.program.main,
                        now |-> s.program.now]
    BY <1>12
  <2>3. \E h : Within(p, h, hub) /\ s.program.bindings = h.bindings
    BY <1>9, <2>2, SeenAt
  <2>4. \E h : Within(p, h, hub) /\ s.program.main = h.main BY <1>9, <2>2, SeenAt
  <2> QED BY <2>1, <2>2, <2>3, <2>4 DEF ReadProgram
<1>15. ReadAll(s, p, hub) BY <1>8, <1>13, <1>14 DEF ReadAll
<1> QED BY <1>1, <1>4, <1>5, <1>15, CompletedKeeps

LEMMA ReadFinalPrKeeps ==
  ASSUME IInv, ReadFinalPr
  PROVE  IInv'
<1>0. gate.pc = "final" BY DEF ReadFinalPr
<1>1. CASE Hold BY <1>0, <1>1, HoldKeeps
<1>2. CASE ~Hold
  <2>1. /\ hub.pr = gate.first.pr /\ Decision(gate.first) # "HOLD"
        /\ pass' = [decision |-> Decision(gate.first), snapshot |-> gate.first,
                    mid |-> gate.mid, from |-> gate.from]
        /\ gate' = Over /\ UNCHANGED <<now, hub, queue, window>>
    BY <1>2 DEF ReadFinalPr
  <2> PICK s : s = gate.first OBVIOUS
  <2> PICK m : m = gate.mid OBVIOUS
  <2> PICK from : from = gate.from OBVIOUS
  <2>2. gate.first # None /\ ReadTwice /\ from \in Nat
    BY <1>0 DEF IInv, GateState, Reading
  <2>3. Been(m) /\ \E p : ReadAll(s, p, m) /\ from <= p.next
    BY <2>2 DEF IInv, GateState, FirstPass
  <2>4. PICK p : ReadAll(s, p, m) /\ from <= p.next BY <2>3
  <2>5. PICK r, q : /\ q \in Hubs /\ Before(m, r) /\ ReadAll(s, r, q)
                    /\ Before(q, hub)
    BY <2>2 DEF ReadTwice
  <2>6. hub \in Hubs /\ hub.pr = s.pr /\ Decision(s) # "HOLD" BY <2>1 DEF IInv, TypeOK
  <2>7. Passes(s, p, m, r, q, hub, from) BY <2>2, <2>3, <2>4, <2>5, <2>6 DEF Passes
  <2> PICK at : at = IF s.pr.program THEN s.program.now ELSE 0 OBVIOUS
  <2>8. PICK A, R, C, B : /\ CameAndWentOf(m, hub, from, A, R, C, B)
                          /\ s = Whole(Without(m, A, R, C, B), s.event, at)
    BY <2>7, PassesMeet
  <2>9. pass'.snapshot = s /\ pass'.mid = m /\ pass'.from = from BY <2>1
  <2>10. TrueOf(s, m, hub, from)
    BY <2>8 DEF TrueOf, CameAndWentOf
  <2>11. /\ \A a \in Linked(s) : s.ci.id > a.id
         /\ \A ev \in m.timeline : ev.event # "ready_for_review" => s.ci.id > ev.id
         /\ \A x \in m.runs : x.head = m.pr.head =>
              x.id <= s.ci.id \/ x \in Fleeting(m.runs, hub.runs, from)
         /\ \E x \in m.runs : /\ x.id = s.ci.id /\ x.head = m.pr.head
                              /\ x.base = m.pr.base
                              /\ x.latest.conclusion = "success"
    BY <2>3, <2>6, <2>8, RunIsFreshWithout
  <2>12. PassHeldAtOneMoment' BY <2>1, <2>9, <2>10 DEF PassHeldAtOneMoment
  <2>13. AcceptedRunIsFresh' BY <2>1, <2>9, <2>11 DEF AcceptedRunIsFresh
  <2>14. /\ window = <<>> /\ Over.first = None /\ Over.pc = "over" /\ Over.from = 0
         /\ HasFields(Over)
    BY <1>0 DEF IInv, TypeOK, Over, NoGate, HasFields
  <2>15. TypeOK' /\ HubInv' BY <2>1, <2>14 DEF IInv, TypeOK, HubInv
  <2>16. 0 \in Nat /\ 0 <= hub.next BY NextIdIsNumber DEF IInv, NextId
  <2>17. GateState' /\ PassIsLast'
    BY <2>1, <2>14, <2>16, InOrderNone DEF GateState, FirstPass, Reading, PassIsLast
  <2> QED BY <2>12, <2>13, <2>15, <2>17 DEF IInv
<1> QED BY <1>1, <1>2

-----------------------------------------------------------------------------
(* The theorems.                                                           *)

LEMMA BindingParts ==
  ASSUME NEW n \in 1..3, NEW i \in 1..3, NEW base \in Nat, NEW merge \in Nat,
         NEW parent \in Nat
  PROVE  /\ Binding(n, i, base, merge, parent) \in
              [ordinal : Nat, id : 1..3, base : Nat, merge : Nat, parent : Nat,
               open : BOOLEAN, ci : Attempt]
         /\ Binding(n, i, base, merge, parent).id = i
<1>1. Begun(1) \in Attempt /\ Ended(1, "success") \in Attempt
  BY DEF Begun, Ended, Attempt
<1> QED BY <1>1 DEF Binding

FirstKind == [ordinal : Nat, id : 1..3, base : Nat, merge : Nat, parent : Nat,
              open : BOOLEAN, ci : Attempt]

LEMMA HistoryParts ==
  ASSUME NEW n, NEW history \in Histories(n)
  PROVE  /\ history \subseteq FirstKind
         /\ IdsTell(history)
<1>1. CASE history = {} BY <1>1 DEF IdsTell
<1>2. ASSUME NEW x, NEW y, history = {x, y}, x \in FirstKind, y \in FirstKind,
             x.id = 1, y.id = 2
      PROVE  /\ history \subseteq FirstKind
             /\ IdsTell(history)
  BY <1>2 DEF IdsTell
<1>3. ASSUME NEW x, NEW y, NEW z, history = {x, y, z}, x \in FirstKind,
             y \in FirstKind, z \in FirstKind,
             x.id = 1, y.id = 2, z.id = 3
      PROVE  /\ history \subseteq FirstKind
             /\ IdsTell(history)
  BY <1>3 DEF IdsTell
<1>4. CASE history = {Binding(1, 1, 0, 1, 0), Binding(2, 2, 1, 0, 0)}
  <2>1. /\ Binding(1, 1, 0, 1, 0) \in FirstKind /\ Binding(1, 1, 0, 1, 0).id = 1
        /\ Binding(2, 2, 1, 0, 0) \in FirstKind /\ Binding(2, 2, 1, 0, 0).id = 2
    BY BindingParts DEF FirstKind
  <2>2. PICK x \in FirstKind : x = Binding(1, 1, 0, 1, 0) /\ x.id = 1 BY <2>1
  <2>3. PICK y \in FirstKind : y = Binding(2, 2, 1, 0, 0) /\ y.id = 2 BY <2>1
  <2>4. history = {x, y} BY <1>4, <2>2, <2>3
  <2> QED BY <1>2, <2>2, <2>3, <2>4
<1>5. ASSUME NEW p \in {0, 1},
             history = {Binding(1, 1, 0, 1, 0), Binding(2, 2, 1, 2, p),
                        Binding(3, 3, 2, 0, 0)}
      PROVE  /\ history \subseteq FirstKind
             /\ IdsTell(history)
  <2>1. Binding(1, 1, 0, 1, 0) \in FirstKind /\ Binding(1, 1, 0, 1, 0).id = 1
    BY BindingParts DEF FirstKind
  <2>2. Binding(2, 2, 1, 2, p) \in FirstKind /\ Binding(2, 2, 1, 2, p).id = 2
    <3>1. CASE p = 0 BY <3>1, BindingParts DEF FirstKind
    <3>2. CASE p = 1 BY <3>2, BindingParts DEF FirstKind
    <3> QED BY <3>1, <3>2
  <2>3. Binding(3, 3, 2, 0, 0) \in FirstKind /\ Binding(3, 3, 2, 0, 0).id = 3
    BY BindingParts DEF FirstKind
  <2> QED BY <1>3, <1>5, <2>1, <2>2, <2>3
<1> QED BY <1>1, <1>4, <1>5 DEF Histories

OpenedAs(b, n, a, draft, m, readers) ==
  LET k == Contracts[b].ordinal
  IN /\ Diffs[n] = Contracts[b].paths
     /\ m = IF k = 0 THEN 0 ELSE k - 1
     /\ \A i, j \in 1..m : readers[i] = readers[j] => i = j
     /\ k = 0 => draft
     /\ k # 0 => a[1] = 0
     /\ \E history \in Histories(k) : hub = Opened(b, n, a, draft, readers, history)

LEMMA StartsWell == Init => IInv
<1> SUFFICES ASSUME Init PROVE IInv OBVIOUS
<1>1. /\ now = 1 /\ window = <<>> /\ gate = NoGate /\ pass = None
  BY DEF Init
<1>2. PICK b \in Bodies, n \in Heads, a \in {<<0, 0>>, <<2, 1>>}, draft \in BOOLEAN,
        m \in 0..2 :
        \E readers \in [1..m -> Sessions] : OpenedAs(b, n, a, draft, m, readers)
  BY DEF Init, OpenedAs
<1>3. PICK readers \in [1..m -> Sessions] : OpenedAs(b, n, a, draft, m, readers)
  BY <1>2
<1>3a. PICK history \in Histories(Contracts[b].ordinal) :
         hub = Opened(b, n, a, draft, readers, history)
  BY <1>3 DEF OpenedAs
<1> PICK First : First = {[id |-> i + 1, head |-> n, session |-> readers[i],
                           edited |-> FALSE] : i \in 1..m}
  OBVIOUS
<1> PICK h : h = hub OBVIOUS
<1> PICK c : c = Contracts[b] OBVIOUS
<1>4. c.base \in Nat BY GateAssumption DEF Bodies
<1>5. /\ a[1] \in Nat /\ a[2] \in Nat /\ a[1] < 4 /\ a[2] <= 1
      /\ 1 <= a[1] => 1 <= a[2]
  OBVIOUS
<1>6. /\ h.issue = [body |-> b, open |-> TRUE, updatedAt |-> 0]
      /\ h.approvals \subseteq {[id |-> a[1], body |-> b, createdAt |-> a[2],
                                 updatedAt |-> a[2]]}
      /\ h.edits = {} /\ h.issueTimeline = {}
      /\ h.pr = [program |-> ~(c.ordinal = 0), head |-> n, base |-> c.base,
                 open |-> TRUE, draft |-> draft, updatedAt |-> 1,
                 link |-> [approval |-> a[1], body |-> b]]
      /\ h.bodyAt = 1
      /\ h.timeline \subseteq {[event |-> "ready_for_review", at |-> 1, id |-> 2]}
      /\ h.reviews = First
      /\ h.runs = {[id |-> 1, head |-> n, base |-> c.base, createdAt |-> 1,
                    latest |-> Begun(1)]}
      /\ h.due = <<>> /\ h.related = 1 /\ h.main = c.base /\ h.bindings = history
      /\ h.at = 1 /\ h.next = 4
  BY <1>3a DEF Opened, FirstId
<1>7. h.pr.program => h.approvals = {} BY <1>3a DEF Opened, FirstId
<1>8. /\ history \subseteq FirstKind
      /\ IdsTell(history)
  BY HistoryParts
<1>8a. \A x \in First : \E i \in 1..m :
         /\ x = [id |-> i + 1, head |-> n, session |-> readers[i], edited |-> FALSE]
         /\ x.id = i + 1 /\ i \in {1, 2}
  <2> SUFFICES ASSUME NEW i \in 1..m PROVE i \in {1, 2} OBVIOUS
  <2> QED OBVIOUS
<1>8b. IdsTell(First)
  <2> SUFFICES ASSUME NEW x \in First, NEW y \in First, x.id = y.id PROVE x = y
    BY DEF IdsTell
  <2>1. PICK i \in 1..m :
          /\ x = [id |-> i + 1, head |-> n, session |-> readers[i], edited |-> FALSE]
          /\ x.id = i + 1 /\ i \in {1, 2}
    BY <1>8a
  <2>2. PICK j \in 1..m :
          /\ y = [id |-> j + 1, head |-> n, session |-> readers[j], edited |-> FALSE]
          /\ y.id = j + 1 /\ j \in {1, 2}
    BY <1>8a
  <2>3. i = j BY <2>1, <2>2
  <2> QED BY <2>1, <2>2, <2>3
<1>8c. \A x \in First : x.id \in Nat /\ x.id < 4 BY <1>8a
<1>9. h \in Hubs
  <2>1. h.issue \in [body : Bodies, open : BOOLEAN, updatedAt : Nat] BY <1>6
  <2>2. h.approvals \subseteq [id : Nat, body : Bodies, createdAt : Nat, updatedAt : Nat]
    BY <1>5, <1>6
  <2>3. h.pr \in [program : BOOLEAN, head : Heads, base : Nat, open : BOOLEAN,
                  draft : BOOLEAN, updatedAt : Nat,
                  link : [approval : Nat, body : Bodies]]
    BY <1>4, <1>5, <1>6
  <2>4. h.timeline \subseteq [event : Invalidating, at : Nat, id : Nat]
    BY <1>6 DEF Invalidating
  <2>5. h.reviews \subseteq [id : Nat, head : Heads, session : Sessions,
                             edited : BOOLEAN]
    <3> SUFFICES ASSUME NEW x \in First
                 PROVE  x \in [id : Nat, head : Heads, session : Sessions,
                               edited : BOOLEAN]
      BY <1>6
    <3>1. PICK i \in 1..m :
            /\ x = [id |-> i + 1, head |-> n, session |-> readers[i], edited |-> FALSE]
            /\ x.id = i + 1 /\ i \in {1, 2}
      BY <1>8a
    <3>2. readers[i] \in Sessions /\ i + 1 \in Nat BY <3>1
    <3> QED BY <3>1, <3>2
  <2>6. h.runs \subseteq [id : Nat, head : Heads, base : Nat, createdAt : Nat,
                          latest : Attempt]
    BY <1>4, <1>6 DEF Begun, Attempt
  <2>7. h.bindings \subseteq [ordinal : Nat, id : Nat, base : Nat, merge : Nat,
                              parent : Nat, open : BOOLEAN, ci : Attempt]
    BY <1>6, <1>8 DEF FirstKind
  <2>8. /\ h.edits \subseteq Nat \X Nat
        /\ h.issueTimeline \subseteq [event : Invalidating, at : Nat, id : Nat]
        /\ h.bodyAt \in Nat /\ h.due \in Seq([head : Heads, base : Nat])
        /\ h.related \in Nat /\ h.main \in Nat /\ h.at \in Nat /\ h.next \in Nat
    BY <1>4, <1>6
  <2>9. h = [issue |-> h.issue, approvals |-> h.approvals, edits |-> h.edits,
             issueTimeline |-> h.issueTimeline, pr |-> h.pr, bodyAt |-> h.bodyAt,
             timeline |-> h.timeline, reviews |-> h.reviews, runs |-> h.runs,
             due |-> h.due, related |-> h.related, main |-> h.main,
             bindings |-> h.bindings, at |-> h.at, next |-> h.next]
    BY <1>3a DEF Opened, FirstId
  <2> QED BY <2>1, <2>2, <2>3, <2>4, <2>5, <2>6, <2>7, <2>8, <2>9 DEF Hubs
<1>10. Consistent(h)
  <2>1. h.bodyAt <= h.pr.updatedAt /\ IdsTell(h.approvals) /\ IdsTell(h.runs)
    BY <1>6 DEF IdsTell
  <2>2. IdsTell(h.reviews) /\ IdsTell(h.bindings) BY <1>6, <1>8, <1>8b
  <2>3. \A r \in h.runs, x \in h.approvals : r.id <= x.id => r.createdAt <= x.createdAt
    BY <1>5, <1>6
  <2>4. \A r \in h.runs, ev \in h.timeline : r.id <= ev.id => r.createdAt <= ev.at
    BY <1>6
  <2> QED BY <1>7, <2>1, <2>2, <2>3, <2>4 DEF Consistent
<1>11. Past(h)
  <2>1. h.issue.updatedAt <= 1 /\ h.pr.updatedAt <= 1 BY <1>6
  <2>2. \A x \in h.approvals : x.id < 4 /\ x.updatedAt <= 1 BY <1>5, <1>6
  <2>3. \A ev \in h.timeline : ev.id < 4 /\ ev.at <= 1 BY <1>6
  <2>4. \A r \in h.runs : r.id < 4 /\ r.createdAt <= 1 BY <1>6
  <2>5. \A r \in h.reviews : r.id < 4 BY <1>6, <1>8c
  <2>6. \A x \in h.bindings : x.id < 4 BY <1>6, <1>8 DEF FirstKind
  <2> QED BY <1>6, <2>1, <2>2, <2>3, <2>4, <2>5, <2>6 DEF Past
<1>12. HubInv BY <1>1, <1>6, <1>10, <1>11 DEF HubInv
<1>13. gate.pc = "idle" /\ gate.first = None /\ gate.from = 0 /\ HasFields(gate)
  BY <1>1 DEF NoGate, HasFields
<1>14. GateState
  BY <1>1, <1>6, <1>13, InOrderNone DEF GateState, FirstPass, Reading
<1>15. now \in Times /\ hub.next <= FirstId + MaxChanges
  BY <1>1, <1>6, GateAssumption DEF Times, FirstId
<1>16. TypeOK BY <1>1, <1>9, <1>13, <1>15 DEF TypeOK
<1> QED BY <1>1, <1>12, <1>14, <1>16
        DEF IInv, PassIsLast, PassHeldAtOneMoment, AcceptedRunIsFresh

LEMMA StepKeeps == IInv /\ [Next]_vars => IInv'
<1> SUFFICES ASSUME IInv, [Next]_vars PROVE IInv' OBVIOUS
<1>1. CASE Gate
  <2>1. CASE \E e \in queue : Start(e) BY <2>1, StartKeeps
  <2>2. CASE RequestFails
    <3>1. gate.pc # "over" /\ Hold BY <2>2 DEF RequestFails
    <3> QED BY <3>1, HoldKeeps
  <2> QED BY <1>1, <2>1, <2>2, ResolvePrKeeps, ReadPrKeeps, ReadRestKeeps,
             ReadContextKeeps, ReadFinalPrKeeps DEF Gate
<1>2. CASE PullRequest \/ Issue \/ Ci \/ Program
  <2>1. GitHubStep BY <1>2, ActionsAreSteps DEF IInv
  <2> QED BY <2>1, GitHubKeeps
<1>3. CASE Tick BY <1>3, TickKeeps
<1>4. CASE UNCHANGED vars
  <2>1. /\ now' = now /\ hub' = hub /\ gate' = gate
        /\ window' = window /\ pass' = pass
    BY <1>4 DEF vars
  <2>2. TypeOK' BY <2>1 DEF IInv, TypeOK
  <2>3. HubInv' BY <2>1 DEF IInv, HubInv
  <2>4. GateState'
    BY <2>1 DEF IInv, GateState, FirstPass, Reading, Since, ChildRead, ReadTwice
  <2>5. PassHeldAtOneMoment' BY <2>1 DEF IInv, PassHeldAtOneMoment
  <2>6. PassIsLast' /\ AcceptedRunIsFresh'
    BY <2>1 DEF IInv, PassIsLast, AcceptedRunIsFresh
  <2> QED BY <2>2, <2>3, <2>4, <2>5, <2>6 DEF IInv
<1> QED BY <1>1, <1>2, <1>3, <1>4 DEF Next

LEMMA Invariant == Spec => []IInv
<1> QED BY StartsWell, StepKeeps, PTL DEF Spec

(***************************************************************************)
(* What GitHub knows always fits together, and every snapshot the gate     *)
(* passed, although its pieces were answered by GitHub at different        *)
(* moments of two passes, is the state GitHub was in at one moment, the    *)
(* one at which the first pass ended: but for comments, runs and issues    *)
(* that were written after the gate began and deleted before it ended.     *)
(***************************************************************************)
THEOREM GateIsConsistent == Spec => []GateInv
<1>1. IInv => GateInv BY DEF IInv, GateInv
<1> QED BY <1>1, Invariant, PTL

(***************************************************************************)
(* The CI run a PASS rests on really began after the approval and after    *)
(* every event that put the pull request in doubt, and succeeded: whole    *)
(* seconds do not let an older one through.  It is the last run of the     *)
(* head, but for runs that began after the gate did and were deleted       *)
(* before it ended.                                                        *)
(***************************************************************************)
THEOREM AcceptedRunsAreFresh == Spec => []AcceptedRunIsFresh
<1>1. IInv => AcceptedRunIsFresh BY DEF IInv
<1> QED BY <1>1, Invariant, PTL

=============================================================================
