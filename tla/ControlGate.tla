---------------------------- MODULE ControlGate ----------------------------
(* The control gate of the repository: a job that reads one pull request,   *)
(* its issue, its comments, its timeline and its CI run from GitHub, twice, *)
(* while their owner and CI go on changing them, and then says whether the  *)
(* pull request may be accepted (an ordinary task), made ready or merged    *)
(* (a child of the delivery program).                                       *)
(*                                                                          *)
(* hub is what GitHub would answer at this moment, with the id it gives     *)
(* next and the second (at) in which it gave the last.  Requests sent       *)
(* together are answered in any order, so each of them sees hub as it was   *)
(* at some moment of window, the states hub went through since they were    *)
(* sent.  Timestamps are whole seconds, as GitHub's are; ids grow in the    *)
(* order things really happened.                                            *)
EXTENDS Naturals, FiniteSets, Sequences

CONSTANTS Contracts,     \* what the text of an issue asks for: body -> record
          Diffs,         \* the paths a head changes: head -> set of paths
          Trees,         \* the paths there are at a head: head -> set of paths
          Bases,         \* the paths there are at a base: base -> set of paths
          Protected,     \* the paths only a change of the control plane touches
          Lifecycle,     \* package and lock files
          Frozen,        \* the paths of a child of the program, by its ordinal
          Sessions,      \* independent reviewers
          MaxTime,       \* bound: the last second
          MaxChanges,    \* bound: changes on GitHub
          None

\* Heads are numbered so that a push forward goes to a greater one; a base is
\* a commit of main, numbered as main moves.
ASSUME GateAssumption ==
  /\ DOMAIN Diffs \subseteq Nat
  /\ \A b \in DOMAIN Contracts : Contracts[b].base \in Nat
  /\ MaxTime \in Nat \ {0} /\ MaxChanges \in Nat

VARIABLES now, hub, queue, gate, window, pass

vars == <<now, hub, queue, gate, window, pass>>

\* The ids below this one were given when the pull request was opened.
FirstId == 4

Bodies == DOMAIN Contracts
Heads == DOMAIN Diffs
Times == 0..MaxTime
Attempt == [attempt : Nat, status : {"in_progress", "completed"},
            conclusion : {"none", "success", "failure", "cancelled"}]
Begun(n) == [attempt |-> n, status |-> "in_progress", conclusion |-> "none"]
Ended(n, c) == [attempt |-> n, status |-> "completed", conclusion |-> c]

----------------------------------------------------------------------------
(* What the gate makes of a snapshot s.                                     *)

\* Events after which an earlier CI run says nothing, and those that no run
\* makes good again: of an ordinary pull request, and of a child.
Invalidating == {"head_ref_force_pushed", "base_ref_changed", "closed", "reopened",
                 "ready_for_review", "convert_to_draft"}
Permanent == {"ready_for_review", "convert_to_draft"}
ProgramPermanent == Invalidating \ {"ready_for_review"}

ValidContract(c) ==
  /\ c.paths # {}
  /\ c.class = "CONTROL_PLANE_CHANGE" => c.paths \subseteq Protected

ValidBinding(c) ==
  /\ c.ordinal \in {2, 3}
  /\ c.class = IF c.ordinal = 2 THEN "CONTROL_PLANE_CHANGE" ELSE "P2_IMPLEMENTATION"
  /\ c.paths = Frozen[c.ordinal]
  /\ IF c.ordinal = 2 THEN c.paths \subseteq Protected ELSE c.paths \cap Protected = {}
  /\ c.activatedAt < c.expiresAt

ValidPr(s, c) == s.pr.open /\ s.pr.draft /\ s.pr.base = c.base /\ s.related = 1

\* The text of the pull request repeats the digest of the text of the issue;
\* a child's is bound to it, and to no approval.
ValidLink(s) == s.pr.link.body = s.issue.body
ValidProgramLink(s) == s.pr.program /\ ValidLink(s)

Unedited(a) == a.updatedAt = a.createdAt
Binds(a, s) == Unedited(a) /\ a.body = s.issue.body

Linked(s) == {a \in s.approvals : a.id = s.pr.link.approval}

\* The linked comment, and no other, approves the present text of the issue.
CurrentApproval(s) ==
  /\ Cardinality(Linked(s)) = 1
  /\ {a \in s.approvals : Binds(a, s)} = Linked(s)

ChangedAsAllowed(s, c) ==
  LET paths == {f.path : f \in s.files}
  IN /\ paths # {} /\ paths = c.paths
     /\ c.class # "CONTROL_PLANE_CHANGE" => paths \cap Protected = {}
     /\ c.class # "P2_AUTH_IMPLEMENTATION" => paths \cap Lifecycle = {}

\* A CI run that ended starts the gate, when it is the run the snapshot has;
\* or a comment of the owner.
Triggered(s) ==
  \/ /\ s.event.type = "workflow_run"
     /\ s.event.head = s.pr.head /\ s.event.base = s.pr.base
     /\ s.ci # None
     /\ s.event.run = s.ci.id /\ s.event.attempt = s.ci.latest.attempt
  \/ s.event.type = "issue_comment"

\* Mutant: a run of the approval's second may be older than the approval.
NotBeforeApproval(ci, at) == ci.createdAt >= at

\* The run is of this head, began after it was asked for, and has ended; its
\* job and its check suite say the same.
AfterApproval(ci, at) == ci.createdAt > at

ValidCi(ci, pr, at) ==
  /\ ci # None
  /\ ci.head = pr.head /\ ci.base = pr.base
  /\ AfterApproval(ci, at)
  /\ ci.latest.status = "completed"
  /\ ci.latest.conclusion \in {"success", "failure"}
  /\ ci.job = ci.latest

ValidTimeline(s) ==
  \A ev \in s.timeline : ev.event \notin Permanent /\ ev.at < s.ci.createdAt

ProgramTimeline(s) ==
  LET ready == {ev \in s.timeline : ev.event = "ready_for_review"}
  IN /\ \A ev \in s.timeline \cup s.issueTimeline : ev.event \notin ProgramPermanent
     /\ Cardinality(ready) = IF s.pr.draft THEN 0 ELSE 1

\* As many reviewers of the present head as the ordinal asks for, no less
\* and no more, none of whom looked twice.
Reviewed(s, c) ==
  LET current == {r \in s.reviews : r.head = s.pr.head}
  IN /\ \A r \in s.reviews : ~r.edited
     /\ Cardinality(current) = c.ordinal - 1
     /\ \A r1, r2 \in current : r1.session = r2.session => r1 = r2

----------------------------------------------------------------------------
(* The history of the program: its issues, each with the ordinal it binds   *)
(* and, once merged, the commit it became.                                  *)

OfOrdinal(bs, n) == {b \in bs : b.ordinal = n}

MergedOnBase(b) == b.merge # 0 /\ b.parent = b.base

ActivationCi(b) == b.ci.status = "completed" /\ b.ci.conclusion = "success"

Consumed(b) == MergedOnBase(b) /\ ~b.open /\ ActivationCi(b)

\* The ordinals 1, 2, ... up to this child's, each bound once and each but
\* the last consumed; this child builds on the merge before it.
ValidHistory(bs, c) ==
  /\ \A n \in 1..c.ordinal : Cardinality(OfOrdinal(bs, n)) = 1
  /\ \A b \in bs : b.ordinal <= c.ordinal
  /\ \A b \in bs : b.ordinal \in 2..(c.ordinal - 1) => Consumed(b)
  /\ \A b \in OfOrdinal(bs, c.ordinal - 1) : b.merge = c.base

\* The one resource of the program is registered by child 2, consumed by
\* child 3, which names the merge that registered it.
SingleUse(bs, c) ==
  LET prior == {b \in bs : MergedOnBase(b)}
  IN CASE c.ordinal = 2 -> OfOrdinal(prior, 2) = {} /\ OfOrdinal(prior, 3) = {}
       [] c.ordinal = 3 -> /\ Cardinality(OfOrdinal(prior, 2)) = 1
                           /\ OfOrdinal(prior, 3) = {}
                           /\ \A b \in OfOrdinal(prior, 2) : b.merge = c.registration
       [] OTHER -> FALSE

\* The program was activated by the merge of its root, and its main CI.
Activated(p, c) ==
  /\ \A b \in OfOrdinal(p.bindings, 1) : MergedOnBase(b) /\ ActivationCi(b)
  /\ c.activatedAt <= p.now /\ p.now < c.expiresAt

----------------------------------------------------------------------------
(* The decision.  Every check that fails is a HOLD.                         *)

Accepted(s) ==
  LET c == Contracts[s.issue.body]
  IN /\ s.issue.open
     /\ ValidContract(c)
     /\ ValidPr(s, c)
     /\ ValidLink(s)
     /\ CurrentApproval(s)
     /\ ChangedAsAllowed(s, c)
     /\ Triggered(s)
     /\ \A a \in Linked(s) : ValidCi(s.ci, s.pr, a.createdAt)
     /\ ValidTimeline(s)
     /\ s.ci.latest.conclusion = "success"

SafeChild(s) ==
  LET c == Contracts[s.issue.body]
  IN /\ s.issue.open
     /\ ValidBinding(c)
     /\ s.pr.open /\ s.pr.base = c.base /\ s.related = 1
     /\ ValidProgramLink(s)
     /\ Activated(s.program, c)
     /\ s.program.main = c.base
     /\ ValidHistory(s.program.bindings, c)
     /\ ChangedAsAllowed(s, c)
     /\ Triggered(s)
     /\ ValidCi(s.ci, s.pr, c.activatedAt)
     /\ s.ci.latest.conclusion = "success"
     /\ ProgramTimeline(s)
     /\ Reviewed(s, c)
     /\ SingleUse(s.program.bindings, c)
     /\ s.pr.draft <=> s.event.type = "workflow_run"

Decision(s) ==
  IF s.pr.program
  THEN IF SafeChild(s)
       THEN IF s.pr.draft THEN "PROGRAM_CHILD_SAFE_TO_READY"
                          ELSE "PROGRAM_CHILD_SAFE_TO_SQUASH_MERGE"
       ELSE "HOLD"
  ELSE IF ~Accepted(s) THEN "HOLD"
  ELSE CASE Contracts[s.issue.body].class = "P2_AUTH_IMPLEMENTATION" ->
              "P2_AUTH_DRAFT_ONLY_CI_ACCEPTED_OBSERVER_ONLY"
         [] Contracts[s.issue.body].class = "P2_IMPLEMENTATION" ->
              "P2_DRAFT_ONLY_CI_ACCEPTED_OBSERVER_ONLY"
         [] OTHER -> "CI_ACCEPTED_OBSERVER_ONLY"

----------------------------------------------------------------------------
(* What one pass reads.                                                     *)

Eligible(pr, runs) == {r \in runs : r.head = pr.head}

LastRun(pr, runs) ==
  CHOOSE q \in Eligible(pr, runs) : \A o \in Eligible(pr, runs) : o.id <= q.id

\* The latest run of the head as the list of runs has it, and its job as it
\* is when that is asked for, later.  Every run must be named for this base.
LatestCi(pr, runs, later) ==
  IF Eligible(pr, runs) = {} THEN None
  ELSE LET r == LastRun(pr, runs)
       IN [id |-> r.id, head |-> r.head, base |-> r.base, createdAt |-> r.createdAt,
           latest |-> r.latest,
           job |-> (CHOOSE q \in later : q.id = r.id).latest,
           named |-> \A o \in Eligible(pr, runs) : o.base = pr.base]

\* A run deleted in between has no job any more: that request fails.
JobThere(pr, runs, later) ==
  Eligible(pr, runs) # {} => \E q \in later : q.id = LastRun(pr, runs).id

Seen(field) == {window[i][field] : i \in DOMAIN window}
CiSeen(pr) ==
  UNION {{LatestCi(pr, window[i].runs, window[j].runs) :
            j \in {k \in i..Len(window) : JobThere(pr, window[i].runs, window[k].runs)}} :
         i \in DOMAIN window}

\* What is changed between the base and the head of pr.  Renames are left out.
Listing(pr) ==
  {[path |-> x, status |-> IF x \notin Bases[pr.base] THEN "added"
                           ELSE IF x \in Trees[pr.head] THEN "modified" ELSE "removed"] :
     x \in Diffs[pr.head]}

\* The list of files has as many as the pull request says, each of them where
\* the trees of the base and of the head that were read have it.
Readable(s) ==
  /\ Cardinality(s.files) = Cardinality(Diffs[s.pr.head])
  /\ \A f \in s.files : /\ f.status # "added" <=> f.path \in Bases[s.pr.base]
                        /\ f.status # "removed" <=> f.path \in Trees[s.pr.head]
  /\ s.ci # None => s.ci.named

\* Mutant: only the pull request and its run are compared.
LooksStable(first, closing) == first.pr = closing.pr /\ first.ci = closing.ci

\* The second pass found everything as the first.
SnapshotsAgree(first, closing) == first = closing

NoGate == [pc |-> "idle", event |-> None, observedAt |-> 0, from |-> 0, pr |-> None,
           part |-> None, first |-> None, mid |-> None]
Over == [NoGate EXCEPT !.pc = "over"]

Hold ==
  /\ gate' = Over /\ window' = <<>>
  /\ UNCHANGED <<now, hub, queue, pass>>

Go(g, w) ==
  /\ gate' = g /\ window' = w
  /\ UNCHANGED <<now, hub, queue, pass>>

\* A pass has everything: the first is kept, the second compared with it.
Completed(s) ==
  IF gate.first = None
  THEN Go([gate EXCEPT !.pc = "pr", !.pr = None, !.part = None,
                       !.first = s, !.mid = hub], <<>>)
  ELSE IF SnapshotsAgree(gate.first, s)
  THEN Go([gate EXCEPT !.pc = "final", !.pr = None, !.part = None], <<>>)
  ELSE Hold

----------------------------------------------------------------------------
(* The gate.                                                                *)

Start(e) ==
  /\ gate.pc = "idle" /\ e \in queue
  /\ queue' = queue \ {e}
  /\ gate' = [NoGate EXCEPT !.pc = "resolve", !.event = e]
  /\ UNCHANGED <<now, hub, window, pass>>

ResolvePr ==
  /\ gate.pc = "resolve"
  /\ LET e == gate.event
     IN IF e.type = "workflow_run" =>
             /\ hub.pr.open /\ hub.related = 1
             /\ hub.pr.head = e.head /\ hub.pr.base = e.base
        THEN Go([gate EXCEPT !.pc = "pr", !.observedAt = now, !.from = hub.next], <<>>)
        ELSE Hold

ReadPr ==
  /\ gate.pc = "pr"
  /\ Go([gate EXCEPT !.pc = "rest", !.pr = hub.pr], <<hub>>)

\* The issue, its comments and timeline, the comments, timeline and files of
\* the pull request and its CI, asked for together.
ReadRest ==
  /\ gate.pc = "rest"
  /\ \E issue \in Seen("issue"), approvals \in Seen("approvals"),
        issueTimeline \in Seen("issueTimeline"), reviews \in Seen("reviews"),
        timeline \in Seen("timeline"), pr \in Seen("pr"), related \in Seen("related"),
        ci \in CiSeen(gate.pr) :
       LET s == [event |-> gate.event, pr |-> gate.pr, issue |-> issue,
                 approvals |-> approvals, issueTimeline |-> issueTimeline,
                 reviews |-> reviews, timeline |-> timeline,
                 files |-> Listing(pr), related |-> related, ci |-> ci,
                 program |-> None]
       IN IF ~Readable(s) THEN Hold
          ELSE IF gate.pr.program
          THEN Go([gate EXCEPT !.pc = "context", !.part = s], <<hub>>)
          ELSE Completed(s)

\* Of a child also the tip of main and the other issues of the program.
ReadContext ==
  /\ gate.pc = "context"
  /\ \E bindings \in Seen("bindings"), main \in Seen("main") :
       Completed([gate.part EXCEPT !.program =
         [bindings |-> bindings, main |-> main, now |-> gate.observedAt]])

ReadFinalPr ==
  /\ gate.pc = "final"
  /\ IF hub.pr = gate.first.pr /\ Decision(gate.first) # "HOLD"
     THEN /\ pass' = [decision |-> Decision(gate.first), snapshot |-> gate.first,
                      mid |-> gate.mid, from |-> gate.from]
          /\ gate' = Over
          /\ UNCHANGED <<now, hub, queue, window>>
     ELSE Hold

\* A request GitHub does not answer.
RequestFails == gate.pc \notin {"idle", "over"} /\ Hold

----------------------------------------------------------------------------
(* GitHub: its owner, CI and the clock.                                     *)

NextId == hub.next

Change(h) ==
  /\ gate.pc # "over"
  /\ hub' = h
  /\ window' = IF window = <<>> THEN window ELSE Append(window, h)
  /\ UNCHANGED <<now, gate, pass>>

Counted(h) ==
  /\ hub.next < FirstId + MaxChanges
  /\ Change([h EXCEPT !.at = now, !.next = hub.next + 1])

\* Nothing tells that something was deleted.
Delete(kind, x) ==
  /\ Counted([hub EXCEPT ![kind] = @ \ {x}])
  /\ UNCHANGED queue

Event(name) == [event |-> name, at |-> now, id |-> NextId]

Tick ==
  /\ gate.pc # "over" /\ now < MaxTime
  /\ now' = now + 1
  /\ UNCHANGED <<hub, queue, gate, window, pass>>

\* A head that is no descendant of the present one is pushed by force.  CI
\* will see the new head later.
Push(n) ==
  /\ hub.pr.open /\ n # hub.pr.head
  /\ Counted([hub EXCEPT !.pr.head = n, !.pr.updatedAt = now,
               !.due = Append(@, [head |-> n, base |-> hub.pr.base]),
               !.timeline = IF n > hub.pr.head THEN @
                            ELSE @ \cup {Event("head_ref_force_pushed")}])
  /\ UNCHANGED queue

ChangeBase(b) ==
  /\ hub.pr.open /\ b # hub.pr.base
  /\ Counted([hub EXCEPT !.pr.base = b, !.pr.updatedAt = now,
               !.timeline = @ \cup {Event("base_ref_changed")}])
  /\ UNCHANGED queue

ClosePr ==
  /\ hub.pr.open
  /\ Counted([hub EXCEPT !.pr.open = FALSE, !.pr.updatedAt = now,
               !.timeline = @ \cup {Event("closed")}])
  /\ UNCHANGED queue

ReopenPr ==
  /\ ~hub.pr.open
  /\ Counted([hub EXCEPT !.pr.open = TRUE, !.pr.updatedAt = now,
               !.due = Append(@, [head |-> hub.pr.head, base |-> hub.pr.base]),
               !.timeline = @ \cup {Event("reopened")}])
  /\ UNCHANGED queue

ToggleDraft ==
  /\ hub.pr.open
  /\ Counted([hub EXCEPT !.pr.draft = ~@, !.pr.updatedAt = now,
               !.timeline = @ \cup {Event(IF hub.pr.draft THEN "ready_for_review"
                                          ELSE "convert_to_draft")}])
  /\ UNCHANGED queue

\* The issue is not edited, closed or reopened twice in one second.
EditIssue(b) ==
  /\ hub.issue.updatedAt < now
  /\ b # hub.issue.body /\ Contracts[b].ordinal = Contracts[hub.issue.body].ordinal
  /\ Counted([hub EXCEPT !.issue.body = b, !.issue.updatedAt = now])
  /\ UNCHANGED queue

ToggleIssue ==
  /\ hub.issue.updatedAt < now
  /\ Counted([hub EXCEPT !.issue.open = ~@, !.issue.updatedAt = now,
               !.issueTimeline = @ \cup {Event(IF hub.issue.open THEN "closed"
                                               ELSE "reopened")}])
  /\ UNCHANGED queue

Approve ==
  /\ ~hub.pr.program
  /\ Counted([hub EXCEPT !.approvals = @ \cup
               {[id |-> NextId, body |-> hub.issue.body, createdAt |-> now,
                 updatedAt |-> now]}])
  /\ UNCHANGED queue

\* edits remembers when each comment was edited: updatedAt does not tell an
\* edit in the second the comment was written.
EditApproval(a, b) ==
  /\ <<a.id, now>> \notin hub.edits
  /\ a.body # b
  /\ Counted([hub EXCEPT !.approvals =
               (@ \ {a}) \cup {[a EXCEPT !.body = b, !.updatedAt = now]},
               !.edits = @ \cup {<<a.id, now>>}])
  /\ UNCHANGED queue

EditLink(id) ==
  /\ hub.bodyAt < now
  /\ hub.pr.link # [approval |-> id, body |-> hub.issue.body]
  /\ Counted([hub EXCEPT !.pr.link = [approval |-> id, body |-> hub.issue.body],
               !.pr.updatedAt = now, !.bodyAt = now])
  /\ UNCHANGED queue

Review(session) ==
  /\ hub.pr.program
  /\ Counted([hub EXCEPT !.reviews = @ \cup
               {[id |-> NextId, head |-> hub.pr.head, session |-> session,
                 edited |-> FALSE]},
               !.pr.updatedAt = now])
  /\ UNCHANGED queue

EditReview(r) ==
  /\ ~r.edited
  /\ Counted([hub EXCEPT !.reviews = (@ \ {r}) \cup {[r EXCEPT !.edited = TRUE]}])
  /\ UNCHANGED queue

\* Another pull request is opened for the same branch.
OpenTwin ==
  /\ Counted([hub EXCEPT !.related = @ + 1])
  /\ UNCHANGED queue

Reconcile ==
  /\ Counted([hub EXCEPT !.pr.updatedAt = now])
  /\ queue' = queue \cup {[type |-> "issue_comment", id |-> NextId]}

\* What the end of a run sends to the gate.
CiEvent(r) == [type |-> "workflow_run", run |-> r.id, head |-> r.head, base |-> r.base,
               attempt |-> r.latest.attempt]

\* The run of a head begins some time after the push; a run of the branch
\* that has not ended is cancelled.
CiBegins ==
  /\ hub.due # <<>>
  /\ LET Cancelled(r) == IF r.latest.status = "completed" THEN r
                         ELSE [r EXCEPT !.latest = Ended(r.latest.attempt, "cancelled")]
         run == [id |-> NextId, head |-> Head(hub.due).head, base |-> Head(hub.due).base,
                 createdAt |-> now, latest |-> Begun(1)]
     IN Counted([hub EXCEPT !.due = Tail(@),
                  !.runs = {Cancelled(r) : r \in @} \cup {run}])
  /\ queue' = queue \cup {CiEvent(r) : r \in {q \in hub.runs :
                                              q.latest.status = "in_progress"}}

CiEnds(r, conclusion) ==
  /\ r.latest.status = "in_progress"
  /\ Change([hub EXCEPT !.runs = (@ \ {r}) \cup
              {[r EXCEPT !.latest = Ended(r.latest.attempt, conclusion)]}])
  /\ queue' = queue \cup {CiEvent(r)}

CiRerun(r) ==
  /\ r.latest.status = "completed"
  /\ Counted([hub EXCEPT !.runs = (@ \ {r}) \cup
               {[r EXCEPT !.latest = Begun(r.latest.attempt + 1)]}])
  /\ UNCHANGED queue

DeleteRun(r) == r.latest.status = "completed" /\ Delete("runs", r)

\* The rest of the program: main moves on, an issue replays an ordinal, the
\* issue of a merged child is reopened, the CI of a merge is run again.
MainMoves ==
  /\ hub.pr.program
  /\ Counted([hub EXCEPT !.main = @ + 1])
  /\ UNCHANGED queue

Replay(b) ==
  /\ b.ordinal > 1
  /\ Counted([hub EXCEPT !.bindings = @ \cup
               {[b EXCEPT !.id = NextId, !.merge = 0, !.parent = 0, !.open = TRUE]}])
  /\ UNCHANGED queue

ReopenChild(b) ==
  /\ b.ordinal > 1 /\ ~b.open
  /\ Counted([hub EXCEPT !.bindings = (@ \ {b}) \cup {[b EXCEPT !.open = TRUE]}])
  /\ UNCHANGED queue

\* Without the issue itself, or the root of the program, a request would fail.
DeleteIssue(b) ==
  /\ b.id \notin {1, Contracts[hub.issue.body].ordinal}
  /\ Delete("bindings", b)

RerunMainCi(b) ==
  /\ b.merge # 0 /\ b.ci.status = "completed"
  /\ Counted([hub EXCEPT !.bindings =
               (@ \ {b}) \cup {[b EXCEPT !.ci = Begun(b.ci.attempt + 1)]}])
  /\ UNCHANGED queue

MainCiEnds(b, conclusion) ==
  /\ b.merge # 0 /\ b.ci.status = "in_progress"
  /\ Change([hub EXCEPT !.bindings =
              (@ \ {b}) \cup {[b EXCEPT !.ci = Ended(b.ci.attempt, conclusion)]}])
  /\ UNCHANGED queue

----------------------------------------------------------------------------
(* The pull request was just opened: its CI runs, its text names the        *)
(* approval of the issue, which may be a little younger than the run.  A    *)
(* child has the reviews it needs, and one that is ready was once a draft.  *)

Binding(n, id, base, merge, parent) ==
  [ordinal |-> n, id |-> id, base |-> base, merge |-> merge, parent |-> parent,
   open |-> merge = 0, ci |-> IF merge = 0 THEN Begun(1) ELSE Ended(1, "success")]

Histories(n) ==
  IF n = 0 THEN {{}}
  ELSE IF n = 2 THEN {{Binding(1, 1, 0, 1, 0), Binding(2, 2, 1, 0, 0)}}
  ELSE {{Binding(1, 1, 0, 1, 0), Binding(2, 2, 1, 2, p), Binding(3, 3, 2, 0, 0)} :
          p \in {0, 1}}

\* a is the id and the time of the approval; readers, who reviewed.
Opened(b, n, a, draft, readers, history) ==
  LET c == Contracts[b]
      ordinary == c.ordinal = 0
  IN [issue |-> [body |-> b, open |-> TRUE, updatedAt |-> 0],
      approvals |-> IF ordinary THEN {[id |-> a[1], body |-> b, createdAt |-> a[2],
                                       updatedAt |-> a[2]]}
                    ELSE {},
      edits |-> {},
      issueTimeline |-> {},
      pr |-> [program |-> ~ordinary, head |-> n, base |-> c.base, open |-> TRUE,
              draft |-> draft, updatedAt |-> 1, link |-> [approval |-> a[1], body |-> b]],
      bodyAt |-> 1,
      timeline |-> IF draft THEN {} ELSE {[event |-> "ready_for_review", at |-> 1, id |-> 2]},
      reviews |-> {[id |-> i + 1, head |-> n, session |-> readers[i], edited |-> FALSE] :
                     i \in DOMAIN readers},
      runs |-> {[id |-> 1, head |-> n, base |-> c.base, createdAt |-> 1,
                 latest |-> Begun(1)]},
      due |-> <<>>,
      related |-> 1,
      main |-> c.base,
      bindings |-> history,
      at |-> 1, next |-> FirstId]

Init ==
  /\ now = 1 /\ queue = {} /\ window = <<>>
  /\ gate = NoGate /\ pass = None
  /\ \E b \in Bodies, n \in Heads, a \in {<<0, 0>>, <<2, 1>>}, draft \in BOOLEAN,
        m \in 0..2 :
     \E readers \in [1..m -> Sessions] :
       LET k == Contracts[b].ordinal
       IN /\ Diffs[n] = Contracts[b].paths
          /\ m = IF k = 0 THEN 0 ELSE k - 1
          /\ \A i, j \in 1..m : readers[i] = readers[j] => i = j
          /\ k = 0 => draft
          /\ k # 0 => a[1] = 0
          /\ \E history \in Histories(k) : hub = Opened(b, n, a, draft, readers, history)

Gate ==
  \/ \E e \in queue : Start(e)
  \/ ResolvePr \/ ReadPr \/ ReadRest \/ ReadContext \/ ReadFinalPr \/ RequestFails

PullRequest ==
  \/ \E n \in Heads : Push(n)
  \/ \E b \in {Contracts[x].base : x \in Bodies} : ChangeBase(b)
  \/ ClosePr \/ ReopenPr \/ ToggleDraft \/ Reconcile \/ OpenTwin
  \/ \E a \in hub.approvals : EditLink(a.id)
  \/ \E session \in Sessions : Review(session)
  \/ \E r \in hub.reviews : EditReview(r) \/ Delete("reviews", r)

Issue ==
  \/ \E b \in Bodies : EditIssue(b)
  \/ ToggleIssue \/ Approve
  \/ \E a \in hub.approvals :
       Delete("approvals", a) \/ \E b \in Bodies : EditApproval(a, b)

Ci ==
  \/ CiBegins
  \/ \E r \in hub.runs :
       CiRerun(r) \/ DeleteRun(r) \/ \E c \in {"success", "failure"} : CiEnds(r, c)

Program ==
  \/ MainMoves
  \/ \E b \in hub.bindings :
       \/ Replay(b) \/ ReopenChild(b) \/ RerunMainCi(b) \/ DeleteIssue(b)
       \/ \E c \in {"success", "failure"} : MainCiEnds(b, c)

Next == Gate \/ PullRequest \/ Issue \/ Ci \/ Program \/ Tick

Spec == Init /\ [][Next]_vars

----------------------------------------------------------------------------
(* Properties.                                                              *)

Hubs ==
  [issue : [body : Bodies, open : BOOLEAN, updatedAt : Nat],
   approvals : SUBSET [id : Nat, body : Bodies, createdAt : Nat, updatedAt : Nat],
   edits : SUBSET (Nat \X Nat),
   issueTimeline : SUBSET [event : Invalidating, at : Nat, id : Nat],
   pr : [program : BOOLEAN, head : Heads, base : Nat, open : BOOLEAN, draft : BOOLEAN,
         updatedAt : Nat, link : [approval : Nat, body : Bodies]],
   bodyAt : Nat,
   timeline : SUBSET [event : Invalidating, at : Nat, id : Nat],
   reviews : SUBSET [id : Nat, head : Heads, session : Sessions, edited : BOOLEAN],
   runs : SUBSET [id : Nat, head : Heads, base : Nat, createdAt : Nat, latest : Attempt],
   due : Seq([head : Heads, base : Nat]),
   related : Nat,
   main : Nat,
   bindings : SUBSET [ordinal : Nat, id : Nat, base : Nat, merge : Nat, parent : Nat,
                      open : BOOLEAN, ci : Attempt],
   at : Nat, next : Nat]

TypeOK ==
  /\ now \in Times
  /\ hub \in Hubs /\ hub.next <= FirstId + MaxChanges
  /\ gate.pc \in {"idle", "resolve", "pr", "rest", "context", "final", "over"}
  /\ window # <<>> <=> gate.pc \in {"rest", "context"}
  /\ window # <<>> => window[Len(window)] = hub

IdsTell(S) == \A x, y \in S : x.id = y.id => x = y

\* What GitHub knows of h fits together: an id names one comment, one run, one
\* issue, and of a run and what happened after it, the run is not the younger.
Consistent(h) ==
  /\ h.bodyAt <= h.pr.updatedAt
  /\ IdsTell(h.approvals) /\ IdsTell(h.reviews)
  /\ IdsTell(h.runs) /\ IdsTell(h.bindings)
  /\ h.pr.program => h.approvals = {}
  /\ \A r \in h.runs, a \in h.approvals : r.id <= a.id => r.createdAt <= a.createdAt
  /\ \A r \in h.runs, ev \in h.timeline : r.id <= ev.id => r.createdAt <= ev.at

\* Everything in h happened by the second h.at, before the id h.next was given.
Past(h) ==
  /\ h.issue.updatedAt <= h.at /\ h.pr.updatedAt <= h.at
  /\ \A a \in h.approvals : a.id < h.next /\ a.updatedAt <= h.at
  /\ \A ev \in h.timeline : ev.id < h.next /\ ev.at <= h.at
  /\ \A r \in h.runs : r.id < h.next /\ r.createdAt <= h.at
  /\ \A r \in h.reviews : r.id < h.next
  /\ \A b \in h.bindings : b.id < h.next

HubInv == Consistent(hub) /\ Past(hub) /\ hub.at <= now

\* The snapshot of h, had everything been read at one moment.
Whole(h, event, observedAt) ==
  [event |-> event, pr |-> h.pr, issue |-> h.issue, approvals |-> h.approvals,
   issueTimeline |-> h.issueTimeline, reviews |-> h.reviews, timeline |-> h.timeline,
   files |-> Listing(h.pr), related |-> h.related,
   ci |-> LatestCi(h.pr, h.runs, h.runs),
   program |-> IF h.pr.program
               THEN [bindings |-> h.bindings, main |-> h.main, now |-> observedAt]
               ELSE None]

\* What of S was not there when the gate began, and is not now.
Fleeting(S, present, from) ==
  {x \in S : x.id >= from /\ \A y \in present : y.id # x.id}

Without(h, approvals, reviews, runs, bindings) ==
  [h EXCEPT !.approvals = @ \ approvals, !.reviews = @ \ reviews,
            !.runs = @ \ runs, !.bindings = @ \ bindings]

\* s is what was at the moment h, but for what came and went till GitHub was in e.
TrueOf(s, h, e, from) ==
  \E approvals \in SUBSET Fleeting(h.approvals, e.approvals, from),
     reviews \in SUBSET Fleeting(h.reviews, e.reviews, from),
     runs \in SUBSET Fleeting(h.runs, e.runs, from),
     bindings \in SUBSET Fleeting(h.bindings, e.bindings, from) :
    s = Whole(Without(h, approvals, reviews, runs, bindings), s.event,
              IF s.pr.program THEN s.program.now ELSE 0)

\* A PASS was true of GitHub at one moment, the one between the two passes,
\* although every piece of it was read at another: but for comments, runs and
\* issues that came and went while the gate read.
PassHeldAtOneMoment ==
  pass # None => TrueOf(pass.snapshot, pass.mid, hub, pass.from)

\* What GitHub knows keeps its type and fits together, and what passed was true.
GateInv == TypeOK /\ HubInv /\ PassHeldAtOneMoment

\* In the order in which things really happened, the run a PASS rests on came
\* after the approval and after everything that put the pull request in doubt,
\* and it was the last run of the head, but for runs that came and went.
AcceptedRunIsFresh ==
  pass # None =>
    LET s == pass.snapshot
        h == pass.mid
    IN /\ \A a \in Linked(s) : s.ci.id > a.id
       /\ \A ev \in h.timeline : ev.event # "ready_for_review" => s.ci.id > ev.id
       /\ \A r \in h.runs : r.head = h.pr.head =>
            r.id <= s.ci.id \/ r \in Fleeting(h.runs, hub.runs, pass.from)
       /\ \E r \in h.runs : /\ r.id = s.ci.id /\ r.head = h.pr.head /\ r.base = h.pr.base
                            /\ r.latest.conclusion = "success"
=============================================================================
