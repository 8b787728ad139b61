-------------------------- MODULE WorkspaceIntake --------------------------
(***************************************************************************)
(* What comes into a workspace: people sign in with a token sent by mail,  *)
(* create product projects, register source pictures and upload the assets *)
(* of the older projects.  One person, one workspace and one older project *)
(* are modelled; any number of sign-ins and of requests run at a time, and *)
(* an administrator may disable the actor, the membership or the workspace *)
(* whenever no transaction holds the row FOR SHARE.                        *)
(*                                                                         *)
(* Every await that reaches PostgreSQL or the object store is an action; a *)
(* request is named by its identifier, and so is the row or object it      *)
(* makes.                                                                  *)
(***************************************************************************)
EXTENDS Naturals, FiniteSets

CONSTANTS
  Tokens,      \* verification tokens
  SignIns,     \* requests that follow the link of a mail
  Requests,    \* requests to the API
  Keys,        \* Idempotency-Key headers
  Names,       \* display names: what the request fingerprint tells apart
  AssetLimit,  \* ASSET_LIMITS, by kind
  MaxFaults,   \* bound: infrastructure faults in one behaviour
  None

Kinds      == DOMAIN AssetLimit
Record     == [name : Names, project : Requests]
Operations == {"project", "source", "upload"}

ASSUME IntakeAssumption ==
  /\ IsFiniteSet(Requests)
  /\ AssetLimit \in [Kinds -> Nat \ {0}]
  /\ MaxFaults \in Nat
  /\ None \notin Tokens \cup Requests \cup Keys \cup Names \cup Kinds
                \cup Record \cup Operations

VARIABLES
  active,    \* the statuses of actor, membership and workspace: ACTIVE or not
  token,     \* table P2AuthVerificationToken
  session,   \* table P2AuthSession: the session a sign-in opened
  signIn,    \* the local state of every sign-in
  request,   \* the local state of every request
  record,    \* table P2IdempotencyRecord: the committed record of a key
  projects,  \* table ProductProject: the requests that made the rows
  sources,   \* table SourceSnapshot
  assets,    \* table Asset
  objects,   \* the bucket
  inDoubt,   \* requests whose COMMIT was answered by an error (history)
  faults

rows == <<record, projects, sources, assets>>
auth == <<active, token, session, signIn>>
vars == <<active, token, session, signIn, request, record, projects, sources,
          assets, objects, inDoubt, faults>>

-----------------------------------------------------------------------------
Identity == {"actor", "membership", "workspace"}

SignInSteps == {"idle", "authorizing", "opening", "done", "refused"}

\* The awaits of a request, in the order of the code.
Resolving == {"session", "actor", "memberships"}
InScope   == {"finding", "inserting", "committingProject",
              "checking", "putting", "committingSource"}
Steps == {"idle"} \cup Resolving \cup {"lockingActor", "lockingMembership"}
         \cup InScope
         \cup {"counting", "uploading", "lockingProject", "committingAsset",
               "compensating", "answered", "dead"}

Request == [step      : Steps,
            op        : Operations \cup {None},
            key       : Keys \cup {None},
            name      : Names \cup {None},
            kind      : Kinds \cup {None},
            replaying : BOOLEAN,               \* in readConcurrentReplay()
            answer    : Requests \cup {None}]  \* the project a 201 names

IdleRequest == [step |-> "idle", op |-> None, key |-> None, name |-> None,
                kind |-> None, replaying |-> FALSE, answer |-> None]

Init ==
  /\ active = [x \in Identity |-> TRUE]
  /\ token = [t \in Tokens |-> "unissued"]
  /\ session = [s \in SignIns |-> "none"]
  /\ signIn = [s \in SignIns |-> [step |-> "idle", token |-> None]]
  /\ request = [r \in Requests |-> IdleRequest]
  /\ record = [k \in Keys |-> None]
  /\ projects = {} /\ sources = {} /\ assets = {} /\ objects = {}
  /\ inDoubt = {}
  /\ faults = 0

Fault   == faults < MaxFaults /\ faults' = faults + 1
NoFault == faults' = faults

Step(r, step)  == request' = [request EXCEPT ![r].step = step]
Answer(r, p)   == request' = [request EXCEPT ![r].step = "answered",
                                             ![r].answer = p]
Refuse(r)      == Answer(r, None)
At(r, step)    == request[r].step = step

-----------------------------------------------------------------------------
(* createP2AuthAdapter(): tokens and sessions.                             *)

\* createVerificationToken(), after the signIn callback found the actor.
CreateVerificationToken(t) ==
  /\ token[t] = "unissued" /\ active["actor"]
  /\ token' = [token EXCEPT ![t] = "valid"]
  /\ UNCHANGED <<active, session, signIn, request, rows, objects, inDoubt, faults>>

\* Mutant of Spent: a token is looked up and left to expire.
LookedUp(t) == [token EXCEPT ![t] = IF @ = "expired" THEN "gone" ELSE @]

\* The row a DELETE ... RETURNING takes away.
Spent(t) == [token EXCEPT ![t] = "gone"]

\* useVerificationToken(): an expired token is deleted and refused.
UseVerificationToken(s, t) ==
  LET end(step) == signIn' = [signIn EXCEPT ![s] = [step |-> step, token |-> t]]
  IN /\ signIn[s].step = "idle" /\ token[t] # "unissued"
     /\ token' = IF token[t] = "gone" THEN token ELSE Spent(t)
     /\ \/ token[t] = "valid" /\ end("authorizing") /\ NoFault
        \/ token[t] # "valid" /\ end("refused") /\ NoFault
        \/ token[t] = "valid" /\ end("refused") /\ Fault
     /\ UNCHANGED <<active, session, request, rows, objects, inDoubt>>

\* The signIn callback, updateUser() and the first statement of
\* createSession() ask for an ACTIVE actor; users are never created.
Authorize(s) ==
  /\ signIn[s].step = "authorizing"
  /\ signIn' = [signIn EXCEPT ![s].step = IF active["actor"] THEN "opening"
                                                             ELSE "refused"]
  /\ UNCHANGED <<active, token, session, request, rows, objects, inDoubt, faults>>

CreateSession(s) ==
  /\ signIn[s].step = "opening"
  /\ session' = [session EXCEPT ![s] = "valid"]
  /\ signIn' = [signIn EXCEPT ![s].step = "done"]
  /\ UNCHANGED <<active, token, request, rows, objects, inDoubt, faults>>

DeleteSession(s) ==
  /\ session[s] \in {"valid", "expired"}
  /\ session' = [session EXCEPT ![s] = "gone"]
  /\ UNCHANGED <<active, token, signIn, request, rows, objects, inDoubt, faults>>

\* Fifteen minutes and seven days; updateSession() never extends them.
Expire ==
  /\ \/ /\ \E t \in Tokens : /\ token[t] = "valid"
                             /\ token' = [token EXCEPT ![t] = "expired"]
        /\ UNCHANGED session
     \/ /\ \E s \in SignIns : /\ session[s] = "valid"
                              /\ session' = [session EXCEPT ![s] = "expired"]
        /\ UNCHANGED token
  /\ UNCHANGED <<active, signIn, request, rows, objects, inDoubt, faults>>

-----------------------------------------------------------------------------
(* A request arrives; the two P2 operations resolve their principal.       *)

Begin(r) ==
  /\ At(r, "idle")
  /\ \/ \E k \in Keys, n \in Names :
          request' = [request EXCEPT ![r].step = "session", ![r].op = "project",
                                     ![r].key = k, ![r].name = n]
     \/ request' = [request EXCEPT ![r].step = "session", ![r].op = "source"]
     \/ \E kind \in Kinds :
          request' = [request EXCEPT ![r].step = "counting",
                                     ![r].op = "upload", ![r].kind = kind]
  /\ UNCHANGED <<auth, rows, objects, inDoubt, faults>>

\* getSessionAndUser() deletes an expired session, of which two requests at
\* a time may find the row gone; no usable session is AUTH_REQUIRED.
ReadSession(r) ==
  /\ At(r, "session")
  /\ \/ \E s \in SignIns :
          /\ session[s] = "valid" /\ active["actor"]
          /\ Step(r, "actor") /\ UNCHANGED session
     \/ \E s \in SignIns :
          /\ session[s] = "expired"
          /\ session' = [session EXCEPT ![s] = "gone"]
          /\ Refuse(r)
     \/ /\ ~active["actor"] \/ \E s \in SignIns : session[s] \in {"none", "gone"}
        /\ Refuse(r) /\ UNCHANGED session
  /\ UNCHANGED <<active, token, signIn, rows, objects, inDoubt, faults>>

\* resolve(): two plain reads whose answers may be stale when they are used.
ResolvePrincipal(r) ==
  /\ \/ /\ At(r, "actor")
        /\ IF active["actor"] THEN Step(r, "memberships") ELSE Refuse(r)
     \/ /\ At(r, "memberships")
        /\ IF active["membership"] /\ active["workspace"]
             THEN Step(r, "lockingActor") ELSE Refuse(r)
  /\ UNCHANGED <<auth, rows, objects, inDoubt, faults>>

\* The body does not pass parseCreateInput(), readExactUploadInput() or
\* validateImageUpload(): refused before anything is written.
RefuseInput(r) ==
  /\ request[r].step \in {"lockingActor", "checking", "uploading"}
  /\ ~request[r].replaying
  /\ Refuse(r)
  /\ UNCHANGED <<auth, rows, objects, inDoubt, faults>>

-----------------------------------------------------------------------------
(* withP2WorkspaceMembershipScope(): one transaction.                      *)

\* Mutant of SharedBy: the scope reads the membership without a lock.
SharesActor(r) == IF request[r].step \in InScope \cup {"lockingMembership"}
                    THEN {"actor"} ELSE {}

\* The rows the transaction of a request holds FOR SHARE.
SharedBy(r) ==
  CASE request[r].step = "lockingMembership" -> {"actor"}
    [] request[r].step \in InScope -> Identity
    [] OTHER -> {}

\* An administrator's UPDATE waits for the transactions that share the row.
Disable(x) ==
  /\ active[x]
  /\ \A r \in Requests : x \notin SharedBy(r)
  /\ active' = [active EXCEPT ![x] = FALSE]
  /\ UNCHANGED <<token, session, signIn, request, rows, objects, inDoubt, faults>>

LockActor(r) ==
  /\ At(r, "lockingActor")
  /\ IF active["actor"] THEN Step(r, "lockingMembership") ELSE Refuse(r)
  /\ UNCHANGED <<auth, rows, objects, inDoubt, faults>>

LockMembership(r) ==
  /\ At(r, "lockingMembership")
  /\ IF active["membership"] /\ active["workspace"]
       THEN Step(r, IF request[r].op = "project" THEN "finding" ELSE "checking")
       ELSE Refuse(r)
  /\ UNCHANGED <<auth, rows, objects, inDoubt, faults>>

-----------------------------------------------------------------------------
(* runIdempotentCreate() of product projects.                              *)

\* replayStored(): another fingerprint under the key is a conflict.
Replay(r) ==
  LET stored == record[request[r].key] IN
  IF stored # None /\ stored.name = request[r].name
    THEN Answer(r, stored.project)
    ELSE Refuse(r)

\* readConcurrentReplay() is the same read in a scope of its own.
FindRecord(r) ==
  /\ At(r, "finding")
  /\ IF record[request[r].key] # None \/ request[r].replaying
       THEN Replay(r)
       ELSE Step(r, "inserting")
  /\ UNCHANGED <<auth, rows, objects, inDoubt, faults>>

\* Mutant of Taken: the unique index on the key is missing.
NeverTaken(r) == FALSE

\* The unique index refuses the record of a key another one committed.
Taken(r) == record[request[r].key] # None

\* The project row, then the record: its insert waits for an uncommitted
\* record of the same key.  A conflict ends the transaction.
InsertRecord(r) ==
  /\ At(r, "inserting")
  /\ \A q \in Requests :
       ~(At(q, "committingProject") /\ request[q].key = request[r].key)
  /\ IF Taken(r)
       THEN request' = [request EXCEPT ![r].step = "lockingActor",
                                       ![r].replaying = TRUE]
       ELSE Step(r, "committingProject")
  /\ UNCHANGED <<auth, rows, objects, inDoubt, faults>>

CommitProject(r) ==
  LET effect == /\ projects' = projects \cup {r}
                /\ record' = [record EXCEPT ![request[r].key] =
                                [name |-> request[r].name, project |-> r]]
  IN /\ At(r, "committingProject")
     /\ \/ effect /\ Answer(r, r) /\ NoFault /\ UNCHANGED inDoubt
        \/ effect /\ Refuse(r) /\ Fault /\ inDoubt' = inDoubt \cup {r}
        \/ UNCHANGED <<projects, record, inDoubt>> /\ Refuse(r) /\ Fault
     /\ UNCHANGED <<auth, sources, assets, objects>>

-----------------------------------------------------------------------------
(* registerP2SourceSnapshot() and AssetService.uploadAsset().              *)

\* The project is read without a lock; no code changes its status.
CheckProject(r) ==
  /\ At(r, "checking")
  /\ IF projects # {} THEN Step(r, "putting") ELSE Refuse(r)
  /\ UNCHANGED <<auth, rows, objects, inDoubt, faults>>

\* assertAssetCapacity() outside any transaction.
CountAssets(r) ==
  /\ At(r, "counting")
  /\ IF Cardinality({q \in assets : request[q].kind = request[r].kind})
          < AssetLimit[request[r].kind]
       THEN Step(r, "uploading") ELSE Refuse(r)
  /\ UNCHANGED <<auth, rows, objects, inDoubt, faults>>

\* A put that fails may have stored the object, and is not compensated:
\* neither storedKey nor the try block of persistStoredRecord() knows of it.
PutObject(r) ==
  /\ request[r].step \in {"putting", "uploading"}
  /\ \/ /\ objects' = objects \cup {r} /\ NoFault
        /\ Step(r, IF At(r, "putting") THEN "committingSource"
                                       ELSE "lockingProject")
     \/ objects' \in {objects, objects \cup {r}} /\ Refuse(r) /\ Fault
  /\ UNCHANGED <<auth, rows, inDoubt>>

\* Mutant of Fits: the capacity counted before the upload is trusted.
FitsBefore(r) == TRUE

Fits(r) == Cardinality({q \in assets : request[q].kind = request[r].kind})
             < AssetLimit[request[r].kind]

\* createAssetRecord(): the project row FOR UPDATE, the second count and the
\* insert; the lock is held until COMMIT.
LockProject(r) ==
  /\ At(r, "lockingProject")
  /\ \A q \in Requests : ~At(q, "committingAsset")
  /\ Step(r, IF Fits(r) THEN "committingAsset" ELSE "compensating")
  /\ UNCHANGED <<auth, rows, objects, inDoubt, faults>>

\* The insert and COMMIT; an error of either leads to the compensation.
CommitStored(r) ==
  LET source == At(r, "committingSource")
      effect == /\ sources' = IF source THEN sources \cup {r} ELSE sources
                /\ assets' = IF source THEN assets ELSE assets \cup {r}
  IN /\ request[r].step \in {"committingSource", "committingAsset"}
     /\ \/ effect /\ Answer(r, r) /\ NoFault /\ UNCHANGED inDoubt
        \/ /\ effect /\ Step(r, "compensating") /\ Fault
           /\ inDoubt' = inDoubt \cup {r}
        \/ /\ UNCHANGED <<sources, assets, inDoubt>>
           /\ Step(r, "compensating") /\ Fault
     /\ UNCHANGED <<auth, record, projects, objects>>

\* Mutant of Deleted: the compensation forgets the object.
KeptObjects(r) == objects

Deleted(r) == objects \ {r}

Compensate(r) ==
  /\ At(r, "compensating")
  /\ \/ objects' = Deleted(r) /\ NoFault
     \/ objects' \in {objects, Deleted(r)} /\ Fault
  /\ Refuse(r)
  /\ UNCHANGED <<auth, rows, inDoubt>>

\* The server dies with the request; PostgreSQL rolls its transaction back.
Crash(r) ==
  /\ request[r].step \notin {"idle", "answered", "dead"}
  /\ Step(r, "dead")
  /\ Fault
  /\ UNCHANGED <<auth, rows, objects, inDoubt>>

-----------------------------------------------------------------------------
SignInStep(s) ==
  \/ \E t \in Tokens : UseVerificationToken(s, t)
  \/ Authorize(s) \/ CreateSession(s) \/ DeleteSession(s)

Proceed(r) ==
  \/ ReadSession(r) \/ ResolvePrincipal(r) \/ RefuseInput(r)
  \/ LockActor(r) \/ LockMembership(r)
  \/ FindRecord(r) \/ InsertRecord(r) \/ CommitProject(r)
  \/ CheckProject(r) \/ CountAssets(r) \/ PutObject(r) \/ LockProject(r)
  \/ CommitStored(r) \/ Compensate(r)

\* All requests answered and nothing left to time or to the administrator.
Finished ==
  /\ \A r \in Requests : request[r].step \in {"answered", "dead"}
  /\ UNCHANGED vars

Next ==
  \/ \E t \in Tokens : CreateVerificationToken(t)
  \/ \E s \in SignIns : SignInStep(s)
  \/ \E r \in Requests : Begin(r) \/ Proceed(r) \/ Crash(r)
  \/ \E x \in Identity : Disable(x)
  \/ Expire
  \/ Finished

Spec == Init /\ [][Next]_vars

-----------------------------------------------------------------------------
(* Properties.                                                             *)

TypeOK ==
  /\ active \in [Identity -> BOOLEAN]
  /\ token \in [Tokens -> {"unissued", "valid", "expired", "gone"}]
  /\ session \in [SignIns -> {"none", "valid", "expired", "gone"}]
  /\ signIn \in [SignIns -> [step : SignInSteps, token : Tokens \cup {None}]]
  /\ request \in [Requests -> Request]
  /\ record \in [Keys -> Record \cup {None}]
  /\ projects \subseteq Requests /\ sources \subseteq Requests
  /\ assets \subseteq Requests /\ objects \subseteq Requests
  /\ inDoubt \subseteq Requests
  /\ faults \in Nat

\* The object of every source and asset is in the store, but for a COMMIT
\* whose answer was lost; and without a fault the store holds no object but
\* those of rows and of requests still under way.
ObjectsMatchRows ==
  /\ (sources \cup assets) \ inDoubt \subseteq objects
  /\ faults = 0 =>
       \A r \in objects :
         r \in sources \cup assets \/ request[r].step \notin {"answered", "dead"}

\* A transaction in the scope rests on rows that are still ACTIVE.
ScopeInv ==
  \A r \in Requests :
    /\ At(r, "lockingMembership") => active["actor"]
    /\ request[r].step \in InScope => \A x \in Identity : active[x]

Bearing(s) == signIn[s].step \in {"authorizing", "opening", "done"}

\* Whoever bears a token took its row away, and nobody else bears it.
TokenInv ==
  \A s \in SignIns : Bearing(s) =>
    /\ signIn[s].token \in Tokens /\ token[signIn[s].token] = "gone"
    /\ \A u \in SignIns : Bearing(u) /\ signIn[u].token = signIn[s].token => u = s

Storing == {"lockingProject", "committingSource", "committingAsset"}

\* What a request is, by the await it stands at.
RequestInv ==
  \A r \in Requests :
    /\ request[r].step # "answered" => request[r].answer = None
    /\ request[r].op = "project" => request[r].key \in Keys /\ request[r].name \in Names
    /\ request[r].step \in {"finding", "inserting", "committingProject"}
         => request[r].op = "project"
    /\ request[r].step \in Storing \cup {"checking", "putting", "counting", "uploading",
                                        "compensating"}
         => request[r].op # "project"
    /\ request[r].step \in {"counting", "uploading", "lockingProject", "committingAsset"}
         => request[r].kind \in Kinds

\* The insert of a record holds its key until the transaction ends, and
\* rows, records and answers of a key name one project.
KeyInv ==
  /\ \A r \in Requests : At(r, "committingProject") =>
       /\ record[request[r].key] = None
       /\ \A q \in Requests :
            At(q, "committingProject") /\ request[q].key = request[r].key => q = r
  /\ \A r \in projects :
       /\ request[r].op = "project" /\ At(r, "answered")
       /\ record[request[r].key] # None /\ record[request[r].key].project = r
  /\ \A r \in Requests :
       request[r].op = "project" /\ request[r].answer # None =>
         /\ record[request[r].key] # None
         /\ request[r].answer = record[request[r].key].project

OfKind(kind) == {r \in assets : request[r].kind = kind}

\* Only the holder of the project's lock adds an asset, and it counted room.
CapacityInv ==
  /\ \A r \in assets : request[r].step \in {"compensating", "answered", "dead"}
  /\ \A r \in Requests : At(r, "committingAsset") =>
       /\ Cardinality(OfKind(request[r].kind)) < AssetLimit[request[r].kind]
       /\ \A q \in Requests : At(q, "committingAsset") => q = r
  /\ \A kind \in Kinds : Cardinality(OfKind(kind)) <= AssetLimit[kind]

\* Which requests have their object in the store.
ObjectInv ==
  /\ \A r \in Requests : request[r].step \in Storing => r \in objects
  /\ \A r \in objects :
       request[r].step \in Storing \cup {"compensating", "answered", "dead"}
  /\ \A r \in sources \cup assets : At(r, "answered") \/ r \in inDoubt
  /\ ObjectsMatchRows

\* Types, what is known at every await, and the agreement of the store with
\* the tables.
IntakeInv ==
  TypeOK /\ ScopeInv /\ TokenInv /\ RequestInv /\ KeyInv /\ CapacityInv /\ ObjectInv

\* However many uploads passed the first count, a project never has more
\* pictures of a kind than the limit.
AssetsWithinLimit ==
  \A kind \in Kinds :
    Cardinality({r \in assets : request[r].kind = kind}) <= AssetLimit[kind]

\* A mailed token opens one session, a key makes one project, and every 201
\* for the key names that project.
UsedOnce ==
  /\ \A s, u \in SignIns :
       /\ {signIn[s].step, signIn[u].step} \subseteq {"opening", "done"}
       /\ signIn[s].token = signIn[u].token
       => s = u
  /\ \A r \in projects : record[request[r].key].project = r
  /\ \A r \in Requests :
       request[r].op = "project" /\ request[r].answer # None
         => request[r].answer = record[request[r].key].project

\* Nothing is written into a workspace after the actor, the membership or
\* the workspace was disabled, although the principal was resolved before.
NoWriteWhenDisabled ==
  [][projects' # projects \/ sources' # sources
       => \A x \in Identity : active[x]]_vars
=============================================================================
