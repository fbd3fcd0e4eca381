------------------------- MODULE DevelopmentProposals -------------------------
(***************************************************************************)
(* Development proposals (api/development.py, orchestration/development.py): *)
(* a change of a registered app's source that is requested, reviewed by      *)
(* another administrator, generated by an isolated worker, applied to the    *)
(* index of the app's Git repository, and rolled back on the word of two.    *)
(*                                                                         *)
(* The database and the repository do not commit together.  A request reads  *)
(* the row from the snapshot _require_roles began, the repository as it is   *)
(* at each step, and writes columns without comparing; apply and rollback    *)
(* lock the row, and a file lock orders what they do to one app's source.    *)
(* Patches and other people's edits concern different files: Git itself      *)
(* refuses a patch over a file that was touched.                             *)
(***************************************************************************)
EXTENDS Naturals, Sequences, FiniteSets, TLC

CONSTANTS
  None,
  Proposals,      \* proposals for one registered app, by request id
  Requester,      \* who asks; an administrator too
  Administrators, \* holders of a review role
  Clients,        \* requests under way at once
  MaxPatches,     \* bound on what workers generate
  MaxChanges      \* bound on what others do to source and policy, deployment requests and killed workers

ASSUME RequesterAssumption == Requester \in Administrators
ASSUME BoundsAssumption == MaxPatches \in Nat /\ MaxChanges \in Nat

VARIABLES
  rows,      \* Muster Development Proposal rows
  app,       \* revision the app is registered at, revision of its policy
  source,    \* the repository: revision, staged patches, edits by others
  queue,     \* generation jobs waiting
  job,       \* the generation under way, with its snapshot
  requests,  \* what each request is doing
  patches,   \* the proposals patches were generated for, in order
  changes,   \* what others have done so far, killed workers included
  kills      \* workers killed over a changed source so far

vars == <<rows, app, source, queue, job, requests, patches, changes, kills>>

-----------------------------------------------------------------------------
(* Rows *)

Statuses == {"Proposed", "Approved", "Rejected", "Queued", "Ready", "Applied", "RolledBack"}
Rollbacks == {"NotRequested", "Pending", "Approved", "Rejected", "RolledBack"}
Deployments == {"NotRequested", "Ready", "Blocked", "RolledBack"}

(* revision, policy: what the proposal was made for; patch: its reviewed patch, 0 if none.
   Failed and Generating are written in jobs that raise or that commit another status. *)
ProposalRow ==
  [status : Statuses, reviewed : Administrators \cup {None}, revision : Nat, policy : Nat,
   patch : 0..MaxPatches, applied : BOOLEAN, deployment : Deployments,
   rollback : Rollbacks, requested : Administrators \cup {None},
   approved : Administrators \cup {None}]

(* inside, outside: edits by others in the app and elsewhere in its repository. *)
Source == [revision : Nat, staged : SUBSET (1..MaxPatches), inside : BOOLEAN, outside : BOOLEAN]

Clean == source.staged = {} /\ ~source.inside /\ ~source.outside

-----------------------------------------------------------------------------
(* Requests *)

(* A proposal of another policy is refused by what the request reads first. *)
PolicyHolds(p) == rows[p] # None /\ app.policy = rows[p].policy

(* What a request still uses of the row it read; those that only write columns use none. *)
Read(p) ==
  IF rows[p] = None THEN None ELSE [patch |-> rows[p].patch, revision |-> rows[p].revision]
ReadRow == [patch : 0..MaxPatches, revision : Nat]

Endpoints == {"create", "review", "generate", "apply", "deploy", "request_rollback",
              "review_rollback", "rollback"}
(* stage: the row is unlocked, locked, the source locked, changed, or its lock released. *)
Request ==
  [endpoint : Endpoints, proposal : Proposals, user : Administrators \cup {None},
   action : {None, "approve", "reject"}, row : {None} \cup ReadRow, registered : Nat,
   stage : {"begun", "locked", "sourced", "changed", "unlocked"}]
Job == [proposal : Proposals, row : ReadRow, registered : Nat]
ASSUME NoneAssumption ==
  None \notin Administrators \cup ProposalRow \cup ReadRow \cup Request \cup Job

Begin(c, p, u, endpoint, action) ==
  /\ requests[c] = None
  /\ requests' = [requests EXCEPT ![c] =
       [endpoint |-> endpoint, proposal |-> p, user |-> u, action |-> action, stage |-> "begun",
        row |-> IF endpoint \in {"review", "generate", "apply", "rollback"} THEN Read(p) ELSE None,
        registered |-> IF endpoint = "rollback" THEN 0 ELSE app.registered]]
  /\ UNCHANGED <<rows, app, source, queue, job, patches, changes, kills>>

Return(c) == requests' = [requests EXCEPT ![c] = None]
Advance(c, stage) == requests' = [requests EXCEPT ![c].stage = stage]
At(c, endpoint, stage) ==
  requests[c] # None /\ requests[c].endpoint = endpoint /\ requests[c].stage = stage

(* A running job and a locked request hold their row until they commit. *)
RowFree(p) ==
  /\ job # None => job.proposal # p
  /\ \A c \in Clients : requests[c] # None /\ requests[c].proposal = p =>
       requests[c].stage = "begun"
SourceFree == \A c \in Clients : requests[c] # None => requests[c].stage \notin {"sourced", "changed"}

(* Bounded: what others do, deployment requests and killed workers. *)
Counted == changes < MaxChanges /\ changes' = changes + 1

(* A raise, a refusal, or a worker killed while no change of source is uncommitted. *)
Abort(c) ==
  /\ requests[c] # None /\ requests[c].stage \in {"begun", "locked", "sourced"}
  /\ Return(c) /\ UNCHANGED <<rows, app, source, queue, job, patches, changes, kills>>

(* The worker is killed, or its commit fails, after it changed the source. *)
Kill(c) ==
  /\ requests[c] # None /\ requests[c].stage \in {"changed", "unlocked"}
  /\ Return(c) /\ kills' = kills + 1 /\ Counted
  /\ UNCHANGED <<rows, app, source, queue, job, patches>>

(* A request that only writes columns of its row, once it is free to. *)
Writes(c, endpoint, row) ==
  /\ At(c, endpoint, "begun") /\ RowFree(requests[c].proposal)
  /\ Return(c)
  /\ rows' = [rows EXCEPT ![requests[c].proposal] = row]
  /\ UNCHANGED <<app, source, job, patches, changes, kills>>

(* The source is clean at the revision the app is registered at and the proposal was made for. *)
Rechecked(r) ==
  Clean /\ source.revision = r.registered /\ source.revision = r.row.revision

-----------------------------------------------------------------------------
(* Proposal and review *)

Proposes(c, p) == rows[p] = None /\ Begin(c, p, Requester, "create", None)

Create(c) ==
  /\ At(c, "create", "begun")
  /\ LET r == requests[c] IN
       /\ rows[r.proposal] = None                        \* request_id is unique
       /\ Clean /\ source.revision = r.registered
       /\ Writes(c, "create",
            [status |-> "Proposed", reviewed |-> None, revision |-> source.revision,
             policy |-> app.policy, patch |-> 0, applied |-> FALSE,
             deployment |-> "NotRequested", rollback |-> "NotRequested", requested |-> None,
             approved |-> None])
  /\ UNCHANGED queue

Decided(action) == IF action = "approve" THEN "Approved" ELSE "Rejected"

ReviewerOfAny(u) == TRUE
Independent(u) == u # Requester

Reviews(c, p, u, action) ==
  /\ rows[p] # None /\ rows[p].status = "Proposed" /\ Independent(u)
  /\ PolicyHolds(p)
  /\ Begin(c, p, u, "review", action)

Review(c) ==
  /\ At(c, "review", "begun") /\ Rechecked(requests[c])
  /\ Writes(c, "review", [rows[requests[c].proposal] EXCEPT
       !.status = Decided(requests[c].action), !.reviewed = requests[c].user])
  /\ UNCHANGED queue

-----------------------------------------------------------------------------
(* Generation *)

Generates(c, p) ==
  /\ rows[p] # None /\ rows[p].status = "Approved" /\ rows[p].reviewed # Requester
  /\ PolicyHolds(p)
  /\ Begin(c, p, None, "generate", None)

(* The job is in the queue before the status it waits for is committed; one per proposal. *)
Enqueue(c) ==
  /\ At(c, "generate", "begun") /\ Rechecked(requests[c]) /\ RowFree(requests[c].proposal)
  /\ Advance(c, "locked")
  /\ queue' = queue \cup {requests[c].proposal}
  /\ UNCHANGED <<rows, app, source, job, patches, changes, kills>>

Queue(c) ==
  /\ At(c, "generate", "locked")
  /\ Return(c)
  /\ rows' = [rows EXCEPT ![requests[c].proposal].status = "Queued"]
  /\ UNCHANGED <<app, source, queue, job, patches, changes, kills>>

(* A job that finds no queued proposal ends; one that does takes the row for its work. *)
StartGeneration(p) ==
  /\ p \in queue /\ job = None
  /\ queue' = queue \ {p}
  /\ IF rows[p].status # "Queued" \/ ~PolicyHolds(p) THEN UNCHANGED job
     ELSE /\ RowFree(p)
          /\ job' = [proposal |-> p, row |-> Read(p), registered |-> app.registered]
  /\ UNCHANGED <<rows, app, source, requests, patches, changes, kills>>

(* The source is compared before and after the isolated worker has run. *)
FinishGeneration ==
  /\ job # None /\ Rechecked(job) /\ Len(patches) < MaxPatches
  /\ patches' = Append(patches, job.proposal)
  /\ rows' = [rows EXCEPT ![job.proposal].status = "Ready",
                          ![job.proposal].patch = Len(patches) + 1]
  /\ job' = None
  /\ UNCHANGED <<app, source, queue, requests, changes, kills>>

(* The status Failed is written before the raise, and rolled back with it. *)
FailGeneration ==
  /\ job # None
  /\ job' = None
  /\ UNCHANGED <<rows, app, source, queue, requests, patches, changes, kills>>

-----------------------------------------------------------------------------
(* Application *)

Applies(c, p) ==
  /\ rows[p] # None /\ rows[p].status = "Ready" /\ PolicyHolds(p)
  /\ Begin(c, p, None, "apply", None)

LockRow(c) ==
  /\ \/ At(c, "apply", "begun") /\ Rechecked(requests[c])
     \/ At(c, "rollback", "begun") /\ source.revision = requests[c].row.revision
  /\ RowFree(requests[c].proposal)
  /\ Advance(c, "locked")
  /\ UNCHANGED <<rows, app, source, queue, job, patches, changes, kills>>

AsCheckedBefore(r) == TRUE
(* The clean source is checked again behind the file lock. *)
StillReviewed(r) == Clean /\ source.revision = r.row.revision

LockSource(c) ==
  /\ At(c, "apply", "locked") /\ SourceFree /\ StillReviewed(requests[c])
  /\ Advance(c, "sourced")
  /\ UNCHANGED <<rows, app, source, queue, job, patches, changes, kills>>

ApplyPatch(c) ==
  /\ At(c, "apply", "sourced")
  /\ source' = [source EXCEPT !.staged = @ \cup {requests[c].row.patch}]
  /\ Advance(c, "changed")
  /\ UNCHANGED <<rows, app, queue, job, patches, changes, kills>>

(* What is staged comes out as the reviewed patch, or the patch is taken back. *)
LeftInPlace(patch) == source
TakenBack(patch) == [source EXCEPT !.staged = @ \ {patch}]

VerifyPatch(c) ==
  /\ At(c, "apply", "changed")
  /\ \/ /\ source.staged = {requests[c].row.patch}
        /\ Advance(c, "unlocked") /\ UNCHANGED source
     \/ /\ Return(c)
        /\ source' = TakenBack(requests[c].row.patch)
  /\ UNCHANGED <<rows, app, queue, job, patches, changes, kills>>

Applied(c) ==
  /\ At(c, "apply", "unlocked")
  /\ Return(c)
  /\ rows' = [rows EXCEPT ![requests[c].proposal] = [@ EXCEPT
       !.status = "Applied", !.applied = TRUE, !.deployment = "Ready",
       !.rollback = "NotRequested"]]
  /\ UNCHANGED <<app, source, queue, job, patches, changes, kills>>

RequestsDeployment(c, p) ==
  /\ rows[p] # None /\ rows[p].status = "Applied" /\ changes < MaxChanges
  /\ Begin(c, p, None, "deploy", None)

BlockDeployment(c) ==
  /\ At(c, "deploy", "begun") /\ RowFree(requests[c].proposal)
  /\ Return(c)
  /\ rows' = [rows EXCEPT ![requests[c].proposal].deployment = "Blocked"]
  /\ Counted
  /\ UNCHANGED <<app, source, queue, job, patches, kills>>

-----------------------------------------------------------------------------
(* Rollback *)

Undeployed(row) == row # None /\ row.status = "Applied" /\ row.deployment = "Ready"

RequestsRollback(c, p, u) ==
  /\ Undeployed(rows[p]) /\ rows[p].rollback \in {"NotRequested", "Rejected"}
  /\ Begin(c, p, u, "request_rollback", None)

RequestRollback(c) ==
  /\ At(c, "request_rollback", "begun")
  /\ Writes(c, "request_rollback", [rows[requests[c].proposal] EXCEPT
       !.rollback = "Pending", !.requested = requests[c].user, !.approved = None])
  /\ UNCHANGED queue

ReviewsRollback(c, p, u, action) ==
  /\ rows[p] # None /\ rows[p].status = "Applied" /\ rows[p].rollback = "Pending"
  /\ u # rows[p].requested
  /\ Begin(c, p, u, "review_rollback", action)

ReviewRollback(c) ==
  /\ At(c, "review_rollback", "begun")
  /\ Writes(c, "review_rollback", [rows[requests[c].proposal] EXCEPT
       !.rollback = Decided(requests[c].action), !.approved = requests[c].user])
  /\ UNCHANGED queue

ApprovedByAnother(row) ==
  row.rollback = "Approved" /\ row.approved # None /\ row.approved # row.requested

RollsBack(c, p) ==
  /\ Undeployed(rows[p]) /\ ApprovedByAnother(rows[p]) /\ PolicyHolds(p)
  /\ Begin(c, p, None, "rollback", None)

(* Behind the file lock: what is staged in the app is the patch and nobody edited the app. *)
ExactlyApplied(r) == source.staged = {r.row.patch} /\ ~source.inside

LockApplied(c) ==
  /\ At(c, "rollback", "locked") /\ SourceFree
  /\ source.revision = requests[c].row.revision /\ ExactlyApplied(requests[c])
  /\ Advance(c, "sourced")
  /\ UNCHANGED <<rows, app, source, queue, job, patches, changes, kills>>

(* The reverse patch applies to what is staged; the whole repository must then be clean,
   and if it is not the request raises over a source that is already reversed. *)
ReversePatch(c) ==
  /\ At(c, "rollback", "sourced") /\ requests[c].row.patch \in source.staged
  /\ source' = TakenBack(requests[c].row.patch)
  /\ IF source.inside \/ source.outside THEN Return(c) ELSE Advance(c, "unlocked")
  /\ UNCHANGED <<rows, app, queue, job, patches, changes, kills>>

RolledBack(c) ==
  /\ At(c, "rollback", "unlocked")
  /\ Return(c)
  /\ rows' = [rows EXCEPT ![requests[c].proposal] = [@ EXCEPT
       !.status = "RolledBack", !.deployment = "RolledBack", !.rollback = "RolledBack"]]
  /\ UNCHANGED <<app, source, queue, job, patches, changes, kills>>

-----------------------------------------------------------------------------
(* Others *)

Change == Counted /\ UNCHANGED <<rows, queue, job, requests, patches, kills>>

EditSource == \E where \in {"inside", "outside"} :
  /\ ~source[where] /\ source' = [source EXCEPT ![where] = TRUE]
  /\ Change /\ UNCHANGED app
CommitSource ==
  /\ ~Clean
  /\ source' = [revision |-> source.revision + 1, staged |-> {}, inside |-> FALSE, outside |-> FALSE]
  /\ Change /\ UNCHANGED app
(* An administrator registers the clean source again; another edits the policy. *)
Register ==
  /\ Clean /\ app.registered # source.revision
  /\ app' = [app EXCEPT !.registered = source.revision]
  /\ UNCHANGED <<rows, source, queue, job, requests, patches, changes, kills>>
EditPolicy == app' = [app EXCEPT !.policy = @ + 1] /\ Change /\ UNCHANGED source

Init ==
  /\ rows = [p \in Proposals |-> None]
  /\ app = [registered |-> 0, policy |-> 0]
  /\ source = [revision |-> 0, staged |-> {}, inside |-> FALSE, outside |-> FALSE]
  /\ queue = {} /\ job = None
  /\ requests = [c \in Clients |-> None]
  /\ patches = <<>> /\ changes = 0 /\ kills = 0

Calls(c) ==
  \E p \in Proposals :
    \/ Proposes(c, p) \/ Generates(c, p) \/ Applies(c, p) \/ RequestsDeployment(c, p)
    \/ RollsBack(c, p)
    \/ \E u \in Administrators :
         \/ RequestsRollback(c, p, u)
         \/ \E action \in {"approve", "reject"} : Reviews(c, p, u, action) \/ ReviewsRollback(c, p, u, action)

Steps(c) ==
  \/ Create(c) \/ Review(c) \/ Enqueue(c) \/ Queue(c) \/ BlockDeployment(c)
  \/ LockRow(c) \/ LockSource(c) \/ ApplyPatch(c) \/ VerifyPatch(c) \/ Applied(c)
  \/ RequestRollback(c) \/ ReviewRollback(c) \/ LockApplied(c) \/ ReversePatch(c) \/ RolledBack(c)

Next ==
  \/ \E c \in Clients : Calls(c) \/ Steps(c) \/ Abort(c) \/ Kill(c)
  \/ \E p \in Proposals : StartGeneration(p)
  \/ FinishGeneration \/ FailGeneration
  \/ EditSource \/ CommitSource \/ Register \/ EditPolicy

Spec == Init /\ [][Next]_vars

-----------------------------------------------------------------------------
(* Properties *)

TypeOK ==
  /\ rows \in [Proposals -> {None} \cup ProposalRow]
  /\ source \in Source
  /\ queue \subseteq Proposals
  /\ app \in [registered : Nat, policy : Nat]
  /\ job \in {None} \cup Job /\ requests \in [Clients -> {None} \cup Request]
  /\ patches \in Seq(Proposals) /\ Len(patches) <= MaxPatches /\ kills \in Nat

(* The source never holds two patches, however many are applied at once: every patch is put
   over the clean source its reviewer saw (apply_reviewed_patch). *)
OnePatchAtATime == Cardinality(source.staged) <= 1

(* No patch reaches the source that an administrator other than its requester has not
   reviewed, whatever stale decisions are written over each other (review, generate). *)
OnlyReviewedPatches ==
  \A patch \in source.staged :
    rows[patches[patch]].reviewed \notin {None, Requester}

(* Unless a worker was killed in between, a patch is in the source only on behalf of a
   proposal that says it was applied or of a request that is about to: one that does not
   come out as reviewed is taken back (apply_reviewed_patch).  Rows are of their types. *)
NoPatchUnrecorded ==
  /\ TypeOK
  /\ kills = 0 =>
    \A patch \in source.staged :
      \/ rows[patches[patch]].applied
      \/ \E c \in Clients : requests[c] # None /\ requests[c].row # None
                            /\ requests[c].row.patch = patch /\ requests[c].stage \in {"changed", "unlocked"}
=============================================================================
