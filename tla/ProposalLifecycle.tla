-------------------------- MODULE ProposalLifecycle --------------------------
(***************************************************************************)
(* The life of a workflow proposal (orchestration/workflow_proposal.py,     *)
(* orchestration/delete_authorization.py, orchestration/studio.py and their *)
(* endpoints in api/mission.py): planning, review, publication as a native  *)
(* workflow, the start of a mission from it, and, for a proposal to delete  *)
(* a record, the one-use authorization to do so and its receipt.            *)
(*                                                                         *)
(* A request is one transaction in two steps: it locks a row if its         *)
(* endpoint does, reads a snapshot, and later writes and commits.  Session  *)
(* and user come from caches, so the snapshot is taken behind the lock.     *)
(***************************************************************************)
EXTENDS Naturals, Sequences, FiniteSets

CONSTANTS
  None,
  Proposals,    \* the request ids proposals are planned under
  Operations,   \* attended operations they can contain: subset of the four below
  Requester, Reviewers,  \* the user who plans, and those who may hold a review role
  Clients,      \* requests under way at once
  Keys,         \* idempotency keys of mission starts
  Auths,        \* issue keys of delete authorizations
  MaxWorkflows, MaxVersions, MaxChanges  \* bounds on rows and on what others change

ASSUME UsersAssumption == None \notin Reviewers \cup {Requester}
ASSUME OperationsAssumption == Operations \subseteq {"none", "create", "update", "delete"}
ASSUME BoundsAssumption == MaxWorkflows \in Nat /\ MaxVersions \in Nat /\ MaxChanges \in Nat

VARIABLES
  proposals,   \* Muster Workflow Proposal rows
  workflows,   \* Muster Workflow rows in creation order
  versions,    \* Muster Workflow Version rows in creation order
  missions,    \* Muster Mission rows started from proposals, by key
  auths,       \* Muster Attended Delete Authorization rows
  record,      \* the business record the attended proposals name
  live,        \* what is read anew each time: roles, authority, form schema
  requests,    \* what each request is doing
  changes      \* changes by others so far

vars == <<proposals, workflows, versions, missions, auths, record, live, requests, changes>>
committed == <<proposals, workflows, versions, missions, auths, record, live>>

-----------------------------------------------------------------------------
(* Rows *)

(* The reviewer and the record revision a deletion was approved for. *)
Evidence == Reviewers \X Nat

(* proof: the evidence of a deletion that was approved; schema: the form schema the
   attended plan is bound to; decisions counts the approvals, for the properties. *)
ProposalRow ==
  [op : Operations, schema : Nat, status : {"Proposed", "Approved", "Rejected", "Published"},
   reviewer : Reviewers \cup {Requester, None}, proof : {None} \cup Evidence,
   workflow : Nat, version : Nat, decisions : Nat]

(* content: the proposal whose graph it is, or "edited"; published: its version. *)
WorkflowRow ==
  [label : Proposals \X {"plain", "suffixed"} , content : Proposals \cup {"edited"},
   status : {"Draft", "Published"}, published : Nat]
VersionRow == [workflow : Nat, content : Proposals \cup {"edited"}]
MissionRow == [proposal : Proposals, workflow : Nat, version : Nat]

(* token: the verification token of the latest consumption; late: its time limit
   has passed; uses counts the consumptions, for the properties. *)
AuthRow ==
  [proposal : Proposals, status : {"Issued", "Consumed", "Verified", "Failed", "Expired"},
   proof : Evidence, late : BOOLEAN, uses : Nat, absent : BOOLEAN]

RecordType == [rev : Nat, present : BOOLEAN]
LiveType == [authorized : BOOLEAN, roles : SUBSET (Reviewers \cup {Requester}), schema : Nat]

(* What a transaction reads, and what a request under way carries. *)
ViewType ==
  [proposals : [Proposals -> {None} \cup ProposalRow], workflows : Seq(WorkflowRow),
   missions : [Keys -> {None} \cup MissionRow], auths : [Auths -> {None} \cup AuthRow],
   record : RecordType, live : LiveType]

PlanRequest ==
  [endpoint : {"plan"}, proposal : Proposals, op : Operations, auth : {None}, view : ViewType]
ReviewRequest ==
  [endpoint : {"review"}, proposal : Proposals, user : Reviewers \cup {Requester},
   approve : BOOLEAN, auth : {None}, view : ViewType]
PublishRequest ==
  [endpoint : {"publish"}, proposal : Proposals, auth : {None}, view : ViewType]
StartRequest ==
  [endpoint : {"start"}, proposal : Proposals, key : Keys, auth : {None}, view : ViewType]
IssueRequest ==
  [endpoint : {"issue", "consume"}, proposal : Proposals, auth : Auths, view : ViewType]
VerifyRequest ==
  [endpoint : {"verify"}, proposal : Proposals, auth : Auths, token : Nat, view : ViewType]
Request ==
  PlanRequest \cup ReviewRequest \cup PublishRequest \cup StartRequest \cup IssueRequest
    \cup VerifyRequest

(* The null of the database is no row and no request. *)
ASSUME NoneAssumption == None \notin ProposalRow \cup MissionRow \cup AuthRow \cup Request

-----------------------------------------------------------------------------
(* Snapshots *)

View ==
  [proposals |-> proposals, workflows |-> workflows, missions |-> missions, auths |-> auths,
   record |-> record, live |-> live]

LocksNothing(r) == {}
(* The row an endpoint locks before its first read. *)
LockOf(r) ==
  CASE r.endpoint \in {"publish", "start"} -> {<<"proposal", r.proposal>>}
    [] r.endpoint \in {"consume", "verify"} -> {<<"authorization", r.auth>>}
    [] OTHER -> {}

Locked(row) == \E c \in Clients : requests[c] # None /\ row \in LockOf(requests[c])
LockedByOther(c, row) ==
  \E d \in Clients \ {c} : requests[d] # None /\ row \in LockOf(requests[d])

Begin(c, r) ==
  /\ requests[c] = None
  /\ \A row \in LockOf(r) : ~Locked(row)
  /\ requests' = [requests EXCEPT ![c] = r]
  /\ UNCHANGED <<committed, changes>>

(* A request ends without effect: it is refused, it replays, or it fails. *)
Return(c) == requests' = [requests EXCEPT ![c] = None] /\ UNCHANGED changes

(* The gateway refuses or asks back, the worker dies, a bound is met. *)
Abort(c) == requests[c] # None /\ Return(c) /\ UNCHANGED committed

-----------------------------------------------------------------------------
(* Planning *)

Plans(c, p, o) ==
  /\ proposals[p] = None
  /\ Begin(c, [endpoint |-> "plan", proposal |-> p, op |-> o, auth |-> None, view |-> View])

(* The gateway has answered; the form catalog was read before it was asked. *)
InsertProposal(c) ==
  LET r == requests[c] IN
  /\ r # None /\ r.endpoint = "plan"
  /\ Return(c)
  /\ proposals' = IF proposals[r.proposal] # None THEN proposals   \* request_id is unique
                  ELSE [proposals EXCEPT ![r.proposal] =
                          [op |-> r.op, schema |-> r.view.live.schema, status |-> "Proposed",
                           reviewer |-> None, proof |-> None, workflow |-> 0, version |-> 0,
                           decisions |-> 0]]
  /\ UNCHANGED <<workflows, versions, missions, auths, record, live>>

-----------------------------------------------------------------------------
(* Review *)

(* The requester's live authority still covers the plan, whose form is unchanged. *)
SnapshotVerified(view, row) == view.live.authorized /\ row.schema = view.live.schema

MayReviewOwn(view, row, user) == user \in view.live.roles
MayReview(view, row, user) ==
  /\ user \in view.live.roles
  /\ row.op \in {"update", "delete"} => user # Requester

Reviews(c, u, p, approve) ==
  /\ proposals[p] # None /\ proposals[p].status = "Proposed" /\ u \in live.roles
  /\ Begin(c, [endpoint |-> "review", proposal |-> p, user |-> u, approve |-> approve,
               auth |-> None, view |-> View])

(* What review_proposal writes without comparing: status, reviewer and evidence. *)
Decision(view, row, user, approve) ==
  IF ~approve THEN [row EXCEPT !.status = "Rejected", !.reviewer = user]
  ELSE [row EXCEPT !.status = "Approved", !.reviewer = user, !.decisions = @ + 1,
                   !.proof = IF row.op = "delete" THEN <<user, view.record.rev>> ELSE @]

DecisionAllowed(view, row, user, approve) ==
  approve => /\ MayReview(view, row, user)
             /\ row.op = "delete" => SnapshotVerified(view, row) /\ view.record.present

Decide(c) ==
  LET r == requests[c]
      seen == r.view.proposals[r.proposal]
  IN
  /\ r # None /\ r.endpoint = "review"
  /\ ~LockedByOther(c, <<"proposal", r.proposal>>)
  /\ Return(c)
  /\ proposals' = IF DecisionAllowed(r.view, seen, r.user, r.approve)
                  THEN [proposals EXCEPT ![r.proposal] = Decision(r.view, @, r.user, r.approve)]
                  ELSE proposals
  /\ UNCHANGED <<workflows, versions, missions, auths, record, live>>

-----------------------------------------------------------------------------
(* Publication *)

Publishes(c, p) ==
  /\ proposals[p] # None
  /\ Begin(c, [endpoint |-> "publish", proposal |-> p, auth |-> None, view |-> View])

PublishableAgain(view, p) ==
  view.proposals[p].status \in {"Approved", "Published"} /\ view.live.authorized
Publishable(view, p) == view.proposals[p].status = "Approved" /\ view.live.authorized

Labels(rows) == {rows[i].label : i \in DOMAIN rows}
UniqueLabel(view, p) ==
  IF <<p, "plain">> \in Labels(view.workflows) THEN <<p, "suffixed">> ELSE <<p, "plain">>

(* The draft, its version and the proposal's publication, or nothing at all. *)
PublishProposal(c) ==
  LET r == requests[c]
      p == r.proposal
      label == UniqueLabel(r.view, p)
      w == Len(workflows) + 1
      v == Len(versions) + 1
  IN
  /\ r # None /\ r.endpoint = "publish"
  /\ ~LockedByOther(c, <<"proposal", p>>)
  /\ w <= MaxWorkflows /\ v <= MaxVersions
  /\ Return(c)
  /\ IF Publishable(r.view, p) /\ label \notin Labels(workflows)
     THEN /\ workflows' = Append(workflows, [label |-> label, content |-> p,
                                             status |-> "Published", published |-> v])
          /\ versions' = Append(versions, [workflow |-> w, content |-> p])
          /\ proposals' = [proposals EXCEPT ![p].status = "Published", ![p].workflow = w,
                                            ![p].version = v]
     ELSE UNCHANGED <<workflows, versions, proposals>>
  /\ UNCHANGED <<missions, auths, record, live>>

(* Studio: save_workflow_draft and publish_workflow on a published workflow. *)
EditWorkflow(w) ==
  /\ changes < MaxChanges /\ changes' = changes + 1
  /\ workflows' = [workflows EXCEPT ![w].content = "edited", ![w].status = "Draft"]
  /\ UNCHANGED <<proposals, versions, missions, auths, record, live, requests>>

PublishWorkflow(w) ==
  /\ workflows[w].status = "Draft" /\ Len(versions) < MaxVersions
  /\ versions' = Append(versions, [workflow |-> w, content |-> workflows[w].content])
  /\ workflows' = [workflows EXCEPT ![w].status = "Published", ![w].published = Len(versions) + 1]
  /\ UNCHANGED <<proposals, missions, auths, record, live, requests, changes>>

-----------------------------------------------------------------------------
(* Start *)

Starts(c, p, k) ==
  /\ proposals[p] # None
  /\ Begin(c, [endpoint |-> "start", proposal |-> p, key |-> k, auth |-> None, view |-> View])

Startable(view, p) ==
  LET row == view.proposals[p] IN
  /\ row.status = "Published" /\ SnapshotVerified(view, row)
  /\ view.workflows[row.workflow].status = "Published"
  /\ view.workflows[row.workflow].published = row.version

(* The version a mission is pinned to. *)
LatestVersion(view, p) == Len(versions)
PinnedVersion(view, p) == view.proposals[p].version

StartMission(c) ==
  LET r == requests[c]
      p == r.proposal
  IN
  /\ r # None /\ r.endpoint = "start"
  /\ Return(c)
  /\ missions' = IF Startable(r.view, p) /\ r.view.missions[r.key] = None
                    /\ missions[r.key] = None                 \* the key is unique
                 THEN [missions EXCEPT ![r.key] =
                         [proposal |-> p, workflow |-> r.view.proposals[p].workflow,
                          version |-> PinnedVersion(r.view, p)]]
                 ELSE missions
  /\ UNCHANGED <<proposals, workflows, versions, auths, record, live>>

-----------------------------------------------------------------------------
(* Attended deletion *)

(* trusted_attended_delete_snapshot: the evidence for deleting the record now, or
   None; the reviewer must still hold a role, and the revision be the approved one. *)
DeleteEvidence(view, p) ==
  LET row == view.proposals[p] IN
  IF /\ row # None /\ row.op = "delete" /\ row.status = "Approved"
     /\ SnapshotVerified(view, row)
     /\ view.record.present
     /\ MayReview(view, row, row.reviewer)
     /\ row.proof = <<row.reviewer, view.record.rev>>
  THEN row.proof ELSE None

Issues(c, p, a) ==
  /\ proposals[p] # None /\ proposals[p].op = "delete"
  /\ Begin(c, [endpoint |-> "issue", proposal |-> p, auth |-> a, view |-> View])

InsertAuthorization(c) ==
  LET r == requests[c]
      proof == DeleteEvidence(r.view, r.proposal)
  IN
  /\ r # None /\ r.endpoint = "issue"
  /\ Return(c)
  /\ auths' = IF proof = None \/ r.view.auths[r.auth] # None \/ auths[r.auth] # None
              THEN auths                                  \* issue_key is unique
              ELSE [auths EXCEPT ![r.auth] =
                      [proposal |-> r.proposal, status |-> "Issued", proof |-> proof,
                       late |-> FALSE, uses |-> 0, absent |-> FALSE]]
  /\ UNCHANGED <<proposals, workflows, versions, missions, record, live>>

Consumes(c, a) ==
  /\ auths[a] # None
  /\ Begin(c, [endpoint |-> "consume", proposal |-> auths[a].proposal, auth |-> a, view |-> View])

(* late is read with the clock when the row is. *)
Consumed(view, row) ==
  IF row.status # "Issued" THEN row
  ELSE IF row.late THEN [row EXCEPT !.status = "Expired"]
  ELSE IF DeleteEvidence(view, row.proposal) # row.proof THEN row
  ELSE [row EXCEPT !.status = "Consumed", !.late = FALSE, !.uses = @ + 1]

(* The later of two writers of a row wins: its update names no earlier status. *)
ConsumeAuthorization(c) ==
  LET r == requests[c]
      seen == r.view.auths[r.auth]
  IN
  /\ r # None /\ r.endpoint = "consume"
  /\ ~LockedByOther(c, <<"authorization", r.auth>>)
  /\ Return(c)
  /\ auths' = LET new == Consumed(r.view, seen) IN
              IF new = seen THEN auths
              ELSE [auths EXCEPT ![r.auth].status = new.status, ![r.auth].late = new.late,
                                 ![r.auth].uses = @ + (new.uses - seen.uses)]
  /\ UNCHANGED <<proposals, workflows, versions, missions, record, live>>

Verifies(c, a, token) ==
  /\ auths[a] # None /\ token \in 1 .. auths[a].uses
  /\ Begin(c, [endpoint |-> "verify", proposal |-> auths[a].proposal, auth |-> a,
               token |-> token, view |-> View])

Receipt(view, row, token) ==
  IF row.status # "Consumed" THEN row
  ELSE IF row.late THEN [row EXCEPT !.status = "Failed"]
  ELSE IF token # row.uses THEN row
  ELSE IF view.record.present THEN [row EXCEPT !.status = "Failed"]
  ELSE [row EXCEPT !.status = "Verified", !.absent = TRUE]

SealReceipt(c) ==
  LET r == requests[c]
      seen == r.view.auths[r.auth]
      new == Receipt(r.view, seen, r.token)
  IN
  /\ r # None /\ r.endpoint = "verify"
  /\ ~LockedByOther(c, <<"authorization", r.auth>>)
  /\ Return(c)
  /\ auths' = IF new = seen THEN auths
              ELSE [auths EXCEPT ![r.auth].status = new.status, ![r.auth].absent = new.absent]
  /\ UNCHANGED <<proposals, workflows, versions, missions, record, live>>

(* The time limit of an authorization, or of its verification, passes. *)
PassLimit(a) ==
  /\ auths[a] # None /\ auths[a].status \in {"Issued", "Consumed"} /\ ~auths[a].late
  /\ auths' = [auths EXCEPT ![a].late = TRUE]
  /\ UNCHANGED <<proposals, workflows, versions, missions, record, live, requests, changes>>

-----------------------------------------------------------------------------
(* Others: edits and native deletion of the record, changes of roles, of the
   requester's authority and of the form's schema. *)

Others(newRecord, newLive) ==
  /\ changes < MaxChanges /\ changes' = changes + 1
  /\ record' = newRecord /\ live' = newLive
  /\ UNCHANGED <<proposals, workflows, versions, missions, auths, requests>>

EditRecord == record.present /\ Others([record EXCEPT !.rev = @ + 1], live)
DeleteRecord == record.present /\ Others([record EXCEPT !.present = FALSE], live)
ChangeSchema == Others(record, [live EXCEPT !.schema = @ + 1])
RevokeAuthority == live.authorized /\ Others(record, [live EXCEPT !.authorized = FALSE])
RevokeRole(u) == u \in live.roles /\ Others(record, [live EXCEPT !.roles = @ \ {u}])

-----------------------------------------------------------------------------
Init ==
  /\ proposals = [p \in Proposals |-> None]
  /\ workflows = <<>> /\ versions = <<>>
  /\ missions = [k \in Keys |-> None]
  /\ auths = [a \in Auths |-> None]
  /\ record = [rev |-> 0, present |-> TRUE]
  /\ live = [authorized |-> TRUE, roles |-> Reviewers \cup {Requester}, schema |-> 0]
  /\ requests = [c \in Clients |-> None]
  /\ changes = 0

BeginRequest(c) ==
  \/ \E p \in Proposals :
       \/ \E o \in Operations : Plans(c, p, o)
       \/ \E u \in Reviewers \cup {Requester}, approve \in BOOLEAN : Reviews(c, u, p, approve)
       \/ Publishes(c, p)
       \/ \E k \in Keys : Starts(c, p, k)
       \/ \E a \in Auths : Issues(c, p, a)
  \/ \E a \in Auths : Consumes(c, a) \/ \E token \in 1 .. Cardinality(Clients) : Verifies(c, a, token)

EndRequest(c) ==
  \/ InsertProposal(c) \/ Decide(c) \/ PublishProposal(c) \/ StartMission(c)
  \/ InsertAuthorization(c) \/ ConsumeAuthorization(c) \/ SealReceipt(c) \/ Abort(c)

Next ==
  \/ \E c \in Clients : BeginRequest(c) \/ EndRequest(c)
  \/ \E w \in DOMAIN workflows : EditWorkflow(w) \/ PublishWorkflow(w)
  \/ \E a \in Auths : PassLimit(a)
  \/ EditRecord \/ DeleteRecord \/ ChangeSchema \/ RevokeAuthority
  \/ \E u \in Reviewers : RevokeRole(u)

Spec == Init /\ [][Next]_vars

-----------------------------------------------------------------------------
TypeOK ==
  /\ proposals \in [Proposals -> {None} \cup ProposalRow]
  /\ workflows \in Seq(WorkflowRow) /\ versions \in Seq(VersionRow)
  /\ missions \in [Keys -> {None} \cup MissionRow]
  /\ auths \in [Auths -> {None} \cup AuthRow]
  /\ record \in RecordType /\ live \in LiveType
  /\ requests \in [Clients -> {None} \cup Request]
  /\ changes \in 0 .. MaxChanges

(* A mission started from a proposal runs what was reviewed: the version it is
   pinned to holds that proposal's own graph and belongs to the proposal's own
   workflow, whatever was edited or published since. *)
MissionsRunTheReviewedGraph ==
  \A k \in Keys : missions[k] # None =>
    LET m == missions[k] IN
    /\ versions[m.version].content = m.proposal
    /\ versions[m.version].workflow = m.workflow

(* Every publication of a proposal rests on an approval of its own, although
   reviewers are not excluded while one of them, or a publication, is under way. *)
PublicationsAreApproved ==
  \A p \in Proposals :
    Cardinality({w \in DOMAIN workflows : workflows[w].label[1] = p})
      <= IF proposals[p] = None THEN 0 ELSE proposals[p].decisions

(* The evidence of a deletion, and of a change of an exact record, is a second
   person's: no authorization and no approval rests on the requester's own word.
   Rows and requests are of their types. *)
ApprovalsAreDual ==
  /\ TypeOK
  /\ \A p \in Proposals :
       proposals[p] # None /\ proposals[p].op \in {"update", "delete"}
         /\ proposals[p].status \in {"Approved", "Published"}
         => proposals[p].reviewer \notin {Requester, None}
  /\ \A a \in Auths : auths[a] # None => auths[a].proof[1] # Requester

(* "Consume exactly once": however many requests race for it, a delete authorization is
   consumed at most once; once sealed or expired it changes no more, and the receipt of a
   deletion is sealed only where the record was found absent. *)
ReceiptsAreFinal ==
  [][\A a \in Auths :
       auths[a] # None =>
         /\ auths'[a].uses <= 1
         /\ auths[a].status \in {"Verified", "Failed", "Expired"} => auths'[a] = auths[a]
         /\ auths'[a].status = "Verified" => auths'[a].uses > 0 /\ auths'[a].absent]_vars
=============================================================================
