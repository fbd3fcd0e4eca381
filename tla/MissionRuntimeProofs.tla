------------------------ MODULE MissionRuntimeProofs ------------------------
(***************************************************************************)
(* Proofs about MissionRuntime, and WorkProjection that extends it, for    *)
(* every number of effect nodes, workers, requests and approvers, every    *)
(* set of nodes and every bound; at the end, about the decisions that      *)
(* stand around a mission: DispatchAuthority and DocumentPermissions.      *)
(***************************************************************************)
EXTENDS WorkProjection, SequenceTheorems, FiniteSetTheorems, WellFoundedInduction, TLAPS

USE EffectNodesAssumption, BoundsAssumption, RedecideAssumption

(* Rows and snapshots refer to rows and events that exist. *)
Linked ==
  /\ \A a \in DOMAIN approvals : approvals[a].changeSet \in DOMAIN changeSets
  /\ \A v \in Approvers : approver[v].pc = "deciding" => approver[v].approval \in DOMAIN approvals
  /\ \A w \in Workers : worker[w].pc = "queued" =>
       worker[w].changeSets <= Len(changeSets) /\ Len(worker[w].decisions) <= Len(approvals)
  /\ \A w \in Workers : worker[w].pc \in {"projecting", "polling"} => worker[w].upTo <= Len(log)
  /\ \A s \in Sessions : session[s].pc = "projecting" => session[s].upTo <= Len(log)

TInv == TypeOK /\ Linked

-----------------------------------------------------------------------------
(* Facts about the types *)

(* The status maps send every gateway status to a status of its doctype. *)
LEMMA StatusMaps ==
  /\ \A g \in GatewayStatus : MissionStatus[g] \in MissionStatuses
  /\ {"absent", Waiting, "Queued", "Cancelled", "NeedsIntervention"} \subseteq MissionStatuses
  /\ "pending" \in GatewayStatus
  /\ \A k \in Nat, g \in GatewayStatus : [cursor |-> k, status |-> RunStatus[g]] \in RunType
  /\ \A k \in Nat : [cursor |-> k, status |-> "NeedsIntervention"] \in RunType
  /\ NoRun \in RunType
<1>1. GatewayStatus = {"pending", "running", "pause_requested", "paused", "cancel_requested",
        "cancelling", "cancelled", "compensation_running", "compensated", "needs_intervention",
        "failed", "completed"}
  BY DEF GatewayStatus, MissionStatus
<1>2. /\ MissionStatus["pending"] = "Queued" /\ MissionStatus["cancelled"] = "Cancelled"
      /\ MissionStatus["needs_intervention"] = "NeedsIntervention"
  BY DEF MissionStatus
<1>3. RunStatus["needs_intervention"] = "NeedsIntervention"
  BY DEF RunStatus
<1> QED BY <1>1, <1>2, <1>3 DEF MissionStatuses, RunType, NoRun

(* The status after a prefix of a log of gateway statuses is one of them. *)
LEMMA StatusAfterType ==
  ASSUME log \in Seq(GatewayStatus), NEW k \in Nat, k <= Len(log)
  PROVE  StatusAfter(k) \in GatewayStatus
BY StatusMaps, ElementOfSeq DEF StatusAfter

LEMMA SeenTyped == ASSUME TypeOK PROVE Seen \in SeenType
BY DEF TypeOK, Seen, SeenType

LEMMA ProjectType ==
  ASSUME TypeOK, NEW k \in Nat, k <= Len(log), Project(k)
  PROVE  /\ status' \in MissionStatuses /\ rootRun' \in BOOLEAN
         /\ run' \in RunType /\ activities' \subseteq Nat \ {0}
<1>1. StatusAfter(k) \in GatewayStatus
  BY StatusAfterType DEF TypeOK
<1>2. activities' \subseteq Nat \ {0}
  BY DEF TypeOK, Project
<1>3. PICK g \in GatewayStatus : g = StatusAfter(k)
  BY <1>1
<1>4. MissionStatus[g] \in MissionStatuses
  BY StatusMaps
<1>5. [cursor |-> k, status |-> RunStatus[g]] \in RunType
  BY StatusMaps
<1> QED BY <1>2, <1>3, <1>4, <1>5 DEF Project

(* What a worker in each state holds. *)
LEMMA WorkerFields ==
  ASSUME NEW r \in WorkerState
  PROVE  /\ r.pc = "queued" => r \in QueuedState
         /\ r.pc = "posting" => r \in PostingState
         /\ r.pc = "admitted" => r \in AdmittedState
         /\ r.pc \in {"projecting", "polling"} => r \in PollState
BY DEF WorkerState, QueuedState, PostingState, AdmittedState, PollState, RestState

LEMMA IdleTyped == Idle \in WorkerState /\ [pc |-> "following"] \in WorkerState /\ Idle.pc = "idle"
BY DEF Idle, WorkerState, RestState

(* A worker that takes a new state keeps the workers typed. *)
LEMMA WorkerMoves ==
  ASSUME worker \in [Workers -> WorkerState], NEW w \in Workers, NEW r \in WorkerState,
         worker' = [worker EXCEPT ![w] = r]
  PROVE  /\ worker' \in [Workers -> WorkerState]
         /\ worker'[w] = r /\ \A u \in Workers \ {w} : worker'[u] = worker[u]
OBVIOUS

(* A function from 1..n is a sequence. *)
LEMMA SeqOfFunction ==
  ASSUME NEW R, NEW n \in Nat, NEW f \in [1..n -> R] PROVE f \in Seq(R) /\ Len(f) = n
BY SeqDef, LenProperties

-----------------------------------------------------------------------------
(* Types and links are inductive *)

LEMMA InitTInv == Init => TInv
<1> SUFFICES ASSUME Init PROVE TInv
  OBVIOUS
<1>1. /\ status \in MissionStatuses /\ run \in RunType
      /\ changeSets \in Seq(ChangeSetType) /\ approvals \in Seq(ApprovalType) /\ log \in Seq(GatewayStatus)
  BY StatusMaps, EmptySeq DEF Init
<1>2. /\ worker \in [Workers -> WorkerState] /\ session \in [Sessions -> SessionState]
      /\ approver \in [Approvers -> ApproverState]
  BY IdleTyped DEF Init, SessionState, ApproverState
<1>3. Linked
  BY DEF Init, Linked, Idle
<1>4. epoch \in 0..MaxEpoch /\ follow \in 0..MaxFollow /\ faults \in 0..MaxFaults
  BY DEF Init
<1> QED BY <1>1, <1>2, <1>3, <1>4 DEF Init, TypeOK, TInv

(* A dispatch starts with copies of rows that exist. *)
LEMMA StartDispatchT == ASSUME TInv, NEW w \in Workers, StartDispatch(w) PROVE TInv'
<1> USE DEF TInv
<1>1. CASE worker' = worker
  BY <1>1 DEF StartDispatch, TypeOK, Linked, site, world
<1>2. CASE worker' # worker
  <2> DEFINE ds == [a \in 1..Len(approvals) |-> approvals[a].status]
             r(j) == [pc |-> "queued", job |-> j, epoch |-> epoch,
                       changeSets |-> Len(changeSets), decisions |-> ds, seen |-> Seen]
  <2>1. PICK j \in jobs : worker' = [worker EXCEPT ![w] = r(j)]
    BY <1>2 DEF StartDispatch
  <2>2. ds \in Seq(ApprovalStatus) /\ Len(ds) = Len(approvals)
    <3>1. \A a \in 1..Len(approvals) : approvals[a] \in ApprovalType
      BY ElementOfSeq DEF TypeOK
    <3>2. ds \in [1..Len(approvals) -> ApprovalStatus]
      BY <3>1 DEF ApprovalType
    <3>3. Len(approvals) \in Nat
      BY LenProperties DEF TypeOK
    <3> QED BY <3>2, <3>3, SeqOfFunction
  <2>3. r(j) \in QueuedState
    BY <2>2, SeenTyped, LenProperties DEF QueuedState, TypeOK
  <2>4. r(j) \in WorkerState
    BY <2>3 DEF WorkerState
  <2>5. TypeOK'
    BY <2>1, <2>4, WorkerMoves DEF StartDispatch, TypeOK, site, world
  <2>6. Linked'
    BY <2>1, <2>2, <2>4, WorkerMoves DEF StartDispatch, TypeOK, Linked, site, world
  <2> QED BY <2>5, <2>6
<1> QED BY <1>1, <1>2
(* A worker's step that touches no row, request, approval or log. *)
LEMMA OnlyWorkerT ==
  ASSUME TInv, NEW w \in Workers, NEW r \in WorkerState, worker' = [worker EXCEPT ![w] = r],
         r.pc # "queued",
         r.pc \in {"projecting", "polling"} => r.upTo <= Len(log),
         UNCHANGED <<site, jobs, session, approver, epoch, log, granted>>,
         follow' \in 0..MaxFollow, faults' \in 0..MaxFaults, admitted' \in BOOLEAN, plans' \subseteq Plans
  PROVE  TInv'
<1>1. TypeOK'
  BY WorkerMoves DEF TInv, TypeOK, site
<1>2. Linked'
  BY WorkerMoves DEF TInv, TypeOK, Linked, site
<1> QED BY <1>1, <1>2 DEF TInv

(* A job that commits a stop and ends. *)
LEMMA RecordFailureT ==
  ASSUME TInv, NEW w \in Workers, RecordFailure(w), UNCHANGED <<epoch, log, granted>>,
         rootRun' \in BOOLEAN, faults' \in 0..MaxFaults, admitted' \in BOOLEAN, plans' \subseteq Plans
  PROVE  TInv'
<1>1. TypeOK'
  BY WorkerMoves, IdleTyped, StatusMaps DEF TInv, TypeOK, RecordFailure
<1>2. Linked'
  BY WorkerMoves, IdleTyped DEF TInv, TypeOK, Linked, RecordFailure
<1> QED BY <1>1, <1>2 DEF TInv

LEMMA PrepareManifestT == ASSUME TInv, NEW w \in Workers, PrepareManifest(w) PROVE TInv'
<1> DEFINE r == [pc |-> "posting", job |-> worker[w].job, epoch |-> worker[w].epoch,
                 seen |-> worker[w].seen]
<1>1. worker[w] \in QueuedState
  BY WorkerFields DEF TInv, TypeOK, PrepareManifest
<1>2. r \in WorkerState
  BY <1>1 DEF QueuedState, PostingState, WorkerState
<1> QED BY <1>2, OnlyWorkerT DEF PrepareManifest, TInv, TypeOK, world

LEMMA AdmitT == ASSUME TInv, NEW w \in Workers, Admit(w) PROVE admitted' \in BOOLEAN /\ plans' \subseteq Plans
<1>1. worker[w].epoch \in 0..MaxEpoch
  BY WorkerFields DEF TInv, TypeOK, Admit, PostingState
<1> QED BY <1>1 DEF Admit, PlansAt, Plans, TInv, TypeOK

LEMMA PostAcceptedT == ASSUME TInv, NEW w \in Workers, PostAccepted(w) PROVE TInv'
<1> DEFINE r == [pc |-> "admitted", job |-> worker[w].job, seen |-> worker[w].seen]
<1>1. worker[w] \in PostingState
  BY WorkerFields DEF TInv, TypeOK, PostAccepted, Admit
<1>2. r \in WorkerState
  BY <1>1 DEF PostingState, AdmittedState, WorkerState
<1>3. admitted' \in BOOLEAN /\ plans' \subseteq Plans
  BY AdmitT DEF PostAccepted
<1> QED BY <1>2, <1>3, OnlyWorkerT DEF PostAccepted, Admit, TInv, TypeOK

(* A poll has fetched a prefix of the log. *)
LEMMA FetchT ==
  ASSUME TInv, NEW w \in Workers, NEW seen \in SeenType, NEW pc \in {"projecting", "polling"},
         worker' = [worker EXCEPT ![w] = [pc |-> pc, seen |-> seen, upTo |-> Len(log)]],
         UNCHANGED <<site, jobs, session, approver, world>>, follow' \in 0..MaxFollow
  PROVE  TInv'
<1> DEFINE r == [pc |-> pc, seen |-> seen, upTo |-> Len(log)]
<1>1. Len(log) \in Nat
  BY LenProperties DEF TInv, TypeOK
<1>2. r \in WorkerState
  BY <1>1 DEF PollState, WorkerState
<1>3. r.upTo <= Len(log) /\ r.pc # "queued"
  BY <1>1
<1>4. /\ UNCHANGED <<site, jobs, session, approver, epoch, log, granted>>
      /\ faults' \in 0..MaxFaults /\ admitted' \in BOOLEAN /\ plans' \subseteq Plans
  BY DEF world, TInv, TypeOK
<1> QED BY <1>2, <1>3, <1>4, OnlyWorkerT

LEMMA PollingT ==
  ASSUME TInv, NEW w \in Workers, FirstFetch(w) \/ PollAgain(w) \/ StartContinuation(w)
  PROVE  TInv'
<1>1. CASE FirstFetch(w)
  <2>1. worker[w] \in AdmittedState
    BY <1>1, WorkerFields DEF TInv, TypeOK, FirstFetch
  <2> QED BY <1>1, <2>1, FetchT DEF FirstFetch, AdmittedState, TInv, TypeOK
<1>2. CASE PollAgain(w)
  BY <1>2, SeenTyped, FetchT DEF PollAgain, Fetch, TInv, TypeOK
<1>3. CASE StartContinuation(w)
  <2>1. follow' \in 0..MaxFollow
    BY <1>3 DEF StartContinuation, TInv, TypeOK
  <2> QED BY <1>3, <2>1, SeenTyped, FetchT DEF StartContinuation, Fetch, TInv
<1> QED BY <1>1, <1>2, <1>3

LEMMA EndingT ==
  ASSUME TInv, NEW w \in Workers,
         HandOver(w) \/ StopFollowing(w) \/ PollCollides(w) \/ JobDies(w)
  PROVE  TInv'
<1>1. /\ worker' = [worker EXCEPT ![w] = Idle]
      /\ UNCHANGED <<site, jobs, session, approver, epoch, log, granted, admitted, plans>>
  BY DEF HandOver, StopFollowing, PollCollides, JobDies, world
<1>2. follow' \in 0..MaxFollow
  BY DEF HandOver, StopFollowing, PollCollides, JobDies, TInv, TypeOK
<1>3. faults' \in 0..MaxFaults
  BY DEF HandOver, StopFollowing, PollCollides, JobDies, TInv, TypeOK, world
<1> QED BY <1>1, <1>2, <1>3, IdleTyped, OnlyWorkerT DEF TInv, TypeOK

LEMMA CommitPollT == ASSUME TInv, NEW w \in Workers, CommitPoll(w) PROVE TInv'
<1>1. worker[w].upTo \in Nat /\ worker[w].upTo <= Len(log)
  BY WorkerFields DEF TInv, TypeOK, Linked, CommitPoll, PollState
<1>2. /\ status' \in MissionStatuses /\ rootRun' \in BOOLEAN
      /\ run' \in RunType /\ activities' \subseteq Nat \ {0}
  BY <1>1, ProjectType DEF TInv, CommitPoll
<1>3. TypeOK'
  BY <1>2, WorkerMoves, IdleTyped DEF TInv, TypeOK, CommitPoll, world
<1>4. Linked'
  BY WorkerMoves, IdleTyped DEF TInv, TypeOK, Linked, CommitPoll, world
<1> QED BY <1>3, <1>4 DEF TInv

LEMMA FaultT ==
  ASSUME TInv, NEW w \in Workers, PostLost(w) \/ DispatchRefused(w) \/ PollFails(w)
  PROVE  TInv'
<1>1. faults' \in 0..MaxFaults /\ RecordFailure(w) /\ UNCHANGED <<epoch, log, granted>>
  BY DEF PostLost, DispatchRefused, PollFails, Admit, TInv, TypeOK
<1>2. rootRun' \in BOOLEAN
  BY DEF PostLost, DispatchRefused, PollFails, TInv, TypeOK
<1>3. admitted' \in BOOLEAN /\ plans' \subseteq Plans
  BY AdmitT DEF PostLost, DispatchRefused, PollFails, TInv, TypeOK
<1> QED BY <1>1, <1>2, <1>3, RecordFailureT
(* An approval row keeps its change set and its life when it is marked. *)
LEMMA MarkedType ==
  ASSUME NEW row \in ApprovalType, NEW st \in ApprovalStatus
  PROVE  /\ Marked(row, st) \in ApprovalType
         /\ Marked(row, st).changeSet = row.changeSet /\ Marked(row, st).status = st
BY DEF Marked, ApprovalType

(* Rows are only added, and one becomes approved only by a grant. *)
RowsKept ==
  /\ \A c \in DOMAIN changeSets :
       c \in DOMAIN changeSets' /\ changeSets'[c].plan = changeSets[c].plan
  /\ \A a \in DOMAIN approvals :
       a \in DOMAIN approvals' /\ approvals'[a].changeSet = approvals[a].changeSet
  /\ \A a \in DOMAIN approvals' : approvals'[a].status = "Approved" =>
       /\ a \in DOMAIN approvals
       /\ \/ approvals[a].status = "Approved"
          \/ changeSets[approvals[a].changeSet].plan \in granted'
  /\ granted \subseteq granted'

(* Recording a plan adds at most one change set and one request for it. *)
LEMMA RecordPlanRows ==
  ASSUME TInv, NEW tx \in QueuedState, tx.changeSets <= Len(changeSets), NEW plan \in Plans,
         RecordPlan(plan, tx), UNCHANGED granted
  PROVE  /\ changeSets' \in Seq(ChangeSetType) /\ Len(changeSets) <= Len(changeSets')
         /\ approvals' \in Seq(ApprovalType) /\ Len(approvals) <= Len(approvals')
         /\ \A a \in DOMAIN approvals' : approvals'[a].changeSet \in 1..Len(changeSets')
         /\ RowsKept
<1> DEFINE settled == Settled(plan, tx)
<1>3. /\ Len(approvals) \in Nat /\ Len(changeSets) \in Nat
      /\ DOMAIN approvals = 1..Len(approvals) /\ DOMAIN changeSets = 1..Len(changeSets)
      /\ \A a \in 1..Len(approvals) : approvals[a] \in ApprovalType
  BY LenProperties, ElementOfSeq DEF TInv, TypeOK
<1>5. /\ settled \in Seq(ApprovalType) /\ Len(settled) = Len(approvals)
      /\ \A a \in 1..Len(approvals) :
           /\ settled[a].changeSet = approvals[a].changeSet
           /\ settled[a].status = "Approved" => approvals[a].status = "Approved"
  <2>1. \A a \in 1..Len(approvals) :
          /\ Marked(approvals[a], "Expired") \in ApprovalType
          /\ Marked(approvals[a], "Expired").changeSet = approvals[a].changeSet
          /\ Marked(approvals[a], "Expired").status = "Expired"
    BY <1>3, MarkedType DEF ApprovalStatus
  <2>2. \A a \in 1..Len(approvals) :
          settled[a] \in {approvals[a], Marked(approvals[a], "Expired")}
    BY DEF Settled
  <2>3. settled = [a \in 1..Len(approvals) |-> settled[a]]
    BY DEF Settled
  <2> HIDE DEF settled
  <2>4. settled \in [1..Len(approvals) -> ApprovalType]
    BY <1>3, <2>1, <2>2, <2>3
  <2>5. \A a \in 1..Len(approvals) :
           /\ settled[a].changeSet = approvals[a].changeSet
           /\ settled[a].status = "Approved" => approvals[a].status = "Approved"
    <3> SUFFICES ASSUME NEW a \in 1..Len(approvals)
                 PROVE /\ settled[a].changeSet = approvals[a].changeSet
                       /\ settled[a].status = "Approved" => approvals[a].status = "Approved"
      OBVIOUS
    <3>1. CASE settled[a] = approvals[a]
      BY <3>1
    <3>2. CASE settled[a] = Marked(approvals[a], "Expired")
      BY <2>1, <3>2
    <3> QED BY <2>2, <3>1, <3>2
  <2> QED BY <1>3, <2>4, <2>5, SeqOfFunction
<1>6. \A c : RequestApproval(plan, tx, c) =>
        approvals' = settled \/
        approvals' = Append(settled, [changeSet |-> c, status |-> "Pending", live |-> TRUE])
  BY DEF RequestApproval
<1> HIDE DEF settled
<1>7. PICK c \in Nat \ {0} :
        /\ \/ c <= Len(changeSets) /\ UNCHANGED changeSets
           \/ /\ c = Len(changeSets) + 1
              /\ changeSets' = Append(changeSets, [plan |-> plan, status |-> "AwaitingApproval"])
        /\ RequestApproval(plan, tx, c)
  <2>1. \A d \in ChangeSetFor(plan, tx.changeSets) : d \in Nat \ {0} /\ d <= Len(changeSets)
    BY <1>3 DEF ChangeSetFor, QueuedState
  <2>2. Len(changeSets) + 1 \in Nat \ {0}
    BY <1>3
  <2> QED BY <2>1, <2>2 DEF RecordPlan
<1>8. /\ changeSets' \in Seq(ChangeSetType) /\ Len(changeSets) <= Len(changeSets')
      /\ c <= Len(changeSets')
      /\ \A d \in DOMAIN changeSets : d \in DOMAIN changeSets' /\ changeSets'[d] = changeSets[d]
  <2>1. CASE c <= Len(changeSets) /\ UNCHANGED changeSets
    BY <1>3, <2>1 DEF TInv, TypeOK
  <2>2. CASE /\ c = Len(changeSets) + 1
             /\ changeSets' = Append(changeSets, [plan |-> plan, status |-> "AwaitingApproval"])
    <3>1. [plan |-> plan, status |-> "AwaitingApproval"] \in ChangeSetType
      BY DEF ChangeSetType
    <3>2. changeSets' \in Seq(ChangeSetType) /\ Len(changeSets') = Len(changeSets) + 1
      BY <2>2, <3>1, AppendProperties DEF TInv, TypeOK
    <3>3. \A d \in 1..Len(changeSets) : changeSets'[d] = changeSets[d]
      BY <2>2, <3>1, AppendProperties DEF TInv, TypeOK
    <3>4. DOMAIN changeSets' = 1..(Len(changeSets) + 1)
      BY <3>2, LenProperties
    <3> QED BY <1>3, <2>2, <3>2, <3>3, <3>4
  <2> QED BY <1>7, <2>1, <2>2
<1>9. /\ approvals' \in Seq(ApprovalType) /\ Len(approvals) <= Len(approvals')
      /\ \A a \in DOMAIN approvals' : approvals'[a].changeSet \in 1..Len(changeSets')
      /\ \A a \in DOMAIN approvals :
           a \in DOMAIN approvals' /\ approvals'[a].changeSet = approvals[a].changeSet
      /\ \A a \in DOMAIN approvals' : approvals'[a].status = "Approved" =>
           a \in DOMAIN approvals /\ approvals[a].status = "Approved"
  <2>1. \A a \in 1..Len(approvals) : settled[a].changeSet \in 1..Len(changeSets')
    BY <1>3, <1>5, <1>8, LenProperties DEF TInv, Linked
  <2>2. CASE approvals' = settled
    BY <1>3, <1>5, <2>1, <2>2, LenProperties
  <2>3. CASE approvals' = Append(settled, [changeSet |-> c, status |-> "Pending", live |-> TRUE])
    <3> DEFINE row == [changeSet |-> c, status |-> "Pending", live |-> TRUE]
    <3>1. row \in ApprovalType
      BY DEF ApprovalType, ApprovalStatus
    <3>2. /\ approvals' \in Seq(ApprovalType) /\ Len(approvals') = Len(approvals) + 1
          /\ approvals'[Len(approvals) + 1] = row
          /\ \A a \in 1..Len(approvals) : approvals'[a] = settled[a]
      BY <1>5, <2>3, <3>1, AppendProperties
    <3>3. c \in 1..Len(changeSets')
      BY <1>7, <1>8, LenProperties
    <3>4. \A a \in 1..(Len(approvals) + 1) : a \in 1..Len(approvals) \/ a = Len(approvals) + 1
      BY <1>3
    <3>5. DOMAIN approvals' = 1..(Len(approvals) + 1)
      BY <3>2, LenProperties
    <3>6. row.changeSet \in 1..Len(changeSets') /\ row.status = "Pending"
      BY <3>3
    <3> HIDE DEF row
    <3>7. \A a \in DOMAIN approvals' : approvals'[a].changeSet \in 1..Len(changeSets')
      BY <2>1, <3>2, <3>4, <3>5, <3>6
    <3>8. \A a \in DOMAIN approvals' : approvals'[a].status = "Approved" =>
           a \in DOMAIN approvals /\ approvals[a].status = "Approved"
      BY <1>3, <1>5, <3>2, <3>4, <3>5, <3>6
    <3>9. \A a \in DOMAIN approvals :
           a \in DOMAIN approvals' /\ approvals'[a].changeSet = approvals[a].changeSet
      BY <1>3, <1>5, <3>2, <3>5
    <3> QED BY <1>3, <3>2, <3>7, <3>8, <3>9
  <2> QED BY <1>6, <1>7, <2>2, <2>3
<1> QED BY <1>8, <1>9 DEF RowsKept

LEMMA AwaitApprovalRows ==
  ASSUME TInv, NEW w \in Workers, AwaitApproval(w)
  PROVE  /\ changeSets' \in Seq(ChangeSetType) /\ Len(changeSets) <= Len(changeSets')
         /\ approvals' \in Seq(ApprovalType) /\ Len(approvals) <= Len(approvals')
         /\ \A a \in DOMAIN approvals' : approvals'[a].changeSet \in 1..Len(changeSets')
         /\ RowsKept
<1>1. worker[w] \in QueuedState /\ worker[w].changeSets <= Len(changeSets)
  BY WorkerFields DEF TInv, TypeOK, Linked, AwaitApproval
<1>2. \A n \in Unapproved(worker[w]) : <<n, worker[w].epoch>> \in Plans
  BY <1>1 DEF Unapproved, Plans, QueuedState
<1> QED BY <1>1, <1>2, RecordPlanRows DEF AwaitApproval, world

LEMMA AwaitApprovalT == ASSUME TInv, NEW w \in Workers, AwaitApproval(w) PROVE TInv'
<1>1. TypeOK'
  BY AwaitApprovalRows, WorkerMoves, IdleTyped, StatusMaps DEF TInv, TypeOK, AwaitApproval, world
<1>2. Linked'
  <2>1. /\ UNCHANGED <<session, approver, log>>
        /\ worker'[w] = Idle /\ \A u \in Workers \ {w} : worker'[u] = worker[u]
    BY WorkerMoves, IdleTyped DEF TInv, TypeOK, AwaitApproval, world
  <2>2. DOMAIN approvals \subseteq DOMAIN approvals' /\ Len(changeSets') \in Nat /\ Len(approvals') \in Nat
        /\ DOMAIN changeSets' = 1..Len(changeSets')
    BY AwaitApprovalRows, LenProperties
  <2>3. \A u \in Workers : worker'[u].pc = "queued" =>
          worker'[u].changeSets <= Len(changeSets') /\ Len(worker'[u].decisions) <= Len(approvals')
    <3> SUFFICES ASSUME NEW u \in Workers, worker'[u].pc = "queued"
                 PROVE worker'[u].changeSets <= Len(changeSets') /\ Len(worker'[u].decisions) <= Len(approvals')
      OBVIOUS
    <3>1. u # w /\ worker'[u] = worker[u]
      BY <2>1, IdleTyped
    <3>2. worker[u] \in QueuedState
      BY <3>1, WorkerFields DEF TInv, TypeOK
    <3>3. worker[u].changeSets \in Nat /\ Len(worker[u].decisions) \in Nat
      BY <3>2, LenProperties DEF QueuedState
    <3> QED BY AwaitApprovalRows, <2>2, <3>1, <3>3 DEF TInv, Linked
  <2> QED BY AwaitApprovalRows, <2>1, <2>2, <2>3, IdleTyped DEF TInv, Linked
<1> QED BY <1>1, <1>2 DEF TInv

(* A request that has fetched a prefix of the log. *)
LEMMA RequestT == ASSUME TInv, NEW s \in Sessions, Sync(s) \/ Control(s) PROVE TInv'
<1>1. /\ log' \in Seq(GatewayStatus) /\ Len(log') \in Nat /\ Len(log) <= Len(log')
  <2>1. CASE UNCHANGED log
    BY <2>1, LenProperties DEF TInv, TypeOK
  <2>2. CASE \E g \in GatewayStatus : log' = Append(log, g)
    BY <2>2, AppendProperties, LenProperties DEF TInv, TypeOK
  <2> QED BY <2>1, <2>2 DEF Sync, Control, world
<1> DEFINE r == [pc |-> "projecting", seen |-> Seen, upTo |-> Len(log')]
<1>2. r \in SessionState
  BY <1>1, SeenTyped DEF SessionState, TInv
<1>3. session' = [session EXCEPT ![s] = r]
  BY DEF Sync, Control, world
<1>4. /\ session' \in [Sessions -> SessionState]
      /\ session'[s] = r /\ \A u \in Sessions \ {s} : session'[u] = session[u]
  BY <1>2, <1>3 DEF TInv, TypeOK
<1>5. UNCHANGED <<site, jobs, follow, worker, approver, epoch, admitted, plans, faults, granted>>
  BY DEF Sync, Control, world
<1>6. TypeOK'
  BY <1>1, <1>4, <1>5 DEF TInv, TypeOK, site
<1>7. Linked'
  <2>1. \A w \in Workers : worker[w].pc \in {"projecting", "polling"} => worker[w].upTo <= Len(log')
    <3> SUFFICES ASSUME NEW w \in Workers, worker[w].pc \in {"projecting", "polling"}
                 PROVE worker[w].upTo <= Len(log')
      OBVIOUS
    <3>1. worker[w].upTo \in Nat /\ worker[w].upTo <= Len(log) /\ Len(log) \in Nat
      BY WorkerFields, LenProperties DEF PollState, TInv, TypeOK, Linked
    <3> QED BY <1>1, <3>1
  <2>2. \A u \in Sessions : session'[u].pc = "projecting" => session'[u].upTo <= Len(log')
    <3> SUFFICES ASSUME NEW u \in Sessions, session'[u].pc = "projecting"
                 PROVE session'[u].upTo <= Len(log')
      OBVIOUS
    <3>1. CASE u = s
      BY <1>1, <1>4, <3>1
    <3>2. CASE u # s
      <4>1. session'[u] = session[u]
        BY <1>4, <3>2
      <4>2. session[u].upTo \in Nat /\ session[u].upTo <= Len(log) /\ Len(log) \in Nat
        BY <4>1, LenProperties DEF SessionState, TInv, TypeOK, Linked, Idle
      <4> QED BY <1>1, <4>1, <4>2
    <3> QED BY <3>1, <3>2
  <2> QED BY <1>5, <2>1, <2>2 DEF TInv, Linked, site
<1> QED BY <1>6, <1>7 DEF TInv

LEMMA CommitSyncT == ASSUME TInv, NEW s \in Sessions, CommitSync(s) PROVE TInv'
<1>1. session[s].upTo \in Nat /\ session[s].upTo <= Len(log)
  BY DEF TInv, TypeOK, Linked, CommitSync, SessionState, Idle
<1>2. /\ status' \in MissionStatuses /\ rootRun' \in BOOLEAN
      /\ run' \in RunType /\ activities' \subseteq Nat \ {0}
  BY <1>1, ProjectType DEF TInv, TypeOK, CommitSync
<1>3. /\ session' \in [Sessions -> SessionState]
      /\ session'[s].pc = "idle" /\ \A u \in Sessions \ {s} : session'[u] = session[u]
  BY IdleTyped DEF TInv, TypeOK, CommitSync, SessionState
<1>4. TypeOK'
  BY <1>2, <1>3 DEF TInv, TypeOK, CommitSync, world
<1>5. Linked'
  BY <1>3 DEF TInv, Linked, CommitSync, world
<1> QED BY <1>4, <1>5 DEF TInv

LEMMA DecideT == ASSUME TInv, NEW v \in Approvers, Decide(v) PROVE TInv'
<1>1. PICK a \in DOMAIN approvals, d \in {"Approved", "Rejected", "Revoked"} :
        approver' = [approver EXCEPT ![v] =
          [pc |-> "deciding", approval |-> a, from |-> approvals[a].status, to |-> d,
           mission |-> status]]
  BY DEF Decide
<1> DEFINE r == [pc |-> "deciding", approval |-> a, from |-> approvals[a].status, to |-> d,
                 mission |-> status]
<1>2. a \in Nat \ {0} /\ approvals[a].status \in ApprovalStatus
  <2>1. a \in 1..Len(approvals) /\ Len(approvals) \in Nat
    BY LenProperties DEF TInv, TypeOK
  <2>2. approvals[a] \in ApprovalType
    BY <2>1, ElementOfSeq DEF TInv, TypeOK
  <2> QED BY <2>1, <2>2 DEF ApprovalType
<1>3. r \in ApproverState
  BY <1>2 DEF ApproverState, TInv, TypeOK
<1>4. /\ approver' \in [Approvers -> ApproverState]
      /\ approver'[v] = r /\ \A u \in Approvers \ {v} : approver'[u] = approver[u]
  BY <1>1, <1>3 DEF TInv, TypeOK
<1>5. TypeOK'
  BY <1>4 DEF TInv, TypeOK, Decide, site, world
<1>6. Linked'
  BY <1>4 DEF TInv, Linked, Decide, site, world
<1> QED BY <1>5, <1>6 DEF TInv

LEMMA CommitDecisionT == ASSUME TInv, NEW v \in Approvers, CommitDecision(v) PROVE TInv'
<1> DEFINE tx == approver[v]
           row == approvals[tx.approval]
           cs == row.changeSet
<1>1. /\ tx.to \in {"Approved", "Rejected", "Revoked"} /\ tx.approval \in DOMAIN approvals
      /\ tx.approval \in Nat
  BY SMTT(30) DEF TInv, TypeOK, Linked, CommitDecision, ApproverState, Idle
<1>2. /\ row \in ApprovalType /\ cs \in DOMAIN changeSets
      /\ changeSets[cs] \in ChangeSetType
      /\ DOMAIN approvals = 1..Len(approvals) /\ DOMAIN changeSets = 1..Len(changeSets)
  BY <1>1, ElementOfSeq, LenProperties DEF TInv, TypeOK, Linked
<1>3. /\ approver' \in [Approvers -> ApproverState]
      /\ approver'[v].pc = "idle" /\ \A u \in Approvers \ {v} : approver'[u] = approver[u]
  BY IdleTyped DEF TInv, TypeOK, CommitDecision, ApproverState
<1>4. CASE row.status # tx.from
  BY <1>3, <1>4 DEF Stale, TInv, TypeOK, Linked, CommitDecision, site
<1>5. CASE row.status = tx.from
  <2>1. Marked(row, tx.to) \in ApprovalType /\ Marked(row, tx.to).changeSet = cs
    BY <1>1, <1>2, MarkedType DEF ApprovalStatus
  <2>2. /\ approvals' \in Seq(ApprovalType) /\ Len(approvals') = Len(approvals)
        /\ \A a \in DOMAIN approvals : approvals'[a].changeSet = approvals[a].changeSet
    <3>1. approvals' = [approvals EXCEPT ![tx.approval] = Marked(row, tx.to)]
      BY <1>5 DEF Stale, CommitDecision
    <3> QED BY <1>1, <1>2, <2>1, <3>1, ExceptSeq, LenProperties DEF TInv, TypeOK
  <2>3. changeSets' \in Seq(ChangeSetType) /\ Len(changeSets') = Len(changeSets)
    <3> DEFINE new == [plan |-> changeSets[cs].plan,
                       status |-> IF tx.to = "Approved" THEN "Approved" ELSE "Failed"]
    <3>1. new \in ChangeSetType
      BY <1>2 DEF ChangeSetType
    <3>2. changeSets' = changeSets \/ changeSets' = [changeSets EXCEPT ![cs] = new]
      BY <1>5 DEF Stale, CommitDecision
    <3>3. changeSets \in Seq(ChangeSetType) /\ cs \in 1..Len(changeSets)
      BY <1>2 DEF TInv, TypeOK
    <3> HIDE DEF new, cs
    <3> QED BY <3>1, <3>2, <3>3, ExceptSeq
  <2>4. status' \in MissionStatuses /\ jobs' \subseteq Nat /\ granted' \subseteq Plans
    <3>1. status' \in MissionStatuses
      BY <1>5, StatusMaps DEF Stale, CommitDecision, Moves, TInv, TypeOK
    <3>2. jobs' \subseteq Nat
      BY <1>1, <1>5 DEF Stale, CommitDecision, Enqueue, TInv, TypeOK
    <3>3. granted' \subseteq Plans
      <4>1. granted' \subseteq granted \cup {changeSets[cs].plan}
        BY <1>5 DEF Stale, CommitDecision
      <4>2. changeSets[cs].plan \in Plans
        BY <1>2 DEF ChangeSetType
      <4>3. granted \subseteq Plans
        BY DEF TInv, TypeOK
      <4> QED BY <4>1, <4>2, <4>3
    <3> QED BY <3>1, <3>2, <3>3
  <2>5. UNCHANGED <<rootRun, run, activities, follow, worker, session, epoch, admitted, plans, log, faults>>
    BY <1>5 DEF Stale, CommitDecision
  <2>6. TypeOK'
    BY <1>3, <2>2, <2>3, <2>4, <2>5 DEF TInv, TypeOK
  <2>7. DOMAIN approvals' = DOMAIN approvals /\ DOMAIN changeSets' = DOMAIN changeSets
    BY <2>2, <2>3, LenProperties DEF TInv, TypeOK
  <2>8. Linked'
    BY <1>3, <2>2, <2>3, <2>5, <2>7 DEF TInv, Linked
  <2> QED BY <2>6, <2>8 DEF TInv
<1> QED BY <1>4, <1>5

LEMMA EnvironmentT ==
  ASSUME TInv, CreateMission \/ ReconcileStaleRuns \/ GatewayEvent \/ Drift \/ Lapse PROVE TInv'
<1>1. CASE CreateMission
  BY <1>1, StatusMaps DEF CreateMission, TInv, TypeOK, Linked, world
<1>2. CASE ReconcileStaleRuns
  <2>1. run' \in RunType
    BY <1>2, StatusMaps DEF ReconcileStaleRuns, TInv, TypeOK, RunType
  <2> QED BY <1>2, <2>1 DEF ReconcileStaleRuns, TInv, TypeOK, Linked, procs, world
<1>3. CASE GatewayEvent
  <2>1. log' \in Seq(GatewayStatus) /\ Len(log') = Len(log) + 1 /\ Len(log) \in Nat
    BY <1>3, AppendProperties, LenProperties DEF GatewayEvent, TInv, TypeOK
  <2>2. TypeOK'
    BY <1>3, <2>1 DEF GatewayEvent, TInv, TypeOK, site, procs
  <2>3. \A w \in Workers : worker[w].pc \in {"projecting", "polling"} => worker[w].upTo <= Len(log')
    BY <2>1, WorkerFields DEF PollState, TInv, TypeOK, Linked
  <2>4. \A s \in Sessions : session[s].pc = "projecting" => session[s].upTo <= Len(log')
    BY <2>1 DEF SessionState, Idle, TInv, TypeOK, Linked
  <2> QED BY <1>3, <2>2, <2>3, <2>4 DEF GatewayEvent, TInv, Linked, site, procs
<1>4. CASE Drift
  BY <1>4 DEF Drift, TInv, TypeOK, Linked, site, procs
<1>5. CASE Lapse
  <2>1. PICK a \in DOMAIN approvals : approvals' = [approvals EXCEPT ![a] =
          [changeSet |-> approvals[a].changeSet, status |-> approvals[a].status, live |-> FALSE]]
    BY <1>5 DEF Lapse
  <2> DEFINE row == [changeSet |-> approvals[a].changeSet, status |-> approvals[a].status,
                     live |-> FALSE]
  <2>2. a \in 1..Len(approvals) /\ DOMAIN approvals = 1..Len(approvals) /\ approvals[a] \in ApprovalType
    BY ElementOfSeq, LenProperties DEF TInv, TypeOK
  <2>3. row \in ApprovalType
    BY <2>2 DEF ApprovalType
  <2>4. /\ approvals' \in Seq(ApprovalType) /\ Len(approvals') = Len(approvals)
        /\ \A b \in DOMAIN approvals : approvals'[b].changeSet = approvals[b].changeSet
    BY <2>1, <2>2, <2>3, ExceptSeq, LenProperties DEF TInv, TypeOK
  <2>5. DOMAIN approvals' = DOMAIN approvals
    BY <2>4, LenProperties DEF TInv, TypeOK
  <2>6. UNCHANGED <<status, rootRun, run, activities, changeSets, procs, world>>
    BY <1>5 DEF Lapse
  <2>7. TypeOK'
    BY <2>4, <2>6 DEF TInv, TypeOK, procs, world
  <2>8. Linked'
    BY <2>4, <2>5, <2>6 DEF TInv, Linked, procs, world
  <2> QED BY <2>7, <2>8 DEF TInv
<1> QED BY <1>1, <1>2, <1>3, <1>4, <1>5

LEMMA NextTInv == TInv /\ [Next]_vars => TInv'
<1> SUFFICES ASSUME TInv, [Next]_vars PROVE TInv'
  OBVIOUS
<1>1. ASSUME NEW w \in Workers, WorkerStep(w) \/ WorkerFault(w) PROVE TInv'
  BY <1>1, StartDispatchT, PrepareManifestT, AwaitApprovalT, PostAcceptedT, PollingT, EndingT,
     CommitPollT, FaultT DEF WorkerStep, WorkerFault
<1>2. ASSUME NEW s \in Sessions, Sync(s) \/ Control(s) \/ CommitSync(s) PROVE TInv'
  BY <1>2, RequestT, CommitSyncT
<1>3. ASSUME NEW v \in Approvers, Decide(v) \/ CommitDecision(v) PROVE TInv'
  BY <1>3, DecideT, CommitDecisionT
<1>4. CASE UNCHANGED vars
  BY <1>4 DEF vars, site, procs, world, TInv, TypeOK, Linked
<1> QED BY <1>1, <1>2, <1>3, <1>4, EnvironmentT DEF Next

(* Every state of every execution is typed: no snapshot, job or row is ever out
   of the range the code gives it. *)
THEOREM TypeCorrect == Spec => []TypeOK
<1>1. TInv => TypeOK
  BY DEF TInv
<1> QED BY <1>1, InitTInv, NextTInv, PTL DEF Spec
-----------------------------------------------------------------------------
(* Projections *)

(* What a step can do to what the contract speaks of: nothing, one event of the
   gateway, one projection of a prefix, one admission or one grant. *)
Still == UNCHANGED <<activities, admitted, plans, log, granted>>
         /\ run'.cursor = run.cursor /\ (status' = status \/ status' \notin {"Completed", "Failed"})
Happens == /\ admitted \/ rootRun
           /\ Len(log) < MaxEvents
           /\ \E g \in GatewayStatus : log' = Append(log, g)
           /\ UNCHANGED <<status, run, activities, admitted, plans, granted>>
ProjectsUpTo(k) == k <= Len(log) /\ Project(k) /\ UNCHANGED <<admitted, plans, log, granted>>
Admits(w) == Admit(w) /\ UNCHANGED <<run, activities>>
             /\ (status' = status \/ status' \notin {"Completed", "Failed"})
Grants == /\ \E p \in Plans : granted' = granted \cup {p}
          /\ UNCHANGED <<run, activities, admitted, plans, log>>
          /\ (status' = status \/ status' \notin {"Completed", "Failed"})

LEMMA Shapes ==
  ASSUME TInv, [Next]_vars
  PROVE  Still \/ Happens \/ (\E k \in Nat : ProjectsUpTo(k)) \/ (\E w \in Workers : Admits(w)) \/ Grants
<1>1. ASSUME NEW w \in Workers, WorkerStep(w)
      PROVE  Still \/ (\E k \in Nat : ProjectsUpTo(k)) \/ Admits(w)
  <2>1. CASE CommitPoll(w)
    <3>1. worker[w].upTo \in Nat /\ worker[w].upTo <= Len(log)
      BY <2>1, WorkerFields DEF TInv, TypeOK, Linked, CommitPoll, PollState
    <3> QED BY <2>1, <3>1 DEF CommitPoll, ProjectsUpTo, world
  <2>2. CASE PostAccepted(w)
    BY <2>2 DEF PostAccepted, Admits, site
  <2>3. CASE AwaitApproval(w)
    BY <2>3 DEF AwaitApproval, Still, Waiting, world
  <2>4. CASE StartDispatch(w) \/ PrepareManifest(w) \/ FirstFetch(w) \/ PollAgain(w) \/ HandOver(w)
             \/ StopFollowing(w) \/ StartContinuation(w) \/ PollCollides(w)
    BY <2>4 DEF StartDispatch, PrepareManifest, FirstFetch, PollAgain, HandOver, StopFollowing,
                StartContinuation, PollCollides, Still, site, world
  <2> QED BY <1>1, <2>1, <2>2, <2>3, <2>4 DEF WorkerStep
<1>2. ASSUME NEW w \in Workers, WorkerFault(w) PROVE Still \/ Admits(w)
  BY <1>2 DEF WorkerFault, PostLost, DispatchRefused, PollFails, JobDies, RecordFailure,
              Still, Admits, Admit, site
<1>3. ASSUME NEW s \in Sessions, Sync(s) \/ Control(s) \/ CommitSync(s)
      PROVE  Still \/ Happens \/ (\E k \in Nat : ProjectsUpTo(k))
  <2>1. CASE Sync(s)
    BY <2>1 DEF Sync, Still, site, world
  <2>2. CASE Control(s)
    BY <2>2 DEF Control, Happens, site
  <2>3. CASE CommitSync(s)
    <3>1. session[s].upTo \in Nat /\ session[s].upTo <= Len(log)
      BY <2>3 DEF TInv, TypeOK, Linked, CommitSync, SessionState, Idle
    <3> QED BY <2>3, <3>1 DEF CommitSync, Still, ProjectsUpTo, world
  <2> QED BY <1>3, <2>1, <2>2, <2>3
<1>4. ASSUME NEW v \in Approvers, Decide(v) \/ CommitDecision(v) PROVE Still \/ Grants
  <2>1. CASE Decide(v)
    BY <2>1 DEF Decide, Still, site, world
  <2>2. CASE CommitDecision(v)
    <3> DEFINE tx == approver[v]
               plan == changeSets[approvals[tx.approval].changeSet].plan
    <3>1. /\ UNCHANGED <<run, activities, admitted, plans, log>>
          /\ (status' = status \/ status' \notin {"Completed", "Failed"})
          /\ granted' = granted \/ granted' = granted \cup {plan}
      BY <2>2 DEF Stale, CommitDecision, site
    <3>2. plan \in Plans
      <4>1. tx.approval \in DOMAIN approvals
        BY <2>2 DEF TInv, Linked, CommitDecision
      <4>2. approvals[tx.approval].changeSet \in DOMAIN changeSets
        BY <4>1 DEF TInv, Linked
      <4>3. changeSets[approvals[tx.approval].changeSet] \in ChangeSetType
        BY <4>2, ElementOfSeq, LenProperties DEF TInv, TypeOK
      <4> QED BY <4>3 DEF ChangeSetType
    <3> QED BY <3>1, <3>2 DEF Still, Grants
  <2> QED BY <1>4, <2>1, <2>2
<1>5. CASE CreateMission \/ ReconcileStaleRuns \/ Drift \/ Lapse \/ UNCHANGED vars
  <2>1. CASE CreateMission
    BY <2>1 DEF CreateMission, Still, world
  <2>2. CASE ReconcileStaleRuns
    BY <2>2 DEF ReconcileStaleRuns, Still, procs, world
  <2>3. CASE Drift
    BY <2>3 DEF Drift, Still, site
  <2>4. CASE Lapse
    BY <2>4 DEF Lapse, Still, world
  <2>5. CASE UNCHANGED vars
    BY <2>5 DEF Still, vars, site, world
  <2> QED BY <1>5, <2>1, <2>2, <2>3, <2>4, <2>5
<1>6. CASE GatewayEvent
  BY <1>6 DEF GatewayEvent, Happens, site, procs
<1> QED BY <1>1, <1>2, <1>3, <1>4, <1>5, <1>6 DEF Next

(* The log only grows. *)
LEMMA LogKept ==
  ASSUME TInv, [Next]_vars
  PROVE  /\ Len(log) \in Nat /\ Len(log') \in Nat /\ Len(log) <= Len(log')
         /\ \A e \in 1..Len(log) : log'[e] = log[e]
<1>1. CASE UNCHANGED log
  BY <1>1, LenProperties DEF TInv, TypeOK
<1>2. CASE \E g \in GatewayStatus : log' = Append(log, g)
  BY <1>2, AppendProperties, LenProperties DEF TInv, TypeOK
<1> QED BY <1>1, <1>2, Shapes DEF Still, Happens, ProjectsUpTo, Admits, Admit, Grants

(* Projecting one prefix after another leaves a prefix. *)
LEMMA PrefixUnion ==
  ASSUME NEW k \in Nat, NEW j \in Nat
  PROVE  1..k \cup 1..j = IF k <= j THEN 1..j ELSE 1..k
OBVIOUS

LEMMA NextProjectedPrefix == TInv /\ ProjectedPrefix /\ [Next]_vars => ProjectedPrefix'
<1> SUFFICES ASSUME TInv, ProjectedPrefix, [Next]_vars PROVE ProjectedPrefix'
  OBVIOUS
<1>1. PICK k \in 0..Len(log) : activities = 1..k /\ run.cursor <= k
  BY DEF ProjectedPrefix
<1>2. Len(log) \in Nat /\ Len(log') \in Nat /\ Len(log) <= Len(log') /\ k \in 0..Len(log')
  BY LogKept
<1>3. CASE \E j \in Nat : ProjectsUpTo(j)
  <2>1. PICK j \in Nat : ProjectsUpTo(j)
    BY <1>3
  <2>2. j <= Len(log) /\ activities' = 1..k \cup 1..j /\ run'.cursor = j /\ log' = log
    BY <1>1, <2>1 DEF ProjectsUpTo, Project
  <2>3. CASE k <= j
    BY <1>2, <2>2, <2>3, PrefixUnion DEF ProjectedPrefix
  <2>4. CASE j < k
    BY <1>2, <2>2, <2>4, PrefixUnion DEF ProjectedPrefix
  <2> QED BY <1>2, <2>3, <2>4
<1>4. CASE activities' = activities /\ run'.cursor = run.cursor
  BY <1>1, <1>2, <1>4 DEF ProjectedPrefix
<1> QED BY <1>3, <1>4, Shapes DEF Still, Happens, Admits, Grants

(* However the projections of jobs and requests interleave, fail and go stale,
   the stored activities are a gapless prefix of the gateway's log. *)
THEOREM PrefixCorrect == Spec => []ProjectedPrefix
<1>1. Init => ProjectedPrefix
  BY EmptySeq DEF Init, ProjectedPrefix, NoRun
<1> QED BY <1>1, InitTInv, NextTInv, NextProjectedPrefix, PTL DEF Spec

LEMMA NextGenuineOutcome ==
  TInv /\ ProjectedPrefix /\ GenuineOutcome /\ [Next]_vars => GenuineOutcome'
<1> SUFFICES ASSUME TInv, ProjectedPrefix, GenuineOutcome, [Next]_vars,
                    status' \in {"Completed", "Failed"}
             PROVE  \E e \in activities' : MissionStatus[log'[e]] = status'
  BY NextTInv DEF GenuineOutcome, TInv
<1>1. activities \subseteq 1..Len(log)
  BY LenProperties DEF ProjectedPrefix, TInv, TypeOK
<1>2. CASE \E k \in Nat : ProjectsUpTo(k)
  <2>1. PICK k \in Nat : ProjectsUpTo(k)
    BY <1>2
  <2>2. status' = MissionStatus[StatusAfter(k)] /\ log' = log /\ 1..k \subseteq activities'
    BY <2>1 DEF ProjectsUpTo, Project
  <2>3. k # 0
    BY <2>2 DEF StatusAfter, MissionStatus
  <2>4. k \in activities' /\ StatusAfter(k) = log'[k]
    BY <2>2, <2>3 DEF StatusAfter
  <2> QED BY <2>2, <2>4
<1>3. CASE status' = status /\ activities' = activities
  <2>1. PICK e \in activities : MissionStatus[log[e]] = status
    BY <1>3 DEF GenuineOutcome
  <2>2. log'[e] = log[e]
    BY <1>1, <2>1, LogKept
  <2> QED BY <1>3, <2>1, <2>2
<1> QED BY <1>2, <1>3, Shapes DEF Still, Happens, Admits, Grants

(* The site never reports a Completed or Failed the gateway did not log. *)
THEOREM OutcomeCorrect == Spec => []GenuineOutcome
<1>1. Init => GenuineOutcome /\ ProjectedPrefix
  BY EmptySeq, InitTInv DEF Init, GenuineOutcome, ProjectedPrefix, NoRun, TInv
<1> QED BY <1>1, InitTInv, NextTInv, NextProjectedPrefix, NextGenuineOutcome, PTL DEF Spec

-----------------------------------------------------------------------------
(* Only approved plans are executed *)

PlanOf(a) == changeSets[approvals[a].changeSet].plan

(* Grants are never forgotten: not by the rows, nor by the snapshots of the
   dispatch jobs, nor by the envelopes built from them. *)
Granted ==
  /\ \A a \in DOMAIN approvals : approvals[a].status = "Approved" => PlanOf(a) \in granted
  /\ \A w \in Workers : worker[w].pc = "queued" =>
       \A a \in DOMAIN worker[w].decisions :
         worker[w].decisions[a] = "Approved" => PlanOf(a) \in granted
  /\ \A w \in Workers : worker[w].pc = "posting" => PlansAt(worker[w].epoch) \subseteq granted
  /\ OnlyApprovedPlans

LEMMA NextRowsKept == TInv /\ [Next]_vars => RowsKept
<1> SUFFICES ASSUME TInv, [Next]_vars PROVE RowsKept
  OBVIOUS
<1>1. CASE UNCHANGED <<approvals, changeSets, granted>>
  BY <1>1 DEF RowsKept
<1>2. ASSUME NEW w \in Workers, WorkerStep(w) PROVE RowsKept
  <2>1. CASE AwaitApproval(w)
    BY <2>1, AwaitApprovalRows
  <2>2. CASE ~AwaitApproval(w)
    <3>1. UNCHANGED <<approvals, changeSets, granted>>
      BY <1>2, <2>2 DEF WorkerStep, StartDispatch, PrepareManifest, PostAccepted, Admit, FirstFetch,
           PollAgain, HandOver, StopFollowing, StartContinuation, CommitPoll, PollCollides, site, world
    <3> QED BY <3>1, <1>1
  <2> QED BY <2>1, <2>2
<1>3. ASSUME NEW w \in Workers, WorkerFault(w) PROVE RowsKept
  BY <1>1, <1>3 DEF WorkerFault, PostLost, Admit, DispatchRefused, PollFails, JobDies, RecordFailure, site
<1>4. ASSUME NEW s \in Sessions, Sync(s) \/ Control(s) \/ CommitSync(s) PROVE RowsKept
  BY <1>1, <1>4 DEF Sync, Control, CommitSync, site, world
<1>5. ASSUME NEW v \in Approvers, Decide(v) PROVE RowsKept
  BY <1>1, <1>5 DEF Decide, site, world
<1>6. ASSUME NEW v \in Approvers, CommitDecision(v) PROVE RowsKept
  <2> DEFINE tx == approver[v]
             row == approvals[tx.approval]
             cs == row.changeSet
  <2>1. CASE row.status # tx.from
    BY <1>1, <1>6, <2>1 DEF Stale, CommitDecision, site
  <2>2. CASE row.status = tx.from
    <3>1. /\ tx.approval \in DOMAIN approvals /\ cs \in DOMAIN changeSets
          /\ tx.to \in {"Approved", "Rejected", "Revoked"}
      BY SMTT(30), <1>6 DEF TInv, TypeOK, Linked, CommitDecision, ApproverState, Idle
    <3>2. approvals' = [approvals EXCEPT ![tx.approval] = Marked(row, tx.to)]
      BY <1>6, <2>2 DEF Stale, CommitDecision
    <3>3. /\ Marked(row, tx.to).changeSet = cs
          /\ Marked(row, tx.to).status = tx.to
      BY DEF Marked
    <3>4. /\ DOMAIN approvals' = DOMAIN approvals
          /\ approvals'[tx.approval] = Marked(row, tx.to)
          /\ \A a \in DOMAIN approvals \ {tx.approval} : approvals'[a] = approvals[a]
      BY <3>1, <3>2
    <3>5. \A c \in DOMAIN changeSets : c \in DOMAIN changeSets' /\ changeSets'[c].plan = changeSets[c].plan
      <4> DEFINE new == [plan |-> changeSets[cs].plan,
                         status |-> IF tx.to = "Approved" THEN "Approved" ELSE "Failed"]
      <4>1. changeSets' = changeSets \/ changeSets' = [changeSets EXCEPT ![cs] = new]
        BY <1>6, <2>2 DEF Stale, CommitDecision
      <4>2. new.plan = changeSets[cs].plan
        OBVIOUS
      <4> HIDE DEF new, cs
      <4> QED BY <4>1, <4>2
    <3>6. /\ tx.to = "Approved" => changeSets[cs].plan \in granted'
          /\ granted \subseteq granted'
      BY <1>6, <2>2 DEF Stale, CommitDecision
    <3> QED BY <3>1, <3>3, <3>4, <3>5, <3>6 DEF RowsKept
  <2> QED BY <2>1, <2>2
<1>7. CASE Lapse
  <2>1. PICK a \in DOMAIN approvals : approvals' = [approvals EXCEPT ![a] =
          [changeSet |-> approvals[a].changeSet, status |-> approvals[a].status, live |-> FALSE]]
    BY <1>7 DEF Lapse
  <2> DEFINE row == [changeSet |-> approvals[a].changeSet, status |-> approvals[a].status,
                     live |-> FALSE]
  <2>2. row.changeSet = approvals[a].changeSet /\ row.status = approvals[a].status
    OBVIOUS
  <2>3. /\ DOMAIN approvals' = DOMAIN approvals /\ approvals'[a] = row
        /\ \A b \in DOMAIN approvals \ {a} : approvals'[b] = approvals[b]
    BY <2>1
  <2>4. UNCHANGED <<changeSets, granted>>
    BY <1>7 DEF Lapse, world
  <2> HIDE DEF row
  <2> QED BY <2>2, <2>3, <2>4 DEF RowsKept
<1>8. CASE CreateMission \/ ReconcileStaleRuns \/ GatewayEvent \/ Drift \/ UNCHANGED vars
  <2>1. UNCHANGED <<approvals, changeSets, granted>>
    BY <1>8 DEF CreateMission, ReconcileStaleRuns, GatewayEvent, Drift, vars, site, procs, world
  <2> QED BY <2>1, <1>1
<1> QED BY <1>2, <1>3, <1>4, <1>5, <1>6, <1>7, <1>8 DEF Next

(* A worker newly holds a snapshot only as it starts a dispatch, and an envelope
   only when it found every plan of it approved. *)
LEMMA WorkerHolds ==
  ASSUME TInv, [Next]_vars, NEW u \in Workers
  PROVE  /\ worker'[u].pc = "queued" =>
              worker'[u] = worker[u]
              \/ worker'[u].decisions = [a \in 1..Len(approvals) |-> approvals[a].status]
         /\ worker'[u].pc = "posting" => worker'[u] = worker[u] \/ PrepareManifest(u)
<1>1. CASE worker'[u] = worker[u]
  BY <1>1
<1>2. CASE worker'[u].pc \notin {"queued", "posting"}
  BY <1>2
<1>3. ASSUME NEW w \in Workers, WorkerStep(w) \/ WorkerFault(w), u # w PROVE worker'[u] = worker[u]
  BY <1>3 DEF WorkerStep, WorkerFault, StartDispatch, PrepareManifest, AwaitApproval, PostAccepted,
       FirstFetch, PollAgain, HandOver, StopFollowing, StartContinuation, Fetch, CommitPoll,
       PollCollides, PostLost, DispatchRefused, PollFails, JobDies, RecordFailure, TInv, TypeOK
<1>4. CASE StartDispatch(u)
  <2> DEFINE ds == [a \in 1..Len(approvals) |-> approvals[a].status]
             r(j) == [pc |-> "queued", job |-> j, epoch |-> epoch,
                       changeSets |-> Len(changeSets), decisions |-> ds, seen |-> Seen]
  <2>1. CASE worker' = worker
    BY <1>1, <2>1
  <2>2. CASE worker' # worker
    <3>1. PICK j \in jobs : worker' = [worker EXCEPT ![u] = r(j)]
      BY <1>4, <2>2 DEF StartDispatch
    <3>2. worker'[u] = r(j)
      BY <3>1 DEF TInv, TypeOK
    <3>3. r(j).decisions = ds /\ r(j).pc = "queued"
      OBVIOUS
    <3> HIDE DEF r
    <3> QED BY <3>2, <3>3
  <2> QED BY <2>1, <2>2
<1>5. CASE PrepareManifest(u)
  BY <1>5 DEF PrepareManifest, TInv, TypeOK
<1>6. CASE /\ WorkerStep(u) \/ WorkerFault(u)
           /\ ~StartDispatch(u) /\ ~PrepareManifest(u)
  <2>1. worker'[u].pc \notin {"queued", "posting"}
    BY SMTT(30), <1>6 DEF WorkerStep, WorkerFault, AwaitApproval, PostAccepted,
       FirstFetch, PollAgain, HandOver, StopFollowing, StartContinuation, Fetch, CommitPoll,
       PollCollides, PostLost, DispatchRefused, PollFails, JobDies, RecordFailure, TInv, TypeOK, Idle
  <2> QED BY <2>1, <1>2
<1>7. ASSUME NEW s \in Sessions, Sync(s) \/ Control(s) \/ CommitSync(s) PROVE worker'[u] = worker[u]
  BY <1>7 DEF Sync, Control, CommitSync
<1>8. ASSUME NEW v \in Approvers, Decide(v) \/ CommitDecision(v) PROVE worker'[u] = worker[u]
  BY <1>8 DEF Decide, CommitDecision
<1>9. CASE CreateMission \/ ReconcileStaleRuns \/ GatewayEvent \/ Drift \/ Lapse \/ UNCHANGED vars
  BY <1>1, <1>9 DEF CreateMission, ReconcileStaleRuns, GatewayEvent, Drift, Lapse, vars, procs
<1> QED BY <1>1, <1>3, <1>4, <1>5, <1>6, <1>7, <1>8, <1>9 DEF Next

(* The envelope of a dispatch whose plans are all approved in its snapshot. *)
LEMMA PreparedPlans ==
  ASSUME TInv, Granted, NEW w \in Workers, PrepareManifest(w)
  PROVE  PlansAt(worker[w].epoch) \subseteq granted
<1> DEFINE tx == worker[w]
<1> SUFFICES ASSUME NEW n \in Nodes PROVE <<n, tx.epoch>> \in granted
  BY DEF PlansAt
<1>1. PlanApproved(<<n, tx.epoch>>, tx)
  BY DEF PrepareManifest, Unapproved
<1>2. PICK a \in DOMAIN tx.decisions :
        tx.decisions[a] = "Approved" /\ approvals[a].changeSet \in ChangeSetFor(<<n, tx.epoch>>, tx.changeSets)
  BY <1>1 DEF PlanApproved, ApprovalsOf
<1>3. PlanOf(a) = <<n, tx.epoch>>
  BY <1>2 DEF ChangeSetFor, PlanOf
<1> QED BY <1>2, <1>3 DEF Granted, PrepareManifest

LEMMA NextGranted == TInv /\ Granted /\ [Next]_vars => Granted'
<1> SUFFICES ASSUME TInv, Granted, [Next]_vars PROVE Granted'
  OBVIOUS
<1>1. RowsKept
  BY NextRowsKept
<1>2. \A a \in DOMAIN approvals : PlanOf(a)' = PlanOf(a)
  <2> SUFFICES ASSUME NEW a \in DOMAIN approvals PROVE PlanOf(a)' = PlanOf(a)
    OBVIOUS
  <2>1. approvals[a].changeSet \in DOMAIN changeSets
    BY DEF TInv, Linked
  <2> QED BY <1>1, <2>1 DEF RowsKept, PlanOf
<1>3. ASSUME NEW a \in DOMAIN approvals', approvals'[a].status = "Approved" PROVE PlanOf(a)' \in granted'
  BY <1>1, <1>2, <1>3 DEF RowsKept, Granted, PlanOf
<1>4. ASSUME NEW w \in Workers, worker'[w].pc = "queued", NEW a \in DOMAIN worker'[w].decisions,
             worker'[w].decisions[a] = "Approved"
      PROVE  PlanOf(a)' \in granted'
  <2>1. CASE worker'[w] = worker[w]
    <3>1. worker[w] \in QueuedState /\ Len(worker[w].decisions) <= Len(approvals)
      BY <1>4, <2>1, WorkerFields DEF TInv, TypeOK, Linked
    <3>2. a \in 1..Len(worker[w].decisions) /\ Len(worker[w].decisions) \in Nat /\ Len(approvals) \in Nat
      BY <1>4, <2>1, <3>1, LenProperties DEF QueuedState, TInv, TypeOK
    <3>3. a \in DOMAIN approvals
      BY <3>1, <3>2, LenProperties DEF TInv, TypeOK
    <3>4. PlanOf(a) \in granted
      BY <1>4, <2>1 DEF Granted
    <3> QED BY <1>1, <1>2, <3>3, <3>4 DEF RowsKept
  <2>2. CASE worker'[w].decisions = [b \in 1..Len(approvals) |-> approvals[b].status]
    <3>1. a \in DOMAIN approvals /\ approvals[a].status = "Approved"
      BY <1>4, <2>2, LenProperties DEF TInv, TypeOK
    <3> QED BY <1>1, <1>2, <3>1 DEF RowsKept, Granted
  <2> QED BY <1>4, <2>1, <2>2, WorkerHolds
<1>5. ASSUME NEW w \in Workers, worker'[w].pc = "posting" PROVE PlansAt(worker'[w].epoch) \subseteq granted'
  <2>1. CASE worker'[w] = worker[w]
    BY <1>1, <1>5, <2>1 DEF RowsKept, Granted
  <2>2. CASE PrepareManifest(w)
    <3>1. worker'[w].epoch = worker[w].epoch
      BY <2>2 DEF PrepareManifest, TInv, TypeOK
    <3> QED BY <1>1, <2>2, <3>1, PreparedPlans DEF RowsKept
  <2> QED BY <1>5, <2>1, <2>2, WorkerHolds
<1>6. OnlyApprovedPlans'
  <2>1. CASE plans' = plans
    BY <1>1, <2>1 DEF RowsKept, Granted, OnlyApprovedPlans
  <2>2. ASSUME NEW w \in Workers, Admits(w) PROVE OnlyApprovedPlans'
    BY <2>1, <2>2 DEF Admits, Admit, Granted, OnlyApprovedPlans
  <2> QED BY <2>1, <2>2, Shapes DEF Still, Happens, ProjectsUpTo, Grants
<1> QED BY <1>3, <1>4, <1>5, <1>6 DEF Granted, PlansAt

LEMMA InitGranted == Init => Granted
BY EmptySeq DEF Init, Granted, Idle, OnlyApprovedPlans

(* The gateway admits no plan an approver did not approve for that version of
   permissions, schema and data, whatever drifts, lapses or is decided again
   between the snapshot of a dispatch and its POST. *)
THEOREM ApprovalGate == Spec => []OnlyApprovedPlans
<1>1. Granted => OnlyApprovedPlans
  BY DEF Granted
<1> QED BY <1>1, InitTInv, NextTInv, InitGranted, NextGranted, PTL DEF Spec

-----------------------------------------------------------------------------
(* The runtime implements the contract *)

(* Whatever speaks of the gateway's root run comes after its admission. *)
Admitted ==
  /\ rootRun \/ follow > 0 => admitted
  /\ \A w \in Workers :
       worker[w].pc \in {"admitted", "projecting", "polling", "following"} => admitted
  /\ \A s \in Sessions : session[s].pc = "projecting" => admitted

LEMMA NextAdmitted == TInv /\ Admitted /\ [Next]_vars => Admitted'
<1> SUFFICES ASSUME TInv, Admitted, [Next]_vars PROVE Admitted'
  OBVIOUS
<1> USE DEF TInv, TypeOK, Admitted
<1>1. ASSUME NEW w \in Workers, WorkerStep(w) PROVE Admitted'
  <2>1. CASE StartDispatch(w)
    BY <2>1 DEF StartDispatch, site, world
  <2>2. CASE PrepareManifest(w) \/ AwaitApproval(w)
    <3>1. CASE PrepareManifest(w)
      BY <3>1 DEF PrepareManifest, site, world
    <3>2. CASE AwaitApproval(w)
      <4>1. /\ worker' = [worker EXCEPT ![w] = Idle]
            /\ UNCHANGED <<rootRun, follow, session, admitted>>
        BY <3>2 DEF AwaitApproval, world
      <4> QED BY <4>1, IdleTyped
    <3> QED BY <2>2, <3>1, <3>2
  <2>3. CASE PostAccepted(w)
    BY <2>3 DEF PostAccepted, Admit, site
  <2>4. CASE FirstFetch(w) \/ PollAgain(w) \/ StartContinuation(w)
    BY <2>4 DEF FirstFetch, PollAgain, StartContinuation, Fetch, site, world
  <2>5. CASE HandOver(w) \/ StopFollowing(w) \/ PollCollides(w)
    BY <2>5 DEF HandOver, StopFollowing, PollCollides, Idle, site, world
  <2>6. CASE CommitPoll(w)
    BY <2>6 DEF CommitPoll, Project, world
  <2> QED BY <1>1, <2>1, <2>2, <2>3, <2>4, <2>5, <2>6 DEF WorkerStep
<1>2. ASSUME NEW w \in Workers, WorkerFault(w) PROVE Admitted'
  <2>1. /\ worker' = [worker EXCEPT ![w] = Idle]
        /\ UNCHANGED <<follow, session>>
        /\ admitted => admitted'
        /\ rootRun' => rootRun \/ admitted
    <3>1. CASE PostLost(w)
      BY <3>1 DEF PostLost, Admit, RecordFailure
    <3>2. CASE DispatchRefused(w)
      BY <3>2 DEF DispatchRefused, RecordFailure
    <3>3. CASE PollFails(w)
      BY <3>3 DEF PollFails, RecordFailure
    <3>4. CASE JobDies(w)
      BY <3>4 DEF JobDies, site
    <3> QED BY <1>2, <3>1, <3>2, <3>3, <3>4 DEF WorkerFault
  <2>2. rootRun' => admitted'
    BY <2>1
  <2> QED BY <2>1, <2>2, IdleTyped
<1>3. ASSUME NEW s \in Sessions, Sync(s) \/ Control(s) \/ CommitSync(s) PROVE Admitted'
  BY <1>3 DEF Sync, Control, CommitSync, Project, Idle, site, world
<1>4. ASSUME NEW v \in Approvers, Decide(v) \/ CommitDecision(v) PROVE Admitted'
  BY <1>4 DEF Decide, CommitDecision, site, world
<1>5. CASE CreateMission \/ ReconcileStaleRuns \/ GatewayEvent \/ Drift \/ Lapse \/ UNCHANGED vars
  <2>1. UNCHANGED <<rootRun, follow, worker, session, admitted>>
    <3>1. CASE CreateMission \/ ReconcileStaleRuns
      BY <3>1 DEF CreateMission, ReconcileStaleRuns, procs, world
    <3>2. CASE GatewayEvent \/ Drift
      BY <3>2 DEF GatewayEvent, Drift, site, procs
    <3>3. CASE Lapse \/ UNCHANGED vars
      BY <3>3 DEF Lapse, vars, site, procs, world
    <3> QED BY <1>5, <3>1, <3>2, <3>3
  <2> QED BY <2>1
<1> QED BY <1>1, <1>2, <1>3, <1>4, <1>5 DEF Next

LEMMA InitAdmitted == Init => Admitted
BY DEF Init, Admitted, Idle

IInv == TInv /\ ProjectedPrefix /\ Granted /\ Admitted

LEMMA InitIInv == Init => IInv
<1>1. Init => ProjectedPrefix
  BY EmptySeq DEF Init, ProjectedPrefix, NoRun
<1> QED BY <1>1, InitAdmitted, InitTInv, InitGranted DEF IInv

LEMMA InitContract == Init => Contract!ContractInit
BY DEF Init, Contract!ContractInit

LEMMA StepContract == IInv /\ IInv' /\ [Next]_vars => [Contract!ContractNext]_Contract!contractVars
<1> SUFFICES ASSUME IInv, IInv', [Next]_vars
             PROVE  [Contract!ContractNext]_Contract!contractVars
  OBVIOUS
<1> USE DEF Contract!contractVars
<1>1. CASE Still
  BY <1>1 DEF Still
<1>2. CASE Happens
  <2>1. admitted
    BY <1>2 DEF Happens, IInv, Admitted
  <2> QED BY <1>2, <2>1 DEF Happens, Contract!ContractNext, Contract!Happen
<1>3. CASE \E k \in Nat : ProjectsUpTo(k)
  <2>1. PICK j \in 0..Len(log) : activities = 1..j
    BY DEF IInv, ProjectedPrefix
  <2>2. PICK k \in Nat : ProjectsUpTo(k)
    BY <1>3
  <2>3. /\ Len(log) \in Nat /\ k <= Len(log) /\ activities' = 1..j \cup 1..k
        /\ UNCHANGED <<admitted, plans, log, granted>>
    BY <2>1, <2>2, LenProperties DEF ProjectsUpTo, Project, IInv, TInv, TypeOK
  <2>4. CASE k <= j
    BY <2>1, <2>3, <2>4, PrefixUnion
  <2>5. CASE j < k
    <3>1. activities' = 1..k /\ activities \subseteq 1..k /\ k \in 1..Len(log)
      BY <2>1, <2>3, <2>5, PrefixUnion
    <3> QED BY <2>3, <3>1 DEF Contract!ContractNext, Contract!Report
  <2> QED BY <2>1, <2>3, <2>4, <2>5
<1>4. ASSUME NEW w \in Workers, Admits(w)
      PROVE  [Contract!ContractNext]_Contract!contractVars
  <2>1. CASE admitted
    BY <1>4, <2>1 DEF Admits, Admit
  <2>2. CASE ~admitted
    <3> DEFINE e == worker[w].epoch
               v == [n \in Nodes |-> e]
    <3>1. e \in 0..MaxEpoch
      BY <1>4, WorkerFields DEF IInv, TInv, TypeOK, Admits, Admit, PostingState
    <3>2. v \in [Nodes -> 0..MaxEpoch] /\ PlansAt(e) = {<<n, v[n]>> : n \in Nodes}
      BY <3>1 DEF PlansAt
    <3>3. plans' = PlansAt(e) /\ plans' \subseteq granted /\ admitted'
      BY <1>4, <2>2 DEF Admits, Admit, IInv, Granted
    <3> QED BY <1>4, <2>2, <3>2, <3>3
         DEF Admits, Admit, Contract!ContractNext, Contract!Execute
  <2> QED BY <2>1, <2>2
<1>5. CASE Grants
  BY <1>5 DEF Grants, Plans, Contract!ContractNext, Contract!Approve
<1> QED BY <1>1, <1>2, <1>3, <1>4, <1>5, Shapes DEF IInv

(* The jobs, requests and transactions implement the contract: a manifest is
   executed once and only approved, and the activity feed reports the gateway's
   log in order, inventing and retracting nothing. *)
THEOREM Implements == Spec => ImplementsContract
<1>1. IInv /\ [Next]_vars => IInv'
  BY NextTInv, NextProjectedPrefix, NextGranted, NextAdmitted DEF IInv
<1> QED BY <1>1, InitIInv, InitContract, StepContract, PTL
     DEF Spec, ImplementsContract, Contract!ContractSpec
-----------------------------------------------------------------------------
(* One dispatch at a time *)

(* A dispatch that has not reached the gateway yet. *)
Carries(w) == worker[w].pc \in {"queued", "posting"}

(* An approver's request decides on an open request of a mission that waits. *)
DecidesOpen ==
  \A v \in Approvers :
    approver[v].pc = "deciding" => approver[v].from = "Pending" /\ approver[v].mission = Waiting

(* Where nobody decides twice the mission is in one hand until the gateway has it:
   the last approval request, one queued job or one dispatch. *)
InTurn ==
  /\ DecidesOpen
  /\ \A a \in DOMAIN approvals : approvals[a].status = "Pending" => a = Len(approvals) /\ status = Waiting
  /\ status = Waiting =>
       /\ Len(approvals) > 0 /\ ~admitted
       /\ approvals[Len(approvals)].status \in {"Pending", "Revoked"}
  /\ status = "absent" => approvals = <<>> /\ ~admitted
  /\ \A j \in jobs : status = "Queued" /\ ~admitted /\ \A i \in jobs : i = j
  /\ \A w \in Workers : Carries(w) =>
       /\ status = "Queued" /\ ~admitted /\ jobs = {}
       /\ \A u \in Workers : Carries(u) => u = w
  /\ \A w \in Workers : worker[w].pc = "queued" =>
       \A a \in DOMAIN worker[w].decisions : worker[w].decisions[a] # "Pending"

(* A step that leaves the requests and jobs alone and starts no dispatch. *)
LEMMA TurnKept ==
  ASSUME InTurn, UNCHANGED <<approvals, approver, jobs, status, admitted>>,
         \A w \in Workers : worker'[w].pc \in {"queued", "posting"} => worker'[w] = worker[w]
  PROVE  InTurn'
BY DEF InTurn, DecidesOpen, Carries

(* Once the dispatch is over or refused nothing is left to hand on. *)
LEMMA TurnOver ==
  ASSUME InTurn, UNCHANGED <<approvals, approver, jobs>>, status' \notin {Waiting, "absent"},
         admitted \/ \E w \in Workers : Carries(w),
         \A w \in Workers : worker'[w].pc \notin {"queued", "posting"}
  PROVE  InTurn'
<1>1. /\ jobs = {} /\ \A a \in DOMAIN approvals : approvals[a].status # "Pending"
  BY DEF InTurn, Waiting
<1>2. DecidesOpen'
  BY DEF InTurn, DecidesOpen
<1> QED BY <1>1, <1>2 DEF InTurn, Carries

(* A projection reports no mission as waiting or absent. *)
LEMMA ProjectedStatus ==
  ASSUME TInv, NEW k \in Nat, k <= Len(log), Project(k)
  PROVE  status' \notin {Waiting, "absent"}
<1>1. StatusAfter(k) \in GatewayStatus
  BY StatusAfterType DEF TInv, TypeOK
<1>2. \A g \in GatewayStatus : MissionStatus[g] \notin {Waiting, "absent"}
  BY DEF GatewayStatus, MissionStatus, Waiting
<1> QED BY <1>1, <1>2 DEF Project

LEMMA StartDispatchTurn ==
  ASSUME TInv, InTurn, NEW w \in Workers, StartDispatch(w) PROVE InTurn'
<1> DEFINE ds == [a \in 1..Len(approvals) |-> approvals[a].status]
           r(j) == [pc |-> "queued", job |-> j, epoch |-> epoch,
                     changeSets |-> Len(changeSets), decisions |-> ds, seen |-> Seen]
<1>1. PICK j \in jobs : /\ jobs' = jobs \ {j}
                        /\ status = "Queued" => worker' = [worker EXCEPT ![w] = r(j)]
  BY DEF StartDispatch
<1>2. /\ status = "Queued" /\ ~admitted /\ jobs' = {}
      /\ \A u \in Workers : ~Carries(u)
      /\ \A a \in DOMAIN approvals : approvals[a].status # "Pending"
  BY <1>1 DEF InTurn, Waiting
<1>3. UNCHANGED <<status, approvals, approver, admitted>>
  BY DEF StartDispatch, site, world
<1>4. worker'[w] = r(j) /\ \A u \in Workers \ {w} : worker'[u] = worker[u]
  BY <1>1, <1>2 DEF TInv, TypeOK
<1>5. \A a \in DOMAIN ds : ds[a] # "Pending"
  BY <1>2, LenProperties DEF TInv, TypeOK
<1>6. r(j).decisions = ds /\ r(j).pc = "queued"
  OBVIOUS
<1> HIDE DEF r, ds
<1>7. DecidesOpen'
  BY <1>3 DEF InTurn, DecidesOpen
<1>8. \A u \in Workers : Carries(u)' => u = w
  BY <1>2, <1>4 DEF Carries
<1>9. \A u \in Workers : worker'[u].pc = "queued" => worker'[u].decisions = ds
  BY <1>2, <1>4, <1>6 DEF Carries
<1> QED BY <1>2, <1>3, <1>5, <1>7, <1>8, <1>9 DEF InTurn, Waiting

LEMMA PrepareManifestTurn ==
  ASSUME TInv, InTurn, NEW w \in Workers, PrepareManifest(w) PROVE InTurn'
<1>1. /\ worker'[w].pc = "posting" /\ Carries(w) /\ \A u \in Workers \ {w} : worker'[u] = worker[u]
      /\ UNCHANGED <<status, approvals, approver, jobs, admitted>>
  BY DEF PrepareManifest, Carries, TInv, TypeOK, site, world
<1>2. DecidesOpen'
  BY <1>1 DEF InTurn, DecidesOpen
<1>3. \A u \in Workers : Carries(u)' => u = w
  BY <1>1 DEF InTurn, Carries
<1> QED BY <1>1, <1>2, <1>3 DEF InTurn, Carries

(* What Append does, whatever is appended. *)
LEMMA AppendAny ==
  ASSUME NEW S, NEW seq \in Seq(S), NEW e
  PROVE  /\ Len(Append(seq, e)) = Len(seq) + 1 /\ Append(seq, e)[Len(seq) + 1] = e
         /\ \A i \in 1..Len(seq) : Append(seq, e)[i] = seq[i]
<1>1. seq \in Seq(S \cup {e})
  BY SeqDef
<1> QED BY <1>1, AppendProperties, LenProperties

(* A dispatch meets no open request, so the one it makes is new and the only one. *)
LEMMA AwaitApprovalTurn ==
  ASSUME TInv, InTurn, NEW w \in Workers, AwaitApproval(w) PROVE InTurn'
<1> DEFINE tx == worker[w]
<1>1. /\ tx.pc = "queued" /\ jobs = {} /\ ~admitted
      /\ \A a \in DOMAIN tx.decisions : tx.decisions[a] # "Pending"
      /\ \A a \in DOMAIN approvals : approvals[a].status # "Pending"
      /\ \A u \in Workers : Carries(u) => u = w
  BY DEF AwaitApproval, InTurn, Carries, Waiting
<1>2. PICK n \in Nodes : RecordPlan(<<n, tx.epoch>>, tx)
  BY DEF AwaitApproval, Unapproved
<1>3. PICK c : RequestApproval(<<n, tx.epoch>>, tx, c)
  BY <1>2 DEF RecordPlan
<1>4. ApprovalsOf(<<n, tx.epoch>>, tx, "Pending") = {}
  BY <1>1 DEF ApprovalsOf
<1>5. Settled(<<n, tx.epoch>>, tx) = approvals
  <2>1. Settled(<<n, tx.epoch>>, tx) = [a \in 1..Len(approvals) |-> approvals[a]]
    BY <1>4 DEF Settled
  <2> QED BY <2>1, LenProperties DEF TInv, TypeOK
<1> DEFINE row == [changeSet |-> c, status |-> "Pending", live |-> TRUE]
<1>6. approvals' = Append(approvals, row)
  BY <1>3, <1>4, <1>5 DEF RequestApproval
<1>7. row.status = "Pending"
  OBVIOUS
<1>8. approvals' \in Seq(ApprovalType)
  BY AwaitApprovalRows
<1>9. /\ Len(approvals') = Len(approvals) + 1 /\ approvals'[Len(approvals) + 1] = row
      /\ \A a \in 1..Len(approvals) : approvals'[a] = approvals[a]
      /\ Len(approvals) \in Nat /\ DOMAIN approvals = 1..Len(approvals)
      /\ DOMAIN approvals' = 1..Len(approvals')
  <2>1. approvals \in Seq(ApprovalType)
    BY DEF TInv, TypeOK
  <2> HIDE DEF row
  <2> QED BY <1>6, <1>8, <2>1, LenProperties, AppendAny
<1> HIDE DEF row
<1>10. /\ worker'[w].pc = "idle" /\ \A u \in Workers \ {w} : worker'[u] = worker[u]
       /\ UNCHANGED <<approver, jobs, admitted>> /\ status' = Waiting
  BY IdleTyped DEF AwaitApproval, TInv, TypeOK, world
<1>11. \A u \in Workers : ~Carries(u)' /\ worker'[u].pc # "queued"
  BY <1>1, <1>10 DEF Carries
<1>12. DecidesOpen'
  BY <1>10 DEF InTurn, DecidesOpen
<1>13. \A a \in DOMAIN approvals' : approvals'[a].status = "Pending" => a = Len(approvals')
  BY <1>1, <1>9
<1>14. Len(approvals') > 0 /\ approvals'[Len(approvals')].status = "Pending"
  BY <1>7, <1>9
<1> QED BY <1>1, <1>10, <1>11, <1>12, <1>13, <1>14 DEF InTurn, Waiting

LEMMA WorkerTurn ==
  ASSUME TInv, Admitted, InTurn, NEW w \in Workers, WorkerStep(w) \/ WorkerFault(w) PROVE InTurn'
<1> USE IdleTyped DEF TInv, TypeOK
<1>1. CASE PostAccepted(w)
  <2>1. /\ worker'[w].pc = "admitted" /\ \A u \in Workers \ {w} : worker'[u] = worker[u]
        /\ UNCHANGED <<status, approvals, approver, jobs>> /\ Carries(w)
    BY <1>1 DEF PostAccepted, Admit, Carries, site
  <2>2. \A u \in Workers : worker'[u].pc \notin {"queued", "posting"}
    BY <2>1 DEF InTurn, Carries
  <2>3. status' \notin {Waiting, "absent"}
    BY <2>1 DEF InTurn, Waiting
  <2> QED BY <2>1, <2>2, <2>3, TurnOver
<1>2. CASE PostLost(w) \/ DispatchRefused(w) \/ PollFails(w)
  <2>1. /\ worker'[w].pc = "idle" /\ \A u \in Workers \ {w} : worker'[u] = worker[u]
        /\ UNCHANGED <<approvals, approver, jobs>> /\ status' = "NeedsIntervention"
    BY <1>2 DEF PostLost, DispatchRefused, PollFails, RecordFailure
  <2>2. admitted \/ Carries(w)
    BY <1>2 DEF PostLost, DispatchRefused, PollFails, Admit, Admitted, Carries
  <2>3. \A u \in Workers : worker'[u].pc \notin {"queued", "posting"}
    BY <2>1, <2>2 DEF InTurn, Carries
  <2> QED BY <2>1, <2>2, <2>3, TurnOver DEF Waiting
<1>3. CASE CommitPoll(w)
  <2>1. worker[w].upTo \in Nat /\ worker[w].upTo <= Len(log) /\ Project(worker[w].upTo) /\ admitted
    BY <1>3, WorkerFields DEF Linked, CommitPoll, PollState, Admitted
  <2>2. /\ worker'[w].pc = "following" /\ \A u \in Workers \ {w} : worker'[u] = worker[u]
        /\ UNCHANGED <<approvals, approver, jobs>>
    BY <1>3 DEF CommitPoll
  <2>3. \A u \in Workers : worker'[u].pc \notin {"queued", "posting"}
    BY <2>1, <2>2 DEF InTurn, Carries
  <2> QED BY <2>1, <2>2, <2>3, TurnOver, ProjectedStatus
<1>4. CASE FirstFetch(w) \/ PollAgain(w) \/ HandOver(w) \/ StopFollowing(w)
           \/ StartContinuation(w) \/ PollCollides(w) \/ JobDies(w)
  <2>1. UNCHANGED <<approvals, approver, jobs, status, admitted>>
    BY <1>4 DEF FirstFetch, PollAgain, HandOver, StopFollowing, StartContinuation, PollCollides,
                JobDies, Fetch, site, world
  <2>2. worker'[w].pc \notin {"queued", "posting"} /\ \A u \in Workers \ {w} : worker'[u] = worker[u]
    BY <1>4 DEF FirstFetch, PollAgain, HandOver, StopFollowing, StartContinuation, PollCollides,
                JobDies, Fetch
  <2> QED BY <2>1, <2>2, TurnKept
<1> QED BY <1>1, <1>2, <1>3, <1>4, StartDispatchTurn, PrepareManifestTurn, AwaitApprovalTurn
     DEF WorkerStep, WorkerFault

LEMMA SessionTurn ==
  ASSUME TInv, Admitted, InTurn, NEW s \in Sessions, Sync(s) \/ Control(s) \/ CommitSync(s) PROVE InTurn'
<1>1. CASE Sync(s) \/ Control(s)
  <2>1. UNCHANGED <<approvals, approver, jobs, status, admitted, worker>>
    BY <1>1 DEF Sync, Control, site, world
  <2> QED BY <2>1, TurnKept
<1>2. CASE CommitSync(s)
  <2>1. UNCHANGED <<approvals, approver, jobs, worker, admitted>>
    BY <1>2 DEF CommitSync, world
  <2>2. CASE status' = status
    BY <2>1, <2>2, TurnKept
  <2>3. CASE Project(session[s].upTo)
    <3>1. session[s].upTo \in Nat /\ session[s].upTo <= Len(log) /\ admitted
      BY <1>2 DEF TInv, TypeOK, Linked, CommitSync, SessionState, Idle, Admitted
    <3>2. status' \notin {Waiting, "absent"}
      BY <2>3, <3>1, ProjectedStatus
    <3>3. \A u \in Workers : worker'[u].pc \notin {"queued", "posting"}
      BY <2>1, <3>1 DEF InTurn, Carries
    <3> QED BY <2>1, <3>1, <3>2, <3>3, TurnOver
  <2> QED BY <1>2, <2>2, <2>3 DEF CommitSync
<1> QED BY <1>1, <1>2

LEMMA DecideTurn ==
  ASSUME Redecide = FALSE, TInv, InTurn, NEW v \in Approvers, Decide(v) PROVE InTurn'
<1>1. PICK a \in DOMAIN approvals, d \in {"Approved", "Rejected", "Revoked"} :
        /\ approvals[a].status = "Pending"
        /\ approver' = [approver EXCEPT ![v] =
             [pc |-> "deciding", approval |-> a, from |-> approvals[a].status, to |-> d,
              mission |-> status]]
  BY DEF Decide
<1>2. status = Waiting
  BY <1>1 DEF InTurn
<1>3. UNCHANGED <<approvals, worker, jobs, status, admitted>>
  BY DEF Decide, site, world
<1>4. DecidesOpen'
  <2>1. approver'[v].from = "Pending" /\ approver'[v].mission = Waiting
    BY <1>1, <1>2 DEF TInv, TypeOK
  <2>2. \A u \in Approvers \ {v} : approver'[u] = approver[u]
    BY <1>1 DEF TInv, TypeOK
  <2> QED BY <1>3, <2>1, <2>2 DEF DecidesOpen, InTurn
<1> QED BY <1>3, <1>4 DEF InTurn, Carries

(* The decision closes the open request and hands the mission on, or ends it. *)
LEMMA CommitDecisionTurn ==
  ASSUME TInv, InTurn, NEW v \in Approvers, CommitDecision(v) PROVE InTurn'
<1> DEFINE tx == approver[v]
           row == approvals[tx.approval]
<1>1. /\ tx.pc = "deciding" /\ tx.from = "Pending" /\ tx.mission = Waiting
      /\ tx.to \in {"Approved", "Rejected", "Revoked"} /\ tx.approval \in DOMAIN approvals
      /\ DOMAIN approvals = 1..Len(approvals) /\ Len(approvals) \in Nat
  BY SMTT(30), LenProperties DEF InTurn, DecidesOpen, TInv, TypeOK, Linked, CommitDecision,
     ApproverState, Idle
<1>2. /\ approver'[v].pc = "idle" /\ \A u \in Approvers \ {v} : approver'[u] = approver[u]
      /\ UNCHANGED <<worker, admitted>>
  BY IdleTyped DEF CommitDecision, TInv, TypeOK
<1>3. DecidesOpen'
  BY <1>2 DEF InTurn, DecidesOpen
<1>4. CASE row.status # "Pending"
  <2>1. UNCHANGED <<status, approvals, jobs>>
    BY <1>1, <1>4 DEF CommitDecision, Stale, site
  <2> QED BY <1>2, <1>3, <2>1 DEF InTurn, Carries
<1>5. CASE row.status = "Pending"
  <2>1. /\ tx.approval = Len(approvals) /\ status = Waiting /\ ~admitted
        /\ \A a \in DOMAIN approvals : a # Len(approvals) => approvals[a].status # "Pending"
        /\ jobs = {} /\ \A u \in Workers : ~Carries(u)
    BY <1>1, <1>5 DEF InTurn, Waiting
  <2>2. /\ approvals' = [approvals EXCEPT ![tx.approval] = Marked(row, tx.to)]
        /\ status' = IF tx.to = "Revoked" THEN status
                     ELSE IF tx.to = "Approved" THEN "Queued" ELSE "Cancelled"
        /\ jobs' = IF tx.to = "Approved" THEN Enqueue(tx.approval) ELSE jobs
    BY <1>1, <1>5 DEF CommitDecision, Stale, Moves
  <2>3. Marked(row, tx.to).status = tx.to
    BY DEF Marked
  <2>4. /\ DOMAIN approvals' = DOMAIN approvals /\ approvals'[tx.approval].status = tx.to
        /\ \A a \in DOMAIN approvals : a # tx.approval => approvals'[a] = approvals[a]
    BY <1>1, <2>2, <2>3
  <2>5. Len(approvals') = Len(approvals)
    BY NextTInv, CommitDecisionT, LenProperties, <1>1, <2>4 DEF TInv, TypeOK
  <2>6. \A a \in DOMAIN approvals' : approvals'[a].status # "Pending"
    BY <1>1, <2>1, <2>4
  <2>7. Enqueue(tx.approval) \subseteq {tx.approval}
    BY <2>1 DEF Enqueue
  <2>8. \A u \in Workers : ~Carries(u)' /\ worker'[u].pc # "queued"
    BY <1>2, <2>1 DEF Carries
  <2>9. CASE tx.to = "Approved"
    <3>1. status' = "Queued" /\ jobs' \subseteq {tx.approval}
      BY <2>2, <2>7, <2>9
    <3> QED BY <1>2, <1>3, <2>1, <2>6, <2>8, <3>1 DEF InTurn, Waiting
  <2>10. CASE tx.to = "Rejected"
    <3>1. status' = "Cancelled" /\ jobs' = {}
      BY <2>1, <2>2, <2>10
    <3> QED BY <1>2, <1>3, <2>1, <2>6, <2>8, <3>1 DEF InTurn, Waiting
  <2>11. CASE tx.to = "Revoked"
    <3>1. status' = Waiting /\ jobs' = {}
      BY <2>1, <2>2, <2>11
    <3>2. Len(approvals') > 0 /\ approvals'[Len(approvals')].status = "Revoked"
      BY <1>1, <2>1, <2>4, <2>5, <2>11
    <3> QED BY <1>2, <1>3, <2>1, <2>6, <2>8, <3>1, <3>2 DEF InTurn, Waiting
  <2> QED BY <1>1, <2>9, <2>10, <2>11
<1> QED BY <1>4, <1>5

LEMMA EnvironmentTurn ==
  ASSUME TInv, InTurn,
         CreateMission \/ ReconcileStaleRuns \/ GatewayEvent \/ Drift \/ Lapse \/ UNCHANGED vars
  PROVE  InTurn'
<1>1. CASE CreateMission
  <2>1. /\ status = "absent" /\ status' = "Queued" /\ jobs' = jobs \cup {0}
        /\ UNCHANGED <<approvals, approver, worker, admitted>>
    BY <1>1 DEF CreateMission, world
  <2>2. approvals = <<>> /\ ~admitted /\ jobs = {} /\ \A w \in Workers : ~Carries(w)
    BY <2>1 DEF InTurn
  <2>3. DecidesOpen'
    BY <2>1 DEF InTurn, DecidesOpen
  <2>4. DOMAIN approvals' = {}
    BY <2>1, <2>2
  <2>5. \A w \in Workers : ~Carries(w)' /\ worker'[w].pc # "queued"
    BY <2>1, <2>2 DEF Carries
  <2> QED BY <2>1, <2>2, <2>3, <2>4, <2>5 DEF InTurn, Waiting
<1>2. CASE ReconcileStaleRuns \/ GatewayEvent \/ Drift \/ UNCHANGED vars
  <2>1. UNCHANGED <<approvals, approver, jobs, status, admitted, worker>>
    BY <1>2 DEF ReconcileStaleRuns, GatewayEvent, Drift, vars, site, procs, world
  <2> QED BY <2>1, TurnKept
<1>3. CASE Lapse
  <2>1. PICK a \in DOMAIN approvals : approvals' = [approvals EXCEPT ![a] =
          [changeSet |-> approvals[a].changeSet, status |-> approvals[a].status, live |-> FALSE]]
    BY <1>3 DEF Lapse
  <2>2. /\ DOMAIN approvals' = DOMAIN approvals
        /\ \A b \in DOMAIN approvals : approvals'[b].status = approvals[b].status
    BY <2>1
  <2>3. Len(approvals') = Len(approvals) /\ Len(approvals) \in Nat /\ DOMAIN approvals = 1..Len(approvals)
    BY EnvironmentT, <1>3, <2>2, LenProperties DEF TInv, TypeOK
  <2>4. UNCHANGED <<approver, jobs, status, admitted, worker>>
    BY <1>3 DEF Lapse, procs, world
  <2>5. DecidesOpen'
    BY <2>4 DEF InTurn, DecidesOpen
  <2>6. approvals # <<>>
    BY <2>1
  <2> QED BY <2>2, <2>3, <2>4, <2>5, <2>6 DEF InTurn, Carries
<1> QED BY <1>1, <1>2, <1>3

LEMMA NextInTurn == ASSUME Redecide = FALSE PROVE TInv /\ Admitted /\ InTurn /\ [Next]_vars => InTurn'
<1> SUFFICES ASSUME TInv, Admitted, InTurn, [Next]_vars PROVE InTurn'
  OBVIOUS
<1> QED BY WorkerTurn, SessionTurn, DecideTurn, CommitDecisionTurn, EnvironmentTurn DEF Next

LEMMA InitInTurn == Init => InTurn
BY DEF Init, InTurn, DecidesOpen, Carries, Idle, Waiting

(* Where nobody decides on a request twice, an approval never leaves the mission
   waiting behind it: its job, its dispatch or a newer request has the mission. *)
THEOREM ApprovedRequestResumesCorrect ==
  ASSUME Redecide = FALSE PROVE Spec => []ApprovedRequestResumes
<1>1. InTurn => ApprovedRequestResumes
  BY DEF InTurn, ApprovedRequestResumes
<1> QED BY <1>1, InitTInv, NextTInv, InitAdmitted, NextAdmitted, InitInTurn, NextInTurn, PTL DEF Spec

(* A step reports Cancelled only by a projection or by a rejection. *)
LEMMA CancelledBy ==
  ASSUME TInv, [Next]_vars, status' = "Cancelled"
  PROVE  \/ status = "Cancelled"
         \/ \E k \in Nat : ProjectsUpTo(k)
         \/ \E v \in Approvers : CommitDecision(v)
<1>1. ASSUME NEW w \in Workers, WorkerStep(w) \/ WorkerFault(w)
      PROVE  status = "Cancelled" \/ \E k \in Nat : ProjectsUpTo(k)
  <2>1. CASE CommitPoll(w)
    <3>1. worker[w].upTo \in Nat /\ worker[w].upTo <= Len(log)
      BY <2>1, WorkerFields DEF TInv, TypeOK, Linked, CommitPoll, PollState
    <3> QED BY <2>1, <3>1 DEF CommitPoll, ProjectsUpTo, world
  <2>2. CASE ~CommitPoll(w)
    BY <1>1, <2>2 DEF WorkerStep, WorkerFault, StartDispatch, PrepareManifest, AwaitApproval,
       PostAccepted, FirstFetch, PollAgain, HandOver, StopFollowing, StartContinuation,
       PollCollides, PostLost, DispatchRefused, PollFails, JobDies, RecordFailure, Waiting, site
  <2> QED BY <2>1, <2>2
<1>2. ASSUME NEW s \in Sessions, Sync(s) \/ Control(s) \/ CommitSync(s)
      PROVE  status = "Cancelled" \/ \E k \in Nat : ProjectsUpTo(k)
  <2>1. CASE CommitSync(s)
    <3>1. session[s].upTo \in Nat /\ session[s].upTo <= Len(log)
      BY <2>1 DEF TInv, TypeOK, Linked, CommitSync, SessionState, Idle
    <3> QED BY <2>1, <3>1 DEF CommitSync, ProjectsUpTo, world
  <2> QED BY <1>2, <2>1 DEF Sync, Control, site
<1>3. ASSUME NEW v \in Approvers, Decide(v) PROVE status = "Cancelled"
  BY <1>3 DEF Decide, site
<1>4. CASE CreateMission \/ ReconcileStaleRuns \/ GatewayEvent \/ Drift \/ Lapse \/ UNCHANGED vars
  BY <1>4 DEF CreateMission, ReconcileStaleRuns, GatewayEvent, Drift, Lapse, vars, site
<1> QED BY <1>1, <1>2, <1>3, <1>4 DEF Next

LEMMA NextCancelled ==
  TInv /\ ProjectedPrefix /\ InTurn /\ CancelledMeansStopped /\ [Next]_vars => CancelledMeansStopped'
<1> SUFFICES ASSUME TInv, ProjectedPrefix, InTurn, CancelledMeansStopped, [Next]_vars,
                    status' = "Cancelled"
             PROVE  ~admitted' \/ \E e \in activities' : MissionStatus[log'[e]] = "Cancelled"
  BY DEF CancelledMeansStopped
<1>1. activities \subseteq 1..Len(log)
  BY LenProperties DEF ProjectedPrefix, TInv, TypeOK
<1>2. CASE \E k \in Nat : ProjectsUpTo(k)
  <2>1. PICK k \in Nat : ProjectsUpTo(k)
    BY <1>2
  <2>2. status' = MissionStatus[StatusAfter(k)] /\ log' = log /\ 1..k \subseteq activities'
    BY <2>1 DEF ProjectsUpTo, Project
  <2>3. k # 0
    BY <2>2 DEF StatusAfter, MissionStatus
  <2>4. k \in activities' /\ StatusAfter(k) = log'[k]
    BY <2>2, <2>3 DEF StatusAfter
  <2> QED BY <2>2, <2>4
<1>3. ASSUME NEW v \in Approvers, CommitDecision(v), status # "Cancelled" PROVE ~admitted'
  <2>1. ~Stale(approver[v]) /\ Moves(approver[v]) /\ admitted' = admitted
    BY <1>3 DEF CommitDecision, site
  <2>2. approver[v].approval \in DOMAIN approvals /\ approver[v].from = "Pending"
    BY <1>3 DEF CommitDecision, TInv, Linked, InTurn, DecidesOpen
  <2> QED BY <2>1, <2>2 DEF Stale, InTurn
<1>4. CASE status = "Cancelled" /\ UNCHANGED activities
  <2>1. ~admitted \/ \E e \in activities : MissionStatus[log[e]] = "Cancelled"
    BY <1>4 DEF CancelledMeansStopped
  <2>2. CASE \E e \in activities : MissionStatus[log[e]] = "Cancelled"
    <3>1. PICK e \in activities : MissionStatus[log[e]] = "Cancelled"
      BY <2>2
    <3>2. log'[e] = log[e]
      BY <1>1, <3>1, LogKept
    <3> QED BY <1>4, <3>1, <3>2
  <2>3. CASE ~admitted
    <3>1. ASSUME NEW w \in Workers, Admit(w) PROVE FALSE
      BY <1>4, <3>1 DEF Admit, InTurn, Carries
    <3> QED BY <1>2, <2>3, <3>1, Shapes DEF Still, Happens, Admits, Grants
  <2> QED BY <2>1, <2>2, <2>3
<1>5. CASE status = "Cancelled" /\ ~\E k \in Nat : ProjectsUpTo(k)
  <2>1. UNCHANGED activities
    BY <1>5, Shapes DEF Still, Happens, Admits, Grants
  <2> QED BY <1>4, <1>5, <2>1
<1> QED BY <1>2, <1>3, <1>5, CancelledBy

(* Where nobody decides on a request twice, a mission reported Cancelled is not
   being executed: a rejection came before any admission, or the gateway reported
   the cancellation itself. *)
THEOREM CancelledMeansStoppedCorrect ==
  ASSUME Redecide = FALSE PROVE Spec => []CancelledMeansStopped
<1>1. Init => ProjectedPrefix /\ CancelledMeansStopped
  BY EmptySeq DEF Init, ProjectedPrefix, CancelledMeansStopped, NoRun
<1> QED BY <1>1, InitTInv, NextTInv, InitAdmitted, NextAdmitted, InitInTurn, NextInTurn,
     NextProjectedPrefix, NextCancelled, PTL DEF Spec

-----------------------------------------------------------------------------
(* No wakeup is lost *)

(* A root run exists once anything was projected or a job has projected. *)
RunProjected ==
  /\ activities # {} => run # NoRun
  /\ \A w \in Workers : worker[w].pc = "following" => run # NoRun

LEMMA ProjectedRun ==
  ASSUME TInv, NEW k \in Nat, k <= Len(log), Project(k) PROVE run' # NoRun
<1>1. StatusAfter(k) \in GatewayStatus
  BY StatusAfterType DEF TInv, TypeOK
<1>2. \A g \in GatewayStatus : RunStatus[g] # "absent"
  BY DEF GatewayStatus, MissionStatus, RunStatus
<1> QED BY <1>1, <1>2 DEF Project, NoRun

(* Rows of the feed and the root run appear together and never disappear. *)
LEMMA RunKept ==
  ASSUME TInv, [Next]_vars PROVE run' # NoRun \/ UNCHANGED <<run, activities>>
<1>1. ASSUME NEW w \in Workers, WorkerStep(w) \/ WorkerFault(w)
      PROVE  run' # NoRun \/ UNCHANGED <<run, activities>>
  <2>1. CASE CommitPoll(w)
    <3>1. worker[w].upTo \in Nat /\ worker[w].upTo <= Len(log)
      BY <2>1, WorkerFields DEF TInv, TypeOK, Linked, CommitPoll, PollState
    <3> QED BY <2>1, <3>1, ProjectedRun DEF CommitPoll
  <2>2. CASE ~CommitPoll(w)
    BY <1>1, <2>2 DEF WorkerStep, WorkerFault, StartDispatch, PrepareManifest, AwaitApproval,
       PostAccepted, FirstFetch, PollAgain, HandOver, StopFollowing, StartContinuation,
       PollCollides, PostLost, DispatchRefused, PollFails, JobDies, RecordFailure, site
  <2> QED BY <2>1, <2>2
<1>2. ASSUME NEW s \in Sessions, Sync(s) \/ Control(s) \/ CommitSync(s)
      PROVE  run' # NoRun \/ UNCHANGED <<run, activities>>
  <2>1. CASE CommitSync(s)
    <3>1. session[s].upTo \in Nat /\ session[s].upTo <= Len(log)
      BY <2>1 DEF TInv, TypeOK, Linked, CommitSync, SessionState, Idle
    <3> QED BY <2>1, <3>1, ProjectedRun DEF CommitSync
  <2> QED BY <1>2, <2>1 DEF Sync, Control, site
<1>3. ASSUME NEW v \in Approvers, Decide(v) \/ CommitDecision(v) PROVE UNCHANGED <<run, activities>>
  BY <1>3 DEF Decide, CommitDecision, site
<1>4. CASE ReconcileStaleRuns
  BY <1>4 DEF ReconcileStaleRuns, NoRun
<1>5. CASE CreateMission \/ GatewayEvent \/ Drift \/ Lapse \/ UNCHANGED vars
  BY <1>5 DEF CreateMission, GatewayEvent, Drift, Lapse, vars, site
<1> QED BY <1>1, <1>2, <1>3, <1>4, <1>5 DEF Next

(* A job follows only after it has projected. *)
LEMMA FollowsAfter ==
  ASSUME TInv, [Next]_vars, NEW u \in Workers, worker'[u].pc = "following"
  PROVE  worker[u].pc = "following" \/ run' # NoRun
<1> SUFFICES ASSUME worker[u].pc # "following" PROVE run' # NoRun
  OBVIOUS
<1>1. ASSUME NEW w \in Workers, WorkerStep(w) \/ WorkerFault(w) PROVE CommitPoll(w)
  <2>1. u = w
    BY <1>1 DEF WorkerStep, WorkerFault, StartDispatch, PrepareManifest, AwaitApproval, PostAccepted,
       FirstFetch, PollAgain, HandOver, StopFollowing, StartContinuation, Fetch, CommitPoll,
       PollCollides, PostLost, DispatchRefused, PollFails, JobDies, RecordFailure, TInv, TypeOK
  <2>2. ~StartDispatch(w)
    <3>1. ASSUME StartDispatch(w) PROVE worker' = worker \/ worker'[w].pc = "queued"
      BY <3>1 DEF StartDispatch, TInv, TypeOK
    <3> QED BY <2>1, <3>1
  <2>3. CASE ~CommitPoll(w)
    BY <1>1, <2>1, <2>2, <2>3 DEF WorkerStep, WorkerFault, PrepareManifest, AwaitApproval,
       PostAccepted, FirstFetch, PollAgain, HandOver, StopFollowing, StartContinuation, Fetch,
       PollCollides, PostLost, DispatchRefused, PollFails, JobDies, RecordFailure, TInv, TypeOK, Idle
  <2> QED BY <2>3
<1>2. ASSUME NEW w \in Workers, CommitPoll(w) PROVE run' # NoRun
  <2>1. worker[w].upTo \in Nat /\ worker[w].upTo <= Len(log)
    BY <1>2, WorkerFields DEF TInv, TypeOK, Linked, CommitPoll, PollState
  <2> QED BY <1>2, <2>1, ProjectedRun DEF CommitPoll
<1>3. ASSUME NEW s \in Sessions, Sync(s) \/ Control(s) \/ CommitSync(s) PROVE FALSE
  BY <1>3 DEF Sync, Control, CommitSync
<1>4. ASSUME NEW v \in Approvers, Decide(v) \/ CommitDecision(v) PROVE FALSE
  BY <1>4 DEF Decide, CommitDecision
<1>5. CASE CreateMission \/ ReconcileStaleRuns \/ GatewayEvent \/ Drift \/ Lapse \/ UNCHANGED vars
  BY <1>5 DEF CreateMission, ReconcileStaleRuns, GatewayEvent, Drift, Lapse, vars, procs
<1> QED BY <1>1, <1>2, <1>3, <1>4, <1>5 DEF Next

LEMMA NextRunProjected == TInv /\ RunProjected /\ [Next]_vars => RunProjected'
BY RunKept, FollowsAfter DEF RunProjected

(* As long as no call failed and no job was killed. *)
Woken == faults = 0 => QueuedHasAJob

LEMMA NextWoken == TInv /\ RunProjected /\ Woken /\ [Next]_vars => Woken'
<1> SUFFICES ASSUME TInv, RunProjected, Woken, [Next]_vars,
                    faults' = 0, status' = "Queued", run' = NoRun
             PROVE  jobs' # {} \/ \E u \in Workers : worker'[u].pc # "idle"
  BY DEF Woken, QueuedHasAJob
<1> DEFINE Busy == jobs # {} \/ \E u \in Workers : worker[u].pc # "idle"
<1>1. run = NoRun /\ activities = {} /\ \A u \in Workers : worker[u].pc # "following"
  BY RunKept DEF RunProjected
<1>2. ASSUME NEW w \in Workers, WorkerStep(w) \/ WorkerFault(w)
      PROVE  jobs' # {} \/ \E u \in Workers : worker'[u].pc # "idle"
  <2>1. ~WorkerFault(w)
    BY DEF WorkerFault, PostLost, DispatchRefused, PollFails, JobDies, TInv, TypeOK
  <2>2. ~AwaitApproval(w)
    BY DEF AwaitApproval, Waiting
  <2>3. ~CommitPoll(w)
    <3>1. ASSUME CommitPoll(w) PROVE worker[w].upTo \in Nat /\ worker[w].upTo <= Len(log)
      BY <3>1, WorkerFields DEF TInv, TypeOK, Linked, CommitPoll, PollState
    <3> QED BY <3>1, ProjectedRun DEF CommitPoll
  <2>4. ~HandOver(w) /\ ~StopFollowing(w) /\ ~PollAgain(w) /\ ~PollCollides(w)
    BY <1>1 DEF HandOver, StopFollowing, PollAgain, PollCollides, Collides
  <2>5. CASE StartDispatch(w)
    <3>1. status = "Queued"
      BY <2>5 DEF StartDispatch, site
    <3>2. PICK j \in jobs : worker' = [worker EXCEPT ![w] =
            [pc |-> "queued", job |-> j, epoch |-> epoch, changeSets |-> Len(changeSets),
             decisions |-> [a \in 1..Len(approvals) |-> approvals[a].status], seen |-> Seen]]
      BY <2>5, <3>1 DEF StartDispatch
    <3>3. worker'[w].pc = "queued"
      BY <3>2 DEF TInv, TypeOK
    <3> QED BY <3>3
  <2>6. CASE PrepareManifest(w)
    BY <2>6 DEF PrepareManifest, TInv, TypeOK
  <2>7. CASE PostAccepted(w)
    BY <2>7 DEF PostAccepted, TInv, TypeOK
  <2>8. CASE FirstFetch(w) \/ StartContinuation(w)
    BY <2>8 DEF FirstFetch, StartContinuation, Fetch, TInv, TypeOK
  <2> QED BY <1>2, <2>1, <2>2, <2>3, <2>4, <2>5, <2>6, <2>7, <2>8 DEF WorkerStep
<1>3. CASE status = "Queued" /\ UNCHANGED <<jobs, worker, faults>>
  BY <1>1, <1>3 DEF Woken, QueuedHasAJob
<1>4. ASSUME NEW s \in Sessions, Sync(s) \/ Control(s) \/ CommitSync(s)
      PROVE  status = "Queued" /\ UNCHANGED <<jobs, worker, faults>>
  <2>1. ~(CommitSync(s) /\ Project(session[s].upTo))
    <3>1. ASSUME CommitSync(s) PROVE session[s].upTo \in Nat /\ session[s].upTo <= Len(log)
      BY <3>1 DEF TInv, TypeOK, Linked, CommitSync, SessionState, Idle
    <3> QED BY <3>1, ProjectedRun
  <2> QED BY <1>4, <2>1 DEF Sync, Control, CommitSync, site, world
<1>5. ASSUME NEW v \in Approvers, Decide(v)
      PROVE  status = "Queued" /\ UNCHANGED <<jobs, worker, faults>>
  BY <1>5 DEF Decide, site, world
<1>6. ASSUME NEW v \in Approvers, CommitDecision(v)
      PROVE  \/ status = "Queued" /\ UNCHANGED <<jobs, worker, faults>>
             \/ jobs' # {} \/ \E u \in Workers : worker'[u].pc # "idle"
  <2>1. UNCHANGED <<worker, faults>>
    BY <1>6 DEF CommitDecision
  <2>2. \/ UNCHANGED <<status, jobs>>
        \/ jobs' = Enqueue(approver[v].approval)
    BY <1>6 DEF CommitDecision, site
  <2>3. jobs' = Enqueue(approver[v].approval) =>
          jobs' # {} \/ \E u \in Workers : worker[u].pc # "idle"
    BY DEF Enqueue
  <2> QED BY <2>1, <2>2, <2>3
<1>7. CASE CreateMission
  BY <1>7 DEF CreateMission
<1>8. CASE ReconcileStaleRuns \/ GatewayEvent \/ Drift \/ Lapse \/ UNCHANGED vars
  BY <1>3, <1>8 DEF ReconcileStaleRuns, GatewayEvent, Drift, Lapse, vars, site, procs, world
<1> QED BY <1>2, <1>3, <1>4, <1>5, <1>6, <1>7, <1>8 DEF Next

(* As long as no call fails and no job is killed, a queued mission the gateway has
   not reported on always has a job: re-decisions, stale snapshots and colliding
   projections lose none. *)
THEOREM QueuedHasAJobCorrect == Spec => [](faults = 0 => QueuedHasAJob)
<1>1. Init => RunProjected /\ Woken
  BY DEF Init, RunProjected, Woken, QueuedHasAJob, Idle
<1> QED BY <1>1, InitTInv, NextTInv, NextRunProjected, NextWoken, PTL DEF Spec, Woken

-----------------------------------------------------------------------------
(* The feed beneath a mission *)

FeedEvents == {NoNode} \cup NodeEvents

Starts(e, n) == feed[e].type = "node_started" /\ feed[e].node = n
Ends(e, a) == feed[e].type \in {"node_completed", "node_failed"} /\ feed[e].attempt = a

(* The feed says of every event of the log what it is about. *)
FeedTyped == feed \in Seq(FeedEvents) /\ Len(feed) = Len(log) /\ Len(log) <= MaxEvents

(* An attempt is named by its start, comes after the failure of the earlier ones at its
   node, and ends at most once. *)
OrderedAt(i, n) ==
  /\ Starts(i, n) =>
       /\ feed[i].attempt = i
       /\ \A a \in StartsOf(n, i - 1) : Ended(a, i - 1, "node_failed")
  /\ \A a \in Attempts : Ends(i, a) /\ feed[i].node = n =>
       /\ a < i /\ Starts(a, n)
       /\ \A j \in DOMAIN feed : Ends(j, a) => j = i

FeedOrdered == \A i \in DOMAIN feed, n \in WorkNodes : OrderedAt(i, n)

FInv == TInv /\ FeedTyped /\ FeedOrdered

(* What an event of the feed holds. *)
LEMMA FeedFields ==
  ASSUME FeedTyped, TInv, NEW i \in 1..Len(feed)
  PROVE  /\ feed[i] \in FeedEvents /\ i \in Nat /\ i \in Attempts
         /\ feed[i] # NoNode => feed[i] \in NodeEvents
         /\ feed[i].type = "node_started" => feed[i] \in NodeEvents
         /\ feed[i].type \in {"node_completed", "node_failed"} => feed[i] \in NodeEvents
<1>1. /\ feed[i] \in FeedEvents /\ Len(feed) \in Nat /\ Len(feed) <= MaxEvents
  BY ElementOfSeq, LenProperties DEF FeedTyped
<1>2. NoNode.type = "other"
  BY DEF NoNode
<1> QED BY <1>1, <1>2 DEF FeedEvents, Attempts

LEMMA NodeEventFields ==
  ASSUME NEW e \in NodeEvents
  PROVE  /\ e.type \in {"node_started", "node_completed", "node_failed"}
         /\ e.node \in WorkNodes /\ e.attempt \in Attempts /\ e.attempt \in Nat /\ e # NoNode
BY DEF NodeEvents, NoNode, Attempts

(* The gateway's next event is well formed. *)
LEMMA FeedStep ==
  ASSUME TInv, FeedTyped, Next, Feed
  PROVE  \/ UNCHANGED <<feed, log>>
         \/ /\ Len(log') = Len(log) + 1 /\ Len(log) < MaxEvents
            /\ \E e \in FeedEvents : feed' = Append(feed, e) /\ (e # NoNode => Occurs(e))
<1>1. log' = log \/ ((\E g \in GatewayStatus : log' = Append(log, g)) /\ Len(log) < MaxEvents)
  BY Shapes DEF Still, Happens, ProjectsUpTo, Admits, Admit, Grants
<1>2. CASE log' = log
  BY <1>2 DEF Feed
<1>3. CASE (\E g \in GatewayStatus : log' = Append(log, g)) /\ Len(log) < MaxEvents
  <2>1. Len(log') = Len(log) + 1 /\ Len(log) \in Nat
    BY <1>3, AppendProperties, LenProperties DEF TInv, TypeOK
  <2> QED BY <1>3, <2>1 DEF Feed, FeedEvents
<1> QED BY <1>1, <1>2, <1>3

(* What the feed says of its first events is never revised. *)
LEMMA FeedKept ==
  ASSUME TInv, FeedTyped, Next, Feed
  PROVE  /\ FeedTyped'
         /\ Len(feed) \in Nat /\ Len(feed') \in Nat /\ Len(feed) <= Len(feed')
         /\ \A i \in 1..Len(feed) : feed'[i] = feed[i]
<1>1. Len(feed) \in Nat /\ Len(log) \in Nat
  BY LenProperties DEF FeedTyped, TInv, TypeOK
<1>2. CASE UNCHANGED <<feed, log>>
  BY <1>1, <1>2 DEF FeedTyped
<1>3. CASE /\ Len(log') = Len(log) + 1 /\ Len(log) < MaxEvents
           /\ \E e \in FeedEvents : feed' = Append(feed, e)
  BY <1>1, <1>3, AppendProperties, LenProperties DEF FeedTyped
<1> QED BY <1>2, <1>3, FeedStep

LEMMA StartsKept ==
  ASSUME TInv, FeedTyped, Next, Feed, NEW k \in Nat, k <= Len(feed), NEW n, NEW a, NEW t
  PROVE  StartsOf(n, k)' = StartsOf(n, k) /\ Ended(a, k, t)' = Ended(a, k, t)
<1>1. \A i \in 1..k : feed'[i] = feed[i]
  BY FeedKept
<1> QED BY <1>1 DEF StartsOf, Ended

(* An event already in the feed stays well ordered, the new one is. *)
LEMMA NextFInv == ASSUME FInv, Next, Feed PROVE FInv'
<1>1. TInv' /\ FeedTyped'
  BY NextTInv, FeedKept DEF FInv
<1>2. PICK L \in Nat : /\ L = Len(feed) /\ DOMAIN feed = 1..L /\ DOMAIN feed' = 1..Len(feed')
                       /\ \A i \in 1..L : feed'[i] = feed[i]
  BY <1>1, FeedKept, LenProperties DEF FInv, FeedTyped
<1>3. CASE UNCHANGED feed
  BY <1>1, <1>3 DEF FInv, FeedOrdered, OrderedAt, StartsOf, Ended, Starts, Ends
<1>4. ASSUME NEW e \in FeedEvents, feed' = Append(feed, e), e # NoNode => Occurs(e)
      PROVE  FeedOrdered'
  <2>1. DOMAIN feed' = 1..(L + 1) /\ feed'[L + 1] = e
    BY <1>2, <1>4, AppendProperties DEF FInv, FeedTyped
  <2>2. \A i \in DOMAIN feed' : i \in 1..L \/ i = L + 1
    BY <1>2, <2>1
  <2>3. ASSUME NEW a \in Attempts, Ends(L + 1, a)'
        PROVE  /\ e \in NodeEvents /\ e.attempt = a
               /\ a \in StartsOf(e.node, L) /\ ~Over(a)
    <3>1. e.type \in {"node_completed", "node_failed"} /\ e.attempt = a
      BY <2>1, <2>3 DEF Ends
    <3>2. e \in NodeEvents /\ e # NoNode
      BY <3>1 DEF FeedEvents, NoNode
    <3> QED BY <1>2, <1>4, <3>1, <3>2 DEF Occurs
  <2>4. \A a \in Attempts : ~Over(a) => \A j \in 1..L : ~Ends(j, a) /\ ~Ends(j, a)'
    BY <1>2 DEF Over, Ended, Ends
  <2>5. ASSUME NEW i \in 1..L, NEW n \in WorkNodes PROVE OrderedAt(i, n)'
    <3>1. feed'[i] = feed[i] /\ i - 1 \in Nat /\ i - 1 <= Len(feed) /\ i \in DOMAIN feed
      BY <1>2
    <3>2. StartsOf(n, i - 1)' = StartsOf(n, i - 1)
      BY <3>1, StartsKept DEF FInv
    <3>3. \A a : Ended(a, i - 1, "node_failed")' = Ended(a, i - 1, "node_failed")
      BY <3>1, StartsKept DEF FInv
    <3>4. OrderedAt(i, n)
      BY <3>1 DEF FInv, FeedOrdered
    <3>5. ASSUME NEW a \in Attempts, Ends(i, a)', feed'[i].node = n
          PROVE  /\ a < i /\ Starts(a, n)'
                 /\ \A j \in DOMAIN feed' : Ends(j, a)' => j = i
      <4>1. Ends(i, a) /\ feed[i].node = n
        BY <3>1, <3>5 DEF Ends
      <4>2. /\ a < i /\ Starts(a, n)
            /\ \A j \in DOMAIN feed : Ends(j, a) => j = i
        BY <3>4, <4>1 DEF OrderedAt
      <4>3. a \in 1..L /\ feed'[a] = feed[a]
        BY <1>2, <3>1, <4>2 DEF Attempts
      <4>4. ~Ends(L + 1, a)'
        BY <2>3, <2>4, <4>1
      <4>5. \A j \in 1..L : Ends(j, a)' => Ends(j, a)
        BY <1>2 DEF Ends
      <4>6. \A j \in DOMAIN feed' : Ends(j, a)' => j = i
        BY <1>2, <2>2, <4>2, <4>4, <4>5
      <4>7. Starts(a, n)'
        BY <4>2, <4>3 DEF Starts
      <4> QED BY <4>2, <4>6, <4>7
    <3>6. Starts(i, n)' => /\ feed'[i].attempt = i
                           /\ \A a \in StartsOf(n, i - 1)' : Ended(a, i - 1, "node_failed")'
      BY <3>1, <3>2, <3>3, <3>4 DEF OrderedAt, Starts
    <3> QED BY <3>5, <3>6 DEF OrderedAt
  <2>6. ASSUME NEW n \in WorkNodes, Starts(L + 1, n)'
        PROVE  /\ e.attempt = L + 1
               /\ \A a \in StartsOf(n, L)' : Ended(a, L, "node_failed")'
    <3>1. e.type = "node_started" /\ e.node = n
      BY <2>1, <2>6 DEF Starts
    <3>2. e # NoNode
      BY <3>1 DEF NoNode
    <3>3. Occurs(e)
      BY <1>4, <3>2
    <3>4. e.attempt = L + 1 /\ \A a \in StartsOf(n, L) : Ended(a, L, "node_failed")
      BY <1>2, <3>1, <3>3 DEF Occurs
    <3>5. StartsOf(n, L)' = StartsOf(n, L)
      BY <1>2, StartsKept DEF FInv
    <3>6. \A a : Ended(a, L, "node_failed")' = Ended(a, L, "node_failed")
      BY <1>2, StartsKept DEF FInv
    <3> QED BY <3>4, <3>5, <3>6
  <2>7. ASSUME NEW n \in WorkNodes, NEW a \in Attempts, Ends(L + 1, a)', feed'[L + 1].node = n
        PROVE  /\ a < L + 1 /\ Starts(a, n)'
               /\ \A j \in DOMAIN feed' : Ends(j, a)' => j = L + 1
    <3>1. a \in StartsOf(n, L) /\ ~Over(a)
      BY <2>1, <2>3, <2>7
    <3>2. a \in 1..L /\ Starts(a, n)
      BY <3>1 DEF StartsOf, Starts
    <3>3. \A j \in 1..L : ~Ends(j, a)'
      BY <2>4, <3>1
    <3>4. Starts(a, n)'
      BY <1>2, <3>2 DEF Starts
    <3> QED BY <1>2, <2>2, <3>2, <3>3, <3>4
  <2>8. ASSUME NEW n \in WorkNodes PROVE OrderedAt(L + 1, n)'
    <3>1. (L + 1) - 1 = L
      BY <1>2
    <3> QED BY <2>1, <2>6, <2>7, <3>1 DEF OrderedAt
  <2> QED BY <2>2, <2>5, <2>8 DEF FeedOrdered
<1> QED BY <1>1, <1>3, <1>4, FeedStep DEF FInv

-----------------------------------------------------------------------------
(* Transactions on the projected rows *)

(* A process in a transaction holds the rows it saw and, once it has fetched, how far
   the log went. *)
LEMMA TransactionIs ==
  ASSUME TInv, NEW p \in Pollers, InTransaction(p)
  PROVE  /\ State(p).seen \in SeenType
         /\ State(p).pc \in {"projecting", "polling"} =>
              State(p).upTo \in Nat /\ State(p).upTo <= Len(log)
<1>1. CASE p \in Workers
  <2>1. State(p) = worker[p] /\ worker[p] \in WorkerState
    BY <1>1 DEF State, TInv, TypeOK
  <2>2. CASE worker[p] \in QueuedState
    BY <2>1, <2>2 DEF QueuedState
  <2>3. CASE worker[p] \in PostingState
    BY <2>1, <2>3 DEF PostingState
  <2>4. CASE worker[p] \in AdmittedState
    BY <2>1, <2>4 DEF AdmittedState
  <2>5. CASE worker[p] \in PollState
    BY <1>1, <2>1, <2>5 DEF PollState, TInv, Linked
  <2>6. CASE worker[p] \in RestState
    BY <2>1, <2>6 DEF RestState, InTransaction
  <2> QED BY <2>1, <2>2, <2>3, <2>4, <2>5, <2>6 DEF WorkerState
<1>2. CASE p \in Sessions /\ p \notin Workers
  <2>1. State(p) = session[p] /\ session[p] \in SessionState
    BY <1>2 DEF State, TInv, TypeOK
  <2>2. CASE session[p] = Idle
    BY <2>1, <2>2 DEF Idle, InTransaction
  <2>3. CASE session[p] \in [pc : {"projecting"}, seen : SeenType, upTo : Nat]
    BY <1>2, <2>1, <2>3 DEF TInv, Linked
  <2> QED BY <2>1, <2>2, <2>3 DEF SessionState
<1> QED BY <1>1, <1>2 DEF Pollers

(* What one step does to one transaction: nothing, begin it, go on with it, end it
   without a projection or with one. *)
Same(p) == State(p)' = State(p)
Begins(p) ==
  /\ ~InTransaction(p) /\ State(p)'.seen = Seen
  /\ ~Projects(p) /\ UNCHANGED activities
Goes(p) ==
  /\ InTransaction(p) /\ State(p)'.seen = State(p).seen
  /\ ~Projects(p) /\ UNCHANGED activities
Leaves(p) == ~InTransaction(p)' /\ ~Projects(p) /\ UNCHANGED activities
Replays(p) ==
  /\ InTransaction(p) /\ ~InTransaction(p)' /\ Projects(p)
  /\ ~Collides(State(p).seen, State(p).upTo)
  /\ State(p).pc \in {"projecting", "polling"}
  /\ Project(State(p).upTo) /\ UNCHANGED log
Moved(p) == Begins(p) \/ Goes(p) \/ Leaves(p) \/ Replays(p)

LEMMA WorkerMoved ==
  ASSUME TInv, NEW w \in Workers, WorkerStep(w) \/ WorkerFault(w)
  PROVE  Moved(w) \/ (Same(w) /\ UNCHANGED activities)
<1>1. State(w) = worker[w] /\ State(w)' = worker'[w] /\ worker[w] \in WorkerState
      /\ DOMAIN worker = Workers
  BY DEF State, TInv, TypeOK
<1>2. ~InTransaction(w) <=> worker[w].pc \in {"idle", "following"}
  BY <1>1, WorkerFields DEF InTransaction, WorkerState, QueuedState, PostingState, AdmittedState, PollState, RestState
<1>3. CASE StartDispatch(w)
  <2>1. CASE worker' = worker
    BY <1>1, <1>3, <2>1 DEF Same, StartDispatch, site
  <2>2. CASE worker' # worker
    <3>1. worker'[w].seen = Seen /\ worker'[w].pc = "queued" /\ worker[w] = Idle /\ UNCHANGED activities
      BY <1>1, <1>3, <2>2 DEF StartDispatch, site
    <3> QED BY <1>1, <1>2, <3>1 DEF Moved, Begins, Projects, Idle
  <2> QED BY <2>1, <2>2
<1>4. CASE PrepareManifest(w) \/ PostAccepted(w) \/ FirstFetch(w)
  <2>1. /\ worker[w].pc \in {"queued", "posting", "admitted"} /\ UNCHANGED activities
        /\ worker'[w].seen = worker[w].seen /\ worker'[w].pc # "following"
    BY <1>1, <1>4 DEF PrepareManifest, PostAccepted, Admit, FirstFetch, site
  <2> QED BY <1>1, <1>2, <2>1 DEF Moved, Goes, Projects
<1>5. CASE \/ AwaitApproval(w) \/ HandOver(w) \/ StopFollowing(w) \/ PollCollides(w)
           \/ WorkerFault(w)
  <2>1. worker'[w] = Idle /\ UNCHANGED activities
    BY <1>1, <1>5 DEF AwaitApproval, HandOver, StopFollowing, PollCollides, WorkerFault, PostLost,
                      DispatchRefused, PollFails, JobDies, RecordFailure, site
  <2> QED BY <1>1, <2>1 DEF Moved, Leaves, Projects, Idle, InTransaction
<1>6. CASE PollAgain(w) \/ StartContinuation(w)
  <2>1. /\ worker[w].pc \in {"idle", "following"} /\ UNCHANGED activities
        /\ worker'[w].seen = Seen /\ worker'[w].pc # "following"
    BY <1>1, <1>6 DEF PollAgain, StartContinuation, Fetch, site, Idle
  <2> QED BY <1>1, <1>2, <2>1 DEF Moved, Begins, Projects
<1>7. CASE CommitPoll(w)
  <2>1. /\ worker[w].pc \in {"projecting", "polling"} /\ worker'[w] = [pc |-> "following"]
        /\ ~Collides(worker[w].seen, worker[w].upTo) /\ Project(worker[w].upTo) /\ UNCHANGED log
    BY <1>1, <1>7 DEF CommitPoll, world
  <2> QED BY <1>1, <1>2, <2>1 DEF Moved, Replays, Projects, InTransaction
<1> QED BY <1>3, <1>4, <1>5, <1>6, <1>7 DEF WorkerStep

LEMMA SessionMoved ==
  ASSUME TInv, NEW s \in Sessions, Sync(s) \/ Control(s) \/ CommitSync(s)
  PROVE  Moved(s)
<1>1. /\ s \notin Workers /\ State(s) = session[s] /\ State(s)' = session'[s]
      /\ session[s] \in SessionState
      /\ DOMAIN session = Sessions
  BY PollersAssumption DEF State, TInv, TypeOK
<1>2. ~InTransaction(s) <=> session[s] = Idle
  BY <1>1 DEF InTransaction, SessionState, Idle
<1>3. CASE Sync(s) \/ Control(s)
  <2>1. session[s] = Idle /\ session'[s].seen = Seen /\ UNCHANGED activities
    BY <1>1, <1>3 DEF Sync, Control, site
  <2> QED BY <1>1, <1>2, <2>1 DEF Moved, Begins, Projects, Idle
<1>4. CASE CommitSync(s)
  <2>1. session[s].pc = "projecting" /\ session'[s] = Idle /\ UNCHANGED log
    BY <1>1, <1>4 DEF CommitSync, world
  <2>2. CASE Collides(session[s].seen, session[s].upTo)
    <3>1. UNCHANGED activities
      BY <1>4, <2>2 DEF CommitSync
    <3> QED BY <1>1, <2>1, <2>2, <3>1 DEF Moved, Leaves, Projects, Idle, InTransaction
  <2>3. CASE ~Collides(session[s].seen, session[s].upTo)
    <3>1. Project(session[s].upTo)
      BY <1>4, <2>3 DEF CommitSync
    <3> QED BY <1>1, <1>2, <2>1, <2>3, <3>1 DEF Moved, Replays, Projects, Idle, InTransaction
  <2> QED BY <2>2, <2>3
<1> QED BY <1>3, <1>4

(* One transaction moves at a time. *)
LEMMA OneMoves ==
  ASSUME TInv, Next
  PROVE  \/ UNCHANGED activities /\ \A q \in Pollers : Same(q)
         \/ \E p \in Pollers : Moved(p) /\ \A q \in Pollers \ {p} : Same(q)
<1>1. CASE UNCHANGED <<worker, session, activities>>
  BY <1>1 DEF Same, State
<1>2. ASSUME NEW w \in Workers, WorkerStep(w) \/ WorkerFault(w)
      PROVE  /\ w \in Pollers /\ \A q \in Pollers \ {w} : Same(q)
             /\ Moved(w) \/ (Same(w) /\ UNCHANGED activities)
  <2>1. UNCHANGED session /\ (worker' = worker \/ \E r : worker' = [worker EXCEPT ![w] = r])
    BY <1>2 DEF WorkerStep, WorkerFault, StartDispatch, PrepareManifest, AwaitApproval, PostAccepted,
       FirstFetch, PollAgain, HandOver, StopFollowing, StartContinuation, CommitPoll, PollCollides,
       PostLost, DispatchRefused, PollFails, JobDies, Fetch, RecordFailure
  <2>2. \A u \in Workers \ {w} : worker'[u] = worker[u]
    BY <2>1 DEF TInv, TypeOK
  <2> QED BY <1>2, <2>1, <2>2, WorkerMoved DEF Same, State, Pollers
<1>3. ASSUME NEW s \in Sessions, Sync(s) \/ Control(s) \/ CommitSync(s)
      PROVE  s \in Pollers /\ Moved(s) /\ \A q \in Pollers \ {s} : Same(q)
  <2>1. UNCHANGED worker /\ \E r : session' = [session EXCEPT ![s] = r]
    BY <1>3 DEF Sync, Control, CommitSync
  <2>2. \A u \in Sessions \ {s} : session'[u] = session[u]
    BY <2>1 DEF TInv, TypeOK
  <2> QED BY <1>3, <2>1, <2>2, SessionMoved DEF Same, State, Pollers
<1>4. CASE CreateMission \/ ReconcileStaleRuns \/ GatewayEvent \/ Drift \/ Lapse
  BY <1>1, <1>4 DEF CreateMission, ReconcileStaleRuns, GatewayEvent, Drift, Lapse, site, procs
<1>5. ASSUME NEW v \in Approvers, Decide(v) \/ CommitDecision(v)
      PROVE  UNCHANGED <<worker, session, activities>>
  BY <1>5 DEF Decide, CommitDecision, site
<1> QED BY <1>1, <1>2, <1>3, <1>4, <1>5 DEF Next

-----------------------------------------------------------------------------
(* Replay, event by event *)

LEMMA NatMin ==
  ASSUME NEW T, T \subseteq Nat, T # {}
  PROVE  \E x \in T : \A y \in T : x <= y
<1>1. IsWellFoundedOn(OpToRel(<, Nat), Nat)
  BY NatLessThanWellFounded
<1>2. PICK x \in T : \A y \in T : ~(<<y, x>> \in OpToRel(<, Nat))
  BY <1>1, WFMin
<1>3. ASSUME NEW y \in T PROVE x <= y
  <2>1. ~(y < x)
    BY <1>2 DEF OpToRel
  <2> QED BY <2>1
<1> QED BY <1>3

(* Induction up to k, over the set of the numbers that have a property. *)
LEMMA UpTo ==
  ASSUME NEW T, NEW k \in Nat, 0 \in T, \A i \in 0..k : i # k /\ i \in T => i + 1 \in T
  PROVE  \A i \in 0..k : i \in T
<1> DEFINE Bad == (0..k) \ T
<1> SUFFICES ASSUME Bad # {} PROVE FALSE
  OBVIOUS
<1>1. PICK m \in Bad : \A i \in Bad : m <= i
  <2>1. Bad \subseteq Nat
    OBVIOUS
  <2> HIDE DEF Bad
  <2> QED BY <2>1, NatMin
<1>2. m # 0 /\ m - 1 \in 0..k /\ m - 1 # k
  BY <1>1
<1>3. m - 1 \in T
  BY <1>1, <1>2
<1>4. (m - 1) + 1 \in T /\ (m - 1) + 1 = m
  BY <1>2, <1>3, <1>1
<1> QED BY <1>1, <1>4

(* The first pass, event by event. *)
EnsuredFrom(v, i, f) ==
  IF i = 0 THEN [rows |-> units, row |-> [n \in WorkNodes |-> UnitOf(n, v.units)]]
  ELSE EnsureWorkUnit(f[i - 1], feed[i])
Ensures(f, v, k) == f = [i \in 0..k |-> EnsuredFrom(v, i, f)]

LEMMA EnsuresExist == ASSUME NEW v, NEW k \in Nat PROVE \E f : Ensures(f, v, k)
<1> DEFINE T == {m \in Nat : \E f : Ensures(f, v, m)}
<1>1. 0 \in T
  <2> DEFINE f == [i \in 0..0 |-> EnsuredFrom(v, i, <<>>)]
  <2>1. \A i \in 0..0 : EnsuredFrom(v, i, <<>>) = EnsuredFrom(v, i, f)
    BY DEF EnsuredFrom
  <2>2. Ensures(f, v, 0)
    BY <2>1 DEF Ensures
  <2> QED BY <2>2
<1>2. ASSUME NEW m \in Nat, m \in T PROVE m + 1 \in T
  <2>1. PICK f : Ensures(f, v, m)
    BY <1>2
  <2> DEFINE g == [i \in 0..m + 1 |-> EnsuredFrom(v, i, f)]
  <2>2. ASSUME NEW i \in 0..m + 1 PROVE EnsuredFrom(v, i, g) = EnsuredFrom(v, i, f)
    <3>1. CASE i = 0
      BY <3>1 DEF EnsuredFrom
    <3>2. CASE i # 0
      <4>1. i - 1 \in 0..m /\ i - 1 \in 0..m + 1
        BY <3>2
      <4>2. f[i - 1] = EnsuredFrom(v, i - 1, f)
        BY <2>1, <4>1 DEF Ensures
      <4>3. g[i - 1] = f[i - 1]
        BY <4>1, <4>2
      <4> HIDE DEF g
      <4> QED BY <3>2, <4>3 DEF EnsuredFrom
    <3> QED BY <3>1, <3>2
  <2>3. Ensures(g, v, m + 1)
    <3> HIDE DEF g
    <3>1. g = [i \in 0..m + 1 |-> EnsuredFrom(v, i, f)]
      BY DEF g
    <3> QED BY <2>2, <3>1 DEF Ensures
  <2> HIDE DEF g
  <2> QED BY <2>3
<1> HIDE DEF T
<1>3. k \in T
  BY <1>1, <1>2, UpTo
<1> QED BY <1>3 DEF T

LEMMA EnsuresUnfold ==
  ASSUME NEW v, NEW k \in Nat
  PROVE  \E f : Ensures(f, v, k) /\ EnsuredUnits(v, k) = f[k]
<1> DEFINE f == CHOOSE g : g = [i \in 0..k |-> EnsuredFrom(v, i, g)]
<1>1. \E g : g = [i \in 0..k |-> EnsuredFrom(v, i, g)]
  BY EnsuresExist DEF Ensures
<1>2. f = [i \in 0..k |-> EnsuredFrom(v, i, f)]
  BY <1>1, Zenon
<1>3. EnsuredUnits(v, k) = f[k]
  BY Zenon DEF EnsuredUnits, EnsuredFrom
<1> HIDE DEF f
<1> QED BY <1>2, <1>3 DEF Ensures

(* The second pass, event by event. *)
ReplayedFrom(v, k, i, f) ==
  IF i = 0 THEN [units |-> EnsuredUnits(v, k).rows, runs |-> Visible(v)]
  ELSE ProjectEvent(f[i - 1], i, k, EnsuredUnits(v, k).row)
Replaying(f, v, k, m) == f = [i \in 0..m |-> ReplayedFrom(v, k, i, f)]

LEMMA ReplaysExist == ASSUME NEW v, NEW k, NEW l \in Nat PROVE \E f : Replaying(f, v, k, l)
<1> DEFINE T == {m \in Nat : \E f : Replaying(f, v, k, m)}
<1>1. 0 \in T
  <2> DEFINE f == [i \in 0..0 |-> ReplayedFrom(v, k, i, <<>>)]
  <2>1. \A i \in 0..0 : ReplayedFrom(v, k, i, <<>>) = ReplayedFrom(v, k, i, f)
    BY DEF ReplayedFrom
  <2>2. Replaying(f, v, k, 0)
    BY <2>1 DEF Replaying
  <2> QED BY <2>2
<1>2. ASSUME NEW m \in Nat, m \in T PROVE m + 1 \in T
  <2>1. PICK f : Replaying(f, v, k, m)
    BY <1>2
  <2> DEFINE g == [i \in 0..m + 1 |-> ReplayedFrom(v, k, i, f)]
  <2>2. ASSUME NEW i \in 0..m + 1 PROVE ReplayedFrom(v, k, i, g) = ReplayedFrom(v, k, i, f)
    <3>1. CASE i = 0
      BY <3>1 DEF ReplayedFrom
    <3>2. CASE i # 0
      <4>1. i - 1 \in 0..m /\ i - 1 \in 0..m + 1
        BY <3>2
      <4>2. f[i - 1] = ReplayedFrom(v, k, i - 1, f)
        BY <2>1, <4>1 DEF Replaying
      <4>3. g[i - 1] = f[i - 1]
        BY <4>1, <4>2
      <4> HIDE DEF g
      <4> QED BY <3>2, <4>3 DEF ReplayedFrom
    <3> QED BY <3>1, <3>2
  <2>3. Replaying(g, v, k, m + 1)
    <3> HIDE DEF g
    <3>1. g = [i \in 0..m + 1 |-> ReplayedFrom(v, k, i, f)]
      BY DEF g
    <3> QED BY <2>2, <3>1 DEF Replaying
  <2> HIDE DEF g
  <2> QED BY <2>3
<1> HIDE DEF T
<1>3. l \in T
  BY <1>1, <1>2, UpTo
<1> QED BY <1>3 DEF T

LEMMA ReplaysUnfold ==
  ASSUME NEW v, NEW k \in Nat
  PROVE  \E f : Replaying(f, v, k, k) /\ ProjectEvents(v, k) = f[k]
<1> DEFINE f == CHOOSE g : g = [i \in 0..k |-> ReplayedFrom(v, k, i, g)]
<1>1. \E g : g = [i \in 0..k |-> ReplayedFrom(v, k, i, g)]
  <2>1. PICK g : Replaying(g, v, k, k)
    BY ReplaysExist
  <2>2. g = [i \in 0..k |-> ReplayedFrom(v, k, i, g)]
    BY <2>1 DEF Replaying
  <2> QED BY <2>2
<1>2. f = [i \in 0..k |-> ReplayedFrom(v, k, i, f)]
  BY <1>1, Zenon
<1>3. ProjectEvents(v, k) = f[k]
  BY Zenon DEF ProjectEvents, ReplayedFrom
<1> HIDE DEF f
<1> QED BY <1>2, <1>3 DEF Replaying

-----------------------------------------------------------------------------
(* The rows of the work beneath a mission *)

UnitRows ==
  [node : WorkNodes, status : {"Running", "Succeeded", "Failed"}, count : Nat, attempt : Attempts]

HasUnit(n, m) == \E i \in 1..m : units[i].node = n
StartedIn(E, n) == \E e \in E : Starts(e, n)

RowsTyped ==
  /\ units \in Seq(UnitRows)
  /\ attempts \in [Attempts -> {None} \cup AttemptRuns]
  /\ stale \subseteq {a \in Attempts : attempts[a] # None}

(* A node has a unit, and an attempt its run, once its start is among the stored
   activities. *)
UnitsAreStarted == \A n \in WorkNodes : HasUnit(n, Len(units)) <=> StartedIn(activities, n)
AttemptsAreStarted == \A a \in Attempts :
  /\ attempts[a] # None <=> (a \in activities /\ feed[a].type = "node_started")
  /\ attempts[a] # None => attempts[a].number = Cardinality(StartsOf(feed[a].node, a))

(* A snapshot shows the units and the attempts of the activities it shows. *)
Agrees(v, E) ==
  /\ v.units \in Nat /\ v.units <= Len(units)
  /\ E \subseteq activities
  /\ \A n \in WorkNodes : HasUnit(n, v.units) <=> StartedIn(E, n)
  /\ v.attempts = {a \in Attempts : a \in E /\ feed[a].type = "node_started"}

Rows == RowsTyped /\ OneUnitPerNode /\ UnitsAreStarted /\ AttemptsAreStarted
Views == \A p \in Pollers : InTransaction(p) => Agrees(view[p], State(p).seen.activities)
WInv == FInv /\ ProjectedPrefix /\ Rows /\ Views

LEMMA UnitOfIs ==
  ASSUME NEW m \in Nat, NEW n
  PROVE  /\ UnitOf(n, m) \in 0..m /\ (UnitOf(n, m) # 0 <=> HasUnit(n, m))
         /\ UnitOf(n, m) # 0 => units[UnitOf(n, m)].node = n
<1> DEFINE found == {i \in 1..m : units[i].node = n}
<1>1. CASE found = {}
  <2>1. UnitOf(n, m) = 0
    BY <1>1 DEF UnitOf
  <2>2. ~HasUnit(n, m)
    BY <1>1 DEF HasUnit
  <2> QED BY <2>1, <2>2
<1>2. CASE found # {}
  <2>1. UnitOf(n, m) = Min(found)
    BY <1>2 DEF UnitOf
  <2>2. \E i \in found : \A j \in found : i <= j
    <3>1. found \subseteq Nat
      OBVIOUS
    <3> HIDE DEF found
    <3> QED BY <1>2, <3>1, NatMin
  <2>3. Min(found) \in found
    <3> HIDE DEF found
    <3> QED BY <2>2 DEF Min
  <2>4. UnitOf(n, m) \in found
    BY <2>1, <2>3
  <2> QED BY <2>4 DEF HasUnit
<1> QED BY <1>1, <1>2

(* What the first pass has done after i events, upon a snapshot that shows the events E. *)
RowOf(d, n) == \E j \in 1..Len(d.rows) : d.rows[j].node = n
RowsOnce(d) == \A j, l \in 1..Len(d.rows) : d.rows[j].node = d.rows[l].node => j = l
EnsuredTyped(d) ==
  /\ d.rows \in Seq(UnitRows) /\ Len(units) <= Len(d.rows)
  /\ d.row \in [WorkNodes -> 0..Len(d.rows)]
  /\ \A n \in WorkNodes : d.row[n] # 0 => d.rows[d.row[n]].node = n
  /\ \A j \in 1..Len(units) : d.rows[j].node = units[j].node
EnsuredUpTo(d, E, i) ==
  /\ EnsuredTyped(d) /\ RowsOnce(d)
  /\ \A n \in WorkNodes : RowOf(d, n) <=> (StartedIn(activities, n) \/ StartedIn(1..i, n))
  /\ \A n \in WorkNodes : d.row[n] # 0 <=> (StartedIn(E, n) \/ StartedIn(1..i, n))

Clear(E, k) == \A e \in 1..k : e \in activities => e \in E

(* What is there already. *)
LEMMA EnsureStarts ==
  ASSUME Rows, NEW v, NEW E, Agrees(v, E), NEW d,
         d = [rows |-> units, row |-> [n \in WorkNodes |-> UnitOf(n, v.units)]]
  PROVE  EnsuredUpTo(d, E, 0)
<1>1. Len(units) \in Nat /\ DOMAIN units = 1..Len(units) /\ units \in Seq(UnitRows)
  BY LenProperties DEF Rows, RowsTyped
<1>2. d.rows = units /\ d.row = [n \in WorkNodes |-> UnitOf(n, v.units)]
  OBVIOUS
<1>3. \A n \in WorkNodes : /\ UnitOf(n, v.units) \in 0..Len(units)
                           /\ UnitOf(n, v.units) # 0 <=> StartedIn(E, n)
                           /\ UnitOf(n, v.units) # 0 => units[UnitOf(n, v.units)].node = n
  <2>1. v.units \in Nat /\ v.units <= Len(units)
    BY DEF Agrees
  <2>2. \A n \in WorkNodes : HasUnit(n, v.units) <=> StartedIn(E, n)
    BY DEF Agrees
  <2> QED BY <1>1, <2>1, <2>2, UnitOfIs
<1>4. \A n : ~StartedIn(1..0, n)
  BY DEF StartedIn
<1>5. EnsuredTyped(d)
  BY <1>1, <1>2, <1>3 DEF EnsuredTyped
<1>6. RowsOnce(d)
  BY <1>1, <1>2 DEF RowsOnce, Rows, OneUnitPerNode
<1>7. \A n \in WorkNodes : RowOf(d, n) <=> StartedIn(activities, n)
  BY <1>2 DEF RowOf, Rows, UnitsAreStarted, HasUnit
<1> QED BY <1>2, <1>3, <1>4, <1>5, <1>6, <1>7 DEF EnsuredUpTo

LEMMA StartedNext ==
  ASSUME NEW i \in Nat, NEW n
  PROVE  StartedIn(1..(i + 1), n) <=> (StartedIn(1..i, n) \/ Starts(i + 1, n))
<1>1. \A j \in 1..(i + 1) : j \in 1..i \/ j = i + 1
  OBVIOUS
<1>2. 1..i \subseteq 1..(i + 1) /\ i + 1 \in 1..(i + 1)
  OBVIOUS
<1> QED BY <1>1, <1>2 DEF StartedIn

(* One event more: a node that no stored event started gets a row, and only then. *)
LEMMA EnsureStep ==
  ASSUME FInv, ProjectedPrefix, NEW E, NEW k \in Nat, k <= Len(feed), E \subseteq activities,
         Clear(E, k), NEW i \in 0..(k - 1), NEW d, EnsuredUpTo(d, E, i)
  PROVE  EnsuredUpTo(EnsureWorkUnit(d, feed[i + 1]), E, i + 1)
<1>1. /\ i \in Nat /\ i + 1 \in Nat /\ i + 1 \in 1..k /\ i + 1 \in DOMAIN feed
      /\ i + 1 \in 1..Len(feed)
  BY LenProperties DEF FInv, FeedTyped
<1>2. PICK e : e = feed[i + 1]
  OBVIOUS
<1>3. \A n \in WorkNodes : StartedIn(1..(i + 1), n) <=>
         (StartedIn(1..i, n) \/ (e.type = "node_started" /\ e.node = n))
  BY <1>1, <1>2, StartedNext DEF Starts
<1>4. CASE e.type # "node_started"
  <2>1. EnsureWorkUnit(d, e) = d
    BY <1>4 DEF EnsureWorkUnit
  <2> QED BY <1>2, <1>3, <1>4, <2>1 DEF EnsuredUpTo
<1>5. CASE e.type = "node_started"
  <2>1. e \in NodeEvents
    BY <1>1, <1>2, <1>5, FeedFields DEF FInv
  <2>2. PICK n0 \in WorkNodes : e.node = n0
    BY <2>1, NodeEventFields
  <2>3. e.attempt \in Attempts
    BY <2>1, NodeEventFields
  <2>4. /\ d.rows \in Seq(UnitRows) /\ Len(d.rows) \in Nat /\ Len(units) <= Len(d.rows)
        /\ d.row \in [WorkNodes -> 0..Len(d.rows)] /\ Len(units) \in Nat
        /\ \A n \in WorkNodes : d.row[n] # 0 => d.rows[d.row[n]].node = n
        /\ \A j \in 1..Len(units) : d.rows[j].node = units[j].node
    BY LenProperties DEF EnsuredUpTo, EnsuredTyped
  <2>5. Starts(i + 1, n0)
    BY <1>2, <1>5, <2>2 DEF Starts
  <2>6. \A c \in Nat : Unit(n0, "Running", c, e.attempt) \in UnitRows /\ Unit(n0, "Running", c, e.attempt).node = n0
    BY <2>3 DEF Unit, UnitRows
  <2>7. \A n \in WorkNodes : /\ RowOf(d, n) <=> (StartedIn(activities, n) \/ StartedIn(1..i, n))
                             /\ d.row[n] # 0 <=> (StartedIn(E, n) \/ StartedIn(1..i, n))
    BY DEF EnsuredUpTo
  <2>8. CASE d.row[n0] = 0
    <3>1. PICK L \in Nat : L = Len(d.rows)
      BY <2>4
    <3>2. PICK u \in UnitRows : u = Unit(n0, "Running", 0, e.attempt) /\ u.node = n0
      BY <2>6
    <3>3. PICK r : r = EnsureWorkUnit(d, e)
      OBVIOUS
    <3>4. r.rows = Append(d.rows, u) /\ r.row = [d.row EXCEPT ![n0] = L + 1]
      BY <1>5, <2>2, <2>8, <3>1, <3>2, <3>3 DEF EnsureWorkUnit
    <3>5. /\ r.rows \in Seq(UnitRows) /\ Len(r.rows) = L + 1 /\ r.rows[L + 1] = u
          /\ \A j \in 1..L : r.rows[j] = d.rows[j]
      BY <2>4, <3>1, <3>2, <3>4, AppendProperties
    <3>6. \A j \in 1..(L + 1) : j \in 1..L \/ j = L + 1
      BY <3>1
    <3>7. \A n \in WorkNodes : RowOf(r, n) <=> (RowOf(d, n) \/ n = n0)
      <4>1. ASSUME NEW n \in WorkNodes, RowOf(r, n) PROVE RowOf(d, n) \/ n = n0
        BY <3>1, <3>2, <3>5, <3>6, <4>1 DEF RowOf
      <4>2. ASSUME NEW n \in WorkNodes, RowOf(d, n) PROVE RowOf(r, n)
        <5>1. \A j \in 1..L : j \in 1..(L + 1)
          BY <3>1
        <5> QED BY <3>1, <3>5, <4>2, <5>1 DEF RowOf
      <4>3. RowOf(r, n0)
        <5>1. L + 1 \in 1..(L + 1)
          BY <3>1
        <5> QED BY <3>2, <3>5, <5>1 DEF RowOf
      <4> QED BY <4>1, <4>2, <4>3
    <3>8. ~RowOf(d, n0)
      <4>1. ~StartedIn(E, n0) /\ ~StartedIn(1..i, n0)
        BY <2>7, <2>8
      <4>2. ~StartedIn(activities, n0)
        <5> SUFFICES ASSUME NEW a \in activities, Starts(a, n0) PROVE FALSE
          BY DEF StartedIn
        <5>1. PICK c \in Nat : activities = 1..c
          BY DEF ProjectedPrefix
        <5>2. CASE i + 1 <= c
          <6>1. i + 1 \in E
            BY <1>1, <5>1, <5>2 DEF Clear
          <6> QED BY <2>5, <4>1, <6>1 DEF StartedIn
        <5>3. CASE c <= i
          <6>1. a \in 1..i
            BY <1>1, <5>1, <5>3
          <6> QED BY <4>1, <6>1 DEF StartedIn
        <5> QED BY <1>1, <5>1, <5>2, <5>3
      <4> QED BY <2>7, <4>1, <4>2
    <3>9. RowsOnce(r)
      <4>1. \A j \in 1..L : d.rows[j].node # n0
        BY <3>1, <3>8 DEF RowOf
      <4>2. \A j, l \in 1..L : d.rows[j].node = d.rows[l].node => j = l
        BY <3>1 DEF EnsuredUpTo, RowsOnce
      <4>3. \A j \in 1..L : r.rows[j].node = d.rows[j].node
        BY <3>5
      <4>4. r.rows[L + 1].node = n0 /\ Len(r.rows) = L + 1
        BY <3>2, <3>5, <3>6
      <4>5. \A j, l \in 1..L + 1 : r.rows[j].node = r.rows[l].node => j = l
        BY <4>1, <4>2, <4>3, <4>4, <3>6, Zenon
      <4> QED BY <4>4, <4>5 DEF RowsOnce
    <3>10. EnsuredTyped(r)
      <4>1. \A n \in WorkNodes : r.row[n] = IF n = n0 THEN L + 1 ELSE d.row[n]
        BY <2>4, <3>4
      <4>2. r.row \in [WorkNodes -> 0..(L + 1)]
        BY <2>4, <3>1, <3>4
      <4>3. ASSUME NEW n \in WorkNodes, r.row[n] # 0 PROVE r.rows[r.row[n]].node = n
        <5>1. CASE n = n0
          BY <3>2, <3>5, <4>1, <5>1
        <5>2. CASE n # n0
          <6>1. r.row[n] = d.row[n] /\ d.row[n] \in 1..L
            BY <2>4, <3>1, <4>1, <4>3, <5>2
          <6>2. r.rows[d.row[n]] = d.rows[d.row[n]]
            BY <3>5, <6>1
          <6>3. d.rows[d.row[n]].node = n
            BY <2>4, <4>3, <6>1, Zenon
          <6> QED BY <6>1, <6>2, <6>3, Zenon
        <5> QED BY <5>1, <5>2
      <4>4. \A j \in 1..Len(units) : r.rows[j].node = units[j].node
        <5>1. \A j \in 1..Len(units) : j \in 1..L
          BY <2>4, <3>1
        <5> QED BY <2>4, <3>5, <5>1
      <4>5. Len(units) <= Len(r.rows) /\ r.row \in [WorkNodes -> 0..Len(r.rows)]
        BY <2>4, <3>1, <3>5, <4>2
      <4> QED BY <3>5, <4>3, <4>4, <4>5 DEF EnsuredTyped
    <3>11. \A n \in WorkNodes : r.row[n] # 0 <=> (d.row[n] # 0 \/ n = n0)
      BY <2>4, <3>1, <3>4
    <3> QED BY <1>2, <1>3, <1>5, <2>2, <2>7, <3>3, <3>7, <3>9, <3>10, <3>11 DEF EnsuredUpTo
  <2>9. CASE d.row[n0] # 0
    <3>1. PICK L \in Nat : L = Len(d.rows) /\ DOMAIN d.rows = 1..L
      BY <2>4, LenProperties
    <3>2. PICK m \in 1..L : m = d.row[n0] /\ d.rows[m].node = n0 /\ d.rows[m] \in UnitRows
      <4>1. d.row[n0] \in 1..L
        BY <2>4, <2>9, <3>1
      <4> QED BY <2>4, <2>9, <3>1, <4>1, ElementOfSeq
    <3>3. PICK u \in UnitRows : u = Unit(n0, "Running", d.rows[m].count, e.attempt) /\ u.node = n0
      <4>1. d.rows[m].count \in Nat
        BY <3>2 DEF UnitRows
      <4> QED BY <2>6, <4>1
    <3>4. PICK r : r = EnsureWorkUnit(d, e)
      OBVIOUS
    <3>5. r.rows = [d.rows EXCEPT ![m] = u] /\ r.row = d.row
      BY <1>5, <2>2, <2>9, <3>2, <3>3, <3>4 DEF EnsureWorkUnit
    <3>6. r.rows \in Seq(UnitRows) /\ Len(r.rows) = L
      <4>1. m \in 1..Len(d.rows) /\ d.rows \in Seq(UnitRows)
        BY <2>4, <3>1
      <4> QED BY <3>1, <3>5, <4>1, ExceptSeq
    <3>7. \A j \in 1..L : r.rows[j].node = d.rows[j].node
      BY <3>1, <3>2, <3>3, <3>5
    <3>8. \A n \in WorkNodes : RowOf(r, n) <=> RowOf(d, n)
      BY <3>1, <3>6, <3>7 DEF RowOf
    <3>9. RowsOnce(r)
      BY <3>1, <3>6, <3>7 DEF RowsOnce, EnsuredUpTo
    <3>10. EnsuredTyped(r)
      <4>1. \A j \in 1..Len(units) : j \in 1..L
        BY <2>4, <3>1
      <4>2. \A n \in WorkNodes : d.row[n] # 0 => d.row[n] \in 1..L
        BY <2>4, <3>1
      <4>3. \A n \in WorkNodes : r.row[n] # 0 => r.rows[r.row[n]].node = n
        BY <2>4, <3>5, <3>7, <4>2
      <4>4. \A j \in 1..Len(units) : r.rows[j].node = units[j].node
        BY <2>4, <3>7, <4>1
      <4>5. r.row \in [WorkNodes -> 0..Len(r.rows)] /\ Len(units) <= Len(r.rows)
        BY <2>4, <3>1, <3>5, <3>6
      <4> QED BY <3>6, <4>3, <4>4, <4>5 DEF EnsuredTyped
    <3>11. RowOf(d, n0)
      BY <3>1, <3>2 DEF RowOf
    <3> QED BY <1>2, <1>3, <1>5, <2>2, <2>7, <2>9, <3>4, <3>5, <3>8, <3>9, <3>10, <3>11 DEF EnsuredUpTo
  <2> QED BY <1>2, <2>8, <2>9
<1> QED BY <1>2, <1>4, <1>5

(* The first pass, whole. *)
LEMMA EnsuredIs ==
  ASSUME FInv, ProjectedPrefix, Rows, NEW v, NEW E, Agrees(v, E), NEW k \in Nat, k <= Len(feed),
         Clear(E, k)
  PROVE  EnsuredUpTo(EnsuredUnits(v, k), E, k)
<1>1. PICK f : f = [i \in 0..k |-> EnsuredFrom(v, i, f)] /\ EnsuredUnits(v, k) = f[k]
  BY EnsuresUnfold DEF Ensures
<1> DEFINE T == {i \in 0..k : EnsuredUpTo(f[i], E, i)}
<1>2. 0 \in T
  <2>1. f[0] = [rows |-> units, row |-> [n \in WorkNodes |-> UnitOf(n, v.units)]]
    BY <1>1 DEF EnsuredFrom
  <2> QED BY <2>1, EnsureStarts
<1>3. ASSUME NEW i \in 0..k, i # k, i \in T PROVE i + 1 \in T
  <2>1. i \in 0..(k - 1) /\ i + 1 \in 0..k /\ i + 1 # 0 /\ (i + 1) - 1 = i
    BY <1>3
  <2>2. f[i + 1] = EnsureWorkUnit(f[i], feed[i + 1])
    BY <1>1, <2>1 DEF EnsuredFrom
  <2>3. EnsuredUpTo(f[i], E, i) /\ E \subseteq activities
    BY <1>3 DEF Agrees
  <2>4. EnsuredUpTo(EnsureWorkUnit(f[i], feed[i + 1]), E, i + 1)
    BY <2>1, <2>3, EnsureStep
  <2> QED BY <2>1, <2>2, <2>4
<1> HIDE DEF T
<1>4. \A i \in 0..k : i # k /\ i \in T => i + 1 \in T
  BY <1>3
<1>5. \A i \in 0..k : i \in T
  BY <1>2, <1>4, UpTo
<1>6. k \in T
  BY <1>5
<1> QED BY <1>1, <1>6 DEF T

LEMMA MaxIs ==
  ASSUME NEW k \in Nat, NEW S, S \subseteq 1..k, S # {}
  PROVE  Max(S) \in S /\ \A i \in S : i <= Max(S)
<1> DEFINE T == {k - i : i \in S}
<1>1. T \subseteq Nat /\ T # {}
  <2>1. \A i \in S : i \in 1..k /\ k - i \in Nat
    OBVIOUS
  <2>2. PICK i : i \in S
    OBVIOUS
  <2>3. k - i \in T
    BY <2>2
  <2> QED BY <2>1, <2>3
<1>2. PICK t \in T : \A u \in T : t <= u
  BY <1>1, NatMin
<1>3. PICK m \in S : t = k - m
  BY <1>2
<1>4. \A i \in S : k - m <= k - i
  BY <1>2, <1>3
<1>5. \A i \in S : i \in 1..k
  OBVIOUS
<1>6. \A i \in S : m >= i
  BY <1>4, <1>5
<1>7. Max(S) \in S /\ \A i \in S : Max(S) >= i
  BY <1>6 DEF Max
<1> QED BY <1>5, <1>7

LEMMA MaxOnly ==
  ASSUME NEW k \in Nat, NEW S, S \subseteq 1..k, NEW m \in S, \A i \in S : i <= m
  PROVE  Max(S) = m
<1>1. Max(S) \in S /\ \A i \in S : i <= Max(S)
  BY MaxIs
<1>2. PICK x : x = Max(S)
  OBVIOUS
<1>3. x \in 1..k /\ m \in 1..k /\ x <= m /\ m <= x
  BY <1>1, <1>2
<1> QED BY <1>2, <1>3

(* How a node stands after i events, counted over the k events of the snapshot. *)
StandingAt(n, i, k) ==
  LET a == Max(StartsOf(n, i)) IN
  Unit(n, CASE Ended(a, i, "node_completed") -> "Succeeded"
            [] Ended(a, i, "node_failed") -> "Failed"
            [] OTHER -> "Running",
       Cardinality(StartsOf(n, k)), a)

StartOf(a) == feed[a].type = "node_started"

LEMMA StartsIn ==
  ASSUME NEW i \in Nat, NEW n
  PROVE  /\ StartsOf(n, i) \subseteq 1..i /\ Cardinality(StartsOf(n, i)) \in 0..i
         /\ StartsOf(n, i) # {} <=> StartedIn(1..i, n)
         /\ StartsOf(n, i + 1) = StartsOf(n, i) \cup (IF Starts(i + 1, n) THEN {i + 1} ELSE {})
<1>1. StartsOf(n, i) \in SUBSET (1..i)
  BY DEF StartsOf
<1>2. IsFiniteSet(1..i) /\ Cardinality(1..i) = i
  BY FS_Interval
<1>3. IsFiniteSet(StartsOf(n, i)) /\ Cardinality(StartsOf(n, i)) <= i
  BY <1>1, <1>2, FS_Subset
<1>4. Cardinality(StartsOf(n, i)) \in Nat
  BY <1>3, FS_CardinalityType
<1>5. \A j : j \in 1..(i + 1) <=> (j \in 1..i \/ j = i + 1)
  OBVIOUS
<1>6. StartsOf(n, i + 1) = StartsOf(n, i) \cup (IF Starts(i + 1, n) THEN {i + 1} ELSE {})
  BY <1>5 DEF StartsOf, Starts
<1>7. StartsOf(n, i) # {} <=> StartedIn(1..i, n)
  BY DEF StartsOf, StartedIn, Starts
<1> QED BY <1>1, <1>3, <1>4, <1>6, <1>7

LEMMA EndedNext ==
  ASSUME NEW i \in Nat, NEW a, NEW t
  PROVE  Ended(a, i + 1, t) <=> (Ended(a, i, t) \/ (feed[i + 1].type = t /\ feed[i + 1].attempt = a))
<1>1. \A j : j \in 1..(i + 1) <=> (j \in 1..i \/ j = i + 1)
  OBVIOUS
<1> QED BY <1>1 DEF Ended

(* The next event, as the feed orders it. *)
LEMMA EventIs ==
  ASSUME FInv, NEW i \in Nat, i + 1 <= Len(feed), NEW e, e = feed[i + 1], e # NoNode
  PROVE  /\ e \in NodeEvents
         /\ e.type = "node_started" =>
              /\ e.attempt = i + 1
              /\ \A t \in {"node_completed", "node_failed"} : ~Ended(i + 1, i + 1, t)
         /\ e.type # "node_started" =>
              /\ e.attempt \in StartsOf(e.node, i)
              /\ \A t \in {"node_completed", "node_failed"} : ~Ended(e.attempt, i, t)
              /\ Max(StartsOf(e.node, i)) = e.attempt
<1>1. /\ i + 1 \in 1..Len(feed) /\ i + 1 \in DOMAIN feed /\ DOMAIN feed = 1..Len(feed)
      /\ Len(feed) \in Nat
  BY LenProperties DEF FInv, FeedTyped
<1>2. e \in NodeEvents
  BY <1>1, FeedFields DEF FInv
<1>3. /\ e.type \in {"node_started", "node_completed", "node_failed"}
      /\ e.node \in WorkNodes /\ e.attempt \in Attempts /\ e.attempt \in Nat
  BY <1>2, NodeEventFields
<1>4. OrderedAt(i + 1, e.node)
  BY <1>1, <1>3 DEF FInv, FeedOrdered
<1>5. CASE e.type = "node_started"
  <2>1. Starts(i + 1, e.node)
    BY <1>5 DEF Starts
  <2>2. e.attempt = i + 1
    BY <1>4, <2>1 DEF OrderedAt
  <2>3. ASSUME NEW t \in {"node_completed", "node_failed"}, Ended(i + 1, i + 1, t) PROVE FALSE
    <3>1. PICK j \in 1..(i + 1) : feed[j].type = t /\ feed[j].attempt = i + 1
      BY <2>3 DEF Ended
    <3>2. j \in 1..Len(feed) /\ j \in DOMAIN feed
      BY <1>1, <3>1
    <3>3. feed[j] \in NodeEvents
      BY <3>1, <3>2, FeedFields DEF FInv
    <3>4. feed[j].node \in WorkNodes
      BY <3>3, NodeEventFields
    <3>5. OrderedAt(j, feed[j].node)
      BY <3>2, <3>4 DEF FInv, FeedOrdered
    <3>6. i + 1 < j
      <4>1. i + 1 \in Attempts
        BY <1>3, <2>2
      <4>2. Ends(j, i + 1)
        BY <3>1 DEF Ends
      <4> QED BY <3>5, <4>1, <4>2 DEF OrderedAt
    <3> QED BY <3>1, <3>6
  <2> QED BY <1>2, <1>5, <2>2, <2>3
<1>6. CASE e.type # "node_started"
  <2>1. Ends(i + 1, e.attempt)
    BY <1>3, <1>6 DEF Ends
  <2>2. /\ e.attempt < i + 1 /\ Starts(e.attempt, e.node)
        /\ \A j \in DOMAIN feed : Ends(j, e.attempt) => j = i + 1
    BY <1>3, <1>4, <2>1 DEF OrderedAt
  <2>3. e.attempt \in 1..i
    BY <1>3, <2>2 DEF Attempts
  <2>4. e.attempt \in StartsOf(e.node, i)
    BY <2>2, <2>3 DEF StartsOf, Starts
  <2>5. ASSUME NEW l \in 0..i, NEW t \in {"node_completed", "node_failed"}, Ended(e.attempt, l, t) PROVE FALSE
    <3>1. PICK j \in 1..l : feed[j].type = t /\ feed[j].attempt = e.attempt
      BY <2>5 DEF Ended
    <3>2. j \in DOMAIN feed /\ Ends(j, e.attempt) /\ j # i + 1
      BY <1>1, <3>1 DEF Ends
    <3> QED BY <2>2, <3>2
  <2>6. ASSUME NEW b \in StartsOf(e.node, i), e.attempt < b PROVE FALSE
    <3>1. b \in 1..i /\ Starts(b, e.node)
      BY <2>6 DEF StartsOf, Starts
    <3>2. b \in DOMAIN feed
      BY <1>1, <3>1
    <3>3. \A a \in StartsOf(e.node, b - 1) : Ended(a, b - 1, "node_failed")
      BY <1>3, <3>1, <3>2 DEF FInv, FeedOrdered, OrderedAt
    <3>4. e.attempt \in 1..(b - 1) /\ b - 1 \in 0..i
      BY <2>3, <2>6, <3>1
    <3>5. e.attempt \in StartsOf(e.node, b - 1)
      BY <2>2, <3>4 DEF StartsOf, Starts
    <3>6. Ended(e.attempt, b - 1, "node_failed")
      BY <3>3, <3>5
    <3> QED BY <2>5, <3>4, <3>6
  <2>7. \A b \in StartsOf(e.node, i) : b <= e.attempt
    <3>1. \A b \in StartsOf(e.node, i) : b \in Nat
      BY StartsIn
    <3> QED BY <1>3, <2>6, <3>1
  <2>8. Max(StartsOf(e.node, i)) = e.attempt
    <3>1. StartsOf(e.node, i) \subseteq 1..i
      BY StartsIn
    <3> QED BY <2>4, <2>7, <3>1, MaxOnly
  <2>9. \A t \in {"node_completed", "node_failed"} : ~Ended(e.attempt, i, t)
    BY <2>5
  <2> QED BY <1>2, <1>6, <2>4, <2>8, <2>9
<1> QED BY <1>5, <1>6

LEMMA StatusIs ==
  ASSUME NEW e \in NodeEvents
  PROVE  /\ e.type = "node_started" => StatusOf(e.type) = "Running"
         /\ e.type = "node_completed" => StatusOf(e.type) = "Succeeded"
         /\ e.type = "node_failed" => StatusOf(e.type) = "Failed"
         /\ StatusOf(e.type) \in {"Running", "Succeeded", "Failed"}
<1>1. e.type \in {"node_started", "node_completed", "node_failed"}
  BY NodeEventFields
<1>2. CASE e.type = "node_started"
  BY <1>2 DEF StatusOf
<1>3. CASE e.type = "node_completed"
  BY <1>3 DEF StatusOf
<1>4. CASE e.type = "node_failed"
  BY <1>4 DEF StatusOf
<1> QED BY <1>1, <1>2, <1>3, <1>4

(* An attempt that the next event does not concern has ended as before. *)
LEMMA OthersEnd ==
  ASSUME FInv, NEW i \in Nat, i + 1 <= Len(feed), NEW a,
         feed[i + 1] = NoNode \/ feed[i + 1].attempt # a, NEW t \in {"node_completed", "node_failed"}
  PROVE  Ended(a, i + 1, t) <=> Ended(a, i, t)
<1>1. feed[i + 1] = NoNode => feed[i + 1].type # t
  BY DEF NoNode
<1> QED BY <1>1, EndedNext

(* How a node stands after the next event. *)
LEMMA StandingNext ==
  ASSUME FInv, NEW i \in Nat, i + 1 <= Len(feed), NEW k \in Nat, NEW n \in WorkNodes,
         NEW e, e = feed[i + 1], StartedIn(1..(i + 1), n)
  PROVE  IF e # NoNode /\ e.node = n
         THEN StandingAt(n, i + 1, k) = Unit(n, StatusOf(e.type), Cardinality(StartsOf(n, k)), e.attempt)
         ELSE StartedIn(1..i, n) /\ StandingAt(n, i + 1, k) = StandingAt(n, i, k)
<1>1. StartsOf(n, i) \subseteq 1..i /\ StartsOf(n, i + 1) \subseteq 1..(i + 1)
  BY StartsIn
<1>2. CASE e # NoNode /\ e.node = n /\ e.type = "node_started"
  <2>1. /\ e.attempt = i + 1 /\ e \in NodeEvents
        /\ \A t \in {"node_completed", "node_failed"} : ~Ended(i + 1, i + 1, t)
    BY <1>2, EventIs
  <2>2. Starts(i + 1, n)
    BY <1>2 DEF Starts
  <2>3. i + 1 \in StartsOf(n, i + 1)
    BY <2>2, StartsIn
  <2>4. Max(StartsOf(n, i + 1)) = i + 1
    BY <1>1, <2>3, MaxOnly
  <2>5. StandingAt(n, i + 1, k) = Unit(n, "Running", Cardinality(StartsOf(n, k)), i + 1)
    BY <2>1, <2>4 DEF StandingAt
  <2>6. StatusOf(e.type) = "Running"
    BY <1>2, <2>1, StatusIs
  <2> QED BY <1>2, <2>1, <2>5, <2>6
<1>3. ASSUME ~Starts(i + 1, n)
      PROVE  StartsOf(n, i + 1) = StartsOf(n, i) /\ StartedIn(1..i, n)
  <2>1. StartsOf(n, i + 1) = StartsOf(n, i) \cup (IF Starts(i + 1, n) THEN {i + 1} ELSE {})
    BY StartsIn
  <2>2. StartedIn(1..(i + 1), n) <=> (StartedIn(1..i, n) \/ Starts(i + 1, n))
    BY StartedNext
  <2> QED BY <1>3, <2>1, <2>2
<1>4. CASE e # NoNode /\ e.node = n /\ e.type # "node_started"
  <2>1. /\ e \in NodeEvents
        /\ \A t \in {"node_completed", "node_failed"} : ~Ended(e.attempt, i, t)
        /\ Max(StartsOf(n, i)) = e.attempt
    BY <1>4, EventIs
  <2>2. StartsOf(n, i + 1) = StartsOf(n, i)
    BY <1>3, <1>4 DEF Starts
  <2>3. \A t \in {"node_completed", "node_failed"} : Ended(e.attempt, i + 1, t) <=> e.type = t
    BY <2>1, EndedNext
  <2>4. StandingAt(n, i + 1, k) =
          Unit(n, CASE e.type = "node_completed" -> "Succeeded"
                    [] e.type = "node_failed" -> "Failed"
                    [] OTHER -> "Running",
               Cardinality(StartsOf(n, k)), e.attempt)
    BY <2>1, <2>2, <2>3 DEF StandingAt
  <2>5. CASE e.type = "node_completed"
    BY <1>4, <2>1, <2>4, <2>5, StatusIs
  <2>6. CASE e.type = "node_failed"
    BY <1>4, <2>1, <2>4, <2>6, StatusIs
  <2> QED BY <1>4, <2>1, <2>5, <2>6, NodeEventFields
<1>5. CASE e = NoNode \/ e.node # n
  <2>1. ~Starts(i + 1, n)
    BY <1>5 DEF Starts, NoNode
  <2>2. StartsOf(n, i + 1) = StartsOf(n, i) /\ StartedIn(1..i, n)
    BY <1>3, <2>1
  <2>3. PICK a : a = Max(StartsOf(n, i))
    OBVIOUS
  <2>4. a \in StartsOf(n, i)
    BY <1>1, <2>2, <2>3, MaxIs, StartsIn
  <2>5. e = NoNode \/ e.attempt # a
    <3> SUFFICES ASSUME e # NoNode, e.attempt = a PROVE FALSE
      OBVIOUS
    <3>1. e.type # "node_started"
      <4>1. a \in 1..i /\ a # i + 1
        BY <1>1, <2>4
      <4>2. e.type = "node_started" => e.attempt = i + 1
        BY EventIs
      <4> QED BY <4>1, <4>2
    <3>2. a \in StartsOf(e.node, i)
      BY <3>1, EventIs
    <3>3. feed[a].node = n /\ feed[a].node = e.node
      BY <2>4, <3>2 DEF StartsOf
    <3> QED BY <1>5, <3>3
  <2>6. \A t \in {"node_completed", "node_failed"} : Ended(a, i + 1, t) <=> Ended(a, i, t)
    BY <2>5, OthersEnd
  <2>7. StandingAt(n, i + 1, k) = StandingAt(n, i, k)
    BY <2>2, <2>3, <2>6 DEF StandingAt
  <2> QED BY <1>5, <2>2, <2>7
<1> QED BY <1>2, <1>4, <1>5

(* What the second pass has done to the units after i events. *)
UnitsUpTo(d, ensured, i, k) ==
  /\ d.units \in Seq(UnitRows) /\ Len(d.units) = Len(ensured.rows)
  /\ \A j \in 1..Len(ensured.rows) : d.units[j].node = ensured.rows[j].node
  /\ \A n \in WorkNodes : StartedIn(1..i, n) => d.units[ensured.row[n]] = StandingAt(n, i, k)

LEMMA UnitsStep ==
  ASSUME FInv, NEW E, NEW k \in Nat, k <= Len(feed), NEW ensured, EnsuredUpTo(ensured, E, k),
         NEW i \in 0..(k - 1), NEW d, UnitsUpTo(d, ensured, i, k)
  PROVE  UnitsUpTo(ProjectEvent(d, i + 1, k, ensured.row), ensured, i + 1, k)
<1>1. i \in Nat /\ i + 1 <= Len(feed) /\ Len(feed) \in Nat /\ 1..(i + 1) \subseteq 1..k
  BY LenProperties DEF FInv, FeedTyped
<1>2. PICK e : e = feed[i + 1]
  OBVIOUS
<1>3. PICK r : r = ProjectEvent(d, i + 1, k, ensured.row)
  OBVIOUS
<1>4. PICK L \in Nat : /\ L = Len(ensured.rows) /\ L = Len(d.units) /\ d.units \in Seq(UnitRows)
                       /\ DOMAIN d.units = 1..L
  BY LenProperties DEF UnitsUpTo
<1>5. \A n \in WorkNodes : StartedIn(1..k, n) =>
        ensured.row[n] \in 1..L /\ ensured.rows[ensured.row[n]].node = n
  BY <1>4 DEF EnsuredUpTo, EnsuredTyped
<1>6. \A n \in WorkNodes : StartedIn(1..(i + 1), n) => StartedIn(1..k, n)
  BY <1>1 DEF StartedIn
<1>7. CASE e = NoNode
  <2>1. r = d
    BY <1>2, <1>3, <1>7 DEF ProjectEvent
  <2>2. \A n \in WorkNodes : StartedIn(1..(i + 1), n) =>
          StartedIn(1..i, n) /\ StandingAt(n, i + 1, k) = StandingAt(n, i, k)
    <3> SUFFICES ASSUME NEW n \in WorkNodes, StartedIn(1..(i + 1), n)
                 PROVE  StartedIn(1..i, n) /\ StandingAt(n, i + 1, k) = StandingAt(n, i, k)
      OBVIOUS
    <3>1. IF e # NoNode /\ e.node = n
          THEN StandingAt(n, i + 1, k) = Unit(n, StatusOf(e.type), Cardinality(StartsOf(n, k)), e.attempt)
          ELSE StartedIn(1..i, n) /\ StandingAt(n, i + 1, k) = StandingAt(n, i, k)
      BY <1>1, <1>2, StandingNext
    <3> QED BY <1>7, <3>1
  <2> QED BY <1>3, <2>1, <2>2 DEF UnitsUpTo
<1>8. CASE e # NoNode
  <2>1. e \in NodeEvents
    BY <1>1, <1>2, <1>8, EventIs
  <2>2. PICK n0 \in WorkNodes : n0 = e.node
    BY <2>1, NodeEventFields
  <2>3. StartedIn(1..(i + 1), n0)
    <3>1. CASE e.type = "node_started"
      BY <1>1, <1>2, <2>2, <3>1, StartedNext DEF Starts
    <3>2. CASE e.type # "node_started"
      <4>1. e.attempt \in StartsOf(n0, i)
        BY <1>1, <1>2, <1>8, <2>2, <3>2, EventIs
      <4> QED BY <1>1, <4>1, StartsIn, StartedNext
    <3> QED BY <3>1, <3>2
  <2>4. PICK m \in 1..L : m = ensured.row[n0] /\ ensured.rows[m].node = n0
    BY <1>5, <1>6, <2>3
  <2>5. PICK u : u = Unit(n0, StatusOf(e.type), Cardinality(StartsOf(n0, k)), e.attempt)
    OBVIOUS
  <2>6. u \in UnitRows /\ u.node = n0
    <3>1. Cardinality(StartsOf(n0, k)) \in Nat
      BY StartsIn
    <3>2. e.attempt \in Attempts
      BY <2>1, NodeEventFields
    <3>3. StatusOf(e.type) \in {"Running", "Succeeded", "Failed"}
      BY <2>1, StatusIs
    <3> QED BY <2>5, <3>1, <3>2, <3>3 DEF Unit, UnitRows
  <2>7. r.units = [d.units EXCEPT ![m] = u]
    BY <1>2, <1>3, <1>8, <2>2, <2>4, <2>5 DEF ProjectEvent, ProjectUnit
  <2>8. r.units \in Seq(UnitRows) /\ Len(r.units) = L
    BY <1>4, <2>4, <2>6, <2>7, ExceptSeq
  <2>9. \A j \in 1..L : r.units[j] = IF j = m THEN u ELSE d.units[j]
    BY <1>4, <2>4, <2>7
  <2>10. \A j \in 1..L : r.units[j].node = ensured.rows[j].node
    <3>1. \A j \in 1..L : d.units[j].node = ensured.rows[j].node
      BY <1>4 DEF UnitsUpTo
    <3> QED BY <2>4, <2>6, <2>9, <3>1
  <2>11. ASSUME NEW n \in WorkNodes, StartedIn(1..(i + 1), n)
         PROVE  r.units[ensured.row[n]] = StandingAt(n, i + 1, k)
    <3>1. ensured.row[n] \in 1..L /\ ensured.rows[ensured.row[n]].node = n
      BY <1>5, <1>6, <2>11
    <3>2. CASE n = n0
      <4>1. StandingAt(n, i + 1, k) = u
        BY <1>1, <1>2, <1>8, <2>2, <2>5, <2>11, <3>2, StandingNext
      <4> QED BY <2>4, <2>9, <3>2, <4>1
    <3>3. CASE n # n0
      <4>1. StartedIn(1..i, n) /\ StandingAt(n, i + 1, k) = StandingAt(n, i, k)
        BY <1>1, <1>2, <2>2, <2>11, <3>3, StandingNext
      <4>2. ensured.row[n] # m
        BY <2>4, <3>1, <3>3
      <4>3. d.units[ensured.row[n]] = StandingAt(n, i, k)
        BY <4>1 DEF UnitsUpTo
      <4> QED BY <2>9, <3>1, <4>1, <4>2, <4>3
    <3> QED BY <3>2, <3>3
  <2> QED BY <1>3, <1>4, <2>8, <2>10, <2>11 DEF UnitsUpTo
<1> QED BY <1>7, <1>8

(* What the second pass has done to the runs of attempts after i events. *)
AttemptUpTo(r, v, a, i) ==
  /\ r # None <=> (a \in v.attempts \/ (a \in 1..i /\ feed[a].type = "node_started"))
  /\ r # None => r.number = Cardinality(StartsOf(feed[a].node, a))
  /\ a \in 1..i /\ feed[a].type = "node_started" =>
       /\ Ended(a, i, "node_completed") => r.status = "Succeeded"
       /\ Ended(a, i, "node_failed") => r.status = "Failed"
RunsUpTo(d, v, i) ==
  /\ d.runs \in [Attempts -> {None} \cup AttemptRuns]
  /\ \A a \in Attempts : AttemptUpTo(d.runs[a], v, a, i)

LEMMA RunsStart ==
  ASSUME Rows, NEW v, NEW E, Agrees(v, E), NEW d, d.runs = Visible(v)
  PROVE  RunsUpTo(d, v, 0)
<1>1. \A a \in Attempts : d.runs[a] = IF a \in v.attempts THEN attempts[a] ELSE None
  BY DEF Visible
<1>2. d.runs \in [Attempts -> {None} \cup AttemptRuns]
  BY DEF Visible, Rows, RowsTyped
<1>3. \A a \in v.attempts : a \in activities /\ feed[a].type = "node_started"
  BY DEF Agrees
<1>4. \A a \in Attempts : a \in v.attempts => attempts[a] # None
  BY <1>3 DEF Rows, AttemptsAreStarted
<1>5. \A a \in Attempts : attempts[a] # None => attempts[a].number = Cardinality(StartsOf(feed[a].node, a))
  BY DEF Rows, AttemptsAreStarted
<1>6. \A a : a \notin 1..0
  OBVIOUS
<1>7. \A a \in Attempts : AttemptUpTo(d.runs[a], v, a, 0)
  BY <1>1, <1>4, <1>5, <1>6 DEF AttemptUpTo
<1> QED BY <1>2, <1>7 DEF RunsUpTo

(* The run of the attempt an event is about. *)
LEMMA AttemptStep ==
  ASSUME FInv, NEW v, NEW i \in Nat, i + 1 <= Len(feed), NEW e, e = feed[i + 1], e # NoNode,
         NEW r \in {None} \cup AttemptRuns, AttemptUpTo(r, v, e.attempt, i)
  PROVE  /\ ProjectAttempt(r, e, i + 1) \in AttemptRuns
         /\ AttemptUpTo(ProjectAttempt(r, e, i + 1), v, e.attempt, i + 1)
<1>1. e \in NodeEvents /\ e.type \in {"node_started", "node_completed", "node_failed"}
      /\ e.attempt \in Attempts /\ e.attempt \in Nat
  BY EventIs, NodeEventFields
<1>2. i + 1 \in 0..MaxEvents /\ i + 1 \in Nat /\ MaxEvents \in Nat
  <2>1. PICK l \in Nat : l = Len(feed) /\ l <= MaxEvents
    BY LenProperties DEF FInv, FeedTyped
  <2> QED BY <2>1, BoundsAssumption
<1>3. StatusOf(e.type) \in AttemptStatus
  BY <1>1, StatusIs DEF AttemptStatus
<1>4. PICK q : q = ProjectAttempt(r, e, i + 1)
  OBVIOUS
<1>5. CASE e.type = "node_started"
  <2>1. /\ e.attempt = i + 1 /\ i + 1 \notin 1..i /\ i + 1 \in 1..(i + 1)
        /\ \A t \in {"node_completed", "node_failed"} : ~Ended(i + 1, i + 1, t)
    BY <1>5, EventIs
  <2>2. CASE r = None
    <3>1. q = AttemptRun(Cardinality(StartsOf(e.node, i + 1)), "Running", 0)
      BY <1>4, <1>5, <2>2 DEF ProjectAttempt
    <3>2. Cardinality(StartsOf(e.node, i + 1)) \in 0..MaxEvents
      <4>1. PICK c : c = Cardinality(StartsOf(e.node, i + 1)) /\ c \in 0..(i + 1)
        BY <1>2, StartsIn
      <4>2. c \in 0..MaxEvents
        BY <1>2, <4>1
      <4> QED BY <4>1, <4>2
    <3>3. q \in AttemptRuns /\ q.number = Cardinality(StartsOf(e.node, i + 1))
      BY <1>2, <3>1, <3>2 DEF AttemptRun, AttemptRuns, AttemptStatus
    <3>4. q # None
      BY <3>3, NoneAssumption
    <3> QED BY <1>4, <1>5, <2>1, <3>3, <3>4 DEF AttemptUpTo
  <2>3. CASE r # None
    <3>1. q = AttemptRun(r.number, r.status, i + 1)
      BY <1>4, <1>5, <2>3 DEF ProjectAttempt
    <3>2. q \in AttemptRuns /\ q.number = r.number
      BY <1>2, <2>3, <3>1 DEF AttemptRun, AttemptRuns
    <3>3. q # None
      BY <3>2, NoneAssumption
    <3> QED BY <1>4, <1>5, <2>1, <2>3, <3>2, <3>3 DEF AttemptUpTo
  <2> QED BY <2>2, <2>3
<1>6. CASE e.type # "node_started"
  <2>1. /\ e.attempt \in StartsOf(e.node, i)
        /\ \A t \in {"node_completed", "node_failed"} : ~Ended(e.attempt, i, t)
    BY <1>6, EventIs
  <2>2. e.attempt \in 1..i /\ feed[e.attempt].type = "node_started" /\ e.attempt \in 1..(i + 1)
    BY <2>1 DEF StartsOf
  <2>3. r # None /\ r.number = Cardinality(StartsOf(feed[e.attempt].node, e.attempt))
    BY <2>2 DEF AttemptUpTo
  <2>4. q = AttemptRun(r.number, StatusOf(e.type), i + 1)
    BY <1>4, <1>6, <2>3 DEF ProjectAttempt
  <2>5. q \in AttemptRuns /\ q.number = r.number /\ q.status = StatusOf(e.type)
    BY <1>2, <1>3, <2>3, <2>4 DEF AttemptRun, AttemptRuns
  <2>6. q # None
    BY <2>5, NoneAssumption
  <2>7. \A t \in {"node_completed", "node_failed"} : Ended(e.attempt, i + 1, t) => e.type = t
    BY <2>1, EndedNext
  <2>8. /\ Ended(e.attempt, i + 1, "node_completed") => q.status = "Succeeded"
        /\ Ended(e.attempt, i + 1, "node_failed") => q.status = "Failed"
    BY <1>1, <2>5, <2>7, StatusIs
  <2> QED BY <1>4, <2>2, <2>3, <2>5, <2>6, <2>8 DEF AttemptUpTo
<1> QED BY <1>5, <1>6

LEMMA RunsStep ==
  ASSUME FInv, NEW v, NEW k, NEW row, NEW i \in Nat, i + 1 <= Len(feed), NEW d, RunsUpTo(d, v, i)
  PROVE  RunsUpTo(ProjectEvent(d, i + 1, k, row), v, i + 1)
<1>1. PICK e : e = feed[i + 1]
  OBVIOUS
<1>2. PICK r : r = ProjectEvent(d, i + 1, k, row)
  OBVIOUS
<1>3. ASSUME NEW a \in Attempts, e = NoNode \/ e.attempt # a
      PROVE  AttemptUpTo(d.runs[a], v, a, i + 1)
  <2>1. \A t \in {"node_completed", "node_failed"} : Ended(a, i + 1, t) <=> Ended(a, i, t)
    BY <1>1, <1>3, OthersEnd
  <2>2. feed[i + 1].type = "node_started" => a # i + 1
    <3>1. e = NoNode => e.type # "node_started"
      BY DEF NoNode
    <3>2. e # NoNode /\ e.type = "node_started" => e.attempt = i + 1
      BY <1>1, EventIs
    <3> QED BY <1>1, <1>3, <3>1, <3>2
  <2>3. (a \in 1..(i + 1) /\ feed[a].type = "node_started") <=> (a \in 1..i /\ feed[a].type = "node_started")
    <3>1. a \in 1..(i + 1) <=> (a \in 1..i \/ a = i + 1)
      OBVIOUS
    <3> QED BY <2>2, <3>1
  <2>4. AttemptUpTo(d.runs[a], v, a, i)
    BY DEF RunsUpTo
  <2> QED BY <2>1, <2>3, <2>4 DEF AttemptUpTo
<1>4. CASE e = NoNode
  <2>1. r = d
    BY <1>1, <1>2, <1>4 DEF ProjectEvent
  <2> QED BY <1>2, <1>3, <1>4, <2>1 DEF RunsUpTo
<1>5. CASE e # NoNode
  <2>1. PICK b \in Attempts : b = e.attempt
    BY <1>1, <1>5, EventIs, NodeEventFields
  <2>2. d.runs \in [Attempts -> {None} \cup AttemptRuns] /\ AttemptUpTo(d.runs[b], v, b, i)
    BY DEF RunsUpTo
  <2>3. PICK q \in AttemptRuns : q = ProjectAttempt(d.runs[b], e, i + 1) /\ AttemptUpTo(q, v, b, i + 1)
    <3>1. d.runs[b] \in {None} \cup AttemptRuns
      BY <2>2
    <3> QED BY <1>1, <1>5, <2>1, <2>2, <3>1, AttemptStep
  <2>4. r.runs = [d.runs EXCEPT ![b] = q]
    BY <1>1, <1>2, <1>5, <2>1, <2>3 DEF ProjectEvent
  <2>5. r.runs \in [Attempts -> {None} \cup AttemptRuns]
    BY <2>2, <2>4
  <2>6. \A a \in Attempts : r.runs[a] = IF a = b THEN q ELSE d.runs[a]
    BY <2>2, <2>4
  <2>7. \A a \in Attempts : AttemptUpTo(r.runs[a], v, a, i + 1)
    BY <1>3, <2>1, <2>3, <2>6
  <2> QED BY <1>2, <2>5, <2>7 DEF RunsUpTo
<1> QED BY <1>4, <1>5

LEMMA ReplayStarts ==
  ASSUME NEW ensured, NEW E, NEW k, EnsuredUpTo(ensured, E, k), NEW d, d.units = ensured.rows
  PROVE  UnitsUpTo(d, ensured, 0, k)
<1>1. \A n : ~StartedIn(1..0, n)
  BY DEF StartedIn
<1> QED BY <1>1 DEF UnitsUpTo, EnsuredUpTo, EnsuredTyped

(* The second pass, whole. *)
LEMMA ReplayedIs ==
  ASSUME FInv, ProjectedPrefix, Rows, NEW v, NEW E, Agrees(v, E), NEW k \in Nat, k <= Len(feed),
         Clear(E, k)
  PROVE  /\ UnitsUpTo(ProjectEvents(v, k), EnsuredUnits(v, k), k, k)
         /\ RunsUpTo(ProjectEvents(v, k), v, k)
<1>1. PICK f : f = [i \in 0..k |-> ReplayedFrom(v, k, i, f)] /\ ProjectEvents(v, k) = f[k]
  BY ReplaysUnfold DEF Replaying
<1>2. PICK ensured : ensured = EnsuredUnits(v, k) /\ EnsuredUpTo(ensured, E, k)
  BY EnsuredIs
<1> DEFINE T == {i \in 0..k : UnitsUpTo(f[i], ensured, i, k) /\ RunsUpTo(f[i], v, i)}
<1>3. 0 \in T
  <2>1. f[0] = [units |-> ensured.rows, runs |-> Visible(v)]
    BY <1>1, <1>2 DEF ReplayedFrom
  <2>2. f[0].units = ensured.rows /\ f[0].runs = Visible(v)
    BY <2>1
  <2>3. UnitsUpTo(f[0], ensured, 0, k)
    BY <1>2, <2>2, ReplayStarts
  <2>4. RunsUpTo(f[0], v, 0)
    BY <2>2, RunsStart
  <2> QED BY <2>3, <2>4
<1>4. ASSUME NEW i \in 0..k, i # k, i \in T PROVE i + 1 \in T
  <2>1. /\ i \in 0..(k - 1) /\ i + 1 \in 0..k /\ i + 1 # 0 /\ (i + 1) - 1 = i
        /\ i \in Nat /\ i + 1 <= Len(feed)
    BY <1>4, LenProperties DEF FInv, FeedTyped
  <2>2. f[i + 1] = ProjectEvent(f[i], i + 1, k, ensured.row)
    BY <1>1, <1>2, <2>1 DEF ReplayedFrom
  <2>3. UnitsUpTo(f[i], ensured, i, k) /\ RunsUpTo(f[i], v, i)
    BY <1>4
  <2>4. UnitsUpTo(f[i + 1], ensured, i + 1, k)
    BY <1>2, <2>1, <2>2, <2>3, UnitsStep
  <2>5. RunsUpTo(f[i + 1], v, i + 1)
    BY <2>1, <2>2, <2>3, RunsStep
  <2> QED BY <2>1, <2>4, <2>5
<1> HIDE DEF T
<1>5. \A i \in 0..k : i # k /\ i \in T => i + 1 \in T
  BY <1>4
<1>6. \A i \in 0..k : i \in T
  BY <1>3, <1>5, UpTo
<1>7. k \in T
  BY <1>6
<1> QED BY <1>1, <1>2, <1>7 DEF T

UnitsKept ==
  /\ Len(units) <= Len(units')
  /\ \A j \in 1..Len(units) : units'[j].node = units[j].node

(* The stored activities are events of the feed. *)
LEMMA StoredAreFed ==
  ASSUME FInv, ProjectedPrefix
  PROVE  activities \subseteq 1..Len(feed) /\ activities \subseteq Attempts /\ Len(feed) \in Nat
<1>1. PICK l \in Nat : l = Len(feed) /\ l = Len(log) /\ l <= MaxEvents
  BY LenProperties DEF FInv, FeedTyped
<1>2. PICK c \in 0..l : activities = 1..c
  BY <1>1 DEF ProjectedPrefix
<1> QED BY <1>1, <1>2, BoundsAssumption DEF Attempts

(* What a projection commits. *)
LEMMA ProjectionCommits ==
  ASSUME FInv, ProjectedPrefix, Rows, NEW v, NEW E, Agrees(v, E), NEW k \in Nat, k <= Len(feed),
         Clear(E, k), ProjectWork(v, k), activities' = activities \cup 1..k, UNCHANGED <<feed, stale>>
  PROVE  Rows' /\ UnitsKept /\ Replayed(k)'
<1>1. PICK ensured : ensured = EnsuredUnits(v, k) /\ EnsuredUpTo(ensured, E, k)
  BY EnsuredIs
<1>2. PICK d : d = ProjectEvents(v, k) /\ UnitsUpTo(d, ensured, k, k) /\ RunsUpTo(d, v, k)
  BY <1>1, ReplayedIs
<1>3. PICK L \in Nat : L = Len(ensured.rows) /\ L = Len(d.units) /\ Len(units) <= L /\ Len(units) \in Nat
  BY <1>1, <1>2, LenProperties DEF EnsuredUpTo, EnsuredTyped, UnitsUpTo, Rows, RowsTyped
<1>4. /\ units' = d.units
      /\ attempts' = [a \in Attempts |-> IF d.runs[a] = None THEN attempts[a] ELSE d.runs[a]]
  BY <1>2 DEF ProjectWork
<1>5. /\ units' \in Seq(UnitRows) /\ Len(units') = L /\ DOMAIN units' = 1..L
      /\ \A j \in 1..L : units'[j].node = ensured.rows[j].node
  BY <1>2, <1>3, <1>4, LenProperties DEF UnitsUpTo
<1>6. \A a \in Attempts : AttemptUpTo(d.runs[a], v, a, k)
  BY <1>2 DEF RunsUpTo
<1>7. /\ activities \subseteq Attempts /\ 1..k \subseteq Attempts
  <2>1. PICK l \in Nat : l = Len(feed) /\ l <= MaxEvents
    BY LenProperties DEF FInv, FeedTyped
  <2> QED BY <2>1, BoundsAssumption, StoredAreFed DEF Attempts
<1>8. \A a \in Attempts : attempts'[a] = IF d.runs[a] = None THEN attempts[a] ELSE d.runs[a]
  BY <1>4
<1>9. RowsTyped'
  <2>1. attempts' \in [Attempts -> {None} \cup AttemptRuns]
    BY <1>2, <1>4 DEF RunsUpTo, Rows, RowsTyped
  <2>2. stale' \subseteq {a \in Attempts : attempts'[a] # None}
    BY <1>8 DEF Rows, RowsTyped
  <2> QED BY <1>5, <2>1, <2>2 DEF RowsTyped
<1>10. OneUnitPerNode'
  <2>1. \A i, j \in 1..L : ensured.rows[i].node = ensured.rows[j].node => i = j
    BY <1>1, <1>3 DEF EnsuredUpTo, RowsOnce
  <2> QED BY <1>5, <2>1 DEF OneUnitPerNode
<1>11. UnitsAreStarted'
  <2>1. ASSUME NEW n \in WorkNodes PROVE HasUnit(n, L)' <=> StartedIn(activities, n)'
    <3>1. HasUnit(n, L)' <=> RowOf(ensured, n)
      BY <1>3, <1>5 DEF HasUnit, RowOf
    <3>2. RowOf(ensured, n) <=> (StartedIn(activities, n) \/ StartedIn(1..k, n))
      BY <1>1 DEF EnsuredUpTo
    <3>3. StartedIn(activities, n)' <=> \E e \in activities' : Starts(e, n)
      BY DEF StartedIn, Starts
    <3>4. (\E e \in activities' : Starts(e, n)) <=> (StartedIn(activities, n) \/ StartedIn(1..k, n))
      BY DEF StartedIn
    <3> QED BY <3>1, <3>2, <3>3, <3>4
  <2> QED BY <1>5, <2>1 DEF UnitsAreStarted
<1>12. AttemptsAreStarted'
  <2>1. ASSUME NEW a \in Attempts
        PROVE  /\ attempts'[a] # None <=> (a \in activities' /\ feed[a].type = "node_started")
               /\ attempts'[a] # None => attempts'[a].number = Cardinality(StartsOf(feed[a].node, a))
    <3>1. AttemptUpTo(d.runs[a], v, a, k)
      BY <1>6
    <3>2. a \in v.attempts => a \in activities /\ feed[a].type = "node_started"
      BY DEF Agrees
    <3>3. /\ attempts[a] # None <=> (a \in activities /\ feed[a].type = "node_started")
          /\ attempts[a] # None => attempts[a].number = Cardinality(StartsOf(feed[a].node, a))
      BY DEF Rows, AttemptsAreStarted
    <3>4. d.runs[a] # None <=> (a \in v.attempts \/ (a \in 1..k /\ feed[a].type = "node_started"))
      BY <3>1 DEF AttemptUpTo
    <3>5. d.runs[a] # None => d.runs[a].number = Cardinality(StartsOf(feed[a].node, a))
      BY <3>1 DEF AttemptUpTo
    <3>6. CASE d.runs[a] = None
      <4>1. attempts'[a] = attempts[a]
        BY <1>8, <3>6
      <4> QED BY <3>2, <3>3, <3>4, <3>6, <4>1
    <3>7. CASE d.runs[a] # None
      <4>1. attempts'[a] = d.runs[a]
        BY <1>8, <3>7
      <4> QED BY <3>2, <3>4, <3>5, <3>7, <4>1
    <3> QED BY <3>6, <3>7
  <2>2. \A n, i : StartsOf(n, i)' = StartsOf(n, i)
    BY DEF StartsOf
  <2> QED BY <2>1, <2>2 DEF AttemptsAreStarted
<1>13. UnitsKept
  <2>1. \A j \in 1..Len(units) : j \in 1..L
    BY <1>3
  <2>2. \A j \in 1..Len(units) : ensured.rows[j].node = units[j].node
    BY <1>1 DEF EnsuredUpTo, EnsuredTyped
  <2> QED BY <1>3, <1>5, <2>1, <2>2 DEF UnitsKept
<1>14. Replayed(k)'
  <2>1. \A n, i : StartsOf(n, i)' = StartsOf(n, i)
    BY DEF StartsOf
  <2>2. \A a, t : Ended(a, k, t)' = Ended(a, k, t)
    BY DEF Ended
  <2>3. \A n : Standing(n, k)' = Standing(n, k) /\ Standing(n, k) = StandingAt(n, k, k)
    BY <2>1, <2>2 DEF Standing, StandingAt
  <2>4. ASSUME NEW n \in WorkNodes, StartsOf(n, k) # {}
        PROVE  \E i \in DOMAIN units' : units'[i] = Standing(n, k)
    <3>1. StartedIn(1..k, n)
      BY <2>4, StartsIn
    <3>2. ensured.row[n] \in 1..L
      BY <1>1, <1>3, <3>1 DEF EnsuredUpTo, EnsuredTyped
    <3>3. d.units[ensured.row[n]] = StandingAt(n, k, k)
      BY <1>2, <3>1 DEF UnitsUpTo
    <3> QED BY <1>4, <1>5, <2>3, <3>2, <3>3
  <2>5. ASSUME NEW n \in WorkNodes, NEW a \in StartsOf(n, k)
        PROVE  /\ attempts'[a] # None /\ attempts'[a].number = Cardinality(StartsOf(n, a))
               /\ Ended(a, k, "node_completed") => attempts'[a].status = "Succeeded"
               /\ Ended(a, k, "node_failed") => attempts'[a].status = "Failed"
    <3>1. a \in 1..k /\ feed[a].type = "node_started" /\ feed[a].node = n
      BY DEF StartsOf
    <3>2. a \in Attempts /\ AttemptUpTo(d.runs[a], v, a, k)
      BY <1>6, <1>7, <3>1
    <3>3. d.runs[a] # None
      BY <3>1, <3>2 DEF AttemptUpTo
    <3>4. attempts'[a] = d.runs[a]
      BY <1>8, <3>2, <3>3
    <3> QED BY <3>1, <3>2, <3>3, <3>4 DEF AttemptUpTo
  <2> QED BY <2>1, <2>2, <2>3, <2>4, <2>5 DEF Replayed
<1> QED BY <1>9, <1>10, <1>11, <1>12, <1>13, <1>14 DEF Rows

(* A snapshot keeps agreeing while rows are added and the feed grows. *)
LEMMA AgreesKept ==
  ASSUME FInv, ProjectedPrefix, NEW v, NEW E, Agrees(v, E), UnitsKept, Len(units) \in Nat,
         Len(units') \in Nat, activities \subseteq activities', \A i \in 1..Len(feed) : feed'[i] = feed[i]
  PROVE  Agrees(v, E)'
<1>1. E \subseteq 1..Len(feed) /\ \A e \in E : feed'[e] = feed[e]
  BY StoredAreFed DEF Agrees
<1>2. ASSUME NEW n \in WorkNodes PROVE HasUnit(n, v.units)' <=> StartedIn(E, n)'
  <2>1. \A j \in 1..v.units : j \in 1..Len(units)
    BY DEF Agrees
  <2>2. HasUnit(n, v.units)' <=> HasUnit(n, v.units)
    BY <2>1 DEF HasUnit, UnitsKept
  <2>3. StartedIn(E, n)' <=> StartedIn(E, n)
    BY <1>1 DEF StartedIn, Starts
  <2> QED BY <2>2, <2>3 DEF Agrees
<1>3. v.attempts = {a \in Attempts : a \in E /\ feed'[a].type = "node_started"}
  BY <1>1 DEF Agrees
<1>4. v.units \in Nat /\ v.units <= Len(units')
  BY DEF Agrees, UnitsKept
<1>5. E \subseteq activities'
  BY DEF Agrees
<1> QED BY <1>2, <1>3, <1>4, <1>5 DEF Agrees

(* Without a projection the rows still stand for the stored activities. *)
LEMMA RowsKeptBy ==
  ASSUME FInv, ProjectedPrefix, Rows, UNCHANGED <<units, attempts, stale, activities>>,
         \A i \in 1..Len(feed) : feed'[i] = feed[i]
  PROVE  Rows' /\ UnitsKept
<1>1. \A a \in activities : a \in 1..Len(feed) /\ feed'[a] = feed[a]
  BY StoredAreFed
<1>2. RowsTyped' /\ OneUnitPerNode'
  BY DEF Rows, RowsTyped, OneUnitPerNode
<1>3. UnitsAreStarted'
  <2>1. \A n : HasUnit(n, Len(units))' <=> HasUnit(n, Len(units))
    BY DEF HasUnit
  <2>2. \A n : StartedIn(activities, n)' <=> StartedIn(activities, n)
    BY <1>1 DEF StartedIn, Starts
  <2> QED BY <2>1, <2>2 DEF Rows, UnitsAreStarted
<1>4. ASSUME NEW a \in Attempts
      PROVE  /\ attempts'[a] # None <=> (a \in activities' /\ feed'[a].type = "node_started")
             /\ attempts'[a] # None => attempts'[a].number = Cardinality(StartsOf(feed[a].node, a)')
  <2>1. /\ attempts[a] # None <=> (a \in activities /\ feed[a].type = "node_started")
        /\ attempts[a] # None => attempts[a].number = Cardinality(StartsOf(feed[a].node, a))
    BY DEF Rows, AttemptsAreStarted
  <2>2. ASSUME attempts[a] # None PROVE StartsOf(feed[a].node, a)' = StartsOf(feed[a].node, a)
    <3>1. a \in activities
      BY <2>1, <2>2
    <3>2. PICK n : n = feed[a].node /\ n = feed'[a].node
      BY <1>1, <3>1
    <3>3. \A i \in 1..a : i \in 1..Len(feed)
      BY <1>1, <3>1, StoredAreFed
    <3> QED BY <3>2, <3>3 DEF StartsOf
  <2> QED BY <1>1, <2>1, <2>2
<1>5. AttemptsAreStarted'
  BY <1>4 DEF AttemptsAreStarted
<1>6. UnitsKept
  <2>1. Len(units) \in Nat
    BY LenProperties DEF Rows, RowsTyped
  <2> QED BY <2>1 DEF UnitsKept
<1> QED BY <1>2, <1>3, <1>5, <1>6 DEF Rows

-----------------------------------------------------------------------------
(* Projections commit what the feed says *)

LEMMA SameStays ==
  ASSUME NEW p \in Pollers, Same(p)
  PROVE  /\ ~Projects(p) /\ (InTransaction(p)' <=> InTransaction(p))
         /\ State(p)'.seen = State(p).seen
BY DEF Same, Projects, InTransaction, Idle

(* The views after a step that projects nothing new beneath the transactions under way. *)
LEMMA ViewsKept ==
  ASSUME FInv, ProjectedPrefix, Rows, Rows', Views, View, UnitsKept, activities \subseteq activities',
         \A i \in 1..Len(feed) : feed'[i] = feed[i],
         \A q \in Pollers : \/ Same(q) \/ Goes(q) \/ ~InTransaction(q)'
                            \/ Begins(q) /\ UNCHANGED <<units, attempts>>
  PROVE  Views'
<1> SUFFICES ASSUME NEW q \in Pollers, InTransaction(q)'
             PROVE  Agrees(view[q], State(q).seen.activities)'
  BY DEF Views
<1>1. Len(units) \in Nat /\ Len(units') \in Nat
  BY LenProperties DEF Rows, RowsTyped
<1>2. view'[q] = IF InTransaction(q) THEN view[q]
                 ELSE [units |-> Len(units), attempts |-> {a \in Attempts : attempts[a] # None}]
  BY DEF View
<1>3. PICK E : E = State(q)'.seen.activities
  OBVIOUS
<1>4. PICK v : v = view'[q]
  OBVIOUS
<1>5. CASE Same(q) \/ Goes(q)
  <2>1. InTransaction(q) /\ State(q)'.seen = State(q).seen
    BY <1>5, SameStays DEF Goes
  <2>2. v = view[q] /\ E = State(q).seen.activities
    BY <1>2, <1>3, <1>4, <2>1
  <2>3. Agrees(v, E)
    BY <2>1, <2>2 DEF Views
  <2>4. Agrees(v, E)'
    BY <1>1, <2>3, AgreesKept
  <2> QED BY <1>3, <1>4, <2>4
<1>6. CASE Begins(q) /\ UNCHANGED <<units, attempts>>
  <2>1. E = activities /\ UNCHANGED activities
    BY <1>3, <1>6 DEF Begins, Seen
  <2>2. v = [units |-> Len(units), attempts |-> {a \in Attempts : attempts[a] # None}]
    BY <1>2, <1>4, <1>6 DEF Begins
  <2>3. v.units = Len(units) /\ v.attempts = {a \in Attempts : attempts[a] # None}
    BY <2>2
  <2>4. \A n \in WorkNodes : HasUnit(n, v.units)' <=> StartedIn(E, n)'
    <3>1. \A n \in WorkNodes : HasUnit(n, Len(units))' <=> StartedIn(activities, n)'
      BY DEF Rows, UnitsAreStarted
    <3>2. \A n : HasUnit(n, v.units)' <=> HasUnit(n, Len(units))'
      BY <1>6, <2>3 DEF HasUnit
    <3>3. \A n : StartedIn(E, n)' <=> StartedIn(activities, n)'
      BY <2>1 DEF StartedIn
    <3> QED BY <3>1, <3>2, <3>3
  <2>5. v.attempts = {a \in Attempts : a \in E /\ feed'[a].type = "node_started"}
    <3>1. \A a \in Attempts : attempts'[a] # None <=> (a \in activities' /\ feed'[a].type = "node_started")
      BY DEF Rows, AttemptsAreStarted
    <3> QED BY <1>6, <2>1, <2>3, <3>1
  <2>6. Agrees(v, E)'
    BY <1>1, <1>6, <2>1, <2>3, <2>4, <2>5 DEF Agrees
  <2> QED BY <1>3, <1>4, <2>6
<1> QED BY <1>5, <1>6

(* One step of the mission: a projection commits from a view that agrees with what the
   process saw, and what is written stands for the activities that are then stored. *)
LEMMA MissionStepKeeps ==
  ASSUME WInv, MissionStep
  PROVE  /\ WInv'
         /\ \A p \in Pollers, k \in 0..MaxEvents : Projects(p) /\ State(p).upTo = k => Replayed(k)'
<1>1. Next /\ Feed /\ View /\ UNCHANGED <<stale, passes>> /\ TInv
  BY DEF MissionStep, WInv, FInv
<1>2. FInv'
  BY <1>1, NextFInv DEF WInv
<1>3. ProjectedPrefix'
  BY <1>1, NextProjectedPrefix DEF WInv
<1>4. \A i \in 1..Len(feed) : feed'[i] = feed[i]
  BY <1>1, FeedKept DEF WInv, FInv
<1>5. CASE \A q \in Pollers : ~Projects(q)
  <2>1. UNCHANGED <<units, attempts>>
    BY <1>5 DEF MissionStep
  <2>2. /\ UNCHANGED activities
        /\ \A q \in Pollers : \/ Same(q) \/ Goes(q) \/ ~InTransaction(q)' \/ Begins(q)
    BY <1>1, <1>5, OneMoves DEF Moved, Replays, Begins, Goes, Leaves
  <2>3. Rows' /\ UnitsKept
    BY <1>1, <1>4, <2>1, <2>2, RowsKeptBy DEF WInv
  <2>4. Views'
    BY <1>1, <1>4, <2>1, <2>2, <2>3, ViewsKept DEF WInv
  <2> QED BY <1>2, <1>3, <1>5, <2>3, <2>4 DEF WInv
<1>6. ASSUME NEW p \in Pollers, Projects(p)
      PROVE  /\ WInv'
             /\ \A q \in Pollers, k \in 0..MaxEvents : Projects(q) /\ State(q).upTo = k => Replayed(k)'
  <2>1. Replays(p) /\ \A q \in Pollers \ {p} : Same(q) /\ ~Projects(q)
    <3>1. \A q \in Pollers : Same(q) => ~Projects(q)
      BY SameStays
    <3>2. PICK r \in Pollers : Moved(r) /\ \A q \in Pollers \ {r} : Same(q)
      BY <1>1, <1>6, <3>1, OneMoves
    <3>3. r = p
      BY <1>6, <3>1, <3>2
    <3> QED BY <1>6, <3>1, <3>2, <3>3 DEF Moved, Begins, Goes, Leaves
  <2>2. PICK k : k = State(p).upTo
    OBVIOUS
  <2>3. PICK E : E = State(p).seen.activities
    OBVIOUS
  <2>4. PICK v : v = view[p]
    OBVIOUS
  <2>5. k \in Nat /\ k <= Len(feed)
    BY <1>1, <2>1, <2>2, TransactionIs DEF Replays, WInv, FInv, FeedTyped
  <2>6. Agrees(v, E)
    BY <2>1, <2>3, <2>4 DEF Replays, WInv, Views
  <2>7. Clear(E, k)
    BY <2>1, <2>2, <2>3 DEF Replays, Collides, Clear
  <2>8. activities' = activities \cup 1..k /\ UNCHANGED log
    BY <2>1, <2>2 DEF Replays, Project
  <2>9. UNCHANGED <<feed, stale>>
    BY <1>1, <2>8 DEF Feed
  <2>10. ProjectWork(v, k)
    <3>1. \E q \in Pollers : Projects(q) /\ ProjectWork(view[q], State(q).upTo)
      BY <1>6 DEF MissionStep
    <3>2. ProjectWork(view[p], State(p).upTo)
      BY <2>1, <3>1
    <3> QED BY <2>2, <2>4, <3>2
  <2>11. Rows' /\ UnitsKept /\ Replayed(k)'
    BY <2>5, <2>6, <2>7, <2>8, <2>9, <2>10, ProjectionCommits DEF WInv
  <2>12. Views'
    <3>1. ~InTransaction(p)'
      BY <2>1 DEF Replays
    <3>2. \A q \in Pollers : Same(q) \/ ~InTransaction(q)'
      BY <2>1, <3>1
    <3>3. activities \subseteq activities'
      BY <2>8
    <3> QED BY <1>1, <1>4, <2>11, <3>2, <3>3, ViewsKept DEF WInv
  <2> QED BY <1>2, <1>3, <2>1, <2>2, <2>11, <2>12 DEF WInv
<1> QED BY <1>5, <1>6

(* The reconciliation changes the status of runs that exist. *)
LEMMA ReconciliationKeeps ==
  ASSUME WInv, ReadStale \/ WriteStale
  PROVE  WInv' /\ UNCHANGED vars
<1>1. UNCHANGED <<vars, feed, units, view>>
  BY DEF ReadStale, WriteStale
<1>2. /\ UNCHANGED <<status, rootRun, run, activities, changeSets, approvals, jobs, follow, worker,
                    session, approver, epoch, admitted, plans, log, faults, granted, feed, units, view>>
      /\ UNCHANGED vars
  BY <1>1 DEF vars, site, procs, world
<1>3. FInv'
  <2>1. TInv'
    BY <1>2, NextTInv DEF WInv, FInv
  <2> QED BY <1>2, <2>1 DEF WInv, FInv, FeedTyped, FeedOrdered, OrderedAt, StartsOf, Ended, Starts, Ends
<1>4. ProjectedPrefix'
  BY <1>2 DEF WInv, ProjectedPrefix
<1>5. /\ attempts' \in [Attempts -> {None} \cup AttemptRuns]
      /\ stale' \subseteq {a \in Attempts : attempts'[a] # None}
      /\ \A a \in Attempts : /\ attempts'[a] # None <=> attempts[a] # None
                             /\ attempts[a] # None => attempts'[a].number = attempts[a].number
  <2>1. /\ attempts \in [Attempts -> {None} \cup AttemptRuns]
        /\ stale \subseteq {a \in Attempts : attempts[a] # None}
    BY DEF WInv, Rows, RowsTyped
  <2>2. CASE ReadStale
    BY <2>1, <2>2 DEF ReadStale
  <2>3. CASE WriteStale
    <3> DEFINE q(a) == AttemptRun(attempts[a].number, "NeedsIntervention", attempts[a].cursor)
    <3>1. \A a \in stale : attempts[a] \in AttemptRuns
      BY <2>1
    <3>2. \A a \in stale : q(a) \in AttemptRuns /\ q(a).number = attempts[a].number
      BY <3>1 DEF AttemptRun, AttemptRuns, AttemptStatus
    <3>3. \A a \in stale : q(a) # None
      BY <3>2, NoneAssumption
    <3>4. attempts' = [a \in Attempts |-> IF a \in stale THEN q(a) ELSE attempts[a]] /\ stale' = {}
      BY <2>3 DEF WriteStale
    <3> HIDE DEF q
    <3>5. attempts' \in [Attempts -> {None} \cup AttemptRuns]
      BY <2>1, <3>2, <3>4
    <3>6. \A a \in Attempts : /\ attempts'[a] # None <=> attempts[a] # None
                              /\ attempts[a] # None => attempts'[a].number = attempts[a].number
      BY <2>1, <3>2, <3>3, <3>4
    <3> QED BY <3>4, <3>5, <3>6
  <2> QED BY <2>2, <2>3
<1>6. Rows'
  <2>1. RowsTyped' /\ OneUnitPerNode'
    BY <1>2, <1>5 DEF WInv, Rows, RowsTyped, OneUnitPerNode
  <2>2. UnitsAreStarted'
    BY <1>2 DEF WInv, Rows, UnitsAreStarted, HasUnit, StartedIn, Starts
  <2>3. \A n, i : StartsOf(n, i)' = StartsOf(n, i)
    BY <1>2 DEF StartsOf
  <2>4. AttemptsAreStarted'
    BY <1>2, <1>5, <2>3 DEF WInv, Rows, AttemptsAreStarted
  <2> QED BY <2>1, <2>2, <2>4 DEF Rows
<1>7. Views'
  <2>1. ASSUME NEW v, NEW E, Agrees(v, E) PROVE Agrees(v, E)'
    BY <1>2, <2>1 DEF Agrees, HasUnit, StartedIn, Starts
  <2>2. ASSUME NEW q \in Pollers, InTransaction(q)'
        PROVE  Agrees(view[q], State(q).seen.activities)'
    <3>1. InTransaction(q) /\ State(q)' = State(q) /\ view' = view
      BY <1>2, <2>2 DEF InTransaction, State
    <3>2. PICK v, E : v = view[q] /\ E = State(q).seen.activities
      OBVIOUS
    <3>3. Agrees(v, E)'
      BY <2>1, <3>1, <3>2 DEF WInv, Views
    <3> QED BY <3>1, <3>2, <3>3
  <2> QED BY <2>2 DEF Views
<1> QED BY <1>2, <1>3, <1>4, <1>6, <1>7 DEF WInv

LEMMA StutterKeeps == ASSUME WInv, UNCHANGED workVars PROVE WInv'
<1>1. UNCHANGED <<vars, feed, units, attempts, view, stale>>
  BY DEF workVars, work
<1>2. UNCHANGED <<status, rootRun, run, activities, changeSets, approvals, jobs, follow, worker,
                  session, approver, epoch, admitted, plans, log, faults, granted>>
  BY <1>1 DEF vars, site, procs, world
<1>3. TInv'
  BY <1>1, NextTInv DEF WInv, FInv
<1>4. FInv' /\ ProjectedPrefix'
  BY <1>1, <1>2, <1>3 DEF WInv, FInv, FeedTyped, FeedOrdered, OrderedAt, StartsOf, Ended, Starts, Ends,
                          ProjectedPrefix
<1>5. Rows'
  BY <1>1, <1>2, RowsKeptBy DEF WInv
<1>6. Views'
  BY <1>1, <1>2 DEF WInv, Views, InTransaction, State, Agrees, HasUnit, StartedIn, Starts
<1> QED BY <1>4, <1>5, <1>6 DEF WInv

LEMMA InitWInv == WorkInit => WInv
<1> SUFFICES ASSUME WorkInit PROVE WInv
  OBVIOUS
<1>1. TInv
  BY InitTInv DEF WorkInit
<1>2. feed = <<>> /\ units = <<>> /\ log = <<>> /\ Len(feed) = 0 /\ Len(units) = 0 /\ Len(log) = 0
      /\ DOMAIN feed = {} /\ DOMAIN units = {} /\ activities = {}
  BY DEF WorkInit, Init
<1>3. FeedTyped /\ FeedOrdered
  BY <1>2, BoundsAssumption, EmptySeq DEF FeedTyped, FeedOrdered
<1>4. ProjectedPrefix
  <2>1. activities = 1..0 /\ run.cursor = 0 /\ 0 \in 0..Len(log)
    BY <1>2 DEF WorkInit, Init, NoRun
  <2> QED BY <2>1 DEF ProjectedPrefix
<1>5. Rows
  <2>1. RowsTyped
    BY <1>2, EmptySeq DEF RowsTyped, WorkInit
  <2>2. OneUnitPerNode /\ UnitsAreStarted
    BY <1>2 DEF OneUnitPerNode, UnitsAreStarted, HasUnit, StartedIn
  <2>3. AttemptsAreStarted
    BY <1>2 DEF AttemptsAreStarted, WorkInit
  <2> QED BY <2>1, <2>2, <2>3 DEF Rows
<1>6. Views
  <2>1. \A p \in Pollers : ~InTransaction(p)
    BY DEF WorkInit, Init, InTransaction, State, Pollers, Idle
  <2> QED BY <2>1 DEF Views
<1> QED BY <1>1, <1>3, <1>4, <1>5, <1>6 DEF WInv, FInv

(* A projection is a replay.  Whatever other projections, requests and the reconciliation
   committed before or beside it, a node has one work unit; and once a projection commits,
   every node the fetched events started has a unit that stands as they say and every
   attempt a run with its ordinal that ended as they say (project_gateway_snapshot). *)
THEOREM WorkFollowsTheFeedCorrect == WorkSpec => WorkFollowsTheFeed
<1>1. ASSUME WInv, [WorkNext]_workVars
      PROVE  /\ WInv'
             /\ [\A p \in Pollers, k \in 0..MaxEvents :
                   Projects(p) /\ State(p).upTo = k => Replayed(k)']_workVars
  <2>1. CASE MissionStep
    BY <1>1, <2>1, MissionStepKeeps
  <2>2. CASE ReadStale \/ WriteStale
    <3>1. WInv' /\ UNCHANGED vars
      BY <1>1, <2>2, ReconciliationKeeps
    <3>2. \A p \in Pollers : Same(p)
      BY <3>1 DEF vars, procs, Same, State
    <3>3. \A p \in Pollers : ~Projects(p)
      BY <3>2, SameStays
    <3> QED BY <3>1, <3>3
  <2>3. CASE UNCHANGED workVars
    BY <1>1, <2>3, StutterKeeps
  <2> QED BY <1>1, <2>1, <2>2, <2>3 DEF WorkNext
<1>2. WInv => OneUnitPerNode
  BY DEF WInv, Rows
<1> QED BY <1>1, <1>2, InitWInv, PTL DEF WorkSpec, WorkFollowsTheFeed
-----------------------------------------------------------------------------
(* What a dispatch hands to the gateway, and who sees what comes of it.  These theorems are
   about the operators that MCDecisions evaluates, for every site, policy and user. *)

CONSTANTS Glob, Site, SecretFields, MaxDocuments, MaxContext   \* of DispatchAuthority

Auth == INSTANCE DispatchAuthority
Perm == INSTANCE DocumentPermissions

LEMMA Intersected ==
  ASSUME NEW left, NEW right, NEW c
  PROVE  Auth!Grants(Auth!IntersectGrants(left, right), c)
           <=> Auth!Grants(left, c) /\ Auth!Grants(right, c)
BY DEF Auth!Grants, Auth!IntersectGrants

Resources(scope, workflow, agent) ==
  IF agent = None THEN Auth!ScopeResources(scope, workflow)
  ELSE [Auth!ScopeResources(scope, workflow) EXCEPT !.Agent = {agent}]

LEMMA AboutResources ==
  ASSUME NEW scope, NEW workflow, NEW agent, NEW type
  PROVE  LET resources == Resources(scope, workflow, agent) IN
         /\ DOMAIN resources = {"Site", "Workflow", "Agent", "DocType", "Document"}
         /\ \A v : type \in DOMAIN resources /\ v \in resources[type]
                   <=> Auth!About(type, v, scope, workflow, agent)
BY DEF Resources, Auth!ScopeResources, Auth!About

LEMMA AppliesIs ==
  ASSUME NEW rule, NEW scope, NEW workflow, NEW agent
  PROVE  Auth!Applies(rule, scope, workflow, agent) <=>
           rule.capability # None /\ Auth!RuleMatches(rule, Resources(scope, workflow, agent))
BY AboutResources DEF Auth!Applies, Auth!RuleMatches, Auth!Matches

(* What a policy grants, it lets; what it lets by name, it grants. *)
LEMMA PolicyGrants ==
  ASSUME NEW policy, NEW scope, NEW workflow, NEW agent, NEW c
  PROVE  LET allowed == Auth!PolicyCapabilities(policy, Resources(scope, workflow, agent)) IN
         /\ Auth!Grants(allowed, c) => Auth!PolicyLets(policy, c, scope, workflow, agent)
         /\ c \in Glob["*"] /\ Auth!PolicyNames(policy, c, scope, workflow, agent)
            => Auth!Grants(allowed, c)
<1> DEFINE resources == Resources(scope, workflow, agent)
           Rules == {r \in policy.rules : Auth!Applies(r, scope, workflow, agent)}
           Some(effect) == {r.capability : r \in {x \in Rules : x.effect = effect}}
<1>1. Auth!PolicyCapabilities(policy, resources) =
        IF policy = None \/ ~policy.enabled \/ "*" \in Some("Deny") THEN {}
        ELSE {x \in Some("Allow") \ (IF Some("Deny") = {} THEN {} ELSE {"*"}) :
                \A p \in Some("Deny") : ~Auth!Matches(x, p)}
  <2>1. Rules = {r \in policy.rules : r.capability # None /\ Auth!RuleMatches(r, resources)}
    BY AppliesIs
  <2> QED BY <2>1 DEF Auth!PolicyCapabilities
<1>2. PICK allowed : allowed = Auth!PolicyCapabilities(policy, resources)
  OBVIOUS
<1>3. ASSUME Auth!Grants(allowed, c) PROVE Auth!PolicyLets(policy, c, scope, workflow, agent)
  <2>1. policy # None /\ policy.enabled /\ "*" \notin Some("Deny")
    BY <1>1, <1>2, <1>3 DEF Auth!Grants
  <2>2. CASE "*" \in allowed
    <3>1. Some("Deny") = {} /\ "*" \in Some("Allow")
      BY <1>1, <1>2, <2>1, <2>2
    <3> QED BY <2>1, <3>1 DEF Auth!PolicyLets
  <2>3. CASE c \in allowed
    <3>1. c \in Some("Allow") /\ \A p \in Some("Deny") : ~Auth!Matches(c, p)
      BY <1>1, <1>2, <2>1, <2>3
    <3> QED BY <2>1, <3>1 DEF Auth!PolicyLets
  <2> QED BY <1>3, <2>2, <2>3 DEF Auth!Grants
<1>4. ASSUME c \in Glob["*"], Auth!PolicyNames(policy, c, scope, workflow, agent)
      PROVE  Auth!Grants(allowed, c)
  <2>1. policy # None /\ policy.enabled /\ \A p \in Some("Deny") : ~Auth!Matches(c, p)
    BY <1>4 DEF Auth!PolicyNames, Auth!PolicyLets
  <2>2. "*" \notin Some("Deny")
    BY <1>4, <2>1 DEF Auth!Matches
  <2>3. CASE c # "*" /\ c \in Some("Allow")
    BY <1>1, <1>2, <2>1, <2>2, <2>3 DEF Auth!Grants
  <2>4. CASE Some("Deny") = {}
    <3>1. c \in Some("Allow") \/ "*" \in Some("Allow")
      BY <1>4 DEF Auth!PolicyNames, Auth!PolicyLets
    <3> QED BY <1>1, <1>2, <2>1, <2>4, <3>1 DEF Auth!Grants
  <2> QED BY <1>4, <2>3, <2>4 DEF Auth!PolicyNames
<1> QED BY <1>2, <1>3, <1>4

LEMMA EnvelopeLayers ==
  ASSUME NEW m, NEW s, NEW envelope, envelope = Auth!BuildDispatchEnvelope(m, s),
         NEW version, version = Auth!PublishedVersion(m, s),
         NEW authority, authority = Auth!CapabilityAuthority(m, version.workflow, version.nodes, s)
  PROVE  /\ envelope.verdict = "ok" => authority.ok /\ envelope.authority = authority
         /\ envelope.verdict = "capability" => ~authority.ok
BY DEF Auth!BuildDispatchEnvelope, Auth!Refused

(* Nothing is handed to the gateway beyond what bindings, declarations and policies let a
   node do, rule by rule, and nothing that all of them name is refused: the algebra of
   grants, with wildcards that cannot say "everything except", is that of the rules
   (_capability_authority, policy_capabilities).  A lone * matches every capability. *)
THEOREM DispatchIsAuthorizedCorrect ==
  ASSUME NEW m, NEW s, NEW capabilities,
         \A n \in Auth!PublishedVersion(m, s).nodes : n.capabilities \subseteq Glob["*"] \cup {None}
  PROVE  Auth!EnvelopeIsAuthorized(m, s, Auth!BuildDispatchEnvelope(m, s), capabilities)
<1>1. PICK version : version = Auth!PublishedVersion(m, s)
  OBVIOUS
<1>2. PICK nodes, workflow : nodes = version.nodes /\ workflow = version.workflow
  OBVIOUS
<1>3. PICK authority : authority = Auth!CapabilityAuthority(m, workflow, nodes, s)
  OBVIOUS
<1>4. PICK envelope : envelope = Auth!BuildDispatchEnvelope(m, s)
  OBVIOUS
<1>5. /\ envelope.verdict = "ok" => authority.ok /\ envelope.authority = authority
      /\ envelope.verdict = "capability" => ~authority.ok
  BY <1>1, <1>2, <1>3, <1>4, EnvelopeLayers
<1> DEFINE agents == {n.agent : n \in nodes} \ {None}
           caller == Auth!CallerCapabilities(m.user, workflow, s)
           allowed == Auth!PolicyCapabilities(s.workflows[workflow].policy,
                                           Auth!ScopeResources(m.scope, workflow))
           declared(a) == {c.capability : c \in {x \in s.agents[a].capabilities :
                 Auth!ResourcePatternMatches(x.pattern, Auth!ScopeResources(m.scope, workflow))}}
           policed(a) == Auth!PolicyCapabilities(s.agents[a].policy,
                           [Auth!ScopeResources(m.scope, workflow) EXCEPT !.Agent = {a}])
<1>6. /\ authority.caller = caller /\ authority.workflow = allowed
      /\ \A a \in agents : authority.agents[a] = Auth!IntersectGrants(declared(a), policed(a))
  BY <1>3 DEF Auth!CapabilityAuthority
<1>7. authority.ok <=>
        /\ \A a \in agents : s.agents[a].status = "Active"
        /\ None \notin caller /\ \A n \in nodes : None \notin n.capabilities
        /\ \A n \in nodes : \A c \in n.capabilities : Auth!Grants(caller, c) /\ Auth!Grants(allowed, c)
        /\ \A n \in nodes : n.agent \in agents => \A c \in n.capabilities :
             Auth!Grants(Auth!IntersectGrants(declared(n.agent), policed(n.agent)), c)
  <2> DEFINE requested == UNION {n.capabilities : n \in nodes}
             requestedBy(a) == UNION {n.capabilities : n \in {x \in nodes : x.agent = a}}
  <2>1. authority.ok <=>
          /\ \A a \in agents : s.agents[a].status = "Active"
          /\ None \notin caller \cup requested
          /\ \A c \in requested : Auth!Grants(caller, c) /\ Auth!Grants(allowed, c)
          /\ \A a \in agents : \A c \in requestedBy(a) :
               Auth!Grants(Auth!IntersectGrants(declared(a), policed(a)), c)
    BY <1>3 DEF Auth!CapabilityAuthority
  <2>2. \A c : c \in requested <=> \E n \in nodes : c \in n.capabilities
    OBVIOUS
  <2>3. \A a, c : c \in requestedBy(a) <=> \E n \in nodes : n.agent = a /\ c \in n.capabilities
    OBVIOUS
  <2> HIDE DEF agents, caller, allowed, declared, policed, requested, requestedBy
  <2>4. None \notin caller \cup requested <=>
          None \notin caller /\ \A n \in nodes : None \notin n.capabilities
    BY <2>2
  <2> QED BY <2>1, <2>2, <2>3, <2>4
<1>8. \A n \in nodes : n.agent # None => n.agent \in agents
  OBVIOUS
<1>9. \A a \in agents : \E n \in nodes : n.agent = a /\ a # None
  OBVIOUS
<1> HIDE DEF agents, caller, allowed, declared, policed
<1>10. \A c : Auth!Grants(caller, c) <=> Auth!BindingHolds(c, m, workflow, s)
  BY DEF caller, Auth!CallerCapabilities, Auth!BindingHolds, Auth!Grants
<1>11. /\ \A c : Auth!Grants(allowed, c)
               => Auth!PolicyLets(s.workflows[workflow].policy, c, m.scope, workflow, None)
       /\ \A c \in Glob["*"] :
            Auth!PolicyNames(s.workflows[workflow].policy, c, m.scope, workflow, None)
               => Auth!Grants(allowed, c)
  BY PolicyGrants DEF Resources, allowed
<1>12. ASSUME NEW a \in agents, NEW c
       PROVE  /\ Auth!Grants(policed(a), c)
                 => Auth!PolicyLets(s.agents[a].policy, c, m.scope, workflow, a)
              /\ c \in Glob["*"] /\ Auth!PolicyNames(s.agents[a].policy, c, m.scope, workflow, a)
                 => Auth!Grants(policed(a), c)
              /\ Auth!Grants(declared(a), c) <=> Auth!AgentDeclares(a, c, m.scope, workflow, s)
  <2>1. a # None
    BY <1>9
  <2>3. policed(a) = Auth!PolicyCapabilities(s.agents[a].policy, Resources(m.scope, workflow, a))
    BY <2>1 DEF Resources, policed
  <2>2. Auth!Grants(declared(a), c) <=> Auth!AgentDeclares(a, c, m.scope, workflow, s)
    <3>1. ASSUME NEW pattern
          PROVE  Auth!ResourcePatternMatches(pattern, Auth!ScopeResources(m.scope, workflow)) <=>
                 /\ pattern # None
                 /\ \E v \in Glob[pattern], type \in {"Site", "Workflow", "DocType", "Document"} :
                      Auth!About(type, v, m.scope, workflow, None)
      <4>1. Resources(m.scope, workflow, None) = Auth!ScopeResources(m.scope, workflow)
        BY DEF Resources
      <4>2. ~\E v : Auth!About("Agent", v, m.scope, workflow, None)
        BY DEF Auth!About
      <4> QED BY <4>1, <4>2, AboutResources DEF Auth!ResourcePatternMatches, Auth!Matches
    <3> QED BY <3>1 DEF declared, Auth!Grants, Auth!AgentDeclares
  <2> QED BY <2>2, <2>3, PolicyGrants
<1>13. ASSUME envelope.verdict = "ok", NEW n \in nodes
       PROVE  /\ \A c \in n.capabilities : Auth!Usable(n, c, authority)
              /\ \A c \in capabilities :
                   Auth!Usable(n, c, authority) => Auth!NodeMay(n, c, m, workflow, s)
  <2>1. \A c \in n.capabilities : Auth!Usable(n, c, authority)
    BY <1>5, <1>6, <1>7, <1>13, <1>8 DEF Auth!Usable
  <2>2. ASSUME NEW c \in capabilities, Auth!Usable(n, c, authority)
        PROVE  Auth!NodeMay(n, c, m, workflow, s)
    <3>4. Auth!Grants(caller, c) /\ Auth!Grants(allowed, c)
      BY <1>6, <2>2 DEF Auth!Usable
    <3>1. /\ Auth!BindingHolds(c, m, workflow, s)
          /\ Auth!PolicyLets(s.workflows[workflow].policy, c, m.scope, workflow, None)
      <4>1. Auth!BindingHolds(c, m, workflow, s)
        BY <1>10, <3>4
      <4>2. Auth!PolicyLets(s.workflows[workflow].policy, c, m.scope, workflow, None)
        BY <1>11, <3>4
      <4> QED BY <4>1, <4>2
    <3>2. ASSUME n.agent # None
          PROVE  /\ Auth!AgentDeclares(n.agent, c, m.scope, workflow, s)
                 /\ Auth!PolicyLets(s.agents[n.agent].policy, c, m.scope, workflow, n.agent)
      <4>1. n.agent \in agents
        BY <1>13, <1>8, <3>2
      <4>2. Auth!Grants(declared(n.agent), c) /\ Auth!Grants(policed(n.agent), c)
        BY <1>6, <2>2, <3>2, <4>1, Intersected DEF Auth!Usable
      <4> QED BY <1>12, <4>1, <4>2
    <3> QED BY <3>1, <3>2 DEF Auth!NodeMay
  <2> QED BY <2>1, <2>2
<1>14. ASSUME ~authority.ok,
              \A n \in nodes : n.agent # None => s.agents[n.agent].status = "Active",
              \A b \in s.bindings : None \notin b.capabilities,
              \A n \in nodes : \A c \in n.capabilities :
                c # None /\ Auth!NodeNamed(n, c, m, workflow, s)
       PROVE  FALSE
  <2>1. None \notin caller
    BY <1>14 DEF caller, Auth!CallerCapabilities, Auth!CallerBindings
  <2>2. ASSUME NEW n \in nodes, NEW c \in n.capabilities
        PROVE  Auth!Grants(caller, c) /\ Auth!Grants(allowed, c)
    <3>1. c \in Glob["*"]
      BY <1>1, <1>2, <1>14, <2>2
    <3> QED BY <1>10, <1>11, <1>14, <2>2, <3>1 DEF Auth!NodeNamed, Auth!NodeMay
  <2>3. ASSUME NEW n \in nodes, n.agent \in agents, NEW c \in n.capabilities
        PROVE  Auth!Grants(Auth!IntersectGrants(declared(n.agent), policed(n.agent)), c)
    <3>1. c \in Glob["*"]
      BY <1>1, <1>2, <1>14, <2>3
    <3>3. n.agent # None
      BY <1>9, <2>3
    <3>2. Auth!Grants(declared(n.agent), c) /\ Auth!Grants(policed(n.agent), c)
      BY <1>12, <1>14, <2>3, <3>1, <3>3 DEF Auth!NodeNamed, Auth!NodeMay
    <3> QED BY <3>2, Intersected
  <2>4. \A a \in agents : s.agents[a].status = "Active"
    BY <1>14, <1>9
  <2>5. \A n \in nodes : None \notin n.capabilities
    BY <1>14
  <2> QED BY <1>7, <1>14, <2>1, <2>2, <2>3, <2>4, <2>5
<1> QED BY <1>1, <1>2, <1>4, <1>5, <1>13, <1>14 DEF Auth!EnvelopeIsAuthorized

(* Which roles are in the sets that hooks and queries ask for. *)
LEMMA SomeRoles ==
  ASSUME NEW roles
  PROVE  /\ Perm!Has(roles, Perm!AdminRoles)
               <=> "System Manager" \in roles \/ "Muster Administrator" \in roles
         /\ Perm!Has(roles, Perm!GlobalReadRoles)
               <=> \/ Perm!Has(roles, Perm!AdminRoles)
                   \/ "Muster Automation Manager" \in roles \/ "Muster Auditor" \in roles
         /\ Perm!Has(roles, Perm!GlobalReadRoles \cup {"Muster Approver"})
               <=> Perm!Has(roles, Perm!GlobalReadRoles) \/ "Muster Approver" \in roles
         /\ Perm!Has(roles, {"Muster Automation Manager", "Muster Approver"})
               <=> "Muster Automation Manager" \in roles \/ "Muster Approver" \in roles
<1>1. \A some : Perm!Has(roles, some) <=> \E role \in some : role \in roles
  BY DEF Perm!Has
<1>2. \A role : role \in Perm!AdminRoles <=> role = "System Manager" \/ role = "Muster Administrator"
  BY DEF Perm!AdminRoles
<1>3. \A role : role \in Perm!GlobalReadRoles <=>
        \/ role \in Perm!AdminRoles
        \/ role = "Muster Automation Manager" \/ role = "Muster Auditor"
  BY DEF Perm!GlobalReadRoles
<1>4. Perm!Has(roles, Perm!AdminRoles)
        <=> "System Manager" \in roles \/ "Muster Administrator" \in roles
  <2>1. ASSUME Perm!Has(roles, Perm!AdminRoles)
        PROVE  "System Manager" \in roles \/ "Muster Administrator" \in roles
    <3>1. PICK role \in Perm!AdminRoles : role \in roles
      BY <1>1, <2>1
    <3> QED BY <1>2, <3>1
  <2>2. ASSUME "System Manager" \in roles \/ "Muster Administrator" \in roles
        PROVE  Perm!Has(roles, Perm!AdminRoles)
    BY <1>2, <2>2 DEF Perm!Has
  <2> QED BY <2>1, <2>2
<1>5. Perm!Has(roles, Perm!GlobalReadRoles)
        <=> \/ Perm!Has(roles, Perm!AdminRoles)
            \/ "Muster Automation Manager" \in roles \/ "Muster Auditor" \in roles
  BY <1>1, <1>3
<1>6. Perm!Has(roles, Perm!GlobalReadRoles \cup {"Muster Approver"})
        <=> Perm!Has(roles, Perm!GlobalReadRoles) \/ "Muster Approver" \in roles
  BY <1>1
<1>7. Perm!Has(roles, {"Muster Automation Manager", "Muster Approver"})
        <=> "Muster Automation Manager" \in roles \/ "Muster Approver" \in roles
  BY DEF Perm!Has
<1> QED BY <1>4, <1>5, <1>6, <1>7

LEMMA SomeTypes ==
  /\ "read" \in Perm!Look /\ "write" \notin Perm!Look /\ "cancel" \notin Perm!Look
  /\ "read" \in Perm!Audit /\ "write" \notin Perm!Audit /\ "cancel" \notin Perm!Audit
  /\ "read" \in Perm!Manage /\ "write" \in Perm!Manage /\ "cancel" \notin Perm!Manage
  /\ "print" # "read"
BY DEF Perm!Look, Perm!Audit, Perm!Manage

(* Hook by hook: who may write may read, and how reading compares with the list. *)
LEMMA MissionReaders ==
  ASSUME NEW doc, NEW user, NEW roles
  PROVE  LET may(p) == Perm!MissionHasPermission(doc, user, roles, p) IN
         /\ may("write") \/ may("cancel") => may("read")
         /\ may("read") <=> Perm!MissionVisibility(doc, user, roles)
BY SomeRoles, SomeTypes DEF Perm!MissionHasPermission, Perm!MissionVisibility

LEMMA ProposalReaders ==
  ASSUME NEW doc, NEW user, NEW roles
  PROVE  LET may(p) == Perm!WorkflowProposalHasPermission(doc, user, roles, p) IN
         /\ may("write") \/ may("cancel") => may("read")
         /\ may("read") <=> Perm!WorkflowProposalQuery(doc, user, roles)
BY SomeRoles, SomeTypes DEF Perm!WorkflowProposalHasPermission, Perm!WorkflowProposalQuery

LEMMA RequesterReaders ==
  ASSUME NEW doc, NEW user, NEW roles
  PROVE  LET turn(p) == Perm!AskTurnHasPermission(doc, user, roles, p)
             dev(p) == Perm!DevelopmentProposalHasPermission(doc, user, roles, p)
             listed == Perm!RequesterQuery(doc, user, roles)
         IN
         /\ turn("write") \/ turn("cancel") => turn("read")
         /\ dev("write") \/ dev("cancel") => dev("read")
         /\ (turn("read") => listed) /\ (dev("read") => listed)
         /\ listed => "Muster Automation Manager" \in roles \/ (turn("read") /\ dev("read"))
BY SomeRoles, SomeTypes
   DEF Perm!AskTurnHasPermission, Perm!DevelopmentProposalHasPermission, Perm!RequesterQuery

LEMMA ApprovalReaders ==
  ASSUME NEW doc, NEW user, NEW roles
  PROVE  LET may(p) == Perm!ApprovalHasPermission(doc, user, roles, p)
             listed == Perm!ApprovalQuery(doc, user, roles)
         IN
         /\ may("write") \/ may("cancel") => may("read")
         /\ may("read") => listed
         /\ listed => "Muster Automation Manager" \in roles \/ may("read")
BY SomeRoles, SomeTypes DEF Perm!ApprovalHasPermission, Perm!ApprovalQuery

LEMMA ArtifactReaders ==
  ASSUME NEW doc, NEW user, NEW roles
  PROVE  LET may(p) == Perm!ArtifactHasPermission(doc, user, roles, p) IN
         /\ ~may("write") /\ ~may("cancel")
         /\ may("read") <=> doc.public \/ Perm!MissionVisibility(doc, user, roles)
BY MissionReaders, SomeTypes DEF Perm!ArtifactHasPermission

LEMMA ClipReaders ==
  ASSUME NEW doc, NEW user, NEW roles, user = "Administrator" => "System Manager" \in roles
  PROVE  LET may(p) == Perm!EvidenceClipHasPermission(doc, user, roles, p) IN
         /\ may("write") \/ may("cancel") => may("read")
         /\ may("read") <=> Perm!MissionVisibility(doc, user, roles)
<1>1. "System Manager" \in roles \/ "Muster Administrator" \in roles
      \/ "Muster Automation Manager" \in roles \/ "Muster Auditor" \in roles
        => Perm!MissionVisibility(doc, user, roles)
  BY SomeRoles DEF Perm!MissionVisibility
<1>2. Perm!EvidenceClipHasPermission(doc, user, roles, "read") <=>
        \/ user = "Administrator" \/ "Muster Administrator" \in roles
        \/ "Muster Automation Manager" \in roles \/ "Muster Auditor" \in roles
        \/ Perm!MissionVisibility(doc, user, roles)
  BY MissionReaders, SomeTypes DEF Perm!EvidenceClipHasPermission
<1>3. \A p \in {"write", "cancel"} :
        Perm!EvidenceClipHasPermission(doc, user, roles, p) =>
          \/ user = "Administrator"
          \/ "Muster Administrator" \in roles \/ "Muster Automation Manager" \in roles
  BY SomeTypes DEF Perm!EvidenceClipHasPermission
<1> QED BY <1>1, <1>2, <1>3

LEMMA IdentityReaders ==
  ASSUME NEW doc, NEW user, NEW roles
  PROVE  LET may(p) == Perm!ChannelIdentityHasPermission(doc, user, roles, p)
             listed == Perm!ChannelIdentityQuery(doc, user, roles)
         IN
         /\ may("write") \/ may("cancel") => may("read")
         /\ may("read") => listed
         /\ listed => "Muster Automation Manager" \in roles \/ may("read")
BY SomeRoles, SomeTypes DEF Perm!ChannelIdentityHasPermission, Perm!ChannelIdentityQuery

(* Documents and lists agree about every document, for a user with any roles, though hooks
   and queries are written apart (permissions.py).  Frappe gives Administrator every role. *)
THEOREM ReadersAreListedCorrect ==
  ASSUME NEW doc, NEW user, NEW roles, doc.kind \in Perm!Kinds,
         user = "Administrator" => "System Manager" \in roles
  PROVE  Perm!ReadersListed(doc, roles, Perm!May(doc, user, roles), Perm!Listed(doc, user, roles))
<1> DEFINE may(p) == Perm!HasPermission(doc, user, roles, p)
           listed == Perm!Listed(doc, user, roles)
           manager == "Muster Automation Manager" \in roles
<1>1. \A p \in {"read", "write", "cancel"} : p \in Perm!May(doc, user, roles) <=> may(p)
  BY SomeTypes DEF Perm!May
<1>2. SUFFICES /\ may("write") \/ may("cancel") => may("read")
               /\ may("read") => listed \/ (doc.kind = "Artifact" /\ doc.public)
               /\ listed => may("read") \/ (manager /\ doc.kind \in Perm!Overseen)
  BY <1>1 DEF Perm!ReadersListed
<1>3. CASE doc.kind = "Mission"
  <2>1. /\ \A p : may(p) <=> Perm!MissionHasPermission(doc, user, roles, p)
        /\ listed <=> Perm!MissionVisibility(doc, user, roles)
    BY <1>3 DEF Perm!HasPermission, Perm!Listed
  <2> HIDE DEF may, listed
  <2> QED BY <2>1, MissionReaders
<1>4. CASE doc.kind = "Workflow Proposal"
  <2>1. /\ \A p : may(p) <=> Perm!WorkflowProposalHasPermission(doc, user, roles, p)
        /\ listed <=> Perm!WorkflowProposalQuery(doc, user, roles)
    BY <1>4 DEF Perm!HasPermission, Perm!Listed
  <2> HIDE DEF may, listed
  <2> QED BY <2>1, ProposalReaders
<1>5. CASE doc.kind = "Ask Turn"
  <2>1. /\ \A p : may(p) <=> Perm!AskTurnHasPermission(doc, user, roles, p)
        /\ listed <=> Perm!RequesterQuery(doc, user, roles)
        /\ doc.kind \in Perm!Overseen
    BY <1>5 DEF Perm!HasPermission, Perm!Listed, Perm!Overseen
  <2> HIDE DEF may, listed
  <2> QED BY <2>1, RequesterReaders
<1>6. CASE doc.kind = "Development Proposal"
  <2>1. /\ \A p : may(p) <=> Perm!DevelopmentProposalHasPermission(doc, user, roles, p)
        /\ listed <=> Perm!RequesterQuery(doc, user, roles)
        /\ doc.kind \in Perm!Overseen
    BY <1>6 DEF Perm!HasPermission, Perm!Listed, Perm!Overseen
  <2> HIDE DEF may, listed
  <2> QED BY <2>1, RequesterReaders
<1>7. CASE doc.kind = "Approval"
  <2>1. /\ \A p : may(p) <=> Perm!ApprovalHasPermission(doc, user, roles, p)
        /\ listed <=> Perm!ApprovalQuery(doc, user, roles)
        /\ doc.kind \in Perm!Overseen
    BY <1>7 DEF Perm!HasPermission, Perm!Listed, Perm!Overseen
  <2> HIDE DEF may, listed
  <2> QED BY <2>1, ApprovalReaders
<1>8. CASE doc.kind = "Artifact"
  <2>1. /\ \A p : may(p) <=> Perm!ArtifactHasPermission(doc, user, roles, p)
        /\ listed <=> Perm!MissionVisibility(doc, user, roles)
    BY <1>8 DEF Perm!HasPermission, Perm!Listed
  <2> HIDE DEF may, listed
  <2> QED BY <1>8, <2>1, ArtifactReaders
<1>9. CASE doc.kind = "Evidence Clip"
  <2>1. /\ \A p : may(p) <=> Perm!EvidenceClipHasPermission(doc, user, roles, p)
        /\ listed <=> Perm!MissionVisibility(doc, user, roles)
    BY <1>9 DEF Perm!HasPermission, Perm!Listed
  <2> HIDE DEF may, listed
  <2> QED BY <2>1, ClipReaders
<1>10. CASE doc.kind = "Channel Identity"
  <2>1. /\ \A p : may(p) <=> Perm!ChannelIdentityHasPermission(doc, user, roles, p)
        /\ listed <=> Perm!ChannelIdentityQuery(doc, user, roles)
        /\ doc.kind \in Perm!Overseen
    BY <1>10 DEF Perm!HasPermission, Perm!Listed, Perm!Overseen
  <2> HIDE DEF may, listed
  <2> QED BY <2>1, IdentityReaders
<1> QED BY <1>3, <1>4, <1>5, <1>6, <1>7, <1>8, <1>9, <1>10 DEF Perm!Kinds
=============================================================================
