--------------------------- MODULE MissionRuntime ---------------------------
(***************************************************************************)
(* The life of one Muster Mission between its Frappe site and the gateway  *)
(* that executes it: creation and queueing (orchestration/service.py), the *)
(* RQ jobs that dispatch it and follow it (worker.py, gateway_runtime.py), *)
(* the approvals its server effects wait for (effect_lifecycle.py and the  *)
(* Muster Approval controller), and the projection of gateway snapshots    *)
(* into native records (projection.py), which the follow jobs, the sync    *)
(* endpoint and the control endpoint all perform.                          *)
(*                                                                         *)
(* Every request and every job is one database transaction (or, for the    *)
(* follow loop, one per poll): it reads from a snapshot taken when it      *)
(* starts, its writes appear when it commits and vanish when it raises.    *)
(* A write to the mission row holds the row's lock until then; the unique  *)
(* keys on Muster Activity and Muster Run fail a transaction that inserts  *)
(* a row another one committed after the snapshot.                         *)
(*                                                                         *)
(* The gateway is not in the repository.  It is modelled from the contract *)
(* _validate_snapshot and _MISSION_STATUS state: it admits a root run once *)
(* and appends events; a snapshot is a prefix of its log.                  *)
(***************************************************************************)
EXTENDS Naturals, Sequences, FiniteSets

CONSTANTS
  EffectNodes,   \* how many nodes of the published manifest are server effects
  Workers,       \* RQ worker processes
  Sessions,      \* sync and control requests that can be under way at once
  Approvers,     \* approvers' requests that can be under way at once
  Redecide,      \* may an approver save a new decision over an earlier one?
  MaxEvents,     \* bound on the gateway's log
  MaxApprovals,  \* bound on Muster Approval rows
  MaxEpoch,      \* bound on the drifts of permissions, schema and data
  MaxFollow,     \* bound on queued continuations: each re-dispatch starts a chain
  MaxLapses,     \* bound on approvals that reach expires_at
  MaxFaults      \* bound on failed gateway calls and killed jobs

ASSUME EffectNodesAssumption == EffectNodes \in Nat
ASSUME ProcessAssumption == Sessions \cap Approvers = {}
ASSUME RedecideAssumption == Redecide \in BOOLEAN
ASSUME BoundsAssumption ==
  /\ MaxEvents \in Nat /\ MaxApprovals \in Nat /\ MaxEpoch \in Nat
  /\ MaxFollow \in Nat \ {0} /\ MaxLapses \in Nat /\ MaxFaults \in Nat

VARIABLES
  (* committed rows of the site's database *)
  status,      \* Muster Mission.status; "absent" before the mission exists
  rootRun,     \* is Muster Mission.root_run_id set?
  run,         \* the root Muster Run row, or NoRun
  activities,  \* sequence numbers of the gateway events stored as Muster Activity
  changeSets,  \* Muster Change Set rows in creation order
  approvals,   \* Muster Approval rows in creation order
  (* the site's processes *)
  jobs,        \* ids of queued dispatch_mission jobs: 0 of create_mission, a of approval a
  follow,      \* number of queued continue_mission_projection jobs
  worker,      \* what each RQ worker is doing
  session,     \* what each sync or control request is doing
  approver,    \* what each approver's request is doing
  (* the world *)
  epoch,       \* version of everything a plan hash covers
  admitted,    \* has the gateway admitted the root run?
  plans,       \* the effect plans of the manifest the gateway admitted
  log,         \* the gateway's status after each event it appended
  faults,      \* failures so far
  granted      \* history: plans some approver's saved decision has approved

site == <<status, rootRun, run, activities, changeSets, approvals>>
procs == <<jobs, follow, worker, session, approver>>
world == <<epoch, admitted, plans, log, faults, granted>>
vars == <<site, procs, world>>

-----------------------------------------------------------------------------
(* Status vocabularies *)

(* _MISSION_STATUS and _RUN_STATUS of projection.py. *)
MissionStatus ==
  [pending |-> "Queued", running |-> "Running", pause_requested |-> "Running",
   paused |-> "Paused", cancel_requested |-> "Running", cancelling |-> "Running",
   cancelled |-> "Cancelled", compensation_running |-> "Running",
   compensated |-> "Cancelled", needs_intervention |-> "NeedsIntervention",
   failed |-> "Failed", completed |-> "Completed"]

RunStatus ==
  [pending |-> "Queued", running |-> "Running", pause_requested |-> "Waiting",
   paused |-> "Waiting", cancel_requested |-> "Running", cancelling |-> "Running",
   cancelled |-> "Cancelled", compensation_running |-> "Running",
   compensated |-> "Cancelled", needs_intervention |-> "NeedsIntervention",
   failed |-> "Failed", completed |-> "Succeeded"]

GatewayStatus == DOMAIN MissionStatus

Waiting == "WaitingForApproval"
Terminal == {"Completed", "Failed", "Cancelled", "NeedsIntervention"}
GatewayTerminal ==
  {"cancelled", "compensated", "needs_intervention", "failed", "completed"}

(* The statuses the gateway moves between by itself, one event at a time. *)
GatewayStep ==
  {<<"pending", "running">>, <<"running", "running">>, <<"running", "completed">>,
   <<"running", "failed">>, <<"running", "needs_intervention">>,
   <<"running", "compensation_running">>, <<"compensation_running", "compensated">>,
   <<"compensation_running", "needs_intervention">>, <<"pause_requested", "paused">>,
   <<"cancel_requested", "cancelling">>, <<"cancelling", "cancelled">>}

(* The moves a requester's steer, pause, resume or cancel makes. *)
ControlStep ==
  {<<"running", "running">>, <<"running", "pause_requested">>, <<"paused", "running">>,
   <<"running", "cancel_requested">>, <<"paused", "cancel_requested">>}

MissionStatuses == {"absent", Waiting} \cup {MissionStatus[g] : g \in GatewayStatus}

StatusAfter(k) == IF k = 0 THEN "pending" ELSE log[k]

-----------------------------------------------------------------------------
(* Rows, plans and transactions *)

NoRun == [cursor |-> 0, status |-> "absent"]
ApprovalStatus == {"Pending", "Approved", "Rejected", "Expired", "Revoked"}
Nodes == 1..EffectNodes
Plans == Nodes \X (0..MaxEpoch)

Idle == [pc |-> "idle"]

(* Snapshot of the rows a projection reads. *)
Seen == [activities |-> activities, run |-> run # NoRun]

(* Does inserting the rows of the first k events hit a unique key? *)
Collides(seen, k) ==
  \/ \E e \in 1..k : e \notin seen.activities /\ e \in activities
  \/ ~seen.run /\ run # NoRun

(* Mutants of Project: events replayed from one past the cursor; the feed replaced
   by the snapshot. *)
ProjectPastCursor(k) ==
  /\ activities' = activities \cup (run.cursor + 2)..k
  /\ status' = MissionStatus[StatusAfter(k)]
  /\ rootRun' = TRUE
  /\ run' = [cursor |-> k, status |-> RunStatus[StatusAfter(k)]]
ProjectReplacing(k) ==
  /\ activities' = 1..k
  /\ status' = MissionStatus[StatusAfter(k)]
  /\ rootRun' = TRUE
  /\ run' = [cursor |-> k, status |-> RunStatus[StatusAfter(k)]]

(* project_gateway_snapshot for a snapshot of the first k events. *)
Project(k) ==
  /\ activities' = activities \cup 1..k
  /\ status' = MissionStatus[StatusAfter(k)]
  /\ rootRun' = TRUE
  /\ run' = [cursor |-> k, status |-> RunStatus[StatusAfter(k)]]

(* A dispatch holds the mission row from db_set("Planning") to its commit. *)
HoldsRow(w) == worker[w].pc \in {"posting", "admitted", "projecting"}
RowFree == \A w \in Workers : ~HoldsRow(w)

PlansAt(e) == Nodes \X {e}

(* Mutant of ChangeSetFor: a plan hash that covers the node alone. *)
ChangeSetForNode(plan, visible) ==
  {c \in 1..visible : changeSets[c].plan[1] = plan[1]
                      /\ \A d \in 1..(c - 1) : changeSets[d].plan[1] # plan[1]}

(* Row of _change_set: the oldest visible change set with this plan hash. *)
ChangeSetFor(plan, visible) ==
  {c \in 1..visible : changeSets[c].plan = plan
                      /\ \A d \in 1..(c - 1) : changeSets[d].plan # plan}

(* An approval row with a new status. *)
Marked(row, st) == [changeSet |-> row.changeSet, status |-> st, live |-> row.live]

(* The approvals of a plan's change set in a snapshot that have a status. *)
ApprovalsOf(plan, tx, st) ==
  {a \in DOMAIN tx.decisions :
     tx.decisions[a] = st /\ approvals[a].changeSet \in ChangeSetFor(plan, tx.changeSets)}

PlanApproved(plan, tx) == \E a \in ApprovalsOf(plan, tx, "Approved") : approvals[a].live

Unapproved(tx) == {n \in Nodes : ~PlanApproved(<<n, tx.epoch>>, tx)}

-----------------------------------------------------------------------------
RunType == [cursor : Nat, status : {"absent"} \cup {RunStatus[g] : g \in GatewayStatus}]
ChangeSetType == [plan : Plans, status : {"AwaitingApproval", "Approved", "Failed"}]
ApprovalType == [changeSet : Nat \ {0}, status : ApprovalStatus, live : BOOLEAN]

SeenType == [activities : SUBSET (Nat \ {0}), run : BOOLEAN]

QueuedState ==
  [pc : {"queued"}, job : Nat, epoch : 0..MaxEpoch, changeSets : Nat,
   decisions : Seq(ApprovalStatus), seen : SeenType]
PostingState == [pc : {"posting"}, job : Nat, epoch : 0..MaxEpoch, seen : SeenType]
AdmittedState == [pc : {"admitted"}, job : Nat, seen : SeenType]
PollState == [pc : {"projecting", "polling"}, seen : SeenType, upTo : Nat]
RestState == [pc : {"idle", "following"}]

WorkerState == QueuedState \cup PostingState \cup AdmittedState \cup PollState \cup RestState

SessionState == {Idle} \cup [pc : {"projecting"}, seen : SeenType, upTo : Nat]

ApproverState ==
  {Idle} \cup [pc : {"deciding"}, approval : Nat \ {0}, from : ApprovalStatus,
               to : {"Approved", "Rejected", "Revoked"}, mission : MissionStatuses]

TypeOK ==
  /\ status \in MissionStatuses
  /\ rootRun \in BOOLEAN
  /\ run \in RunType
  /\ activities \subseteq Nat \ {0}
  /\ changeSets \in Seq(ChangeSetType)
  /\ approvals \in Seq(ApprovalType)
  /\ jobs \subseteq Nat
  /\ follow \in 0..MaxFollow
  /\ worker \in [Workers -> WorkerState]
  /\ session \in [Sessions -> SessionState]
  /\ approver \in [Approvers -> ApproverState]
  /\ epoch \in 0..MaxEpoch
  /\ admitted \in BOOLEAN
  /\ plans \subseteq Plans
  /\ log \in Seq(GatewayStatus)
  /\ faults \in 0..MaxFaults
  /\ granted \subseteq Plans

Init ==
  /\ status = "absent" /\ rootRun = FALSE /\ run = NoRun /\ activities = {}
  /\ changeSets = <<>> /\ approvals = <<>>
  /\ jobs = {} /\ follow = 0
  /\ worker = [w \in Workers |-> Idle] /\ session = [s \in Sessions |-> Idle]
  /\ approver = [v \in Approvers |-> Idle]
  /\ epoch = 0 /\ admitted = FALSE /\ plans = {} /\ log = <<>>
  /\ faults = 0 /\ granted = {}

-----------------------------------------------------------------------------
(* service.create_mission: the row and, after commit, the dispatch job. *)
CreateMission ==
  /\ status = "absent"
  /\ status' = "Queued"
  /\ jobs' = jobs \cup {0}
  /\ UNCHANGED <<rootRun, run, activities, changeSets, approvals, follow, worker, session, approver, world>>

(* worker.dispatch_mission starts: it goes on only if its snapshot of the
   mission says Queued, and then waits for the mission row. *)
StartDispatch(w) == \E j \in jobs :
  /\ worker[w] = Idle
  /\ jobs' = jobs \ {j}
  /\ worker' = IF status # "Queued" THEN worker
               ELSE [worker EXCEPT ![w] =
                      [pc |-> "queued", job |-> j, epoch |-> epoch,
                       changeSets |-> Len(changeSets),
                       decisions |-> [a \in 1..Len(approvals) |-> approvals[a].status],
                       seen |-> Seen]]
  /\ UNCHANGED <<site, follow, session, approver, world>>

(* The job gets the row (db_set "Planning", a status it never commits) and
   prepare_mission_execution_manifest finds a current approval for every effect
   plan: the envelope is built. *)
PrepareManifest(w) == LET tx == worker[w] IN
  /\ tx.pc = "queued"
  /\ RowFree
  /\ Unapproved(tx) = {}
  /\ worker' = [worker EXCEPT ![w] =
                 [pc |-> "posting", job |-> tx.job, epoch |-> tx.epoch, seen |-> tx.seen]]
  /\ UNCHANGED <<site, jobs, follow, session, approver, world>>

(* _change_set: overdue requests for the plan expire... *)
Settled(plan, tx) == [a \in 1..Len(approvals) |->
  IF a \in ApprovalsOf(plan, tx, "Pending") /\ ~approvals[a].live
  THEN Marked(approvals[a], "Expired") ELSE approvals[a]]

(* Mutant of RequestApproval: any earlier request will do. *)
RequestApprovalOnce(plan, tx, c) ==
  IF \E a \in DOMAIN tx.decisions : approvals[a].changeSet = c
  THEN approvals' = Settled(plan, tx)
  ELSE /\ Len(approvals) < MaxApprovals
       /\ approvals' = Append(Settled(plan, tx),
                              [changeSet |-> c, status |-> "Pending", live |-> TRUE])

(* ...and unless one is open a new one is made for change set c. *)
RequestApproval(plan, tx, c) ==
  IF \E a \in ApprovalsOf(plan, tx, "Pending") : approvals[a].live
  THEN approvals' = Settled(plan, tx)
  ELSE /\ Len(approvals) < MaxApprovals
       /\ approvals' = Append(Settled(plan, tx),
                              [changeSet |-> c, status |-> "Pending", live |-> TRUE])

(* _record_plan: the change set of this plan is persisted unless it is there. *)
RecordPlan(plan, tx) ==
  \/ /\ ChangeSetFor(plan, tx.changeSets) = {}
     /\ changeSets' = Append(changeSets, [plan |-> plan, status |-> "AwaitingApproval"])
     /\ RequestApproval(plan, tx, Len(changeSets) + 1)
  \/ /\ UNCHANGED changeSets
     /\ \E c \in ChangeSetFor(plan, tx.changeSets) : RequestApproval(plan, tx, c)

(* The same when it meets a plan without one: the plan is recorded, and the job
   commits "Waiting for Approval" and ends. *)
AwaitApproval(w) == LET tx == worker[w] IN
  /\ tx.pc = "queued"
  /\ RowFree
  /\ \E n \in Unapproved(tx) : /\ \A m \in Unapproved(tx) : n <= m
                               /\ RecordPlan(<<n, tx.epoch>>, tx)
  /\ status' = Waiting
  /\ worker' = [worker EXCEPT ![w] = Idle]
  /\ UNCHANGED <<rootRun, run, activities, jobs, follow, session, approver, world>>

(* POST of the envelope.  The idempotency key makes the gateway keep its first
   admission; a repeat is acknowledged. *)
Admit(w) ==
  /\ worker[w].pc = "posting"
  /\ admitted' = TRUE
  /\ plans' = IF admitted THEN plans ELSE PlansAt(worker[w].epoch)
  /\ UNCHANGED <<epoch, log, granted>>

PostAccepted(w) ==
  /\ Admit(w)
  /\ worker' = [worker EXCEPT ![w] =
                 [pc |-> "admitted", job |-> worker[w].job, seen |-> worker[w].seen]]
  /\ UNCHANGED <<site, jobs, follow, session, approver, faults>>

(* Mutant of RecordFailure: a lost gateway reported as a failed mission. *)
RecordAsFailed(w) ==
  /\ status' = "Failed"
  /\ worker' = [worker EXCEPT ![w] = Idle]
  /\ UNCHANGED <<run, activities, changeSets, approvals, jobs, follow, session, approver>>

(* _record_dispatch_failure: the caught error is committed as a stop. *)
RecordFailure(w) ==
  /\ status' = "NeedsIntervention"
  /\ worker' = [worker EXCEPT ![w] = Idle]
  /\ UNCHANGED <<run, activities, changeSets, approvals, jobs, follow, session, approver>>

(* The gateway admitted the mission but its answer never arrived. *)
PostLost(w) ==
  /\ faults < MaxFaults /\ faults' = faults + 1
  /\ Admit(w)
  /\ RecordFailure(w) /\ UNCHANGED rootRun

(* Dispatch is refused before or by the POST (MissionDispatchError,
   GatewayClientError, WorkflowGraphError). *)
DispatchRefused(w) ==
  /\ faults < MaxFaults /\ faults' = faults + 1
  /\ worker[w].pc \in {"queued", "posting"}
  /\ worker[w].pc = "queued" => RowFree
  /\ RecordFailure(w)
  /\ UNCHANGED <<rootRun, epoch, admitted, plans, log, granted>>

(* First poll, in the dispatch transaction: the GET. *)
FirstFetch(w) ==
  /\ worker[w].pc = "admitted"
  /\ worker' = [worker EXCEPT ![w] =
                 [pc |-> "projecting", seen |-> worker[w].seen, upTo |-> Len(log)]]
  /\ UNCHANGED <<site, jobs, follow, session, approver, world>>

(* A later poll: a new transaction reads its snapshot and sends the GET. *)
Fetch(w) ==
  worker' = [worker EXCEPT ![w] = [pc |-> "polling", seen |-> Seen, upTo |-> Len(log)]]

(* follow_mission_projection polls again unless it read a terminal status. *)
PollAgain(w) ==
  /\ worker[w].pc = "following"
  /\ status \notin Terminal
  /\ Fetch(w)
  /\ UNCHANGED <<site, jobs, follow, session, approver, world>>

(* Mutant of HandOver: the burst ends without a continuation. *)
LetGo(w) ==
  /\ worker[w].pc = "following"
  /\ status \notin Terminal
  /\ worker' = [worker EXCEPT ![w] = Idle]
  /\ UNCHANGED <<site, jobs, follow, session, approver, world>>

(* The burst is over and the mission is not: enqueue the next generation, which
   RQ drops if the job id of another chain's continuation is still queued. *)
HandOver(w) ==
  /\ worker[w].pc = "following"
  /\ status \notin Terminal
  /\ follow' \in (IF follow > 0 THEN {follow, follow + 1} ELSE {1}) \cap 0..MaxFollow
  /\ worker' = [worker EXCEPT ![w] = Idle]
  /\ UNCHANGED <<site, jobs, session, approver, world>>

StopFollowing(w) ==
  /\ worker[w].pc = "following"
  /\ status \in Terminal
  /\ worker' = [worker EXCEPT ![w] = Idle]
  /\ UNCHANGED <<site, jobs, follow, session, approver, world>>

(* continue_mission_projection starts: it polls before it looks at the status. *)
StartContinuation(w) ==
  /\ worker[w] = Idle
  /\ follow > 0 /\ follow' = follow - 1
  /\ Fetch(w)
  /\ UNCHANGED <<site, jobs, session, approver, world>>

(* The transaction of a poll commits its projection. *)
CommitPoll(w) == LET tx == worker[w] IN
  /\ tx.pc \in {"projecting", "polling"}
  /\ tx.pc = "polling" => RowFree
  /\ ~Collides(tx.seen, tx.upTo)
  /\ Project(tx.upTo)
  /\ worker' = [worker EXCEPT ![w] = [pc |-> "following"]]
  /\ UNCHANGED <<changeSets, approvals, jobs, follow, session, approver, world>>

(* An insert meets a row committed since the snapshot: UniqueValidationError is
   not among _expected_dispatch_errors, so the job fails and is rolled back. *)
PollCollides(w) == LET tx == worker[w] IN
  /\ tx.pc \in {"projecting", "polling"}
  /\ Collides(tx.seen, tx.upTo)
  /\ worker' = [worker EXCEPT ![w] = Idle]
  /\ UNCHANGED <<site, jobs, follow, session, approver, world>>

(* The GET of a poll fails, or its snapshot is refused.  In a dispatch job the
   root run id written before the poll is committed with the failure. *)
PollFails(w) ==
  /\ faults < MaxFaults /\ faults' = faults + 1
  /\ worker[w].pc \in {"projecting", "polling"}
  /\ worker[w].pc = "polling" => RowFree
  /\ RecordFailure(w)
  /\ rootRun' = (rootRun \/ worker[w].pc = "projecting")
  /\ UNCHANGED <<epoch, admitted, plans, log, granted>>

(* A job is killed, or raises what dispatch_mission does not catch (no
   independent approver, a permission or a record that is gone): its
   transaction is rolled back and nothing queues it again. *)
JobDies(w) ==
  /\ faults < MaxFaults /\ faults' = faults + 1
  /\ worker[w].pc # "idle"
  /\ worker' = [worker EXCEPT ![w] = Idle]
  /\ UNCHANGED <<site, jobs, follow, session, approver, epoch, admitted, plans, log, granted>>

-----------------------------------------------------------------------------
(* api.mission.sync: read, GET. *)
Sync(s) ==
  /\ session[s] = Idle
  /\ admitted
  /\ session' = [session EXCEPT ![s] = [pc |-> "projecting", seen |-> Seen, upTo |-> Len(log)]]
  /\ UNCHANGED <<site, jobs, follow, worker, approver, world>>

(* api.mission.control: the command is posted, then the mission is polled. *)
Control(s) ==
  /\ session[s] = Idle
  /\ rootRun
  /\ Len(log) < MaxEvents
  /\ \E g \in GatewayStatus : /\ <<StatusAfter(Len(log)), g>> \in ControlStep
                            /\ log' = Append(log, g)
  /\ session' = [session EXCEPT ![s] = [pc |-> "projecting", seen |-> Seen, upTo |-> Len(log')]]
  /\ UNCHANGED <<site, jobs, follow, worker, approver, epoch, admitted, plans, faults, granted>>

(* The request commits its projection, or fails on a unique key. *)
CommitSync(s) == LET tx == session[s] IN
  /\ tx.pc = "projecting"
  /\ RowFree
  /\ IF Collides(tx.seen, tx.upTo)
     THEN UNCHANGED <<activities, status, rootRun, run>>
     ELSE Project(tx.upTo)
  /\ session' = [session EXCEPT ![s] = Idle]
  /\ UNCHANGED <<changeSets, approvals, jobs, follow, worker, approver, world>>

(* The assigned approver opens an approval and saves a new status: validate()
   reads the row, on_update() the mission, both from the request's snapshot. *)
Decide(v) == \E a \in DOMAIN approvals, d \in {"Approved", "Rejected", "Revoked"} :
  /\ approver[v] = Idle
  /\ approvals[a].status # d
  /\ approvals[a].status = "Pending" \/ Redecide
  /\ approver' = [approver EXCEPT ![v] =
       [pc |-> "deciding", approval |-> a, from |-> approvals[a].status, to |-> d,
        mission |-> status]]
  /\ UNCHANGED <<site, jobs, follow, worker, session, world>>

(* Mutant of Enqueue: the dispatch is left to the next scheduler run. *)
EnqueueNothing(a) == jobs

(* on_update moves the mission only if the request's snapshot shows it waiting. *)
Moves(tx) == tx.mission = Waiting /\ tx.to \in {"Approved", "Rejected"}

(* The dispatch job's id names the approval: RQ drops it while that id runs. *)
Enqueue(a) ==
  IF \E w \in Workers : worker[w].pc \in {"queued", "posting", "admitted"} /\ worker[w].job = a
  THEN jobs ELSE jobs \cup {a}

(* Mutant of Stale: the decision written without the document's save. *)
NeverStale(tx) == FALSE

(* A row changed since the request read it fails the save (check_if_latest). *)
Stale(tx) == approvals[tx.approval].status # tx.from

(* MusterApproval.on_update, at commit. *)
CommitDecision(v) == LET tx == approver[v] IN
  /\ tx.pc = "deciding"
  /\ approver' = [approver EXCEPT ![v] = Idle]
  /\ IF Stale(tx)
     THEN UNCHANGED <<site, jobs, granted>>
     ELSE LET cs == approvals[tx.approval].changeSet
              approves == tx.to = "Approved"
          IN /\ Moves(tx) => RowFree
             /\ approvals' = [approvals EXCEPT ![tx.approval] = Marked(@, tx.to)]
             /\ changeSets' = IF tx.to = "Revoked" THEN changeSets
                              ELSE [changeSets EXCEPT ![cs] =
                                     [plan |-> @.plan,
                                      status |-> IF approves THEN "Approved" ELSE "Failed"]]
             /\ status' = IF ~Moves(tx) THEN status
                          ELSE IF approves THEN "Queued" ELSE "Cancelled"
             /\ jobs' = IF Moves(tx) /\ approves THEN Enqueue(tx.approval) ELSE jobs
             /\ granted' = IF approves THEN granted \cup {changeSets[cs].plan} ELSE granted
             /\ UNCHANGED <<rootRun, run, activities>>
  /\ UNCHANGED <<follow, worker, session, epoch, admitted, plans, log, faults>>

-----------------------------------------------------------------------------
(* jobs.reconcile_stale_runs: a run whose heartbeat nobody refreshes. *)
ReconcileStaleRuns ==
  /\ run.status = "Running"
  /\ \A w \in Workers : worker[w].pc \in {"idle", "queued"}
  /\ run' = [cursor |-> run.cursor, status |-> "NeedsIntervention"]
  /\ UNCHANGED <<status, rootRun, activities, changeSets, approvals, procs, world>>

(* The gateway executes the mission. *)
GatewayEvent ==
  /\ admitted
  /\ Len(log) < MaxEvents
  /\ \E g \in GatewayStatus : /\ <<StatusAfter(Len(log)), g>> \in GatewayStep
                            /\ log' = Append(log, g)
  /\ UNCHANGED <<site, procs, epoch, admitted, plans, faults, granted>>

(* Permissions, schema or data change: every plan hash changes with them. *)
Drift ==
  /\ epoch < MaxEpoch
  /\ epoch' = epoch + 1
  /\ UNCHANGED <<site, procs, admitted, plans, log, faults, granted>>

(* An approval passes its expires_at. *)
Lapse == \E a \in DOMAIN approvals :
  /\ approvals[a].live
  /\ Cardinality({b \in DOMAIN approvals : ~approvals[b].live}) < MaxLapses
  /\ approvals' = [approvals EXCEPT ![a] =
                    [changeSet |-> @.changeSet, status |-> @.status, live |-> FALSE]]
  /\ UNCHANGED <<status, rootRun, run, activities, changeSets, procs, world>>

-----------------------------------------------------------------------------
WorkerStep(w) ==
  \/ StartDispatch(w) \/ PrepareManifest(w) \/ AwaitApproval(w)
  \/ PostAccepted(w) \/ FirstFetch(w) \/ PollAgain(w) \/ HandOver(w)
  \/ StopFollowing(w) \/ StartContinuation(w) \/ CommitPoll(w) \/ PollCollides(w)

WorkerFault(w) ==
  PostLost(w) \/ DispatchRefused(w) \/ PollFails(w) \/ JobDies(w)


Next ==
  \/ CreateMission \/ ReconcileStaleRuns \/ GatewayEvent \/ Drift \/ Lapse
  \/ \E w \in Workers : WorkerStep(w) \/ WorkerFault(w)
  \/ \E s \in Sessions : Sync(s) \/ Control(s) \/ CommitSync(s)
  \/ \E v \in Approvers : Decide(v) \/ CommitDecision(v)

Spec == Init /\ [][Next]_vars

(* RQ workers keep taking and finishing jobs, and a save or a projection that
   has begun ends.  Nothing obliges people to start requests, the gateway to
   make progress or the scheduler to run. *)
Fairness ==
  /\ \A w \in Workers : WF_vars(WorkerStep(w))
  /\ \A s \in Sessions : WF_vars(CommitSync(s))
  /\ \A v \in Approvers : WF_vars(CommitDecision(v))

FairSpec == Spec /\ Fairness

-----------------------------------------------------------------------------
(* Projections of overlapping prefixes, committed in any order by jobs and
   requests that did not see each other, leave no gap and no stray: the stored
   activities are a prefix of the gateway's log, and the root run's cursor
   never claims an event that is not stored (projection.py). *)
ProjectedPrefix ==
  \E k \in 0..Len(log) : activities = 1..k /\ run.cursor <= k

(* A mission is reported Completed or Failed only when the stored activities
   hold the gateway event that made it so (projection.py, worker.py); rows, jobs
   and requests are of their types. *)
GenuineOutcome ==
  /\ TypeOK
  /\ status \in {"Completed", "Failed"} => \E e \in activities : MissionStatus[log[e]] = status

(* The gateway admits a manifest only if every plan in it was approved for
   exactly that version of permissions, schema and data: a dispatch whose
   snapshot, change sets or approvals are older than its POST cannot smuggle
   in another (effect_lifecycle.py). *)
OnlyApprovedPlans == plans \subseteq granted

(* A mission reported Cancelled is not being executed: either no manifest was
   ever admitted (a rejection ended the wait) or the gateway itself reported
   the cancellation (muster_approval.py against the dispatch job). *)
CancelledMeansStopped ==
  status = "Cancelled" => ~admitted \/ \E e \in activities : MissionStatus[log[e]] = status

(* No wakeup is lost on the way to the gateway: while a mission the gateway has
   not reported on is Queued, some dispatch job for it is queued or running
   (service.py and muster_approval.py enqueue, worker.py consumes). *)
QueuedHasAJob ==
  status = "Queued" /\ run = NoRun => jobs # {} \/ \E w \in Workers : worker[w].pc # "idle"

(* An approval resumes the mission: once the request a mission waits for has
   been approved and nothing is under way, it no longer waits (muster_approval.py
   on_update against the transaction of dispatch_mission). *)
Quiet ==
  /\ jobs = {}
  /\ \A w \in Workers : worker[w].pc \notin {"queued", "posting", "admitted", "projecting"}
  /\ \A v \in Approvers : approver[v] = Idle

ApprovedRequestResumes ==
  status = Waiting /\ Quiet => approvals[Len(approvals)].status # "Approved"

(* Following reaches the end: once the gateway's log has ended the mission, the
   site reports that outcome (follow_mission_projection and its continuations). *)
OutcomeReported ==
  LET final == StatusAfter(Len(log))
  IN (admitted /\ final \in GatewayTerminal) ~> (status = MissionStatus[final])

(* The runtime implements the contract its participants rely on. *)
Contract == INSTANCE MissionContract WITH
  Nodes <- Nodes, Versions <- 0..MaxEpoch, Events <- GatewayStatus,
  approved <- granted, executing <- admitted, manifest <- plans,
  history <- log, reported <- activities

ImplementsContract == Contract!ContractSpec
=============================================================================
