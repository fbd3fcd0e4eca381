---------------------------- MODULE WorkProjection ----------------------------
(***************************************************************************)
(* What a projection writes beneath the mission (projection.py): a Muster   *)
(* Work Unit for every node the gateway started and a Muster Run for every  *)
(* attempt at it, beside the activities and the root run of MissionRuntime, *)
(* whose steps this module extends.                                        *)
(*                                                                         *)
(* A projection replays the whole feed it fetched.  It looks rows up in the *)
(* snapshot its transaction began with and writes them by name; nothing in  *)
(* the database makes a node's work unit unique.                            *)
(***************************************************************************)
EXTENDS MissionRuntime, SequencesExt

CONSTANTS
  None,
  WorkNodes,  \* nodes of the mission's graph
  MaxStale    \* bound on runs of the reconciliation job

AttemptStatus == {"Running", "Succeeded", "Failed", "NeedsIntervention"}
AttemptRuns == [number : 0..MaxEvents, status : AttemptStatus, cursor : 0..MaxEvents]

ASSUME MaxStaleAssumption == MaxStale \in Nat
ASSUME NoneAssumption == None \notin AttemptRuns
ASSUME PollersAssumption == Workers \cap Sessions = {}

VARIABLES
  feed,      \* what each event of the gateway's log is about
  units,     \* Muster Work Unit rows in creation order
  attempts,  \* Muster Run rows of attempts, by attempt id, or None
  view,      \* how many units, and which attempts, each transaction's snapshot shows
  stale,     \* the attempts a reconciliation job has read as stale
  passes     \* reconciliations so far

work == <<feed, units, attempts, view, stale, passes>>
workVars == <<vars, work>>

Attempts == 1..MaxEvents
Pollers == Workers \cup Sessions
State(p) == IF p \in Workers THEN worker[p] ELSE session[p]

-----------------------------------------------------------------------------
(* The feed *)

(* Events that concern no node, and node events; an attempt is named by its start. *)
NoNode == [type |-> "other", node |-> None, attempt |-> 0]
NodeEvents ==
  [type : {"node_started", "node_completed", "node_failed"}, node : WorkNodes, attempt : Attempts]

StartsOf(n, k) == {i \in 1..k : feed[i].type = "node_started" /\ feed[i].node = n}
Ended(a, k, type) == \E i \in 1..k : feed[i].type = type /\ feed[i].attempt = a
Over(a) == Ended(a, Len(feed), "node_completed") \/ Ended(a, Len(feed), "node_failed")

(* The gateway starts a node that never ran or whose attempts all failed, and ends attempts. *)
Occurs(e) ==
  LET starts == StartsOf(e.node, Len(feed)) IN
  IF e.type = "node_started"
  THEN e.attempt = Len(feed) + 1
       /\ \A a \in starts : Ended(a, Len(feed), "node_failed")
  ELSE e.attempt \in starts /\ ~Over(e.attempt)

(* Nodes make progress while the mission runs. *)
Feed ==
  IF Len(log') = Len(log) THEN UNCHANGED feed
  ELSE \E e \in {NoNode} \cup NodeEvents :
         /\ e # NoNode => Occurs(e) /\ StatusAfter(Len(log)) = "running" /\ log'[Len(log')] = "running"
         /\ feed' = Append(feed, e)

-----------------------------------------------------------------------------
(* Replay *)

Unit(n, st, count, a) == [node |-> n, status |-> st, count |-> count, attempt |-> a]
AttemptRun(number, st, cursor) == [number |-> number, status |-> st, cursor |-> cursor]

(* The row of a node among the first visible ones, 0 if none. *)
UnitOf(n, visible) ==
  LET found == {i \in 1..visible : units[i].node = n} IN IF found = {} THEN 0 ELSE Min(found)

(* First pass: a node_started makes the unit of its node, or restarts it.  done: the rows,
   and the row of each node as this projection knows it. *)
EnsureWorkUnit(done, e) ==
  LET known == done.row[e.node] IN
  IF e.type # "node_started" THEN done
  ELSE IF known = 0
  THEN [rows |-> Append(done.rows, Unit(e.node, "Running", 0, e.attempt)),
        row |-> [done.row EXCEPT ![e.node] = Len(done.rows) + 1]]
  ELSE [rows |-> [done.rows EXCEPT ![known] = Unit(e.node, "Running", @.count, e.attempt)],
        row |-> done.row]

EnsuredUnits(v, k) ==
  LET done[i \in 0..k] ==
        IF i = 0 THEN [rows |-> units, row |-> [n \in WorkNodes |-> UnitOf(n, v.units)]]
        ELSE EnsureWorkUnit(done[i - 1], feed[i])
  IN done[k]

(* The status a node's event gives its unit; an attempt's run starts as Running and is
   only ended by events. *)
StatusOf(type) ==
  CASE type = "node_started" -> "Running"
    [] type = "node_completed" -> "Succeeded"
    [] type = "node_failed" -> "Failed"

(* Mutant of ProjectUnit: attempts counted one by one as they come. *)
CountOneMore(unit, e, k) ==
  Unit(e.node, StatusOf(e.type), unit.count + (IF e.type = "node_started" THEN 1 ELSE 0), e.attempt)

ProjectUnit(unit, e, k) ==
  Unit(e.node, StatusOf(e.type), Cardinality(StartsOf(e.node, k)), e.attempt)

(* external_run_id is unique: a row the snapshot shows or this projection made. *)
ProjectAttempt(run_, e, i) ==
  IF run_ = None
  THEN IF e.type # "node_started" THEN None
       ELSE AttemptRun(Cardinality(StartsOf(e.node, i)), "Running", 0)
  ELSE AttemptRun(run_.number, IF e.type = "node_started" THEN run_.status ELSE StatusOf(e.type), i)

(* Second pass: every event is written over the unit of its node and its attempt's run. *)
ProjectEvent(done, i, k, row) ==
  LET e == feed[i] IN
  IF e = NoNode THEN done
  ELSE [units |-> [done.units EXCEPT ![row[e.node]] = ProjectUnit(@, e, k)],
        runs |-> [done.runs EXCEPT ![e.attempt] = ProjectAttempt(@, e, i)]]

Visible(v) == [a \in Attempts |-> IF a \in v.attempts THEN attempts[a] ELSE None]

ProjectEvents(v, k) ==
  LET ensured == EnsuredUnits(v, k)
      done[i \in 0..k] ==
        IF i = 0 THEN [units |-> ensured.rows, runs |-> Visible(v)]
        ELSE ProjectEvent(done[i - 1], i, k, ensured.row)
  IN done[k]

ProjectWork(v, k) ==
  LET done == ProjectEvents(v, k)
  IN /\ units' = done.units
     /\ attempts' = [a \in Attempts |-> IF done.runs[a] = None THEN attempts[a] ELSE done.runs[a]]

-----------------------------------------------------------------------------
(* Steps *)

InTransaction(p) == "seen" \in DOMAIN State(p)
NoView == [units |-> 0, attempts |-> {}]
View ==
  view' = [p \in Pollers |->
    IF ~InTransaction(p)' THEN NoView
    ELSE IF InTransaction(p) THEN view[p]
    ELSE [units |-> Len(units), attempts |-> {a \in Attempts : attempts[a] # None}]]

(* p's step commits its projection. *)
Projects(p) ==
  IF p \in Workers
  THEN State(p).pc \in {"projecting", "polling"} /\ State(p)'.pc = "following"
  ELSE State(p).pc = "projecting" /\ State(p)' = Idle /\ ~Collides(State(p).seen, State(p).upTo)

MissionStep ==
  /\ Next /\ Feed /\ View
  /\ IF \E p \in Pollers : Projects(p)
     THEN \E p \in Pollers : Projects(p) /\ ProjectWork(view[p], State(p).upTo)
     ELSE UNCHANGED <<units, attempts>>
  /\ UNCHANGED <<stale, passes>>

(* reconcile_stale_runs: heartbeat_at is the time of an attempt's last event, so any attempt
   that runs on can be read as stale; the status is written without another look. *)
ReadStale ==
  /\ stale = {} /\ passes < MaxStale /\ passes' = passes + 1
  /\ stale' = {a \in Attempts : attempts[a] # None /\ attempts[a].status = "Running"}
  /\ stale' # {}
  /\ UNCHANGED <<vars, feed, units, attempts, view>>

WriteStale ==
  /\ stale # {} /\ stale' = {}
  /\ attempts' = [a \in Attempts |->
       IF a \in stale THEN AttemptRun(attempts[a].number, "NeedsIntervention", attempts[a].cursor)
       ELSE attempts[a]]
  /\ UNCHANGED <<vars, feed, units, view, passes>>

WorkInit ==
  /\ Init
  /\ feed = <<>> /\ units = <<>> /\ attempts = [a \in Attempts |-> None]
  /\ view = [p \in Pollers |-> NoView] /\ stale = {} /\ passes = 0

WorkNext == MissionStep \/ ReadStale \/ WriteStale

WorkSpec == WorkInit /\ [][WorkNext]_workVars

-----------------------------------------------------------------------------
(* Properties *)

(* A node has one work unit, though no key makes it unique: two projections that both saw
   none collide over the node's activity (_ensure_work_unit, _project_event). *)
OneUnitPerNode ==
  \A i, j \in DOMAIN units : units[i].node = units[j].node => i = j

(* What the first k events say of a node: its last attempt, and how it stands. *)
Standing(n, k) ==
  LET a == Max(StartsOf(n, k)) IN
  Unit(n, CASE Ended(a, k, "node_completed") -> "Succeeded"
            [] Ended(a, k, "node_failed") -> "Failed"
            [] OTHER -> "Running",
       Cardinality(StartsOf(n, k)), a)

(* A projection is a replay: whatever earlier, later or concurrent projections and the
   reconciliation left, once it commits every node the feed started has one unit that
   stands as the feed says, and every attempt a run with its ordinal that has ended as the
   feed says (project_gateway_snapshot). *)
Replayed(k) ==
  \A n \in WorkNodes : StartsOf(n, k) # {} =>
    /\ \E i \in DOMAIN units : units[i] = Standing(n, k)
    /\ \A a \in StartsOf(n, k) :
         /\ attempts[a] # None /\ attempts[a].number = Cardinality(StartsOf(n, a))
         /\ Ended(a, k, "node_completed") => attempts[a].status = "Succeeded"
         /\ Ended(a, k, "node_failed") => attempts[a].status = "Failed"

WorkFollowsTheFeed ==
  /\ []OneUnitPerNode
  /\ [][\A p \in Pollers, k \in 0..MaxEvents :
         Projects(p) /\ State(p).upTo = k => Replayed(k)']_workVars
=============================================================================
