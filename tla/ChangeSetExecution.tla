-------------------------- MODULE ChangeSetExecution --------------------------
(***************************************************************************)
(* The change set executor (change_ir/executor.py, schema.py, security.py):  *)
(* one request applies the operations of a reviewed Muster Change Set in      *)
(* dependency order, verifies each, and records receipts.                   *)
(*                                                                         *)
(* A request is one transaction: it reads from the snapshot its first read   *)
(* took, its writes lock their rows until it commits, an exception discards  *)
(* them.  A custom field changes the schema, which commits the transaction    *)
(* in its middle and begins another.  Document.save compares the row with     *)
(* what was read; db_set, an insert and a deletion do not.                  *)
(***************************************************************************)
EXTENDS Naturals, Sequences, SequencesExt, FiniteSets

CONSTANTS
  None,
  Plans,       \* the plans the model starts from: sequences of operations, and a stamp
  Targets,     \* the records the plans name
  Existing,    \* those that exist when the plan is made
  Submitted,   \* those of them that are submitted
  Clients,     \* requests under way at once
  MaxChanges   \* bound on what others do to records, approval and permissions, and on faults

ASSUME TargetsAssumption == Submitted \subseteq Existing /\ Existing \subseteq Targets
ASSUME BoundsAssumption == MaxChanges \in Nat
ASSUME PlansAssumption ==
  \A p \in Plans : p.operations \in
    Seq([kind : STRING, target : Targets, depends_on : SUBSET Nat, token : Nat \cup {None}])

VARIABLES
  plan,       \* the change set: its operations and whether it names a schema revision
  records,    \* the records named by the plan, as committed
  row,        \* status and receipts of the Muster Change Set row, as committed
  approval,   \* its approval: pending, decided, or expired since
  authority,  \* permission epoch of the actor, and whether it still may do what is planned
  requests,   \* what each request has read and written
  applied,    \* operations whose effects have been committed
  changes     \* what others have done so far, and faults

vars == <<plan, records, row, approval, authority, requests, applied, changes>>

-----------------------------------------------------------------------------
(* Operations *)

Inserting == {"create", "field", "property"}       \* create: records and every surface
Saving == {"update", "workflow", "submit", "cancel"}
Kinds == Inserting \cup Saving \cup {"delete", "fixture"}  \* a fixture has no executor

Ids == 1..Len(plan.operations)
Operation(id) == plan.operations[id]
DependsOn(id) == Operation(id).depends_on
SchemaTargets == {Operation(id).target : id \in {i \in Ids : Operation(i).kind \in {"field", "property"}}}

(* Rounds of operations that wait for nothing left, each round in the order of the plan. *)
Ready(left) == {id \in left : DependsOn(id) \cap left = {}}
PlanOrder(ids) ==
  CHOOSE order \in [1..Cardinality(ids) -> ids] :
    \A i, j \in 1..Cardinality(ids) : i < j => order[i] < order[j]
Unordered == PlanOrder(Ids)
TopologicalOrder ==
  LET rounds[left \in SUBSET Ids] ==
        IF Ready(left) = {} THEN <<>> ELSE PlanOrder(Ready(left)) \o rounds[left \ Ready(left)]
  IN rounds[Ids]

(* A cycle, an unknown dependency or a dependency on oneself is refused. *)
Valid ==
  /\ Ids # {}
  /\ \A id \in Ids : DependsOn(id) \subseteq Ids \ {id} /\ Operation(id).kind \in Kinds
  /\ Len(TopologicalOrder) = Len(plan.operations)

-----------------------------------------------------------------------------
(* Records: planned says that a record holds the values of its operation. *)

Record == [there : BOOLEAN, planned : BOOLEAN, revision : Nat, docstatus : 0..2]
Written(x) == [x EXCEPT !.planned = TRUE, !.revision = @ + 1]

SchemaRevision(recs) == [t \in SchemaTargets |-> recs[t].revision]

(* The token is the revision of the record the operation was planned for. *)
Concurrent(op, x) == op.token # None => x.there /\ x.revision = op.token

(* Approved by the assigned approver, who is not its requester, and not expired. *)
Approved == approval = "Approved"
ActorHolds == authority.epoch = 1

Preflight(recs) ==
  /\ Valid /\ ActorHolds /\ authority.allowed
  /\ \A id \in Ids : Concurrent(Operation(id), recs[Operation(id).target])
  /\ plan.stamped => \A t \in SchemaTargets : SchemaRevision(recs)[t] = (IF t \in Existing THEN 1 ELSE 0)

-----------------------------------------------------------------------------
(* Requests *)

(* done: operations carried out, in order; written: rows this transaction has locked. *)
Begin(c) ==
  /\ requests[c] = None
  /\ row.status # "Verified" /\ Preflight(records) /\ Approved
  /\ requests' = [requests EXCEPT ![c] =
       [phase |-> "checked", view |-> records, status |-> row.status, written |-> {},
        marked |-> FALSE, done |-> <<>>, inverses |-> <<>>]]
  /\ UNCHANGED <<plan, records, row, approval, authority, applied, changes>>

In(c, phase) == requests[c] # None /\ requests[c].phase = phase

Others(c) == {d \in Clients \ {c} : requests[d] # None}
RowFree(c) == \A d \in Others(c) : ~requests[d].marked
Free(c, t) == \A d \in Others(c) : t \notin requests[d].written

(* db_set: nothing keeps two requests from marking the change set one after the other. *)
Mark(c) ==
  /\ In(c, "checked") /\ RowFree(c)
  /\ requests' = [requests EXCEPT ![c].phase = "applying", ![c].status = "Applying",
                                  ![c].marked = TRUE]
  /\ UNCHANGED <<plan, records, row, approval, authority, applied, changes>>

NextOperation(r) == Operation(TopologicalOrder[Len(r.done) + 1])
Going(c) == In(c, "applying") /\ Len(requests[c].done) < Len(TopologicalOrder)

AlreadyThere(op, x) == op.kind \in {"create", "field"} /\ x.there /\ x.planned

(* What a save is compared with is the row as it is now, unless it is the request's own. *)
SavedOver(r, t) == TRUE
Unchanged(r, t) ==
  t \in r.written \/ (records[t].there /\ records[t].revision = r.view[t].revision)

Possible(r, op) ==
  LET t == op.target  x == r.view[t] IN
  /\ authority.allowed /\ Concurrent(op, x)
  /\ \/ AlreadyThere(op, x)
     \/ op.kind \in {"create", "field"} /\ ~x.there /\ (t \in r.written \/ ~records[t].there)
     \/ op.kind = "property"
     \/ op.kind = "delete" /\ x.there /\ x.docstatus # 1
     \/ /\ op.kind \in Saving /\ x.there /\ Unchanged(r, t)
        /\ op.kind = "workflow" => ~x.planned
        /\ op.kind = "submit" => x.docstatus \in {0, 1}
        /\ op.kind = "cancel" => x.docstatus = 1

Effect(op, x) ==
  IF AlreadyThere(op, x) THEN x
  ELSE [Written(x) EXCEPT !.there = op.kind # "delete",
                          !.docstatus = CASE op.kind = "submit" -> 1 [] op.kind = "cancel" -> 2
                                          [] op.kind \in Inserting -> 0 [] OTHER -> @]

(* A cancellation and a workflow action cannot be undone, and what was there need not be. *)
InverseOf(op, x) ==
  IF AlreadyThere(op, x) \/ op.kind \in {"cancel", "workflow"} THEN <<>>
  ELSE <<[undo |-> op.kind, target |-> op.target, was |-> x]>>

(* What a request commits: its rows and the status it has set, never another's columns. *)
Saved(r) == [t \in Targets |-> IF t \in r.written THEN r.view[t] ELSE records[t]]
Publish(r) ==
  /\ records' = Saved(r)
  /\ row' = IF r.marked THEN [row EXCEPT !.status = r.status] ELSE row
  /\ applied' = applied \cup ToSet(r.done)

Carried(r, op) ==
  LET t == op.target  x == r.view[t] IN
  [r EXCEPT !.view[t] = Effect(op, x),
            !.written = IF AlreadyThere(op, x) THEN @ ELSE @ \cup {t},
            !.done = Append(@, TopologicalOrder[Len(@) + 1]),
            !.inverses = @ \o InverseOf(op, x)]

(* The column of a custom field is DDL; other effects wait for the end of the request. *)
Always(op) == TRUE
Commits(op) == op.kind = "field"

(* One operation: permission and revision again, the effect, its postcondition. *)
Execute(c) ==
  /\ Going(c)
  /\ LET r == requests[c]
         op == NextOperation(r)
         next == Carried(r, op)
     IN /\ Possible(r, op)
        /\ ~AlreadyThere(op, r.view[op.target]) => Free(c, op.target)
        /\ IF Commits(op) /\ ~AlreadyThere(op, r.view[op.target])
           THEN /\ Publish(next)
                /\ requests' = [requests EXCEPT ![c] =
                     [next EXCEPT !.view = Saved(next), !.written = {}, !.marked = FALSE]]
           ELSE /\ requests' = [requests EXCEPT ![c] = next]
                /\ UNCHANGED <<records, row, applied>>
  /\ UNCHANGED <<plan, approval, authority, changes>>

Finish(c) ==
  /\ In(c, "applying") /\ Len(requests[c].done) = Len(TopologicalOrder) /\ RowFree(c)
  /\ records' = Saved(requests[c])
  /\ row' = [status |-> "Verified", receipts |-> ToSet(requests[c].done)]
  /\ applied' = applied \cup ToSet(requests[c].done)
  /\ requests' = [requests EXCEPT ![c] = None]
  /\ UNCHANGED <<plan, approval, authority, changes>>

(* The inverses, last first; one whose row another holds fails, and the others go on. *)
Undone(x, inverse) ==
  CASE inverse.undo \in Inserting -> [x EXCEPT !.there = FALSE, !.revision = @ + 1]
    [] inverse.undo = "delete" -> [inverse.was EXCEPT !.revision = x.revision + 1]
    [] inverse.undo = "update" -> [x EXCEPT !.planned = inverse.was.planned, !.revision = @ + 1]
    [] inverse.undo = "submit" -> [x EXCEPT !.docstatus = 2, !.revision = @ + 1]

Repairable(c, inverse) == Free(c, inverse.target)
RolledBack(c, r) ==
  LET repair(view, inverse) ==
        IF Repairable(c, inverse)
        THEN [view EXCEPT ![inverse.target] = Undone(@, inverse)] ELSE view
  IN FoldLeft(repair, r.view, Reverse(r.inverses))
Rollback(c, r) ==
  LET repaired == {inverse \in ToSet(r.inverses) : Repairable(c, inverse)}
  IN [r EXCEPT !.phase = "raising",
               !.view = RolledBack(c, r),
               !.written = @ \cup {inverse.target : inverse \in repaired},
               !.marked = TRUE,
               !.status = IF repaired = ToSet(r.inverses) THEN "Repaired" ELSE "NeedsIntervention"]

Repair(c) ==
  /\ RowFree(c)
  /\ requests' = [requests EXCEPT ![c] = Rollback(c, requests[c])]
  /\ UNCHANGED <<plan, records, row, approval, authority, applied>>

(* An operation that is refused, or that waits for a row too long or in a deadlock. *)
Refuse(c) ==
  /\ Going(c)
  /\ LET r == requests[c]  op == NextOperation(r) IN Possible(r, op) => ~Free(c, op.target)
  /\ Repair(c) /\ UNCHANGED changes

(* A hook, a changed schema or a postcondition fails, the last statements included. *)
Fault(c) ==
  /\ In(c, "applying") /\ changes < MaxChanges
  /\ Repair(c) /\ changes' = changes + 1

(* The exception goes on to the caller, and the request's transaction is rolled back:
   the repairs, their outcome and the status with it.  So does a worker that is killed. *)
Raise(c) ==
  /\ requests[c] # None
  /\ requests' = [requests EXCEPT ![c] = None]
  /\ UNCHANGED <<plan, records, row, approval, authority, applied, changes>>

-----------------------------------------------------------------------------
(* Others *)

Change ==
  /\ changes < MaxChanges /\ changes' = changes + 1
  /\ UNCHANGED <<plan, requests, applied>>

(* The controller of Muster Approval writes its decision over whatever status there is. *)
Decide(decision) ==
  /\ approval # decision
  /\ \A c \in Clients : requests[c] # None => ~requests[c].marked
  /\ approval' = decision
  /\ row' = [row EXCEPT !.status = IF decision = "Approved" THEN "Approved" ELSE "Failed"]
  /\ IF approval = "Pending" THEN UNCHANGED <<plan, requests, applied, changes>> ELSE Change
  /\ UNCHANGED <<records, authority>>

Expire == approval = "Approved" /\ approval' = "Expired" /\ Change /\ UNCHANGED <<records, row, authority>>

(* A user saves a record of the plan, or creates one under the name it uses. *)
Edited(x) == [x EXCEPT !.there = TRUE, !.planned = FALSE, !.revision = @ + 1]
Edit(t) ==
  /\ \A c \in Clients : requests[c] # None => t \notin requests[c].written
  /\ records' = [records EXCEPT ![t] = Edited(@)]
  /\ Change /\ UNCHANGED <<row, approval, authority>>

(* Roles or permissions of the actor change, and with them its epoch. *)
Reauthorize ==
  /\ \E still \in BOOLEAN : authority' = [epoch |-> authority.epoch + 1, allowed |-> still]
  /\ Change /\ UNCHANGED <<records, row, approval>>

Init ==
  /\ plan \in Plans
  /\ records = [t \in Targets |->
       [there |-> t \in Existing, planned |-> FALSE, revision |-> IF t \in Existing THEN 1 ELSE 0,
        docstatus |-> IF t \in Submitted THEN 1 ELSE 0]]
  /\ row = [status |-> "Preflighted", receipts |-> {}]
  /\ approval = "Pending" /\ authority = [epoch |-> 1, allowed |-> TRUE]
  /\ requests = [c \in Clients |-> None]
  /\ applied = {} /\ changes = 0

Next ==
  \/ \E c \in Clients :
       Begin(c) \/ Mark(c) \/ Execute(c) \/ Finish(c) \/ Refuse(c) \/ Fault(c) \/ Raise(c)
  \/ \E decision \in {"Approved", "Rejected"} : Decide(decision)
  \/ Expire \/ Reauthorize
  \/ \E t \in Targets : Edit(t)

Spec == Init /\ [][Next]_vars

-----------------------------------------------------------------------------
(* Properties *)

(* Whatever commits in the middle of a plan, no committed effect is without the effects it
   depends on (topological_operations, apply_document). *)
EffectsFollowDependencies == \A id \in applied : DependsOn(id) \subseteq applied

TypeOK ==
  /\ records \in [Targets -> Record]
  /\ \A c \in Clients : requests[c] # None => requests[c].view \in [Targets -> Record]
  /\ applied \subseteq Ids /\ row.receipts \subseteq Ids

(* A change set leaves all of its effects, with all of their receipts, or none, however often
   and by however many requests it is applied; only what a schema change committed on its
   way can stay behind a failure, and that without a receipt (apply_document).  Records are
   of their type. *)
AllOrNothing ==
  /\ TypeOK
  /\ row.receipts \in {{}, Ids}
  /\ \/ applied = {}
     \/ applied = row.receipts
     \/ /\ row.receipts = {}
        /\ \E n \in Ids : /\ Operation(TopologicalOrder[n]).kind = "field"
                          /\ applied = {TopologicalOrder[k] : k \in 1..n}

(* A record is saved only over the revision its operation was planned for, though the
   executor compares the token with what its snapshot holds (_check_concurrency, _effect). *)
SavedOverThePlan ==
  [][\A id \in applied' \ applied :
       LET op == Operation(id) IN
       op.kind \in Saving /\ op.token # None => records[op.target].revision = op.token]_vars
=============================================================================
