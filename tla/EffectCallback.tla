--------------------------- MODULE EffectCallback ---------------------------
(***************************************************************************)
(* The gateway-to-site effect boundary (api/effect_callback.py) for one     *)
(* planned record effect: the apply and compensate phases, which the        *)
(* gateway may repeat, delay and send concurrently under fencing tokens,    *)
(* against users who edit the same record and an approval and permissions   *)
(* that change meanwhile.  The resolve, plan and observe phases read only.  *)
(*                                                                         *)
(* A callback is one database transaction.  Its reads come from a snapshot  *)
(* taken before it asks for the claim lock, so the lock does not show it    *)
(* what an earlier holder committed; what keeps an effect from happening    *)
(* twice is the unique key of the ledger row and the record's own check.    *)
(***************************************************************************)
EXTENDS Naturals

CONSTANTS
  Requests,   \* callbacks that can be under way at once
  MaxFence,   \* bound on fencing tokens
  MaxEdits    \* bound on the record's revisions

ASSUME BoundsAssumption == MaxFence \in Nat \ {0} /\ MaxEdits \in Nat

VARIABLES
  action,     \* operation.action of the plan: "create" or "update"
  record,     \* the target record: what it holds and its revision ("modified")
  ledger,     \* the effect_committed Muster Activity under the effect's key: at most one row
  approved,   \* is the approval receipt Approved and unexpired?
  drifted,    \* have permissions or schema changed since the plan?
  request,    \* what each callback is doing
  effects,    \* history: how often the effect was committed
  answers     \* history: applications returned by apply, with the fence that asked

vars == <<action, record, ledger, approved, drifted, request, effects, answers>>

Values == {"absent", "before", "effect", "edited"}
Record == [value : Values, modified : Nat]
Row == [fence : 1..MaxFence, receipt : 1..MaxFence]

(* The record as it was planned. *)
Planned == [value |-> IF action = "create" THEN "absent" ELSE "before", modified |-> 0]

Snapshot == [record : Record, ledger : SUBSET Row]
Idle == [pc |-> "idle"]
RequestState ==
  {Idle} \cup [pc : {"waiting", "claimed", "unlocked", "written"}, phase : {"apply", "compensate"},
               fence : 1..MaxFence, seen : Snapshot]

TypeOK ==
  /\ action \in {"create", "update"}
  /\ record \in Record
  /\ ledger \in SUBSET Row
  /\ approved \in BOOLEAN /\ drifted \in BOOLEAN
  /\ request \in [Requests -> RequestState]
  /\ effects \in Nat
  /\ answers \in SUBSET [fence : 1..MaxFence, receipt : 1..MaxFence]

Init ==
  /\ action \in {"create", "update"}
  /\ record = Planned /\ ledger = {}
  /\ approved = TRUE /\ drifted = FALSE
  /\ request = [r \in Requests |-> Idle]
  /\ effects = 0 /\ answers = {}

-----------------------------------------------------------------------------
(* Mutant of DataUnchanged: the revision is not compared. *)
AnyRevision == TRUE

(* _data_revision and _check_concurrency: a record to be created has no revision to
   drift. *)
DataUnchanged == action = "create" \/ record.modified = Planned.modified

(* Some callback has written and not committed: it holds the rows' locks. *)
RowsFree == \A r \in Requests : request[r].pc # "written"

(* redis lock muster:effect:claim. *)
ClaimFree == \A r \in Requests : request[r].pc # "claimed"

(* Mutant of KeyFree: the ledger's key is not unique. *)
KeyNotUnique == TRUE

(* A record saved over its snapshot: check_if_latest compares the revision. *)
Latest(tx) == record.modified = tx.seen.record.modified

(* Does inserting the ledger row meet the unique idempotency_key? *)
KeyFree == ledger = {}

End(r) == request' = [request EXCEPT ![r] = Idle]
Move(r, pc) ==
  request' = [request EXCEPT ![r] =
    [pc |-> pc, phase |-> @.phase, fence |-> @.fence, seen |-> @.seen]]

(* execute: the transaction begins; a drifted or unapproved plan is refused, and
   for apply so is one whose record has another revision than planned.  (The
   gateway stops asking for compensation at MaxEdits revisions.) *)
Receive(r) == \E phase \in {"apply", "compensate"}, f \in 1..MaxFence :
  /\ request[r] = Idle
  /\ approved /\ ~drifted
  /\ IF phase = "apply" THEN DataUnchanged ELSE record.modified < MaxEdits
  /\ request' = [request EXCEPT ![r] =
       [pc |-> "waiting", phase |-> phase, fence |-> f,
        seen |-> [record |-> record, ledger |-> ledger]]]
  /\ UNCHANGED <<action, record, ledger, approved, drifted, effects, answers>>

(* _apply_once takes the claim lock... *)
Claim(r) ==
  /\ request[r].pc = "waiting" /\ request[r].phase = "apply"
  /\ ClaimFree
  /\ Move(r, "claimed")
  /\ UNCHANGED <<action, record, ledger, approved, drifted, effects, answers>>

(* ...or gives up after ten seconds. *)
ClaimTimesOut(r) ==
  /\ request[r].pc = "waiting" /\ request[r].phase = "apply"
  /\ ~ClaimFree
  /\ End(r)
  /\ UNCHANGED <<action, record, ledger, approved, drifted, effects, answers>>

(* The lock lapses after a minute though its holder is not done; the holder
   learns of it when it releases the lock, which then raises. *)
ClaimLapses(r) ==
  /\ request[r].pc = "claimed"
  /\ Move(r, "unlocked")
  /\ UNCHANGED <<action, record, ledger, approved, drifted, effects, answers>>

(* Mutant of Replay: the fence is not compared. *)
ReplayUnfenced(r) ==
  /\ request[r].pc = "claimed"
  /\ \E row \in request[r].seen.ledger :
       answers' = answers \cup {[fence |-> request[r].fence, receipt |-> row.receipt]}
  /\ End(r)
  /\ UNCHANGED <<action, record, ledger, approved, drifted, effects>>

(* The snapshot shows the ledger row: its application is returned again, unless
   the row carries a later fence. *)
Replay(r) == LET tx == request[r] IN
  /\ tx.pc = "claimed"
  /\ \E row \in tx.seen.ledger :
       answers' = IF row.fence > tx.fence THEN answers
                  ELSE answers \cup {[fence |-> tx.fence, receipt |-> row.receipt]}
  /\ End(r)
  /\ UNCHANGED <<action, record, ledger, approved, drifted, effects>>

(* The snapshot shows no row: effect, verification and ledger row are written,
   each waiting for its row lock; the claim lock is released. *)
Execute(r) == LET tx == request[r] IN
  /\ tx.pc = "claimed"
  /\ tx.seen.ledger = {}
  /\ RowsFree
  /\ action = "update" => Latest(tx)
  /\ KeyFree
  /\ Move(r, "written")
  /\ UNCHANGED <<action, record, ledger, approved, drifted, effects, answers>>

(* The record changed or the key is taken since the snapshot, a row lock does not
   come, the document refuses the effect, or the claim lock has lapsed: the
   callback raises and everything is rolled back. *)
ExecuteFails(r) ==
  /\ \/ request[r].pc = "unlocked"
     \/ request[r].pc = "claimed" /\ request[r].seen.ledger = {}
  /\ End(r)
  /\ UNCHANGED <<action, record, ledger, approved, drifted, effects, answers>>

(* The callback returns: its transaction commits. *)
Commit(r) == LET tx == request[r] IN
  /\ tx.pc = "written"
  /\ record' = [value |-> "effect", modified |-> record.modified + 1]
  /\ ledger' = ledger \cup {[fence |-> tx.fence, receipt |-> tx.fence]}
  /\ effects' = effects + 1
  /\ answers' = answers \cup {[fence |-> tx.fence, receipt |-> tx.fence]}
  /\ End(r)
  /\ UNCHANGED <<action, approved, drifted>>

(* The worker is killed: its transaction is rolled back. *)
Crash(r) ==
  /\ request[r].pc # "idle"
  /\ End(r)
  /\ UNCHANGED <<action, record, ledger, approved, drifted, effects, answers>>

(* _rollback of the ledger row's inverse changes the record: the row is there and
   not of a later fence, the record still is, and an update meets no other save. *)
Undoes(tx) ==
  /\ \E row \in tx.seen.ledger : row.fence <= tx.fence
  /\ tx.seen.record.value # "absent" /\ record.value # "absent"
  /\ action = "update" => Latest(tx)

(* compensate: a repair that fails, or that waits too long for the record, is
   caught and answered as not repaired. *)
Compensate(r) == LET tx == request[r] IN
  /\ tx.pc = "waiting" /\ tx.phase = "compensate"
  /\ record' = IF RowsFree /\ Undoes(tx)
               THEN [value |-> Planned.value, modified |-> record.modified + 1] ELSE record
  /\ End(r)
  /\ UNCHANGED <<action, ledger, approved, drifted, effects, answers>>

(* A user saves the record, or deletes a record the effect created. *)
Edit ==
  /\ record.value # "absent"
  /\ RowsFree
  /\ record.modified < MaxEdits
  /\ \E v \in {"edited"} \cup (IF action = "create" THEN {"absent"} ELSE {}) :
       record' = [value |-> v, modified |-> record.modified + 1]
  /\ UNCHANGED <<action, ledger, approved, drifted, request, effects, answers>>

(* The approval expires, is revoked, or its status is saved again. *)
Decide ==
  /\ approved' = ~approved
  /\ UNCHANGED <<action, record, ledger, drifted, request, effects, answers>>

Drift ==
  /\ ~drifted /\ drifted' = TRUE
  /\ UNCHANGED <<action, record, ledger, approved, request, effects, answers>>

-----------------------------------------------------------------------------
Next ==
  \/ \E r \in Requests :
       \/ Receive(r) \/ Claim(r) \/ ClaimTimesOut(r) \/ ClaimLapses(r)
       \/ Replay(r) \/ Execute(r) \/ ExecuteFails(r) \/ Commit(r)
       \/ Compensate(r) \/ Crash(r)
  \/ Edit \/ Decide \/ Drift

Spec == Init /\ [][Next]_vars

-----------------------------------------------------------------------------
(* A confirmed effect is one the site committed, and the fence of a replay is
   never below the fence the effect was committed under (_apply_once); rows,
   callbacks and answers are of their types. *)
FencedReplay ==
  /\ TypeOK
  /\ \A a \in answers : \E row \in ledger : a.fence >= row.fence

(* The effect is committed over the very revision it was planned and approved
   for, whatever was saved between the callback's snapshot and its commit: no
   user's edit is overwritten by an update (_check_concurrency, check_if_latest). *)
PlannedRevisionOnly ==
  [][effects' # effects /\ action = "update" => record = Planned]_vars

(* The callback performs the effect at most once, atomically with its receipt,
   and confirms nothing else. *)
Contract == INSTANCE EffectContract WITH
  Receipts <- 1..MaxFence, performed <- effects,
  receipt <- {row.receipt : row \in ledger},
  confirmed <- {a.receipt : a \in answers}

ImplementsContract == Contract!EffectSpec
=============================================================================
