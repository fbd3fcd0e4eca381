---------------------------- MODULE NativeEngine ----------------------------
(***************************************************************************)
(* The native artifact engine: previews of plans over Frappe customizations *)
(* (automation/engine.py over frappe_backend.py), their application under   *)
(* one lock per idempotency key, compensation when a change fails, and the  *)
(* rollback of a verified change set (api/native_builder.py).               *)
(*                                                                         *)
(* A request is one transaction: it reads from a snapshot, its view, in     *)
(* which it also sees its own writes; rows it has written are locked until  *)
(* it commits.  Saving an artifact in Ddl changes the database schema,      *)
(* which commits the transaction under way and gives it a new snapshot.     *)
(* The redis locks are released when the engine returns, before the commit. *)
(***************************************************************************)
EXTENDS Naturals, Sequences, FiniteSets

CONSTANTS
  Artifacts,   \* native records: custom fields, reports, scripts...
  Ddl,         \* those whose save commits the transaction (custom fields, DocTypes)
  Sources,     \* artifact manifests users preview
  Changes,     \* Changes[s]: what source s puts in place, in order, each with its key
  Pinned,      \* sources that name the revisions they expect
  Requests,    \* apply and rollback requests that can be under way at once
  Exclusive,   \* do requests on one change set exclude each other?
  MaxSets,     \* bound on change sets
  MaxEdits,    \* bound on users' saves and deletes of artifacts
  MaxFaults    \* bound on killed requests and failing saves

ASSUME ChangesAssumption ==
  Changes \in [Sources -> Seq([target : Artifacts, key : Nat])]
ASSUME SubsetsAssumption == Ddl \subseteq Artifacts /\ Pinned \subseteq Sources
ASSUME SourcesAssumption == {"absent", "user"} \cap Sources = {}
ASSUME ExclusiveAssumption == Exclusive \in BOOLEAN
ASSUME BoundsAssumption == MaxSets \in Nat /\ MaxEdits \in Nat /\ MaxFaults \in Nat

VARIABLES
  artifact,  \* the committed artifacts: whose content, at which revision, by which change set
  sets,      \* the committed Muster Change Set rows in creation order
  request,   \* what each request is doing
  edits,     \* users' saves so far
  faults     \* killed requests and failing saves so far

vars == <<artifact, sets, request, edits, faults>>

-----------------------------------------------------------------------------
(* Rows *)

(* An artifact's content is a user's, or what a source puts there; "by" is the
   change set whose effect wrote it, 0 for users and restored content. *)
ArtifactRow == [content : {"absent", "user"} \cup Sources, rev : Nat, by : Nat]
Gone(row) == row.content = "absent"
SameRow(x, y) == x.content = y.content /\ (Gone(x) \/ x.rev = y.rev)

SetStatus ==
  {"AwaitingApproval", "Approved", "Failed", "Applying", "Verified", "Repaired",
   "NeedsIntervention"}

(* planned: the rows a plan was made over; receipts and inverses: the changes
   that have one. *)
SetRow == [source : Sources, planned : Seq(ArtifactRow), status : SetStatus,
           receipts : SUBSET Nat, inverses : Seq(Nat)]

Steps(s) == DOMAIN Changes[s]
Target(s, i) == Changes[s][i].target
Key(s, i) == Changes[s][i].key

(* The plan hash covers the manifest and the rows it was made over. *)
SamePlan(x, y) ==
  x.source = y.source /\ \A i \in Steps(x.source) : SameRow(x.planned[i], y.planned[i])

(* preview: what a change does depends on what it finds. *)
Changing(set, i) == set.planned[i].content # set.source
Creating(set, i) == Gone(set.planned[i])

(* find_receipt: the verified change sets that hold a receipt for a key. *)
ReceiptsFor(rows, k) ==
  {d \in DOMAIN rows : rows[d].status = "Verified"
                       /\ \E j \in rows[d].receipts : Key(rows[d].source, j) = k}

(* Mutant of Matching: a receipt of any plan will do. *)
MatchingAny(rows, d, c) == TRUE
Matching(rows, d, c) == SamePlan(rows[d], rows[c])

-----------------------------------------------------------------------------
(* Transactions.  view and sets are what the request sees of the artifacts and
   of the change sets, wrote and dirty the artifacts and whether the status it
   has written, next the change it is at, failed whether a repair did. *)

Idle == [pc |-> "idle"]
Busy(r) == request[r].pc # "idle"

Locks == {"key", "rollback"} \X Nat

Transaction ==
  [pc : {"locking", "applying", "undoing", "finished"}, mode : {"apply", "rollback"},
   cs : Nat, held : SUBSET Locks,
   view : [Artifacts -> ArtifactRow], wrote : SUBSET Artifacts,
   sets : Seq(SetRow), status : SetStatus, dirty : BOOLEAN,
   receipts : SUBSET Nat, inverses : Seq(Nat), next : Nat, failed : BOOLEAN]

Begun(mode, c) ==
  [pc |-> "locking", mode |-> mode, cs |-> c, held |-> {},
   view |-> artifact, wrote |-> {}, sets |-> sets,
   status |-> sets[c].status, dirty |-> FALSE,
   receipts |-> {}, inverses |-> sets[c].inverses, next |-> 1, failed |-> FALSE]

Plan(tx) == tx.sets[tx.cs]
Source(tx) == Plan(tx).source
AtTarget(tx) == Target(Source(tx), tx.next)

WrittenByOther(r, a) == \E q \in Requests \ {r} : Busy(q) /\ a \in request[q].wrote
SetHeldByOther(r) ==
  \E q \in Requests \ {r} : Busy(q) /\ request[q].dirty /\ request[q].cs = request[r].cs

(* The artifacts and the change sets once tx commits. *)
Merged(tx) == [a \in Artifacts |-> IF a \in tx.wrote THEN tx.view[a] ELSE artifact[a]]
MergedSets(r, tx) ==
  [sets EXCEPT ![tx.cs] =
     [source |-> @.source, planned |-> @.planned,
      status |-> IF tx.dirty THEN tx.status ELSE @.status,
      receipts |-> @.receipts \cup request[r].receipts,
      inverses |-> IF tx.pc = "finished" THEN tx.inverses ELSE @.inverses]]

(* Request r goes on as tx; if it has just changed the schema with artifact a,
   what it wrote is committed and its view is new. *)
Proceed(r, tx, a) ==
  IF a \in Ddl
  THEN /\ artifact' = Merged(tx)
       /\ sets' = MergedSets(r, tx)
       /\ request' = [request EXCEPT ![r] =
            [tx EXCEPT !.view = Merged(tx), !.sets = MergedSets(r, tx),
                       !.wrote = {}, !.dirty = FALSE]]
  ELSE /\ request' = [request EXCEPT ![r] = tx]
       /\ UNCHANGED <<artifact, sets>>

Step(r, tx) == request' = [request EXCEPT ![r] = tx] /\ UNCHANGED <<artifact, sets>>
End(r) == Step(r, Idle)

Fault == faults < MaxFaults /\ faults' = faults + 1

TypeOK ==
  /\ artifact \in [Artifacts -> ArtifactRow]
  /\ sets \in Seq(SetRow)
  /\ request \in [Requests -> {Idle} \cup Transaction]
  /\ edits \in 0..MaxEdits
  /\ faults \in 0..MaxFaults

Init ==
  /\ artifact \in [Artifacts -> {[content |-> c, rev |-> 0, by |-> 0] : c \in {"absent", "user"}}]
  /\ sets = <<>>
  /\ request = [r \in Requests |-> Idle]
  /\ edits = 0 /\ faults = 0

-----------------------------------------------------------------------------
(* Previews and decisions *)

(* native_builder.preview: the plan is persisted unless it is there and open. *)
Preview(s) ==
  /\ Len(sets) < MaxSets
  /\ LET row == [source |-> s, planned |-> [i \in Steps(s) |-> artifact[Target(s, i)]],
                 status |-> "AwaitingApproval", receipts |-> {}, inverses |-> <<>>]
     IN /\ \A c \in DOMAIN sets :
             sets[c].status \in {"AwaitingApproval", "Approved"} => ~SamePlan(sets[c], row)
        /\ sets' = Append(sets, row)
  /\ UNCHANGED <<artifact, request, edits, faults>>

(* An approver decides about a plan. *)
Decide(c) ==
  /\ sets[c].status = "AwaitingApproval"
  /\ \E st \in {"Approved", "Failed"} : sets' = [sets EXCEPT ![c].status = st]
  /\ UNCHANGED <<artifact, request, edits, faults>>

Free(c) == Exclusive => \A q \in Requests : Busy(q) => request[q].cs # c

(* A manifest that names revisions is refused when they are not current, by a
   rollback too, be it for the revisions that its own apply has made. *)
PinsHold(set) ==
  set.source \in Pinned =>
    \A i \in Steps(set.source) :
      ~Gone(set.planned[i]) => SameRow(artifact[Target(set.source, i)], set.planned[i])

-----------------------------------------------------------------------------
(* engine.apply *)

(* The API applies a plan that is approved and that a fresh preview repeats. *)
Applicable(c) == LET set == sets[c] IN
  /\ set.status = "Approved"
  /\ \A i \in Steps(set.source) :
       SameRow(artifact[Target(set.source, i)], set.planned[i])

(* One of its keys has no receipt, those before it having one of this plan; else
   the receipts are returned or the key is refused. *)
Unreplayed(c) == LET s == sets[c].source IN
  \E i \in Steps(s) :
    /\ ReceiptsFor(sets, Key(s, i)) = {}
    /\ \A j \in 1..(i - 1) : \E d \in ReceiptsFor(sets, Key(s, j)) : Matching(sets, d, c)

StartApply(r, c) ==
  /\ ~Busy(r) /\ Free(c)
  /\ Applicable(c) /\ Unreplayed(c)
  /\ Step(r, Begun("apply", c))
  /\ UNCHANGED <<edits, faults>>

LocksOf(tx) ==
  IF tx.mode = "rollback" THEN {<<"rollback", tx.cs>>}
  ELSE {<<"key", Key(Source(tx), i)>> : i \in Steps(Source(tx))}

(* Mutant of NextLock: keys are locked in the order of the changes. *)
NextLockInPlanOrder(tx) ==
  IF tx.mode = "rollback" THEN <<"rollback", tx.cs>>
  ELSE LET i == CHOOSE i \in Steps(Source(tx)) :
                  /\ <<"key", Key(Source(tx), i)>> \notin tx.held
                  /\ \A j \in 1..(i - 1) : <<"key", Key(Source(tx), j)>> \in tx.held
       IN <<"key", Key(Source(tx), i)>>

(* The keys of a plan are locked in ascending order. *)
NextLock(tx) ==
  CHOOSE l \in LocksOf(tx) \ tx.held : \A m \in LocksOf(tx) \ tx.held : l[2] <= m[2]

Holder(l) == {q \in Requests : Busy(q) /\ l \in request[q].held}

WaitsForLock(r) == request[r].pc = "locking" /\ LocksOf(request[r]) \ request[r].held # {}

Lock(r) == LET tx == request[r] IN
  /\ WaitsForLock(r)
  /\ Holder(NextLock(tx)) = {}
  /\ Step(r, [tx EXCEPT !.held = @ \cup {NextLock(tx)}])
  /\ UNCHANGED <<edits, faults>>

(* A lock that does not come within fifteen seconds fails the request. *)
LockTimesOut(r) ==
  /\ WaitsForLock(r)
  /\ Holder(NextLock(request[r])) # {}
  /\ End(r)
  /\ UNCHANGED <<edits, faults>>

(* begin_execution waits for the change set's row and marks it Applying. *)
Begin(r) == LET tx == request[r] IN
  /\ tx.pc = "locking" /\ tx.mode = "apply" /\ ~WaitsForLock(r)
  /\ ~SetHeldByOther(r)
  /\ Step(r, [tx EXCEPT !.pc = "applying", !.status = "Applying", !.dirty = TRUE,
                        !.inverses = <<>>])
  /\ UNCHANGED <<edits, faults>>

Applying(r) ==
  request[r].pc = "applying" /\ request[r].next \in Steps(Source(request[r]))

Receipts(tx) == ReceiptsFor(tx.sets, Key(Source(tx), tx.next))

(* Mutant of CurrentMatches: the preview's check is enough. *)
MatchedAtStart(tx) == TRUE
CurrentMatches(tx) == SameRow(tx.view[AtTarget(tx)], Plan(tx).planned[tx.next])

(* What remains once an exception is caught: the inverses, last first. *)
Caught(tx) == [tx EXCEPT !.pc = "undoing", !.next = Len(tx.inverses)]

(* The change has a receipt, of this plan or of another. *)
Replayed(r) == LET tx == request[r] IN
  /\ Applying(r)
  /\ \E d \in Receipts(tx) :
       Step(r, IF Matching(tx.sets, d, tx.cs) THEN [tx EXCEPT !.next = @ + 1] ELSE Caught(tx))
  /\ UNCHANGED <<edits, faults>>

Due(r) == Applying(r) /\ Receipts(request[r]) = {}

(* Mutant of Conflict: the exception is not caught. *)
ConflictUncaught(r) ==
  /\ Due(r) /\ ~CurrentMatches(request[r])
  /\ End(r)
  /\ UNCHANGED <<edits, faults>>

(* The target changed since the preview. *)
Conflict(r) ==
  /\ Due(r) /\ ~CurrentMatches(request[r])
  /\ Step(r, Caught(request[r]))
  /\ UNCHANGED <<edits, faults>>

(* Nothing to do: the receipt is all. *)
Keep(r) == LET tx == request[r] IN
  /\ Due(r) /\ CurrentMatches(tx)
  /\ ~Changing(Plan(tx), tx.next)
  /\ Step(r, [tx EXCEPT !.receipts = @ \cup {tx.next}, !.next = @ + 1])
  /\ UNCHANGED <<edits, faults>>

(* The database takes a row tx writes only if it is as tx sees it: an insert
   meets a duplicate, a save a later revision. *)
Takes(tx, a) == a \in tx.wrote \/ SameRow(artifact[a], tx.view[a])

Written(tx, a, content, by) ==
  [tx EXCEPT !.view[a] = [content |-> content, rev |-> artifact[a].rev + 1, by |-> by],
             !.wrote = @ \cup {a}]

Writing(r) ==
  /\ Due(r) /\ CurrentMatches(request[r])
  /\ Changing(Plan(request[r]), request[r].next)

(* The effect of a change, its inverse registered. *)
Effect(tx) == LET done == Written(tx, AtTarget(tx), Source(tx), tx.cs)
              IN [done EXCEPT !.inverses = Append(@, tx.next)]

Write(r) == LET tx == request[r] IN
  /\ Writing(r)
  /\ ~WrittenByOther(r, AtTarget(tx)) /\ Takes(tx, AtTarget(tx))
  /\ LET ok == [Effect(tx) EXCEPT !.receipts = @ \cup {tx.next}, !.next = @ + 1]
     IN Proceed(r, ok, AtTarget(tx))
  /\ UNCHANGED <<edits, faults>>

(* The document or a hook refuses the save, another request has changed the row
   or holds it too long: there is no effect. *)
WriteRefused(r) == LET tx == request[r] IN
  /\ Writing(r)
  /\ \/ Fault
     \/ /\ WrittenByOther(r, AtTarget(tx)) \/ ~Takes(tx, AtTarget(tx))
        /\ UNCHANGED faults
  /\ Step(r, Caught(tx))
  /\ UNCHANGED edits

(* Mutant of WriteUnverified: the inverse is registered after the check. *)
WriteUnregistered(r) == LET tx == request[r] IN
  /\ Writing(r)
  /\ ~WrittenByOther(r, AtTarget(tx)) /\ Takes(tx, AtTarget(tx))
  /\ Fault
  /\ Proceed(r, [Caught(Effect(tx)) EXCEPT !.next = @ - 1], AtTarget(tx))
  /\ UNCHANGED edits

(* The save succeeds, but under another name or with other values. *)
WriteUnverified(r) == LET tx == request[r] IN
  /\ Writing(r)
  /\ ~WrittenByOther(r, AtTarget(tx)) /\ Takes(tx, AtTarget(tx))
  /\ Fault
  /\ Proceed(r, Caught(Effect(tx)), AtTarget(tx))
  /\ UNCHANGED edits

(* Two requests wait for each other's artifacts: the database undoes what one of
   them wrote, which meets it as an exception like any other. *)
WaitsFor(r, q) ==
  Writing(r) /\ Busy(q) /\ AtTarget(request[r]) \in request[q].wrote

DeadlockVictim(r) == LET tx == request[r] IN
  /\ \E q \in Requests \ {r} : WaitsFor(r, q) /\ WaitsFor(q, r)
  /\ Step(r, [Caught(tx) EXCEPT !.view = artifact, !.sets = sets, !.wrote = {},
                                !.dirty = FALSE, !.receipts = {}])
  /\ UNCHANGED <<edits, faults>>

(* finish_execution writes the change set's row and the locks are released; a
   lock that lapsed meanwhile, or a row held too long, fails the request. *)
Finished(r, st) ==
  /\ ~SetHeldByOther(r)
  /\ Step(r, [request[r] EXCEPT !.pc = "finished", !.status = st, !.dirty = TRUE, !.held = {}])

FinishApply(r) ==
  /\ request[r].pc = "applying" /\ ~Applying(r)
  /\ Finished(r, "Verified")
  /\ UNCHANGED <<edits, faults>>

-----------------------------------------------------------------------------
(* _compensate and engine.rollback *)

Undoing(r) == request[r].pc = "undoing" /\ request[r].next > 0

NextInverse(tx) == tx.inverses[tx.next]
Undone(tx) == Target(Source(tx), NextInverse(tx))

(* A rollback goes through the inverses in reverse too; what it finds must be
   what was applied, or gone. *)
Unchanged(tx) ==
  tx.mode = "rollback" =>
    Gone(tx.view[Undone(tx)]) \/ tx.view[Undone(tx)].content = Source(tx)

(* The inverse of a creation is a deletion, which takes the row as it is; an
   update is restored by a save or an insert. *)
Restored(tx) ==
  IF Creating(Plan(tx), NextInverse(tx))
  THEN Written(tx, Undone(tx), "absent", 0)
  ELSE Written(tx, Undone(tx), Plan(tx).planned[NextInverse(tx)].content, 0)

Restorable(r) == LET tx == request[r] IN
  /\ ~WrittenByOther(r, Undone(tx))
  /\ Creating(Plan(tx), NextInverse(tx)) \/ Takes(tx, Undone(tx))

Undo(r) == LET tx == request[r] IN
  /\ Undoing(r) /\ Unchanged(tx)
  /\ IF Creating(Plan(tx), NextInverse(tx)) /\ Gone(tx.view[Undone(tx)])
     THEN Step(r, [tx EXCEPT !.next = @ - 1])
     ELSE /\ Restorable(r)
          /\ IF Creating(Plan(tx), NextInverse(tx))
             THEN Step(r, [Restored(tx) EXCEPT !.next = @ - 1])
             ELSE Proceed(r, [Restored(tx) EXCEPT !.next = @ - 1], Undone(tx))
  /\ UNCHANGED <<edits, faults>>

(* A repair that fails is recorded; a rollback stops at it. *)
UndoFails(r) == LET tx == request[r] IN
  /\ Undoing(r) /\ Unchanged(tx)
  /\ \/ Fault
     \/ ~Restorable(r) /\ UNCHANGED faults
  /\ Step(r, [tx EXCEPT !.failed = TRUE,
                        !.next = IF tx.mode = "rollback" THEN 0 ELSE @ - 1])
  /\ UNCHANGED edits

(* Rolling back would clobber a user's work: the request fails. *)
UndoRefused(r) ==
  /\ Undoing(r) /\ ~Unchanged(request[r])
  /\ End(r)
  /\ UNCHANGED <<edits, faults>>

Outcome(tx) ==
  IF tx.failed \/ (tx.mode = "rollback" /\ tx.inverses = <<>>)
  THEN "NeedsIntervention" ELSE "Repaired"

FinishUndo(r) ==
  /\ request[r].pc = "undoing" /\ request[r].next = 0
  /\ Finished(r, Outcome(request[r]))
  /\ UNCHANGED <<edits, faults>>

(* A verified change set is rolled back if its manifest can still be previewed. *)
StartRollback(r, c) ==
  /\ ~Busy(r) /\ Free(c)
  /\ sets[c].status = "Verified"
  /\ PinsHold(sets[c])
  /\ Step(r, Begun("rollback", c))
  /\ UNCHANGED <<edits, faults>>

BeginRollback(r) == LET tx == request[r] IN
  /\ tx.pc = "locking" /\ tx.mode = "rollback" /\ ~WaitsForLock(r)
  /\ Step(r, [tx EXCEPT !.pc = "undoing", !.next = Len(tx.inverses)])
  /\ UNCHANGED <<edits, faults>>

-----------------------------------------------------------------------------
(* The request returns: its transaction commits. *)
Commit(r) == LET tx == request[r] IN
  /\ tx.pc = "finished"
  /\ artifact' = Merged(tx)
  /\ sets' = MergedSets(r, tx)
  /\ request' = [request EXCEPT ![r] = Idle]
  /\ UNCHANGED <<edits, faults>>

(* The web worker is killed, a lock lapses before it is released, the change
   set's row is held too long: what is not committed is rolled back. *)
Crash(r) ==
  /\ Busy(r)
  /\ Fault
  /\ End(r)
  /\ UNCHANGED edits

(* A user saves, creates or deletes an artifact. *)
Edit(a) ==
  /\ edits < MaxEdits /\ edits' = edits + 1
  /\ \A q \in Requests : Busy(q) => a \notin request[q].wrote
  /\ \E content \in {"user", "absent"} :
       /\ ~(Gone(artifact[a]) /\ content = "absent")
       /\ artifact' = [artifact EXCEPT ![a] =
                        [content |-> content, rev |-> artifact[a].rev + 1, by |-> 0]]
  /\ UNCHANGED <<sets, request, faults>>

-----------------------------------------------------------------------------
Proceeds(r) ==
  \/ Lock(r) \/ LockTimesOut(r) \/ Begin(r) \/ Replayed(r) \/ Conflict(r) \/ Keep(r)
  \/ Write(r) \/ WriteRefused(r) \/ WriteUnverified(r) \/ DeadlockVictim(r)
  \/ FinishApply(r) \/ BeginRollback(r) \/ Undo(r) \/ UndoFails(r) \/ UndoRefused(r)
  \/ FinishUndo(r) \/ Commit(r)

Next ==
  \/ \E s \in Sources : Preview(s)
  \/ \E c \in DOMAIN sets : Decide(c)
  \/ \E r \in Requests, c \in DOMAIN sets : StartApply(r, c) \/ StartRollback(r, c)
  \/ \E r \in Requests : Proceeds(r) \/ Crash(r)
  \/ \E a \in Artifacts : Edit(a)

Spec == Init /\ [][Next]_vars

(* A request that has begun goes on to its end. *)
FairSpec == Spec /\ \A r \in Requests : WF_vars(Proceeds(r))

-----------------------------------------------------------------------------
(* No effect is left that nobody answers for: whatever fails, crashes, commits
   early or overlaps, an artifact in the state a change set gave it belongs to a
   change set that says so, never to one reported repaired (engine.apply,
   _compensate, rollback).  Rows and requests are of their types. *)
NoOrphan ==
  /\ TypeOK
  /\ \A a \in Artifacts : artifact[a].by # 0 =>
       sets[artifact[a].by].status \in {"Applying", "Verified", "NeedsIntervention"}

(* An effect replaces the very row its plan was made over, although earlier
   changes of the plan may have committed meanwhile and let users in (preview,
   _current_matches, check_if_latest). *)
PlannedOnly ==
  [][\A a \in Artifacts :
       artifact'[a].by \notin {0, artifact[a].by} =>
         \E i \in Steps(sets[artifact'[a].by].source) :
           /\ Target(sets[artifact'[a].by].source, i) = a
           /\ SameRow(artifact[a], sets[artifact'[a].by].planned[i])]_vars

(* When a change set becomes verified, each artifact it has a receipt of its own for,
   or that its plan was made over a row of, holds what was reviewed or a later revision,
   though receipts of other plans share its keys (find_receipt and the receipts' plan
   hash).  An artifact the plan creates is excepted where another change set's receipt
   of the same plan answers for it: it may have been deleted since, and an absent row
   has no revision by which the plan hash could tell. *)
VerifiedInPlace ==
  [][\A c \in DOMAIN sets :
       sets'[c].status = "Verified" /\ sets[c].status # "Verified" =>
         \A i \in Steps(sets[c].source) :
           i \in sets'[c].receipts \/ ~Gone(sets[c].planned[i]) =>
             LET now == artifact'[Target(sets[c].source, i)]
             IN now.content = sets[c].source \/ now.rev > sets[c].planned[i].rev]_vars

(* Requests never wait for each other's keys: sorted acquisition (engine.apply). *)
KeysNeverCycle ==
  \A r, q \in Requests : r # q /\ WaitsForLock(r) /\ WaitsForLock(q) =>
    ~(NextLock(request[r]) \in request[q].held /\ NextLock(request[q]) \in request[r].held)

(* A change set does not stay Applying while nobody is killed (the exception
   handler of apply finishes what it began). *)
StillApplying(c) == c \in DOMAIN sets /\ sets[c].status = "Applying"
ApplyingEnds == \A c \in 1..MaxSets : StillApplying(c) ~> ~StillApplying(c)
=============================================================================
