------------------------ MODULE EffectCallbackProofs ------------------------
(***************************************************************************)
(* Proofs about EffectCallback for every number of concurrent callbacks and *)
(* every bound on fences and revisions.                                     *)
(***************************************************************************)
EXTENDS EffectCallback, TLAPS

USE BoundsAssumption

(* The effect and its ledger row come together, and once. *)
Once ==
  \/ effects = 0 /\ ledger = {}
  \/ effects = 1 /\ \E row \in Row : ledger = {row}

(* A ledger row is never taken back, so a snapshot shows at most what is there. *)
SeenLedger == \A r \in Requests : request[r].pc # "idle" => request[r].seen.ledger \subseteq ledger

(* Only one callback has written, and it found no ledger row. *)
OneWriter ==
  /\ \A r \in Requests : request[r].pc = "written" => ledger = {}
  /\ \A r, q \in Requests : request[r].pc = "written" /\ request[q].pc = "written" => r = q

(* Every answer repeats a receipt of the ledger under its fence or a later one. *)
Answered == \A a \in answers : \E row \in ledger : a.fence >= row.fence /\ a.receipt = row.receipt

IInv == TypeOK /\ Once /\ SeenLedger /\ OneWriter /\ Answered

-----------------------------------------------------------------------------
(* A callback under way is a full record. *)
LEMMA UnderWay ==
  ASSUME NEW q \in RequestState, q.pc # "idle"
  PROVE  /\ q.pc \in {"waiting", "claimed", "unlocked", "written"}
         /\ q.phase \in {"apply", "compensate"} /\ q.fence \in 1..MaxFence /\ q.seen \in Snapshot
         /\ q.seen.ledger \subseteq Row
         /\ \A pc \in {"waiting", "claimed", "unlocked", "written"} :
              [pc |-> pc, phase |-> q.phase, fence |-> q.fence, seen |-> q.seen] \in RequestState
BY DEF RequestState, Idle, Snapshot

LEMMA IdleTyped == Idle \in RequestState /\ Idle.pc = "idle"
BY DEF RequestState, Idle

(* One callback goes back to idle, or moves on with the snapshot it has. *)
LEMMA Ends ==
  ASSUME IInv, NEW r \in Requests, End(r)
  PROVE  /\ request' \in [Requests -> RequestState]
         /\ request'[r].pc = "idle"
         /\ \A q \in Requests \ {r} : request'[q] = request[q]
BY IdleTyped DEF IInv, TypeOK, End

LEMMA Moves ==
  ASSUME IInv, NEW r \in Requests, request[r].pc # "idle",
         NEW pc \in {"waiting", "claimed", "unlocked", "written"}, Move(r, pc)
  PROVE  /\ request' \in [Requests -> RequestState]
         /\ request'[r].pc = pc /\ request'[r].seen = request[r].seen
         /\ \A q \in Requests \ {r} : request'[q] = request[q]
<1>1. request[r] \in RequestState
  BY DEF IInv, TypeOK
<1>2. [pc |-> pc, phase |-> request[r].phase, fence |-> request[r].fence, seen |-> request[r].seen]
        \in RequestState
  BY <1>1, UnderWay
<1> QED BY <1>2 DEF Move, IInv, TypeOK

LEMMA InitIInv == Init => IInv
<1> SUFFICES ASSUME Init PROVE IInv
  OBVIOUS
<1>1. Planned \in Record
  BY DEF Planned, Record, Values
<1>2. TypeOK
  BY <1>1, IdleTyped DEF Init, TypeOK
<1>3. SeenLedger /\ OneWriter
  BY DEF Init, SeenLedger, OneWriter, Idle
<1> QED BY <1>2, <1>3 DEF Init, IInv, Once, Answered

(* A callback that ends without committing disturbs nothing. *)
LEMMA EndKeeps ==
  ASSUME IInv, NEW r \in Requests, End(r), UNCHANGED <<action, ledger, effects, answers>>,
         record' \in Record, UNCHANGED <<action, approved, drifted>>
  PROVE  IInv'
<1>1. TypeOK'
  BY Ends DEF IInv, TypeOK
<1>2. SeenLedger' /\ OneWriter'
  BY Ends DEF IInv, SeenLedger, OneWriter
<1> QED BY <1>1, <1>2 DEF IInv, Once, Answered

(* Nor does one that moves on, unless it writes. *)
LEMMA MoveKeeps ==
  ASSUME IInv, NEW r \in Requests, request[r].pc # "idle",
         NEW pc \in {"waiting", "claimed", "unlocked"}, Move(r, pc),
         UNCHANGED <<action, record, ledger, approved, drifted, effects, answers>>
  PROVE  IInv'
<1>1. TypeOK'
  BY Moves DEF IInv, TypeOK
<1>2. SeenLedger' /\ OneWriter'
  BY Moves DEF IInv, SeenLedger, OneWriter
<1> QED BY <1>1, <1>2 DEF IInv, Once, Answered

LEMMA ReceiveKeeps == ASSUME IInv, NEW r \in Requests, Receive(r) PROVE IInv'
<1>1. PICK phase \in {"apply", "compensate"}, f \in 1..MaxFence :
        request' = [request EXCEPT ![r] =
          [pc |-> "waiting", phase |-> phase, fence |-> f,
           seen |-> [record |-> record, ledger |-> ledger]]]
  BY DEF Receive
<1> DEFINE new == [pc |-> "waiting", phase |-> phase, fence |-> f,
                   seen |-> [record |-> record, ledger |-> ledger]]
<1>2. new \in RequestState
  BY DEF IInv, TypeOK, RequestState, Snapshot
<1>3. /\ request' \in [Requests -> RequestState]
      /\ request'[r].pc = "waiting" /\ request'[r].seen.ledger = ledger
      /\ \A q \in Requests \ {r} : request'[q] = request[q]
  BY <1>1, <1>2 DEF IInv, TypeOK
<1>4. UNCHANGED <<action, record, ledger, approved, drifted, effects, answers>>
  BY DEF Receive
<1>5. SeenLedger' /\ OneWriter'
  BY <1>3, <1>4 DEF IInv, SeenLedger, OneWriter
<1> QED BY <1>3, <1>4, <1>5 DEF IInv, TypeOK, Once, Answered

(* A replay answers with the receipt of a row its snapshot shows. *)
LEMMA ReplayAnswers ==
  ASSUME IInv, NEW r \in Requests, Replay(r)
  PROVE  \E row \in ledger :
           /\ ledger = {row}
           /\ \/ answers' = answers
              \/ /\ request[r].fence >= row.fence
                 /\ answers' = answers \cup {[fence |-> request[r].fence, receipt |-> row.receipt]}
<1>1. request[r] \in RequestState /\ request[r].pc # "idle"
  BY DEF IInv, TypeOK, Replay
<1>2. PICK row \in request[r].seen.ledger :
        answers' = IF row.fence > request[r].fence THEN answers
                   ELSE answers \cup {[fence |-> request[r].fence, receipt |-> row.receipt]}
  BY DEF Replay
<1>3. row \in ledger /\ ledger = {row}
  BY <1>1, <1>2 DEF IInv, SeenLedger, Once
<1>4. row.fence \in Nat /\ request[r].fence \in Nat
  <2>1. row \in Row
    BY <1>3 DEF IInv, TypeOK
  <2>2. request[r].fence \in 1..MaxFence
    BY <1>1, UnderWay
  <2> QED BY <2>1, <2>2 DEF Row
<1> QED BY <1>2, <1>3, <1>4

LEMMA ReplayKeeps == ASSUME IInv, NEW r \in Requests, Replay(r) PROVE IInv'
<1>1. End(r) /\ UNCHANGED <<action, record, ledger, approved, drifted, effects>>
  BY DEF Replay
<1>2. request[r].fence \in 1..MaxFence
  BY UnderWay DEF IInv, TypeOK, Replay
<1>3. PICK row \in ledger : \/ answers' = answers
                            \/ /\ request[r].fence >= row.fence
                               /\ answers' = answers \cup {[fence |-> request[r].fence, receipt |-> row.receipt]}
  BY ReplayAnswers
<1>4. row.receipt \in 1..MaxFence
  BY <1>3 DEF IInv, TypeOK, Row
<1>5. TypeOK'
  BY <1>1, <1>2, <1>3, <1>4, Ends DEF IInv, TypeOK
<1>6. SeenLedger' /\ OneWriter'
  BY <1>1, Ends DEF IInv, SeenLedger, OneWriter
<1>7. Answered'
  BY <1>1, <1>3 DEF IInv, Answered
<1> QED BY <1>1, <1>5, <1>6, <1>7 DEF IInv, Once

(* The rows are free and the ledger empty when a callback writes. *)
LEMMA ExecuteKeeps == ASSUME IInv, NEW r \in Requests, Execute(r) PROVE IInv'
<1>1. /\ request[r].pc # "idle" /\ Move(r, "written") /\ RowsFree /\ ledger = {}
      /\ UNCHANGED <<action, record, ledger, approved, drifted, effects, answers>>
  BY DEF Execute, KeyFree
<1>2. TypeOK'
  BY <1>1, Moves DEF IInv, TypeOK
<1>3. SeenLedger' /\ OneWriter'
  BY <1>1, Moves DEF IInv, SeenLedger, OneWriter, RowsFree
<1> QED BY <1>1, <1>2, <1>3 DEF IInv, Once, Answered

(* What a commit finds and leaves. *)
LEMMA CommitStep ==
  ASSUME IInv, NEW r \in Requests, Commit(r)
  PROVE  LET f == request[r].fence
             row == [fence |-> f, receipt |-> f]
         IN /\ f \in 1..MaxFence
            /\ ledger = {} /\ effects = 0 /\ answers = {}
            /\ ledger' = {row} /\ effects' = 1 /\ answers' = {row}
            /\ End(r) /\ UNCHANGED <<action, approved, drifted>>
<1>1. request[r].pc = "written" /\ request[r].fence \in 1..MaxFence
  BY UnderWay DEF IInv, TypeOK, Commit
<1>2. ledger = {} /\ effects = 0 /\ answers = {}
  BY <1>1 DEF IInv, OneWriter, Once, Answered
<1> QED BY <1>1, <1>2 DEF Commit

LEMMA CommitKeeps == ASSUME IInv, NEW r \in Requests, Commit(r) PROVE IInv'
<1> DEFINE f == request[r].fence
           row == [fence |-> f, receipt |-> f]
<1>1. /\ f \in 1..MaxFence
      /\ ledger = {} /\ ledger' = {row} /\ effects' = 1 /\ answers' = {row}
      /\ End(r) /\ UNCHANGED <<action, approved, drifted>>
  BY CommitStep
<1>2. row \in Row
  BY <1>1 DEF Row
<1>3. record' \in Record
  BY DEF Commit, IInv, TypeOK, Record, Values
<1>4. TypeOK'
  BY <1>1, <1>2, <1>3, Ends DEF IInv, TypeOK, Row
<1>5. SeenLedger'
  BY <1>1, Ends DEF IInv, SeenLedger
<1>6. \A q \in Requests : request'[q].pc # "written"
  BY <1>1, Ends DEF IInv, OneWriter, Commit
<1>7. Once' /\ Answered'
  BY <1>1, <1>2 DEF Once, Answered
<1> QED BY <1>4, <1>5, <1>6, <1>7 DEF IInv, OneWriter

LEMMA CompensateKeeps == ASSUME IInv, NEW r \in Requests, Compensate(r) PROVE IInv'
<1>1. record' \in Record
  BY DEF Compensate, IInv, TypeOK, Record, Values, Planned
<1> QED BY <1>1, EndKeeps DEF Compensate

(* Edits, decisions and drift touch neither ledger nor callbacks. *)
LEMMA EnvironmentKeeps == ASSUME IInv, Edit \/ Decide \/ Drift \/ UNCHANGED vars PROVE IInv'
<1>1. UNCHANGED <<action, ledger, request, effects, answers>>
  BY DEF Edit, Decide, Drift, vars
<1>2. record' \in Record
  BY DEF Edit, Decide, Drift, vars, IInv, TypeOK, Record, Values
<1>3. approved' \in BOOLEAN /\ drifted' \in BOOLEAN
  BY DEF Edit, Decide, Drift, vars, IInv, TypeOK
<1> QED BY <1>1, <1>2, <1>3 DEF IInv, TypeOK, Once, SeenLedger, OneWriter, Answered

LEMMA NextIInv == IInv /\ [Next]_vars => IInv'
<1> SUFFICES ASSUME IInv, [Next]_vars PROVE IInv'
  OBVIOUS
<1>1. ASSUME NEW r \in Requests, Receive(r) PROVE IInv'
  BY <1>1, ReceiveKeeps
<1>2. ASSUME NEW r \in Requests, Claim(r) PROVE IInv'
  BY <1>2, MoveKeeps DEF Claim
<1>3. ASSUME NEW r \in Requests, ClaimLapses(r) PROVE IInv'
  BY <1>3, MoveKeeps DEF ClaimLapses
<1>4. ASSUME NEW r \in Requests, ClaimTimesOut(r) \/ ExecuteFails(r) \/ Crash(r) PROVE IInv'
  <2>1. End(r) /\ UNCHANGED <<action, record, ledger, approved, drifted, effects, answers>>
    BY <1>4 DEF ClaimTimesOut, ExecuteFails, Crash
  <2> QED BY <2>1, EndKeeps DEF IInv, TypeOK
<1>5. ASSUME NEW r \in Requests, Replay(r) PROVE IInv'
  BY <1>5, ReplayKeeps
<1>6. ASSUME NEW r \in Requests, Execute(r) PROVE IInv'
  BY <1>6, ExecuteKeeps
<1>7. ASSUME NEW r \in Requests, Commit(r) PROVE IInv'
  BY <1>7, CommitKeeps
<1>8. ASSUME NEW r \in Requests, Compensate(r) PROVE IInv'
  BY <1>8, CompensateKeeps
<1>9. CASE Edit \/ Decide \/ Drift \/ UNCHANGED vars
  BY <1>9, EnvironmentKeeps
<1> QED BY <1>1, <1>2, <1>3, <1>4, <1>5, <1>6, <1>7, <1>8, <1>9 DEF Next

LEMMA Invariant == Spec => []IInv
BY InitIInv, NextIInv, PTL DEF Spec

(* Record, ledger, callbacks and answers keep their types. *)
THEOREM TypeCorrect == Spec => []TypeOK
<1>1. IInv => TypeOK
  BY DEF IInv
<1> QED BY <1>1, Invariant, PTL

(* Under any number of callbacks, a confirmed effect is a committed one and no
   replay goes below the fence of its commit (_apply_once). *)
THEOREM FencedReplayCorrect == Spec => []FencedReplay
<1>1. IInv => FencedReplay
  BY DEF IInv, Answered, FencedReplay
<1> QED BY <1>1, Invariant, PTL

-----------------------------------------------------------------------------
(* No update overwrites an edit *)

(* Revision 0 is the planned record; a callback that got past its drift check saw
   revision 0 of an updated record, and one that has written keeps it there. *)
Pinned ==
  /\ record.modified = 0 => record = Planned
  /\ \A r \in Requests :
       /\ request[r].pc \in {"claimed", "unlocked", "written"} => request[r].phase = "apply"
       /\ action = "update" /\ request[r].pc # "idle" /\ request[r].phase = "apply" =>
            request[r].seen.record.modified = 0
       /\ action = "update" /\ request[r].pc = "written" => record = Planned

LEMMA InitPinned == Init => Pinned
BY DEF Init, Pinned, Idle

(* The callbacks other than r are as they were; the record is, or it has a new
   revision and nobody had written. *)
LEMMA PinnedKept ==
  ASSUME IInv, Pinned, NEW r \in Requests, \A q \in Requests \ {r} : request'[q] = request[q],
         request'[r].pc = "idle", UNCHANGED action,
         \/ record' = record
         \/ record'.modified = record.modified + 1 /\ \A q \in Requests \ {r} : request[q].pc # "written"
  PROVE  Pinned'
<1>1. record.modified \in Nat
  BY DEF IInv, TypeOK, Record
<1>2. record' # record => record'.modified # 0
  BY <1>1
<1>3. Planned' = Planned
  BY DEF Planned
<1> QED BY <1>2, <1>3 DEF Pinned

LEMMA PinnedMoves ==
  ASSUME IInv, Pinned, NEW r \in Requests, request[r].pc # "idle", request[r].phase = "apply",
         NEW pc \in {"claimed", "unlocked", "written"}, Move(r, pc),
         UNCHANGED <<action, record>>,
         action = "update" /\ pc = "written" => record = Planned
  PROVE  Pinned'
<1>1. request'[r] = [pc |-> pc, phase |-> request[r].phase, fence |-> request[r].fence,
                     seen |-> request[r].seen]
  BY DEF Move, IInv, TypeOK
<1>2. \A q \in Requests \ {r} : request'[q] = request[q]
  BY DEF Move, IInv, TypeOK
<1> QED BY <1>1, <1>2 DEF Pinned, Planned

LEMMA NextPinned == IInv /\ Pinned /\ [Next]_vars => Pinned'
<1> SUFFICES ASSUME IInv, Pinned, [Next]_vars PROVE Pinned'
  OBVIOUS
<1>1. ASSUME NEW r \in Requests, Receive(r) PROVE Pinned'
  <2>1. PICK phase \in {"apply", "compensate"}, f \in 1..MaxFence :
          /\ IF phase = "apply" THEN DataUnchanged ELSE record.modified < MaxEdits
          /\ request' = [request EXCEPT ![r] =
               [pc |-> "waiting", phase |-> phase, fence |-> f,
                seen |-> [record |-> record, ledger |-> ledger]]]
    BY <1>1 DEF Receive
  <2>2. /\ request'[r] = [pc |-> "waiting", phase |-> phase, fence |-> f,
                          seen |-> [record |-> record, ledger |-> ledger]]
        /\ \A q \in Requests \ {r} : request'[q] = request[q]
    BY <2>1 DEF IInv, TypeOK
  <2>3. action = "update" /\ phase = "apply" => record.modified = 0
    BY <2>1 DEF DataUnchanged, Planned
  <2>4. UNCHANGED <<action, record>>
    BY <1>1 DEF Receive
  <2> QED BY <2>2, <2>3, <2>4 DEF Pinned, Planned
<1>2. ASSUME NEW r \in Requests, Claim(r) \/ ClaimLapses(r) PROVE Pinned'
  <2>1. PICK pc \in {"claimed", "unlocked"} : Move(r, pc)
    BY <1>2 DEF Claim, ClaimLapses
  <2>2. request[r].pc # "idle" /\ request[r].phase = "apply" /\ UNCHANGED <<action, record>>
    BY <1>2 DEF Claim, ClaimLapses, Pinned
  <2> QED BY <2>1, <2>2, PinnedMoves
<1>3. ASSUME NEW r \in Requests,
             ClaimTimesOut(r) \/ Replay(r) \/ ExecuteFails(r) \/ Crash(r)
      PROVE  Pinned'
  <2>1. End(r) /\ UNCHANGED <<action, record>>
    BY <1>3 DEF ClaimTimesOut, Replay, ExecuteFails, Crash
  <2> QED BY <2>1, Ends, PinnedKept
<1>4. ASSUME NEW r \in Requests, Execute(r) PROVE Pinned'
  <2>1. request[r].pc # "idle" /\ request[r].phase = "apply" /\ Move(r, "written")
        /\ UNCHANGED <<action, record>>
    BY <1>4 DEF Execute, Pinned
  <2>2. action = "update" => record = Planned
    BY <1>4, <2>1 DEF Execute, Latest, Pinned
  <2> QED BY <2>1, <2>2, PinnedMoves
<1>5. ASSUME NEW r \in Requests, Commit(r) PROVE Pinned'
  <2>1. End(r) /\ record'.modified = record.modified + 1 /\ UNCHANGED action
    BY <1>5 DEF Commit
  <2>2. \A q \in Requests \ {r} : request[q].pc # "written"
    BY <1>5 DEF Commit, IInv, OneWriter
  <2> QED BY <2>1, <2>2, Ends, PinnedKept
<1>6. ASSUME NEW r \in Requests, Compensate(r) PROVE Pinned'
  <2>1. /\ End(r) /\ UNCHANGED action
        /\ record' = record \/ (RowsFree /\ record'.modified = record.modified + 1)
    BY <1>6 DEF Compensate
  <2> QED BY <2>1, Ends, PinnedKept DEF RowsFree
<1>7. CASE Edit
  <2>1. RowsFree /\ record'.modified = record.modified + 1 /\ UNCHANGED <<action, request>>
    BY <1>7 DEF Edit
  <2>2. record.modified \in Nat
    BY DEF IInv, TypeOK, Record
  <2> QED BY <2>1, <2>2 DEF Pinned, RowsFree
<1>8. CASE Decide \/ Drift \/ UNCHANGED vars
  BY <1>8 DEF Decide, Drift, vars, Pinned, Planned
<1> QED BY <1>1, <1>2, <1>3, <1>4, <1>5, <1>6, <1>7, <1>8 DEF Next

(* An update is committed over the revision it was planned for, whoever saves the
   record between a callback's snapshot and its commit (_check_concurrency,
   check_if_latest). *)
THEOREM PlannedRevision == Spec => PlannedRevisionOnly
<1>1. IInv /\ Pinned /\ [Next]_vars => (effects' # effects /\ action = "update" => record = Planned)
  <2> SUFFICES ASSUME Pinned, [Next]_vars, effects' # effects, action = "update"
               PROVE  record = Planned
    OBVIOUS
  <2>1. \E r \in Requests : Commit(r)
    BY DEF Next, vars, Receive, Claim, ClaimTimesOut, ClaimLapses, Replay, Execute, ExecuteFails,
           Compensate, Crash, Edit, Decide, Drift
  <2> QED BY <2>1 DEF Commit, Pinned
<1> QED BY <1>1, InitPinned, NextPinned, Invariant, PTL DEF Spec, PlannedRevisionOnly

-----------------------------------------------------------------------------
(* Refinement *)

LEMMA InitContract == Init => Contract!EffectInit
BY DEF Init, Contract!EffectInit

(* A commit performs the effect. *)
LEMMA CommitPerforms == ASSUME IInv, NEW r \in Requests, Commit(r) PROVE Contract!Perform
<1> DEFINE f == request[r].fence
           row == [fence |-> f, receipt |-> f]
<1>1. /\ f \in 1..MaxFence
      /\ effects = 0 /\ effects' = 1 /\ ledger' = {row} /\ answers' = {row}
  BY CommitStep
<1>2. {x.receipt : x \in ledger'} = {f} /\ {a.receipt : a \in answers'} = {f}
  BY <1>1
<1> QED BY <1>1, <1>2 DEF Contract!Perform

(* A replay confirms it, or is refused. *)
LEMMA ReplayConfirms ==
  ASSUME IInv, NEW r \in Requests, Replay(r)
  PROVE  Contract!Confirm \/ UNCHANGED Contract!effectVars
<1>1. UNCHANGED <<action, ledger, effects>>
  BY DEF Replay
<1>2. PICK row \in ledger :
        /\ ledger = {row}
        /\ \/ answers' = answers
           \/ answers' = answers \cup {[fence |-> request[r].fence, receipt |-> row.receipt]}
  BY ReplayAnswers
<1>3. CASE answers' = answers
  BY <1>1, <1>3 DEF Contract!effectVars
<1>4. CASE answers' = answers \cup {[fence |-> request[r].fence, receipt |-> row.receipt]}
  <2>1. {x.receipt : x \in ledger} = {row.receipt}
    BY <1>2
  <2>2. {a.receipt : a \in answers'} = {a.receipt : a \in answers} \cup {row.receipt}
    <3> DEFINE new == [fence |-> request[r].fence, receipt |-> row.receipt]
    <3>1. new.receipt = row.receipt
      OBVIOUS
    <3>2. answers' = answers \cup {new}
      BY <1>4
    <3> HIDE DEF new
    <3> QED BY <3>1, <3>2
  <2>3. effects = 1
    BY <1>2 DEF IInv, Once
  <2> QED BY <1>1, <2>1, <2>2, <2>3 DEF Contract!Confirm
<1> QED BY <1>2, <1>3, <1>4

LEMMA StepContract == IInv /\ [Next]_vars => [Contract!EffectNext]_Contract!effectVars
<1> SUFFICES ASSUME IInv, [Next]_vars
             PROVE  Contract!EffectNext \/ UNCHANGED Contract!effectVars
  OBVIOUS
<1>1. ASSUME NEW r \in Requests, Commit(r) PROVE Contract!EffectNext
  BY <1>1, CommitPerforms DEF Contract!EffectNext
<1>2. ASSUME NEW r \in Requests, Replay(r)
      PROVE  Contract!EffectNext \/ UNCHANGED Contract!effectVars
  BY <1>2, ReplayConfirms DEF Contract!EffectNext
<1>3. ASSUME UNCHANGED <<action, ledger, effects, answers>> PROVE UNCHANGED Contract!effectVars
  BY <1>3 DEF Contract!effectVars
<1>4. ASSUME NEW r \in Requests,
             Receive(r) \/ Claim(r) \/ ClaimTimesOut(r) \/ ClaimLapses(r) \/ Execute(r)
               \/ ExecuteFails(r) \/ Compensate(r) \/ Crash(r)
      PROVE  UNCHANGED <<action, ledger, effects, answers>>
  BY <1>4 DEF Receive, Claim, ClaimTimesOut, ClaimLapses, Execute, ExecuteFails, Compensate, Crash
<1>5. CASE Edit \/ Decide \/ Drift \/ UNCHANGED vars
  BY <1>3, <1>5 DEF Edit, Decide, Drift, vars
<1> QED BY <1>1, <1>2, <1>3, <1>4, <1>5 DEF Next

(* The callback implements the promise of EffectContract: one performance,
   atomic with its receipt, and no confirmation without it (_apply_once). *)
THEOREM Implements == Spec => ImplementsContract
BY InitContract, StepContract, Invariant, PTL DEF Spec, ImplementsContract, Contract!EffectSpec
=============================================================================
