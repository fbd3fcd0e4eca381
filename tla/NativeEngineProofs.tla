-------------------------- MODULE NativeEngineProofs --------------------------
(***************************************************************************)
(* Proofs about NativeEngine for any artifacts, manifests, keys and numbers  *)
(* of change sets, edits, faults and concurrent requests.                    *)
(***************************************************************************)
EXTENDS NativeEngine, SequenceTheorems, WellFoundedInduction, TLAPS

USE ChangesAssumption, SubsetsAssumption, SourcesAssumption, ExclusiveAssumption, BoundsAssumption

-----------------------------------------------------------------------------
(* Rows are of their kind: what is gone was written by nobody, a change set's plan has a row
   for each change, and what it registered undoes its changes. *)
RowSound(row, n) == (Gone(row) => row.by = 0) /\ row.by \in 0..n
SetSound(set) ==
  /\ Len(set.planned) = Len(Changes[set.source])
  /\ \A j \in DOMAIN set.inverses : set.inverses[j] \in Steps(set.source)

RowsSound ==
  /\ \A a \in Artifacts : RowSound(artifact[a], Len(sets))
  /\ \A c \in DOMAIN sets : SetSound(sets[c])

(* What a request sees of its own change set never changes. *)
SamePlanSeen(t) ==
  /\ t.cs \in DOMAIN sets /\ t.cs \in DOMAIN t.sets
  /\ t.sets[t.cs].source = sets[t.cs].source /\ t.sets[t.cs].planned = sets[t.cs].planned

Sound(t) ==
  /\ SamePlanSeen(t)
  /\ \A a \in Artifacts : RowSound(t.view[a], Len(sets))
  /\ \A j \in DOMAIN t.inverses : t.inverses[j] \in Steps(sets[t.cs].source)
  /\ t.pc = "locking" => t.wrote = {}
  /\ t.pc \in {"locking", "applying"} => t.next > 0
  /\ t.pc = "undoing" => t.next <= Len(t.inverses)
  /\ t.pc \in {"locking", "applying"} => ~t.failed
  /\ t.mode = "rollback" => t.pc # "applying"

(* Keys are taken in ascending order. *)
LockedInOrder(t) ==
  t.pc = "locking" =>
    /\ t.held \subseteq LocksOf(t)
    /\ \A l \in t.held, m \in LocksOf(t) \ t.held : l[2] < m[2]

(* What a request has written is its own or undone, and was written over the row that its
   plan was made over, or over what the change set had put there before. *)
OverPlan(a, c) ==
  \E i \in Steps(sets[c].source) :
    Target(sets[c].source, i) = a /\ SameRow(artifact[a], sets[c].planned[i])
WrittenOverPlan(t) ==
  \A a \in t.wrote :
    /\ t.view[a].by \in {0, t.cs}
    /\ t.pc = "applying" => t.view[a].by = t.cs
    /\ t.view[a].by = t.cs => artifact[a].by = t.cs \/ OverPlan(a, t.cs)

WroteApart ==
  \A r, q \in Requests : Busy(r) /\ Busy(q) /\ r # q => request[r].wrote \cap request[q].wrote = {}

-----------------------------------------------------------------------------
(* Who answers for an effect, if requests on one change set exclude each other. *)

(* The artifacts the first n registered inverses undo. *)
Registered(s, inverses, n, a) == \E j \in 1..n : Target(s, inverses[j]) = a

OneEach ==
  \A r, q \in Requests : Busy(r) /\ Busy(q) /\ r # q => request[r].cs # request[q].cs

(* An effect of its change set that a request has not overwritten is as the request sees it. *)
EffectsSeen(t) ==
  \A a \in Artifacts \ t.wrote : artifact[a].by = t.cs => t.view[a] = artifact[a]

(* Every effect a request sees has its inverse among those still to be gone through, but
   for the repairs that failed. *)
EffectsRegistered(t) ==
  \A a \in Artifacts :
    LET s == sets[t.cs].source IN
    /\ t.view[a].by = t.cs => Registered(s, t.inverses, Len(t.inverses), a)
    /\ t.pc = "undoing" /\ ~t.failed /\ t.view[a].by = t.cs => Registered(s, t.inverses, t.next, a)
    /\ t.pc = "applying" /\ artifact[a].by = t.cs => Registered(s, t.inverses, Len(t.inverses), a)

(* The status a request has found and written, by what it has come to. *)
Answering == {"Applying", "Verified", "NeedsIntervention"}
StatusSeen(t) == LET status == sets[t.cs].status IN
  /\ t.mode = "apply" /\ t.pc = "locking" =>
       /\ status = "Approved" /\ ~t.dirty
       /\ \A a \in Artifacts : t.view[a].by # t.cs
  /\ t.mode = "apply" => status \in {"Approved", "Applying"}
  /\ t.mode = "rollback" => status = "Verified"
  /\ t.mode = "rollback" /\ t.pc # "finished" =>
       t.inverses = sets[t.cs].inverses /\ ~t.dirty
  /\ t.mode = "apply" /\ t.pc \in {"applying", "undoing"} => t.status = "Applying"
  /\ t.pc = "applying" => t.dirty \/ status \in Answering
  /\ t.pc = "finished" =>
       /\ t.dirty /\ t.status \in {"Verified", "Repaired", "NeedsIntervention"}
       /\ t.status = "Repaired" => \A a \in Artifacts : t.view[a].by # t.cs
  /\ \A a \in t.wrote : t.view[a].by = t.cs => t.dirty \/ status \in Answering

EffectsAnswered ==
  \A a \in Artifacts : artifact[a].by # 0 => sets[artifact[a].by].status \in Answering

(* A verified change set can undo every effect it still has. *)
VerifiedCanUndo ==
  \A c \in DOMAIN sets : sets[c].status = "Verified" =>
    \A a \in Artifacts : artifact[a].by = c =>
      Registered(sets[c].source, sets[c].inverses, Len(sets[c].inverses), a)

TxInv(t) == Sound(t) /\ LockedInOrder(t) /\ WrittenOverPlan(t)
TxAnswers(t) == EffectsSeen(t) /\ EffectsRegistered(t) /\ StatusSeen(t)

Inv == TypeOK /\ RowsSound /\ WroteApart /\ \A r \in Requests : Busy(r) => TxInv(request[r])
Answers ==
  Exclusive => /\ OneEach /\ EffectsAnswered /\ VerifiedCanUndo
               /\ \A r \in Requests : Busy(r) => TxAnswers(request[r])

IInv == Inv /\ Answers
-----------------------------------------------------------------------------
(* Lemmas about the data *)

LEMMA NatMin ==
  ASSUME NEW T, T \subseteq Nat, T # {}
  PROVE  \E x \in T : \A y \in T : x <= y
<1>1. IsWellFoundedOn(OpToRel(<, Nat), Nat)
  BY NatLessThanWellFounded
<1>2. PICK x \in T : \A y \in T : ~(<<y, x>> \in OpToRel(<, Nat))
  BY <1>1, WFMin
<1>3. ASSUME NEW y \in T PROVE x <= y
  <2>1. ~(y < x)
    BY <1>2 DEF OpToRel
  <2> QED BY <2>1
<1> QED BY <1>3

LEMMA TxFields ==
  ASSUME NEW t \in Transaction
  PROVE  /\ t.pc \in {"locking", "applying", "undoing", "finished"} /\ t.mode \in {"apply", "rollback"}
         /\ t.cs \in Nat /\ t.held \in SUBSET Locks
         /\ t.view \in [Artifacts -> ArtifactRow] /\ t.wrote \in SUBSET Artifacts
         /\ t.sets \in Seq(SetRow) /\ t.status \in SetStatus /\ t.dirty \in BOOLEAN
         /\ t.receipts \in SUBSET Nat /\ t.inverses \in Seq(Nat) /\ t.next \in Nat
         /\ t.failed \in BOOLEAN /\ t # Idle
<1>1. t.pc \in {"locking", "applying", "undoing", "finished"}
  BY DEF Transaction
<1>2. t # Idle
  BY <1>1 DEF Idle
<1> QED BY <1>1, <1>2 DEF Transaction

LEMMA BusyTx ==
  ASSUME TypeOK, NEW r \in Requests
  PROVE  /\ Busy(r) <=> request[r] \in Transaction
         /\ ~Busy(r) => request[r] = Idle
<1>1. request[r] = Idle \/ request[r] \in Transaction
  BY DEF TypeOK
<1>2. Idle.pc = "idle"
  BY DEF Idle
<1>3. \A t \in Transaction : t.pc # "idle"
  BY TxFields
<1> QED BY <1>1, <1>2, <1>3 DEF Busy

LEMMA SetFields ==
  ASSUME NEW set \in SetRow
  PROVE  /\ set.source \in Sources /\ set.planned \in Seq(ArtifactRow) /\ set.status \in SetStatus
         /\ set.receipts \in SUBSET Nat /\ set.inverses \in Seq(Nat)
BY DEF SetRow

LEMMA RowFields ==
  ASSUME NEW row \in ArtifactRow
  PROVE  row.content \in {"absent", "user"} \cup Sources /\ row.rev \in Nat /\ row.by \in Nat
BY DEF ArtifactRow

LEMMA ChangeFields ==
  ASSUME NEW s \in Sources
  PROVE  /\ Steps(s) = 1..Len(Changes[s]) /\ Len(Changes[s]) \in Nat
         /\ \A i \in Steps(s) : Target(s, i) \in Artifacts /\ Key(s, i) \in Nat
<1> DEFINE Change == [target : Artifacts, key : Nat]
<1>1. PICK seq \in Seq(Change) : seq = Changes[s]
  BY ChangesAssumption
<1>2. \A i \in 1..Len(seq) : seq[i] \in Change
  BY <1>1, ElementOfSeq
<1>3. \A ch \in Change : ch.target \in Artifacts /\ ch.key \in Nat
  OBVIOUS
<1>4. DOMAIN seq = 1..Len(seq) /\ Len(seq) \in Nat
  BY <1>1
<1> QED BY <1>1, <1>2, <1>3, <1>4 DEF Steps, Target, Key

LEMMA SameRowTransitive ==
  ASSUME NEW x, NEW y, NEW z, SameRow(x, y), SameRow(y, z)
  PROVE  SameRow(x, z)
BY DEF SameRow, Gone

(* The row and plan of a request's own change set. *)
LEMMA OwnSet ==
  ASSUME TypeOK, NEW t \in Transaction, SamePlanSeen(t)
  PROVE  /\ t.cs \in 1..Len(sets) /\ sets[t.cs] \in SetRow /\ t.sets[t.cs] \in SetRow
         /\ Source(t) = sets[t.cs].source /\ Plan(t).planned = sets[t.cs].planned
         /\ Source(t) \in Sources /\ t.cs # 0
<1>1. sets \in Seq(SetRow) /\ t.sets \in Seq(SetRow)
  BY TxFields DEF TypeOK
<1>2. t.cs \in 1..Len(sets) /\ t.cs \in 1..Len(t.sets)
  BY <1>1 DEF SamePlanSeen
<1>3. sets[t.cs] \in SetRow /\ t.sets[t.cs] \in SetRow
  BY <1>1, <1>2
<1> QED BY <1>2, <1>3, SetFields DEF SamePlanSeen, Source, Plan

-----------------------------------------------------------------------------
(* Steps of a request that change nothing committed *)

(* What request r may go on as. *)
MayBe(r, t) ==
  /\ TxInv(t)
  /\ \A q \in Requests \ {r} : Busy(q) => request[q].wrote \cap t.wrote = {}
  /\ Exclusive => /\ TxAnswers(t)
                  /\ \A q \in Requests \ {r} : Busy(q) => request[q].cs # t.cs

Bounded == edits' \in 0..MaxEdits /\ faults' \in 0..MaxFaults

LEMMA StepKeeps ==
  ASSUME IInv, NEW r \in Requests, NEW t \in Transaction, MayBe(r, t), Step(r, t), Bounded
  PROVE  IInv'
<1>1. /\ request' = [request EXCEPT ![r] = t] /\ request \in [Requests -> {Idle} \cup Transaction]
      /\ UNCHANGED <<artifact, sets>>
  BY DEF Step, IInv, Inv, TypeOK
<1>2. request'[r] = t /\ \A q \in Requests \ {r} : request'[q] = request[q]
  BY <1>1
<1>3. TypeOK'
  BY <1>1 DEF IInv, Inv, TypeOK, Bounded
<1>4. \A q \in Requests : Busy(q)' <=> q = r \/ Busy(q)
  BY <1>2, TxFields DEF Busy
<1>5. ASSUME NEW u PROVE (TxInv(u) => TxInv(u)') /\ (TxAnswers(u) => TxAnswers(u)')
  BY <1>1 DEF TxInv, Sound, SamePlanSeen, LockedInOrder, WrittenOverPlan, OverPlan, TxAnswers,
              EffectsSeen, EffectsRegistered, StatusSeen
<1>6. Inv'
  <2>1. RowsSound'
    BY <1>1 DEF IInv, Inv, RowsSound
  <2>2. WroteApart'
    BY <1>2, <1>4 DEF IInv, Inv, WroteApart, MayBe
  <2>3. ASSUME NEW q \in Requests, Busy(q)' PROVE TxInv(request[q])'
    <3>1. PICK u : u = request'[q] /\ TxInv(u)
      BY <1>2, <1>4, <2>3 DEF IInv, Inv, MayBe
    <3> QED BY <3>1, <1>5
  <2> QED BY <1>3, <2>1, <2>2, <2>3 DEF Inv
<1>7. Answers'
  <2> SUFFICES ASSUME Exclusive PROVE Answers'
    BY DEF Answers
  <2>1. OneEach'
    BY <1>2, <1>4 DEF IInv, Answers, OneEach, MayBe
  <2>2. EffectsAnswered' /\ VerifiedCanUndo'
    BY <1>1 DEF IInv, Answers, EffectsAnswered, VerifiedCanUndo
  <2>3. ASSUME NEW q \in Requests, Busy(q)' PROVE TxAnswers(request[q])'
    <3>1. PICK u : u = request'[q] /\ TxAnswers(u)
      BY <1>2, <1>4, <2>3 DEF IInv, Answers, MayBe
    <3> QED BY <3>1, <1>5
  <2> QED BY <2>1, <2>2, <2>3 DEF Answers
<1> QED BY <1>6, <1>7 DEF IInv

LEMMA EndKeeps ==
  ASSUME IInv, NEW r \in Requests, End(r), Bounded
  PROVE  IInv'
<1>1. /\ request' = [request EXCEPT ![r] = Idle] /\ request \in [Requests -> {Idle} \cup Transaction]
      /\ UNCHANGED <<artifact, sets>>
  BY DEF End, Step, IInv, Inv, TypeOK
<1>2. request'[r] = Idle /\ \A q \in Requests \ {r} : request'[q] = request[q]
  BY <1>1
<1>3. TypeOK'
  BY <1>1 DEF IInv, Inv, TypeOK, Bounded
<1>4. \A q \in Requests : Busy(q)' <=> q # r /\ Busy(q)
  BY <1>2 DEF Busy, Idle
<1>5. ASSUME NEW u PROVE (TxInv(u) => TxInv(u)') /\ (TxAnswers(u) => TxAnswers(u)')
  BY <1>1 DEF TxInv, Sound, SamePlanSeen, LockedInOrder, WrittenOverPlan, OverPlan, TxAnswers,
              EffectsSeen, EffectsRegistered, StatusSeen
<1>6. Inv'
  <2>1. RowsSound'
    BY <1>1 DEF IInv, Inv, RowsSound
  <2>2. WroteApart'
    BY <1>2, <1>4 DEF IInv, Inv, WroteApart
  <2>3. ASSUME NEW q \in Requests, Busy(q)' PROVE TxInv(request[q])'
    <3>1. PICK u : u = request'[q] /\ TxInv(u)
      BY <1>2, <1>4, <2>3 DEF IInv, Inv
    <3> QED BY <3>1, <1>5
  <2> QED BY <1>3, <2>1, <2>2, <2>3 DEF Inv
<1>7. Answers'
  <2> SUFFICES ASSUME Exclusive PROVE Answers'
    BY DEF Answers
  <2>1. OneEach'
    BY <1>2, <1>4 DEF IInv, Answers, OneEach
  <2>2. EffectsAnswered' /\ VerifiedCanUndo'
    BY <1>1 DEF IInv, Answers, EffectsAnswered, VerifiedCanUndo
  <2>3. ASSUME NEW q \in Requests, Busy(q)' PROVE TxAnswers(request[q])'
    <3>1. PICK u : u = request'[q] /\ TxAnswers(u)
      BY <1>2, <1>4, <2>3 DEF IInv, Answers
    <3> QED BY <3>1, <1>5
  <2> QED BY <2>1, <2>2, <2>3 DEF Answers
<1> QED BY <1>6, <1>7 DEF IInv

-----------------------------------------------------------------------------
(* Steps of a request that commit what it has written *)

Commits(r, t) == artifact' = Merged(t) /\ sets' = MergedSets(r, t)

(* The row a change set is left with. *)
LEMMA SetsMerged ==
  ASSUME TypeOK, NEW r \in Requests, NEW t \in Transaction, SamePlanSeen(t),
         request[r] \in Transaction, sets' = MergedSets(r, t)
  PROVE  /\ sets' \in Seq(SetRow) /\ Len(sets') = Len(sets) /\ DOMAIN sets' = DOMAIN sets
         /\ \A c \in DOMAIN sets : c # t.cs => sets'[c] = sets[c]
         /\ sets'[t.cs].source = sets[t.cs].source /\ sets'[t.cs].planned = sets[t.cs].planned
         /\ sets'[t.cs].status = IF t.dirty THEN t.status ELSE sets[t.cs].status
         /\ sets'[t.cs].inverses = IF t.pc = "finished" THEN t.inverses ELSE sets[t.cs].inverses
         /\ sets'[t.cs].receipts = sets[t.cs].receipts \cup request[r].receipts
<1>1. sets \in Seq(SetRow) /\ t.cs \in 1..Len(sets) /\ sets[t.cs] \in SetRow
  BY OwnSet DEF TypeOK
<1>2. PICK old \in SetRow : old = sets[t.cs]
  BY <1>1
<1>3. PICK receipts \in SUBSET Nat : receipts = old.receipts \cup request[r].receipts
  BY <1>2, TxFields, SetFields
<1>4. PICK status \in SetStatus : status = IF t.dirty THEN t.status ELSE old.status
  BY <1>2, TxFields, SetFields
<1>5. PICK inverses \in Seq(Nat) : inverses = IF t.pc = "finished" THEN t.inverses ELSE old.inverses
  BY <1>2, TxFields, SetFields
<1> DEFINE new == [source |-> old.source, planned |-> old.planned, status |-> status,
                   receipts |-> receipts, inverses |-> inverses]
<1>6. new \in SetRow
  BY SetFields DEF SetRow
<1>7. PICK row \in SetRow : row = new
  BY <1>6
<1>8. sets' = [sets EXCEPT ![t.cs] = row]
  BY <1>2, <1>3, <1>4, <1>5, <1>7 DEF MergedSets
<1>9. /\ sets' \in Seq(SetRow) /\ Len(sets') = Len(sets)
      /\ \A c \in 1..Len(sets) : sets'[c] = IF c = t.cs THEN row ELSE sets[c]
  BY <1>1, <1>8, ExceptSeq
<1>10. DOMAIN sets = 1..Len(sets) /\ DOMAIN sets' = 1..Len(sets')
  BY <1>1, <1>9
<1> QED BY <1>1, <1>2, <1>3, <1>4, <1>5, <1>7, <1>9, <1>10

LEMMA ArtifactsMerged ==
  ASSUME TypeOK, NEW t \in Transaction, artifact' = Merged(t)
  PROVE  /\ artifact' \in [Artifacts -> ArtifactRow]
         /\ \A a \in Artifacts : artifact'[a] = IF a \in t.wrote THEN t.view[a] ELSE artifact[a]
BY TxFields DEF TypeOK, Merged

(* An effect that remains is one the request sees, and its change set says so. *)
LEMMA Remaining ==
  ASSUME IInv, Exclusive, NEW r \in Requests, NEW t \in Transaction, MayBe(r, t),
         request[r] \in Transaction, Commits(r, t), NEW a \in Artifacts, artifact'[a].by = t.cs
  PROVE  /\ t.view[a].by = t.cs /\ sets'[t.cs].status \in Answering
         /\ t.pc # "finished" => sets'[t.cs].inverses = sets[t.cs].inverses
<1>1. TypeOK /\ SamePlanSeen(t) /\ t.cs # 0 /\ WrittenOverPlan(t) /\ EffectsSeen(t) /\ StatusSeen(t)
  BY OwnSet DEF IInv, Inv, MayBe, TxInv, TxAnswers, Sound
<1>2. /\ artifact'[a] = IF a \in t.wrote THEN t.view[a] ELSE artifact[a]
      /\ sets'[t.cs].status = IF t.dirty THEN t.status ELSE sets[t.cs].status
      /\ sets'[t.cs].inverses = IF t.pc = "finished" THEN t.inverses ELSE sets[t.cs].inverses
  BY <1>1, ArtifactsMerged, SetsMerged DEF Commits
<1>3. t.view[a].by = t.cs
  BY <1>1, <1>2 DEF EffectsSeen
<1>4. t.dirty \/ sets[t.cs].status \in Answering
  BY <1>1, <1>2, <1>3 DEF StatusSeen, IInv, Answers, EffectsAnswered
<1>5. t.dirty => t.status \in Answering
  <2>1. /\ t.pc \in {"locking", "applying", "undoing", "finished"} /\ t.mode \in {"apply", "rollback"}
    BY TxFields
  <2> QED BY <1>1, <1>3, <2>1 DEF StatusSeen, Answering
<1> QED BY <1>2, <1>3, <1>4, <1>5

(* A commit leaves the other requests as they were. *)
LEMMA OthersKept ==
  ASSUME IInv, NEW r \in Requests, NEW t \in Transaction, MayBe(r, t), request[r] \in Transaction,
         Commits(r, t), NEW q \in Requests \ {r}, Busy(q), NEW u, u = request[q]
  PROVE  TxInv(u)' /\ (Exclusive => TxAnswers(u)')
<1>1. TypeOK /\ TxInv(u) /\ u \in Transaction /\ SamePlanSeen(u) /\ u.cs # 0 /\ u.cs \in DOMAIN sets
  BY OwnSet, BusyTx DEF IInv, Inv, TxInv, Sound, SamePlanSeen
<1>2. TypeOK /\ SamePlanSeen(t) /\ WrittenOverPlan(t) /\ u.wrote \cap t.wrote = {} /\ t.cs # 0
  BY OwnSet DEF IInv, Inv, MayBe, TxInv, Sound
<1>3. /\ DOMAIN sets' = DOMAIN sets /\ Len(sets') = Len(sets)
      /\ \A c \in DOMAIN sets : c # t.cs => sets'[c] = sets[c]
      /\ sets'[t.cs].source = sets[t.cs].source /\ sets'[t.cs].planned = sets[t.cs].planned
  BY <1>2, SetsMerged DEF Commits
<1>4. \A a \in Artifacts : artifact'[a] = IF a \in t.wrote THEN t.view[a] ELSE artifact[a]
  BY <1>2, ArtifactsMerged DEF Commits
<1>5. \A c \in DOMAIN sets : sets'[c].source = sets[c].source /\ sets'[c].planned = sets[c].planned
  BY <1>3
<1>6. u.wrote \subseteq Artifacts /\ t.wrote \subseteq Artifacts
  BY <1>1, TxFields
<1>7. TxInv(u)'
  <2>1. Sound(u)'
    BY <1>1, <1>3, <1>5 DEF TxInv, Sound, SamePlanSeen
  <2>2. LockedInOrder(u)'
    BY <1>1 DEF TxInv, LockedInOrder
  <2>3. \A a \in u.wrote : artifact'[a] = artifact[a]
    BY <1>2, <1>4, <1>6
  <2>4. sets'[u.cs].source = sets[u.cs].source /\ sets'[u.cs].planned = sets[u.cs].planned
    BY <1>1, <1>5
  <2>5. WrittenOverPlan(u)'
    BY <1>1, <2>3, <2>4 DEF TxInv, WrittenOverPlan, OverPlan
  <2> QED BY <2>1, <2>2, <2>5 DEF TxInv
<1>8. ASSUME Exclusive PROVE TxAnswers(u)'
  <2>1. TxAnswers(u) /\ u.cs # t.cs
    BY <1>8 DEF IInv, Answers, MayBe
  <2>2. \A a \in Artifacts : artifact'[a].by = u.cs => artifact'[a] = artifact[a]
    BY <1>1, <1>2, <1>4, <2>1 DEF WrittenOverPlan
  <2>3. sets'[u.cs] = sets[u.cs]
    BY <1>1, <1>3, <2>1
  <2>4. EffectsSeen(u)' /\ EffectsRegistered(u)'
    BY <2>1, <2>2, <2>3 DEF TxAnswers, EffectsSeen, EffectsRegistered
  <2>5. StatusSeen(u)'
    BY <2>1, <2>3 DEF TxAnswers, StatusSeen
  <2> QED BY <2>4, <2>5 DEF TxAnswers
<1> QED BY <1>7, <1>8

(* What is committed is as sound as what was. *)
LEMMA CommittedRows ==
  ASSUME IInv, NEW r \in Requests, NEW t \in Transaction, MayBe(r, t), request[r] \in Transaction,
         Commits(r, t)
  PROVE  /\ artifact' \in [Artifacts -> ArtifactRow] /\ sets' \in Seq(SetRow)
         /\ RowsSound' /\ (Exclusive => EffectsAnswered' /\ VerifiedCanUndo')
<1>1. TypeOK /\ SamePlanSeen(t) /\ WrittenOverPlan(t) /\ Sound(t) /\ t.cs # 0 /\ t.cs \in DOMAIN sets
  BY OwnSet DEF IInv, Inv, MayBe, TxInv, Sound, SamePlanSeen
<1>2. /\ sets' \in Seq(SetRow) /\ DOMAIN sets' = DOMAIN sets /\ Len(sets') = Len(sets)
      /\ \A c \in DOMAIN sets : c # t.cs => sets'[c] = sets[c]
      /\ sets'[t.cs].source = sets[t.cs].source /\ sets'[t.cs].planned = sets[t.cs].planned
      /\ sets'[t.cs].status = IF t.dirty THEN t.status ELSE sets[t.cs].status
      /\ sets'[t.cs].inverses = IF t.pc = "finished" THEN t.inverses ELSE sets[t.cs].inverses
  BY <1>1, SetsMerged DEF Commits
<1>3. /\ artifact' \in [Artifacts -> ArtifactRow]
      /\ \A a \in Artifacts : artifact'[a] = IF a \in t.wrote THEN t.view[a] ELSE artifact[a]
  BY <1>1, ArtifactsMerged DEF Commits
<1>4. RowsSound'
  <2>1. \A a \in Artifacts : RowSound(artifact'[a], Len(sets'))
    BY <1>1, <1>2, <1>3 DEF Sound, IInv, Inv, RowsSound
  <2>2. SetSound(sets'[t.cs])
    BY <1>1, <1>2 DEF Sound, IInv, Inv, RowsSound, SetSound
  <2>3. \A c \in DOMAIN sets : SetSound(sets'[c])
    BY <1>2, <2>2 DEF IInv, Inv, RowsSound
  <2> QED BY <1>2, <2>1, <2>3 DEF RowsSound, RowSound, SetSound
<1>5. ASSUME Exclusive PROVE EffectsAnswered' /\ VerifiedCanUndo'
  <2>1. TxAnswers(t) /\ EffectsAnswered /\ VerifiedCanUndo
    BY <1>5 DEF IInv, Answers, MayBe
  <2>2. \A a \in Artifacts : artifact'[a].by = t.cs =>
          /\ t.view[a].by = t.cs /\ sets'[t.cs].status \in Answering
          /\ t.pc # "finished" => sets'[t.cs].inverses = sets[t.cs].inverses
    BY <1>5, Remaining
  <2>3. \A a \in Artifacts : artifact'[a].by \notin {0, t.cs} => artifact'[a] = artifact[a]
    BY <1>1, <1>3 DEF WrittenOverPlan
  <2>4. \A a \in Artifacts : artifact[a].by # 0 => artifact[a].by \in DOMAIN sets
    <3>1. \A a \in Artifacts : artifact[a].by \in 0..Len(sets)
      BY DEF IInv, Inv, RowsSound, RowSound
    <3>2. DOMAIN sets = 1..Len(sets) /\ Len(sets) \in Nat
      BY DEF IInv, Inv, TypeOK
    <3> QED BY <3>1, <3>2
  <2>5. EffectsAnswered'
    <3> SUFFICES ASSUME NEW a \in Artifacts, artifact'[a].by # 0
                 PROVE  sets'[artifact'[a].by].status \in Answering
      BY DEF EffectsAnswered
    <3>1. CASE artifact'[a].by = t.cs
      BY <2>2, <3>1
    <3>2. CASE artifact'[a].by # t.cs
      BY <1>2, <2>1, <2>3, <2>4, <3>2 DEF EffectsAnswered
    <3> QED BY <3>1, <3>2
  <2>6. ASSUME NEW c \in DOMAIN sets, sets'[c].status = "Verified",
               NEW a \in Artifacts, artifact'[a].by = c
        PROVE  Registered(sets'[c].source, sets'[c].inverses, Len(sets'[c].inverses), a)
    <3>1. CASE c # t.cs
      <4>1. sets'[c] = sets[c] /\ artifact'[a] = artifact[a]
        <5>1. c # 0
          BY DEF IInv, Inv, TypeOK
        <5> QED BY <1>2, <2>3, <2>6, <3>1, <5>1
      <4> QED BY <2>1, <2>6, <4>1 DEF VerifiedCanUndo
    <3>2. CASE c = t.cs
      <4>1. t.view[a].by = t.cs
        BY <2>2, <2>6, <3>2
      <4>2. Registered(sets[c].source, t.inverses, Len(t.inverses), a)
        BY <2>1, <4>1, <3>2 DEF TxAnswers, EffectsRegistered
      <4>3. sets'[c].inverses = t.inverses
        <5>1. /\ t.pc \in {"locking", "applying", "undoing", "finished"}
              /\ t.mode \in {"apply", "rollback"}
          BY TxFields
        <5> QED BY <1>2, <2>1, <2>6, <3>2, <5>1 DEF TxAnswers, StatusSeen
      <4> QED BY <1>2, <3>2, <4>2, <4>3
    <3> QED BY <3>1, <3>2
  <2> QED BY <1>2, <2>5, <2>6 DEF VerifiedCanUndo
<1> QED BY <1>2, <1>3, <1>4, <1>5

(* Request r commits as t and returns. *)
LEMMA ReturnKeeps ==
  ASSUME IInv, NEW r \in Requests, NEW t \in Transaction, MayBe(r, t), request[r] \in Transaction,
         Commits(r, t), request' = [request EXCEPT ![r] = Idle], Bounded
  PROVE  IInv'
<1>1. request \in [Requests -> {Idle} \cup Transaction]
  BY DEF IInv, Inv, TypeOK
<1>2. request'[r] = Idle /\ \A q \in Requests \ {r} : request'[q] = request[q]
  BY <1>1
<1>3. \A q \in Requests : Busy(q)' <=> q # r /\ Busy(q)
  BY <1>2 DEF Busy, Idle
<1>4. TypeOK'
  BY <1>1, CommittedRows DEF TypeOK, Bounded
<1>5. ASSUME NEW q \in Requests, Busy(q)'
      PROVE  TxInv(request[q])' /\ (Exclusive => TxAnswers(request[q])')
  <2>1. PICK u : u = request[q]
    OBVIOUS
  <2>2. TxInv(u)' /\ (Exclusive => TxAnswers(u)')
    BY <1>3, <1>5, <2>1, OthersKept
  <2>3. u = request'[q]
    BY <1>2, <1>3, <1>5, <2>1
  <2> QED BY <2>2, <2>3
<1>6. Inv'
  <2>1. WroteApart'
    BY <1>2, <1>3 DEF IInv, Inv, WroteApart
  <2> QED BY <1>4, <1>5, <2>1, CommittedRows DEF Inv
<1>7. Answers'
  <2>1. Exclusive => OneEach'
    BY <1>2, <1>3 DEF IInv, Answers, OneEach
  <2> QED BY <1>5, <2>1, CommittedRows DEF Answers
<1> QED BY <1>6, <1>7 DEF IInv

(* Request r commits as t and goes on. *)
Carried(r, t) ==
  [t EXCEPT !.view = Merged(t), !.sets = MergedSets(r, t), !.wrote = {}, !.dirty = FALSE]

LEMMA CarriedIs ==
  ASSUME IInv, NEW r \in Requests, NEW t \in Transaction, MayBe(r, t), request[r] \in Transaction,
         Commits(r, t), t.pc \in {"applying", "undoing"}, NEW u, u = Carried(r, t)
  PROVE  u \in Transaction /\ TxInv(u)' /\ (Exclusive => TxAnswers(u)')
<1>1. TypeOK /\ SamePlanSeen(t) /\ WrittenOverPlan(t) /\ Sound(t) /\ t.cs # 0 /\ t.cs \in DOMAIN sets
  BY OwnSet DEF IInv, Inv, MayBe, TxInv, Sound, SamePlanSeen
<1>2. /\ sets' \in Seq(SetRow) /\ DOMAIN sets' = DOMAIN sets /\ Len(sets') = Len(sets)
      /\ sets'[t.cs].source = sets[t.cs].source /\ sets'[t.cs].planned = sets[t.cs].planned
      /\ sets'[t.cs].status = IF t.dirty THEN t.status ELSE sets[t.cs].status
      /\ sets'[t.cs].inverses = IF t.pc = "finished" THEN t.inverses ELSE sets[t.cs].inverses
  BY <1>1, SetsMerged DEF Commits
<1>3. artifact' \in [Artifacts -> ArtifactRow] /\ RowsSound'
  BY CommittedRows
<1>4. u = [t EXCEPT !.view = artifact', !.sets = sets', !.wrote = {}, !.dirty = FALSE]
  BY DEF Commits, Carried
<1>5. u \in Transaction
  BY ZenonT(30), <1>2, <1>3, <1>4 DEF Transaction
<1>6. /\ u.pc = t.pc /\ u.mode = t.mode /\ u.cs = t.cs /\ u.view = artifact' /\ u.wrote = {}
      /\ u.sets = sets' /\ u.status = t.status /\ u.dirty = FALSE /\ u.inverses = t.inverses
      /\ u.next = t.next /\ u.failed = t.failed
  BY <1>4 DEF Transaction
<1>7. TxInv(u)'
  <2>1. SamePlanSeen(u)'
    BY <1>1, <1>2, <1>6 DEF SamePlanSeen
  <2>2. Sound(u)'
    BY <1>1, <1>2, <1>3, <1>6, <2>1 DEF Sound, RowsSound
  <2> QED BY <1>6, <2>2 DEF TxInv, LockedInOrder, WrittenOverPlan
<1>8. ASSUME Exclusive PROVE TxAnswers(u)'
  <2>1. TxAnswers(t)
    BY <1>8 DEF MayBe
  <2>2. \A a \in Artifacts : artifact'[a].by = t.cs => t.view[a].by = t.cs
    BY <1>8, Remaining
  <2>3. EffectsSeen(u)'
    BY <1>6 DEF EffectsSeen
  <2>4. EffectsRegistered(u)'
    BY <1>2, <1>6, <2>1, <2>2 DEF TxAnswers, EffectsRegistered
  <2>5. StatusSeen(u)'
    BY <1>2, <1>6, <2>1, TxFields DEF TxAnswers, StatusSeen, Answering
  <2> QED BY <2>3, <2>4, <2>5 DEF TxAnswers
<1> QED BY <1>5, <1>7, <1>8

LEMMA CarryKeeps ==
  ASSUME IInv, NEW r \in Requests, NEW t \in Transaction, MayBe(r, t), request[r] \in Transaction,
         Commits(r, t), t.pc \in {"applying", "undoing"},
         request' = [request EXCEPT ![r] = Carried(r, t)], Bounded
  PROVE  IInv'
<1>1. request \in [Requests -> {Idle} \cup Transaction]
  BY DEF IInv, Inv, TypeOK
<1>2. PICK u : u = Carried(r, t)
  OBVIOUS
<1>3. u \in Transaction /\ TxInv(u)' /\ (Exclusive => TxAnswers(u)')
  BY <1>2, CarriedIs
<1>4. request'[r] = u /\ \A q \in Requests \ {r} : request'[q] = request[q]
  BY <1>1, <1>2
<1>5. u.wrote = {} /\ u.cs = t.cs
  BY <1>2 DEF Carried, Transaction
<1>6. \A q \in Requests : Busy(q)' <=> q = r \/ Busy(q)
  BY <1>3, <1>4, TxFields DEF Busy
<1>7. TypeOK'
  <2>1. request' \in [Requests -> {Idle} \cup Transaction]
    BY <1>1, <1>2, <1>3
  <2> QED BY <2>1, CommittedRows DEF TypeOK, Bounded
<1>8. ASSUME NEW q \in Requests, Busy(q)'
      PROVE  TxInv(request[q])' /\ (Exclusive => TxAnswers(request[q])')
  <2>1. CASE q = r
    BY <1>3, <1>4, <2>1
  <2>2. CASE q # r
    <3>1. PICK v : v = request[q]
      OBVIOUS
    <3>2. TxInv(v)' /\ (Exclusive => TxAnswers(v)')
      BY <1>6, <1>8, <2>2, <3>1, OthersKept
    <3>3. v = request'[q]
      BY <1>4, <2>2, <3>1
    <3> QED BY <3>2, <3>3
  <2> QED BY <2>1, <2>2
<1>9. Inv'
  <2>1. WroteApart'
    BY <1>4, <1>5, <1>6 DEF IInv, Inv, WroteApart
  <2> QED BY <1>7, <1>8, <2>1, CommittedRows DEF Inv
<1>10. Answers'
  <2>1. Exclusive => OneEach'
    BY <1>4, <1>5, <1>6 DEF IInv, Answers, OneEach, MayBe
  <2> QED BY <1>8, <2>1, CommittedRows DEF Answers
<1> QED BY <1>9, <1>10 DEF IInv

-----------------------------------------------------------------------------
(* What each step makes of a request *)

LEMMA OwnMayBe ==
  ASSUME IInv, NEW r \in Requests, Busy(r)
  PROVE  /\ request[r] \in Transaction /\ MayBe(r, request[r]) /\ TypeOK
         /\ SamePlanSeen(request[r])
<1>1. request[r] \in Transaction /\ TxInv(request[r]) /\ TypeOK
  BY BusyTx DEF IInv, Inv
<1>2. \A q \in Requests \ {r} : Busy(q) => request[q].wrote \cap request[r].wrote = {}
  BY DEF IInv, Inv, WroteApart
<1>3. Exclusive => /\ TxAnswers(request[r])
                   /\ \A q \in Requests \ {r} : Busy(q) => request[q].cs # request[r].cs
  BY DEF IInv, Answers, OneEach
<1> QED BY <1>1, <1>2, <1>3 DEF MayBe, TxInv, Sound

(* The request sees and has written the same. *)
Alike(tx, t) ==
  /\ t.mode = tx.mode /\ t.cs = tx.cs /\ t.view = tx.view /\ t.wrote = tx.wrote
  /\ t.sets = tx.sets

(* Between its writes: the next change, the inverses after an exception, a failed repair. *)
Onward(tx, t) ==
  /\ t.status = tx.status /\ t.dirty = tx.dirty /\ t.inverses = tx.inverses
  /\ \/ /\ tx.pc = "applying" /\ t.pc = "applying" /\ t.next > 0 /\ t.failed = tx.failed
     \/ /\ tx.pc = "applying" \/ (tx.pc = "locking" /\ tx.mode = "rollback")
        /\ t.pc = "undoing" /\ t.next = Len(tx.inverses) /\ t.failed = tx.failed
     \/ tx.pc = "undoing" /\ t.pc = "undoing" /\ t.next <= tx.next /\ t.failed

LEMMA OnwardMayBe ==
  ASSUME NEW r \in Requests, NEW tx \in Transaction, MayBe(r, tx), NEW t \in Transaction,
         Alike(tx, t), Onward(tx, t), t.next \in Nat, tx.next \in Nat, Len(tx.inverses) \in Nat
  PROVE  MayBe(r, t)
<1>1. TxInv(t)
  <2>1. Sound(t)
    BY DEF Alike, Onward, MayBe, TxInv, Sound, SamePlanSeen
  <2>2. LockedInOrder(t)
    BY DEF Onward, LockedInOrder
  <2>3. WrittenOverPlan(t)
    BY DEF Alike, Onward, MayBe, TxInv, Sound, WrittenOverPlan
  <2> QED BY <2>1, <2>2, <2>3 DEF TxInv
<1>2. ASSUME Exclusive PROVE TxAnswers(t)
  <2>1. TxAnswers(tx)
    BY <1>2 DEF MayBe
  <2>2. EffectsSeen(t)
    BY <2>1 DEF Alike, TxAnswers, EffectsSeen
  <2>3. EffectsRegistered(t)
    BY <2>1 DEF Alike, Onward, TxAnswers, EffectsRegistered
  <2>4. StatusSeen(t)
    BY <2>1 DEF Alike, Onward, TxAnswers, StatusSeen
  <2> QED BY <2>2, <2>3, <2>4 DEF TxAnswers
<1> QED BY <1>1, <1>2 DEF MayBe, Alike

LEMMA LocksOfTyped ==
  ASSUME TypeOK, NEW tx \in Transaction, SamePlanSeen(tx)
  PROVE  /\ LocksOf(tx) \subseteq Locks
         /\ \A l, m \in LocksOf(tx) : l[1] = m[1] /\ (l[2] = m[2] => l = m)
<1>1. tx.cs \in Nat /\ Source(tx) \in Sources
  BY OwnSet, TxFields
<1>2. \A i \in Steps(Source(tx)) : Key(Source(tx), i) \in Nat
  BY <1>1, ChangeFields
<1>3. CASE tx.mode = "rollback"
  BY <1>1, <1>3 DEF LocksOf, Locks
<1>4. CASE tx.mode # "rollback"
  BY <1>2, <1>4 DEF LocksOf, Locks
<1> QED BY <1>3, <1>4

(* The lock a request tries next is the least of those it still needs. *)
LEMMA NextLockIs ==
  ASSUME TypeOK, NEW tx \in Transaction, SamePlanSeen(tx), LocksOf(tx) \ tx.held # {}
  PROVE  /\ NextLock(tx) \in LocksOf(tx) \ tx.held
         /\ \A m \in LocksOf(tx) \ tx.held : NextLock(tx)[2] <= m[2]
<1> DEFINE Left == LocksOf(tx) \ tx.held
           T == {l[2] : l \in Left}
<1>1. T \subseteq Nat /\ T # {}
  BY LocksOfTyped DEF Locks
<1>2. PICK x \in T : \A y \in T : x <= y
  BY <1>1, NatMin
<1>3. \E l \in Left : \A m \in Left : l[2] <= m[2]
  BY <1>2
<1> QED BY <1>3 DEF NextLock

LEMMA LockMayBe ==
  ASSUME IInv, NEW r \in Requests, Busy(r), NEW tx, tx = request[r], WaitsForLock(r),
         NEW t, t = [tx EXCEPT !.held = @ \cup {NextLock(tx)}]
  PROVE  t \in Transaction /\ MayBe(r, t)
<1>1. tx \in Transaction /\ MayBe(r, tx) /\ TypeOK /\ SamePlanSeen(tx) /\ tx.pc = "locking"
  BY OwnMayBe DEF WaitsForLock
<1>2. PICK l : l = NextLock(tx)
  OBVIOUS
<1>3. l \in LocksOf(tx) \ tx.held /\ \A m \in LocksOf(tx) \ tx.held : l[2] <= m[2]
  BY <1>1, <1>2, NextLockIs DEF WaitsForLock
<1>4. LocksOf(tx) \subseteq Locks /\ \A k, m \in LocksOf(tx) : k[2] = m[2] => k = m
  BY <1>1, LocksOfTyped
<1>5. t \in Transaction
  <2>1. PICK held : held = tx.held \cup {l}
    OBVIOUS
  <2>2. tx.held \in SUBSET Locks
    BY <1>1, TxFields
  <2>3. held \in SUBSET Locks
    BY <2>1, <2>2, <1>3, <1>4
  <2>4. t = [tx EXCEPT !.held = held]
    BY <2>1, <1>2
  <2> QED BY <2>3, <2>4, <1>1 DEF Transaction
<1>6. /\ t.held = tx.held \cup {l} /\ Alike(tx, t) /\ t.pc = tx.pc /\ t.status = tx.status
      /\ t.dirty = tx.dirty /\ t.inverses = tx.inverses /\ t.next = tx.next /\ t.failed = tx.failed
  BY <1>1, <1>2 DEF Transaction, Alike
<1>7. LockedInOrder(t)
  <2>1. LocksOf(t) = LocksOf(tx)
    BY <1>6 DEF LocksOf, Source, Plan, Alike
  <2>2. LockedInOrder(tx)
    BY <1>1 DEF MayBe, TxInv
  <2>3. \A k, m \in LocksOf(tx) : k[2] \in Nat /\ m[2] \in Nat
    BY <1>4 DEF Locks
  <2>4. t.held \subseteq LocksOf(t)
    BY <1>1, <1>3, <1>6, <2>1, <2>2 DEF LockedInOrder
  <2>5. ASSUME NEW k \in t.held, NEW m \in LocksOf(tx) \ t.held PROVE k[2] < m[2]
    <3>1. m \in LocksOf(tx) \ tx.held /\ m # l
      BY <1>6, <2>5
    <3>2. CASE k \in tx.held
      BY <1>1, <2>2, <3>1, <3>2 DEF LockedInOrder
    <3>3. CASE k = l
      BY SMTT(30), <1>3, <1>4, <2>3, <3>1, <3>3
    <3> QED BY <1>6, <2>5, <3>2, <3>3
  <2> QED BY <2>1, <2>4, <2>5 DEF LockedInOrder
<1>8. TxInv(t)
  BY <1>1, <1>6, <1>7 DEF MayBe, TxInv, Sound, SamePlanSeen, WrittenOverPlan, Alike
<1>9. Exclusive => TxAnswers(t)
  BY <1>1, <1>6 DEF MayBe, TxAnswers, EffectsSeen, EffectsRegistered, StatusSeen, Alike
<1> QED BY <1>1, <1>5, <1>6, <1>8, <1>9 DEF MayBe, Alike

LEMMA BeginMayBe ==
  ASSUME IInv, NEW r \in Requests, NEW tx, tx = request[r], tx.pc = "locking",
         tx.mode = "apply", Busy(r),
         NEW t, t = [tx EXCEPT !.pc = "applying", !.status = "Applying", !.dirty = TRUE,
                               !.inverses = <<>>]
  PROVE  t \in Transaction /\ MayBe(r, t)
<1>1. tx \in Transaction /\ MayBe(r, tx) /\ TypeOK /\ SamePlanSeen(tx)
  BY OwnMayBe
<1>2. t \in Transaction
  <2>1. <<>> \in Seq(Nat) /\ "Applying" \in SetStatus
    BY DEF SetStatus
  <2> QED BY <1>1, <2>1 DEF Transaction
<1>3. /\ Alike(tx, t) /\ t.pc = "applying" /\ t.status = "Applying"
      /\ t.dirty = TRUE /\ t.inverses = <<>> /\ t.next = tx.next /\ t.failed = tx.failed
  BY <1>1 DEF Transaction, Alike
<1>4. TxInv(t)
  <2>1. TxInv(tx)
    BY <1>1 DEF MayBe
  <2>2. SamePlanSeen(t) /\ Sound(t)
    BY <2>1, <1>3 DEF TxInv, Sound, SamePlanSeen, Alike
  <2>3. LockedInOrder(t)
    BY <2>1, <1>3 DEF TxInv, LockedInOrder, Alike
  <2>4. t.wrote = {}
    BY <2>1, <1>3 DEF TxInv, Sound, Alike
  <2>5. WrittenOverPlan(t)
    BY <2>4 DEF WrittenOverPlan
  <2> QED BY <2>2, <2>3, <2>5 DEF TxInv
<1>5. ASSUME Exclusive PROVE TxAnswers(t)
  <2>1. TxAnswers(tx) /\ tx.wrote = {}
    BY <1>1, <1>5 DEF MayBe, TxInv, Sound
  <2>2. \A a \in Artifacts : tx.view[a].by # tx.cs /\ artifact[a].by # tx.cs
    BY <2>1 DEF TxAnswers, StatusSeen, EffectsSeen
  <2> QED BY <1>3, <2>1, <2>2 DEF TxAnswers, EffectsSeen, EffectsRegistered, StatusSeen, Alike
<1> QED BY <1>1, <1>2, <1>3, <1>4, <1>5 DEF MayBe, Alike

(* A new transaction reads what is committed. *)
LEMMA BegunMayBe ==
  ASSUME IInv, NEW r \in Requests, NEW c \in DOMAIN sets, ~Busy(r), Free(c),
         NEW mode \in {"apply", "rollback"},
         mode = "apply" => sets[c].status = "Approved",
         mode = "rollback" => sets[c].status = "Verified",
         NEW t, t = Begun(mode, c)
  PROVE  t \in Transaction /\ MayBe(r, t)
<1>1. TypeOK /\ sets \in Seq(SetRow) /\ c \in 1..Len(sets) /\ sets[c] \in SetRow /\ c \in Nat
  BY DEF IInv, Inv, TypeOK
<1>2. sets[c].source \in Sources /\ sets[c].status \in SetStatus /\ sets[c].inverses \in Seq(Nat)
  BY <1>1, SetFields
<1>3. t \in Transaction
  BY <1>1, <1>2 DEF Begun, Transaction, TypeOK
<1>4. /\ t.pc = "locking" /\ t.mode = mode /\ t.cs = c /\ t.held = {} /\ t.view = artifact
      /\ t.wrote = {} /\ t.sets = sets /\ t.dirty = FALSE /\ t.inverses = sets[c].inverses
      /\ t.next = 1 /\ t.failed = FALSE
  BY DEF Begun
<1>5. TxInv(t)
  <2>1. SamePlanSeen(t)
    BY <1>4 DEF SamePlanSeen
  <2>2. Sound(t)
    <3>1. RowsSound
      BY DEF IInv, Inv
    <3> QED BY <1>1, <1>4, <2>1, <3>1 DEF Sound, RowsSound, SetSound
  <2> QED BY <1>4, <2>2 DEF TxInv, LockedInOrder, WrittenOverPlan
<1>6. ASSUME Exclusive PROVE TxAnswers(t)
  <2>1. EffectsAnswered /\ VerifiedCanUndo /\ c # 0
    BY <1>1, <1>6 DEF IInv, Answers
  <2>2. mode = "apply" => \A a \in Artifacts : artifact[a].by # c
    BY <2>1 DEF EffectsAnswered, Answering
  <2>3. EffectsSeen(t)
    BY <1>4 DEF EffectsSeen
  <2>4. EffectsRegistered(t)
    BY <1>4, <2>1, <2>2 DEF EffectsRegistered, VerifiedCanUndo
  <2>5. StatusSeen(t)
    BY <1>4, <2>2 DEF StatusSeen
  <2> QED BY <2>3, <2>4, <2>5 DEF TxAnswers
<1> QED BY <1>3, <1>4, <1>5, <1>6 DEF MayBe, Free

(* A row of a plan. *)
LEMMA PlannedRow ==
  ASSUME IInv, NEW tx \in Transaction, SamePlanSeen(tx), NEW i \in Steps(Source(tx))
  PROVE  /\ Plan(tx).planned[i] \in ArtifactRow /\ Target(Source(tx), i) \in Artifacts
         /\ i \in Nat /\ Source(tx) \in Sources /\ i > 0
<1>1. /\ tx.cs \in 1..Len(sets) /\ sets[tx.cs] \in SetRow /\ Source(tx) = sets[tx.cs].source
      /\ Plan(tx).planned = sets[tx.cs].planned /\ Source(tx) \in Sources
  BY OwnSet DEF IInv, Inv
<1>2. sets[tx.cs].planned \in Seq(ArtifactRow)
  BY <1>1, SetFields
<1>3. Len(sets[tx.cs].planned) = Len(Changes[Source(tx)])
  BY <1>1 DEF IInv, Inv, RowsSound, SetSound, SamePlanSeen
<1>4. Steps(Source(tx)) = 1..Len(Changes[Source(tx)]) /\ Target(Source(tx), i) \in Artifacts
  BY <1>1, ChangeFields
<1>5. i \in 1..Len(sets[tx.cs].planned)
  BY <1>3, <1>4
<1> QED BY <1>1, <1>2, <1>4, <1>5, ElementOfSeq

(* The request has written an artifact, with a revision of its own; its receipts, and what it
   has found and made of its change set, are as they were. *)
Rewrites(tx, t, a) ==
  /\ t.wrote = tx.wrote \cup {a} /\ t.view[a].rev = artifact[a].rev + 1
  /\ \A b \in Artifacts \ {a} : t.view[b] = tx.view[b]
Accounts(tx, t) ==
  /\ t.mode = tx.mode /\ t.cs = tx.cs /\ t.sets = tx.sets /\ t.receipts = tx.receipts
  /\ t.status = tx.status /\ t.dirty = tx.dirty

(* An effect is made over the planned row, and its inverse registered. *)
LEMMA EffectMayBe ==
  ASSUME IInv, NEW r \in Requests, NEW tx, tx = request[r], Busy(r), Applying(r),
         CurrentMatches(tx), Takes(tx, AtTarget(tx)), ~WrittenByOther(r, AtTarget(tx)),
         NEW t, t = Effect(tx)
  PROVE  /\ t \in Transaction /\ MayBe(r, t) /\ tx.next \in Steps(Source(tx))
         /\ tx \in Transaction /\ t.pc = "applying" /\ t.next = tx.next
         /\ t.failed = tx.failed /\ Accounts(tx, t) /\ Rewrites(tx, t, AtTarget(tx))
<1>1. /\ tx \in Transaction /\ MayBe(r, tx) /\ TypeOK /\ SamePlanSeen(tx)
      /\ tx.pc = "applying" /\ tx.next \in Steps(Source(tx))
  BY OwnMayBe DEF Applying
<1>2. /\ tx.cs \in 1..Len(sets) /\ tx.cs # 0 /\ Len(sets) \in Nat
      /\ Source(tx) = sets[tx.cs].source
      /\ Plan(tx).planned = sets[tx.cs].planned
  BY <1>1, OwnSet DEF TypeOK
<1>3. /\ Target(Source(tx), tx.next) \in Artifacts /\ tx.next \in Nat /\ Source(tx) \in Sources
      /\ tx.next > 0
  BY <1>1, PlannedRow
<1>4. PICK a \in Artifacts : a = AtTarget(tx)
  BY <1>3 DEF AtTarget
<1>5. PICK row \in ArtifactRow :
        row = [content |-> Source(tx), rev |-> artifact[a].rev + 1, by |-> tx.cs]
  <2>1. artifact[a] \in ArtifactRow
    BY DEF IInv, Inv, TypeOK
  <2>2. artifact[a].rev + 1 \in Nat
    BY <2>1, RowFields
  <2>3. tx.cs \in Nat
    BY <1>1, TxFields
  <2>4. [content |-> Source(tx), rev |-> artifact[a].rev + 1, by |-> tx.cs] \in ArtifactRow
    BY <1>3, <2>2, <2>3 DEF ArtifactRow
  <2> QED BY <2>4
<1>6. PICK view \in [Artifacts -> ArtifactRow] : view = [tx.view EXCEPT ![a] = row]
  BY <1>1, TxFields
<1>7. PICK inverses \in Seq(Nat) : inverses = Append(tx.inverses, tx.next)
  BY <1>1, <1>3, TxFields, AppendProperties
<1>8. t = [tx EXCEPT !.view = view, !.wrote = @ \cup {a}, !.inverses = inverses]
  BY <1>1, <1>4, <1>5, <1>6, <1>7 DEF Effect, Written, Transaction
<1>9. t \in Transaction
  <2>1. tx.wrote \cup {a} \in SUBSET Artifacts
    BY <1>1, TxFields
  <2>2. PICK wrote \in SUBSET Artifacts : wrote = tx.wrote \cup {a}
    BY <2>1
  <2> QED BY <1>1, <1>8, <2>2 DEF Transaction
<1>10. /\ t.pc = "applying" /\ t.mode = tx.mode /\ t.cs = tx.cs /\ t.view = view
       /\ t.wrote = tx.wrote \cup {a} /\ t.sets = tx.sets /\ t.status = tx.status
       /\ t.dirty = tx.dirty /\ t.inverses = inverses /\ t.next = tx.next /\ t.failed = tx.failed
       /\ t.receipts = tx.receipts
  BY <1>1, <1>8 DEF Transaction
<1>11. \A b \in Artifacts : view[b] = IF b = a THEN row ELSE tx.view[b]
  BY <1>1, <1>6, TxFields
<1>12. row.by = tx.cs /\ row.content = Source(tx) /\ ~Gone(row)
  BY <1>3, <1>5 DEF Gone
<1>13. /\ Len(inverses) = Len(tx.inverses) + 1 /\ Len(tx.inverses) \in Nat
       /\ inverses[Len(inverses)] = tx.next
       /\ \A j \in 1..Len(tx.inverses) : inverses[j] = tx.inverses[j]
       /\ DOMAIN inverses = 1..Len(inverses) /\ DOMAIN tx.inverses = 1..Len(tx.inverses)
  BY <1>1, <1>3, <1>7, TxFields
<1>14. TxInv(t)
  <2>1. Sound(tx) /\ WrittenOverPlan(tx)
    BY <1>1 DEF MayBe, TxInv
  <2>2. SamePlanSeen(t)
    BY <1>1, <1>10 DEF SamePlanSeen
  <2>3. \A b \in Artifacts : RowSound(view[b], Len(sets))
    BY SMTT(30), <1>2, <1>11, <1>12, <2>1 DEF Sound, RowSound
  <2>4. \A j \in DOMAIN inverses : inverses[j] \in Steps(sets[tx.cs].source)
    BY <1>1, <1>2, <1>13, <2>1 DEF Sound
  <2>5. Sound(t)
    BY <1>1, <1>10, <2>1, <2>2, <2>3, <2>4 DEF Sound
  <2>6. ASSUME a \notin tx.wrote PROVE OverPlan(a, tx.cs)
    <3>1. SameRow(artifact[a], tx.view[a]) /\ SameRow(tx.view[a], sets[tx.cs].planned[tx.next])
      BY <1>2, <1>4, <2>6 DEF Takes, CurrentMatches
    <3>2. SameRow(artifact[a], sets[tx.cs].planned[tx.next])
      BY <3>1, SameRowTransitive
    <3> QED BY <1>1, <1>2, <1>4, <3>2 DEF OverPlan, AtTarget
  <2>7. artifact[a].by = tx.cs \/ OverPlan(a, tx.cs)
    BY <1>1, <2>1, <2>6 DEF WrittenOverPlan
  <2>8. WrittenOverPlan(t)
    <3>1. tx.wrote \subseteq Artifacts
      BY <1>1, TxFields
    <3>2. ASSUME NEW b \in t.wrote
          PROVE  /\ view[b].by = tx.cs
                 /\ artifact[b].by = tx.cs \/ OverPlan(b, tx.cs)
      <4>1. CASE b = a
        BY <1>11, <1>12, <2>7, <4>1
      <4>2. CASE b # a
        <5>1. b \in tx.wrote /\ view[b] = tx.view[b]
          BY <1>10, <1>11, <3>1, <3>2, <4>2
        <5> QED BY <1>1, <2>1, <5>1 DEF WrittenOverPlan
      <4> QED BY <4>1, <4>2
    <3> QED BY <1>10, <3>2 DEF WrittenOverPlan
  <2>9. LockedInOrder(t)
    BY <1>10 DEF LockedInOrder
  <2> QED BY <2>5, <2>8, <2>9 DEF TxInv
<1>15. ASSUME Exclusive PROVE TxAnswers(t)
  <2>1. TxAnswers(tx) /\ tx.wrote \subseteq Artifacts
    BY <1>1, <1>15, TxFields DEF MayBe
  <2>2. EffectsSeen(t)
    BY <1>10, <1>11, <2>1 DEF TxAnswers, EffectsSeen
  <2>3. EffectsRegistered(t)
    <3>1. ASSUME NEW b, Registered(sets[tx.cs].source, tx.inverses, Len(tx.inverses), b)
          PROVE  Registered(sets[tx.cs].source, inverses, Len(inverses), b)
      BY <1>13, <3>1 DEF Registered
    <3>2. Registered(sets[tx.cs].source, inverses, Len(inverses), a)
      <4>1. Target(sets[tx.cs].source, inverses[Len(inverses)]) = a
        BY <1>2, <1>4, <1>13 DEF AtTarget
      <4>2. Len(inverses) \in 1..Len(inverses)
        BY <1>13
      <4> QED BY <4>1, <4>2 DEF Registered
    <3>3. ASSUME NEW b \in Artifacts, view[b].by = tx.cs \/ artifact[b].by = tx.cs
          PROVE  Registered(sets[tx.cs].source, inverses, Len(inverses), b)
      <4>1. EffectsRegistered(tx)
        BY <2>1 DEF TxAnswers
      <4>2. b # a => Registered(sets[tx.cs].source, tx.inverses, Len(tx.inverses), b)
        BY <1>1, <1>11, <3>3, <4>1 DEF EffectsRegistered
      <4> QED BY <3>1, <3>2, <4>2
    <3> QED BY <1>10, <3>3 DEF EffectsRegistered
  <2>4. StatusSeen(t)
    <3>1. StatusSeen(tx)
      BY <2>1 DEF TxAnswers
    <3>2. tx.dirty \/ sets[tx.cs].status \in Answering
      BY <1>1, <3>1 DEF StatusSeen
    <3>3. tx.mode # "rollback"
      BY <1>1 DEF MayBe, TxInv, Sound
    <3> QED BY <1>1, <1>10, <3>1, <3>2, <3>3 DEF StatusSeen
  <2> QED BY <2>2, <2>3, <2>4 DEF TxAnswers
<1>16. \A q \in Requests \ {r} : Busy(q) => request[q].wrote \cap t.wrote = {}
  BY <1>1, <1>4, <1>10 DEF MayBe, WrittenByOther
<1>17. Accounts(tx, t) /\ Rewrites(tx, t, AtTarget(tx))
  <2>1. view[a].rev = artifact[a].rev + 1
    BY <1>5, <1>11
  <2> QED BY <1>4, <1>10, <1>11, <2>1 DEF Accounts, Rewrites
<1> QED BY <1>1, <1>9, <1>10, <1>14, <1>15, <1>16, <1>17 DEF MayBe

LEMMA VictimMayBe ==
  ASSUME IInv, NEW r \in Requests, NEW tx, tx = request[r], Busy(r), tx.pc = "applying",
         NEW t, t = [Caught(tx) EXCEPT !.view = artifact, !.sets = sets, !.wrote = {},
                                       !.dirty = FALSE, !.receipts = {}]
  PROVE  t \in Transaction /\ MayBe(r, t)
<1>1. tx \in Transaction /\ MayBe(r, tx) /\ TypeOK /\ SamePlanSeen(tx) /\ Sound(tx)
  BY OwnMayBe DEF MayBe, TxInv
<1>2. PICK n \in Nat : n = Len(tx.inverses)
  <2>1. tx.inverses \in Seq(Nat)
    BY <1>1, TxFields
  <2>2. Len(tx.inverses) \in Nat
    BY <2>1, LenProperties
  <2> QED BY <2>2
<1>3. t = [tx EXCEPT !.pc = "undoing", !.next = n, !.view = artifact, !.sets = sets, !.wrote = {},
                     !.dirty = FALSE, !.receipts = {}]
  BY <1>1, <1>2 DEF Caught, Transaction
<1>3a. t = [pc |-> "undoing", mode |-> tx.mode, cs |-> tx.cs, held |-> tx.held, view |-> artifact,
           wrote |-> {}, sets |-> sets, status |-> tx.status, dirty |-> FALSE,
           receipts |-> {}, inverses |-> tx.inverses, next |-> n, failed |-> tx.failed]
  BY ZenonT(60), <1>1, <1>3 DEF Transaction
<1>4. t \in Transaction
  <2>1. {} \in SUBSET Artifacts /\ {} \in SUBSET Nat
    OBVIOUS
  <2>2. artifact \in [Artifacts -> ArtifactRow] /\ sets \in Seq(SetRow)
    BY <1>1 DEF TypeOK
  <2>3. /\ tx.mode \in {"apply", "rollback"} /\ tx.cs \in Nat /\ tx.held \in SUBSET Locks
        /\ tx.status \in SetStatus /\ tx.inverses \in Seq(Nat) /\ tx.failed \in BOOLEAN
    BY <1>1, TxFields
  <2>4. "undoing" \in {"locking", "applying", "undoing", "finished"} /\ FALSE \in BOOLEAN
    OBVIOUS
  <2>5. [pc |-> "undoing", mode |-> tx.mode, cs |-> tx.cs, held |-> tx.held, view |-> artifact,
         wrote |-> {}, sets |-> sets, status |-> tx.status, dirty |-> FALSE,
         receipts |-> {}, inverses |-> tx.inverses, next |-> n, failed |-> tx.failed] \in Transaction
    BY <2>1, <2>2, <2>3, <2>4 DEF Transaction
  <2> QED BY <1>3a, <2>5, Zenon
<1>5. /\ t.pc = "undoing" /\ t.mode = tx.mode /\ t.cs = tx.cs /\ t.view = artifact /\ t.wrote = {}
      /\ t.sets = sets /\ t.status = tx.status /\ t.dirty = FALSE /\ t.inverses = tx.inverses
      /\ t.next = n /\ t.failed = tx.failed
  BY ZenonT(60), <1>1, <1>3 DEF Transaction
<1>6. TxInv(t)
  <2>1. SamePlanSeen(t)
    BY <1>1, <1>5 DEF SamePlanSeen
  <2>2. Sound(t)
    BY <1>1, <1>2, <1>5, <2>1 DEF Sound, IInv, Inv, RowsSound
  <2> QED BY <1>5, <2>2 DEF TxInv, LockedInOrder, WrittenOverPlan
<1>7. ASSUME Exclusive PROVE TxAnswers(t)
  <2>1. EffectsRegistered(tx) /\ StatusSeen(tx) /\ tx.mode # "rollback"
    BY <1>1, <1>7 DEF MayBe, TxAnswers, Sound
  <2>2. EffectsSeen(t)
    BY <1>5 DEF EffectsSeen
  <2>3. EffectsRegistered(t)
    BY <1>2, <1>5, <2>1 DEF EffectsRegistered
  <2>4. StatusSeen(t)
    BY <1>5, <2>1 DEF StatusSeen
  <2> QED BY <2>2, <2>3, <2>4 DEF TxAnswers
<1> QED BY <1>1, <1>4, <1>5, <1>6, <1>7 DEF MayBe

(* One inverse is done with: its artifact is gone, or is what it was before. *)
LEMMA UndoneMayBe ==
  ASSUME IInv, NEW r \in Requests, NEW tx, tx = request[r], Busy(r), Undoing(r),
         NEW t, \/ t = [tx EXCEPT !.next = @ - 1] /\ Gone(tx.view[Undone(tx)])
                \/ t = [Restored(tx) EXCEPT !.next = @ - 1] /\ ~WrittenByOther(r, Undone(tx))
  PROVE  /\ t \in Transaction /\ MayBe(r, t) /\ Undone(tx) \in Artifacts /\ t.pc = "undoing"
         /\ Accounts(tx, t) /\ (Alike(tx, t) \/ Rewrites(tx, t, Undone(tx)))
<1>1. /\ tx \in Transaction /\ MayBe(r, tx) /\ TypeOK /\ SamePlanSeen(tx) /\ Sound(tx)
      /\ tx.pc = "undoing" /\ tx.next \in Nat /\ tx.next > 0 /\ tx.inverses \in Seq(Nat)
      /\ tx.view \in [Artifacts -> ArtifactRow] /\ tx.wrote \in SUBSET Artifacts
      /\ WrittenOverPlan(tx)
  BY OwnMayBe, TxFields DEF MayBe, TxInv, Undoing
<1>2. tx.cs \in 1..Len(sets) /\ tx.cs # 0 /\ Source(tx) = sets[tx.cs].source /\ Len(sets) \in Nat
  BY <1>1, OwnSet DEF TypeOK
<1>3. PICK i \in Steps(Source(tx)) : i = NextInverse(tx)
  <2>1. tx.next \in DOMAIN tx.inverses
    BY <1>1 DEF Sound
  <2> QED BY <1>1, <1>2, <2>1 DEF Sound, NextInverse
<1>4. /\ Plan(tx).planned[i] \in ArtifactRow /\ Target(Source(tx), i) \in Artifacts
  BY <1>1, PlannedRow
<1>5. PICK a \in Artifacts : a = Undone(tx)
  BY <1>3, <1>4 DEF Undone
<1>6. PICK n \in Nat : n = tx.next - 1
  BY SMTT(30), <1>1
<1>7. \E view \in [Artifacts -> ArtifactRow], wrote \in SUBSET Artifacts :
        /\ t = [tx EXCEPT !.view = view, !.wrote = wrote, !.next = n]
        /\ view[a].by = 0
        /\ \A b \in Artifacts \ {a} : view[b] = tx.view[b]
        /\ \/ wrote = tx.wrote /\ view = tx.view
           \/ /\ wrote = tx.wrote \cup {a} /\ ~WrittenByOther(r, a)
              /\ view[a].rev = artifact[a].rev + 1
  <2>1. CASE t = [tx EXCEPT !.next = @ - 1] /\ Gone(tx.view[a])
    <3>1. tx.view[a].by = 0
      BY <1>1, <2>1 DEF Sound, RowSound
    <3>2. t = [tx EXCEPT !.view = tx.view, !.wrote = tx.wrote, !.next = n]
      BY <1>1, <1>6, <2>1 DEF Transaction
    <3> QED BY <1>1, <3>1, <3>2
  <2>2. CASE t = [Restored(tx) EXCEPT !.next = @ - 1] /\ ~WrittenByOther(r, a)
    <3>1. PICK content \in {"absent", "user"} \cup Sources : Restored(tx) = Written(tx, a, content, 0)
      BY <1>3, <1>4, <1>5, RowFields DEF Restored
    <3>2. PICK row \in ArtifactRow :
            row = [content |-> content, rev |-> artifact[a].rev + 1, by |-> 0]
      <4>1. artifact[a].rev + 1 \in Nat
        BY <1>1, RowFields DEF TypeOK
      <4>2. [content |-> content, rev |-> artifact[a].rev + 1, by |-> 0] \in ArtifactRow
        BY <4>1 DEF ArtifactRow
      <4> QED BY <4>2
    <3>3. PICK view \in [Artifacts -> ArtifactRow] : view = [tx.view EXCEPT ![a] = row]
      BY <1>1
    <3>4. PICK wrote \in SUBSET Artifacts : wrote = tx.wrote \cup {a}
      BY <1>1
    <3>5. t = [tx EXCEPT !.view = view, !.wrote = wrote, !.next = n]
      BY <1>1, <1>6, <2>2, <3>1, <3>2, <3>3, <3>4 DEF Written, Transaction
    <3>6. /\ view[a].by = 0 /\ view[a].rev = artifact[a].rev + 1
          /\ \A b \in Artifacts \ {a} : view[b] = tx.view[b]
      BY <1>1, <3>2, <3>3
    <3> QED BY <2>2, <3>4, <3>5, <3>6
  <2> QED BY <1>5, <2>1, <2>2
<1>8. PICK view \in [Artifacts -> ArtifactRow], wrote \in SUBSET Artifacts :
        /\ t = [tx EXCEPT !.view = view, !.wrote = wrote, !.next = n]
        /\ view[a].by = 0
        /\ \A b \in Artifacts \ {a} : view[b] = tx.view[b]
        /\ \/ wrote = tx.wrote /\ view = tx.view
           \/ /\ wrote = tx.wrote \cup {a} /\ ~WrittenByOther(r, a)
              /\ view[a].rev = artifact[a].rev + 1
  BY <1>7
<1>9. t \in Transaction
  BY <1>1, <1>8 DEF Transaction
<1>10. /\ t.pc = "undoing" /\ t.mode = tx.mode /\ t.cs = tx.cs /\ t.view = view /\ t.wrote = wrote
       /\ t.sets = tx.sets /\ t.status = tx.status /\ t.dirty = tx.dirty
       /\ t.inverses = tx.inverses /\ t.next = n /\ t.failed = tx.failed
       /\ t.receipts = tx.receipts
  BY <1>1, <1>8 DEF Transaction
<1>11. TxInv(t)
  <2>1. SamePlanSeen(t)
    BY <1>1, <1>10 DEF SamePlanSeen
  <2>2. \A b \in Artifacts : RowSound(view[b], Len(sets))
    BY <1>1, <1>2, <1>8 DEF Sound, RowSound
  <2>3. n <= Len(tx.inverses)
    BY <1>1, <1>6 DEF Sound
  <2>4. Sound(t)
    BY <1>1, <1>10, <2>1, <2>2, <2>3 DEF Sound
  <2>5. ASSUME NEW b \in wrote
        PROVE  /\ view[b].by \in {0, tx.cs}
               /\ view[b].by = tx.cs => b \in tx.wrote /\ view[b] = tx.view[b]
    BY <1>1, <1>2, <1>8, <2>5 DEF WrittenOverPlan
  <2>6. WrittenOverPlan(t)
    BY <1>1, <1>10, <2>5 DEF WrittenOverPlan
  <2> QED BY <1>10, <2>4, <2>6 DEF TxInv, LockedInOrder
<1>12. ASSUME Exclusive PROVE TxAnswers(t)
  <2>1. EffectsSeen(tx) /\ EffectsRegistered(tx) /\ StatusSeen(tx)
    BY <1>1, <1>12 DEF MayBe, TxAnswers
  <2>2. \A b \in Artifacts : view[b].by = tx.cs => b # a /\ view[b] = tx.view[b]
    BY <1>2, <1>8
  <2>3. EffectsSeen(t)
    <3>1. ASSUME NEW b \in Artifacts \ wrote, artifact[b].by = tx.cs PROVE view[b] = artifact[b]
      <4>1. tx.view[b] = artifact[b]
        BY <1>8, <2>1, <3>1 DEF EffectsSeen
      <4>2. b = a => view = tx.view
        BY <1>8, <3>1
      <4> QED BY <1>8, <3>1, <4>1, <4>2
    <3> QED BY <1>10, <3>1 DEF EffectsSeen
  <2>4. EffectsRegistered(t)
    <3>1. ASSUME NEW b \in Artifacts, view[b].by = tx.cs, ~tx.failed
          PROVE  Registered(sets[tx.cs].source, tx.inverses, n, b)
      <4>1. PICK j \in 1..tx.next : Target(sets[tx.cs].source, tx.inverses[j]) = b
        BY <1>1, <2>1, <2>2, <3>1 DEF EffectsRegistered, Registered
      <4>2. j # tx.next
        BY <1>2, <1>5, <2>2, <3>1, <4>1 DEF Undone, NextInverse
      <4>3. j \in 1..n
        BY <1>1, <1>6, <4>2
      <4> QED BY <4>1, <4>3 DEF Registered
    <3>2. ASSUME NEW b \in Artifacts, view[b].by = tx.cs
          PROVE  Registered(sets[tx.cs].source, tx.inverses, Len(tx.inverses), b)
      BY <2>1, <2>2, <3>2 DEF EffectsRegistered
    <3> QED BY <1>10, <3>1, <3>2 DEF EffectsRegistered
  <2>5. StatusSeen(t)
    <3>1. \A b \in wrote : view[b].by = tx.cs => b \in tx.wrote /\ tx.view[b].by = tx.cs
      BY <1>8, <2>2
    <3> QED BY <1>1, <1>10, <2>1, <3>1 DEF StatusSeen
  <2> QED BY <2>3, <2>4, <2>5 DEF TxAnswers
<1>13. \A q \in Requests \ {r} : Busy(q) => request[q].wrote \cap t.wrote = {}
  BY <1>1, <1>8, <1>10 DEF MayBe, WrittenByOther
<1>14. Accounts(tx, t) /\ (Alike(tx, t) \/ Rewrites(tx, t, a))
  BY <1>8, <1>10 DEF Accounts, Alike, Rewrites
<1> QED BY <1>1, <1>5, <1>9, <1>10, <1>11, <1>12, <1>13, <1>14 DEF MayBe

LEMMA FinishedMayBe ==
  ASSUME IInv, NEW r \in Requests, NEW tx, tx = request[r], Busy(r), NEW st,
         \/ tx.pc = "applying" /\ st = "Verified"
         \/ tx.pc = "undoing" /\ tx.next = 0 /\ st = Outcome(tx),
         NEW t, t = [tx EXCEPT !.pc = "finished", !.status = st, !.dirty = TRUE, !.held = {}]
  PROVE  t \in Transaction /\ MayBe(r, t)
<1>1. tx \in Transaction /\ MayBe(r, tx) /\ SamePlanSeen(tx) /\ tx.inverses \in Seq(Nat)
  BY OwnMayBe, TxFields
<1>2. st \in {"Verified", "Repaired", "NeedsIntervention"}
  BY DEF Outcome
<1>3. t \in Transaction
  <2>1. {} \in SUBSET Locks /\ st \in SetStatus
    BY <1>2 DEF SetStatus
  <2> QED BY <1>1, <2>1 DEF Transaction
<1>4. /\ Alike(tx, t) /\ t.pc = "finished" /\ t.status = st /\ t.dirty = TRUE
      /\ t.inverses = tx.inverses /\ t.next = tx.next /\ t.failed = tx.failed
  BY <1>1 DEF Transaction, Alike
<1>5. TxInv(t)
  <2>1. Sound(t)
    BY <1>1, <1>4 DEF MayBe, TxInv, Sound, SamePlanSeen, Alike
  <2>2. WrittenOverPlan(t)
    BY <1>1, <1>4 DEF MayBe, TxInv, WrittenOverPlan, Alike
  <2> QED BY <1>4, <2>1, <2>2 DEF TxInv, LockedInOrder
<1>6. ASSUME Exclusive PROVE TxAnswers(t)
  <2>1. EffectsSeen(tx) /\ EffectsRegistered(tx) /\ StatusSeen(tx)
    BY <1>1, <1>6 DEF MayBe, TxAnswers
  <2>2. EffectsSeen(t) /\ EffectsRegistered(t)
    BY <1>4, <2>1 DEF EffectsSeen, EffectsRegistered, Alike
  <2>3. ASSUME st = "Repaired", NEW a \in Artifacts PROVE tx.view[a].by # tx.cs
    <3>1. tx.pc = "undoing" /\ tx.next = 0 /\ ~tx.failed
      BY <2>3 DEF Outcome
    <3>2. ~Registered(sets[tx.cs].source, tx.inverses, 0, a)
      BY DEF Registered
    <3> QED BY <2>1, <3>1, <3>2 DEF EffectsRegistered
  <2>4. StatusSeen(t)
    BY <1>2, <1>4, <2>1, <2>3 DEF StatusSeen, Alike
  <2> QED BY <2>2, <2>4 DEF TxAnswers
<1> QED BY <1>1, <1>3, <1>4, <1>5, <1>6 DEF MayBe, Alike

-----------------------------------------------------------------------------
(* Request r goes on as t, having committed it or not, or returns *)

Goes(r, t) ==
  \/ Step(r, t)
  \/ /\ t.pc \in {"applying", "undoing"} /\ Commits(r, t)
     /\ request' = [request EXCEPT ![r] = Carried(r, t)]
  \/ Commits(r, t) /\ request' = [request EXCEPT ![r] = Idle]

-----------------------------------------------------------------------------
(* Revisions grow, so what a change set has put in place stays, or gives way to what came
   later.  The theorem about VerifiedInPlace rests on it. *)

Later(now, row) == now = row \/ now.rev > row.rev

(* No artifact has gone back behind a plan that was made over it. *)
OverEarlier(set) ==
  \A i \in Steps(set.source) : Later(artifact[Target(set.source, i)], set.planned[i])

(* What a change set answers for has gone beyond its plan: the changes it has a receipt for
   and, once it is verified, those whose planned row's revision its plan hash covers. *)
Settles(set) ==
  \A i \in Steps(set.source) :
    /\ Changing(set, i)
    /\ i \in set.receipts \/ (set.status = "Verified" /\ ~Gone(set.planned[i]))
    => artifact[Target(set.source, i)].rev > set.planned[i].rev

(* The row that a commit of t leaves, and the changes t has come past. *)
Left(t, a) == IF a \in t.wrote THEN t.view[a] ELSE artifact[a]
Passed(t, i) ==
  (t.pc \in {"locking", "applying"} /\ i < t.next) \/ (t.dirty /\ t.status = "Verified")

TxSettles(t) ==
  /\ \A a \in t.wrote : t.view[a].rev > artifact[a].rev
  /\ \A d \in DOMAIN t.sets :
       /\ d \in DOMAIN sets /\ Settles(t.sets[d])
       /\ t.sets[d].source = sets[d].source /\ t.sets[d].planned = sets[d].planned
  /\ \A i \in Steps(sets[t.cs].source) :
       /\ Changing(sets[t.cs], i)
       /\ i \in t.receipts \/ (Passed(t, i) /\ ~Gone(sets[t.cs].planned[i]))
       => Left(t, Target(sets[t.cs].source, i)).rev > sets[t.cs].planned[i].rev

Settled ==
  /\ \A c \in DOMAIN sets : OverEarlier(sets[c]) /\ Settles(sets[c])
  /\ \A r \in Requests : Busy(r) => TxSettles(request[r])

Grows == \A a \in Artifacts : Later(artifact'[a], artifact[a])
PlansKept ==
  \A c \in DOMAIN sets :
    /\ c \in DOMAIN sets'
    /\ sets'[c].source = sets[c].source /\ sets'[c].planned = sets[c].planned

LEMMA PlanTyped ==
  ASSUME IInv, NEW c \in DOMAIN sets, NEW i \in Steps(sets[c].source)
  PROVE  /\ Target(sets[c].source, i) \in Artifacts /\ i \in Nat
         /\ sets[c].planned[i] \in ArtifactRow /\ sets[c].planned[i].rev \in Nat
<1>1. sets \in Seq(SetRow) /\ sets[c] \in SetRow /\ SetSound(sets[c])
  BY DEF IInv, Inv, TypeOK, RowsSound
<1>2. PICK planned \in Seq(ArtifactRow) :
        planned = sets[c].planned /\ Len(planned) = Len(Changes[sets[c].source])
  BY <1>1, SetFields DEF SetSound
<1>3. /\ Steps(sets[c].source) = 1..Len(planned) /\ Len(planned) \in Nat
      /\ Target(sets[c].source, i) \in Artifacts
  BY <1>1, <1>2, SetFields, ChangeFields
<1>4. planned[i] \in ArtifactRow
  BY <1>2, <1>3, ElementOfSeq
<1> QED BY <1>2, <1>3, <1>4, RowFields

(* A plan stays settled while revisions grow. *)
LEMMA SettlesKept ==
  ASSUME IInv, IInv', Grows, NEW c \in DOMAIN sets, NEW set, set.source = sets[c].source,
         set.planned = sets[c].planned
  PROVE  /\ Settles(set) => Settles(set)'
         /\ OverEarlier(set) => OverEarlier(set)'
<1>1. ASSUME NEW i \in Steps(set.source)
      PROVE  LET a == Target(set.source, i) IN
             /\ Later(artifact[a], set.planned[i]) => Later(artifact'[a], set.planned[i])
             /\ artifact[a].rev > set.planned[i].rev => artifact'[a].rev > set.planned[i].rev
  <2>1. PICK a \in Artifacts : a = Target(set.source, i)
    BY <1>1, PlanTyped
  <2>2. PICK old \in ArtifactRow, new \in ArtifactRow, row \in ArtifactRow :
          old = artifact[a] /\ new = artifact'[a] /\ row = set.planned[i]
    <3>1. artifact[a] \in ArtifactRow /\ artifact'[a] \in ArtifactRow
      BY DEF IInv, Inv, TypeOK
    <3> QED BY <1>1, <3>1, PlanTyped
  <2>3. old.rev \in Nat /\ new.rev \in Nat /\ row.rev \in Nat /\ Later(new, old)
    BY <2>2, RowFields DEF Grows
  <2> QED BY <2>1, <2>2, <2>3 DEF Later
<1> QED BY <1>1 DEF Settles, OverEarlier, Changing

(* So does a request whose artifacts nobody else writes. *)
LEMMA TxKept ==
  ASSUME IInv, IInv', Grows, PlansKept, NEW u \in Transaction, SamePlanSeen(u), TxSettles(u),
         \A a \in u.wrote : artifact'[a] = artifact[a]
  PROVE  TxSettles(u)'
<1>1. u.cs \in DOMAIN sets
  BY DEF SamePlanSeen
<1>2. ASSUME NEW d \in DOMAIN u.sets
      PROVE  /\ d \in DOMAIN sets' /\ Settles(u.sets[d])'
             /\ u.sets[d].source = sets'[d].source /\ u.sets[d].planned = sets'[d].planned
  <2>1. PICK set : set = u.sets[d]
    OBVIOUS
  <2>2. /\ d \in DOMAIN sets /\ Settles(set)
        /\ set.source = sets[d].source /\ set.planned = sets[d].planned
    BY <2>1 DEF TxSettles
  <2>3. Settles(set)'
    BY <2>2, SettlesKept
  <2> QED BY <2>1, <2>2, <2>3 DEF PlansKept
<1>3. PICK set : set = sets[u.cs]
  OBVIOUS
<1>4. sets'[u.cs].source = set.source /\ sets'[u.cs].planned = set.planned
  BY <1>1, <1>3 DEF PlansKept
<1>5. ASSUME NEW i \in Steps(set.source), Changing(set, i),
             i \in u.receipts \/ (Passed(u, i) /\ ~Gone(set.planned[i]))
      PROVE  Left(u, Target(set.source, i))'.rev > set.planned[i].rev
  <2>1. PICK a \in Artifacts : a = Target(set.source, i)
    BY <1>1, <1>3, PlanTyped
  <2>2. Left(u, a).rev > set.planned[i].rev
    BY <1>3, <1>5, <2>1 DEF TxSettles
  <2>3. PICK old \in ArtifactRow, new \in ArtifactRow, row \in ArtifactRow :
          old = artifact[a] /\ new = artifact'[a] /\ row = set.planned[i]
    <3>1. artifact[a] \in ArtifactRow /\ artifact'[a] \in ArtifactRow
      BY DEF IInv, Inv, TypeOK
    <3> QED BY <1>1, <1>3, <3>1, PlanTyped
  <2>4. old.rev \in Nat /\ new.rev \in Nat /\ row.rev \in Nat /\ Later(new, old)
    BY <2>3, RowFields DEF Grows
  <2> QED BY <2>1, <2>2, <2>3, <2>4 DEF Left, Later
<1>6. \A i : Passed(u, i)' <=> Passed(u, i)
  BY DEF Passed
<1> QED BY <1>2, <1>3, <1>4, <1>5, <1>6 DEF TxSettles, Changing

(* What a request has written is ahead of what is committed. *)
LEMMA CommitGrows ==
  ASSUME IInv, NEW r \in Requests, NEW t \in Transaction, MayBe(r, t), request[r] \in Transaction,
         TxSettles(t), Commits(r, t)
  PROVE  Grows /\ PlansKept /\ \A a \in Artifacts : artifact'[a] = Left(t, a)
<1>1. TypeOK /\ SamePlanSeen(t)
  BY DEF IInv, Inv, MayBe, TxInv, Sound
<1>2. \A a \in Artifacts : artifact'[a] = Left(t, a)
  BY <1>1, ArtifactsMerged DEF Commits, Left
<1>3. Grows
  BY <1>2 DEF Grows, Later, Left, TxSettles
<1>4. PlansKept
  BY <1>1, SetsMerged DEF Commits, PlansKept
<1> QED BY <1>2, <1>3, <1>4

LEMMA CommitSettles ==
  ASSUME IInv, IInv', Settled, NEW r \in Requests, NEW t \in Transaction, MayBe(r, t),
         request[r] \in Transaction, TxSettles(t), Commits(r, t),
         request[r].receipts \subseteq t.receipts, NEW c \in DOMAIN sets',
         NEW new, new = sets'[c]
  PROVE  OverEarlier(new)' /\ Settles(new)' /\ c \in DOMAIN sets
<1>1. Grows /\ PlansKept /\ \A a \in Artifacts : artifact'[a] = Left(t, a)
  BY CommitGrows
<1>2. /\ DOMAIN sets' = DOMAIN sets /\ \A d \in DOMAIN sets : d # t.cs => sets'[d] = sets[d]
      /\ sets'[t.cs].status = IF t.dirty THEN t.status ELSE sets[t.cs].status
      /\ sets'[t.cs].receipts = sets[t.cs].receipts \cup request[r].receipts
  BY SetsMerged DEF Commits, IInv, Inv, MayBe, TxInv, Sound
<1>3. PICK old : old = sets[c]
  OBVIOUS
<1>4. c \in DOMAIN sets /\ new.source = old.source /\ new.planned = old.planned
  BY <1>1, <1>2, <1>3 DEF PlansKept
<1>5. Settles(old)' /\ OverEarlier(new)'
  <2>1. OverEarlier(old)' /\ Settles(old)'
    BY <1>1, <1>3, <1>4, SettlesKept DEF Settled
  <2> QED BY <1>4, <2>1 DEF OverEarlier
<1>6. CASE c # t.cs
  BY <1>2, <1>3, <1>4, <1>5, <1>6
<1>7. CASE c = t.cs
  <2>1. ASSUME NEW i \in Steps(new.source), Changing(new, i),
               i \in new.receipts \/ (new.status = "Verified" /\ ~Gone(new.planned[i]))
        PROVE  artifact'[Target(new.source, i)].rev > new.planned[i].rev
    <3>1. CASE i \in old.receipts \/ (old.status = "Verified" /\ ~Gone(old.planned[i]))
      BY <1>4, <1>5, <2>1, <3>1 DEF Settles, Changing
    <3>2. CASE \/ i \in request[r].receipts
               \/ t.dirty /\ t.status = "Verified" /\ ~Gone(old.planned[i])
      <4>1. Changing(old, i) /\ (i \in t.receipts \/ (Passed(t, i) /\ ~Gone(old.planned[i])))
        BY <1>4, <2>1, <3>2 DEF Changing, Passed
      <4>2. Left(t, Target(old.source, i)).rev > old.planned[i].rev
        BY <1>3, <1>4, <1>7, <2>1, <4>1 DEF TxSettles
      <4>3. Target(old.source, i) \in Artifacts
        BY <1>3, <1>4, <2>1, PlanTyped
      <4> QED BY <1>1, <1>4, <4>2, <4>3
    <3> QED BY <1>2, <1>3, <1>4, <1>7, <2>1, <3>1, <3>2
  <2>2. Settles(new)'
    BY <2>1 DEF Settles, Changing
  <2> QED BY <1>3, <1>4, <1>5, <2>2
<1> QED BY <1>6, <1>7

(* Request r has gone on as t without committing, has begun as t, or has returned. *)
LEMMA StepSettles ==
  ASSUME IInv, Settled, NEW r \in Requests, NEW t, t.pc # "idle" => TxSettles(t), Step(r, t)
  PROVE  Settled' /\ PlansKept
<1>1. request \in [Requests -> {Idle} \cup Transaction]
  BY DEF IInv, Inv, TypeOK
<1>2. UNCHANGED <<artifact, sets>> /\ request'[r] = t
      /\ \A q \in Requests \ {r} : request'[q] = request[q]
  BY <1>1 DEF Step
<1>3. ASSUME NEW u, TxSettles(u) PROVE TxSettles(u)'
  BY <1>2, <1>3 DEF TxSettles, Settles, Changing, Left, Passed
<1>4. ASSUME NEW q \in Requests, Busy(q)' PROVE TxSettles(request[q])'
  <2>1. PICK u : u = request'[q]
    OBVIOUS
  <2>2. TxSettles(u)
    BY <1>2, <1>4, <2>1 DEF Settled, Busy
  <2> QED BY <1>3, <2>1, <2>2
<1>5. \A c \in DOMAIN sets' : OverEarlier(sets[c])' /\ Settles(sets[c])'
  BY <1>2 DEF Settled, OverEarlier, Settles, Changing
<1> QED BY <1>2, <1>4, <1>5 DEF Settled, PlansKept

(* Request r has gone on as t, or has committed as t and gone on or returned. *)
LEMMA GoesSettle ==
  ASSUME IInv, IInv', Settled, NEW r \in Requests, NEW t \in Transaction, MayBe(r, t),
         request[r] \in Transaction, TxSettles(t), Goes(r, t),
         request[r].receipts \subseteq t.receipts \/ Step(r, t)
  PROVE  Settled' /\ PlansKept
<1>1. request \in [Requests -> {Idle} \cup Transaction]
  BY DEF IInv, Inv, TypeOK
<1>2. CASE Step(r, t)
  BY <1>2, StepSettles
<1>3. CASE ~Step(r, t)
  <2>1. Commits(r, t) /\ request[r].receipts \subseteq t.receipts
    BY <1>3 DEF Goes
  <2>2. /\ Grows /\ PlansKept /\ \A a \in Artifacts : artifact'[a] = Left(t, a)
    BY <2>1, CommitGrows
  <2>3. ASSUME NEW c \in DOMAIN sets', NEW new, new = sets'[c]
        PROVE  OverEarlier(new)' /\ Settles(new)' /\ c \in DOMAIN sets
    BY <2>1, <2>3, CommitSettles
  <2>4. ASSUME NEW q \in Requests \ {r}, Busy(q), NEW u, u = request[q]
        PROVE  TxSettles(u)'
    <3>1. u \in Transaction /\ SamePlanSeen(u) /\ TxSettles(u)
      BY <2>4, OwnMayBe DEF Settled
    <3>2. u.wrote \subseteq Artifacts /\ u.wrote \cap t.wrote = {}
      BY <2>4, <3>1, TxFields DEF MayBe
    <3>3. \A a \in u.wrote : artifact'[a] = artifact[a]
      BY <2>2, <3>2 DEF Left
    <3> QED BY <2>2, <3>1, <3>3, TxKept
  <2>5. ASSUME NEW u, u = Carried(r, t) PROVE TxSettles(u)'
    <3>1. u = [t EXCEPT !.view = artifact', !.sets = sets', !.wrote = {}, !.dirty = FALSE]
      BY <2>1, <2>5 DEF Commits, Carried
    <3>2. /\ u.wrote = {} /\ u.sets = sets' /\ u.cs = t.cs /\ u.receipts = t.receipts
          /\ u.pc = t.pc /\ u.next = t.next /\ u.dirty = FALSE
      BY <3>1 DEF Transaction
    <3>3. PICK set : set = sets[t.cs]
      OBVIOUS
    <3>4. t.cs \in DOMAIN sets /\ sets'[t.cs].source = set.source /\ sets'[t.cs].planned = set.planned
      BY <2>2, <3>3 DEF MayBe, TxInv, Sound, SamePlanSeen, PlansKept
    <3>5. ASSUME NEW i \in Steps(set.source), Changing(set, i),
                 i \in u.receipts \/ (Passed(u, i)' /\ ~Gone(set.planned[i]))
          PROVE  artifact'[Target(set.source, i)].rev > set.planned[i].rev
      <4>1. i \in t.receipts \/ (Passed(t, i) /\ ~Gone(set.planned[i]))
        BY <3>2, <3>5 DEF Passed
      <4>2. Left(t, Target(set.source, i)).rev > set.planned[i].rev
        BY <3>3, <3>5, <4>1 DEF TxSettles
      <4>3. Target(set.source, i) \in Artifacts
        BY <3>3, <3>4, <3>5, PlanTyped
      <4> QED BY <2>2, <4>2, <4>3
    <3>6. ASSUME NEW d \in DOMAIN u.sets
          PROVE  /\ d \in DOMAIN sets' /\ Settles(u.sets[d])'
                 /\ u.sets[d].source = sets'[d].source /\ u.sets[d].planned = sets'[d].planned
      <4>1. PICK new : new = sets'[d]
        OBVIOUS
      <4>2. d \in DOMAIN sets' /\ u.sets[d] = new
        BY <3>2, <3>6, <4>1
      <4>3. Settles(new)'
        BY <2>3, <4>1, <4>2
      <4> QED BY <4>1, <4>2, <4>3
    <3>7. \A i \in Steps(sets'[u.cs].source) :
            /\ Changing(sets'[u.cs], i)
            /\ i \in u.receipts \/ (Passed(u, i)' /\ ~Gone(sets'[u.cs].planned[i]))
            => artifact'[Target(sets'[u.cs].source, i)].rev > sets'[u.cs].planned[i].rev
      BY <3>2, <3>4, <3>5 DEF Changing
    <3> QED BY <3>2, <3>6, <3>7 DEF TxSettles, Changing, Left
  <2>6. \A q \in Requests \ {r} : request'[q] = request[q]
    BY <1>1, <1>3 DEF Goes
  <2>7. request'[r] = Carried(r, t) \/ request'[r] = Idle
    BY <1>1, <1>3 DEF Goes
  <2>8. ASSUME NEW q \in Requests, Busy(q)' PROVE TxSettles(request[q])'
    <3>1. PICK u : u = request'[q]
      OBVIOUS
    <3>2. TxSettles(u)'
      <4>1. CASE q = r
        BY <2>5, <2>7, <2>8, <3>1, <4>1 DEF Busy, Idle
      <4>2. CASE q # r
        BY <2>4, <2>6, <2>8, <3>1, <4>2 DEF Busy
      <4> QED BY <4>1, <4>2
    <3> QED BY <3>1, <3>2
  <2>9. ASSUME NEW c \in DOMAIN sets' PROVE OverEarlier(sets[c])' /\ Settles(sets[c])'
    <3>1. PICK new : new = sets'[c]
      OBVIOUS
    <3>2. OverEarlier(new)' /\ Settles(new)'
      BY <2>3, <2>9, <3>1
    <3> QED BY <3>1, <3>2 DEF OverEarlier, Settles, Changing
  <2> QED BY <2>2, <2>8, <2>9 DEF Settled
<1> QED BY <1>2, <1>3

-----------------------------------------------------------------------------
(* What each step makes of what a request answers for *)

(* A step that writes nothing, takes no receipt and comes past no change. *)
LEMMA AlikeSettles ==
  ASSUME NEW tx, NEW t, Alike(tx, t), TxSettles(tx), t.receipts = tx.receipts,
         \A i \in Steps(sets[tx.cs].source) : Passed(t, i) => Passed(tx, i)
  PROVE  TxSettles(t)
<1>1. \A a : Left(t, a) = Left(tx, a)
  BY DEF Alike, Left
<1> QED BY <1>1 DEF Alike, TxSettles

LEMMA CaughtSettles ==
  ASSUME NEW tx \in Transaction, TxSettles(tx)
  PROVE  TxSettles(Caught(tx)) /\ Caught(tx).receipts = tx.receipts
<1>1. PICK n : n = Len(tx.inverses)
  OBVIOUS
<1>2. PICK t : t = [tx EXCEPT !.pc = "undoing", !.next = n]
  OBVIOUS
<1>3. /\ Alike(tx, t) /\ t.receipts = tx.receipts /\ t.pc = "undoing" /\ t.dirty = tx.dirty
      /\ t.status = tx.status
  BY <1>2 DEF Transaction, Alike
<1>4. TxSettles(t)
  BY <1>3, AlikeSettles DEF Passed
<1> QED BY <1>1, <1>2, <1>3, <1>4 DEF Caught

(* The artifact of the next change is beyond the plan. *)
Beyond(t) == LET set == sets[t.cs] IN
  Left(t, Target(set.source, t.next)).rev > set.planned[t.next].rev

(* The request comes past its next change, with these receipts. *)
PastNext(t, receipts) == [t EXCEPT !.receipts = receipts, !.next = @ + 1]

ComesPast(t, u) ==
  /\ Alike(t, u) /\ u.pc = t.pc /\ u.dirty = t.dirty /\ u.status = t.status
  /\ u.next = t.next + 1

(* The next change is done: it changes nothing, is written, or a verified change set of the same
   plan, whose receipt answers for it, has gone beyond it. *)
LEMMA NextSettles ==
  ASSUME IInv, NEW t \in Transaction, SamePlanSeen(t), TxSettles(t), t.pc = "applying",
         t.next \in Steps(sets[t.cs].source), NEW receipts \in SUBSET Nat,
         \A i \in receipts : i \in t.receipts \/ i = t.next,
         \/ ~Changing(sets[t.cs], t.next)
         \/ Gone(sets[t.cs].planned[t.next]) /\ receipts = t.receipts
         \/ Beyond(t),
         NEW u, ComesPast(t, u), u.receipts = receipts
  PROVE  TxSettles(u)
<1>1. PICK set : set = sets[t.cs]
  OBVIOUS
<1>2. t.next \in Nat
  BY TxFields
<1>3. Alike(t, u) /\ u.pc = t.pc /\ u.dirty = t.dirty /\ u.status = t.status /\ u.next = t.next + 1
  BY DEF ComesPast
<1>4. \A a : Left(u, a) = Left(t, a)
  BY <1>3 DEF Alike, Left
<1>5. ASSUME NEW i \in Steps(set.source), Changing(set, i),
             i \in receipts \/ (Passed(u, i) /\ ~Gone(set.planned[i]))
      PROVE  Left(t, Target(set.source, i)).rev > set.planned[i].rev
  <2>1. i \in Nat
    BY <1>1, <1>5, PlanTyped DEF SamePlanSeen
  <2>2. CASE i = t.next
    <3>1. CASE i \in t.receipts
      BY <1>1, <1>5, <3>1 DEF TxSettles
    <3>2. CASE i \notin t.receipts
      BY <1>1, <1>5, <2>2, <3>2 DEF Beyond
    <3> QED BY <3>1, <3>2
  <2>3. CASE i # t.next
    <3>1. i \in t.receipts \/ (Passed(t, i) /\ ~Gone(set.planned[i]))
      BY <1>2, <1>3, <1>5, <2>1, <2>3 DEF Passed
    <3> QED BY <1>1, <1>5, <3>1 DEF TxSettles
  <2> QED BY <2>2, <2>3
<1> QED BY <1>1, <1>3, <1>4, <1>5 DEF TxSettles, Alike

(* A verified change set of the same plan has gone beyond it. *)
LEMMA ReceiptBeyond ==
  ASSUME IInv, NEW t \in Transaction, SamePlanSeen(t), TxSettles(t),
         t.next \in Steps(sets[t.cs].source), NEW d \in Receipts(t), Matching(t.sets, d, t.cs),
         Changing(sets[t.cs], t.next), ~Gone(sets[t.cs].planned[t.next])
  PROVE  Beyond(t)
<1>1. PICK i : i = t.next
  OBVIOUS
<1>2. PICK set, own : set = t.sets[d] /\ own = sets[t.cs]
  OBVIOUS
<1>3. d \in DOMAIN t.sets /\ set.status = "Verified"
  BY <1>2 DEF Receipts, ReceiptsFor
<1>4. set.source = own.source /\ SameRow(set.planned[i], own.planned[i])
  BY <1>1, <1>2 DEF Matching, SamePlan, SamePlanSeen
<1>5. /\ Changing(set, i) /\ ~Gone(set.planned[i])
      /\ set.planned[i].rev = own.planned[i].rev
  BY <1>1, <1>2, <1>4 DEF Changing, Gone, SameRow
<1>6. PICK a \in Artifacts : a = Target(own.source, i)
  BY <1>1, <1>2, PlanTyped DEF SamePlanSeen
<1>7. artifact[a].rev > own.planned[i].rev
  BY <1>1, <1>2, <1>3, <1>4, <1>5, <1>6 DEF TxSettles, Settles
<1>8. PICK old \in ArtifactRow, seen \in ArtifactRow, row \in ArtifactRow :
        old = artifact[a] /\ seen = t.view[a] /\ row = own.planned[i]
  <2>1. artifact[a] \in ArtifactRow /\ t.view[a] \in ArtifactRow
    BY TxFields DEF IInv, Inv, TypeOK
  <2> QED BY <1>1, <1>2, <2>1, PlanTyped DEF SamePlanSeen
<1>9. old.rev \in Nat /\ seen.rev \in Nat /\ row.rev \in Nat
  BY RowFields
<1>10. a \in t.wrote => seen.rev > old.rev
  BY <1>8 DEF TxSettles
<1>11. old.rev > row.rev
  BY <1>7, <1>8
<1>12. Left(t, a).rev > row.rev
  BY <1>8, <1>9, <1>10, <1>11 DEF Left
<1> QED BY <1>1, <1>2, <1>6, <1>8, <1>12 DEF Beyond

(* An effect or a restored row is a revision beyond every plan. *)
LEMMA WrittenSettles ==
  ASSUME IInv, Settled, NEW tx \in Transaction, SamePlanSeen(tx), TxSettles(tx),
         NEW a \in Artifacts, NEW t \in Transaction, Accounts(tx, t), Rewrites(tx, t, a),
         \A i \in Steps(sets[tx.cs].source) : Passed(t, i) => Passed(tx, i)
  PROVE  /\ TxSettles(t)
         /\ \A i \in Steps(sets[tx.cs].source) : Target(sets[tx.cs].source, i) = a =>
              Left(t, a).rev > sets[tx.cs].planned[i].rev
<1>1. PICK set : set = sets[tx.cs]
  OBVIOUS
<1>2. PICK old \in ArtifactRow : old = artifact[a]
  BY DEF IInv, Inv, TypeOK
<1>3. old.rev \in Nat /\ Left(t, a).rev = old.rev + 1
  BY <1>2, RowFields DEF Left, Rewrites
<1>4. ASSUME NEW i \in Steps(set.source), Target(set.source, i) = a
      PROVE  Left(t, a).rev > set.planned[i].rev
  <2>1. PICK row \in ArtifactRow : row = set.planned[i] /\ row.rev \in Nat
    BY <1>1, <1>4, PlanTyped DEF SamePlanSeen
  <2>2. Later(old, row)
    BY <1>1, <1>2, <1>4, <2>1 DEF Settled, OverEarlier, SamePlanSeen
  <2> QED BY <1>3, <2>1, <2>2 DEF Later
<1>5. \A b \in t.wrote : t.view[b].rev > artifact[b].rev
  <2>1. tx.wrote \subseteq Artifacts
    BY TxFields
  <2>2. old.rev + 1 > old.rev
    BY <1>3
  <2> QED BY <1>2, <2>1, <2>2 DEF TxSettles, Rewrites
<1>6. \A b \in Artifacts \ {a} : Left(t, b) = Left(tx, b)
  BY DEF Left, Rewrites
<1>7. ASSUME NEW i \in Steps(set.source), Changing(set, i),
             i \in t.receipts \/ (Passed(t, i) /\ ~Gone(set.planned[i]))
      PROVE  Left(t, Target(set.source, i)).rev > set.planned[i].rev
  <2>1. PICK b \in Artifacts : b = Target(set.source, i)
    BY <1>1, <1>7, PlanTyped DEF SamePlanSeen
  <2>2. CASE b = a
    BY <1>4, <1>7, <2>1, <2>2
  <2>3. CASE b # a
    <3>1. Left(tx, b).rev > set.planned[i].rev
      BY <1>1, <1>7, <2>1 DEF TxSettles, Accounts
    <3> QED BY <1>6, <2>1, <2>3, <3>1
  <2> QED BY <2>2, <2>3
<1> QED BY <1>1, <1>4, <1>5, <1>7 DEF TxSettles, Accounts

-----------------------------------------------------------------------------
(* Every step is one of those *)

Settling(r, t) ==
  Settled => TxSettles(t) /\ (request[r].receipts \subseteq t.receipts \/ Step(r, t))

Acts(r) == End(r) \/ \E t \in Transaction : MayBe(r, t) /\ Goes(r, t) /\ Settling(r, t)

LEMMA ProceedGoes ==
  ASSUME NEW r, NEW t, NEW a, Proceed(r, t, a), t.pc \in {"applying", "undoing"}
  PROVE  Goes(r, t)
BY DEF Proceed, Goes, Step, Commits, Carried

(* An exception is caught by a request that is applying. *)
LEMMA CaughtMayBe ==
  ASSUME NEW r \in Requests, NEW tx \in Transaction, MayBe(r, tx), tx.pc = "applying"
  PROVE  Caught(tx) \in Transaction /\ MayBe(r, Caught(tx)) /\ Caught(tx).pc = "undoing"
<1>1. tx.inverses \in Seq(Nat) /\ tx.next \in Nat
  BY TxFields
<1>2. PICK n \in Nat : n = Len(tx.inverses)
  BY <1>1, LenProperties
<1>3. PICK t \in Transaction : t = [tx EXCEPT !.pc = "undoing", !.next = n]
  BY DEF Transaction
<1>4. t = Caught(tx)
  BY <1>2, <1>3 DEF Caught
<1>5. Alike(tx, t) /\ Onward(tx, t) /\ t.pc = "undoing" /\ t.next = n
  BY <1>2, <1>3 DEF Transaction, Alike, Onward
<1> QED BY <1>1, <1>2, <1>4, <1>5, OnwardMayBe

LEMMA ApplyActs ==
  ASSUME IInv, NEW r \in Requests, Busy(r),
         \/ Replayed(r) \/ Conflict(r) \/ Keep(r) \/ Write(r) \/ WriteRefused(r)
         \/ WriteUnverified(r) \/ DeadlockVictim(r)
  PROVE  Acts(r)
<1>1. PICK tx \in Transaction :
        /\ tx = request[r] /\ MayBe(r, tx) /\ SamePlanSeen(tx)
        /\ Settled => TxSettles(tx)
  BY OwnMayBe DEF Settled
<1>2. Applying(r) /\ tx.pc = "applying" /\ tx.next \in Steps(Source(tx))
  BY <1>1 DEF Replayed, Conflict, Keep, Write, WriteRefused, WriteUnverified, DeadlockVictim,
              WaitsFor, Writing, Due, Applying
<1>3. tx.next \in Nat /\ tx.next > 0 /\ tx.receipts \in SUBSET Nat
  BY <1>1, <1>2, PlannedRow, TxFields
<1>4. Caught(tx) \in Transaction /\ MayBe(r, Caught(tx)) /\ (Settled => TxSettles(Caught(tx)))
  BY <1>1, <1>2, CaughtMayBe, CaughtSettles
<1>5. ASSUME NEW t \in Transaction, MayBe(r, t), t.pc = "applying", t.next = tx.next,
             NEW receipts \in SUBSET Nat,
             NEW u, u = PastNext(t, receipts)
      PROVE  /\ u \in Transaction /\ MayBe(r, u) /\ u.pc = "applying"
             /\ ComesPast(t, u) /\ u.receipts = receipts
  <2>1. PICK n \in Nat : n = tx.next + 1
    BY <1>3
  <2>2. u = [t EXCEPT !.receipts = receipts, !.next = n]
    BY <1>5, <2>1 DEF Transaction, PastNext
  <2>3. u \in Transaction
    BY <2>2 DEF Transaction
  <2>4. Alike(t, u) /\ Onward(t, u) /\ u.pc = "applying"
    BY <1>3, <1>5, <2>1, <2>2 DEF Transaction, Alike, Onward
  <2>6. ComesPast(t, u) /\ u.receipts = receipts
    BY <1>5, <2>1, <2>2, <2>4 DEF Transaction, ComesPast
  <2>5. Len(t.inverses) \in Nat /\ u.next \in Nat /\ t.next \in Nat
    <3>1. t.inverses \in Seq(Nat)
      BY TxFields
    <3> QED BY <2>3, <3>1, LenProperties, TxFields
  <2> QED BY <1>5, <2>3, <2>4, <2>5, <2>6, OnwardMayBe
<1>6. /\ Source(tx) = sets[tx.cs].source /\ Plan(tx).planned = sets[tx.cs].planned
      /\ tx.next \in Steps(sets[tx.cs].source)
  BY <1>1, <1>2, OwnSet DEF IInv, Inv
<1>7. ASSUME NEW t \in Transaction, Step(r, t), MayBe(r, t), Settled => TxSettles(t)
      PROVE  Acts(r)
  BY <1>7 DEF Acts, Goes, Settling
<1>8. CASE Replayed(r)
  <2>1. PICK d \in Receipts(tx) :
          Step(r, IF Matching(tx.sets, d, tx.cs) THEN [tx EXCEPT !.next = @ + 1] ELSE Caught(tx))
    BY <1>1, <1>8 DEF Replayed
  <2>2. PICK t : t = PastNext(tx, tx.receipts)
    OBVIOUS
  <2>3. t \in Transaction /\ MayBe(r, t) /\ ComesPast(tx, t) /\ t.receipts = tx.receipts
    BY <1>1, <1>2, <1>3, <1>5, <2>2
  <2>4. t = [tx EXCEPT !.next = @ + 1]
    BY <2>2 DEF Transaction, PastNext
  <2>5. ASSUME Settled, Matching(tx.sets, d, tx.cs) PROVE TxSettles(t)
    <3>1. ASSUME Changing(sets[tx.cs], tx.next), ~Gone(sets[tx.cs].planned[tx.next])
          PROVE  Beyond(tx)
      BY <1>1, <1>6, <2>5, <3>1, ReceiptBeyond
    <3> QED BY <1>1, <1>2, <1>3, <1>6, <2>3, <2>5, <3>1, NextSettles
  <2> QED BY <1>4, <1>7, <2>1, <2>3, <2>4, <2>5
<1>9. CASE Conflict(r)
  BY <1>1, <1>4, <1>7, <1>9 DEF Conflict
<1>10. CASE Keep(r)
  <2>1. PICK receipts \in SUBSET Nat : receipts = tx.receipts \cup {tx.next}
    BY <1>3
  <2>2. PICK t : t = PastNext(tx, receipts)
    OBVIOUS
  <2>3. t \in Transaction /\ MayBe(r, t) /\ ComesPast(tx, t) /\ t.receipts = receipts
    BY <1>1, <1>2, <1>5, <2>2
  <2>4. t = [tx EXCEPT !.receipts = @ \cup {tx.next}, !.next = @ + 1]
    BY <2>1, <2>2 DEF Transaction, PastNext
  <2>5. Step(r, t)
    BY <1>1, <1>10, <2>4 DEF Keep
  <2>6. ASSUME Settled PROVE TxSettles(t)
    <3>1. ~Changing(sets[tx.cs], tx.next)
      BY <1>1, <1>6, <1>10 DEF Keep, Changing, Source, Plan
    <3> QED BY <1>1, <1>2, <1>6, <2>1, <2>3, <2>6, <3>1, NextSettles
  <2> QED BY <1>7, <2>3, <2>5, <2>6
<1>11. CASE WriteRefused(r)
  BY <1>1, <1>4, <1>7, <1>11 DEF WriteRefused
<1>12. CASE DeadlockVictim(r)
  <2>1. PICK t : t = [Caught(tx) EXCEPT !.view = artifact, !.sets = sets, !.wrote = {},
                                        !.dirty = FALSE, !.receipts = {}]
    OBVIOUS
  <2>2. t \in Transaction /\ MayBe(r, t)
    BY <1>1, <1>2, <2>1, VictimMayBe
  <2>3. Step(r, t)
    BY <1>1, <1>12, <2>1 DEF DeadlockVictim
  <2>4. ASSUME Settled PROVE TxSettles(t)
    <3>1. /\ t.wrote = {} /\ t.sets = sets /\ t.receipts = {} /\ t.pc = "undoing"
          /\ t.dirty = FALSE
      BY <1>4, <2>1 DEF Transaction, Caught
    <3> QED BY <2>4, <3>1 DEF Settled, TxSettles, Passed
  <2> QED BY <1>7, <2>2, <2>3, <2>4
<1>13. CASE Write(r) \/ WriteUnverified(r)
  <2>1. PICK e : e = Effect(tx)
    OBVIOUS
  <2>2. /\ e \in Transaction /\ MayBe(r, e) /\ e.pc = "applying" /\ e.next = tx.next
        /\ Accounts(tx, e) /\ Rewrites(tx, e, AtTarget(tx))
    <3>1. CurrentMatches(tx) /\ Takes(tx, AtTarget(tx)) /\ ~WrittenByOther(r, AtTarget(tx))
      BY <1>1, <1>13 DEF Write, WriteUnverified, Writing
    <3> QED BY <1>1, <1>2, <2>1, <3>1, EffectMayBe
  <2>3. PICK a \in Artifacts : a = AtTarget(tx) /\ a = Target(sets[tx.cs].source, tx.next)
    BY <1>1, <1>2, <1>6, PlannedRow DEF AtTarget
  <2>4. ASSUME Settled
        PROVE  TxSettles(e) /\ Left(e, a).rev > sets[tx.cs].planned[tx.next].rev
    <3>1. TxSettles(tx) /\ \A i : Passed(e, i) => Passed(tx, i)
      BY <1>1, <1>2, <2>2, <2>4 DEF Passed, Accounts
    <3> QED BY <1>1, <1>6, <2>2, <2>3, <2>4, <3>1, WrittenSettles
  <2>5. CASE Write(r)
    <3>1. e.receipts \in SUBSET Nat
      BY <2>2, TxFields
    <3>2. PICK receipts \in SUBSET Nat : receipts = e.receipts \cup {tx.next}
      BY <1>3, <3>1
    <3>3. PICK t : t = PastNext(e, receipts)
      OBVIOUS
    <3>4. /\ t \in Transaction /\ MayBe(r, t) /\ t.pc = "applying"
          /\ ComesPast(e, t) /\ t.receipts = receipts
      BY <1>5, <2>2, <3>3
    <3>5. t = [e EXCEPT !.receipts = @ \cup {tx.next}, !.next = @ + 1]
      BY <2>2, <3>2, <3>3 DEF Transaction, PastNext
    <3>6. Proceed(r, t, AtTarget(tx))
      BY <1>1, <2>1, <2>5, <3>5 DEF Write
    <3>7. ASSUME Settled PROVE TxSettles(t) /\ t.receipts = receipts
      <4>1. TxSettles(e) /\ Beyond(e)
        BY <2>2, <2>3, <2>4, <3>7 DEF Accounts, Beyond
      <4>2. SamePlanSeen(e) /\ e.next \in Steps(sets[e.cs].source)
        BY <1>1, <1>6, <2>2 DEF Accounts, SamePlanSeen
      <4>3. \A i \in receipts : i \in e.receipts \/ i = e.next
        BY <2>2, <3>2
      <4>4. e \in Transaction /\ e.pc = "applying"
        BY <2>2
      <4> QED BY <3>4, <4>1, <4>2, <4>3, <4>4, NextSettles
    <3>8. Settling(r, t)
      BY <1>1, <2>2, <3>2, <3>7 DEF Settling, Accounts
    <3> QED BY <3>4, <3>6, <3>8, ProceedGoes DEF Acts
  <2>6. CASE WriteUnverified(r)
    <3>1. PICK t : t = Caught(e)
      OBVIOUS
    <3>2. t \in Transaction /\ MayBe(r, t) /\ t.pc = "undoing"
      BY <2>2, <3>1, CaughtMayBe
    <3>3. Proceed(r, t, AtTarget(tx))
      BY <1>1, <2>1, <2>6, <3>1 DEF WriteUnverified
    <3>4. ASSUME Settled PROVE TxSettles(t) /\ t.receipts = e.receipts
      BY <2>2, <2>4, <3>1, <3>4, CaughtSettles
    <3>5. Settling(r, t)
      BY <1>1, <2>2, <3>4 DEF Settling, Accounts
    <3> QED BY <3>2, <3>3, <3>5, ProceedGoes DEF Acts
  <2> QED BY <1>13, <2>5, <2>6
<1> QED BY <1>8, <1>9, <1>10, <1>11, <1>12, <1>13

LEMMA UndoActs ==
  ASSUME IInv, NEW r \in Requests, Busy(r),
         BeginRollback(r) \/ Undo(r) \/ UndoFails(r) \/ UndoRefused(r)
  PROVE  Acts(r)
<1>1. PICK tx \in Transaction :
        /\ tx = request[r] /\ MayBe(r, tx) /\ SamePlanSeen(tx)
        /\ Settled => TxSettles(tx)
  BY OwnMayBe DEF Settled
<1>2. tx.next \in Nat /\ tx.inverses \in Seq(Nat) /\ Len(tx.inverses) \in Nat
  <2>1. tx.next \in Nat /\ tx.inverses \in Seq(Nat)
    BY TxFields
  <2> QED BY <2>1, LenProperties
<1>3. CASE BeginRollback(r)
  <2>1. PICK n \in Nat : n = Len(tx.inverses)
    BY <1>2
  <2>2. PICK t \in Transaction : t = [tx EXCEPT !.pc = "undoing", !.next = n]
    BY DEF Transaction
  <2>3. /\ Alike(tx, t) /\ Onward(tx, t) /\ t.next = n /\ t.pc = "undoing"
        /\ Accounts(tx, t)
    BY <1>1, <1>3, <2>1, <2>2 DEF Transaction, Alike, Onward, BeginRollback, Accounts
  <2>4. Step(r, t)
    BY <1>1, <1>3, <2>1, <2>2 DEF BeginRollback
  <2>5. Settling(r, t)
    BY <1>1, <2>3, <2>4, AlikeSettles DEF Settling, Passed, Accounts
  <2> QED BY <1>1, <1>2, <2>3, <2>4, <2>5, OnwardMayBe DEF Acts, Goes
<1>4. CASE Undo(r)
  <2>1. Undoing(r)
    BY <1>4 DEF Undo
  <2>2. CASE Gone(tx.view[Undone(tx)]) /\ Step(r, [tx EXCEPT !.next = @ - 1])
    <3>1. PICK t : t = [tx EXCEPT !.next = @ - 1]
      OBVIOUS
    <3>2. t \in Transaction /\ MayBe(r, t) /\ Accounts(tx, t) /\ t.pc = "undoing"
      BY <1>1, <2>1, <2>2, <3>1, UndoneMayBe
    <3>3. Alike(tx, t)
      BY <3>1 DEF Alike, Transaction
    <3>4. ASSUME Settled PROVE TxSettles(t)
      <4>1. TxSettles(tx) /\ \A i : Passed(t, i) => Passed(tx, i)
        BY <1>1, <3>2, <3>4 DEF Passed, Accounts
      <4> QED BY <3>2, <3>3, <4>1, AlikeSettles DEF Accounts
    <3> QED BY <2>2, <3>1, <3>2, <3>4 DEF Acts, Goes, Settling
  <2>3. CASE ~(Gone(tx.view[Undone(tx)]) /\ Step(r, [tx EXCEPT !.next = @ - 1]))
    <3>1. PICK t : t = [Restored(tx) EXCEPT !.next = @ - 1]
      OBVIOUS
    <3>2. ~WrittenByOther(r, Undone(tx)) /\ (Step(r, t) \/ Proceed(r, t, Undone(tx)))
      BY <1>1, <1>4, <2>3, <3>1 DEF Undo, Restorable
    <3>3. /\ t \in Transaction /\ MayBe(r, t) /\ t.pc = "undoing" /\ Undone(tx) \in Artifacts
          /\ Accounts(tx, t) /\ (Alike(tx, t) \/ Rewrites(tx, t, Undone(tx)))
      BY <1>1, <2>1, <3>1, <3>2, UndoneMayBe
    <3>4. Goes(r, t)
      BY <3>2, <3>3, ProceedGoes DEF Goes
    <3>5. ASSUME Settled PROVE TxSettles(t)
      <4>1. TxSettles(tx) /\ \A i : Passed(t, i) => Passed(tx, i)
        BY <1>1, <3>3, <3>5 DEF Passed, Accounts
      <4>2. CASE Alike(tx, t)
        BY <3>3, <4>1, <4>2, AlikeSettles DEF Accounts
      <4>3. CASE Rewrites(tx, t, Undone(tx))
        BY <1>1, <3>3, <3>5, <4>1, <4>3, WrittenSettles
      <4> QED BY <3>3, <4>2, <4>3
    <3>6. Settling(r, t)
      BY <1>1, <3>3, <3>5 DEF Settling, Accounts
    <3> QED BY <3>3, <3>4, <3>6 DEF Acts
  <2> QED BY <2>2, <2>3
<1>5. CASE UndoFails(r)
  <2>1. tx.pc = "undoing" /\ tx.next > 0
    BY <1>1, <1>5 DEF UndoFails, Undoing
  <2>2. PICK n \in Nat : n = IF tx.mode = "rollback" THEN 0 ELSE tx.next - 1
    BY <1>2, <2>1
  <2>3. PICK t \in Transaction : t = [tx EXCEPT !.failed = TRUE, !.next = n]
    BY DEF Transaction
  <2>4. /\ Alike(tx, t) /\ Onward(tx, t) /\ t.next = n /\ t.pc = "undoing"
        /\ Accounts(tx, t)
    BY <1>2, <2>1, <2>2, <2>3 DEF Transaction, Alike, Onward, Accounts
  <2>5. Step(r, t)
    <3>1. t = [tx EXCEPT !.failed = TRUE,
                         !.next = IF tx.mode = "rollback" THEN 0 ELSE @ - 1]
      BY <2>2, <2>3 DEF Transaction
    <3> QED BY <1>1, <1>5, <3>1 DEF UndoFails
  <2>6. Settling(r, t)
    BY <1>1, <2>4, <2>5, AlikeSettles DEF Settling, Passed, Accounts
  <2> QED BY <1>1, <1>2, <2>4, <2>5, <2>6, OnwardMayBe DEF Acts, Goes
<1>6. CASE UndoRefused(r)
  BY <1>6 DEF UndoRefused, Acts
<1> QED BY <1>3, <1>4, <1>5, <1>6

LEMMA LockActs ==
  ASSUME IInv, NEW r \in Requests, Busy(r),
         Lock(r) \/ LockTimesOut(r) \/ Begin(r) \/ FinishApply(r) \/ FinishUndo(r) \/ Commit(r)
  PROVE  Acts(r)
<1>1. PICK tx \in Transaction :
        /\ tx = request[r] /\ MayBe(r, tx) /\ SamePlanSeen(tx)
        /\ Settled => TxSettles(tx)
  BY OwnMayBe DEF Settled
<1>2. ASSUME NEW t \in Transaction, Step(r, t), MayBe(r, t), Alike(tx, t), t.receipts = tx.receipts,
             \A i \in Steps(sets[tx.cs].source) : Passed(t, i) => Passed(tx, i)
      PROVE  Acts(r)
  BY <1>1, <1>2, AlikeSettles DEF Acts, Goes, Settling
<1>3. CASE Lock(r)
  <2>1. PICK t : t = [tx EXCEPT !.held = @ \cup {NextLock(tx)}]
    OBVIOUS
  <2>2. t \in Transaction /\ MayBe(r, t) /\ Step(r, t)
    BY <1>1, <1>3, <2>1, LockMayBe DEF Lock
  <2>3. Alike(tx, t) /\ Accounts(tx, t) /\ t.pc = tx.pc /\ t.next = tx.next
    BY <2>1 DEF Transaction, Alike, Accounts
  <2> QED BY <1>2, <2>2, <2>3 DEF Passed, Accounts
<1>4. CASE LockTimesOut(r)
  BY <1>4 DEF LockTimesOut, Acts
<1>5. CASE Begin(r)
  <2>1. PICK t : t = [tx EXCEPT !.pc = "applying", !.status = "Applying", !.dirty = TRUE,
                                !.inverses = <<>>]
    OBVIOUS
  <2>2. t \in Transaction /\ MayBe(r, t) /\ Step(r, t)
    BY <1>1, <1>5, <2>1, BeginMayBe DEF Begin
  <2>3. /\ Alike(tx, t) /\ t.receipts = tx.receipts /\ t.next = tx.next
        /\ t.status = "Applying" /\ tx.pc = "locking"
    BY <1>1, <1>5, <2>1 DEF Transaction, Alike, Begin
  <2> QED BY <1>2, <2>2, <2>3 DEF Passed
<1>6. CASE FinishApply(r)
  <2>1. PICK t : t = [tx EXCEPT !.pc = "finished", !.status = "Verified", !.dirty = TRUE,
                                !.held = {}]
    OBVIOUS
  <2>2. t \in Transaction /\ MayBe(r, t) /\ Step(r, t)
    BY <1>1, <1>6, <2>1, FinishedMayBe DEF FinishApply, Finished
  <2>3. Alike(tx, t) /\ t.receipts = tx.receipts
    BY <2>1 DEF Transaction, Alike
  <2>4. tx.pc = "applying" /\ tx.next \notin Steps(Source(tx)) /\ tx.next > 0
    BY <1>1, <1>6 DEF FinishApply, Applying, MayBe, TxInv, Sound
  <2>5. /\ Source(tx) = sets[tx.cs].source /\ Steps(Source(tx)) = 1..Len(Changes[Source(tx)])
        /\ Len(Changes[Source(tx)]) \in Nat /\ tx.next \in Nat
    BY <1>1, OwnSet, ChangeFields, TxFields DEF IInv, Inv
  <2>6. \A i \in Steps(sets[tx.cs].source) : i < tx.next
    BY <2>4, <2>5
  <2> QED BY <1>2, <2>2, <2>3, <2>4, <2>6 DEF Passed
<1>7. CASE FinishUndo(r)
  <2>1. PICK t : t = [tx EXCEPT !.pc = "finished", !.status = Outcome(tx), !.dirty = TRUE,
                                !.held = {}]
    OBVIOUS
  <2>2. t \in Transaction /\ MayBe(r, t) /\ Step(r, t)
    BY <1>1, <1>7, <2>1, FinishedMayBe DEF FinishUndo, Finished
  <2>3. /\ Alike(tx, t) /\ t.receipts = tx.receipts /\ t.pc = "finished"
        /\ t.status # "Verified"
    BY <2>1 DEF Transaction, Alike, Outcome
  <2> QED BY <1>2, <2>2, <2>3 DEF Passed
<1>8. CASE Commit(r)
  BY <1>1, <1>8 DEF Commit, Commits, Acts, Goes, Settling
<1> QED BY <1>3, <1>4, <1>5, <1>6, <1>7, <1>8

LEMMA ActsKeeps ==
  ASSUME IInv, NEW r \in Requests, Busy(r), Acts(r), Bounded
  PROVE  IInv'
<1>1. request[r] \in Transaction
  BY OwnMayBe
<1>2. CASE End(r)
  BY <1>2, EndKeeps
<1>3. CASE \E t \in Transaction : MayBe(r, t) /\ Goes(r, t)
  <2>1. PICK t \in Transaction : MayBe(r, t) /\ Goes(r, t)
    BY <1>3
  <2>2. CASE Step(r, t)
    BY <2>1, <2>2, StepKeeps
  <2>3. CASE /\ t.pc \in {"applying", "undoing"} /\ Commits(r, t)
             /\ request' = [request EXCEPT ![r] = Carried(r, t)]
    BY <1>1, <2>1, <2>3, CarryKeeps
  <2>4. CASE Commits(r, t) /\ request' = [request EXCEPT ![r] = Idle]
    BY <1>1, <2>1, <2>4, ReturnKeeps
  <2> QED BY <2>1, <2>2, <2>3, <2>4 DEF Goes
<1> QED BY <1>2, <1>3 DEF Acts

LEMMA ProceedsActs ==
  ASSUME IInv, NEW r \in Requests, Proceeds(r) \/ Crash(r)
  PROVE  Busy(r) /\ Acts(r) /\ Bounded
<1>1. /\ Idle.pc = "idle" /\ edits \in 0..MaxEdits /\ faults \in 0..MaxFaults
      /\ request[r] = Idle \/ request[r] \in Transaction
  BY DEF Idle, IInv, Inv, TypeOK
<1>2. Busy(r)
  BY DEF Busy, Proceeds, Crash, Lock, LockTimesOut, WaitsForLock, Begin, Replayed, Conflict, Keep,
         Write, WriteRefused, WriteUnverified, DeadlockVictim, WaitsFor, Writing, Due, Applying,
         FinishApply, BeginRollback, Undo, UndoFails, UndoRefused, Undoing, FinishUndo, Commit
<1>3. Acts(r)
  <2>1. CASE Crash(r)
    BY <2>1 DEF Crash, Acts
  <2>2. CASE Proceeds(r)
    BY <1>2, <2>2, LockActs, ApplyActs, UndoActs DEF Proceeds
  <2> QED BY <2>1, <2>2
<1>4. edits' = edits /\ (faults' = faults \/ Fault)
  BY DEF Proceeds, Crash, Lock, LockTimesOut, Begin, Replayed, Conflict, Keep,
         Write, WriteRefused, WriteUnverified, DeadlockVictim,
         FinishApply, BeginRollback, Undo, UndoFails, UndoRefused, FinishUndo, Commit
<1>5. faults' \in 0..MaxFaults
  <2>1. Fault => faults' \in 0..MaxFaults
    BY <1>1 DEF Fault
  <2> QED BY <1>1, <1>4, <2>1
<1> QED BY <1>1, <1>2, <1>3, <1>4, <1>5 DEF Bounded

LEMMA StartKeeps ==
  ASSUME IInv, NEW r \in Requests, NEW c \in DOMAIN sets, StartApply(r, c) \/ StartRollback(r, c)
  PROVE  IInv' /\ UNCHANGED artifact
<1>1. PICK mode \in {"apply", "rollback"} :
        /\ mode = "apply" => sets[c].status = "Approved"
        /\ mode = "rollback" => sets[c].status = "Verified"
        /\ Step(r, Begun(mode, c))
  BY DEF StartApply, StartRollback, Applicable
<1>2. ~Busy(r) /\ Free(c) /\ UNCHANGED <<edits, faults>>
  BY DEF StartApply, StartRollback
<1>3. PICK t : t = Begun(mode, c)
  OBVIOUS
<1>4. t \in Transaction /\ MayBe(r, t)
  BY <1>1, <1>2, <1>3, BegunMayBe
<1>5. Bounded
  BY <1>2 DEF Bounded, IInv, Inv, TypeOK
<1>6. Step(r, t)
  BY <1>1, <1>3
<1> QED BY <1>4, <1>5, <1>6, StepKeeps DEF Step

-----------------------------------------------------------------------------
(* Steps of users and approvers *)

LEMMA EditKeeps ==
  ASSUME IInv, NEW a \in Artifacts, Edit(a)
  PROVE  IInv' /\ artifact'[a].by = 0 /\ \A b \in Artifacts \ {a} : artifact'[b] = artifact[b]
<1>1. TypeOK /\ artifact \in [Artifacts -> ArtifactRow]
  BY DEF IInv, Inv, TypeOK
<1>2. PICK row \in ArtifactRow : artifact' = [artifact EXCEPT ![a] = row] /\ row.by = 0
  <2>1. PICK content \in {"user", "absent"} :
          artifact' = [artifact EXCEPT ![a] =
                         [content |-> content, rev |-> artifact[a].rev + 1, by |-> 0]]
    BY DEF Edit
  <2>2. artifact[a].rev + 1 \in Nat
    BY <1>1, RowFields
  <2>3. [content |-> content, rev |-> artifact[a].rev + 1, by |-> 0] \in ArtifactRow
    BY <2>2 DEF ArtifactRow
  <2> QED BY <2>1, <2>3
<1>3. artifact'[a] = row /\ \A b \in Artifacts \ {a} : artifact'[b] = artifact[b]
  BY <1>1, <1>2
<1>4. /\ UNCHANGED <<sets, request, faults>> /\ edits' \in 0..MaxEdits
      /\ \A q \in Requests : Busy(q) => a \notin request[q].wrote
  BY <1>1 DEF Edit, TypeOK
<1>5. TypeOK'
  BY <1>1, <1>2, <1>4 DEF TypeOK
<1>6. RowsSound'
  <2>1. Len(sets) \in Nat
    BY <1>1 DEF TypeOK
  <2> QED BY <1>2, <1>3, <1>4, <2>1 DEF IInv, Inv, RowsSound, RowSound
<1>7. ASSUME NEW q \in Requests, Busy(q)'
      PROVE  TxInv(request[q])' /\ (Exclusive => TxAnswers(request[q])')
  <2>1. PICK u : u = request[q]
    OBVIOUS
  <2>2. Busy(q) /\ u = request'[q]
    BY <1>4, <1>7, <2>1 DEF Busy
  <2>3. u \in Transaction /\ TxInv(u) /\ a \notin u.wrote /\ (Exclusive => TxAnswers(u))
    BY <1>4, <2>1, <2>2, OwnMayBe DEF MayBe
  <2>4. u.wrote \subseteq Artifacts /\ u.cs # 0
    BY <1>1, <2>3, TxFields, OwnSet DEF TxInv, Sound
  <2>5. TxInv(u)'
    <3>1. Sound(u)'
      BY <1>4, <2>3 DEF TxInv, Sound, SamePlanSeen
    <3>2. WrittenOverPlan(u)'
      BY <1>3, <1>4, <2>3, <2>4 DEF TxInv, WrittenOverPlan, OverPlan
    <3> QED BY <2>3, <3>1, <3>2 DEF TxInv, LockedInOrder
  <2>6. Exclusive => TxAnswers(u)'
    BY <1>2, <1>3, <1>4, <2>3, <2>4 DEF TxAnswers, EffectsSeen, EffectsRegistered, StatusSeen
  <2> QED BY <2>2, <2>5, <2>6
<1>8. Inv'
  <2>1. WroteApart'
    BY <1>4 DEF IInv, Inv, WroteApart, Busy
  <2> QED BY <1>5, <1>6, <1>7, <2>1 DEF Inv
<1>9. Answers'
  <2> SUFFICES ASSUME Exclusive PROVE Answers'
    BY DEF Answers
  <2>1. OneEach' /\ EffectsAnswered'
    BY <1>2, <1>3, <1>4 DEF IInv, Answers, OneEach, EffectsAnswered, Busy
  <2>2. VerifiedCanUndo'
    <3>1. 0 \notin DOMAIN sets
      BY <1>1 DEF TypeOK
    <3> QED BY <1>2, <1>3, <1>4, <3>1 DEF IInv, Answers, VerifiedCanUndo
  <2> QED BY <1>7, <2>1, <2>2 DEF Answers
<1> QED BY <1>2, <1>3, <1>8, <1>9 DEF IInv

(* A new or decided row of a change set: the others are as they were, and so are the requests. *)
LEMMA SetsChangeKeeps ==
  ASSUME IInv, NEW n \in Nat, sets' \in Seq(SetRow), Len(sets') = n, Len(sets) <= n,
         UNCHANGED <<artifact, request, edits, faults>>,
         \A c \in 1..Len(sets) : sets'[c].source = sets[c].source
                                 /\ sets'[c].planned = sets[c].planned,
         \A c \in 1..n : SetSound(sets'[c]),
         \A c \in 1..n :
           (c <= Len(sets) /\ sets'[c] = sets[c])
           \/ /\ c <= Len(sets) => sets[c].status = "AwaitingApproval"
              /\ sets'[c].status # "Verified"
  PROVE  IInv'
<1>1. TypeOK /\ sets \in Seq(SetRow) /\ Len(sets) \in Nat
  BY DEF IInv, Inv, TypeOK
<1>2. DOMAIN sets = 1..Len(sets) /\ DOMAIN sets' = 1..n
  BY <1>1
<1>3. TypeOK'
  BY <1>1 DEF TypeOK
<1>4. RowsSound'
  BY <1>1, <1>2 DEF IInv, Inv, RowsSound, RowSound, SetSound
<1>5. ASSUME NEW q \in Requests, Busy(q)'
      PROVE  TxInv(request[q])' /\ (Exclusive => TxAnswers(request[q])')
  <2>1. PICK u : u = request[q]
    OBVIOUS
  <2>2. Busy(q) /\ u = request'[q]
    BY <1>5, <2>1 DEF Busy
  <2>3. u \in Transaction /\ TxInv(u) /\ (Exclusive => TxAnswers(u))
    BY <2>1, <2>2, OwnMayBe DEF MayBe
  <2>4. u.cs \in 1..Len(sets) /\ u.cs <= n /\ u.cs \in 1..n
    BY <1>1, <2>3, OwnSet DEF TxInv, Sound
  <2>5. TxInv(u)'
    <3>1. Sound(u)'
      <4>1. SamePlanSeen(u)'
        BY <1>2, <2>3, <2>4 DEF TxInv, Sound, SamePlanSeen
      <4>2. \A a \in Artifacts : RowSound(u.view[a], Len(sets'))
        BY <1>1, <2>3 DEF TxInv, Sound, RowSound
      <4> QED BY <2>3, <2>4, <4>1, <4>2 DEF TxInv, Sound
    <3>2. WrittenOverPlan(u)'
      BY <2>3, <2>4 DEF TxInv, WrittenOverPlan, OverPlan
    <3> QED BY <2>3, <3>1, <3>2 DEF TxInv, LockedInOrder
  <2>6. ASSUME Exclusive PROVE TxAnswers(u)'
    <3>1. sets[u.cs].status # "AwaitingApproval"
      <4>1. StatusSeen(u) /\ u.mode \in {"apply", "rollback"}
        BY <2>3, <2>6, TxFields DEF TxAnswers
      <4> QED BY <4>1 DEF StatusSeen
    <3>2. sets'[u.cs] = sets[u.cs]
      BY <2>4, <3>1
    <3> QED BY <2>3, <2>6, <3>2 DEF TxAnswers, EffectsSeen, EffectsRegistered, StatusSeen
  <2> QED BY <2>2, <2>5, <2>6
<1>6. Inv'
  <2>1. WroteApart'
    BY DEF IInv, Inv, WroteApart, Busy
  <2> QED BY <1>3, <1>4, <1>5, <2>1 DEF Inv
<1>7. Answers'
  <2> SUFFICES ASSUME Exclusive PROVE Answers'
    BY DEF Answers
  <2>1. OneEach'
    BY DEF IInv, Answers, OneEach, Busy
  <2>2. ASSUME NEW a \in Artifacts, artifact[a].by # 0
        PROVE  /\ artifact[a].by \in 1..Len(sets) /\ sets[artifact[a].by].status \in Answering
               /\ sets'[artifact[a].by] = sets[artifact[a].by]
    <3>1. artifact[a].by \in 1..Len(sets)
      BY <1>1, <2>2 DEF IInv, Inv, RowsSound, RowSound
    <3>2. sets[artifact[a].by].status \in Answering
      BY <2>2 DEF IInv, Answers, EffectsAnswered
    <3>3. sets[artifact[a].by].status # "AwaitingApproval" /\ artifact[a].by \in 1..n
      BY <1>1, <3>1, <3>2 DEF Answering
    <3> QED BY <3>1, <3>2, <3>3
  <2>3. EffectsAnswered'
    BY <2>2 DEF EffectsAnswered
  <2>4. VerifiedCanUndo'
    <3> SUFFICES ASSUME NEW c \in 1..n, sets'[c].status = "Verified",
                        NEW a \in Artifacts, artifact[a].by = c
                 PROVE  Registered(sets'[c].source, sets'[c].inverses, Len(sets'[c].inverses), a)
      BY <1>2 DEF VerifiedCanUndo
    <3>1. c # 0 /\ c \in DOMAIN sets /\ sets'[c] = sets[c]
      BY <1>2, <2>2
    <3> QED BY <3>1 DEF IInv, Answers, VerifiedCanUndo
  <2> QED BY <1>5, <2>1, <2>3, <2>4 DEF Answers
<1> QED BY <1>6, <1>7 DEF IInv

LEMMA PreviewKeeps ==
  ASSUME IInv, NEW s \in Sources, Preview(s)
  PROVE  IInv' /\ UNCHANGED artifact
<1>1. sets \in Seq(SetRow) /\ Len(sets) \in Nat /\ artifact \in [Artifacts -> ArtifactRow]
  BY DEF IInv, Inv, TypeOK
<1>2. /\ Steps(s) = 1..Len(Changes[s]) /\ Len(Changes[s]) \in Nat
      /\ \A i \in Steps(s) : Target(s, i) \in Artifacts
  BY ChangeFields
<1>3. PICK planned : planned = [i \in Steps(s) |-> artifact[Target(s, i)]]
  OBVIOUS
<1>4. planned \in Seq(ArtifactRow) /\ Len(planned) = Len(Changes[s])
  <2>1. planned \in [1..Len(Changes[s]) -> ArtifactRow]
    BY <1>1, <1>2, <1>3
  <2> QED BY SMTT(30), <1>2, <2>1
<1>5. PICK row \in SetRow : /\ row.source = s /\ row.planned = planned
                            /\ row.status = "AwaitingApproval" /\ row.inverses = <<>>
                            /\ sets' = Append(sets, row)
  <2>1. [source |-> s, planned |-> planned, status |-> "AwaitingApproval", receipts |-> {},
         inverses |-> <<>>] \in SetRow
    BY <1>4 DEF SetRow, SetStatus
  <2> QED BY <1>3, <2>1 DEF Preview
<1>6. /\ sets' \in Seq(SetRow) /\ Len(sets') = Len(sets) + 1 /\ sets'[Len(sets) + 1] = row
      /\ \A c \in 1..Len(sets) : sets'[c] = sets[c]
  BY <1>1, <1>5, AppendProperties
<1>7. SetSound(row)
  BY <1>4, <1>5 DEF SetSound
<1>8. \A c \in 1..Len(sets) : SetSound(sets[c])
  BY <1>1 DEF IInv, Inv, RowsSound
<1>9. UNCHANGED <<artifact, request, edits, faults>>
  BY DEF Preview
<1>10. PICK n \in Nat : n = Len(sets) + 1
  BY <1>1
<1>11. \A c \in 1..n : c \in 1..Len(sets) \/ c = n
  BY <1>1, <1>10
<1>12. \A c \in 1..n :
         /\ SetSound(sets'[c])
         /\ \/ c <= Len(sets) /\ sets'[c] = sets[c]
            \/ /\ c <= Len(sets) => sets[c].status = "AwaitingApproval"
               /\ sets'[c].status # "Verified"
  <2> SUFFICES ASSUME NEW c \in 1..n
               PROVE  /\ SetSound(sets'[c])
                      /\ \/ c <= Len(sets) /\ sets'[c] = sets[c]
                         \/ /\ c <= Len(sets) => sets[c].status = "AwaitingApproval"
                            /\ sets'[c].status # "Verified"
    OBVIOUS
  <2>1. CASE c \in 1..Len(sets)
    BY <1>6, <1>8, <2>1
  <2>2. CASE c = n
    BY <1>1, <1>5, <1>6, <1>7, <1>10, <2>2
  <2> QED BY <1>11, <2>1, <2>2
<1>13. \A c \in 1..Len(sets) : sets'[c].source = sets[c].source
                               /\ sets'[c].planned = sets[c].planned
  BY <1>6
<1>14. Len(sets') = n /\ Len(sets) <= n
  BY <1>1, <1>6, <1>10
<1>15. IInv'
  BY <1>6, <1>9, <1>12, <1>13, <1>14, SetsChangeKeeps
<1> QED BY <1>9, <1>15

LEMMA DecideKeeps ==
  ASSUME IInv, NEW c \in DOMAIN sets, Decide(c)
  PROVE  IInv' /\ UNCHANGED artifact
<1>1. sets \in Seq(SetRow) /\ Len(sets) \in Nat /\ c \in 1..Len(sets) /\ sets[c] \in SetRow
  BY DEF IInv, Inv, TypeOK
<1>2. PICK row \in SetRow : /\ row.source = sets[c].source /\ row.planned = sets[c].planned
                            /\ row.status # "Verified" /\ row.inverses = sets[c].inverses
                            /\ sets' = [sets EXCEPT ![c] = row]
  <2>1. PICK st \in {"Approved", "Failed"} : sets' = [sets EXCEPT ![c].status = st]
    BY DEF Decide
  <2>2. PICK row \in SetRow : row = [sets[c] EXCEPT !.status = st]
    BY <1>1 DEF SetRow, SetStatus
  <2>3. /\ row.source = sets[c].source /\ row.planned = sets[c].planned
        /\ row.status = st /\ row.inverses = sets[c].inverses
    BY <1>1, <2>2 DEF SetRow
  <2> QED BY <2>1, <2>2, <2>3
<1>3. /\ sets' \in Seq(SetRow) /\ Len(sets') = Len(sets)
      /\ \A d \in 1..Len(sets) : sets'[d] = IF d = c THEN row ELSE sets[d]
  BY <1>1, <1>2, ExceptSeq
<1>4. \A d \in 1..Len(sets) : SetSound(sets[d])
  BY <1>1 DEF IInv, Inv, RowsSound
<1>5. SetSound(row)
  BY <1>1, <1>2, <1>4 DEF SetSound
<1>6. UNCHANGED <<artifact, request, edits, faults>> /\ sets[c].status = "AwaitingApproval"
  BY DEF Decide
<1>7. \A d \in 1..Len(sets) : SetSound(sets'[d])
  BY <1>3, <1>4, <1>5
<1>8. \A d \in 1..Len(sets) : sets'[d].source = sets[d].source /\ sets'[d].planned = sets[d].planned
  BY <1>2, <1>3
<1>9. \A d \in 1..Len(sets) :
        \/ d <= Len(sets) /\ sets'[d] = sets[d]
        \/ /\ d <= Len(sets) => sets[d].status = "AwaitingApproval"
           /\ sets'[d].status # "Verified"
  BY <1>1, <1>2, <1>3, <1>6
<1>10. PICK n \in Nat : n = Len(sets)
  BY <1>1
<1> QED BY <1>3, <1>6, <1>7, <1>8, <1>9, <1>10, SetsChangeKeeps

-----------------------------------------------------------------------------
(* The invariant *)

LEMMA InitIInv ==
  ASSUME Init PROVE IInv
<1>1. /\ artifact \in [Artifacts -> ArtifactRow] /\ \A a \in Artifacts : artifact[a].by = 0
  <2> DEFINE R == {[content |-> c, rev |-> 0, by |-> 0] : c \in {"absent", "user"}}
  <2>1. artifact \in [Artifacts -> R]
    BY DEF Init
  <2>2. \A row \in R : row \in ArtifactRow /\ row.by = 0
    BY DEF ArtifactRow
  <2> QED BY <2>1, <2>2
<1>2. sets = <<>> /\ Len(sets) = 0 /\ sets \in Seq(SetRow) /\ DOMAIN sets = {}
  BY DEF Init
<1>3. request = [r \in Requests |-> Idle] /\ \A r \in Requests : ~Busy(r)
  BY DEF Init, Busy, Idle
<1>4. TypeOK
  BY <1>1, <1>2, <1>3 DEF Init, TypeOK
<1>5. RowsSound
  BY <1>1, <1>2 DEF RowsSound, RowSound
<1>6. WroteApart
  BY <1>3 DEF WroteApart
<1>7. Answers
  BY <1>1, <1>2, <1>3 DEF Answers, OneEach, EffectsAnswered, VerifiedCanUndo
<1> QED BY <1>3, <1>4, <1>5, <1>6, <1>7 DEF IInv, Inv

LEMMA StutterIInv ==
  ASSUME IInv, UNCHANGED vars PROVE IInv'
<1>1. UNCHANGED <<artifact, sets, request, edits, faults>>
  BY DEF vars
<1>2. Len(sets) \in Nat /\ sets \in Seq(SetRow)
  BY DEF IInv, Inv, TypeOK
<1>3. /\ \A c \in 1..Len(sets) : SetSound(sets[c])
  BY <1>2 DEF IInv, Inv, RowsSound
<1>4. PICK n \in Nat : n = Len(sets)
  BY <1>2
<1>5. /\ \A c \in 1..Len(sets) : sets'[c].source = sets[c].source
                                 /\ sets'[c].planned = sets[c].planned
      /\ \A c \in 1..n : SetSound(sets'[c])
      /\ \A c \in 1..n :
           (c <= Len(sets) /\ sets'[c] = sets[c])
           \/ /\ c <= Len(sets) => sets[c].status = "AwaitingApproval"
              /\ sets'[c].status # "Verified"
  BY <1>1, <1>3, <1>4
<1> QED BY <1>1, <1>2, <1>4, <1>5, SetsChangeKeeps

LEMMA NextIInv ==
  ASSUME IInv, [Next]_vars PROVE IInv'
<1>1. CASE UNCHANGED vars
  BY <1>1, StutterIInv
<1>2. CASE \E s \in Sources : Preview(s)
  BY <1>2, PreviewKeeps
<1>3. CASE \E c \in DOMAIN sets : Decide(c)
  BY <1>3, DecideKeeps
<1>4. CASE \E r \in Requests, c \in DOMAIN sets : StartApply(r, c) \/ StartRollback(r, c)
  BY <1>4, StartKeeps
<1>5. CASE \E r \in Requests : Proceeds(r) \/ Crash(r)
  BY <1>5, ProceedsActs, ActsKeeps
<1>6. CASE \E a \in Artifacts : Edit(a)
  BY <1>6, EditKeeps
<1> QED BY <1>1, <1>2, <1>3, <1>4, <1>5, <1>6 DEF Next

THEOREM Invariant == Spec => []IInv
<1>1. Init => IInv
  BY InitIInv
<1>2. IInv /\ [Next]_vars => IInv'
  BY NextIInv
<1> QED BY <1>1, <1>2, PTL DEF Spec

-----------------------------------------------------------------------------
(* Requests never wait for each other's keys: each holds only keys below the one it waits for,
   whatever the manifests lock (engine.apply's sorted acquisition). *)
THEOREM KeysNeverCycleCorrect == Spec => []KeysNeverCycle
<1>1. IInv => KeysNeverCycle
  <2> SUFFICES ASSUME IInv, NEW r \in Requests, NEW q \in Requests, r # q,
                      WaitsForLock(r), WaitsForLock(q),
                      NextLock(request[r]) \in request[q].held,
                      NextLock(request[q]) \in request[r].held
               PROVE  FALSE
    BY DEF KeysNeverCycle
  <2>1. ASSUME NEW p \in Requests, WaitsForLock(p)
        PROVE  /\ NextLock(request[p]) \in LocksOf(request[p]) \ request[p].held
               /\ NextLock(request[p])[2] \in Nat
               /\ \A l \in request[p].held : l[2] < NextLock(request[p])[2]
    <3>1. Idle.pc = "idle" /\ request[p].pc = "locking"
      BY <2>1 DEF Idle, WaitsForLock
    <3>2. request[p] \in Transaction /\ TxInv(request[p]) /\ TypeOK /\ SamePlanSeen(request[p])
      BY <3>1, OwnMayBe DEF Busy, MayBe
    <3>3. NextLock(request[p]) \in LocksOf(request[p]) \ request[p].held
      BY <2>1, <3>2, NextLockIs DEF WaitsForLock
    <3>4. NextLock(request[p])[2] \in Nat
      BY <3>2, <3>3, LocksOfTyped DEF Locks
    <3> QED BY <3>1, <3>2, <3>3, <3>4 DEF TxInv, LockedInOrder
  <2>2. NextLock(request[q])[2] < NextLock(request[r])[2]
    BY <2>1
  <2>3. NextLock(request[r])[2] < NextLock(request[q])[2]
    BY <2>1
  <2>4. NextLock(request[r])[2] \in Nat /\ NextLock(request[q])[2] \in Nat
    BY <2>1
  <2> QED BY <2>2, <2>3, <2>4
<1> QED BY <1>1, Invariant, PTL

(* If requests on one change set exclude each other, no effect is left that nobody answers
   for, whatever fails, crashes, commits early or overlaps (engine.apply, _compensate,
   rollback). *)
THEOREM NoOrphanCorrect ==
  ASSUME Exclusive
  PROVE  Spec => []NoOrphan
<1>1. IInv => NoOrphan
  BY DEF IInv, Inv, Answers, EffectsAnswered, Answering, NoOrphan
<1> QED BY <1>1, Invariant, PTL

Replaces(a) ==
  artifact'[a].by \notin {0, artifact[a].by} => OverPlan(a, artifact'[a].by)

LEMMA ActsReplace ==
  ASSUME IInv, NEW r \in Requests, Busy(r), Acts(r), NEW a \in Artifacts
  PROVE  Replaces(a)
<1>1. CASE UNCHANGED artifact
  BY <1>1 DEF Replaces
<1>2. CASE \E t \in Transaction : MayBe(r, t) /\ Commits(r, t)
  <2>1. PICK t \in Transaction : MayBe(r, t) /\ Commits(r, t)
    BY <1>2
  <2>2. artifact'[a] = IF a \in t.wrote THEN t.view[a] ELSE artifact[a]
    BY <2>1, ArtifactsMerged DEF Commits, IInv, Inv
  <2>3. WrittenOverPlan(t)
    BY <2>1 DEF MayBe, TxInv
  <2> QED BY <2>2, <2>3 DEF Replaces, WrittenOverPlan
<1> QED BY <1>1, <1>2 DEF Acts, End, Goes, Step

LEMMA NextReplaces ==
  ASSUME IInv, Next, NEW a \in Artifacts PROVE Replaces(a)
<1>1. CASE UNCHANGED artifact
  BY <1>1 DEF Replaces
<1>2. CASE \E b \in Artifacts : Edit(b)
  <2>1. artifact'[a].by = 0 \/ artifact'[a] = artifact[a]
    BY <1>2, EditKeeps
  <2> QED BY <2>1 DEF Replaces
<1>3. CASE \E r \in Requests : Proceeds(r) \/ Crash(r)
  BY <1>3, ProceedsActs, ActsReplace
<1> QED BY <1>1, <1>2, <1>3, PreviewKeeps, DecideKeeps, StartKeeps DEF Next

(* An effect replaces the very row its plan was made over: what a request has written is
   its own, over the planned row or over what its change set had committed before (preview,
   _current_matches, check_if_latest). *)
THEOREM PlannedOnlyCorrect == Spec => PlannedOnly
<1> DEFINE Replaced ==
      \A a \in Artifacts :
        artifact'[a].by \notin {0, artifact[a].by} =>
          \E i \in Steps(sets[artifact'[a].by].source) :
            /\ Target(sets[artifact'[a].by].source, i) = a
            /\ SameRow(artifact[a], sets[artifact'[a].by].planned[i])
<1>1. IInv /\ [Next]_vars => [Replaced]_vars
  BY NextReplaces DEF Replaces, OverPlan
<1> QED BY <1>1, Invariant, PTL DEF Spec, PlannedOnly
-----------------------------------------------------------------------------
(* What is settled stays settled *)

LEMMA ActsSettle ==
  ASSUME IInv, IInv', Settled, NEW r \in Requests, Busy(r), Acts(r)
  PROVE  Settled' /\ PlansKept
<1>1. request[r] \in Transaction
  BY OwnMayBe
<1>2. CASE End(r)
  BY <1>2, StepSettles DEF End, Idle
<1>3. CASE \E t \in Transaction : MayBe(r, t) /\ Goes(r, t) /\ Settling(r, t)
  BY <1>1, <1>3, GoesSettle DEF Settling
<1> QED BY <1>2, <1>3 DEF Acts

LEMMA StartSettles ==
  ASSUME IInv, Settled, NEW r \in Requests, NEW c \in DOMAIN sets,
         StartApply(r, c) \/ StartRollback(r, c)
  PROVE  Settled' /\ PlansKept
<1>1. PICK mode : Step(r, Begun(mode, c))
  BY DEF StartApply, StartRollback
<1>2. PICK t : t = Begun(mode, c)
  OBVIOUS
<1>3. /\ t.wrote = {} /\ t.sets = sets /\ t.receipts = {} /\ t.cs = c
      /\ t.next = 1 /\ t.dirty = FALSE
  BY <1>2 DEF Begun
<1>4. ASSUME NEW i \in Steps(sets[c].source) PROVE ~Passed(t, i)
  <2>1. sets[c] \in SetRow
    BY DEF IInv, Inv, TypeOK
  <2>2. i \in 1..Len(Changes[sets[c].source]) /\ Len(Changes[sets[c].source]) \in Nat
    BY <1>4, <2>1, SetFields, ChangeFields
  <2> QED BY <1>3, <2>2 DEF Passed
<1>5. TxSettles(t)
  BY <1>3, <1>4 DEF Settled, TxSettles
<1> QED BY <1>1, <1>2, <1>5, StepSettles

LEMMA EditSettles ==
  ASSUME IInv, IInv', Settled, NEW a \in Artifacts, Edit(a)
  PROVE  Settled' /\ PlansKept
<1>1. PICK old \in ArtifactRow, new \in ArtifactRow :
        old = artifact[a] /\ new = artifact'[a] /\ new.rev = old.rev + 1 /\ old.rev \in Nat
  <2>1. artifact \in [Artifacts -> ArtifactRow] /\ artifact' \in [Artifacts -> ArtifactRow]
    BY DEF IInv, Inv, TypeOK
  <2>2. artifact'[a].rev = artifact[a].rev + 1
    BY <2>1 DEF Edit
  <2> QED BY <2>1, <2>2, RowFields
<1>2. \A b \in Artifacts \ {a} : artifact'[b] = artifact[b]
  BY EditKeeps
<1>3. Grows
  <2>1. new.rev > old.rev
    BY <1>1
  <2> QED BY <1>1, <1>2, <2>1 DEF Grows, Later
<1>4. /\ UNCHANGED <<sets, request>> /\ PlansKept
      /\ \A q \in Requests : Busy(q) => a \notin request[q].wrote
  BY DEF Edit, PlansKept
<1>5. ASSUME NEW q \in Requests, Busy(q)' PROVE TxSettles(request[q])'
  <2>1. PICK u : u = request[q] /\ u = request'[q]
    BY <1>4
  <2>2. Busy(q)
    BY <1>4, <1>5 DEF Busy
  <2>3. u \in Transaction /\ SamePlanSeen(u) /\ TxSettles(u) /\ u.wrote \subseteq Artifacts
    <3>1. u \in Transaction /\ SamePlanSeen(u)
      BY <2>1, <2>2, OwnMayBe
    <3> QED BY <2>1, <2>2, <3>1, TxFields DEF Settled
  <2>4. TxSettles(u)'
    BY <1>2, <1>3, <1>4, <2>1, <2>2, <2>3, TxKept
  <2> QED BY <2>1, <2>4
<1>6. ASSUME NEW c \in DOMAIN sets' PROVE OverEarlier(sets[c])' /\ Settles(sets[c])'
  <2>1. PICK set : set = sets[c] /\ set = sets'[c]
    BY <1>4
  <2>2. OverEarlier(set)' /\ Settles(set)'
    BY <1>3, <1>4, <1>6, <2>1, SettlesKept DEF Settled
  <2> QED BY <2>1, <2>2 DEF OverEarlier, Settles, Changing
<1> QED BY <1>4, <1>5, <1>6 DEF Settled

(* A new or decided row of a change set. *)
LEMMA SetsSettle ==
  ASSUME IInv, IInv', Settled, UNCHANGED <<artifact, request>>, PlansKept,
         \A c \in DOMAIN sets' : OverEarlier(sets'[c]) /\ Settles(sets'[c])
  PROVE  Settled'
<1>1. Grows
  BY DEF Grows, Later
<1>2. ASSUME NEW q \in Requests, Busy(q)' PROVE TxSettles(request[q])'
  <2>1. PICK u : u = request[q] /\ u = request'[q]
    OBVIOUS
  <2>2. Busy(q)
    BY <1>2 DEF Busy
  <2>3. u \in Transaction /\ SamePlanSeen(u) /\ TxSettles(u)
    BY <2>1, <2>2, OwnMayBe DEF Settled
  <2>4. TxSettles(u)'
    BY <1>1, <2>3, TxKept
  <2> QED BY <2>1, <2>4
<1>3. \A c \in DOMAIN sets' : OverEarlier(sets[c])' /\ Settles(sets[c])'
  BY DEF OverEarlier, Settles, Changing
<1> QED BY <1>2, <1>3 DEF Settled

LEMMA PreviewSettles ==
  ASSUME IInv, IInv', Settled, NEW s \in Sources, Preview(s)
  PROVE  Settled' /\ PlansKept
<1>1. PICK planned : planned = [i \in Steps(s) |-> artifact[Target(s, i)]]
  OBVIOUS
<1>2. PICK row : row = [source |-> s, planned |-> planned, status |-> "AwaitingApproval",
                        receipts |-> {}, inverses |-> <<>>]
  OBVIOUS
<1>3. sets' = Append(sets, row) /\ UNCHANGED <<artifact, request>>
  BY <1>1, <1>2 DEF Preview
<1>4. row.source = s /\ row.planned = planned /\ row.status # "Verified" /\ row.receipts = {}
  BY <1>2
<1>5. OverEarlier(row) /\ Settles(row)
  BY <1>1, <1>4 DEF OverEarlier, Settles, Later
<1>6. sets \in Seq(SetRow) /\ Len(sets) \in Nat
  BY DEF IInv, Inv, TypeOK
<1>7. PICK n \in Nat : n = Len(sets)
  BY <1>6
<1>8. DOMAIN sets = 1..n /\ DOMAIN sets' = 1..(n + 1)
      /\ \A c \in 1..(n + 1) : sets'[c] = IF c \in 1..n THEN sets[c] ELSE row
  BY <1>3, <1>6, <1>7
<1>9. 1..n \subseteq 1..(n + 1)
  BY <1>7
<1>10. PlansKept
  BY <1>8, <1>9 DEF PlansKept
<1>11. \A c \in DOMAIN sets' : OverEarlier(sets'[c]) /\ Settles(sets'[c])
  BY <1>5, <1>8 DEF Settled
<1> QED BY <1>3, <1>10, <1>11, SetsSettle

LEMMA DecideSettles ==
  ASSUME IInv, IInv', Settled, NEW c \in DOMAIN sets, Decide(c)
  PROVE  Settled' /\ PlansKept
<1>1. sets \in Seq(SetRow) /\ sets[c] \in SetRow /\ UNCHANGED <<artifact, request>>
  BY DEF IInv, Inv, TypeOK, Decide
<1>2. PICK st \in {"Approved", "Failed"} : sets' = [sets EXCEPT ![c].status = st]
  BY DEF Decide
<1>3. PICK row : row = [sets[c] EXCEPT !.status = st]
  OBVIOUS
<1>4. /\ row.source = sets[c].source /\ row.planned = sets[c].planned
      /\ row.receipts = sets[c].receipts /\ row.status # "Verified"
  BY <1>1, <1>3 DEF SetRow
<1>5. /\ DOMAIN sets' = DOMAIN sets
      /\ \A d \in DOMAIN sets : sets'[d] = IF d = c THEN row ELSE sets[d]
  BY <1>1, <1>2, <1>3
<1>6. PlansKept
  BY <1>4, <1>5 DEF PlansKept
<1>7. OverEarlier(row) /\ Settles(row)
  BY <1>4 DEF Settled, OverEarlier, Settles, Changing
<1>8. \A d \in DOMAIN sets' : OverEarlier(sets'[d]) /\ Settles(sets'[d])
  BY <1>5, <1>7 DEF Settled
<1> QED BY <1>1, <1>6, <1>8, SetsSettle

LEMMA NextSettled ==
  ASSUME IInv, Settled, [Next]_vars
  PROVE  Settled' /\ PlansKept
<1>1. IInv'
  BY NextIInv
<1>2. CASE UNCHANGED vars
  <2>1. UNCHANGED <<artifact, request>> /\ sets' = sets
    BY <1>2 DEF vars
  <2>2. PlansKept
    BY <2>1 DEF PlansKept
  <2>3. \A c \in DOMAIN sets' : OverEarlier(sets'[c]) /\ Settles(sets'[c])
    BY <2>1 DEF Settled
  <2> QED BY <1>1, <2>1, <2>2, <2>3, SetsSettle
<1>3. CASE \E s \in Sources : Preview(s)
  BY <1>1, <1>3, PreviewSettles
<1>4. CASE \E c \in DOMAIN sets : Decide(c)
  BY <1>1, <1>4, DecideSettles
<1>5. CASE \E r \in Requests, c \in DOMAIN sets : StartApply(r, c) \/ StartRollback(r, c)
  BY <1>5, StartSettles
<1>6. CASE \E r \in Requests : Proceeds(r) \/ Crash(r)
  BY <1>1, <1>6, ProceedsActs, ActsSettle
<1>7. CASE \E a \in Artifacts : Edit(a)
  BY <1>1, <1>7, EditSettles
<1> QED BY <1>2, <1>3, <1>4, <1>5, <1>6, <1>7 DEF Next

(* No artifact goes back behind a plan that was made over it, and what a change set or a
   request under way answers for has gone beyond its plan (preview, _current_matches,
   find_receipt, the revisions of Frappe's rows). *)
THEOREM SettledInvariant == Spec => []Settled
<1>1. Init => Settled
  <2> SUFFICES ASSUME Init PROVE Settled
    OBVIOUS
  <2>1. DOMAIN sets = {} /\ \A r \in Requests : ~Busy(r)
    BY DEF Init, Busy, Idle
  <2> QED BY <2>1 DEF Settled
<1>2. IInv /\ Settled /\ [Next]_vars => Settled'
  BY NextSettled
<1> QED BY <1>1, <1>2, Invariant, PTL DEF Spec

InPlace(c) ==
  sets'[c].status = "Verified" /\ sets[c].status # "Verified" =>
    \A i \in Steps(sets[c].source) :
      i \in sets'[c].receipts \/ ~Gone(sets[c].planned[i]) =>
        LET now == artifact'[Target(sets[c].source, i)]
        IN now.content = sets[c].source \/ now.rev > sets[c].planned[i].rev

LEMMA SettledInPlace ==
  ASSUME Settled', PlansKept, NEW c \in DOMAIN sets PROVE InPlace(c)
<1>1. PICK old, new : old = sets[c] /\ new = sets'[c]
  OBVIOUS
<1>2. c \in DOMAIN sets' /\ new.source = old.source /\ new.planned = old.planned
  BY <1>1 DEF PlansKept
<1>3. OverEarlier(new)' /\ Settles(new)'
  BY <1>1, <1>2 DEF Settled, OverEarlier, Settles, Changing
<1>4. ASSUME new.status = "Verified", NEW i \in Steps(old.source),
             i \in new.receipts \/ ~Gone(old.planned[i]),
             artifact'[Target(old.source, i)].content # old.source
      PROVE  artifact'[Target(old.source, i)].rev > old.planned[i].rev
  <2>1. CASE Changing(new, i)
    BY <1>2, <1>3, <1>4, <2>1 DEF Settles, Changing
  <2>2. CASE ~Changing(new, i)
    BY <1>2, <1>3, <1>4, <2>2 DEF OverEarlier, Later, Changing
  <2> QED BY <2>1, <2>2
<1> QED BY <1>1, <1>2, <1>4 DEF InPlace

(* A change set becomes verified over artifacts that hold what was reviewed, or a later
   revision, though receipts of other plans share its keys: a plan that changes an artifact
   has gone beyond the row it was made over, and one that keeps it finds that row or a later
   one (engine.apply's replay of receipts, find_receipt, _current_matches). *)
THEOREM VerifiedInPlaceCorrect == Spec => VerifiedInPlace
<1> DEFINE AllInPlace ==
      \A c \in DOMAIN sets :
        sets'[c].status = "Verified" /\ sets[c].status # "Verified" =>
          \A i \in Steps(sets[c].source) :
            i \in sets'[c].receipts \/ ~Gone(sets[c].planned[i]) =>
              LET now == artifact'[Target(sets[c].source, i)]
              IN now.content = sets[c].source \/ now.rev > sets[c].planned[i].rev
<1>1. IInv /\ Settled /\ [Next]_vars => [AllInPlace]_vars
  BY NextSettled, SettledInPlace DEF InPlace
<1> QED BY <1>1, Invariant, SettledInvariant, PTL DEF Spec, VerifiedInPlace
=============================================================================
