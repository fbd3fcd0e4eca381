----------------------- MODULE ChangeSetExecutionProofs -----------------------
(***************************************************************************)
(* Proofs about ChangeSetExecution for any plans, records, requests and      *)
(* number of changes by others.                                             *)
(***************************************************************************)
EXTENDS ChangeSetExecution, FiniteSetTheorems, SequenceTheorems, WellFoundedInduction, TLAPS

-----------------------------------------------------------------------------
(* The inductive invariant *)

OperationType ==
  [kind : STRING, target : Targets, depends_on : SUBSET Nat, token : Nat \cup {None}]
Inversion == [undo : {"create", "field", "property", "update", "submit", "delete"},
             target : Targets, was : Record]
Statuses ==
  {"Preflighted", "Approved", "Failed", "Applying", "Repaired", "NeedsIntervention", "Verified"}
Request ==
  [phase : {"checked", "applying", "raising"}, view : [Targets -> Record], status : Statuses,
   written : SUBSET Targets, marked : BOOLEAN, done : Seq(Nat), inverses : Seq(Inversion)]

Typed ==
  /\ plan.operations \in Seq(OperationType)
  /\ records \in [Targets -> Record]
  /\ row \in [status : Statuses, receipts : SUBSET Nat]
  /\ DOMAIN requests = Clients
  /\ \A c \in Clients : requests[c] # None => requests[c] \in Request

(* What is done is the beginning of the order. *)
First(n) == {TopologicalOrder[k] : k \in 1..n}
InOrder(r) ==
  /\ Len(r.done) <= Len(TopologicalOrder)
  /\ \A k \in 1..Len(r.done) : r.done[k] = TopologicalOrder[k]

(* Only a field commits before the end, and only the end leaves receipts. *)
Committed ==
  \/ row.receipts = {} /\ applied = {}
  \/ Valid /\ row.receipts = Ids /\ applied = Ids
  \/ /\ Valid /\ row.receipts = {}
     /\ \E n \in 1..Len(TopologicalOrder) :
          applied = First(n) /\ Operation(TopologicalOrder[n]).kind = "field"

Tokened == {id \in Ids : Operation(id).token # None}
Started(r) == r # None /\ r.phase # "raising"

(* A record is never behind the revision its operation was planned for, is beyond it once the
   request has written it, and is at it when what an operation saved is not yet committed. *)
AtThePlan(r) ==
  /\ \A id \in Tokened :
       LET t == Operation(id).target IN
       /\ Operation(id).token <= r.view[t].revision
       /\ Operation(id).token <= records[t].revision
       /\ t \in r.written => Operation(id).token < r.view[t].revision
  /\ \A k \in 1..Len(r.done) :
       LET op == Operation(r.done[k]) IN
       r.done[k] \in Tokened \ applied /\ op.kind \in Saving =>
         op.target \in r.written /\ records[op.target].revision = op.token

LockedApart ==
  \A c, d \in Clients :
    requests[c] # None /\ requests[d] # None /\ c # d =>
      requests[c].written \cap requests[d].written = {}

IInv ==
  /\ Typed /\ Committed /\ LockedApart
  /\ \A c \in Clients : requests[c] # None => Valid /\ InOrder(requests[c])
  /\ \A c \in Clients : Started(requests[c]) => AtThePlan(requests[c])

-----------------------------------------------------------------------------
(* The order of a plan *)

LEMMA NatMin ==
  ASSUME NEW T, T \subseteq Nat, T # {}
  PROVE  \E x \in T : \A y \in T : x <= y
<1>1. IsWellFoundedOn(OpToRel(<, Nat), Nat)
  BY NatLessThanWellFounded
<1>2. PICK x \in T : \A y \in T : ~(<<y, x>> \in OpToRel(<, Nat))
  BY <1>1, WFMin
<1>3. ASSUME NEW y \in T PROVE x <= y
  <2>1. ~(y < x)
    BY <1>2 DEF OpToRel
  <2> QED BY <2>1
<1> QED BY <1>3

LEMMA IdsAre ==
  ASSUME Typed
  PROVE  /\ Len(plan.operations) \in Nat /\ Ids \subseteq Nat /\ IsFiniteSet(Ids)
         /\ Cardinality(Ids) = Len(plan.operations)
         /\ \A id \in Ids : Operation(id) \in OperationType
<1>1. plan.operations \in Seq(OperationType)
  BY DEF Typed
<1>2. Len(plan.operations) \in Nat
  BY <1>1, LenProperties
<1>3. \A id \in Ids : Operation(id) \in OperationType
  BY <1>1, ElementOfSeq DEF Ids, Operation
<1>4. IsFiniteSet(Ids) /\ Cardinality(Ids) = Len(plan.operations)
  BY <1>2, FS_Interval DEF Ids
<1> QED BY <1>2, <1>3, <1>4 DEF Ids

LEMMA SubsetFinite ==
  ASSUME NEW n \in Nat, NEW S \in SUBSET (1..n)
  PROVE  IsFiniteSet(S) /\ Cardinality(S) \in Nat
<1>1. IsFiniteSet(1..n)
  BY FS_Interval
<1>2. IsFiniteSet(S)
  BY <1>1, FS_Subset
<1> QED BY <1>2, FS_CardinalityType

(* An enumeration in the order of the numbers. *)
Increasing(e, S) ==
  /\ e \in [1..Cardinality(S) -> S]
  /\ \A i, j \in 1..Cardinality(S) : i < j => e[i] < e[j]

LEMMA IncreasingExists ==
  ASSUME NEW n \in Nat
  PROVE  \A S \in SUBSET (1..n) : \E e : Increasing(e, S)
<1> DEFINE Bad == {m \in Nat : \E S \in SUBSET (1..m) : \A e : ~Increasing(e, S)}
<1> SUFFICES ASSUME Bad # {} PROVE FALSE
  OBVIOUS
<1>1. PICK m \in Bad : \A k \in Bad : m <= k
  BY NatMin
<1>2. PICK S \in SUBSET (1..m) : \A e : ~Increasing(e, S)
  BY <1>1
<1>3. m \in Nat /\ S \subseteq 1..m /\ IsFiniteSet(S)
  BY <1>1, <1>2, SubsetFinite
<1>4. CASE m \notin S
  <2>1. m # 0
    <3>1. SUFFICES ASSUME m = 0 PROVE FALSE
      OBVIOUS
    <3>2. S = {}
      BY <3>1, <1>3
    <3>3. Cardinality(S) = 0
      BY <3>2, FS_EmptySet
    <3>4. Increasing(<<>>, S)
      BY <3>2, <3>3 DEF Increasing
    <3> QED BY <3>4, <1>2
  <2>2. m - 1 \in Nat /\ S \in SUBSET (1..m - 1)
    BY <2>1, <1>3, <1>4
  <2>3. \E A \in SUBSET (1..m - 1) : \A e : ~Increasing(e, A)
    BY <2>2, <1>2, Zenon
  <2>4. m - 1 \in Bad
    BY <2>2, <2>3
  <2>5. m <= m - 1
    BY <2>4, <1>1, Zenon
  <2> QED BY <2>5, <1>3
<1>5. CASE m \in S
  <2> DEFINE R == S \ {m}
             c == Cardinality(R)
  <2>1. m - 1 \in Nat /\ R \in SUBSET (1..m - 1)
    BY <1>3, <1>5
  <2>2. m - 1 \notin Bad
    <3>1. ASSUME m - 1 \in Bad PROVE m <= m - 1
      BY <3>1, <1>1, Zenon
    <3> QED BY <3>1, <1>3
  <2>3. PICK e : Increasing(e, R)
    BY <2>1, <2>2
  <2>4. c \in Nat /\ Cardinality(S) = c + 1
    <3>1. c = Cardinality(S) - 1
      BY <1>3, <1>5, FS_RemoveElement, Zenon
    <3>2. Cardinality(S) \in Nat /\ c \in Nat
      BY <1>3, <2>1, SubsetFinite
    <3> QED BY <3>1, <3>2
  <2> DEFINE d == [k \in 1..c + 1 |-> IF k = c + 1 THEN m ELSE e[k]]
  <2>5. \A k \in 1..c : e[k] \in R /\ e[k] < m
    <3>1. e \in [1..c -> R]
      BY <2>3 DEF Increasing
    <3>2. \A x \in R : x < m
      BY <2>1
    <3> QED BY <3>1, <3>2
  <2>6. d \in [1..Cardinality(S) -> S]
    <3>1. ASSUME NEW k \in 1..c + 1 PROVE d[k] \in S
      <4>1. d[k] = IF k = c + 1 THEN m ELSE e[k]
        OBVIOUS
      <4>2. k = c + 1 \/ k \in 1..c
        BY <2>4
      <4> QED BY <4>1, <4>2, <2>5, <1>5
    <3> QED BY <3>1, <2>4
  <2>7. ASSUME NEW i \in 1..c + 1, NEW j \in 1..c + 1, i < j PROVE d[i] < d[j]
    <3>1. i \in 1..c /\ d[i] = e[i]
      BY <2>7, <2>4
    <3>2. CASE j = c + 1
      BY <3>1, <3>2, <2>5
    <3>3. CASE j # c + 1
      <4>1. j \in 1..c /\ d[j] = e[j]
        BY <3>3, <2>4
      <4> QED BY <4>1, <3>1, <2>7, <2>3 DEF Increasing
    <3> QED BY <3>2, <3>3
  <2>8. Increasing(d, S)
    BY <2>6, <2>7, <2>4 DEF Increasing
  <2> QED BY <2>8, <1>2
<1> QED BY <1>4, <1>5

(* A round lists the operations it is given, each of them once (topological_operations). *)
LEMMA PlanOrderLists ==
  ASSUME NEW n \in Nat, NEW S \in SUBSET (1..n)
  PROVE  /\ PlanOrder(S) \in Seq(S) /\ Len(PlanOrder(S)) = Cardinality(S)
         /\ \A i, j \in 1..Cardinality(S) : i # j => PlanOrder(S)[i] # PlanOrder(S)[j]
         /\ \A s \in S : \E k \in 1..Cardinality(S) : PlanOrder(S)[k] = s
<1> DEFINE c == Cardinality(S)
           p == PlanOrder(S)
<1>1. IsFiniteSet(S) /\ c \in Nat
  BY SubsetFinite
<1>2. \E e \in [1..c -> S] : \A i, j \in 1..c : i < j => e[i] < e[j]
  BY IncreasingExists DEF Increasing
<1>3. p \in [1..c -> S] /\ \A i, j \in 1..c : i < j => p[i] < p[j]
  BY <1>2 DEF PlanOrder
<1>4. \A i \in 1..c : p[i] \in S /\ p[i] \in Nat
  <2>1. \A i \in 1..c : p[i] \in S
    BY <1>3
  <2>2. \A s \in S : s \in Nat
    OBVIOUS
  <2> QED BY <2>1, <2>2
<1>5. ASSUME NEW i \in 1..c, NEW j \in 1..c, i # j PROVE p[i] # p[j]
  <2>1. i < j \/ j < i
    BY <1>5, <1>1
  <2>2. p[i] < p[j] \/ p[j] < p[i]
    BY <2>1, <1>3
  <2> QED BY <2>2, <1>4
<1>6. p \in Injection(1..c, S)
  BY <1>3, <1>5 DEF Injection, IsInjective
<1>7. Cardinality(1..c) = c
  BY <1>1, FS_Interval
<1>8. p \in Surjection(1..c, S)
  BY <1>6, <1>7, <1>1, FS_Injection
<1>9. \A s \in S : \E k \in 1..c : p[k] = s
  BY <1>8 DEF Surjection
<1>10. p \in Seq(S)
  BY <1>3, <1>1, SeqDef
<1>11. Len(p) = c
  <2>1. DOMAIN p = 1..c /\ DOMAIN p = 1..Len(p) /\ Len(p) \in Nat
    BY <1>10, <1>3, LenProperties
  <2> QED BY <2>1, <1>1
<1> QED BY <1>5, <1>9, <1>10, <1>11

(* The order of what is left, when an order of less is known. *)
OrderFrom(left, less) ==
  IF Ready(left) = {} THEN <<>> ELSE PlanOrder(Ready(left)) \o less[left \ Ready(left)]
Small(n) == {left \in SUBSET Ids : Cardinality(left) <= n}
Orders(f, S) == f = [left \in S |-> OrderFrom(left, f)]

LEMMA SubsetOfIds ==
  ASSUME Typed, NEW left \in SUBSET Ids
  PROVE  /\ IsFiniteSet(left) /\ Cardinality(left) \in Nat
         /\ Cardinality(left) <= Len(plan.operations)
         /\ Ready(left) \subseteq left
         /\ Ready(left) # {} => /\ left \ Ready(left) \in SUBSET Ids
                                /\ Cardinality(left \ Ready(left)) \in Nat
                                /\ Cardinality(left \ Ready(left)) < Cardinality(left)
<1>1. IsFiniteSet(Ids) /\ Cardinality(Ids) = Len(plan.operations)
  BY IdsAre
<1>2. IsFiniteSet(left) /\ Cardinality(left) <= Cardinality(Ids)
  BY <1>1, FS_Subset
<1>3. Cardinality(left) \in Nat
  BY <1>2, FS_CardinalityType
<1>4. Ready(left) \subseteq left
  BY DEF Ready
<1>5. ASSUME Ready(left) # {}
      PROVE  /\ Cardinality(left \ Ready(left)) \in Nat
             /\ Cardinality(left \ Ready(left)) < Cardinality(left)
  <2> DEFINE less == left \ Ready(left)
  <2>1. less \in SUBSET left /\ less # left
    BY <1>4, <1>5
  <2>2. IsFiniteSet(less) /\ Cardinality(less) <= Cardinality(left)
    BY <2>1, <1>2, FS_Subset
  <2>3. Cardinality(less) # Cardinality(left)
    BY <2>1, <1>2, FS_Subset
  <2>4. Cardinality(less) \in Nat
    BY <2>2, FS_CardinalityType
  <2> QED BY <2>2, <2>3, <2>4, <1>3
<1> QED BY <1>1, <1>2, <1>3, <1>4, <1>5

LEMMA OrderExists ==
  ASSUME Typed, NEW n \in Nat
  PROVE  \E f : Orders(f, Small(n))
<1> DEFINE Bad == {m \in Nat : \A f : ~Orders(f, Small(m))}
<1> SUFFICES ASSUME Bad # {} PROVE FALSE
  OBVIOUS
<1>1. PICK m \in Bad : \A k \in Bad : m <= k
  <2> HIDE DEF Bad
  <2> QED BY NatMin DEF Bad
<1>2. m \in Nat /\ \A f : ~Orders(f, Small(m))
  BY <1>1
<1>3. CASE m = 0
  <2> DEFINE f == [left \in Small(0) |-> <<>>]
  <2>1. \A left \in Small(0) : OrderFrom(left, f) = <<>>
    <3>1. SUFFICES ASSUME NEW left \in Small(0) PROVE Ready(left) = {}
      BY DEF OrderFrom
    <3>2. left \in SUBSET Ids /\ Cardinality(left) <= 0
      BY DEF Small
    <3>3. IsFiniteSet(left) /\ Cardinality(left) \in Nat
      BY <3>2, SubsetOfIds
    <3>4. Cardinality(left) = 0
      BY <3>2, <3>3
    <3>5. left = {}
      BY <3>3, <3>4, FS_EmptySet
    <3> QED BY <3>5 DEF Ready
  <2>2. f = [left \in Small(0) |-> OrderFrom(left, f)]
    BY <2>1
  <2> QED BY <2>2, <1>2, <1>3 DEF Orders
<1>4. CASE m # 0
  <2>1. m - 1 \in Nat /\ m - 1 \notin Bad
    <3>1. m - 1 \in Nat /\ ~(m <= m - 1)
      BY <1>2, <1>4
    <3> QED BY <3>1, <1>1
  <2>2. PICK f : f = [left \in Small(m - 1) |-> OrderFrom(left, f)]
    BY <2>1 DEF Orders
  <2> DEFINE g == [left \in Small(m) |-> OrderFrom(left, f)]
  <2>3. ASSUME NEW left \in Small(m) PROVE OrderFrom(left, g) = OrderFrom(left, f)
    <3>1. CASE Ready(left) = {}
      BY <3>1 DEF OrderFrom
    <3>2. CASE Ready(left) # {}
      <4> DEFINE less == left \ Ready(left)
      <4>1. left \in SUBSET Ids /\ Cardinality(left) <= m
        BY DEF Small
      <4>2. /\ less \in SUBSET Ids /\ Cardinality(less) \in Nat /\ Cardinality(left) \in Nat
            /\ Cardinality(less) < Cardinality(left)
        BY <4>1, <3>2, SubsetOfIds
      <4>3. Cardinality(less) <= m - 1 /\ Cardinality(less) <= m
        BY <4>1, <4>2, <1>2
      <4>4. less \in Small(m - 1) /\ less \in Small(m)
        BY <4>2, <4>3 DEF Small
      <4>5. f[less] = OrderFrom(less, f)
        BY <4>4, <2>2
      <4>6. g[less] = OrderFrom(less, f)
        BY <4>4
      <4>7. g[less] = f[less]
        BY <4>5, <4>6
      <4> HIDE DEF g
      <4> QED BY <4>7 DEF OrderFrom
    <3> QED BY <3>1, <3>2
  <2>4. g = [left \in Small(m) |-> OrderFrom(left, g)]
    <3> HIDE DEF g
    <3>1. g = [left \in Small(m) |-> OrderFrom(left, f)]
      BY DEF g
    <3> QED BY <3>1, <2>3
  <2> QED BY <2>4, <1>2 DEF Orders
<1> QED BY <1>3, <1>4

LEMMA OrderUnfolds ==
  ASSUME Typed
  PROVE  \E f : /\ TopologicalOrder = f[Ids]
                /\ \A left \in SUBSET Ids : f[left] = OrderFrom(left, f)
<1> DEFINE N == Len(plan.operations)
           f == CHOOSE g : g = [left \in SUBSET Ids |-> OrderFrom(left, g)]
<1>1. N \in Nat
  BY IdsAre
<1>2. Small(N) = SUBSET Ids
  BY SubsetOfIds DEF Small
<1>3. \E g : g = [left \in SUBSET Ids |-> OrderFrom(left, g)]
  BY <1>1, <1>2, OrderExists DEF Orders
<1>4. f = [left \in SUBSET Ids |-> OrderFrom(left, f)]
  BY <1>3, Zenon
<1>5. TopologicalOrder = f[Ids]
  BY Zenon DEF TopologicalOrder, OrderFrom
<1>6. \A left \in SUBSET Ids : f[left] = OrderFrom(left, f)
  <2> HIDE DEF f
  <2> QED BY <1>4
<1> QED BY <1>5, <1>6

(* An order of what is left lists it without repetition, and every operation after those of
   its dependencies that are left. *)
Lists(s, left) ==
  /\ s \in Seq(left)
  /\ \A i, j \in 1..Len(s) : i # j => s[i] # s[j]
  /\ \A i \in 1..Len(s) : DependsOn(s[i]) \cap left \subseteq {s[k] : k \in 1..i - 1}

LEMMA RoundLists ==
  ASSUME Typed, NEW left \in SUBSET Ids, Ready(left) # {},
         NEW rest, Lists(rest, left \ Ready(left)),
         NEW s, s = PlanOrder(Ready(left)) \o rest
  PROVE  Lists(s, left)
<1> DEFINE R == Ready(left)
<1> SUFFICES ASSUME NEW p, p = PlanOrder(R) PROVE Lists(s, left)
  OBVIOUS
<1>1. R \subseteq left /\ left \subseteq Nat
  BY IdsAre DEF Ready
<1>2. /\ p \in Seq(R) /\ Len(p) \in Nat
      /\ \A i, j \in 1..Len(p) : i # j => p[i] # p[j]
      /\ \A x \in R : \E k \in 1..Len(p) : p[k] = x
  <2>1. Len(plan.operations) \in Nat /\ R \in SUBSET (1..Len(plan.operations))
    BY IdsAre, <1>1 DEF Ids
  <2>2. /\ PlanOrder(R) \in Seq(R) /\ Len(PlanOrder(R)) = Cardinality(R)
        /\ \A i, j \in 1..Cardinality(R) : i # j => PlanOrder(R)[i] # PlanOrder(R)[j]
        /\ \A x \in R : \E k \in 1..Cardinality(R) : PlanOrder(R)[k] = x
    BY <2>1, PlanOrderLists
  <2>3. Cardinality(R) \in Nat
    BY <2>1, SubsetFinite
  <2> HIDE DEF R
  <2> QED BY <2>2, <2>3
<1> HIDE DEF R
<1>3. /\ rest \in Seq(left \ R) /\ Len(rest) \in Nat
      /\ \A i, j \in 1..Len(rest) : i # j => rest[i] # rest[j]
      /\ \A i \in 1..Len(rest) :
           DependsOn(rest[i]) \cap (left \ R) \subseteq {rest[k] : k \in 1..i - 1}
  <2>1. Lists(rest, left \ R)
    BY DEF R
  <2>2. Len(rest) \in Nat
    BY <2>1, LenProperties DEF Lists
  <2> QED BY <2>1, <2>2 DEF Lists
<1>4. p \in Seq(left) /\ rest \in Seq(left)
  <2>1. R \subseteq left /\ left \ R \subseteq left
    BY <1>1
  <2>2. p \in Seq(left)
    BY <2>1, <1>2, SeqMonotonic, Zenon
  <2>3. rest \in Seq(left)
    BY <2>1, <1>3, SeqMonotonic, Zenon
  <2> QED BY <2>2, <2>3
<1>5. /\ s \in Seq(left) /\ Len(s) = Len(p) + Len(rest)
      /\ \A i \in 1..Len(p) + Len(rest) : s[i] = IF i <= Len(p) THEN p[i] ELSE rest[i - Len(p)]
  BY <1>4, ConcatProperties DEF R
<1>6. \A i \in 1..Len(p) : s[i] = p[i] /\ s[i] \in R
  <2>1. \A i \in 1..Len(p) : p[i] \in R
    BY <1>2, ElementOfSeq
  <2>2. \A i \in 1..Len(p) : s[i] = p[i]
    BY <1>2, <1>3, <1>5
  <2> QED BY <2>1, <2>2
<1>7. \A i \in Len(p) + 1..Len(s) :
        i - Len(p) \in 1..Len(rest) /\ s[i] = rest[i - Len(p)] /\ s[i] \in left \ R
  <2>1. \A i \in 1..Len(rest) : rest[i] \in left \ R
    BY <1>3, ElementOfSeq
  <2>2. \A i \in Len(p) + 1..Len(s) : i - Len(p) \in 1..Len(rest) /\ s[i] = rest[i - Len(p)]
    BY <1>2, <1>3, <1>5
  <2> QED BY <2>1, <2>2
<1>8. \A i \in 1..Len(s) : i \in 1..Len(p) \/ i \in Len(p) + 1..Len(s)
  BY <1>2, <1>3, <1>5
<1>9. ASSUME NEW i \in 1..Len(s), NEW j \in 1..Len(s), i # j PROVE s[i] # s[j]
  <2>1. CASE i \in 1..Len(p) /\ j \in 1..Len(p)
    <3>1. p[i] # p[j]
      BY <2>1, <1>9, <1>2, Zenon
    <3> QED BY <2>1, <3>1, <1>6, Zenon
  <2>2. CASE i \in 1..Len(p) /\ j \in Len(p) + 1..Len(s)
    BY <2>2, <1>6, <1>7
  <2>3. CASE i \in Len(p) + 1..Len(s) /\ j \in 1..Len(p)
    BY <2>3, <1>6, <1>7
  <2>4. CASE i \in Len(p) + 1..Len(s) /\ j \in Len(p) + 1..Len(s)
    <3>1. i - Len(p) # j - Len(p)
      BY <1>9, <1>2
    <3>2. PICK a, b : a = i - Len(p) /\ b = j - Len(p)
      OBVIOUS
    <3>3. a \in 1..Len(rest) /\ b \in 1..Len(rest) /\ s[i] = rest[a] /\ s[j] = rest[b]
      BY <2>4, <3>2, <1>7, Zenon
    <3> QED BY <3>1, <3>2, <3>3, <1>3, Zenon
  <2> QED BY <2>1, <2>2, <2>3, <2>4, <1>8
<1>10. ASSUME NEW i \in 1..Len(s) PROVE DependsOn(s[i]) \cap left \subseteq {s[k] : k \in 1..i - 1}
  <2>1. CASE i \in 1..Len(p)
    <3>1. s[i] \in Ready(left)
      BY <2>1, <1>6 DEF R
    <3> QED BY <3>1 DEF Ready
  <2>2. CASE i \in Len(p) + 1..Len(s)
    <3>1. SUFFICES ASSUME NEW x \in DependsOn(s[i]) \cap left PROVE \E k \in 1..i - 1 : s[k] = x
      BY Zenon
    <3>2. CASE x \in R
      <4>1. PICK k \in 1..Len(p) : p[k] = x
        BY <3>2, <1>2
      <4>2. k \in 1..i - 1
        BY <2>2, <1>2
      <4> QED BY <4>1, <4>2, <1>6
    <3>3. CASE x \notin R
      <4>1. i - Len(p) \in 1..Len(rest) /\ s[i] = rest[i - Len(p)]
        BY <2>2, <1>7
      <4>2. x \in {rest[k] : k \in 1..(i - Len(p)) - 1}
        BY <4>1, <3>3, <1>3
      <4>3. PICK k \in 1..(i - Len(p)) - 1 : rest[k] = x
        BY <4>2
      <4>4. /\ k + Len(p) \in Len(p) + 1..Len(s) /\ k + Len(p) \in 1..i - 1
            /\ (k + Len(p)) - Len(p) = k
        BY <4>3, <2>2, <1>2, <1>3, <1>5
      <4>5. s[k + Len(p)] = x
        BY <4>3, <4>4, <1>7
      <4> QED BY <4>4, <4>5
    <3> QED BY <3>2, <3>3
  <2> QED BY <2>1, <2>2, <1>8
<1> QED BY <1>5, <1>9, <1>10 DEF Lists

LEMMA OrderLists ==
  ASSUME Typed
  PROVE  Lists(TopologicalOrder, Ids)
<1>1. PICK f : /\ TopologicalOrder = f[Ids]
               /\ \A left \in SUBSET Ids : f[left] = OrderFrom(left, f)
  BY OrderUnfolds
<1> DEFINE Bad == {n \in Nat : \E left \in SUBSET Ids :
                                Cardinality(left) = n /\ ~Lists(f[left], left)}
<1>2. Bad = {}
  <2> SUFFICES ASSUME Bad # {} PROVE FALSE
    OBVIOUS
  <2>1. PICK m \in Bad : \A k \in Bad : m <= k
    <3> HIDE DEF Bad
    <3> QED BY NatMin DEF Bad
  <2>2. PICK left \in SUBSET Ids : Cardinality(left) = m /\ ~Lists(f[left], left)
    BY <2>1
  <2>3. f[left] = OrderFrom(left, f)
    BY <1>1
  <2>4. CASE Ready(left) = {}
    <3>1. f[left] = <<>>
      BY <2>3, <2>4 DEF OrderFrom
    <3>2. <<>> \in Seq(left) /\ Len(<<>>) = 0
      BY EmptySeq
    <3>3. Lists(<<>>, left)
      BY <3>2 DEF Lists
    <3> QED BY <3>1, <3>3, <2>2
  <2>5. CASE Ready(left) # {}
    <3> DEFINE less == left \ Ready(left)
    <3>1. /\ less \in SUBSET Ids /\ Cardinality(less) \in Nat /\ Cardinality(left) \in Nat
          /\ Cardinality(less) < Cardinality(left)
      BY <2>5, SubsetOfIds
    <3>2. ~(m <= Cardinality(less))
      BY <3>1, <2>2
    <3>3. Cardinality(less) \notin Bad
      BY <3>2, <2>1
    <3>4. Lists(f[less], less)
      BY <3>1, <3>3
    <3>5. f[left] = PlanOrder(Ready(left)) \o f[less]
      BY <2>3, <2>5 DEF OrderFrom
    <3>6. Lists(f[left], left)
      BY <2>5, <3>4, <3>5, RoundLists
    <3> QED BY <3>6, <2>2
  <2> QED BY <2>4, <2>5
<1>3. Ids \in SUBSET Ids /\ Cardinality(Ids) \in Nat
  BY SubsetOfIds
<1>4. Lists(f[Ids], Ids)
  BY <1>2, <1>3
<1> QED BY <1>1, <1>4

(* The order has no other elements than the plan's; a plan without cycles is listed whole
   (topological_operations). *)
LEMMA OrderIs ==
  ASSUME Typed
  PROVE  /\ TopologicalOrder \in Seq(Ids) /\ Len(TopologicalOrder) \in Nat
         /\ \A n \in 1..Len(TopologicalOrder) : TopologicalOrder[n] \in Ids
         /\ Len(TopologicalOrder) <= Len(plan.operations)
         /\ Valid => First(Len(TopologicalOrder)) = Ids
         /\ Valid => \A n \in 1..Len(TopologicalOrder) :
                       DependsOn(TopologicalOrder[n]) \subseteq First(n - 1)
<1> DEFINE s == TopologicalOrder
           L == Len(s)
<1>1. /\ s \in Seq(Ids)
      /\ \A i, j \in 1..L : i # j => s[i] # s[j]
      /\ \A i \in 1..L : DependsOn(s[i]) \cap Ids \subseteq {s[k] : k \in 1..i - 1}
  BY OrderLists DEF Lists
<1>2. L \in Nat /\ s \in [1..L -> Ids] /\ \A n \in 1..L : s[n] \in Ids
  BY <1>1, LenProperties, ElementOfSeq
<1>3. IsFiniteSet(Ids) /\ Cardinality(Ids) = Len(plan.operations)
  BY IdsAre
<1>4. Cardinality(1..L) = L
  BY SMTT(30), <1>2, FS_Interval
<1>5. s \in Injection(1..L, Ids)
  <2> HIDE DEF s, L
  <2> QED BY <1>1, <1>2 DEF Injection, IsInjective
<1>6. L <= Len(plan.operations) /\ (L = Len(plan.operations) => s \in Surjection(1..L, Ids))
  BY <1>3, <1>4, <1>5, FS_Injection
<1>7. ASSUME Valid PROVE First(L) = Ids
  <2>1. s \in Surjection(1..L, Ids)
    BY <1>6, <1>7 DEF Valid
  <2>2. \A id \in Ids : \E k \in 1..L : s[k] = id
    BY <2>1 DEF Surjection
  <2> HIDE DEF L
  <2> QED BY <2>2, <1>2 DEF First
<1>8. ASSUME Valid, NEW n \in 1..L PROVE DependsOn(s[n]) \subseteq First(n - 1)
  <2>1. s[n] \in Ids
    BY <1>2
  <2>2. DependsOn(s[n]) \subseteq Ids
    BY <2>1, <1>8 DEF Valid
  <2> HIDE DEF L
  <2> QED BY <2>2, <1>1 DEF First
<1> QED BY <1>1, <1>2, <1>6, <1>7, <1>8

LEMMA SamePlan ==
  ASSUME plan' = plan
  PROVE  /\ Ids' = Ids /\ TopologicalOrder' = TopologicalOrder /\ (Valid' <=> Valid)
         /\ Tokened' = Tokened
         /\ \A id : Operation(id)' = Operation(id) /\ DependsOn(id)' = DependsOn(id)
         /\ \A n : First(n)' = First(n)
<1>1. Ids' = Ids /\ \A id : Operation(id)' = Operation(id)
  BY DEF Ids, Operation
<1>2. \A id : DependsOn(id)' = DependsOn(id)
  BY <1>1 DEF DependsOn
<1>3. \A left : Ready(left)' = Ready(left)
  BY <1>2 DEF Ready
<1>4. TopologicalOrder' = TopologicalOrder
  BY <1>1, <1>3, Zenon DEF TopologicalOrder
<1>5. Valid' <=> Valid
  BY <1>1, <1>2, <1>4 DEF Valid
<1>6. Tokened' = Tokened
  BY <1>1 DEF Tokened
<1>7. \A n : First(n)' = First(n)
  BY <1>4 DEF First
<1> QED BY <1>1, <1>2, <1>4, <1>5, <1>6, <1>7

-----------------------------------------------------------------------------
(* Repairs *)

LEMMA UndoneTyped ==
  ASSUME NEW x \in Record, NEW inverse \in Inversion
  PROVE  Undone(x, inverse) \in Record
<1>1. /\ inverse.was \in Record
      /\ inverse.undo \in {"create", "field", "property", "update", "submit", "delete"}
  BY DEF Inversion
<1>2. x.revision + 1 \in Nat
  BY DEF Record
<1>3. CASE inverse.undo \in Inserting
  <2>1. Undone(x, inverse) = [x EXCEPT !.there = FALSE, !.revision = @ + 1]
    BY <1>3 DEF Undone, Inserting
  <2> QED BY <2>1, <1>2 DEF Record
<1>4. CASE inverse.undo = "delete"
  <2>1. Undone(x, inverse) = [inverse.was EXCEPT !.revision = x.revision + 1]
    BY <1>4 DEF Undone, Inserting
  <2> QED BY <2>1, <1>1, <1>2 DEF Record
<1>5. CASE inverse.undo = "update"
  <2>1. Undone(x, inverse) = [x EXCEPT !.planned = inverse.was.planned, !.revision = @ + 1]
    BY <1>5 DEF Undone, Inserting
  <2> QED BY <2>1, <1>1, <1>2 DEF Record
<1>6. CASE inverse.undo = "submit"
  <2>1. Undone(x, inverse) = [x EXCEPT !.docstatus = 2, !.revision = @ + 1]
    BY <1>6 DEF Undone, Inserting
  <2>2. Undone(x, inverse) = [there |-> x.there, planned |-> x.planned,
                              revision |-> x.revision + 1, docstatus |-> 2]
    BY <2>1 DEF Record
  <2> QED BY <2>2, <1>2 DEF Record
<1> QED BY <1>1, <1>3, <1>4, <1>5, <1>6 DEF Inserting

(* One repair upon those before it. *)
RepairedFrom(c, view, s, ids, before) ==
  IF ids = {} THEN view
  ELSE IF Repairable(c, s[Max(ids)])
       THEN [before[ids \ {Max(ids)}] EXCEPT ![s[Max(ids)].target] = Undone(@, s[Max(ids)])]
       ELSE before[ids \ {Max(ids)}]

Repairs(f, c, view, s, n) == f = [ids \in SUBSET (1..n) |-> RepairedFrom(c, view, s, ids, f)]
Unfolds(f, c, view, s, n, result) ==
  /\ result = f[1..n]
  /\ \A ids \in SUBSET (1..n) : f[ids] = RepairedFrom(c, view, s, ids, f)

LEMMA MaxIs ==
  ASSUME NEW n \in Nat, NEW ids \in SUBSET (1..n), ids # {}
  PROVE  /\ Max(ids) \in ids /\ \A i \in ids : i <= Max(ids)
         /\ n # 0 /\ ids \ {Max(ids)} \in SUBSET (1..n - 1)
<1> DEFINE T == {n - i : i \in ids}
<1>1. T \subseteq Nat /\ T # {}
  <2>1. \A i \in ids : i \in 1..n /\ n - i \in Nat
    OBVIOUS
  <2>2. PICK i : i \in ids
    OBVIOUS
  <2>3. n - i \in T
    BY <2>2
  <2> QED BY <2>1, <2>3
<1>2. PICK t \in T : \A u \in T : t <= u
  BY <1>1, NatMin
<1>3. PICK m \in ids : t = n - m
  BY <1>2
<1>4. \A i \in ids : n - m <= n - i
  BY <1>2, <1>3
<1>5. \A i \in ids : i \in 1..n
  OBVIOUS
<1>6. \A i \in ids : m >= i
  BY <1>4, <1>5
<1>7. Max(ids) \in ids /\ \A i \in ids : Max(ids) >= i
  BY <1>6 DEF Max
<1> HIDE DEF T
<1>8. PICK x : x = Max(ids)
  OBVIOUS
<1>9. x \in 1..n /\ \A i \in ids : i \in 1..n /\ i <= x
  BY <1>5, <1>7, <1>8
<1>10. n # 0 /\ \A i \in ids \ {x} : i \in 1..n - 1
  BY <1>9
<1> QED BY <1>7, <1>8, <1>9, <1>10

LEMMA RepairsExist ==
  ASSUME NEW c, NEW view, NEW s, NEW n \in Nat
  PROVE  \E f : Repairs(f, c, view, s, n)
<1> DEFINE Bad == {m \in Nat : \A f : ~Repairs(f, c, view, s, m)}
<1> SUFFICES ASSUME Bad # {} PROVE FALSE
  OBVIOUS
<1>1. PICK m \in Bad : \A k \in Bad : m <= k
  <2> HIDE DEF Bad
  <2> QED BY NatMin DEF Bad
<1>2. m \in Nat /\ \A f : ~Repairs(f, c, view, s, m)
  BY <1>1
<1>3. PICK f : m # 0 => Repairs(f, c, view, s, m - 1)
  <2>1. CASE m = 0
    BY <2>1
  <2>2. CASE m # 0
    <3>1. m - 1 \in Nat /\ ~(m <= m - 1)
      BY <1>2, <2>2
    <3>2. m - 1 \notin Bad
      BY <3>1, <1>1
    <3> QED BY <3>1, <3>2
  <2> QED BY <2>1, <2>2
<1> DEFINE g == [ids \in SUBSET (1..m) |-> RepairedFrom(c, view, s, ids, f)]
<1>4. ASSUME NEW ids \in SUBSET (1..m)
      PROVE  RepairedFrom(c, view, s, ids, g) = RepairedFrom(c, view, s, ids, f)
  <2>1. CASE ids = {}
    BY <2>1 DEF RepairedFrom
  <2>2. CASE ids # {}
    <3> DEFINE less == ids \ {Max(ids)}
    <3>1. m # 0 /\ less \in SUBSET (1..m - 1) /\ less \in SUBSET (1..m)
      BY <1>2, <2>2, MaxIs
    <3>2. f[less] = RepairedFrom(c, view, s, less, f)
      BY <3>1, <1>3 DEF Repairs
    <3>3. g[less] = RepairedFrom(c, view, s, less, f)
      BY <3>1
    <3>4. g[less] = f[less]
      BY <3>2, <3>3
    <3> HIDE DEF g
    <3> QED BY <3>4 DEF RepairedFrom
  <2> QED BY <2>1, <2>2
<1>5. Repairs(g, c, view, s, m)
  <2> HIDE DEF g
  <2>1. g = [ids \in SUBSET (1..m) |-> RepairedFrom(c, view, s, ids, f)]
    BY DEF g
  <2> QED BY <2>1, <1>4 DEF Repairs
<1> HIDE DEF g
<1> QED BY <1>5, <1>2

LEMMA RepairsUnfold ==
  ASSUME NEW c, NEW r, NEW n \in Nat, NEW s, s = Reverse(r.inverses), DOMAIN s = 1..n
  PROVE  \E f : Unfolds(f, c, r.view, s, n, RolledBack(c, r))
<1> DEFINE f == CHOOSE g : g = [ids \in SUBSET DOMAIN s |-> RepairedFrom(c, r.view, s, ids, g)]
<1>1. \E g : g = [ids \in SUBSET DOMAIN s |-> RepairedFrom(c, r.view, s, ids, g)]
  <2>1. PICK g : Repairs(g, c, r.view, s, n)
    BY RepairsExist
  <2>2. g = [ids \in SUBSET DOMAIN s |-> RepairedFrom(c, r.view, s, ids, g)]
    BY <2>1 DEF Repairs
  <2> QED BY <2>2
<1>2. f = [ids \in SUBSET DOMAIN s |-> RepairedFrom(c, r.view, s, ids, f)]
  BY <1>1, Zenon
<1>3. RolledBack(c, r) = f[DOMAIN s]
  BY Zenon DEF RolledBack, FoldLeft, MapThenFoldSet, RepairedFrom
<1>4. \A ids \in SUBSET (1..n) : f[ids] = RepairedFrom(c, r.view, s, ids, f)
  <2> HIDE DEF f
  <2> QED BY <1>2
<1> HIDE DEF f
<1> QED BY <1>3, <1>4 DEF Unfolds

(* A rollback leaves records where there were records (_rollback). *)
LEMMA RolledBackTyped ==
  ASSUME NEW c, NEW r \in Request
  PROVE  RolledBack(c, r) \in [Targets -> Record]
<1> DEFINE q == r.inverses
           s == Reverse(q)
           n == Len(q)
<1>1. q \in Seq(Inversion) /\ r.view \in [Targets -> Record]
  BY DEF Request
<1>2. n \in Nat /\ DOMAIN s = 1..n /\ \A i \in 1..n : s[i] = q[(n - i) + 1]
  BY <1>1, LenProperties DEF Reverse
<1>3. \A i \in 1..n : s[i] \in Inversion
  <2>1. ASSUME NEW i \in 1..n PROVE s[i] \in Inversion
    <3>1. (n - i) + 1 \in 1..n
      BY <1>2
    <3>2. q[(n - i) + 1] \in Inversion
      BY <3>1, <1>1, ElementOfSeq
    <3> QED BY <3>2, <1>2
  <2> QED BY <2>1
<1>4. PICK f : Unfolds(f, c, r.view, s, n, RolledBack(c, r))
  <2>1. s = Reverse(r.inverses)
    OBVIOUS
  <2> HIDE DEF s, n, q
  <2> QED BY <2>1, <1>2, RepairsUnfold, Zenon
<1> HIDE DEF s, n
<1> DEFINE Bad == {m \in Nat : /\ m <= n
                               /\ \E ids \in SUBSET (1..m) : f[ids] \notin [Targets -> Record]}
<1>5. Bad = {}
  <2> SUFFICES ASSUME Bad # {} PROVE FALSE
    OBVIOUS
  <2>1. PICK m \in Bad : \A k \in Bad : m <= k
    <3> HIDE DEF Bad
    <3> QED BY NatMin DEF Bad
  <2>2. m \in Nat /\ m <= n
    BY <2>1
  <2>3. PICK ids \in SUBSET (1..m) : f[ids] \notin [Targets -> Record]
    BY <2>1
  <2>4. f[ids] = RepairedFrom(c, r.view, s, ids, f)
    <3>1. ids \in SUBSET (1..n)
      BY <2>2, <1>2
    <3> QED BY <3>1, <1>4 DEF Unfolds
  <2>5. ids # {}
    BY <2>3, <2>4, <1>1 DEF RepairedFrom
  <2> DEFINE x == Max(ids)
             less == ids \ {x}
  <2>6. x \in ids /\ m # 0 /\ less \in SUBSET (1..m - 1)
    BY <2>2, <2>5, MaxIs
  <2>7. f[less] \in [Targets -> Record]
    <3>1. m - 1 \in Nat /\ m - 1 <= n /\ ~(m <= m - 1)
      BY <2>2, <2>6, <1>2
    <3>2. m - 1 \notin Bad
      BY <3>1, <2>1
    <3> HIDE DEF less
    <3> QED BY <3>1, <3>2, <2>6
  <2>8. s[x] \in Inversion /\ s[x].target \in Targets
    <3>1. x \in 1..n
      <4> HIDE DEF x
      <4>1. x \in 1..m
        BY <2>6
      <4> QED BY <4>1, <2>2, <1>2
    <3>2. s[x] \in Inversion
      BY <3>1, <1>3
    <3> QED BY <3>2 DEF Inversion
  <2>9. f[ids] = IF Repairable(c, s[x])
                 THEN [f[less] EXCEPT ![s[x].target] = Undone(@, s[x])] ELSE f[less]
    BY <2>4, <2>5 DEF RepairedFrom
  <2>10. Undone(f[less][s[x].target], s[x]) \in Record
    BY <2>7, <2>8, UndoneTyped
  <2> HIDE DEF x, less
  <2>11. f[ids] \in [Targets -> Record]
    BY <2>7, <2>8, <2>9, <2>10
  <2> QED BY <2>11, <2>3
<1>6. f[1..n] \in [Targets -> Record]
  <2>1. n \in Nat /\ n <= n
    BY <1>2
  <2> QED BY <1>5, <2>1, Zenon
<1> QED BY <1>4, <1>6 DEF Unfolds

-----------------------------------------------------------------------------
(* Steps *)

LEMMA OrderStays ==
  ASSUME plan' = plan, NEW r, InOrder(r)
  PROVE  InOrder(r)'
BY SamePlan DEF InOrder

LEMMA PlanStays ==
  ASSUME plan' = plan, records' = records, applied' = applied, NEW r, AtThePlan(r)
  PROVE  AtThePlan(r)'
BY SamePlan DEF AtThePlan

(* What the invariant says of one request. *)
Sound(r) == r # None => r \in Request /\ Valid /\ InOrder(r) /\ (Started(r) => AtThePlan(r))
Apart(r, s) == r # None /\ s # None => r.written \cap s.written = {}

LEMMA Parts ==
  /\ IInv => /\ Typed /\ Committed
             /\ \A c \in Clients : Sound(requests[c])
             /\ \A c, d \in Clients : c # d => Apart(requests[c], requests[d])
  /\ /\ Committed /\ DOMAIN requests = Clients
     /\ plan.operations \in Seq(OperationType)
     /\ records \in [Targets -> Record]
     /\ row \in [status : Statuses, receipts : SUBSET Nat]
     /\ \A c \in Clients : Sound(requests[c])
     /\ \A c, d \in Clients : c # d => Apart(requests[c], requests[d])
     => IInv
BY Zenon DEF IInv, Typed, LockedApart, Sound, Apart, Started

(* A step of one request that commits nothing. *)
LEMMA OneRequest ==
  ASSUME IInv, UNCHANGED <<plan, records, row, applied>>, NEW c \in Clients, NEW q,
         requests' = [requests EXCEPT ![c] = q], Sound(q),
         \A d \in Clients \ {c} : Apart(q, requests[d])
  PROVE  IInv'
<1>1. /\ Typed /\ Committed /\ \A d \in Clients : Sound(requests[d])
      /\ \A d, e \in Clients : d # e => Apart(requests[d], requests[e])
  BY Parts
<1>2. DOMAIN requests = Clients
  BY <1>1 DEF Typed
<1>3. /\ DOMAIN requests' = Clients /\ requests'[c] = q
      /\ \A d \in Clients \ {c} : requests'[d] = requests[d]
  BY <1>2
<1>4. ASSUME NEW r, Sound(r) PROVE Sound(r)'
  BY <1>4, SamePlan, OrderStays, PlanStays, Zenon DEF Sound, Started
<1>5. ASSUME NEW d \in Clients PROVE Sound(requests[d])'
  <2>1. PICK r : r = requests'[d] /\ Sound(r)
    BY <1>1, <1>3
  <2>2. Sound(r)'
    BY <2>1, <1>4
  <2> QED BY <2>1, <2>2 DEF Sound, Started
<1>6. ASSUME NEW d \in Clients, NEW e \in Clients, d # e PROVE Apart(requests[d], requests[e])'
  <2>1. Apart(requests'[d], requests'[e])
    <3>1. CASE d = c
      BY <3>1, <1>6, <1>3
    <3>2. CASE e = c
      <4>1. Apart(q, requests[d])
        BY <3>2, <1>6
      <4> QED BY <4>1, <3>2, <1>6, <1>3 DEF Apart
    <3>3. CASE d # c /\ e # c
      BY <3>3, <1>6, <1>3, <1>1
    <3> QED BY <3>1, <3>2, <3>3
  <2> QED BY <2>1 DEF Apart
<1>7. Committed'
  BY <1>1, SamePlan DEF Committed
<1>8. /\ plan'.operations \in Seq(OperationType) /\ records' \in [Targets -> Record]
      /\ row' \in [status : Statuses, receipts : SUBSET Nat]
  BY <1>1 DEF Typed
<1> QED BY <1>3, <1>5, <1>6, <1>7, <1>8, Zenon DEF IInv, Typed, LockedApart, Sound, Apart, Started

LEMMA EffectTyped ==
  ASSUME NEW op \in OperationType, NEW x \in Record
  PROVE  /\ Effect(op, x) \in Record
         /\ AlreadyThere(op, x) => Effect(op, x) = x
         /\ ~AlreadyThere(op, x) => Effect(op, x).revision = x.revision + 1
<1>1. CASE AlreadyThere(op, x)
  BY <1>1 DEF Effect
<1>2. CASE ~AlreadyThere(op, x)
  <2>1. PICK d : d = CASE op.kind = "submit" -> 1 [] op.kind = "cancel" -> 2
                       [] op.kind \in Inserting -> 0 [] OTHER -> x.docstatus
    OBVIOUS
  <2>2. d \in 0..2
    <3>1. x.docstatus \in 0..2
      BY DEF Record
    <3>2. CASE op.kind = "submit"
      BY <2>1, <3>2 DEF Inserting
    <3>3. CASE op.kind = "cancel"
      BY <2>1, <3>3 DEF Inserting
    <3>4. CASE op.kind \in Inserting
      BY <2>1, <3>4 DEF Inserting
    <3>5. CASE op.kind # "submit" /\ op.kind # "cancel" /\ op.kind \notin Inserting
      BY <2>1, <3>5, <3>1
    <3> QED BY <3>2, <3>3, <3>4, <3>5
  <2>3. Effect(op, x) = [there |-> op.kind # "delete", planned |-> TRUE,
                         revision |-> x.revision + 1, docstatus |-> d]
    BY <1>2, <2>1 DEF Effect, Written, Record
  <2>4. x.revision + 1 \in Nat
    BY DEF Record
  <2> QED BY <1>2, <2>2, <2>3, <2>4 DEF Record
<1> QED BY <1>1, <1>2

LEMMA InverseTyped ==
  ASSUME NEW op \in OperationType, NEW x \in Record, NEW r, Possible(r, op)
  PROVE  InverseOf(op, x) \in Seq(Inversion)
<1>1. op.kind \in {"create", "field", "property", "delete"} \cup Saving
  BY DEF Possible, AlreadyThere
<1>2. CASE AlreadyThere(op, x) \/ op.kind \in {"cancel", "workflow"}
  <2>1. InverseOf(op, x) = <<>>
    BY <1>2 DEF InverseOf
  <2> QED BY <2>1, EmptySeq
<1>3. CASE ~(AlreadyThere(op, x) \/ op.kind \in {"cancel", "workflow"})
  <2>1. PICK i : i = [undo |-> op.kind, target |-> op.target, was |-> x]
    OBVIOUS
  <2>2. op.kind \in {"create", "field", "property", "update", "submit", "delete"}
    BY <1>1, <1>3 DEF Saving
  <2>3. i \in Inversion
    BY <2>1, <2>2 DEF Inversion, OperationType
  <2>4. InverseOf(op, x) = <<i>>
    BY <2>1, <1>3 DEF InverseOf
  <2> QED BY <2>3, <2>4
<1> QED BY <1>2, <1>3

LEMMA NextIs ==
  ASSUME Typed, NEW c \in Clients, Sound(requests[c]), Going(c), NEW r, r = requests[c]
  PROVE  /\ r \in Request /\ r.phase = "applying" /\ Valid /\ InOrder(r) /\ AtThePlan(r)
         /\ Len(r.done) \in Nat /\ Len(r.done) + 1 \in 1..Len(TopologicalOrder)
         /\ TopologicalOrder[Len(r.done) + 1] \in Ids
         /\ NextOperation(r) \in OperationType
<1>1. r # None /\ r.phase = "applying" /\ Len(r.done) < Len(TopologicalOrder)
  BY DEF Going, In
<1>2. r \in Request /\ Valid /\ InOrder(r) /\ AtThePlan(r)
  BY <1>1 DEF Sound, Started
<1>3. Len(r.done) \in Nat
  BY <1>2, LenProperties DEF Request
<1>4. Len(TopologicalOrder) \in Nat
  BY OrderIs
<1>5. Len(r.done) + 1 \in 1..Len(TopologicalOrder)
  BY <1>1, <1>3, <1>4
<1>6. TopologicalOrder[Len(r.done) + 1] \in Ids
  BY <1>5, OrderIs
<1>7. NextOperation(r) \in OperationType
  BY <1>6, IdsAre DEF NextOperation
<1> QED BY <1>1, <1>2, <1>3, <1>5, <1>6, <1>7

(* An operation moves the request on by itself, and by nothing else (apply_document). *)
Onward(r, q, op) ==
  LET t == op.target IN
  /\ q.phase = r.phase
  /\ q.done = Append(r.done, TopologicalOrder[Len(r.done) + 1])
  /\ q.view = [r.view EXCEPT ![t] = Effect(op, r.view[t])]
  /\ q.written = IF AlreadyThere(op, r.view[t]) THEN r.written ELSE r.written \cup {t}

LEMMA CarriedIs ==
  ASSUME Typed, NEW c \in Clients, Sound(requests[c]), Going(c), NEW r, r = requests[c],
         NEW op, op = NextOperation(r), Possible(r, op), NEW q, q = Carried(r, op)
  PROVE  /\ q \in Request /\ Onward(r, q, op) /\ InOrder(q)
         /\ Len(q.done) = Len(r.done) + 1
<1> DEFINE t == op.target
           x == r.view[t]
           id == TopologicalOrder[Len(r.done) + 1]
<1>1. /\ r \in Request /\ InOrder(r) /\ Len(r.done) \in Nat
      /\ Len(r.done) + 1 \in 1..Len(TopologicalOrder) /\ id \in Ids /\ op \in OperationType
  BY NextIs
<1>2. t \in Targets /\ r.view \in [Targets -> Record] /\ x \in Record
  BY <1>1 DEF OperationType, Request
<1>3. PICK e : e = Effect(op, x) /\ e \in Record
  BY <1>1, <1>2, EffectTyped
<1>4. PICK w : w = IF AlreadyThere(op, x) THEN r.written ELSE r.written \cup {t}
  OBVIOUS
<1>5. PICK d : d = Append(r.done, id)
  OBVIOUS
<1>6. PICK i : i = r.inverses \o InverseOf(op, x)
  OBVIOUS
<1>7. PICK v : v = [r.view EXCEPT ![t] = e]
  OBVIOUS
<1>8. q = [r EXCEPT !.view = v, !.written = w, !.done = d, !.inverses = i]
  BY <1>1, <1>2, <1>3, <1>4, <1>5, <1>6, <1>7 DEF Carried, Request
<1>9. v \in [Targets -> Record] /\ w \in SUBSET Targets
  BY <1>2, <1>3, <1>4, <1>7, <1>1 DEF Request
<1>10. /\ d \in Seq(Nat) /\ Len(d) = Len(r.done) + 1
       /\ \A k \in 1..Len(r.done) : d[k] = r.done[k]
       /\ d[Len(r.done) + 1] = id
  <2>1. r.done \in Seq(Nat) /\ id \in Nat
    BY <1>1, IdsAre DEF Request
  <2> HIDE DEF id
  <2> QED BY <1>1, <1>5, <2>1, AppendProperties
<1>11. i \in Seq(Inversion)
  <2>1. r.inverses \in Seq(Inversion) /\ InverseOf(op, x) \in Seq(Inversion)
    BY <1>1, <1>2, InverseTyped DEF Request
  <2> QED BY <2>1, <1>6, ConcatProperties
<1>12. q \in Request
  BY <1>1, <1>8, <1>9, <1>10, <1>11 DEF Request
<1>13. q.phase = r.phase /\ q.done = d /\ q.view = v /\ q.written = w
  BY <1>1, <1>8 DEF Request
<1>14. Onward(r, q, op)
  BY <1>3, <1>4, <1>5, <1>7, <1>13 DEF Onward
<1>15. InOrder(q)
  <2>1. Len(q.done) <= Len(TopologicalOrder)
    BY <1>1, <1>10, <1>13
  <2>2. ASSUME NEW k \in 1..Len(q.done) PROVE q.done[k] = TopologicalOrder[k]
    <3>1. k \in 1..Len(r.done) \/ k = Len(r.done) + 1
      BY <1>1, <1>10, <1>13
    <3>2. \A j \in 1..Len(r.done) : r.done[j] = TopologicalOrder[j]
      BY <1>1 DEF InOrder
    <3> QED BY <3>1, <3>2, <1>10, <1>13
  <2> QED BY <2>1, <2>2 DEF InOrder
<1> QED BY <1>12, <1>13, <1>14, <1>15, <1>10

(* What an operation saves is at the revision it was planned for: the request has not written
   it, or its token would be behind (_check_concurrency, _effect). *)
LEMMA CarriedAtThePlan ==
  ASSUME Typed, NEW c \in Clients, Sound(requests[c]), Going(c), NEW r, r = requests[c],
         NEW op, op = NextOperation(r), Possible(r, op), NEW q, q = Carried(r, op)
  PROVE  AtThePlan(q)
<1> DEFINE id == TopologicalOrder[Len(r.done) + 1]
<1>1. /\ r \in Request /\ AtThePlan(r) /\ Len(r.done) \in Nat /\ InOrder(r)
      /\ id \in Ids /\ op \in OperationType /\ op = Operation(id)
  BY NextIs DEF NextOperation
<1>2. /\ q \in Request /\ Onward(r, q, op) /\ InOrder(q) /\ Len(q.done) = Len(r.done) + 1
  BY CarriedIs
<1>3. op.target \in Targets /\ op.token \in Nat \cup {None}
  BY <1>1 DEF OperationType
<1>4. /\ r.view \in [Targets -> Record] /\ records \in [Targets -> Record]
      /\ r.view[op.target] \in Record
  BY <1>1, <1>3 DEF Request, Typed
<1>5. PICK x : x = r.view[op.target]
  BY Zenon
<1>6. PICK e : e = Effect(op, x)
  BY Zenon
<1>7. /\ x \in Record /\ e \in Record /\ x.revision \in Nat /\ e.revision \in Nat
      /\ (AlreadyThere(op, x) => e = x)
      /\ (~AlreadyThere(op, x) => e.revision = x.revision + 1)
  BY <1>1, <1>4, <1>5, <1>6, EffectTyped DEF Record
<1>8. /\ q.view = [r.view EXCEPT ![op.target] = e]
      /\ q.written = IF AlreadyThere(op, x) THEN r.written ELSE r.written \cup {op.target}
      /\ q.done = Append(r.done, id)
  BY <1>2, <1>5, <1>6 DEF Onward
<1>9. /\ q.view[op.target] = e
      /\ \A t \in Targets \ {op.target} :
           q.view[t] = r.view[t] /\ (t \in q.written <=> t \in r.written)
  BY <1>8, <1>3, <1>4
<1>10. ASSUME NEW i \in Tokened
       PROVE  /\ Operation(i).token \in Nat /\ Operation(i).target \in Targets
              /\ Operation(i).token <= r.view[Operation(i).target].revision
              /\ Operation(i).token <= records[Operation(i).target].revision
              /\ Operation(i).target \in r.written
                   => Operation(i).token < r.view[Operation(i).target].revision
  <2>1. i \in Ids /\ Operation(i).token # None
    BY DEF Tokened
  <2>2. Operation(i).token \in Nat /\ Operation(i).target \in Targets
    BY <2>1, IdsAre DEF OperationType
  <2> QED BY <2>2, <1>1 DEF AtThePlan
<1>11. ASSUME NEW i \in Tokened
       PROVE  /\ Operation(i).token <= q.view[Operation(i).target].revision
              /\ Operation(i).token <= records[Operation(i).target].revision
              /\ Operation(i).target \in q.written
                   => Operation(i).token < q.view[Operation(i).target].revision
  <2>1. PICK t, n : t = Operation(i).target /\ n = Operation(i).token
    OBVIOUS
  <2>2. /\ n \in Nat /\ t \in Targets /\ n <= r.view[t].revision /\ n <= records[t].revision
        /\ t \in r.written => n < r.view[t].revision
    BY <2>1, <1>10
  <2>3. CASE t = op.target
    <3>1. CASE AlreadyThere(op, x)
      BY <3>1, <2>1, <2>2, <2>3, <1>5, <1>7, <1>8, <1>9
    <3>2. CASE ~AlreadyThere(op, x)
      <4>1. n <= x.revision /\ e.revision = x.revision + 1
        BY <3>2, <2>2, <2>3, <1>5, <1>7
      <4>2. n < e.revision /\ n <= e.revision
        BY <4>1, <2>2, <1>7
      <4> QED BY <4>2, <2>1, <2>2, <2>3, <1>9
    <3> QED BY <3>1, <3>2
  <2>4. CASE t # op.target
    <3>1. q.view[t] = r.view[t] /\ (t \in q.written <=> t \in r.written)
      BY <2>4, <2>2, <1>9
    <3> QED BY <3>1, <2>1, <2>2
  <2> QED BY <2>3, <2>4
<1>12. ASSUME NEW k \in 1..Len(q.done), q.done[k] \in Tokened \ applied,
              Operation(q.done[k]).kind \in Saving
       PROVE  /\ Operation(q.done[k]).target \in q.written
              /\ records[Operation(q.done[k]).target].revision = Operation(q.done[k]).token
  <2>1. k \in 1..Len(r.done) \/ k = Len(r.done) + 1
    BY <1>1, <1>2
  <2>2. CASE k \in 1..Len(r.done)
    <3>1. q.done[k] = r.done[k]
      BY <2>2, <1>1, <1>2 DEF InOrder
    <3>2. /\ Operation(r.done[k]).target \in r.written
          /\ records[Operation(r.done[k]).target].revision = Operation(r.done[k]).token
      BY <2>2, <3>1, <1>12, <1>1 DEF AtThePlan
    <3>3. r.written \subseteq q.written
      BY <1>8
    <3> QED BY <3>1, <3>2, <3>3
  <2>3. CASE k = Len(r.done) + 1
    <3>1. q.done[k] = id
      BY <2>3, <1>2 DEF InOrder
    <3>2. op.kind \in Saving /\ id \in Tokened /\ op.token # None
      BY <3>1, <1>12, <1>1 DEF Tokened
    <3>3. x.revision = op.token
      BY <3>2, <1>5 DEF Possible, Concurrent
    <3>4. op.kind \notin {"create", "field", "property", "delete"}
      BY <3>2 DEF Saving
    <3>5. ~AlreadyThere(op, x)
      BY <3>4 DEF AlreadyThere
    <3>6. op.target \in r.written \/ records[op.target].revision = x.revision
      BY <3>4, <3>5, <1>5 DEF Possible, Unchanged
    <3>7. op.target \notin r.written
      <4>1. op.token \in Nat /\ (op.target \in r.written => op.token < x.revision)
        BY <3>2, <1>1, <1>5, <1>10
      <4> QED BY <4>1, <3>3
    <3>8. op.target \in q.written
      BY <3>5, <1>8
    <3> QED BY <3>1, <3>3, <3>6, <3>7, <3>8, <1>1
  <2> QED BY <2>1, <2>2, <2>3
<1> QED BY <1>11, <1>12, Zenon DEF AtThePlan

LEMMA DoneIs ==
  ASSUME Typed, NEW r \in Request, InOrder(r)
  PROVE  Len(r.done) \in 0..Len(TopologicalOrder) /\ ToSet(r.done) = First(Len(r.done))
<1>1. r.done \in Seq(Nat)
  BY DEF Request
<1>2. Len(r.done) \in Nat /\ DOMAIN r.done = 1..Len(r.done)
  BY <1>1, LenProperties
<1>3. /\ Len(r.done) <= Len(TopologicalOrder)
      /\ \A k \in 1..Len(r.done) : r.done[k] = TopologicalOrder[k]
  BY DEF InOrder
<1>4. ToSet(r.done) = First(Len(r.done))
  BY <1>2, <1>3 DEF ToSet, First
<1>5. Len(TopologicalOrder) \in Nat
  BY OrderIs
<1> QED BY <1>2, <1>3, <1>4, <1>5

LEMMA FirstIs ==
  ASSUME Typed
  PROVE  /\ First(0) = {}
         /\ \A n \in 0..Len(TopologicalOrder) : First(n) \subseteq Ids
         /\ \A m, n \in 0..Len(TopologicalOrder) : m <= n => First(m) \subseteq First(n)
BY OrderIs DEF First

LEMMA SavedIs ==
  ASSUME records \in [Targets -> Record], NEW r \in Request
  PROVE  /\ Saved(r) \in [Targets -> Record]
         /\ \A t \in r.written : Saved(r)[t] = r.view[t]
         /\ \A t \in Targets \ r.written : Saved(r)[t] = records[t]
<1>1. r.view \in [Targets -> Record] /\ r.written \subseteq Targets
  BY DEF Request
<1> QED BY <1>1 DEF Saved

(* A commit leaves the records of every request at the plan: it writes over none that another
   has locked, and nothing behind the revision of an operation. *)
LEMMA CommitAtThePlan ==
  ASSUME Typed, plan' = plan, NEW r \in Request, AtThePlan(r),
         records' = Saved(r), applied' = applied \cup ToSet(r.done),
         NEW s \in Request, AtThePlan(s), r.written \cap s.written = {}
  PROVE  AtThePlan(s)'
<1>1. /\ \A t \in r.written : records'[t] = r.view[t]
      /\ \A t \in Targets \ r.written : records'[t] = records[t]
  BY SavedIs DEF Typed
<1>2. \A id \in Ids : Operation(id).target \in Targets
  BY IdsAre DEF OperationType
<1>3. ASSUME NEW id \in Tokened, NEW t, t = Operation(id).target
      PROVE  /\ Operation(id).token <= s.view[t].revision
             /\ Operation(id).token <= records'[t].revision
             /\ t \in s.written => Operation(id).token < s.view[t].revision
  <2>1. t \in Targets
    BY <1>2, <1>3 DEF Tokened
  <2>2. /\ Operation(id).token <= s.view[t].revision
        /\ t \in s.written => Operation(id).token < s.view[t].revision
        /\ Operation(id).token <= r.view[t].revision
        /\ Operation(id).token <= records[t].revision
    BY <1>3 DEF AtThePlan
  <2> QED BY <2>1, <2>2, <1>1
<1>4. ASSUME NEW k \in 1..Len(s.done), s.done[k] \in Tokened \ applied',
             NEW op, op = Operation(s.done[k]), op.kind \in Saving
      PROVE  op.target \in s.written /\ records'[op.target].revision = op.token
  <2>1. s.done[k] \in Tokened \ applied
    BY <1>4
  <2>2. op.target \in s.written /\ records[op.target].revision = op.token
    BY <1>4, <2>1 DEF AtThePlan
  <2>3. op.target \in Targets
    BY <1>2, <1>4 DEF Tokened
  <2>4. op.target \notin r.written
    BY <2>2
  <2> QED BY <2>2, <2>3, <2>4, <1>1
<1> QED BY <1>3, <1>4, SamePlan DEF AtThePlan

(* The step that commits a request's rows, between operations or at the end. *)
LEMMA Commit ==
  ASSUME IInv, plan' = plan, NEW c \in Clients, requests[c] # None,
         NEW r \in Request, Valid, InOrder(r), AtThePlan(r),
         \A d \in Others(c) : r.written \cap requests[d].written = {},
         records' = Saved(r), applied' = applied \cup ToSet(r.done),
         row' \in [status : Statuses, receipts : SUBSET Nat], Committed',
         NEW q, requests' = [requests EXCEPT ![c] = q],
         q # None => /\ q \in Request /\ q.view = records' /\ q.written = {} /\ q.done = r.done
  PROVE  IInv'
<1>1. /\ Typed /\ \A d \in Clients : Sound(requests[d])
      /\ \A d, e \in Clients : d # e => Apart(requests[d], requests[e])
  BY Parts
<1>2. DOMAIN requests = Clients
  BY <1>1 DEF Typed
<1>3. /\ DOMAIN requests' = Clients /\ requests'[c] = q
      /\ \A d \in Clients \ {c} : requests'[d] = requests[d]
  BY <1>2
<1>4. records' \in [Targets -> Record] /\ plan'.operations \in Seq(OperationType)
  BY <1>1, SavedIs DEF Typed
<1>5. ASSUME NEW d \in Clients \ {c}, requests[d] # None, NEW s, s = requests[d]
      PROVE  s \in Request /\ Valid' /\ InOrder(s)' /\ (s.phase # "raising" => AtThePlan(s)')
  <2>1. s \in Request /\ InOrder(s) /\ (s.phase # "raising" => AtThePlan(s))
    BY <1>1, <1>5 DEF Sound, Started
  <2>2. r.written \cap s.written = {}
    BY <1>5 DEF Others
  <2> QED BY <2>1, <2>2, <1>1, CommitAtThePlan, OrderStays, SamePlan
<1>6. ASSUME q # None PROVE Valid' /\ InOrder(q)' /\ AtThePlan(q)'
  <2>1. q \in Request /\ q.view = records' /\ q.written = {} /\ q.done = r.done
    BY <1>6
  <2>2. InOrder(q)
    BY <2>1 DEF InOrder
  <2>3. /\ \A t \in r.written : records'[t] = r.view[t]
        /\ \A t \in Targets \ r.written : records'[t] = records[t]
    BY <1>1, SavedIs DEF Typed
  <2>4. ASSUME NEW id \in Tokened
        PROVE  Operation(id).token <= records'[Operation(id).target].revision
    <3>1. Operation(id).target \in Targets
      BY <1>1, IdsAre DEF OperationType, Tokened
    <3>2. /\ Operation(id).token <= r.view[Operation(id).target].revision
          /\ Operation(id).token <= records[Operation(id).target].revision
      BY DEF AtThePlan
    <3> QED BY <3>1, <3>2, <2>3
  <2>5. \A k \in 1..Len(q.done) : q.done[k] \in applied'
    <3>1. DOMAIN r.done = 1..Len(r.done)
      BY LenProperties DEF Request
    <3> QED BY <3>1, <2>1 DEF ToSet
  <2>6. AtThePlan(q)'
    BY <2>1, <2>4, <2>5, SamePlan DEF AtThePlan
  <2> QED BY <2>2, <2>6, OrderStays, SamePlan
<1>7. ASSUME NEW d \in Clients PROVE Sound(requests[d])'
  <2>1. CASE d = c
    BY <2>1, <1>3, <1>6, Zenon DEF Sound, Started
  <2>2. CASE d # c
    BY <2>2, <1>3, <1>5, Zenon DEF Sound, Started
  <2> QED BY <2>1, <2>2
<1>8. ASSUME NEW d \in Clients, NEW e \in Clients, d # e PROVE Apart(requests[d], requests[e])'
  <2>1. CASE d = c
    BY <2>1, <1>8, <1>3 DEF Apart
  <2>2. CASE e = c
    BY <2>2, <1>8, <1>3 DEF Apart
  <2>3. CASE d # c /\ e # c
    BY <2>3, <1>8, <1>3, <1>1 DEF Apart
  <2> QED BY <2>1, <2>2, <2>3
<1> QED BY <1>3, <1>4, <1>7, <1>8, Zenon DEF IInv, Typed, LockedApart, Sound, Apart, Started

-----------------------------------------------------------------------------
(* The invariant is inductive *)

LEMMA Initially == Init => IInv
<1> SUFFICES ASSUME Init PROVE IInv
  OBVIOUS
<1>1. plan \in Plans /\ plan.operations \in Seq(OperationType)
  BY PlansAssumption DEF Init, OperationType
<1>2. records \in [Targets -> Record]
  BY DEF Init, Record
<1>3. row \in [status : Statuses, receipts : SUBSET Nat] /\ row.receipts = {} /\ applied = {}
  BY DEF Init, Statuses
<1>4. DOMAIN requests = Clients /\ \A c \in Clients : requests[c] = None
  BY DEF Init
<1> QED BY <1>1, <1>2, <1>3, <1>4 DEF IInv, Typed, Committed, LockedApart, Started

LEMMA BeginKeeps ==
  ASSUME IInv, NEW c \in Clients, Begin(c) PROVE IInv'
<1>1. Typed /\ UNCHANGED <<plan, records, row, applied>>
  BY DEF IInv, Begin
<1>2. PICK q : q = [phase |-> "checked", view |-> records, status |-> row.status, written |-> {},
                    marked |-> FALSE, done |-> <<>>, inverses |-> <<>>]
  OBVIOUS
<1>3. requests' = [requests EXCEPT ![c] = q] /\ Preflight(records)
  BY <1>2 DEF Begin
<1>4. q \in Request
  BY <1>1, <1>2 DEF Typed, Request
<1>5. q.view = records /\ q.written = {} /\ q.done = <<>>
  BY <1>2
<1>6. InOrder(q)
  BY <1>1, <1>5, OrderIs DEF InOrder
<1>7. AtThePlan(q)
  <2>1. ASSUME NEW id \in Tokened
        PROVE  Operation(id).token <= records[Operation(id).target].revision
    <3>1. id \in Ids /\ Operation(id).token # None
      BY DEF Tokened
    <3>2. records[Operation(id).target].revision = Operation(id).token
      BY <3>1, <1>3 DEF Preflight, Concurrent
    <3>3. Operation(id).token \in Nat
      BY <3>1, <1>1, IdsAre DEF OperationType
    <3> QED BY <3>2, <3>3
  <2> QED BY <2>1, <1>5 DEF AtThePlan
<1>8. Sound(q)
  BY <1>3, <1>4, <1>6, <1>7 DEF Sound, Preflight
<1>9. \A d \in Clients \ {c} : Apart(q, requests[d])
  BY <1>5 DEF Apart
<1> QED BY <1>1, <1>3, <1>8, <1>9, OneRequest

LEMMA MarkKeeps ==
  ASSUME IInv, NEW c \in Clients, Mark(c) PROVE IInv'
<1>1. PICK r : r = requests[c]
  OBVIOUS
<1>2. /\ Sound(r) /\ r # None /\ r.phase = "checked"
      /\ \A d \in Clients \ {c} : Apart(r, requests[d])
  BY <1>1, Parts DEF Mark, In
<1>3. PICK q : q = [r EXCEPT !.phase = "applying", !.status = "Applying", !.marked = TRUE]
  OBVIOUS
<1>4. requests' = [requests EXCEPT ![c] = q] /\ UNCHANGED <<plan, records, row, applied>>
  BY <1>1, <1>3 DEF Mark
<1>5. r \in Request /\ Valid /\ InOrder(r) /\ AtThePlan(r)
  BY <1>2 DEF Sound, Started
<1>6. q \in Request /\ q.view = r.view /\ q.written = r.written /\ q.done = r.done
  BY <1>3, <1>5 DEF Request, Statuses
<1>7. InOrder(q) /\ AtThePlan(q)
  BY <1>5, <1>6 DEF InOrder, AtThePlan
<1>8. Sound(q) /\ \A d \in Clients \ {c} : Apart(q, requests[d])
  BY <1>2, <1>5, <1>6, <1>7 DEF Sound, Apart
<1> QED BY <1>4, <1>8, OneRequest

LEMMA RaiseKeeps ==
  ASSUME IInv, NEW c \in Clients, Raise(c) PROVE IInv'
<1>1. requests' = [requests EXCEPT ![c] = None] /\ UNCHANGED <<plan, records, row, applied>>
  BY DEF Raise
<1>2. Sound(None) /\ \A d \in Clients \ {c} : Apart(None, requests[d])
  BY DEF Sound, Apart
<1> QED BY <1>1, <1>2, OneRequest

LEMMA RepairKeeps ==
  ASSUME IInv, NEW c \in Clients, requests[c] # None, Repair(c) PROVE IInv'
<1>1. PICK r : r = requests[c]
  OBVIOUS
<1>2. /\ Sound(r) /\ r # None
      /\ \A d \in Clients \ {c} : Apart(r, requests[d])
  BY <1>1, Parts
<1>3. r \in Request /\ Valid /\ InOrder(r)
  BY <1>2 DEF Sound
<1>4. PICK repaired : repaired = {inverse \in ToSet(r.inverses) : Repairable(c, inverse)}
  OBVIOUS
<1>5. PICK w : w = r.written \cup {inverse.target : inverse \in repaired}
  OBVIOUS
<1>6. PICK v : v = RolledBack(c, r) /\ v \in [Targets -> Record]
  BY <1>3, RolledBackTyped
<1>7. PICK status :
        status = IF repaired = ToSet(r.inverses) THEN "Repaired" ELSE "NeedsIntervention"
  OBVIOUS
<1>8. PICK q : q = [r EXCEPT !.phase = "raising", !.view = v, !.written = w, !.marked = TRUE,
                             !.status = status]
  OBVIOUS
<1>9. requests' = [requests EXCEPT ![c] = q] /\ UNCHANGED <<plan, records, row, applied>>
  BY <1>1, <1>3, <1>4, <1>5, <1>6, <1>7, <1>8 DEF Repair, Rollback, Request
<1>10. \A inverse \in repaired : inverse.target \in Targets
  <2>1. r.inverses \in Seq(Inversion)
    BY <1>3 DEF Request
  <2>2. \A inverse \in ToSet(r.inverses) : inverse \in Inversion
    BY <2>1, LenProperties, ElementOfSeq DEF ToSet
  <2> QED BY <2>2, <1>4 DEF Inversion
<1>11. q \in Request /\ q.done = r.done /\ q.written = w /\ q.phase = "raising"
  <2>1. w \in SUBSET Targets
    BY <1>3, <1>5, <1>10 DEF Request
  <2>2. status \in Statuses
    BY <1>7 DEF Statuses
  <2> QED BY <2>1, <2>2, <1>3, <1>6, <1>8 DEF Request
<1>12. InOrder(q)
  BY <1>3, <1>11 DEF InOrder
<1>13. Sound(q)
  BY <1>3, <1>11, <1>12 DEF Sound, Started
<1>14. ASSUME NEW d \in Clients \ {c}, requests[d] # None
       PROVE  w \cap requests[d].written = {}
  <2>1. r.written \cap requests[d].written = {}
    BY <1>2, <1>14 DEF Apart
  <2>2. \A inverse \in repaired : inverse.target \notin requests[d].written
    BY <1>4, <1>14 DEF Repairable, Free, Others
  <2> QED BY <2>1, <2>2, <1>5
<1>15. \A d \in Clients \ {c} : Apart(q, requests[d])
  BY <1>11, <1>14 DEF Apart
<1> QED BY <1>9, <1>13, <1>15, OneRequest

LEMMA CommittedBySchema ==
  ASSUME Typed, Committed, Valid, plan' = plan, row'.receipts = row.receipts,
         NEW n \in 1..Len(TopologicalOrder),
         Operation(TopologicalOrder[n]).kind = "field", applied' = applied \cup First(n)
  PROVE  Committed'
<1>1. /\ Ids' = Ids /\ TopologicalOrder' = TopologicalOrder /\ Valid' /\ \A k : First(k)' = First(k)
      /\ \A id : Operation(id)' = Operation(id)
  BY SamePlan
<1>2. Len(TopologicalOrder) \in Nat
  BY OrderIs
<1>3. CASE row.receipts = {} /\ applied = {}
  BY <1>1, <1>3 DEF Committed
<1>4. CASE row.receipts = Ids /\ applied = Ids
  <2>1. n \in 0..Len(TopologicalOrder)
    BY <1>2
  <2>2. applied' = Ids
    BY <1>4, <2>1, FirstIs
  <2> QED BY <2>2, <1>1, <1>4 DEF Committed
<1>5. ASSUME row.receipts = {}, NEW m \in 1..Len(TopologicalOrder), applied = First(m),
             Operation(TopologicalOrder[m]).kind = "field"
      PROVE  Committed'
  <2>1. m \in 0..Len(TopologicalOrder) /\ n \in 0..Len(TopologicalOrder) /\ (m <= n \/ n <= m)
    BY <1>2
  <2>2. applied' = First(n) \/ applied' = First(m)
    <3>1. First(m) \subseteq First(n) \/ First(n) \subseteq First(m)
      BY <2>1, FirstIs
    <3> QED BY <3>1, <1>5
  <2> QED BY <2>2, <1>1, <1>5 DEF Committed
<1> QED BY <1>3, <1>4, <1>5 DEF Committed

LEMMA ApartNow ==
  ASSUME IInv, NEW c \in Clients, requests[c] # None
  PROVE  \A d \in Others(c) : requests[c].written \cap requests[d].written = {}
BY DEF IInv, LockedApart, Others

LEMMA ExecuteKeeps ==
  ASSUME IInv, NEW c \in Clients, Execute(c) PROVE IInv'
<1>1. PICK r : r = requests[c]
  OBVIOUS
<1>2. PICK op : op = NextOperation(r)
  OBVIOUS
<1>3. PICK q : q = Carried(r, op)
  OBVIOUS
<1> DEFINE t == op.target
           there == AlreadyThere(op, r.view[t])
<1>4. /\ Going(c) /\ Possible(r, op) /\ (~there => Free(c, t))
      /\ UNCHANGED <<plan, approval, authority, changes>>
  BY <1>1, <1>2 DEF Execute
<1>5. /\ Typed /\ Committed /\ Sound(r) /\ \A d \in Clients \ {c} : Apart(r, requests[d])
  BY <1>1, Parts
<1>6. /\ r \in Request /\ Valid /\ Len(r.done) \in Nat /\ r.phase = "applying"
      /\ Len(r.done) + 1 \in 1..Len(TopologicalOrder) /\ op \in OperationType
  BY <1>1, <1>2, <1>4, <1>5, NextIs
<1>7. r # None
  BY <1>1, <1>4 DEF Going, In
<1>8. q \in Request /\ Onward(r, q, op) /\ InOrder(q) /\ Len(q.done) = Len(r.done) + 1
  BY <1>1, <1>2, <1>3, <1>4, <1>5, CarriedIs
<1>9. AtThePlan(q)
  BY <1>1, <1>2, <1>3, <1>4, <1>5, CarriedAtThePlan
<1>10. \A d \in Others(c) : q.written \cap requests[d].written = {}
  <2>1. q.written = IF there THEN r.written ELSE r.written \cup {t}
    BY <1>8 DEF Onward
  <2>2. \A d \in Others(c) : r.written \cap requests[d].written = {}
    BY <1>1, <1>7, ApartNow
  <2>3. ~there => \A d \in Others(c) : t \notin requests[d].written
    BY <1>4 DEF Free
  <2> QED BY <2>1, <2>2, <2>3
<1> HIDE DEF t, there
<1>11. CASE Commits(op) /\ ~there
  <2>1. op.kind = "field" /\ Publish(q)
    BY <1>1, <1>2, <1>3, <1>11 DEF Execute, Commits, there, t
  <2>2. PICK n : n = [q EXCEPT !.view = Saved(q), !.written = {}, !.marked = FALSE]
    OBVIOUS
  <2>3. requests' = [requests EXCEPT ![c] = n]
    BY <1>1, <1>2, <1>3, <1>11, <2>2 DEF Execute, there, t
  <2>4. records' = Saved(q) /\ applied' = applied \cup ToSet(q.done)
    BY <2>1 DEF Publish
  <2>5. records' \in [Targets -> Record]
    BY <1>5, <1>8, <2>4, SavedIs DEF Typed
  <2>6. n \in Request /\ n.view = records' /\ n.written = {} /\ n.done = q.done
    BY <1>8, <2>2, <2>4, <2>5 DEF Request
  <2>7. row' \in [status : Statuses, receipts : SUBSET Nat] /\ row'.receipts = row.receipts
    <3>1. row \in [status : Statuses, receipts : SUBSET Nat] /\ q.status \in Statuses
      BY <1>5, <1>8 DEF Typed, Request
    <3>2. row' = [row EXCEPT !.status = q.status] \/ row' = row
      BY <2>1 DEF Publish
    <3> QED BY <3>1, <3>2
  <2>8. Committed'
    <3>1. ToSet(q.done) = First(Len(r.done) + 1)
      BY <1>5, <1>8, DoneIs
    <3>2. Operation(TopologicalOrder[Len(r.done) + 1]).kind = "field"
      BY <1>2, <2>1 DEF NextOperation
    <3> QED BY <1>4, <1>5, <1>6, <2>4, <2>7, <3>1, <3>2, CommittedBySchema
  <2> QED BY <1>1, <1>4, <1>6, <1>7, <1>8, <1>9, <1>10, <2>3, <2>4, <2>6, <2>7, <2>8, Commit
<1>12. CASE ~(Commits(op) /\ ~there)
  <2>1. requests' = [requests EXCEPT ![c] = q] /\ UNCHANGED <<plan, records, row, applied>>
    BY <1>1, <1>2, <1>3, <1>12 DEF Execute, there, t
  <2>2. Sound(q)
    BY <1>6, <1>8, <1>9 DEF Sound
  <2>3. \A d \in Clients \ {c} : Apart(q, requests[d])
    BY <1>10 DEF Apart, Others
  <2> QED BY <2>1, <2>2, <2>3, OneRequest
<1> QED BY <1>11, <1>12

LEMMA FinishIs ==
  ASSUME IInv, NEW c \in Clients, Finish(c), NEW r, r = requests[c]
  PROVE  /\ r # None /\ r \in Request /\ Valid /\ InOrder(r) /\ AtThePlan(r)
         /\ ToSet(r.done) = Ids
<1>1. r # None /\ r.phase = "applying" /\ Len(r.done) = Len(TopologicalOrder)
  BY DEF Finish, In
<1>2. Typed /\ r \in Request /\ Valid /\ InOrder(r) /\ AtThePlan(r)
  BY <1>1, Parts DEF Sound, Started
<1>3. ToSet(r.done) = Ids
  BY <1>1, <1>2, DoneIs, OrderIs
<1> QED BY <1>1, <1>2, <1>3

LEMMA FinishKeeps ==
  ASSUME IInv, NEW c \in Clients, Finish(c) PROVE IInv'
<1>1. PICK r : r = requests[c]
  OBVIOUS
<1>2. /\ r # None /\ r \in Request /\ Valid /\ InOrder(r) /\ AtThePlan(r) /\ ToSet(r.done) = Ids
  BY <1>1, FinishIs
<1>3. /\ records' = Saved(r) /\ applied' = applied \cup ToSet(r.done) /\ plan' = plan
      /\ row' = [status |-> "Verified", receipts |-> ToSet(r.done)]
      /\ requests' = [requests EXCEPT ![c] = None]
  BY <1>1 DEF Finish
<1>4. Typed /\ Committed
  BY DEF IInv
<1>5. row' \in [status : Statuses, receipts : SUBSET Nat] /\ row'.receipts = Ids
  BY <1>2, <1>3, <1>4, IdsAre DEF Statuses
<1>6. applied' = Ids
  <2>1. applied \subseteq Ids
    <3>1. \A n \in 1..Len(TopologicalOrder) : First(n) \subseteq Ids
      BY <1>4, FirstIs, OrderIs
    <3> QED BY <3>1, <1>4 DEF Committed
  <2> QED BY <2>1, <1>2, <1>3
<1>7. Committed'
  BY <1>2, <1>3, <1>5, <1>6, SamePlan DEF Committed
<1>8. \A d \in Others(c) : r.written \cap requests[d].written = {}
  BY <1>1, <1>2, ApartNow
<1> QED BY <1>1, <1>2, <1>3, <1>5, <1>7, <1>8, Commit

(* The others: the approver, the clock, an administrator, users. *)
LEMMA OtherKeeps ==
  ASSUME IInv, UNCHANGED <<plan, requests, applied>>,
         records' \in [Targets -> Record],
         \A t \in Targets : records'[t] # records[t] =>
           /\ records'[t].revision = records[t].revision + 1
           /\ \A c \in Clients : requests[c] # None => t \notin requests[c].written,
         row' \in [status : Statuses, receipts : SUBSET Nat], row'.receipts = row.receipts
  PROVE  IInv'
<1>1. Typed /\ Committed /\ \A c \in Clients : Sound(requests[c])
  BY Parts
<1>2. ASSUME NEW c \in Clients, NEW r, r = requests[c], Started(r)
      PROVE  AtThePlan(r)'
  <2>1. r # None /\ r \in Request /\ AtThePlan(r) /\ InOrder(r)
    BY <1>1, <1>2 DEF Sound, Started
  <2>2. \A id \in Ids : Operation(id) \in OperationType
    BY <1>1, IdsAre
  <2>3. \A t \in Targets : records[t].revision \in Nat
    BY <1>1 DEF Typed, Record
  <2>4. ASSUME NEW id \in Tokened, NEW t, t = Operation(id).target
        PROVE  /\ Operation(id).token <= r.view[t].revision
               /\ Operation(id).token <= records'[t].revision
               /\ t \in r.written => Operation(id).token < r.view[t].revision
    <3>1. t \in Targets /\ Operation(id).token \in Nat
      BY <2>2, <2>4 DEF OperationType, Tokened
    <3>2. /\ Operation(id).token <= r.view[t].revision
          /\ Operation(id).token <= records[t].revision
          /\ t \in r.written => Operation(id).token < r.view[t].revision
      BY <2>1, <2>4 DEF AtThePlan
    <3>3. records'[t] = records[t] \/ records'[t].revision = records[t].revision + 1
      BY <3>1
    <3> QED BY <3>1, <3>2, <3>3, <2>3
  <2>5. ASSUME NEW k \in 1..Len(r.done), r.done[k] \in Tokened \ applied,
               NEW op, op = Operation(r.done[k]), op.kind \in Saving
        PROVE  op.target \in r.written /\ records'[op.target].revision = op.token
    <3>1. op.target \in r.written /\ records[op.target].revision = op.token
      BY <2>1, <2>5 DEF AtThePlan
    <3>2. op.target \in Targets
      BY <2>1, <3>1 DEF Request
    <3> QED BY <3>1, <3>2, <2>1, <1>2
  <2> QED BY <2>4, <2>5, SamePlan DEF AtThePlan
<1>3. ASSUME NEW c \in Clients, requests[c] # None
      PROVE  Valid' /\ InOrder(requests[c])'
  <2>1. Valid /\ InOrder(requests[c])
    BY <1>1, <1>3 DEF Sound
  <2> QED BY <2>1, SamePlan DEF InOrder
<1>4. ASSUME NEW c \in Clients, Started(requests[c])' PROVE AtThePlan(requests[c])'
  <2>1. PICK r : r = requests[c]
    OBVIOUS
  <2>2. Started(r)
    BY <2>1, <1>4 DEF Started
  <2>3. AtThePlan(r)'
    BY <2>1, <2>2, <1>2
  <2> QED BY <2>1, <2>3 DEF AtThePlan
<1>5. Typed'
  BY <1>1 DEF Typed
<1>6. Committed'
  BY <1>1, SamePlan DEF Committed
<1>7. LockedApart'
  BY DEF IInv, LockedApart
<1> QED BY <1>3, <1>4, <1>5, <1>6, <1>7 DEF IInv

LEMMA DecideKeeps ==
  ASSUME IInv, NEW decision, Decide(decision) PROVE IInv'
<1>1. Typed /\ UNCHANGED <<plan, requests, applied, records>>
  BY DEF IInv, Decide, Change
<1>2. PICK status : status = IF decision = "Approved" THEN "Approved" ELSE "Failed"
  OBVIOUS
<1>3. row' = [row EXCEPT !.status = status] /\ status \in Statuses
  BY <1>2 DEF Decide, Statuses
<1>4. row' \in [status : Statuses, receipts : SUBSET Nat] /\ row'.receipts = row.receipts
  BY <1>1, <1>3 DEF Typed
<1> QED BY <1>1, <1>4, OtherKeeps DEF Typed

LEMMA EditKeeps ==
  ASSUME IInv, NEW t \in Targets, Edit(t) PROVE IInv'
<1>1. Typed /\ UNCHANGED <<plan, requests, applied, row>>
  BY DEF IInv, Edit, Change
<1>2. records \in [Targets -> Record] /\ records[t] \in Record
  BY <1>1 DEF Typed
<1>3. PICK x : x = Edited(records[t])
  OBVIOUS
<1>4. records' = [records EXCEPT ![t] = x]
  BY <1>2, <1>3 DEF Edit
<1>5. x \in Record /\ x.revision = records[t].revision + 1
  <2>1. records[t].revision + 1 \in Nat
    BY <1>2 DEF Record
  <2> QED BY <2>1, <1>2, <1>3 DEF Record, Edited
<1>6. records' \in [Targets -> Record]
  BY <1>2, <1>4, <1>5
<1>7. ASSUME NEW u \in Targets, records'[u] # records[u]
      PROVE  /\ records'[u].revision = records[u].revision + 1
             /\ \A c \in Clients : requests[c] # None => u \notin requests[c].written
  <2>1. u = t
    BY <1>2, <1>4, <1>7
  <2> QED BY <2>1, <1>2, <1>4, <1>5 DEF Edit
<1> QED BY <1>1, <1>6, <1>7, OtherKeeps DEF Typed

LEMMA ReauthorizeKeeps ==
  ASSUME IInv, Expire \/ Reauthorize \/ UNCHANGED vars PROVE IInv'
<1>1. Typed /\ UNCHANGED <<plan, requests, applied, records, row>>
  BY DEF IInv, Expire, Reauthorize, Change, vars
<1> QED BY <1>1, OtherKeeps DEF Typed

LEMMA Inductive == IInv /\ [Next]_vars => IInv'
<1> SUFFICES ASSUME IInv, [Next]_vars PROVE IInv'
  OBVIOUS
<1>1. ASSUME NEW c \in Clients, Begin(c) \/ Mark(c) \/ Execute(c) \/ Finish(c) PROVE IInv'
  BY <1>1, BeginKeeps, MarkKeeps, ExecuteKeeps, FinishKeeps
<1>2. ASSUME NEW c \in Clients, Refuse(c) \/ Fault(c) PROVE IInv'
  <2>1. requests[c] # None /\ Repair(c)
    BY <1>2 DEF Refuse, Fault, Going, In
  <2> QED BY <2>1, RepairKeeps
<1>3. ASSUME NEW c \in Clients, Raise(c) PROVE IInv'
  BY <1>3, RaiseKeeps
<1>4. ASSUME NEW decision, Decide(decision) PROVE IInv'
  BY <1>4, DecideKeeps
<1>5. ASSUME NEW t \in Targets, Edit(t) PROVE IInv'
  BY <1>5, EditKeeps
<1>6. ASSUME Expire \/ Reauthorize \/ UNCHANGED vars PROVE IInv'
  BY <1>6, ReauthorizeKeeps
<1> QED BY <1>1, <1>2, <1>3, <1>4, <1>5, <1>6 DEF Next

(* Whatever the plan, the requests and what others do meanwhile, the executor keeps its
   invariant (apply_document, _rollback, MusterApproval.on_update). *)
THEOREM Invariant == Spec => []IInv
BY Initially, Inductive, PTL DEF Spec

-----------------------------------------------------------------------------
(* The properties *)

(* No committed effect is without those it depends on: what a schema change commits is the
   beginning of the order, and dependencies come earlier (topological_operations). *)
THEOREM EffectsFollowDependenciesCorrect == Spec => []EffectsFollowDependencies
<1>1. ASSUME IInv PROVE EffectsFollowDependencies
  <2>1. Typed /\ Committed
    BY <1>1 DEF IInv
  <2>2. CASE applied = {}
    BY <2>2 DEF EffectsFollowDependencies
  <2>3. CASE Valid /\ applied = Ids
    BY <2>3 DEF EffectsFollowDependencies, Valid
  <2>4. ASSUME Valid, NEW n \in 1..Len(TopologicalOrder), applied = First(n)
        PROVE  EffectsFollowDependencies
    <3>1. ASSUME NEW id \in applied PROVE DependsOn(id) \subseteq applied
      <4>1. PICK k \in 1..n : id = TopologicalOrder[k]
        BY <2>4, <3>1 DEF First
      <4>2. /\ Len(TopologicalOrder) \in Nat /\ k \in 1..Len(TopologicalOrder)
            /\ k - 1 \in 0..Len(TopologicalOrder) /\ n \in 0..Len(TopologicalOrder) /\ k - 1 <= n
        BY <2>1, OrderIs
      <4>3. DependsOn(id) \subseteq First(k - 1)
        BY <2>1, <2>4, <4>1, <4>2, OrderIs
      <4>4. First(k - 1) \subseteq First(n)
        BY <2>1, <4>2, FirstIs
      <4> QED BY <4>3, <4>4, <2>4
    <3> QED BY <3>1 DEF EffectsFollowDependencies
  <2> QED BY <2>1, <2>2, <2>3, <2>4 DEF Committed
<1> QED BY <1>1, Invariant, PTL

(* All of the effects with all of their receipts, or none, but for what a schema change has
   committed on the way (apply_document). *)
THEOREM AllOrNothingCorrect == Spec => []AllOrNothing
<1>1. ASSUME IInv PROVE AllOrNothing
  <2>1. Typed /\ Committed
    BY <1>1 DEF IInv
  <2>2. /\ Len(TopologicalOrder) \in Nat /\ Len(TopologicalOrder) <= Len(plan.operations)
        /\ Len(plan.operations) \in Nat
    BY <2>1, OrderIs, IdsAre
  <2>3. \A n \in 1..Len(TopologicalOrder) : n \in Ids /\ First(n) \subseteq Ids
    BY <2>1, <2>2, FirstIs DEF Ids
  <2>4. applied \subseteq Ids /\ row.receipts \in {{}, Ids}
    BY <2>1, <2>3 DEF Committed
  <2>5. TypeOK
    <3>1. \A c \in Clients : requests[c] # None => requests[c].view \in [Targets -> Record]
      BY <2>1 DEF Typed, Request
    <3> QED BY <3>1, <2>1, <2>4 DEF TypeOK, Typed
  <2>6. \/ applied = {}
        \/ applied = row.receipts
        \/ /\ row.receipts = {}
           /\ \E n \in Ids : /\ Operation(TopologicalOrder[n]).kind = "field"
                             /\ applied = {TopologicalOrder[k] : k \in 1..n}
    BY <2>1, <2>3 DEF Committed, First
  <2> QED BY <2>4, <2>5, <2>6 DEF AllOrNothing
<1> QED BY <1>1, Invariant, PTL

(* What a step newly commits was saved over the revision it was planned for. *)
OverThePlan ==
  \A id \in applied' \ applied :
    LET op == Operation(id) IN
    op.kind \in Saving /\ op.token # None => records[op.target].revision = op.token

(* A record is saved only over the revision its operation was planned for, though the token is
   compared with a snapshot (_check_concurrency, _effect). *)
THEOREM SavedOverThePlanCorrect == Spec => SavedOverThePlan
<1>1. IInv /\ [Next]_vars => OverThePlan \/ UNCHANGED vars
  <2> SUFFICES ASSUME IInv, [Next]_vars PROVE OverThePlan \/ UNCHANGED vars
    OBVIOUS
  <2>1. Typed
    BY DEF IInv
  <2>2. ASSUME NEW r \in Request, AtThePlan(r), InOrder(r), applied' = applied \cup ToSet(r.done)
        PROVE  OverThePlan
    <3>1. SUFFICES ASSUME NEW id \in applied' \ applied, NEW op, op = Operation(id),
                          op.kind \in Saving, op.token # None
                   PROVE  records[op.target].revision = op.token
      BY DEF OverThePlan
    <3>2. PICK k \in 1..Len(r.done) : r.done[k] = id
      <4>1. DOMAIN r.done = 1..Len(r.done) /\ id \in ToSet(r.done)
        BY <2>2, <3>1, LenProperties DEF Request
      <4> QED BY <4>1 DEF ToSet
    <3>3. id \in Ids
      <4>1. Len(r.done) <= Len(TopologicalOrder) /\ r.done[k] = TopologicalOrder[k]
        BY <2>2 DEF InOrder
      <4>2. Len(r.done) \in Nat /\ Len(TopologicalOrder) \in Nat
        BY <2>1, OrderIs, LenProperties DEF Request
      <4>3. k \in 1..Len(TopologicalOrder)
        BY <4>1, <4>2
      <4> QED BY <4>1, <4>3, <3>2, <2>1, OrderIs
    <3>4. id \in Tokened \ applied
      BY <3>1, <3>3 DEF Tokened
    <3> QED BY <3>1, <3>2, <3>4, <2>2 DEF AtThePlan
  <2>3. ASSUME NEW c \in Clients, Execute(c) PROVE OverThePlan
    <3>1. PICK r : r = requests[c]
      OBVIOUS
    <3>2. PICK op : op = NextOperation(r)
      OBVIOUS
    <3>3. PICK q : q = Carried(r, op)
      OBVIOUS
    <3>4. Going(c) /\ Possible(r, op) /\ Sound(requests[c])
      BY <3>1, <3>2, <2>3, Parts DEF Execute
    <3>5. q \in Request /\ InOrder(q) /\ AtThePlan(q)
      BY <3>1, <3>2, <3>3, <3>4, <2>1, CarriedIs, CarriedAtThePlan
    <3>6. applied' = applied \cup ToSet(q.done) \/ applied' = applied
      BY <3>1, <3>2, <3>3, <2>3 DEF Execute, Publish
    <3> QED BY <3>5, <3>6, <2>2 DEF OverThePlan
  <2>4. ASSUME NEW c \in Clients, Finish(c) PROVE OverThePlan
    <3>1. PICK r : r = requests[c]
      OBVIOUS
    <3>2. r \in Request /\ InOrder(r) /\ AtThePlan(r)
      BY <3>1, <2>4, FinishIs
    <3>3. applied' = applied \cup ToSet(r.done)
      BY <3>1, <2>4 DEF Finish
    <3> QED BY <3>2, <3>3, <2>2
  <2>5. CASE applied' = applied
    BY <2>5 DEF OverThePlan
  <2>6. [Next]_vars => applied' = applied \/ \E c \in Clients : Execute(c) \/ Finish(c)
    BY DEF Next, vars, Begin, Mark, Refuse, Fault, Repair, Raise, Decide, Expire, Reauthorize,
           Edit, Change
  <2> QED BY <2>3, <2>4, <2>5, <2>6
<1> QED BY <1>1, Invariant, PTL DEF Spec, SavedOverThePlan, OverThePlan
=============================================================================
