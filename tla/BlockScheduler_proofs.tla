----------------------- MODULE BlockScheduler_proofs ------------------------
(***************************************************************************)
(* Safety of the list scheduler for every block and every choice of the    *)
(* limits: its bookkeeping is exact, dependences are respected, nothing is *)
(* placed twice, and no cycle holds an incompatible pair.                  *)
(***************************************************************************)
EXTENDS BlockScheduler, FiniteSetTheorems, WellFoundedInduction, TLAPS

(* Append adds one position and leaves the others alone. *)
LEMMA AppendFacts ==
    ASSUME NEW S, NEW s \in Seq(S), NEW e \in S
    PROVE  /\ Append(s, e) \in Seq(S)
           /\ Append(s, e) # <<>>
           /\ Len(s) \in Nat
           /\ DOMAIN s = 1..Len(s)
           /\ DOMAIN Append(s, e) = 1..(Len(s) + 1)
           /\ \A k \in 1..Len(s) : Append(s, e)[k] = s[k]
           /\ Append(s, e)[Len(s) + 1] = e
    OBVIOUS

(* The indices of a block form a finite interval, and so do the sets of    *)
(* predecessors and successors drawn from them.                            *)
LEMMA IndexFacts ==
    ASSUME TypeOK
    PROVE  /\ Idx \subseteq Nat
           /\ IsFiniteSet(Idx)
           /\ \A j \in Idx : Preds(j) \subseteq Idx
           /\ \A i \in Idx : Succs(i) \subseteq Idx
           /\ \A i, j \in Idx : (i \in Preds(j) <=> j \in Succs(i)) /\ j \notin Preds(j)
<1>1. Idx = 1..Len(insts) /\ Len(insts) \in Nat
  BY BlocksAssumption DEF TypeOK, Idx
<1>2. IsFiniteSet(Idx)
  BY <1>1, FS_Interval
<1> QED
  BY <1>1, <1>2 DEF Preds, Succs, PredsIn, SuccsIn, Idx

(* OrderRespected, seen as a property of the set of placed instructions.   *)
PredClosed == \A j \in Placed : Preds(j) \subseteq Placed

LEMMA OrderImpliesClosed == TypeOK /\ OrderRespected => PredClosed
<1> SUFFICES ASSUME TypeOK, OrderRespected, NEW j \in Placed, NEW i \in Preds(j)
             PROVE  i \in Placed
  BY DEF PredClosed
<1> USE DEF TypeOK
<1>1. CASE j \in InCycles
  <2>1. PICK c \in DOMAIN cycles : j \in InCycle(c)
    BY <1>1 DEF InCycles
  <2>2. PICK k \in DOMAIN cycles[c] : j = cycles[c][k]
    BY <2>1 DEF InCycle
  <2>3. CASE \E d \in 1..(c - 1) : i \in InCycle(d)
    <3>1. DOMAIN cycles = 1..Len(cycles) /\ Len(cycles) \in Nat
      OBVIOUS
    <3> QED  BY <3>1, <2>3 DEF Placed, InCycles
  <2>4. CASE \E m \in 1..(k - 1) : cycles[c][m] = i
    <3>1. cycles[c] \in Seq(Idx)
      OBVIOUS
    <3>2. DOMAIN cycles[c] = 1..Len(cycles[c]) /\ Len(cycles[c]) \in Nat
      BY <3>1
    <3> QED  BY <3>2, <2>4 DEF Placed, InCycles, InCycle
  <2> QED  BY <2>2, <2>3, <2>4 DEF OrderRespected
<1>2. CASE j \in InCurrent
  <2>1. PICK k \in DOMAIN current.ops : j = current.ops[k]
    BY <1>2 DEF InCurrent
  <2>2. current.ops \in Seq(Idx)
    OBVIOUS
  <2>3. DOMAIN current.ops = 1..Len(current.ops) /\ Len(current.ops) \in Nat
    BY <2>2
  <2>4. CASE i \in InCycles
    BY <2>4 DEF Placed
  <2>5. CASE \E m \in 1..(k - 1) : current.ops[m] = i
    <3>1. PICK m \in 1..(k - 1) : current.ops[m] = i
      BY <2>5
    <3> HIDE DEF TypeOK
    <3>2. m \in DOMAIN current.ops
      BY <2>3, <3>1
    <3> QED  BY <3>1, <3>2 DEF Placed, InCurrent
  <2>6. i \in Preds(current.ops[k])
    BY <2>1
  <2> HIDE DEF TypeOK
  <2> QED  BY <2>4, <2>5, <2>6 DEF OrderRespected
<1> QED  BY <1>1, <1>2 DEF Placed

(* Retiring a ready index keeps the counts and the ready set exact. *)
LEMMA ReleaseIsExact ==
    ASSUME TypeOK, ReadyIsExact, PredClosed,
           NEW i \in ready, Release(i),
           UNCHANGED insts, Placed' = Placed \cup {i}
    PROVE  /\ ReadyIsExact'
           /\ indeg' \in [Idx' -> Nat]
           /\ ready' \subseteq Idx'
<1> USE IndexFacts
<1>1. /\ Idx' = Idx
      /\ \A j \in Idx : Preds(j)' = Preds(j) /\ Succs(j)' = Succs(j)
  BY DEF Idx, Preds, Succs
<1>2. i \in Idx /\ i \notin Placed /\ Preds(i) \subseteq Placed
  BY DEF ReadyIsExact
<1>3. ASSUME NEW j \in Idx
      PROVE  /\ indeg'[j] = Cardinality(Preds(j) \ Placed')
             /\ indeg'[j] \in Nat
             /\ indeg'[j] = 0 <=> Preds(j) \subseteq Placed'
  <2> DEFINE W == Preds(j) \ Placed
  <2>1. IsFiniteSet(Preds(j)) /\ IsFiniteSet(W)
    BY FS_Subset
  <2>2. Preds(j) \ Placed' = W \ {i}
    OBVIOUS
  <2>3. indeg[j] = Cardinality(W)
    BY DEF ReadyIsExact
  <2>4. IsFiniteSet(W \ {i})
    BY <2>1, FS_RemoveElement
  <2>5. i \in W <=> j \in Succs(i)
    BY <1>2
  <2>6. indeg'[j] = IF j \in Succs(i) THEN indeg[j] - 1 ELSE indeg[j]
    BY DEF Release
  <2>7. Cardinality(W \ {i}) = IF i \in W THEN Cardinality(W) - 1 ELSE Cardinality(W)
    BY <2>1, FS_RemoveElement
  <2>8. indeg'[j] = Cardinality(W \ {i})
    BY <2>3, <2>5, <2>6, <2>7
  <2>9. Cardinality(W \ {i}) \in Nat /\ (Cardinality(W \ {i}) = 0 <=> W \ {i} = {})
    BY <2>4, FS_CardinalityType, FS_EmptySet
  <2> QED  BY <2>2, <2>8, <2>9
<1>4. indeg' \in [Idx -> Nat]
  BY <1>3 DEF Release
<1>5. ready' = {j \in Idx \ Placed' : Preds(j) \subseteq Placed'}
  <2>1. ready' = (ready \ {i}) \cup {j \in Succs(i) : indeg'[j] = 0}
    BY <1>2 DEF Release
  <2>2. ready = {j \in Idx \ Placed : Preds(j) \subseteq Placed}
    BY DEF ReadyIsExact
  <2>3. ASSUME NEW j \in ready'
        PROVE  j \in Idx \ Placed' /\ Preds(j) \subseteq Placed'
    <3>1. CASE j \in ready \ {i}
      BY <3>1, <2>2
    <3>2. CASE j \in Succs(i) /\ indeg'[j] = 0
      <4>1. j \in Idx /\ Preds(j) \subseteq Placed' /\ i \in Preds(j) /\ i # j
        BY <3>2, <1>2, <1>3
      <4>2. j \notin Placed
        BY <4>1, <1>2 DEF PredClosed
      <4> QED  BY <4>1, <4>2
    <3> QED  BY <2>1, <3>1, <3>2
  <2>4. ASSUME NEW j \in Idx \ Placed', Preds(j) \subseteq Placed'
        PROVE  j \in ready'
    <3>1. CASE i \in Preds(j)
      BY <3>1, <1>2, <1>3, <2>1, <2>4
    <3>2. CASE i \notin Preds(j)
      BY <3>2, <2>1, <2>2, <2>4
    <3> QED  BY <3>1, <3>2
  <2> QED  BY <2>3, <2>4
<1> QED  BY <1>1, <1>3, <1>4, <1>5 DEF ReadyIsExact

(***************************************************************************)
(* The inductive invariant: the properties, and that the pending cycle     *)
(* never holds a blocking Getchar (which is why it may close one at once). *)
(***************************************************************************)
NoPendingGetchar == \A k \in DOMAIN current.ops : ~IsGetchar(insts[current.ops[k]])

IInv == /\ TypeOK
        /\ ReadyIsExact
        /\ OrderRespected
        /\ PlacedOnce
        /\ CyclesCompatible
        /\ NoPendingGetchar

LEMMA ComplexityIsNat == \A inst : InstComplexity(inst) \in Nat
  BY DEF InstComplexity

LEMMA InitIInv == Init => IInv
<1> SUFFICES ASSUME Init PROVE IInv
  OBVIOUS
<1> USE DEF Init, EmptyCycle
<1>1. InCycles = {} /\ InCurrent = {} /\ Placed = {}
  BY DEF Placed, InCycles, InCurrent
<1>2. Idx = 1..Len(insts) /\ Len(insts) \in Nat
  BY BlocksAssumption DEF Idx
<1>3. \A j \in Idx : IsFiniteSet(Preds(j))
  <2>1. IsFiniteSet(Idx)
    BY <1>2, FS_Interval
  <2>2. \A j \in Idx : Preds(j) \subseteq Idx
    BY DEF Preds, PredsIn, Idx
  <2> QED  BY <2>1, <2>2, FS_Subset
<1>4. \A j \in Idx : Cardinality(Preds(j)) \in Nat /\ (Cardinality(Preds(j)) = 0 <=> Preds(j) = {})
  BY <1>3, FS_CardinalityType, FS_EmptySet
<1>5. TypeOK
  BY <1>4 DEF TypeOK
<1>6. ReadyIsExact
  BY <1>1, <1>4 DEF ReadyIsExact
<1>7. OrderRespected /\ PlacedOnce /\ NoPendingGetchar
  BY <1>1 DEF OrderRespected, PlacedOnce, NoPendingGetchar
<1>8. CyclesCompatible
  BY DEF CyclesCompatible, Compatible
<1> QED  BY <1>5, <1>6, <1>7, <1>8 DEF IInv

(* A cycle appended to the schedule: where the instructions are afterwards. *)
LEMMA AppendCycle ==
    ASSUME TypeOK, NEW ops \in Seq(Idx), cycles' = Append(cycles, ops)
    PROVE  /\ DOMAIN cycles' = 1..(Len(cycles) + 1)
           /\ DOMAIN cycles = 1..Len(cycles) /\ Len(cycles) \in Nat
           /\ \A c \in 1..Len(cycles) : cycles'[c] = cycles[c] /\ InCycle(c)' = InCycle(c)
           /\ cycles'[Len(cycles) + 1] = ops
           /\ InCycles' = InCycles \cup {ops[k] : k \in DOMAIN ops}
<1>1. /\ DOMAIN cycles' = 1..(Len(cycles) + 1)
      /\ DOMAIN cycles = 1..Len(cycles) /\ Len(cycles) \in Nat
      /\ \A c \in 1..Len(cycles) : cycles'[c] = cycles[c]
      /\ cycles'[Len(cycles) + 1] = ops
  BY AppendFacts DEF TypeOK
<1>2. \A c \in 1..Len(cycles) : InCycle(c)' = InCycle(c)
  BY <1>1 DEF InCycle
<1>3. InCycles' = InCycles \cup {ops[k] : k \in DOMAIN ops}
  <2>1. ASSUME NEW x \in InCycles'
        PROVE  x \in InCycles \cup {ops[k] : k \in DOMAIN ops}
    <3>1. PICK c \in 1..(Len(cycles) + 1) : x \in InCycle(c)'
      BY <1>1 DEF InCycles
    <3>2. CASE c \in 1..Len(cycles)
      BY <3>1, <3>2, <1>1, <1>2 DEF InCycles
    <3>3. CASE c = Len(cycles) + 1
      BY <3>1, <3>3, <1>1 DEF InCycle
    <3> QED  BY <3>2, <3>3, <1>1
  <2>2. ASSUME NEW x \in InCycles
        PROVE  x \in InCycles'
    <3>1. PICK c \in 1..Len(cycles) : x \in InCycle(c)
      BY <1>1 DEF InCycles
    <3>2. c \in DOMAIN cycles' /\ x \in InCycle(c)'
      BY <3>1, <1>1, <1>2
    <3> QED  BY <3>2 DEF InCycles
  <2>3. ASSUME NEW k \in DOMAIN ops
        PROVE  ops[k] \in InCycles'
    <3>1. PICK c \in DOMAIN cycles' : c = Len(cycles) + 1
      BY <1>1
    <3>2. ops[k] \in InCycle(c)'
      BY <3>1, <1>1 DEF InCycle
    <3> QED  BY <3>2 DEF InCycles
  <2> QED  BY <2>1, <2>2, <2>3
<1> QED  BY <1>1, <1>2, <1>3

(* Placing an ordinary instruction at the end of the pending cycle. *)
LEMMA PlacePreserves ==
    ASSUME IInv, NEW i \in Idx, Place(i)
    PROVE  IInv'
<1> DEFINE n == Len(current.ops)
<1>1. TypeOK /\ i \in ready /\ ready \subseteq Idx
  BY DEF IInv, TypeOK, Place, IsPick, Candidates
<1>2. insts' = insts /\ cycles' = cycles /\ Idx' = Idx
  BY DEF Place, Idx
<1>3. current.ops \in Seq(Idx) /\ current.complexity \in Nat /\ current.memStoreCount \in Nat
  BY <1>1 DEF TypeOK
<1>4. current'.ops = Append(current.ops, i)
  BY DEF Place, Push
<1>5. /\ current'.ops \in Seq(Idx)
      /\ n \in Nat /\ DOMAIN current.ops = 1..n /\ DOMAIN current'.ops = 1..(n + 1)
      /\ \A k \in 1..n : current'.ops[k] = current.ops[k]
      /\ current'.ops[n + 1] = i
  BY <1>3, <1>4, AppendFacts
<1> HIDE DEF n
<1>6. InCurrent' = InCurrent \cup {i}
  BY <1>5 DEF InCurrent
<1>7. /\ \A c : InCycle(c)' = InCycle(c)
      /\ InCycles' = InCycles
  BY <1>2 DEF InCycle, InCycles
<1>8. Placed' = Placed \cup {i}
  BY <1>6, <1>7 DEF Placed
<1>9. i \notin Placed /\ Preds(i) \subseteq Placed
  BY <1>1 DEF IInv, ReadyIsExact
<1>10. ReadyIsExact' /\ indeg' \in [Idx' -> Nat] /\ ready' \subseteq Idx'
  BY <1>1, <1>2, <1>8, ReleaseIsExact, OrderImpliesClosed DEF IInv, Place
<1>11. TypeOK'
  <2>1. current' \in [ops : Seq(Idx), complexity : Nat, memStoreCount : Nat]
    BY <1>3, <1>5, ComplexityIsNat DEF Place, Push
  <2> QED  BY <1>1, <1>2, <1>10, <2>1 DEF TypeOK
<1>12. OrderRespected'
  <2>1. \A j : Preds(j)' = Preds(j)
    BY <1>2 DEF Preds
  <2>2. ASSUME NEW k \in 1..(n + 1), NEW p \in Preds(current'.ops[k])
        PROVE  p \in InCycles \/ \E m \in 1..(k - 1) : current'.ops[m] = p
    <3>1. CASE k = n + 1
      <4>1. p \in InCycles \/ \E m \in 1..n : current.ops[m] = p
        BY <3>1, <2>2, <1>5, <1>9 DEF Placed, InCurrent
      <4>2. CASE p \in InCycles
        BY <4>2
      <4>3. ASSUME NEW m \in 1..n, current.ops[m] = p
            PROVE  m \in 1..(k - 1) /\ current'.ops[m] = p
        BY <3>1, <4>3, <1>5
      <4> QED  BY <4>1, <4>2, <4>3
    <3>2. CASE k \in 1..n
      <4>1. p \in InCycles \/ \E m \in 1..(k - 1) : current.ops[m] = p
        BY <3>2, <2>2, <1>5 DEF IInv, OrderRespected
      <4>2. \A m \in 1..(k - 1) : current'.ops[m] = current.ops[m]
        BY <3>2, <1>5
      <4> QED  BY <4>1, <4>2
    <3> QED  BY <3>1, <3>2, <1>5
  <2>3. \A c \in DOMAIN cycles : \A k \in DOMAIN cycles[c] : \A p \in Preds(cycles[c][k]) :
           \/ \E d \in 1..(c - 1) : p \in InCycle(d)
           \/ \E m \in 1..(k - 1) : cycles[c][m] = p
    BY DEF IInv, OrderRespected
  <2>4. ASSUME NEW c \in DOMAIN cycles', NEW k \in DOMAIN cycles'[c],
               NEW p \in Preds(cycles[c][k])'
        PROVE  \/ \E d \in 1..(c - 1) : p \in InCycle(d)'
               \/ \E m \in 1..(k - 1) : cycles'[c][m] = p
    <3>1. c \in DOMAIN cycles /\ k \in DOMAIN cycles[c] /\ p \in Preds(cycles[c][k])
      BY <2>1, <1>2
    <3>2. \/ \E d \in 1..(c - 1) : p \in InCycle(d)
          \/ \E m \in 1..(k - 1) : cycles[c][m] = p
      BY <2>3, <3>1
    <3> QED  BY <3>2, <1>2, <1>7
  <2>5. ASSUME NEW k \in DOMAIN current'.ops, NEW p \in Preds(current.ops[k])'
        PROVE  p \in InCycles' \/ \E m \in 1..(k - 1) : current'.ops[m] = p
    <3>1. k \in 1..(n + 1) /\ p \in Preds(current'.ops[k])
      BY <2>1, <1>5
    <3> QED  BY <2>2, <3>1, <1>7
  <2> QED  BY <2>4, <2>5 DEF OrderRespected
<1>13. PlacedOnce'
  <2>1. i \notin InCycles /\ \A k \in 1..n : current.ops[k] # i
    BY <1>5, <1>9 DEF Placed, InCurrent
  <2>2. \A k, m \in 1..(n + 1) : current'.ops[k] = current'.ops[m] => k = m
    <3>1. \A k, m \in 1..n : current.ops[k] = current.ops[m] => k = m
      BY <1>5 DEF IInv, PlacedOnce
    <3>2. \A k \in 1..n : current'.ops[k] # current'.ops[n + 1]
      BY <1>5, <2>1
    <3>3. \A k, m \in 1..n : current'.ops[k] = current'.ops[m] => k = m
      BY <3>1, <1>5
    <3>4. \A k \in 1..(n + 1) : k \in 1..n \/ k = n + 1
      BY <1>5
    <3> QED  BY <3>2, <3>3, <3>4, Zenon
  <2>3. InCycles' \cap InCurrent' = {}
    BY <1>6, <1>7, <2>1 DEF IInv, PlacedOnce
  <2> QED  BY <2>2, <2>3, <1>2, <1>5 DEF IInv, PlacedOnce
<1>14. CyclesCompatible' /\ NoPendingGetchar'
  <2>1. ~IsGetchar(insts[i])
    BY DEF Place
  <2>2. \A m \in 1..n : CanShareCycleAfter(insts[current.ops[m]], insts[i])
    BY <1>5 DEF Place, IsPick, Candidates, CanAppend
  <2>3. \A k \in 1..(n + 1) : ~IsGetchar(insts[current'.ops[k]])
    BY <1>5, <2>1 DEF IInv, NoPendingGetchar
  <2>4. \A k \in 1..(n + 1) : \A m \in 1..(k - 1) :
            CanShareCycleAfter(insts[current'.ops[m]], insts[current'.ops[k]])
    <3>1. \A k \in 1..n : \A m \in 1..(k - 1) :
             CanShareCycleAfter(insts[current.ops[m]], insts[current.ops[k]])
      BY <1>5 DEF IInv, CyclesCompatible, Compatible
    <3>2. ASSUME NEW k \in 1..(n + 1), NEW m \in 1..(k - 1)
          PROVE  CanShareCycleAfter(insts[current'.ops[m]], insts[current'.ops[k]])
      <4>1. CASE k \in 1..n
        BY <4>1, <3>1, <1>5
      <4>2. CASE k = n + 1
        BY <4>2, <2>2, <1>5
      <4> QED  BY <4>1, <4>2, <1>5
    <3> QED  BY <3>2
  <2> QED  BY <2>3, <2>4, <1>2, <1>5
           DEF IInv, CyclesCompatible, Compatible, NoPendingGetchar
<1> QED  BY <1>10, <1>11, <1>12, <1>13, <1>14 DEF IInv

(* Closing the pending cycle, when nothing fits or nothing is left. *)
LEMMA RetirePreserves ==
    ASSUME IInv, Close \/ Flush
    PROVE  IInv'
<1> DEFINE n == Len(cycles)
           cyc == current.ops
<1>1. TypeOK /\ cyc \in Seq(Idx)
  BY DEF IInv, TypeOK
<1>2. /\ cycles' = Append(cycles, cyc) /\ current' = EmptyCycle
      /\ insts' = insts /\ indeg' = indeg /\ ready' = ready /\ Idx' = Idx
  BY DEF Close, Flush, Idx
<1>3. cyc # <<>>
  BY DEF Close, Flush, Candidates
<1>4. /\ DOMAIN cycles' = 1..(n + 1) /\ DOMAIN cycles = 1..n /\ n \in Nat
      /\ \A c \in 1..n : cycles'[c] = cycles[c] /\ InCycle(c)' = InCycle(c)
      /\ cycles'[n + 1] = cyc
      /\ InCycles' = InCycles \cup InCurrent
  BY <1>1, <1>2, AppendCycle DEF InCurrent
<1>5. current'.ops = <<>> /\ DOMAIN current'.ops = {} /\ InCurrent' = {}
  BY <1>2 DEF EmptyCycle, InCurrent
<1>6. Placed' = Placed
  BY <1>4, <1>5 DEF Placed
<1>7. TypeOK'
  <2>1. cycles' \in Seq(Seq(Idx))
    BY <1>1, <1>2 DEF TypeOK
  <2> QED  BY <1>1, <1>2, <2>1 DEF TypeOK, EmptyCycle
<1>8. ReadyIsExact'
  <2>1. \A j : Preds(j)' = Preds(j)
    BY <1>2 DEF Preds
  <2> QED  BY <2>1, <1>2, <1>6 DEF IInv, ReadyIsExact
<1>9. OrderRespected'
  <2>1. \A j : Preds(j)' = Preds(j)
    BY <1>2 DEF Preds
  <2>2. ASSUME NEW c \in 1..(n + 1), NEW k \in DOMAIN cycles'[c], NEW p \in Preds(cycles'[c][k])
        PROVE  \/ \E d \in 1..(c - 1) : p \in InCycle(d)'
               \/ \E m \in 1..(k - 1) : cycles'[c][m] = p
    <3>1. CASE c \in 1..n
      <4>1. \/ \E d \in 1..(c - 1) : p \in InCycle(d)
            \/ \E m \in 1..(k - 1) : cycles[c][m] = p
        BY <3>1, <2>2, <1>4 DEF IInv, OrderRespected
      <4>2. \A d \in 1..(c - 1) : InCycle(d)' = InCycle(d)
        BY <3>1, <1>4
      <4> QED  BY <3>1, <4>1, <4>2, <1>4
    <3>2. CASE c = n + 1
      <4>1. p \in InCycles \/ \E m \in 1..(k - 1) : cyc[m] = p
        BY <3>2, <2>2, <1>4 DEF IInv, OrderRespected
      <4>2. CASE p \in InCycles
        <5>1. PICK d \in 1..n : p \in InCycle(d)
          BY <4>2, <1>4 DEF InCycles
        <5>2. d \in 1..(c - 1) /\ InCycle(d)' = InCycle(d)
          BY <3>2, <1>4
        <5> QED  BY <5>1, <5>2
      <4>3. CASE \E m \in 1..(k - 1) : cyc[m] = p
        BY <3>2, <4>3, <1>4
      <4> QED  BY <4>1, <4>2, <4>3
    <3> QED  BY <3>1, <3>2, <1>4
  <2>3. \A c \in DOMAIN cycles' : \A k \in DOMAIN cycles'[c] : \A p \in Preds(cycles[c][k])' :
           \/ \E d \in 1..(c - 1) : p \in InCycle(d)'
           \/ \E m \in 1..(k - 1) : cycles'[c][m] = p
    BY <2>1, <2>2, <1>4
  <2> QED  BY <2>3, <1>5 DEF OrderRespected
<1>10. PlacedOnce'
  <2>1. \A x \in InCycles : \A k \in DOMAIN cyc : cyc[k] # x
    BY DEF IInv, PlacedOnce, InCurrent
  <2>2. \A c \in 1..n : \A k \in DOMAIN cycles[c] : cycles[c][k] \in InCycles
    BY <1>4 DEF InCycles, InCycle
  <2>3. ASSUME NEW c \in 1..(n + 1), NEW d \in 1..(n + 1),
               NEW k \in DOMAIN cycles'[c], NEW m \in DOMAIN cycles'[d],
               cycles'[c][k] = cycles'[d][m]
        PROVE  c = d /\ k = m
    <3>1. CASE c \in 1..n /\ d \in 1..n
      BY <3>1, <2>3, <1>4 DEF IInv, PlacedOnce
    <3>2. CASE c = n + 1 /\ d = n + 1
      BY <3>2, <2>3, <1>4 DEF IInv, PlacedOnce
    <3>3. CASE c \in 1..n /\ d = n + 1
      BY <3>3, <2>1, <2>2, <2>3, <1>4
    <3>4. CASE c = n + 1 /\ d \in 1..n
      BY <3>4, <2>1, <2>2, <2>3, <1>4
    <3> QED  BY <3>1, <3>2, <3>3, <3>4, <1>4
  <2> QED  BY <2>3, <1>4, <1>5 DEF PlacedOnce
<1>11. CyclesCompatible' /\ NoPendingGetchar'
  <2>1. ASSUME NEW c \in 1..(n + 1)
        PROVE  cycles'[c] # <<>> /\ Compatible(cycles'[c])
    <3>1. CASE c \in 1..n
      BY <3>1, <1>4 DEF IInv, CyclesCompatible
    <3>2. CASE c = n + 1
      BY <3>2, <1>3, <1>4 DEF IInv, CyclesCompatible
    <3> QED  BY <3>1, <3>2, <1>4
  <2> QED  BY <2>1, <1>2, <1>4, <1>5 DEF CyclesCompatible, Compatible, NoPendingGetchar
<1> QED  BY <1>7, <1>8, <1>9, <1>10, <1>11 DEF IInv

(* A blocking Getchar: it can only be picked while no cycle is pending. *)
LEMMA GetcharPreserves ==
    ASSUME IInv, NEW i \in Idx, PlaceGetchar(i)
    PROVE  IInv'
<1> DEFINE n == Len(cycles)
<1>1. TypeOK /\ i \in ready /\ current.ops = <<>>
  BY DEF IInv, PlaceGetchar, IsPick, Candidates, CanAppend
<1>2. /\ cycles' = Append(cycles, <<i>>) /\ current' = current
      /\ insts' = insts /\ Idx' = Idx
  BY DEF PlaceGetchar, Idx
<1>3. <<i>> \in Seq(Idx) /\ {<<i>>[k] : k \in DOMAIN <<i>>} = {i}
  OBVIOUS
<1>4. /\ DOMAIN cycles' = 1..(n + 1) /\ DOMAIN cycles = 1..n /\ n \in Nat
      /\ \A c \in 1..n : cycles'[c] = cycles[c] /\ InCycle(c)' = InCycle(c)
      /\ cycles'[n + 1] = <<i>>
      /\ InCycles' = InCycles \cup {i}
  BY <1>1, <1>2, <1>3, AppendCycle
<1>5. DOMAIN current.ops = {} /\ InCurrent = {} /\ InCurrent' = {}
  BY <1>1, <1>2 DEF InCurrent
<1>6. Placed = InCycles /\ Placed' = Placed \cup {i}
  BY <1>4, <1>5 DEF Placed
<1>7. i \notin InCycles /\ Preds(i) \subseteq InCycles
  BY <1>1, <1>6 DEF IInv, ReadyIsExact
<1>8. ReadyIsExact' /\ indeg' \in [Idx' -> Nat] /\ ready' \subseteq Idx'
  BY <1>1, <1>2, <1>6, ReleaseIsExact, OrderImpliesClosed DEF IInv, PlaceGetchar
<1>9. TypeOK'
  <2>1. cycles' \in Seq(Seq(Idx))
    BY <1>1, <1>2, <1>3 DEF TypeOK
  <2> QED  BY <1>1, <1>2, <1>8, <2>1 DEF TypeOK
<1>10. OrderRespected'
  <2>1. \A j : Preds(j)' = Preds(j)
    BY <1>2 DEF Preds
  <2>2. ASSUME NEW c \in DOMAIN cycles', NEW k \in DOMAIN cycles'[c],
               NEW p \in Preds(cycles[c][k])'
        PROVE  \/ \E d \in 1..(c - 1) : p \in InCycle(d)'
               \/ \E m \in 1..(k - 1) : cycles'[c][m] = p
    <3>1. CASE c \in 1..n
      <4>1. p \in Preds(cycles[c][k]) /\ k \in DOMAIN cycles[c]
        BY <3>1, <2>1, <1>4
      <4>2. \/ \E d \in 1..(c - 1) : p \in InCycle(d)
            \/ \E m \in 1..(k - 1) : cycles[c][m] = p
        BY <3>1, <4>1, <1>4 DEF IInv, OrderRespected
      <4>3. \A d \in 1..(c - 1) : InCycle(d)' = InCycle(d)
        BY <3>1, <1>4
      <4> QED  BY <3>1, <4>2, <4>3, <1>4
    <3>2. CASE c = n + 1
      <4>1. p \in Preds(i)
        BY <3>2, <2>1, <1>4
      <4>2. PICK d \in 1..n : p \in InCycle(d)
        BY <4>1, <1>4, <1>7 DEF InCycles
      <4>3. d \in 1..(c - 1) /\ InCycle(d)' = InCycle(d)
        BY <3>2, <1>4
      <4> QED  BY <4>2, <4>3
    <3> QED  BY <3>1, <3>2, <1>4
  <2>3. DOMAIN current'.ops = {}
    BY <1>2, <1>5
  <2> QED  BY <2>2, <2>3 DEF OrderRespected
<1>11. PlacedOnce'
  <2>1. \A c \in 1..n : \A k \in DOMAIN cycles[c] : cycles[c][k] # i
    BY <1>4, <1>7 DEF InCycles, InCycle
  <2>2. ASSUME NEW c \in 1..(n + 1), NEW d \in 1..(n + 1),
               NEW k \in DOMAIN cycles'[c], NEW m \in DOMAIN cycles'[d],
               cycles'[c][k] = cycles'[d][m]
        PROVE  c = d /\ k = m
    <3>1. CASE c \in 1..n /\ d \in 1..n
      BY <3>1, <2>2, <1>4 DEF IInv, PlacedOnce
    <3>2. CASE c = n + 1 /\ d = n + 1
      BY <3>2, <2>2, <1>4
    <3>3. CASE c \in 1..n /\ d = n + 1
      BY <3>3, <2>1, <2>2, <1>4
    <3>4. CASE c = n + 1 /\ d \in 1..n
      BY <3>4, <2>1, <2>2, <1>4
    <3> QED  BY <3>1, <3>2, <3>3, <3>4, <1>4
  <2> QED  BY <2>2, <1>2, <1>4, <1>5 DEF PlacedOnce
<1>12. CyclesCompatible' /\ NoPendingGetchar'
  <2>1. ASSUME NEW c \in 1..(n + 1)
        PROVE  cycles'[c] # <<>> /\ Compatible(cycles'[c])
    <3>1. CASE c \in 1..n
      BY <3>1, <1>4 DEF IInv, CyclesCompatible
    <3>2. CASE c = n + 1
      BY <3>2, <1>4 DEF Compatible
    <3> QED  BY <3>1, <3>2, <1>4
  <2> QED  BY <2>1, <1>2, <1>4, <1>5 DEF CyclesCompatible, Compatible, NoPendingGetchar
<1> QED  BY <1>8, <1>9, <1>10, <1>11, <1>12 DEF IInv

LEMMA StutterPreserves == IInv /\ UNCHANGED vars => IInv'
<1> SUFFICES ASSUME IInv, UNCHANGED vars PROVE IInv'
  OBVIOUS
<1>1. /\ insts' = insts /\ indeg' = indeg /\ ready' = ready /\ current' = current
      /\ cycles' = cycles
  BY DEF vars
<1>2. /\ Idx' = Idx /\ InCycles' = InCycles /\ InCurrent' = InCurrent /\ Placed' = Placed
      /\ \A j : Preds(j)' = Preds(j) /\ InCycle(j)' = InCycle(j)
  BY <1>1 DEF Idx, InCycles, InCycle, InCurrent, Placed, Preds
<1>3. TypeOK'
  BY <1>1, <1>2 DEF IInv, TypeOK
<1>4. ReadyIsExact'
  BY <1>1, <1>2 DEF IInv, ReadyIsExact
<1>5. OrderRespected'
  BY <1>1, <1>2 DEF IInv, OrderRespected
<1>6. PlacedOnce'
  BY <1>1, <1>2 DEF IInv, PlacedOnce
<1>7. CyclesCompatible' /\ NoPendingGetchar'
  BY <1>1 DEF IInv, CyclesCompatible, Compatible, NoPendingGetchar
<1> QED  BY <1>3, <1>4, <1>5, <1>6, <1>7 DEF IInv

(***************************************************************************)
(* For every block and all limits, the scheduler's state stays well typed, *)
(* its ready set exact, dependences kept, nothing placed twice, and every  *)
(* cycle free of incompatible pairs.                                       *)
(***************************************************************************)
THEOREM SchedulerSafe ==
    Spec => [](TypeOK /\ ReadyIsExact /\ OrderRespected /\ PlacedOnce /\ CyclesCompatible)
<1>1. Init => IInv
  BY InitIInv
<1>2. IInv /\ [Next]_vars => IInv'
  BY PlacePreserves, GetcharPreserves, RetirePreserves, StutterPreserves DEF Next
<1>3. IInv => TypeOK /\ ReadyIsExact /\ OrderRespected /\ PlacedOnce /\ CyclesCompatible
  BY DEF IInv
<1> QED  BY <1>1, <1>2, <1>3, PTL DEF Spec

(* The dependence counts and the ready set never drift from the graph of   *)
(* the block, however the loop interleaves placing and closing: what is    *)
(* ready is all that waits for nothing.                                    *)
THEOREM ReadySetExact == Spec => []ReadyIsExact
  BY SchedulerSafe, PTL

(* No cycle holds two instructions that may not share one in that order,   *)
(* and a blocking Getchar is alone in its cycle.                           *)
THEOREM CyclesSound == Spec => []CyclesCompatible
  BY SchedulerSafe, PTL

(* When the loop is done every instruction has been placed: the first of   *)
(* the unplaced ones would wait for nothing, and be ready.                 *)
LEMMA DonePlacesAll == TypeOK /\ ReadyIsExact /\ Done => Placed = Idx
<1> SUFFICES ASSUME TypeOK, ReadyIsExact, Done PROVE Placed = Idx
  OBVIOUS
<1>0. Placed \subseteq Idx
  <2>1. cycles \in Seq(Seq(Idx)) /\ current.ops \in Seq(Idx)
    BY DEF TypeOK
  <2>2. InCurrent \subseteq Idx
    BY <2>1 DEF InCurrent
  <2>3. \A c \in DOMAIN cycles : InCycle(c) \subseteq Idx
    BY <2>1 DEF InCycle
  <2> QED  BY <2>2, <2>3 DEF Placed, InCycles
<1> SUFFICES ASSUME Idx \ Placed # {} PROVE FALSE
  BY <1>0
<1>1. Idx \ Placed \subseteq Nat
  BY IndexFacts
<1>2. PICK j \in Idx \ Placed : \A i \in Idx \ Placed : ~(<<i, j>> \in OpToRel(<, Nat))
  BY <1>1, NatLessThanWellFounded, WFMin
<1>3. \A i \in Preds(j) : i \in Idx /\ i < j
  BY <1>2 DEF Preds, PredsIn, Idx
<1>4. \A i \in Preds(j) : <<i, j>> \in OpToRel(<, Nat)
  BY <1>1, <1>2, <1>3, IndexFacts DEF OpToRel
<1>5. Preds(j) \subseteq Placed
  BY <1>2, <1>3, <1>4
<1> QED  BY <1>2, <1>5 DEF ReadyIsExact, Done

(* A finished schedule holds every instruction of the block. *)
THEOREM SchedulerComplete == Spec => []ScheduleComplete
<1>1. TypeOK /\ ReadyIsExact => ScheduleComplete
  BY DonePlacesAll DEF ScheduleComplete
<1> QED  BY <1>1, SchedulerSafe, PTL
=============================================================================
