-------------------------- MODULE LinearScan_proofs --------------------------
(***************************************************************************)
(* Proofs about LinearScan for every set of intervals and copy partners.   *)
(***************************************************************************)
EXTENDS LinearScan, TLAPS

(* The groups come in order of their starts, so a group that has left the  *)
(* active list ended before anything still to come begins.                 *)
InOrder == \A g \in DOMAIN phys : \A h \in todo : Start(g) <= Start(h)
Retired == \A g \in DOMAIN phys \ active : \A h \in todo : End(g) < Start(h)

IInv == TypeOK /\ NoSharing /\ PoolExact /\ NoWaste /\ InOrder /\ Retired

(* Registers of the groups that stay active when g's turn comes. *)
Busy(g) == {phys[h] : h \in active \ Expired(g)}

(* A valid input gives numbers in order. *)
LEMMA InputFacts ==
    ASSUME TypeOK
    PROVE  \A g \in Groups : Start(g) \in Nat /\ End(g) \in Nat /\ Start(g) <= End(g)
  BY DEF TypeOK, ValidInput, Groups, Start, End, Interval

(* What is free for g and what is busy split the registers in use.         *)
LEMMA PoolFacts ==
    ASSUME IInv, NEW g \in todo
    PROVE  /\ DOMAIN Pool(g) \cap Busy(g) = {}
           /\ DOMAIN Pool(g) \cup Busy(g) = 1..(nextPhys - 1)
           /\ Pool(g) \in [DOMAIN Pool(g) -> Nat]
           /\ \A h \in active \ Expired(g) : phys[h] \in Busy(g)
<1> DEFINE back == {phys[h] : h \in Expired(g)}
           held == {phys[h] : h \in active}
<1>1. DOMAIN Pool(g) = DOMAIN freedAt \cup back
  BY DEF Pool
<1>2. Expired(g) \subseteq active /\ active \subseteq DOMAIN phys
  BY DEF IInv, TypeOK, Expired
<1>3. held = back \cup Busy(g)
  BY <1>2 DEF Busy
<1>4. back \cap Busy(g) = {}
  BY <1>2 DEF IInv, PoolExact, Busy
<1>5. DOMAIN freedAt \cap held = {} /\ DOMAIN freedAt \cup held = 1..(nextPhys - 1)
  BY DEF IInv, PoolExact
<1>6. ASSUME NEW q \in DOMAIN Pool(g)  PROVE Pool(g)[q] \in Nat
  <2>1. CASE q \in back
    <3>1. PICK h \in Expired(g) : phys[h] = q
      BY <2>1
    <3>2. (CHOOSE k \in Expired(g) : phys[k] = q) \in Expired(g)
      BY <3>1
    <3>3. (CHOOSE k \in Expired(g) : phys[k] = q) \in Groups
      BY <3>2, <1>2 DEF IInv, TypeOK
    <3>4. End(CHOOSE k \in Expired(g) : phys[k] = q) \in Nat
      BY <3>3, InputFacts DEF IInv
    <3>5. Pool(g)[q] = End(CHOOSE k \in Expired(g) : phys[k] = q)
      BY <2>1, <1>1 DEF Pool
    <3> QED BY <3>4, <3>5
  <2>2. CASE q \notin back
    <3>1. Pool(g)[q] = freedAt[q] /\ q \in DOMAIN freedAt
      BY <2>2, <1>1 DEF Pool
    <3> QED BY <3>1 DEF IInv, TypeOK
  <2> QED BY <2>1, <2>2
<1>7. Pool(g) = [q \in DOMAIN Pool(g) |-> Pool(g)[q]]
  BY DEF Pool
<1>8. Pool(g) \in [DOMAIN Pool(g) -> Nat]
  BY <1>6, <1>7
<1>9. \A h \in active \ Expired(g) : phys[h] \in Busy(g)
  BY DEF Busy
<1> HIDE DEF back, held
<1> QED BY <1>1, <1>3, <1>4, <1>5, <1>8, <1>9

(* A register is taken from the pool, or is new when the pool is empty.    *)
LEMMA ChoiceFacts ==
    ASSUME IInv, NEW g \in todo, NEW p, IsChoice(g, p)
    PROVE  \/ p \in DOMAIN Pool(g)
           \/ p = nextPhys /\ DOMAIN Pool(g) = {}
  BY DEF IsChoice, Biased, Offers, Oldest

LEMMA StartIInv ==
    ASSUME NEW x, ValidInput(x), StartScan(x)
    PROVE  IInv
<1>2. DOMAIN phys = {} /\ DOMAIN freedAt = {} /\ phys = [h \in {} |-> 0] /\ freedAt = [h \in {} |-> 0]
  BY DEF StartScan
<1>3. TypeOK
  BY <1>2 DEF StartScan, TypeOK, Groups
<1>4. PoolExact
  BY <1>2 DEF StartScan, PoolExact
<1> QED BY <1>2, <1>3, <1>4 DEF StartScan, IInv, NoSharing, NoWaste, InOrder, Retired

LEMMA AssignIInv ==
    ASSUME IInv, NEW g \in todo, NEW p \in 1..nextPhys, Assign(g, p)
    PROVE  IInv'
<1> DEFINE stay == active \ Expired(g)
           D == DOMAIN phys
<1>1. /\ D = Groups \ todo /\ active \subseteq D /\ todo \subseteq Groups /\ g \notin D
      /\ nextPhys \in Nat \ {0} /\ \A h \in D : phys[h] \in 1..(nextPhys - 1)
  BY DEF IInv, TypeOK
<1>2. /\ DOMAIN phys' = D \cup {g} /\ phys'[g] = p
      /\ \A h \in D : phys'[h] = phys[h]
      /\ phys' = [h \in D \cup {g} |-> IF h = g THEN p ELSE phys[h]]
  BY <1>1 DEF Assign
<1>3. /\ input' = input /\ Groups' = Groups /\ todo' = todo \ {g}
      /\ \A h : Start(h)' = Start(h) /\ End(h)' = End(h)
  BY DEF Assign, Groups, Start, End
<1>4. active' = stay \cup {g} /\ stay \subseteq D /\ g \notin stay
  BY <1>1 DEF Assign
<1>5. \A h \in Groups : Start(h) \in Nat /\ End(h) \in Nat /\ Start(h) <= End(h)
  BY InputFacts DEF IInv
<1>6. \A h \in todo \ {g} : Start(g) <= Start(h)
  BY <1>1, <1>5 DEF Assign, IsNextGroup, Precedes
<1>7. \/ p \in DOMAIN Pool(g) /\ p \in 1..(nextPhys - 1) /\ nextPhys' = nextPhys
      \/ p = nextPhys /\ DOMAIN Pool(g) = {} /\ nextPhys' = nextPhys + 1
  BY <1>1, PoolFacts, ChoiceFacts DEF Assign
<1>8. p \notin Busy(g)
  BY <1>1, <1>7, PoolFacts
<1>9. \A h \in D \ stay : End(h) < Start(g)
  BY <1>1 DEF IInv, Retired, Expired
<1>10. DOMAIN freedAt' = DOMAIN Pool(g) \ {p} /\ freedAt' = [q \in DOMAIN Pool(g) \ {p} |-> Pool(g)[q]]
  BY DEF Assign
<1>11. TypeOK'
  <2>1. ValidInput(input)'
    BY <1>3 DEF IInv, TypeOK, ValidInput
  <2>2. nextPhys' \in Nat \ {0} /\ \A h \in DOMAIN phys' : phys'[h] \in 1..(nextPhys' - 1)
    BY <1>1, <1>2, <1>7
  <2>3. phys' \in [DOMAIN phys' -> 1..(nextPhys' - 1)]
    BY <2>2, <1>2
  <2>4. freedAt' \in [DOMAIN freedAt' -> Nat]
    BY <1>10, PoolFacts
  <2>5. todo' \subseteq Groups' /\ DOMAIN phys' = Groups' \ todo' /\ active' \subseteq DOMAIN phys'
    BY <1>1, <1>2, <1>3, <1>4
  <2> QED BY <2>1, <2>2, <2>3, <2>4, <2>5 DEF TypeOK
<1>12. NoSharing'
  <2> SUFFICES ASSUME NEW h \in D \cup {g}, NEW k \in D \cup {g}, h # k, Overlap(h, k)
               PROVE  phys'[h] # phys'[k]
    BY <1>2, <1>3 DEF NoSharing, Overlap
  <2>1. ASSUME NEW d \in D, Start(g) <= End(d)  PROVE phys[d] # p
    <3>1. d \in stay
      BY <2>1, <1>9, <1>5, <1>1
    <3>2. phys[d] \in Busy(g)
      BY <3>1, PoolFacts
    <3> QED BY <3>2, <1>8
  <2>2. CASE h = g
    BY <2>2, <2>1, <1>2 DEF Overlap
  <2>3. CASE k = g
    BY <2>3, <2>1, <1>2 DEF Overlap
  <2>4. CASE h \in D /\ k \in D
    BY <2>4, <1>2 DEF IInv, NoSharing
  <2> QED BY <2>2, <2>3, <2>4
<1>13. PoolExact'
  <2>1. {phys'[h] : h \in active'} = Busy(g) \cup {p}
    BY <1>2, <1>4 DEF Busy
  <2>2. \A h, k \in active' : phys'[h] = phys'[k] => h = k
    <3>1. \A h \in stay : phys'[h] = phys[h] /\ phys[h] \in Busy(g)
      BY <1>2, <1>4, PoolFacts
    <3>2. \A h, k \in stay : phys[h] = phys[k] => h = k
      BY <1>4 DEF IInv, PoolExact
    <3> QED BY <3>1, <3>2, <1>2, <1>4, <1>8
  <2>3. DOMAIN freedAt' \cap (Busy(g) \cup {p}) = {}
    BY <1>10, PoolFacts
  <2>4. DOMAIN freedAt' \cup (Busy(g) \cup {p}) = 1..(nextPhys' - 1)
    <3>1. CASE p \in DOMAIN Pool(g) /\ nextPhys' = nextPhys
      BY <3>1, <1>10, PoolFacts
    <3>2. CASE p = nextPhys /\ DOMAIN Pool(g) = {} /\ nextPhys' = nextPhys + 1
      <4>1. Busy(g) = 1..(nextPhys - 1) /\ DOMAIN freedAt' = {}
        BY <3>2, <1>10, PoolFacts
      <4>2. 1..(nextPhys' - 1) = 1..(nextPhys - 1) \cup {nextPhys}
        BY <3>2, <1>1
      <4> QED BY <4>1, <4>2, <3>2
    <3> QED BY <1>7, <3>1, <3>2
  <2> QED BY <2>1, <2>2, <2>3, <2>4 DEF PoolExact
<1>14. NoWaste'
  <2> SUFFICES ASSUME nextPhys' > 1
               PROVE  \E h \in DOMAIN phys' :
                        \A q \in 1..(nextPhys' - 1) : \E k \in DOMAIN phys' :
                            phys'[k] = q /\ Start(k) <= Start(h) /\ Start(h) <= End(k)
    <3>1. \A h : LiveAt(Start(h))' = {k \in DOMAIN phys' : Start(k) <= Start(h) /\ Start(h) <= End(k)}
      BY <1>3 DEF LiveAt
    <3>2. \A k \in DOMAIN phys' : phys'[k] \in 1..(nextPhys' - 1)
      BY <1>11 DEF TypeOK
    <3> QED BY <3>1, <3>2, <1>3 DEF NoWaste
  <2>1. CASE p = nextPhys /\ DOMAIN Pool(g) = {} /\ nextPhys' = nextPhys + 1
    <3>1. Busy(g) = 1..(nextPhys - 1)
      BY <2>1, PoolFacts
    <3>2. \A q \in 1..(nextPhys' - 1) : q = p \/ q \in Busy(g)
      BY <2>1, <3>1, <1>1
    <3>3. \A k \in stay : Start(k) <= Start(g) /\ Start(g) <= End(k)
      <4>1. \A k \in stay : Start(k) <= Start(g)
        BY <1>4 DEF IInv, InOrder
      <4>2. \A k \in stay : ~(End(k) < Start(g))
        BY DEF Expired
      <4> QED BY <4>1, <4>2, <1>1, <1>4, <1>5
    <3>4. \A q \in Busy(g) : \E k \in stay : phys[k] = q
      BY DEF Busy
    <3>5. Start(g) <= Start(g) /\ Start(g) <= End(g)
      BY <1>1, <1>5
    <3>6. ASSUME NEW q \in 1..(nextPhys' - 1)
          PROVE  \E k \in DOMAIN phys' : phys'[k] = q /\ Start(k) <= Start(g) /\ Start(g) <= End(k)
      <4>1. CASE q = p
        BY <4>1, <3>5, <1>2
      <4>2. CASE q \in Busy(g)
        BY <4>2, <3>3, <3>4, <1>2, <1>4
      <4> QED BY <4>1, <4>2, <3>2
    <3> QED BY <3>6, <1>2
  <2>2. CASE p \in DOMAIN Pool(g) /\ nextPhys' = nextPhys
    <3>1. PICK h \in D : {phys[k] : k \in LiveAt(Start(h))} = 1..(nextPhys - 1)
      BY <2>2 DEF IInv, NoWaste
    <3>2. \A q \in 1..(nextPhys' - 1) : \E k \in D :
              phys[k] = q /\ Start(k) <= Start(h) /\ Start(h) <= End(k)
      BY <3>1, <2>2 DEF LiveAt
    <3> QED BY <3>2, <1>2
  <2> QED BY <1>7, <2>1, <2>2
<1>15. InOrder'
  BY <1>2, <1>3, <1>6 DEF IInv, InOrder
<1>16. Retired'
  <2>1. DOMAIN phys' \ active' = D \ stay
    BY <1>1, <1>2, <1>4
  <2>2. \A h \in D \ stay : \A k \in todo \ {g} : End(h) < Start(k)
    BY <1>1, <1>5, <1>6, <1>9
  <2> QED BY <2>1, <2>2, <1>3 DEF Retired
<1> QED BY <1>11, <1>12, <1>13, <1>14, <1>15, <1>16 DEF IInv

LEMMA StutterIInv == IInv /\ UNCHANGED scanVars => IInv'
<1> SUFFICES ASSUME IInv, UNCHANGED scanVars  PROVE IInv'
  OBVIOUS
<1>1. /\ input' = input /\ todo' = todo /\ active' = active /\ phys' = phys
      /\ freedAt' = freedAt /\ nextPhys' = nextPhys
  BY DEF scanVars
<1>2. Groups' = Groups /\ \A g : Start(g)' = Start(g) /\ End(g)' = End(g)
  BY <1>1 DEF Groups, Start, End
<1>3. TypeOK'
  BY <1>1, <1>2 DEF IInv, TypeOK, ValidInput
<1>4. NoSharing' /\ PoolExact'
  BY <1>1, <1>2 DEF IInv, NoSharing, PoolExact, Overlap
<1>5. \A g : LiveAt(Start(g))' = LiveAt(Start(g))
  BY <1>1, <1>2 DEF LiveAt
<1>6. NoWaste'
  BY <1>1, <1>2, <1>5 DEF IInv, NoWaste
<1>7. InOrder' /\ Retired'
  BY <1>1, <1>2 DEF IInv, InOrder, Retired
<1> QED BY <1>3, <1>4, <1>6, <1>7 DEF IInv

(* The same start, as a step of a larger system.                           *)
LEMMA RestartIInv ==
    ASSUME NEW x, ValidInput(x), Restart(x)
    PROVE  IInv'
<1>2. /\ DOMAIN phys' = {} /\ DOMAIN freedAt' = {}
      /\ phys' = [h \in {} |-> 0] /\ freedAt' = [h \in {} |-> 0]
  BY DEF Restart
<1>3. TypeOK'
  BY <1>2 DEF Restart, TypeOK, Groups
<1>4. PoolExact'
  BY <1>2 DEF Restart, PoolExact
<1> QED BY <1>2, <1>3, <1>4 DEF Restart, IInv, NoSharing, NoWaste, InOrder, Retired

LEMMA NextIInv == IInv /\ [Next]_scanVars => IInv'
  BY AssignIInv, StutterIInv DEF Next

(* Whatever the intervals and the copy hints, linear_scan never gives one  *)
(* physical group to two groups that are live together, never loses or     *)
(* doubles a physical group in its pool, and uses no more physical groups  *)
(* than are live together at some position.                                *)
THEOREM ScanSound ==
    ASSUME NEW CONSTANT x, ValidInput(x)
    PROVE  ScanSpec(x) => [](TypeOK /\ NoSharing /\ PoolExact /\ NoWaste)
<1>1. StartScan(x) => IInv
  BY StartIInv
<1>2. IInv => TypeOK /\ NoSharing /\ PoolExact /\ NoWaste
  BY DEF IInv
<1> QED BY <1>1, <1>2, NextIInv, PTL DEF ScanSpec

-----------------------------------------------------------------------------
(* A group and a group it is copied from or to are both touched by the     *)
(* copy, so that their intervals overlap.  Then the copy bias is dead code:*)
(* the partner is not allocated yet, or it is still active.                *)
PartnersOverlap(x) ==
    \A g \in DOMAIN x.interval : \A c \in x.partners[g] :
        /\ x.interval[g].start <= x.interval[c[3]].end
        /\ x.interval[c[3]].start <= x.interval[g].end

LEMMA BiasDead == IInv /\ PartnersOverlap(input) => BiasNeverFires
<1> SUFFICES ASSUME IInv, PartnersOverlap(input), NEW g \in todo, IsNextGroup(g),
                    NEW p \in DOMAIN Pool(g), Biased(g, p)
             PROVE  FALSE
  BY DEF BiasNeverFires
<1>1. PICK c \in input.partners[g] : Offers(g, c, p)
  BY DEF Biased
<1> DEFINE h == c[3]
<1>2. g \in Groups /\ h \in DOMAIN phys /\ phys[h] = p
  BY <1>1 DEF Offers, IInv, TypeOK
<1>3. h \in Groups /\ Start(g) <= End(h)
  BY <1>2 DEF PartnersOverlap, Start, End, Groups, IInv, TypeOK
<1>4. ~(End(h) < Start(g))
  BY <1>2, <1>3, InputFacts DEF IInv
<1>5. h \in active \ Expired(g)
  BY <1>2, <1>4 DEF IInv, Retired, Expired
<1>6. p \in Busy(g)
  BY <1>2, <1>5 DEF Busy
<1> QED BY <1>6, PoolFacts

THEOREM CopyBiasIsDead ==
    ASSUME NEW CONSTANT x, ValidInput(x), PartnersOverlap(x)
    PROVE  ScanSpec(x) => []BiasNeverFires
<1>1. StartScan(x) => IInv /\ PartnersOverlap(input)
  BY StartIInv DEF StartScan
<1>2. PartnersOverlap(input) /\ [Next]_scanVars => PartnersOverlap(input)'
  BY DEF Next, Assign, scanVars, PartnersOverlap
<1> QED BY <1>1, <1>2, NextIInv, BiasDead, PTL DEF ScanSpec
=============================================================================
