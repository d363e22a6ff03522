------------------------ MODULE CallProtocol_proofs ------------------------
(***************************************************************************)
(* That calls through static registers and one flat stack behave as if     *)
(* every activation had words of its own, for all programs, stack sizes    *)
(* and tables.                                                             *)
(***************************************************************************)
EXTENDS CallProtocol, NatLemmas

-----------------------------------------------------------------------------
(* The words of a function, and the sequence that SetToSeq makes of some.  *)

(* A set that a sequence lists is finite. *)
LEMMA ListedFinite ==
    ASSUME NEW s, IsSequence(s)
    PROVE  /\ DOMAIN s = 1..Len(s) /\ Len(s) \in Nat
           /\ IsFiniteSet(DOMAIN s) /\ IsFiniteSet(ToSet(s)) /\ Cardinality(DOMAIN s) = Len(s)
<1>1. Len(s) \in Nat /\ s = [j \in 1..Len(s) |-> s[j]]
  BY DEF IsSequence
<1>2. DOMAIN s = 1..Len(s)
  BY <1>1
<1>3. IsFiniteSet(1..Len(s)) /\ Cardinality(1..Len(s)) = Len(s)
  <2>1. 1 \in Int /\ Len(s) \in Int /\ Len(s) - 1 + 1 = Len(s) /\ (1 > Len(s) => Len(s) = 0)
    BY <1>1
  <2> HIDE <1>1
  <2> QED BY <2>1, FS_Interval
<1>4. IsFiniteSet(ToSet(s))
  <2>1. s \in Surjection(DOMAIN s, ToSet(s))
    <3>1. s \in [DOMAIN s -> ToSet(s)]
      BY <1>1 DEF ToSet
    <3>2. \A x \in ToSet(s) : \E j \in DOMAIN s : s[j] = x
      BY DEF ToSet
    <3> QED BY <3>1, <3>2 DEF Surjection
  <2> QED BY <1>2, <1>3, <2>1, FS_Surjection
<1> QED BY <1>1, <1>2, <1>3, <1>4

(* SetToSeq lists every element of a finite set once. *)
LEMMA ListFacts ==
    ASSUME NEW S, IsFiniteSet(S)
    PROVE  LET s == SetToSeq(S)
           IN  /\ Len(s) \in Nat /\ DOMAIN s = 1..Len(s) /\ ToSet(s) = S
               /\ \A j, k \in DOMAIN s : s[j] = s[k] => j = k
<1> DEFINE c == Cardinality(S)
           s == SetToSeq(S)
<1>1. c \in Nat /\ ExistsBijection(1..c, S)
  BY FS_CardinalityType
<1>2. PICK f : f \in Bijection(1..c, S)
  BY <1>1 DEF ExistsBijection
<1>3. f \in [1..c -> S] /\ \A j, k \in 1..c : f[j] = f[k] => j = k
  BY <1>2 DEF Bijection, Injection, IsInjective
<1> HIDE DEF c
<1>4. s \in [1..c -> S] /\ IsInjective(s)
  <2>1. IsInjective(f)
    BY <1>3 DEF IsInjective
  <2>2. s = CHOOSE g \in [1..c -> S] : IsInjective(g)
    BY DEF SetToSeq, c
  <2> HIDE DEF s
  <2> QED BY <1>3, <2>1, <2>2
<1>5. s \in Surjection(1..c, S)
  <2>1. Cardinality(1..c) = c
    <3>1. 1 \in Int /\ c \in Int /\ c - 1 + 1 = c /\ (1 > c => c = 0)
      BY <1>1 DEF c
    <3> QED BY <3>1, FS_Interval
  <2>2. IsFiniteSet(1..c) /\ 1..c = 1..c
    BY FS_Interval, <1>1 DEF c
  <2>3. s \in Injection(1..c, S)
    BY <1>4 DEF Injection
  <2> HIDE DEF s
  <2> QED BY <2>1, <2>2, <2>3, FS_Injection DEF c
<1> HIDE DEF s
<1>6. DOMAIN s = 1..c /\ ToSet(s) = S
  BY <1>4, <1>5 DEF Surjection, ToSet
<1>7. Len(s) = c
  BY <1>1, <1>4 DEF c
<1>8. c \in Nat /\ \A j, k \in DOMAIN s : s[j] = s[k] => j = k
  BY <1>1, <1>4 DEF c, IsInjective
<1> QED BY <1>6, <1>7, <1>8, Zenon DEF s

-----------------------------------------------------------------------------
(* Needed and LiveIn, the one from paths forwards and the other by rounds  *)
(* backwards, agree.                                                       *)
JumpsInside(fn) ==
    /\ IsSequence(fn.code)
    /\ \A k \in DOMAIN fn.code : Successors(fn.code[k], k) \subseteq DOMAIN fn.code
Passes(fn, w, old) ==
    old \cup UNION {Successors(fn.code[m], m) : m \in {m \in old : w \notin Writes(fn.code[m])}}
GoesOn(fn, w, T) == \A m \in T : w \notin Writes(fn.code[m]) => Successors(fn.code[m], m) \subseteq T

(* The rounds of Reached are what their definition says. *)
LEMMA ReachedRounds ==
    ASSUME NEW fn, JumpsInside(fn), NEW k \in DOMAIN fn.code, NEW w
    PROVE  LET t == Reached(fn, k, w)
           IN  /\ t \in [Nat -> SUBSET DOMAIN fn.code] /\ t[0] = {k}
               /\ \A n \in Nat : t[n + 1] = Passes(fn, w, t[n])
<1> DEFINE S == DOMAIN fn.code
           R(old) == Passes(fn, w, old)
           G == [x \in Nat \X SUBSET S |-> R(x[2])]
           Eq(s) == s = [n \in Nat |-> IF n = 0 THEN {k} ELSE R(s[n - 1])]
           t == Reached(fn, k, w)
<1>1. \A old \in SUBSET S : R(old) \in SUBSET S
  BY DEF Passes, JumpsInside
<1>0. {k} \in SUBSET S
  OBVIOUS
<1>4. t = CHOOSE s : Eq(s)
  BY DEF Reached, Passes
<1> HIDE DEF R, S, t
<1>2. G \in [Nat \X SUBSET S -> SUBSET S]
  BY <1>1
<1>3. PICK g \in [Nat -> SUBSET S] : Recurses(g, {k}, G)
  <2> HIDE DEF G
  <2> QED BY <1>2, <1>0, NatRecursion
<1>5. \A n \in Nat : g[n] = IF n = 0 THEN {k} ELSE R(g[n - 1])
  <2>1. ASSUME NEW n \in Nat \ {0}  PROVE g[n] = R(g[n - 1])
    <3>1. n - 1 \in Nat /\ g[n - 1] \in SUBSET S
      OBVIOUS
    <3>2. G[<<n, g[n - 1]>>] = R(g[n - 1])
      BY <3>1
    <3>3. g[n] = G[<<n, g[n - 1]>>]
      <4> HIDE DEF G
      <4> QED BY <1>3 DEF Recurses
    <3> QED BY <3>2, <3>3
  <2>2. g[0] = {k}
    BY <1>3 DEF Recurses
  <2> QED BY <2>1, <2>2
<1>6. Eq(g)
  BY <1>5
<1>7. Eq(t)
  <2> HIDE DEF Eq
  <2> QED BY <1>4, <1>6
<1>8. t[0] = {k} /\ \A n \in Nat : t[n + 1] = R(t[n])
  <2>1. \A n \in Nat : t[n] = IF n = 0 THEN {k} ELSE R(t[n - 1])
    BY <1>7
  <2>2. \A n \in Nat : n + 1 \in Nat /\ n + 1 # 0 /\ (n + 1) - 1 = n
    OBVIOUS
  <2> HIDE DEF Eq
  <2> QED BY <2>1, <2>2
<1> DEFINE T == {n \in Nat : t[n] \in SUBSET S}
<1>9. 0 \in T
  BY <1>8, <1>0
<1>10. \A n \in Nat : n \in T => n + 1 \in T
  BY <1>1, <1>8
<1>11. Nat \subseteq T
  <2> HIDE DEF T
  <2> QED BY <1>9, <1>10, NatInduct
<1>12. t \in [Nat -> SUBSET S]
  <2>1. \A n \in Nat : t[n] \in SUBSET S
    BY <1>11
  <2>2. t = [n \in Nat |-> t[n]]
    BY <1>7
  <2> HIDE DEF Eq
  <2> QED BY <2>1, <2>2
<1> HIDE DEF Eq, T, G
<1> QED BY <1>8, <1>12 DEF R, S, t

(* Reached holds where a path gets to, and nothing else.                   *)
LEMMA ReachedFacts ==
    ASSUME NEW fn, JumpsInside(fn), NEW k \in DOMAIN fn.code, NEW w
    PROVE  LET T == Reached(fn, k, w)[Len(fn.code)]
           IN  /\ T \subseteq DOMAIN fn.code /\ k \in T /\ GoesOn(fn, w, T)
               /\ \A Q \in SUBSET DOMAIN fn.code : k \in Q /\ GoesOn(fn, w, Q) => T \subseteq Q
<1> DEFINE S == DOMAIN fn.code
           t == Reached(fn, k, w)
           N == Len(fn.code)
           R == [old \in SUBSET S |-> Passes(fn, w, old)]
<1>1. t \in [Nat -> SUBSET S] /\ t[0] = {k} /\ \A n \in Nat : t[n + 1] = Passes(fn, w, t[n])
  BY ReachedRounds
<1>2. IsFiniteSet(S) /\ N \in Nat /\ Cardinality(S) <= N
  BY ListedFinite DEF JumpsInside
<1>3. R \in [SUBSET S -> SUBSET S]
  <2>1. \A old \in SUBSET S : Passes(fn, w, old) \in SUBSET S
    BY DEF Passes, JumpsInside
  <2> QED BY <2>1
<1>4. Grows(S, t, R)
  <2>1. \A n \in Nat : t[n] \in SUBSET S /\ t[n + 1] = Passes(fn, w, t[n])
    <3> HIDE DEF t, S
    <3> QED BY <1>1
  <2>2. \A old : old \subseteq Passes(fn, w, old)
    BY DEF Passes
  <2>3. \A n \in Nat : t[n + 1] = R[t[n]] /\ t[n] \subseteq t[n + 1]
    <3> HIDE DEF t, S
    <3> QED BY <2>1, <2>2
  <2> HIDE DEF t, S
  <2> HIDE DEF R
  <2> QED BY <1>1, <1>3, <2>3, <2>2 DEF Grows
<1>5. R[t[N]] = t[N] /\ \A n \in Nat : t[n] \subseteq t[N]
  <2> HIDE DEF t, S, R, N
  <2> QED BY <1>2, <1>4, NothingToAdd
<1>6. t[N] \subseteq S /\ k \in t[N] /\ Passes(fn, w, t[N]) = t[N]
  <2> HIDE DEF t, S, N
  <2> QED BY <1>1, <1>2, <1>5
<1>7. GoesOn(fn, w, t[N])
  <2> HIDE DEF t, S, N
  <2> QED BY <1>6 DEF Passes, GoesOn
<1>8. ASSUME NEW Q \in SUBSET S, k \in Q, GoesOn(fn, w, Q)  PROVE t[N] \subseteq Q
  <2> HIDE DEF t, S, N
  <2> DEFINE U == {n \in Nat : t[n] \subseteq Q}
  <2>1. 0 \in U
    BY <1>1, <1>8
  <2>2. ASSUME NEW n \in Nat, n \in U  PROVE n + 1 \in U
    <3>1. Passes(fn, w, t[n]) \subseteq Q
      BY <1>8, <2>2 DEF Passes, GoesOn
    <3> QED BY <1>1, <3>1
  <2>3. Nat \subseteq U
    <3> HIDE DEF U
    <3> QED BY <2>1, <2>2, NatInduct
  <2> QED BY <2>3, <1>2
<1> QED BY <1>6, <1>7, <1>8

(* The equations of Needed: a word is needed if it is read here, or if it  *)
(* is not written here and needed at some next instruction.                *)
LEMMA NeededFacts ==
    ASSUME NEW fn, JumpsInside(fn), NEW k \in DOMAIN fn.code
    PROVE  /\ Needed(fn, k) \subseteq WordsOf(fn)
           /\ Reads(fn.code[k]) \subseteq Needed(fn, k)
           /\ \A n \in Successors(fn.code[k], k) : Needed(fn, n) \ Writes(fn.code[k]) \subseteq Needed(fn, k)
           /\ \A w \in Needed(fn, k) :
                 \/ w \in Reads(fn.code[k])
                 \/ w \notin Writes(fn.code[k]) /\ \E n \in Successors(fn.code[k], k) : w \in Needed(fn, n)
<1> DEFINE S == DOMAIN fn.code
           T(m, w) == Reached(fn, m, w)[Len(fn.code)]
<1>1. \A w : \A m \in S :
         /\ T(m, w) \subseteq S /\ m \in T(m, w) /\ GoesOn(fn, w, T(m, w))
         /\ \A Q \in SUBSET S : m \in Q /\ GoesOn(fn, w, Q) => T(m, w) \subseteq Q
  BY ReachedFacts
<1>2. \A m, w : w \in Needed(fn, m) <=> w \in WordsOf(fn) /\ \E n \in T(m, w) : w \in Reads(fn.code[n])
  BY DEF Needed
<1>3. \A m \in S : Successors(fn.code[m], m) \subseteq S
  BY DEF JumpsInside
<1> HIDE DEF T
<1>4. Reads(fn.code[k]) \subseteq Needed(fn, k)
  <2>1. Reads(fn.code[k]) \subseteq WordsOf(fn)
    BY DEF WordsOf
  <2> QED BY <1>1, <1>2, <2>1
<1>5. ASSUME NEW n \in Successors(fn.code[k], k), NEW w \in Needed(fn, n), w \notin Writes(fn.code[k])
      PROVE  w \in Needed(fn, k)
  <2>1. n \in S /\ n \in T(k, w)
    BY <1>1, <1>3, <1>5 DEF GoesOn
  <2>2. T(n, w) \subseteq T(k, w)
    BY <1>1, <2>1
  <2> QED BY <1>2, <2>2
<1>6. ASSUME NEW w \in Needed(fn, k), w \notin Reads(fn.code[k])
      PROVE  w \notin Writes(fn.code[k]) /\ \E n \in Successors(fn.code[k], k) : w \in Needed(fn, n)
  <2> SUFFICES ASSUME ~(w \notin Writes(fn.code[k]) /\ \E n \in Successors(fn.code[k], k) : w \in Needed(fn, n))
               PROVE  FALSE
    OBVIOUS
  <2> DEFINE next == IF w \in Writes(fn.code[k]) THEN {} ELSE Successors(fn.code[k], k)
             Q == {k} \cup UNION {T(n, w) : n \in next}
  <2>1. next \subseteq S
    BY <1>3
  <2>2. Q \subseteq S /\ k \in Q
    BY <1>1, <2>1
  <2>3. next \subseteq Q
    BY <1>1, <2>1
  <2>4. GoesOn(fn, w, Q)
    <3>1. ASSUME NEW m \in Q, w \notin Writes(fn.code[m])  PROVE Successors(fn.code[m], m) \subseteq Q
      <4>1. CASE m = k
        BY <4>1, <3>1, <2>3
      <4>2. CASE m # k
        <5>1. PICK n \in next : m \in T(n, w)
          BY <4>2
        <5>2. Successors(fn.code[m], m) \subseteq T(n, w)
          BY <1>1, <2>1, <3>1, <5>1 DEF GoesOn
        <5> QED BY <5>1, <5>2
      <4> QED BY <4>1, <4>2
    <3> HIDE DEF Q
    <3> QED BY <3>1 DEF GoesOn
  <2>5. T(k, w) \subseteq Q
    <3> HIDE DEF Q
    <3> QED BY <1>1, <2>2, <2>4
  <2>6. PICK m \in T(k, w) : w \in Reads(fn.code[m])
    BY <1>2
  <2>7. PICK n \in next : m \in T(n, w)
    BY <2>5, <2>6, <1>6
  <2>8. w \in Needed(fn, n)
    BY <1>2, <2>6, <2>7
  <2> QED BY <2>7, <2>8
<1>7. Needed(fn, k) \subseteq WordsOf(fn)
  BY DEF Needed
<1> QED BY <1>4, <1>5, <1>6, <1>7

-----------------------------------------------------------------------------
LiveStep(fn, old) ==
    {c \in (DOMAIN fn.code) \X WordsOf(fn) :
        \/ c[2] \in Reads(fn.code[c[1]])
        \/ /\ c[2] \notin Writes(fn.code[c[1]])
           /\ \E s \in Successors(fn.code[c[1]], c[1]) : <<s, c[2]>> \in old}

(* The rounds of LiveIn are what their definition says. *)
LEMMA LiveRoundsFacts ==
    ASSUME NEW fn
    PROVE  LET t == LiveRounds(fn)
           IN  /\ t \in [Nat -> SUBSET ((DOMAIN fn.code) \X WordsOf(fn))] /\ t[0] = {}
               /\ \A n \in Nat : t[n + 1] = LiveStep(fn, t[n])
<1> DEFINE S == (DOMAIN fn.code) \X WordsOf(fn)
           R(old) == LiveStep(fn, old)
           G == [x \in Nat \X SUBSET S |-> R(x[2])]
           Eq(s) == s = [n \in Nat |-> IF n = 0 THEN {} ELSE R(s[n - 1])]
           t == LiveRounds(fn)
<1>1. \A old : R(old) \in SUBSET S
  BY DEF LiveStep
<1>4. t = CHOOSE s : Eq(s)
  BY DEF LiveRounds, LiveStep
<1> HIDE DEF R, S, t
<1>2. G \in [Nat \X SUBSET S -> SUBSET S]
  BY <1>1
<1>3. PICK g \in [Nat -> SUBSET S] : Recurses(g, {}, G)
  <2>1. {} \in SUBSET S
    OBVIOUS
  <2> HIDE DEF G
  <2> QED BY <1>2, <2>1, NatRecursion
<1>5. \A n \in Nat : g[n] = IF n = 0 THEN {} ELSE R(g[n - 1])
  <2>1. ASSUME NEW n \in Nat \ {0}  PROVE g[n] = R(g[n - 1])
    <3>1. n - 1 \in Nat /\ g[n - 1] \in SUBSET S
      OBVIOUS
    <3>2. G[<<n, g[n - 1]>>] = R(g[n - 1])
      BY <3>1
    <3>3. g[n] = G[<<n, g[n - 1]>>]
      <4> HIDE DEF G
      <4> QED BY <1>3 DEF Recurses
    <3> QED BY <3>2, <3>3
  <2>2. g[0] = {}
    BY <1>3 DEF Recurses
  <2> QED BY <2>1, <2>2
<1>6. Eq(g)
  BY <1>5
<1>7. Eq(t)
  <2> HIDE DEF Eq
  <2> QED BY <1>4, <1>6
<1>8. t[0] = {} /\ \A n \in Nat : t[n + 1] = R(t[n])
  <2>1. \A n \in Nat : t[n] = IF n = 0 THEN {} ELSE R(t[n - 1])
    BY <1>7
  <2>2. \A n \in Nat : n + 1 \in Nat /\ n + 1 # 0 /\ (n + 1) - 1 = n
    OBVIOUS
  <2> HIDE DEF Eq
  <2> QED BY <2>1, <2>2
<1>12. t \in [Nat -> SUBSET S]
  <2>1. \A n \in Nat : t[n] \in SUBSET S
    <3>1. \A n \in Nat : t[n] = IF n = 0 THEN {} ELSE R(t[n - 1])
      BY <1>7
    <3> QED BY <3>1, <1>1
  <2>2. t = [n \in Nat |-> t[n]]
    BY <1>7
  <2> HIDE DEF Eq
  <2> QED BY <2>1, <2>2
<1> HIDE DEF Eq, G
<1> QED BY <1>8, <1>12 DEF R, S, t

(* LiveIn is the least set that its step leaves alone. *)
LEMMA LiveInFacts ==
    ASSUME NEW fn, JumpsInside(fn)
    PROVE  /\ LiveIn(fn) = LiveStep(fn, LiveIn(fn))
           /\ \A Q : LiveStep(fn, Q) \subseteq Q => LiveIn(fn) \subseteq Q
<1> DEFINE D == DOMAIN fn.code
           W == WordsOf(fn)
           t == LiveRounds(fn)
           N == Len(fn.code)
<1>1. t \in [Nat -> SUBSET (D \X W)] /\ t[0] = {} /\ \A n \in Nat : t[n + 1] = LiveStep(fn, t[n])
  BY LiveRoundsFacts
<1>2. IsFiniteSet(D) /\ N \in Nat /\ Cardinality(D) <= N
  BY ListedFinite DEF JumpsInside
<1>3. LiveIn(fn) = t[N]
  BY DEF LiveIn
<1> HIDE DEF D, W, t, N
<1>4. \A P, Q : P \subseteq Q => LiveStep(fn, P) \subseteq LiveStep(fn, Q)
  BY DEF LiveStep
<1>5. \A n \in Nat : t[n] \subseteq t[n + 1]
  <2> DEFINE U == {n \in Nat : t[n] \subseteq t[n + 1]}
  <2>1. 0 \in U
    BY <1>1
  <2>2. ASSUME NEW n \in Nat, n \in U  PROVE n + 1 \in U
    <3>1. t[n + 1] = LiveStep(fn, t[n]) /\ t[(n + 1) + 1] = LiveStep(fn, t[n + 1])
      BY <1>1
    <3> QED BY <3>1, <2>2, <1>4
  <2>3. Nat \subseteq U
    <3> HIDE DEF U
    <3> QED BY <2>1, <2>2, NatInduct
  <2> QED BY <2>3
<1>6. ASSUME NEW w \in W
      PROVE  \A k \in D : <<k, w>> \in t[N + 1] => <<k, w>> \in t[N]
  <2> DEFINE col(Z) == {k \in D : <<k, w>> \in Z}
             R == [Z \in SUBSET D |-> col(LiveStep(fn, Z \X {w}))]
             f == [n \in Nat |-> col(t[n])]
  <2>1. R \in [SUBSET D -> SUBSET D] /\ f \in [Nat -> SUBSET D]
    OBVIOUS
  <2>2. \A Z : col(LiveStep(fn, Z)) = col(LiveStep(fn, col(Z) \X {w}))
    <3>1. ASSUME NEW Z, NEW k \in D
          PROVE  <<k, w>> \in LiveStep(fn, Z) <=> <<k, w>> \in LiveStep(fn, col(Z) \X {w})
      <4>1. \A s \in Successors(fn.code[k], k) : <<s, w>> \in Z <=> <<s, w>> \in col(Z) \X {w}
        BY DEF JumpsInside, D
      <4> HIDE DEF col
      <4> QED BY <4>1 DEF LiveStep
    <3> QED BY <3>1
  <2>3. Grows(D, f, R)
    <3>1. ASSUME NEW n \in Nat  PROVE col(t[n + 1]) = col(LiveStep(fn, col(t[n]) \X {w}))
      BY <1>1, <2>2
    <3>2. ASSUME NEW n \in Nat  PROVE f[n + 1] = col(t[n + 1]) /\ f[n] = col(t[n]) /\ col(t[n]) \in SUBSET D
      OBVIOUS
    <3>3. ASSUME NEW n \in Nat  PROVE col(t[n]) \subseteq col(t[n + 1])
      BY <1>5
    <3>4. ASSUME NEW Z \in SUBSET D  PROVE R[Z] = col(LiveStep(fn, Z \X {w}))
      OBVIOUS
    <3>5. ASSUME NEW n \in Nat  PROVE f[n + 1] = R[f[n]] /\ f[n] \subseteq f[n + 1]
      <4> HIDE DEF f, R, col
      <4>1. n + 1 \in Nat
        OBVIOUS
      <4>2. f[n + 1] = col(t[n + 1]) /\ f[n] = col(t[n]) /\ col(t[n]) \in SUBSET D
        BY <4>1, <3>2
      <4>3. R[col(t[n])] = col(LiveStep(fn, col(t[n]) \X {w}))
        BY <4>2, <3>4
      <4>4. col(t[n]) \subseteq col(t[n + 1]) /\ col(t[n + 1]) = col(LiveStep(fn, col(t[n]) \X {w}))
        BY <3>1, <3>3
      <4> QED BY <4>2, <4>3, <4>4
    <3> HIDE DEF f, R, col
    <3> QED BY <2>1, <3>5 DEF Grows
  <2>4. R[f[N]] = f[N]
    <3> HIDE DEF f, R, col
    <3>1. N \in Nat /\ Cardinality(D) <= N /\ IsFiniteSet(D)
      BY <1>2
    <3> QED BY <3>1, <2>3, NothingToAdd
  <2>5. f[N + 1] = f[N]
    <3> HIDE DEF f, R
    <3> QED BY <1>2, <2>3, <2>4 DEF Grows
  <2>6. f[N + 1] = col(t[N + 1]) /\ f[N] = col(t[N])
    BY <1>2
  <2>7. col(t[N + 1]) = col(t[N])
    <3> HIDE DEF f, R, col
    <3> QED BY <2>5, <2>6
  <2> HIDE DEF f, R
  <2> QED BY <2>7
<1>7. t[N + 1] = t[N] /\ t[N + 1] = LiveStep(fn, t[N])
  <2>1. t[N + 1] \subseteq D \X W /\ t[N] \subseteq t[N + 1]
    BY <1>1, <1>2, <1>5
  <2>2. \A k \in D, w \in W : <<k, w>> \in t[N + 1] => <<k, w>> \in t[N]
    BY <1>6
  <2>3. t[N + 1] \subseteq t[N]
    BY <2>1, <2>2
  <2> QED BY <2>1, <2>3, <1>1, <1>2
<1>8. ASSUME NEW Q, LiveStep(fn, Q) \subseteq Q  PROVE t[N] \subseteq Q
  <2> DEFINE U == {n \in Nat : t[n] \subseteq Q}
  <2>1. 0 \in U
    BY <1>1
  <2>2. ASSUME NEW n \in Nat, n \in U  PROVE n + 1 \in U
    BY <1>1, <1>4, <1>8, <2>2
  <2>3. Nat \subseteq U
    <3> HIDE DEF U
    <3> QED BY <2>1, <2>2, NatInduct
  <2> QED BY <2>3, <1>2
<1> QED BY <1>3, <1>7, <1>8

(* What the analysis finds live is what some path reads. *)
THEOREM LiveIsNeeded ==
    ASSUME NEW fn, JumpsInside(fn), NEW k \in DOMAIN fn.code, NEW w \in WordsOf(fn)
    PROVE  <<k, w>> \in LiveIn(fn) <=> w \in Needed(fn, k)
<1> DEFINE D == DOMAIN fn.code
           W == WordsOf(fn)
           L == LiveIn(fn)
<1>1. L = LiveStep(fn, L) /\ \A Q : LiveStep(fn, Q) \subseteq Q => L \subseteq Q
  BY LiveInFacts
<1> HIDE DEF L
<1>2. ASSUME w \in Needed(fn, k), <<k, w>> \notin L  PROVE FALSE
  <2> DEFINE Q == {m \in D : <<m, w>> \notin L}
             T == Reached(fn, k, w)[Len(fn.code)]
  <2>1. T \subseteq D /\ \A X \in SUBSET D : k \in X /\ GoesOn(fn, w, X) => T \subseteq X
    BY ReachedFacts
  <2>2. \A m \in D : /\ w \in Reads(fn.code[m]) => <<m, w>> \in L
                     /\ w \notin Writes(fn.code[m]) =>
                           \A s \in Successors(fn.code[m], m) : <<s, w>> \in L => <<m, w>> \in L
    <3>1. \A c : c \in LiveStep(fn, L) <=>
                /\ c \in D \X W
                /\ \/ c[2] \in Reads(fn.code[c[1]])
                   \/ /\ c[2] \notin Writes(fn.code[c[1]])
                      /\ \E s \in Successors(fn.code[c[1]], c[1]) : <<s, c[2]>> \in L
      BY DEF LiveStep
    <3>2. \A m \in D : /\ <<m, w>> \in LiveStep(fn, L) <=> <<m, w>> \in L
                      /\ <<m, w>> \in D \X W /\ <<m, w>>[1] = m /\ <<m, w>>[2] = w
      BY <1>1
    <3> HIDE DEF D, W
    <3> QED BY <3>1, <3>2
  <2>3. PICK m \in T : w \in Reads(fn.code[m])
    BY <1>2 DEF Needed
  <2> HIDE DEF T
  <2>4. GoesOn(fn, w, Q)
    BY <2>2 DEF GoesOn, JumpsInside
  <2>5. Q \in SUBSET D /\ k \in Q
    BY <1>2
  <2>6. T \subseteq Q
    <3> HIDE DEF Q
    <3> QED BY <2>1, <2>4, <2>5
  <2> QED BY <2>1, <2>2, <2>3, <2>6
<1>3. ASSUME <<k, w>> \in L  PROVE w \in Needed(fn, k)
  <2> DEFINE Q == {c \in D \X W : c[2] \in Needed(fn, c[1])}
  <2>1. \A m \in D : /\ Reads(fn.code[m]) \subseteq Needed(fn, m)
                     /\ \A n \in Successors(fn.code[m], m) :
                           Needed(fn, n) \ Writes(fn.code[m]) \subseteq Needed(fn, m)
    BY NeededFacts
  <2>2. LiveStep(fn, Q) \subseteq Q
    <3>1. ASSUME NEW c \in LiveStep(fn, Q)  PROVE c \in D \X W /\ c[2] \in Needed(fn, c[1])
      <4>1. c \in D \X W
        BY DEF LiveStep
      <4>2. CASE c[2] \in Reads(fn.code[c[1]])
        BY <4>1, <4>2, <2>1
      <4>3. CASE c[2] \notin Reads(fn.code[c[1]])
        <5>1. PICK s \in Successors(fn.code[c[1]], c[1]) :
                 c[2] \notin Writes(fn.code[c[1]]) /\ <<s, c[2]>> \in Q
          <6> HIDE DEF Q
          <6> QED BY <4>3 DEF LiveStep
        <5>2. c[2] \in Needed(fn, s)
          BY <5>1
        <5> QED BY <4>1, <5>1, <5>2, <2>1
      <4> QED BY <4>2, <4>3
    <3> QED BY <3>1
  <2>3. L \subseteq Q
    <3> HIDE DEF Q
    <3> QED BY <1>1, <2>2
  <2> QED BY <1>3, <2>3
<1> QED BY <1>2, <1>3 DEF L

-----------------------------------------------------------------------------
(* What a program ensures of its functions. *)
LEMMA FunctionFacts ==
    ASSUME NEW pr, IsProgram(pr), NEW f \in DOMAIN pr
    PROVE  /\ IsFunction(pr, pr[f]) /\ JumpsInside(pr[f])
           /\ 1 \in DOMAIN pr[f].code /\ DOMAIN pr[f].code \subseteq Nat /\ DOMAIN pr \subseteq Nat /\ 1 \in DOMAIN pr
           /\ \A k \in DOMAIN pr[f].code : IsInstruction(pr, pr[f].code[k])
<1>1. IsFunction(pr, pr[f]) /\ IsSequence(pr) /\ 1 \in DOMAIN pr
  BY DEF IsProgram
<1>2. JumpsInside(pr[f])
  BY <1>1 DEF IsFunction, JumpsInside
<1>3. IsSequence(pr[f].code) /\ \A k \in DOMAIN pr[f].code : IsInstruction(pr, pr[f].code[k])
  BY <1>1 DEF IsFunction
<1>4. 1 \in DOMAIN pr[f].code
  BY <1>1 DEF IsFunction
<1>5. DOMAIN pr = 1..Len(pr) /\ Len(pr) \in Nat
  BY <1>1, ListedFinite
<1>6. DOMAIN pr[f].code = 1..Len(pr[f].code) /\ Len(pr[f].code) \in Nat
  BY <1>3, ListedFinite
<1>7. DOMAIN pr \subseteq Nat
  BY <1>5
<1>8. DOMAIN pr[f].code \subseteq Nat
  BY <1>6
<1> QED BY <1>1, <1>2, <1>3, <1>4, <1>7, <1>8

(* A function has finitely many words. *)
LEMMA WordsFinite ==
    ASSUME NEW pr, NEW fn, IsFunction(pr, fn)
    PROVE  IsFiniteSet(WordsOf(fn))
<1> DEFINE D == DOMAIN fn.code
           here == [k \in D |-> Reads(fn.code[k]) \cup Writes(fn.code[k])]
           T == {Reads(fn.code[k]) \cup Writes(fn.code[k]) : k \in D}
<1>1. IsFiniteSet(D) /\ IsFiniteSet(ToSet(fn.params))
  BY ListedFinite DEF IsFunction
<1>2. ASSUME NEW k \in D  PROVE IsFiniteSet(Reads(fn.code[k]) \cup Writes(fn.code[k]))
  <2>1. IsSequence(fn.code[k].src)
    BY DEF IsFunction, IsInstruction
  <2>2. IsFiniteSet(Reads(fn.code[k]))
    BY <2>1, ListedFinite DEF Reads
  <2>3. IsFiniteSet(Writes(fn.code[k]))
    <3>1. IsFiniteSet({fn.code[k].dst}) /\ Writes(fn.code[k]) \in SUBSET {fn.code[k].dst}
      BY FS_Singleton DEF Writes
    <3> QED BY <3>1, FS_Subset
  <2> QED BY <2>2, <2>3, FS_Union
<1>3. IsFiniteSet(T)
  <2>1. here \in Surjection(D, T)
    <3>1. here \in [D -> T]
      OBVIOUS
    <3>2. \A x \in T : \E k \in D : here[k] = x
      OBVIOUS
    <3> HIDE DEF here, T
    <3> QED BY <3>1, <3>2 DEF Surjection
  <2> HIDE DEF here, T
  <2> QED BY <1>1, <2>1, FS_Surjection
<1>4. IsFiniteSet(UNION T)
  <2>1. \A x \in T : IsFiniteSet(x)
    BY <1>2
  <2> HIDE DEF T
  <2> QED BY ONLY <1>3, <2>1, FS_UNION
<1>5. WordsOf(fn) = ToSet(fn.params) \cup UNION T
  BY DEF WordsOf
<1> HIDE DEF T
<1> QED BY <1>1, <1>4, <1>5, FS_Union

(* Where an instruction without a jump goes on. *)
LEMMA NextFacts ==
    ASSUME NEW fn, JumpsInside(fn), NEW k \in DOMAIN fn.code,
           fn.code[k].op \notin {"Tail", "TailIndirect", "Ret", "Br"}
    PROVE  Successors(fn.code[k], k) = {k + 1} /\ k + 1 \in DOMAIN fn.code
BY DEF Successors, JumpsInside

(* A call saves what is needed after it, but for its result. *)
LEMMA SavedFacts ==
    ASSUME NEW pr, NEW fn, IsFunction(pr, fn), NEW k \in DOMAIN fn.code, IsCall(fn.code[k])
    PROVE  LET s == Saved(fn, k)
           IN  /\ k + 1 \in DOMAIN fn.code
               /\ Len(s) \in Nat /\ DOMAIN s = 1..Len(s)
               /\ \A i, j \in DOMAIN s : s[i] = s[j] => i = j
               /\ ToSet(s) = Needed(fn, k + 1) \ {fn.code[k].dst}
               /\ ToSet(s) \subseteq WordsOf(fn)
<1>1. JumpsInside(fn)
  BY DEF IsFunction, JumpsInside
<1>2. Successors(fn.code[k], k) = {k + 1} /\ k + 1 \in DOMAIN fn.code
  <2>1. fn.code[k].op \notin {"Tail", "TailIndirect", "Ret", "Br"}
    BY DEF IsCall
  <2> QED BY <1>1, <2>1, NextFacts
<1>3. \A w \in WordsOf(fn) : <<k + 1, w>> \in LiveIn(fn) <=> w \in Needed(fn, k + 1)
  BY <1>1, <1>2, LiveIsNeeded
<1>4. LiveAfter(fn, k) = Needed(fn, k + 1)
  <2>1. Needed(fn, k + 1) \subseteq WordsOf(fn)
    BY DEF Needed
  <2> QED BY <1>2, <1>3, <2>1 DEF LiveAfter
<1>5. IsFiniteSet(LiveAfter(fn, k) \ {fn.code[k].dst})
  <2>1. LiveAfter(fn, k) \ {fn.code[k].dst} \in SUBSET WordsOf(fn)
    BY DEF LiveAfter
  <2> QED BY <2>1, WordsFinite, FS_Subset
<1>6. LiveAfter(fn, k) \ {fn.code[k].dst} \subseteq WordsOf(fn)
  BY DEF LiveAfter
<1> QED BY <1>2, <1>4, <1>5, <1>6, ListFacts DEF Saved

(* Every saved word has two slots of its own. *)
LEMMA SlotFacts ==
    ASSUME NEW s, Len(s) \in Nat, DOMAIN s = 1..Len(s), NEW w \in ToSet(s)
    PROVE  \E j \in 1..Len(s) : s[j] = w /\ SlotOf(s, w) = 2 * (j - 1)
<1> DEFINE j == CHOOSE j \in DOMAIN s : s[j] = w
<1>1. \E j0 \in DOMAIN s : s[j0] = w
  BY DEF ToSet
<1>2. j \in DOMAIN s /\ s[j] = w
  BY <1>1
<1>3. SlotOf(s, w) = 2 * (j - 1)
  BY DEF SlotOf, WORD_SLOTS
<1> HIDE DEF j
<1> QED BY <1>2, <1>3

-----------------------------------------------------------------------------
(* The frames read off a stack. *)
FramesOf(pr, stack) == {FrameAt(pr, stack, n) : n \in 1..SlotsCap}

(* A frame lies under its return pc. *)
LEMMA FrameFacts ==
    ASSUME NEW pr, IsProgram(pr), NEW stack, NEW n \in Nat, EndsFrame(pr, stack, n)
    PROVE  /\ FrameBase(pr, stack, n) \in 0..(n - 1) /\ n \in 1..n
           /\ IsReturnPc(pr, stack[n - 1])
           /\ LET ra == stack[n - 1]
                  s == Saved(pr[ra.fn], ra.at)
              IN  /\ n = FrameBase(pr, stack, n) + 2 * Len(s) + 1 /\ Len(s) \in Nat
                  /\ ra.fn \in DOMAIN pr /\ ra.at \in DOMAIN pr[ra.fn].code
                  /\ IsFunction(pr, pr[ra.fn]) /\ IsCall(pr[ra.fn].code[ra.at])
<1> DEFINE ra == stack[n - 1]
           s == Saved(pr[ra.fn], ra.at)
<1>1. IsReturnPc(pr, ra) /\ n > 0
  BY DEF EndsFrame
<1>2. ra.fn \in DOMAIN pr /\ ra.at \in DOMAIN pr[ra.fn].code /\ IsCall(pr[ra.fn].code[ra.at])
  BY <1>1 DEF IsReturnPc
<1>3. IsFunction(pr, pr[ra.fn])
  BY <1>2, FunctionFacts
<1>4. Len(s) \in Nat
  BY <1>2, <1>3, SavedFacts
<1>5. FrameSlots(pr[ra.fn], ra.at) = 2 * Len(s) + 1
  BY DEF FrameSlots, RaSlot, WORD_SLOTS
<1>6. FrameSlots(pr[ra.fn], ra.at) <= n
  BY DEF EndsFrame
<1>7. FrameBase(pr, stack, n) = n - FrameSlots(pr[ra.fn], ra.at)
  BY DEF FrameBase
<1> HIDE DEF s, ra
<1>8. FrameBase(pr, stack, n) \in 0..(n - 1) /\ n = FrameBase(pr, stack, n) + 2 * Len(s) + 1 /\ n \in 1..n
  BY <1>1, <1>4, <1>5, <1>6, <1>7
<1> QED BY <1>1, <1>2, <1>3, <1>4, <1>8 DEF s, ra

(* What waits below a slot is what waits below its last frame, and that.   *)
LEMMA WaitingFacts ==
    ASSUME NEW pr, IsProgram(pr), NEW stack
    PROVE  /\ \A n \in 0..SlotsCap : Waiting(pr, stack)[n] \in Seq(FramesOf(pr, stack))
           /\ Waiting(pr, stack)[0] = <<>>
           /\ \A n \in 1..SlotsCap : EndsFrame(pr, stack, n) =>
                 Waiting(pr, stack)[n] = Append(Waiting(pr, stack)[FrameBase(pr, stack, n)], FrameAt(pr, stack, n))
           /\ \A n \in 1..SlotsCap : ~EndsFrame(pr, stack, n) => Waiting(pr, stack)[n] = <<>>
<1> DEFINE N == SlotsCap
           ends(n) == EndsFrame(pr, stack, n)
           base(n) == FrameBase(pr, stack, n)
           frame(n) == FrameAt(pr, stack, n)
           Fs == {frame(n) : n \in 1..N}
           V == Seq(Fs)
           B == [n \in 1..N |-> IF ends(n) THEN base(n) ELSE 0]
           G == [x \in (1..N) \X V |-> IF ends(x[1]) THEN Append(x[2], frame(x[1])) ELSE <<>>]
           Eq(s) == s = [n \in 0..N |-> IF ends(n) THEN Append(s[base(n)], frame(n)) ELSE <<>>]
           t == Waiting(pr, stack)
<1>1. N \in Nat
  BY ProgramsAssumption
<1>2. t = CHOOSE s : Eq(s)
  BY DEF Waiting
<1>3. \A n \in 1..N : ends(n) => base(n) \in 0..(n - 1)
  BY <1>1, FrameFacts
<1>4. ~ends(0)
  BY DEF EndsFrame
<1>5. Fs = FramesOf(pr, stack)
  BY DEF FramesOf
<1>6. \A n \in 1..N : frame(n) \in Fs
  OBVIOUS
<1> HIDE DEF N, ends, base, frame, Fs, t
<1>7. G \in [(1..N) \X V -> V]
  <2>1. ASSUME NEW n \in 1..N, NEW s \in V  PROVE Append(s, frame(n)) \in V
    BY <1>6
  <2>2. <<>> \in V
    OBVIOUS
  <2> HIDE DEF V
  <2> QED BY <2>1, <2>2
<1>8. PointsBack(N, B)
  <2>1. \A n \in 1..N : B[n] \in Nat /\ B[n] < n
    BY <1>1, <1>3
  <2> QED BY <2>1 DEF PointsBack
<1>9. PICK f \in [0..N -> V] : Tabulates(f, <<>>, G, N, B)
  <2>1. <<>> \in V
    OBVIOUS
  <2> HIDE DEF G, B, V
  <2> QED BY <1>1, <1>7, <1>8, <2>1, BelowRecursion
<1>10. Eq(f)
  <2>1. f[0] = <<>>
    BY <1>9 DEF Tabulates
  <2>2. ASSUME NEW n \in 1..N  PROVE f[n] = IF ends(n) THEN Append(f[base(n)], frame(n)) ELSE <<>>
    <3>1. f[n] = G[<<n, f[B[n]]>>]
      <4> HIDE DEF G, B, V
      <4> QED BY <1>9 DEF Tabulates
    <3>2. B[n] \in 0..N
      BY <1>1, <1>3
    <3>3. f[B[n]] \in V
      <4> HIDE DEF B, V
      <4> QED BY <3>2
    <3>4. G[<<n, f[B[n]]>>] = IF ends(n) THEN Append(f[B[n]], frame(n)) ELSE <<>>
      <4> HIDE DEF B, V
      <4> QED BY <3>3
    <3>5. ends(n) => B[n] = base(n)
      OBVIOUS
    <3> HIDE DEF B, V, G
    <3> QED BY <3>1, <3>4, <3>5
  <2>3. \A n \in 0..N : f[n] = IF ends(n) THEN Append(f[base(n)], frame(n)) ELSE <<>>
    <3>1. \A n \in 0..N : n = 0 \/ n \in 1..N
      BY <1>1
    <3> QED BY <3>1, <2>1, <2>2, <1>4
  <2> HIDE DEF V
  <2> QED BY <2>3
<1>11. Eq(t)
  <2> HIDE DEF Eq
  <2> QED BY <1>2, <1>10
<1>12. \A n \in 0..N : t[n] = IF ends(n) THEN Append(t[base(n)], frame(n)) ELSE <<>>
  BY <1>11
<1>13. t[0] = <<>> /\ \A n \in 1..N : n \in 0..N
  BY <1>1, <1>4, <1>12
<1> HIDE DEF Eq, V, G, B
<1> DEFINE U == {n \in Nat : \A m \in 0..N : m <= n => t[m] \in Seq(Fs)}
<1>14. 0 \in U
  <2>1. \A m \in 0..N : m <= 0 => m = 0
    BY <1>1
  <2>2. <<>> \in Seq(Fs)
    OBVIOUS
  <2>3. \A m \in 0..N : m <= 0 => t[m] \in Seq(Fs)
    BY <2>1, <2>2, <1>13, Zenon
  <2> QED BY <2>3
<1>15. ASSUME NEW n \in Nat, n \in U  PROVE n + 1 \in U
  <2> SUFFICES ASSUME NEW m \in 0..N, m <= n + 1  PROVE t[m] \in Seq(Fs)
    OBVIOUS
  <2>1. CASE m <= n
    BY <2>1, <1>15
  <2>2. CASE ~(m <= n)
    <3>1. m = n + 1 /\ m \in 1..N /\ m - 1 = n
      BY <2>2, <1>1
    <3>2. CASE ends(m)
      <4>1. base(m) \in 0..N /\ base(m) <= n
        BY <3>1, <3>2, <1>3, <1>1
      <4>2. t[base(m)] \in Seq(Fs)
        BY <4>1, <1>15
      <4>3. frame(m) \in Fs
        BY <3>1, <1>6
      <4>4. t[m] = Append(t[base(m)], frame(m))
        BY <3>1, <3>2, <1>12
      <4>5. \A q \in Seq(Fs), x \in Fs : Append(q, x) \in Seq(Fs)
        OBVIOUS
      <4> QED BY <4>2, <4>3, <4>4, <4>5, Zenon
    <3>3. CASE ~ends(m)
      <4>1. t[m] = <<>>
        BY <3>3, <1>12
      <4>2. <<>> \in Seq(Fs)
        OBVIOUS
      <4> QED BY <4>1, <4>2, Zenon
    <3> QED BY <3>2, <3>3
  <2> QED BY <2>1, <2>2
<1>16. \A n \in 0..N : t[n] \in Seq(Fs)
  <2>1. Nat \subseteq U
    <3> HIDE DEF U
    <3> QED BY <1>14, <1>15, NatInduct
  <2>2. \A n \in 0..N : n \in Nat /\ n <= n
    BY <1>1
  <2> QED BY <2>1, <2>2
<1>17. \A n \in 1..N : /\ ends(n) => t[n] = Append(t[base(n)], frame(n))
                       /\ ~ends(n) => t[n] = <<>>
  BY <1>12, <1>13
<1> QED BY <1>5, <1>13, <1>16, <1>17, Zenon DEF N, ends, base, frame, t

(* A frame is what the slots under its return pc hold, and no other slot.  *)
LEMMA FrameSame ==
    ASSUME NEW pr, IsProgram(pr), NEW stack, NEW other, NEW m \in Nat \ {0},
           \A i \in 0..(m - 1) : other[i] = stack[i]
    PROVE  /\ EndsFrame(pr, other, m) <=> EndsFrame(pr, stack, m)
           /\ FrameBase(pr, other, m) = FrameBase(pr, stack, m)
           /\ EndsFrame(pr, stack, m) => FrameAt(pr, other, m) = FrameAt(pr, stack, m)
<1>1. other[m - 1] = stack[m - 1]
  <2>1. m - 1 \in 0..(m - 1)
    OBVIOUS
  <2> QED BY <2>1
<1>2. EndsFrame(pr, other, m) <=> EndsFrame(pr, stack, m)
  BY <1>1 DEF EndsFrame
<1>3. FrameBase(pr, other, m) = FrameBase(pr, stack, m)
  BY <1>1 DEF FrameBase
<1>4. ASSUME EndsFrame(pr, stack, m)  PROVE FrameAt(pr, other, m) = FrameAt(pr, stack, m)
  <2> DEFINE ra == stack[m - 1]
             s == Saved(pr[ra.fn], ra.at)
             base == FrameBase(pr, stack, m)
  <2>1. /\ base \in 0..(m - 1) /\ m = base + 2 * Len(s) + 1 /\ Len(s) \in Nat
        /\ ra.fn \in DOMAIN pr /\ ra.at \in DOMAIN pr[ra.fn].code
        /\ IsFunction(pr, pr[ra.fn]) /\ IsCall(pr[ra.fn].code[ra.at])
    <3>1. m \in Nat
      OBVIOUS
    <3>2. base \in 0..(m - 1)
      BY <3>1, <1>4, FrameFacts
    <3>3. m = base + 2 * Len(s) + 1
      BY <3>1, <1>4, FrameFacts
    <3>4. Len(s) \in Nat
      BY <3>1, <1>4, FrameFacts
    <3>5. ra.fn \in DOMAIN pr /\ ra.at \in DOMAIN pr[ra.fn].code
      BY <3>1, <1>4, FrameFacts
    <3>6. IsFunction(pr, pr[ra.fn])
      BY <3>1, <1>4, FrameFacts
    <3>7. IsCall(pr[ra.fn].code[ra.at])
      BY <3>1, <1>4, FrameFacts
    <3> QED BY <3>1, <3>2, <3>3, <3>4, <3>5, <3>6, <3>7
  <2>2. DOMAIN s = 1..Len(s)
    BY <2>1, SavedFacts
  <2>3. ASSUME NEW w \in ToSet(s)  PROVE other[base + SlotOf(s, w)] = stack[base + SlotOf(s, w)]
    <3>1. PICK j \in 1..Len(s) : SlotOf(s, w) = 2 * (j - 1)
      BY <2>1, <2>2, SlotFacts
    <3> HIDE DEF s, base
    <3>2. base + SlotOf(s, w) \in 0..(m - 1)
      BY <2>1, <3>1
    <3> QED BY <3>2
  <2>4. FrameAt(pr, stack, m) = [fn |-> ra.fn, at |-> ra.at, env |-> [w \in ToSet(s) |-> stack[base + SlotOf(s, w)]]]
    BY DEF FrameAt
  <2>5. FrameAt(pr, other, m) = [fn |-> ra.fn, at |-> ra.at, env |-> [w \in ToSet(s) |-> other[base + SlotOf(s, w)]]]
    BY <1>1, <1>3 DEF FrameAt
  <2>6. [w \in ToSet(s) |-> stack[base + SlotOf(s, w)]] = [w \in ToSet(s) |-> other[base + SlotOf(s, w)]]
    <3> HIDE DEF s, base
    <3> QED BY <2>3
  <2> HIDE DEF s, base, ra
  <2> QED BY <2>4, <2>5, <2>6, Zenon
<1> QED BY <1>2, <1>3, <1>4

(* What waits below a slot depends on the slots below it only. *)
LEMMA WaitingSame ==
    ASSUME NEW pr, IsProgram(pr), NEW stack, NEW other, NEW n \in 0..SlotsCap,
           \A i \in 0..(n - 1) : other[i] = stack[i]
    PROVE  Waiting(pr, other)[n] = Waiting(pr, stack)[n]
<1> DEFINE V == Waiting(pr, other)
           W == Waiting(pr, stack)
           U == {k \in Nat : \A m \in 0..SlotsCap : m <= k /\ m <= n => V[m] = W[m]}
<1>0. SlotsCap \in Nat
  BY ProgramsAssumption
<1>1. /\ W[0] = <<>> /\ V[0] = <<>>
      /\ \A m \in 1..SlotsCap :
            /\ EndsFrame(pr, stack, m) => W[m] = Append(W[FrameBase(pr, stack, m)], FrameAt(pr, stack, m))
            /\ ~EndsFrame(pr, stack, m) => W[m] = <<>>
            /\ EndsFrame(pr, other, m) => V[m] = Append(V[FrameBase(pr, other, m)], FrameAt(pr, other, m))
            /\ ~EndsFrame(pr, other, m) => V[m] = <<>>
  BY WaitingFacts
<1> HIDE DEF V, W
<1>2. 0 \in U
  <2>1. \A m \in 0..SlotsCap : m <= 0 => m = 0
    BY <1>0
  <2> QED BY <2>1, <1>1
<1>3. ASSUME NEW k \in Nat, k \in U  PROVE k + 1 \in U
  <2> SUFFICES ASSUME NEW m \in 0..SlotsCap, m <= k + 1, m <= n  PROVE V[m] = W[m]
    OBVIOUS
  <2>1. CASE m <= k
    BY <2>1, <1>3
  <2>2. CASE ~(m <= k)
    <3>1. m \in 1..SlotsCap /\ m \in Nat \ {0} /\ m - 1 <= n - 1 /\ m - 1 = k
      BY <2>2, <1>0
    <3>2. \A i \in 0..(m - 1) : other[i] = stack[i]
      BY <3>1
    <3>3. /\ EndsFrame(pr, other, m) <=> EndsFrame(pr, stack, m)
          /\ FrameBase(pr, other, m) = FrameBase(pr, stack, m)
          /\ EndsFrame(pr, stack, m) => FrameAt(pr, other, m) = FrameAt(pr, stack, m)
      BY <3>1, <3>2, FrameSame
    <3>4. CASE EndsFrame(pr, stack, m)
      <4> DEFINE b == FrameBase(pr, stack, m)
      <4>1. b \in 0..(m - 1)
        BY <3>1, <3>4, FrameFacts
      <4>2. b \in 0..SlotsCap /\ b <= k /\ b <= n
        BY <4>1, <3>1, <1>0
      <4>3. V[b] = W[b]
        BY <4>2, <1>3
      <4> HIDE DEF b
      <4> QED BY <4>3, <3>1, <3>3, <3>4, <1>1, Zenon DEF b
    <3>5. CASE ~EndsFrame(pr, stack, m)
      BY <3>5, <3>3, <3>1, <1>1
    <3> QED BY <3>4, <3>5
  <2> QED BY <2>1, <2>2
<1>4. Nat \subseteq U
  <2> HIDE DEF U
  <2> QED BY <1>2, <1>3, NatInduct
<1>5. n \in U /\ n <= n /\ n \in Nat
  BY <1>0, <1>4
<1> QED BY <1>5 DEF V, W

-----------------------------------------------------------------------------
(* The values of the words, and what instructions do to them. *)
Banks(pr) == {r \in [DOMAIN pr -> UNION {[WordsOf(pr[f]) -> Nat] : f \in DOMAIN pr}] :
                 \A f \in DOMAIN pr : r[f] \in [WordsOf(pr[f]) -> Nat]}
AgreeOn(S, a, b) == \A w \in S : a[w] = b[w]

(* An instruction's words are words of its function. *)
LEMMA WordFacts ==
    ASSUME NEW pr, NEW fn, IsFunction(pr, fn), NEW k \in DOMAIN fn.code
    PROVE  LET i == fn.code[k]
           IN  /\ Reads(i) \subseteq WordsOf(fn) /\ Writes(i) \subseteq WordsOf(fn)
               /\ IsInstruction(pr, i)
               /\ DOMAIN i.src = 1..Len(i.src) /\ Len(i.src) \in Nat
               /\ \A j \in DOMAIN i.src : i.src[j] \in Reads(i)
               /\ i.op \in OneOperand => 1 \in DOMAIN i.src
               /\ i.op \in Results => i.dst \in Writes(i) /\ Writes(i) = {i.dst}
               /\ i.op \notin Results => Writes(i) = {}
<1> DEFINE i == fn.code[k]
<1>1. IsInstruction(pr, i)
  BY DEF IsFunction
<1>2. Reads(i) \subseteq WordsOf(fn) /\ Writes(i) \subseteq WordsOf(fn)
  BY DEF WordsOf
<1> HIDE DEF i
<1>3. IsSequence(i.src)
  BY <1>1 DEF IsInstruction
<1>4. DOMAIN i.src = 1..Len(i.src) /\ Len(i.src) \in Nat
  BY <1>3, ListedFinite
<1>5. \A j \in DOMAIN i.src : i.src[j] \in Reads(i)
  BY DEF Reads, ToSet
<1>6. i.op \in OneOperand => 1 \in DOMAIN i.src
  <2>1. i.op \in OneOperand => Len(i.src) = 1
    BY <1>1 DEF IsInstruction
  <2>2. Len(i.src) = 1 => 1 \in 1..Len(i.src)
    OBVIOUS
  <2>3. DOMAIN i.src = 1..Len(i.src)
    BY <1>4
  <2> QED BY <2>1, <2>2, <2>3, Zenon
<1>7. i.dst # NoWord <=> i.op \in Results
  BY <1>1 DEF IsInstruction
<1>8. i.op \in Results => i.dst \in Writes(i) /\ Writes(i) = {i.dst}
  BY <1>7 DEF Writes
<1>9. i.op \notin Results => Writes(i) = {}
  BY <1>7 DEF Writes
<1> QED BY <1>1, <1>2, <1>4, <1>5, <1>6, <1>8, <1>9 DEF i

(* A local instruction keeps the words what they are, goes on inside its   *)
(* function, and does the same to banks that agree on the words needed.    *)
LEMMA ComputeFacts ==
    ASSUME NEW pr, NEW fn, IsFunction(pr, fn), NEW k \in DOMAIN fn.code, IsLocalStep(fn.code[k]),
           NEW e \in [WordsOf(fn) -> Nat]
    PROVE  LET i == fn.code[k]
               n == Goes(i, k, e)
           IN  /\ Compute(i, e) \in [WordsOf(fn) -> Nat]
               /\ n \in DOMAIN fn.code
               /\ i.op \in OneOperand => e[i.src[1]] \in Nat
               /\ \A d \in [WordsOf(fn) -> Nat] : AgreeOn(Needed(fn, k), e, d) =>
                     /\ Goes(i, k, d) = n
                     /\ i.op = "Put" => d[i.src[1]] = e[i.src[1]]
                     /\ AgreeOn(Needed(fn, n), Compute(i, e), Compute(i, d))
<1> DEFINE i == fn.code[k]
           n == Goes(i, k, e)
           W == WordsOf(fn)
<1>1. /\ Reads(i) \subseteq W /\ Writes(i) \subseteq W /\ IsInstruction(pr, i)
      /\ \A j \in DOMAIN i.src : i.src[j] \in Reads(i)
      /\ i.op \in OneOperand => 1 \in DOMAIN i.src
      /\ i.op \in Results => i.dst \in Writes(i) /\ Writes(i) = {i.dst}
      /\ i.op \notin Results => Writes(i) = {}
  BY WordFacts
<1>2. JumpsInside(fn)
  BY DEF IsFunction, JumpsInside
<1>3. /\ Reads(i) \subseteq Needed(fn, k)
      /\ \A m \in Successors(i, k) : Needed(fn, m) \ Writes(i) \subseteq Needed(fn, k)
      /\ \A m \in Successors(i, k) : m \in DOMAIN fn.code
  BY <1>2, NeededFacts DEF JumpsInside
<1>4. \A m \in DOMAIN fn.code : Needed(fn, m) \subseteq W
  BY <1>2, NeededFacts
<1>5. i.op \in {"Set", "Move", "Dec", "Put", "Br"}
  BY DEF IsLocalStep
<1> HIDE DEF i, W
<1>6. i.op \in OneOperand => e[i.src[1]] \in Nat /\ i.src[1] \in Reads(i)
  BY <1>1 DEF W
<1>7. n \in Successors(i, k)
  BY <1>5 DEF Goes, Successors
<1>8. i.op = "Set" => i.arg \in Nat
  BY <1>1 DEF IsInstruction
<1>9. Compute(i, e) \in [W -> Nat]
  <2>1. CASE i.op = "Set"
    BY <2>1, <1>8 DEF Compute, W
  <2>2. CASE i.op = "Move"
    BY <2>2, <1>6 DEF Compute, W, OneOperand
  <2>3. CASE i.op = "Dec"
    <3>1. (IF e[i.src[1]] = 0 THEN 0 ELSE e[i.src[1]] - 1) \in Nat
      BY <2>3, <1>6 DEF OneOperand
    <3> QED BY <2>3, <3>1 DEF Compute, W
  <2>4. CASE i.op \in {"Put", "Br"}
    BY <2>4 DEF Compute, W
  <2> QED BY <2>1, <2>2, <2>3, <2>4, <1>5
<1>10. ASSUME NEW d \in [W -> Nat], AgreeOn(Needed(fn, k), e, d)
       PROVE  /\ Goes(i, k, d) = n
              /\ i.op = "Put" => d[i.src[1]] = e[i.src[1]]
              /\ AgreeOn(Needed(fn, n), Compute(i, e), Compute(i, d))
  <2>1. i.op \in OneOperand => d[i.src[1]] = e[i.src[1]]
    BY <1>10, <1>6, <1>3 DEF AgreeOn
  <2>2. Goes(i, k, d) = n
    BY <2>1 DEF Goes, OneOperand
  <2> HIDE DEF n
  <2>3. ASSUME NEW w \in Needed(fn, n)  PROVE Compute(i, e)[w] = Compute(i, d)[w]
    <3>1. w \in W /\ (w \in Writes(i) \/ w \in Needed(fn, k))
      BY <1>3, <1>4, <1>7
    <3>2. CASE i.op = "Set"
      <4>1. Compute(i, e) = [e EXCEPT ![i.dst] = i.arg] /\ Compute(i, d) = [d EXCEPT ![i.dst] = i.arg]
        BY <3>2 DEF Compute
      <4>2. w = i.dst \/ e[w] = d[w]
        BY <3>1, <3>2, <1>1, <1>10 DEF AgreeOn, Results
      <4> QED BY <4>1, <4>2, <3>1 DEF W
    <3>3. CASE i.op = "Move"
      <4>1. Compute(i, e) = [e EXCEPT ![i.dst] = e[i.src[1]]] /\ Compute(i, d) = [d EXCEPT ![i.dst] = d[i.src[1]]]
        BY <3>3 DEF Compute
      <4>2. (w = i.dst \/ e[w] = d[w]) /\ e[i.src[1]] = d[i.src[1]]
        BY <3>1, <3>3, <2>1, <1>1, <1>10 DEF AgreeOn, Results, OneOperand
      <4> QED BY <4>1, <4>2, <3>1 DEF W
    <3>4. CASE i.op = "Dec"
      <4> DEFINE x == IF e[i.src[1]] = 0 THEN 0 ELSE e[i.src[1]] - 1
      <4>1. Compute(i, e) = [e EXCEPT ![i.dst] = x]
        BY <3>4 DEF Compute
      <4>2. (w = i.dst \/ e[w] = d[w]) /\ e[i.src[1]] = d[i.src[1]]
        BY <3>1, <3>4, <2>1, <1>1, <1>10 DEF AgreeOn, Results, OneOperand
      <4>3. Compute(i, d) = [d EXCEPT ![i.dst] = x]
        BY <3>4, <4>2 DEF Compute
      <4> HIDE DEF x
      <4> QED BY <4>1, <4>2, <4>3, <3>1 DEF W
    <3>5. CASE i.op \in {"Put", "Br"}
      <4>1. Compute(i, e) = e /\ Compute(i, d) = d
        BY <3>5 DEF Compute
      <4>2. w \in Needed(fn, k)
        BY <3>1, <3>5, <1>1 DEF Results
      <4> QED BY <4>1, <4>2, <1>10 DEF AgreeOn
    <3> QED BY <3>2, <3>3, <3>4, <3>5, <1>5
  <2> QED BY <2>1, <2>2, <2>3 DEF AgreeOn, OneOperand
<1>11. n \in DOMAIN fn.code
  BY <1>3, <1>7
<1> QED BY <1>6, <1>9, <1>10, <1>11 DEF i, W

Lists(s) == Len(s) \in Nat /\ DOMAIN s = 1..Len(s) /\ \A i, j \in DOMAIN s : s[i] = s[j] => i = j

(* A push: the frame is above what was there, which stays.                 *)
LEMMA PushFacts ==
    ASSUME NEW words, Lists(words), NEW ra,
           sp \in Nat, DOMAIN cs = 0..(SlotsCap - 1), sp + 2 * Len(words) + 1 <= SlotsCap
    PROVE  LET c == Push(words, ra)
           IN  /\ DOMAIN c = 0..(SlotsCap - 1)
               /\ \A i \in 0..(sp - 1) : c[i] = cs[i]
               /\ c[sp + 2 * Len(words)] = ra
               /\ \A w \in ToSet(words) : c[sp + SlotOf(words, w)] = reg[pc.fn][w]
<1> USE DEF Lists
<1> DEFINE L == Len(words)
           at(i) == IF i \in sp..(sp + 2 * L - 1) THEN reg[pc.fn][words[((i - sp) \div 2) + 1]]
                    ELSE IF i = sp + 2 * L THEN ra ELSE cs[i]
           c == Push(words, ra)
<1>0. SlotsCap \in Nat
  BY ProgramsAssumption
<1>1. c = [i \in 0..(SlotsCap - 1) |-> at(i)]
  BY DEF Push, WORD_SLOTS
<1> HIDE DEF c
<1>2. ASSUME NEW i \in 0..(sp - 1)  PROVE c[i] = cs[i]
  <2>1. i \in 0..(SlotsCap - 1) /\ i \notin sp..(sp + 2 * L - 1) /\ i # sp + 2 * L
    BY <1>0
  <2> QED BY <2>1, <1>1
<1>3. c[sp + 2 * L] = ra
  <2>1. sp + 2 * L \in 0..(SlotsCap - 1) /\ sp + 2 * L \notin sp..(sp + 2 * L - 1)
    BY <1>0
  <2> QED BY <2>1, <1>1
<1>4. ASSUME NEW w \in ToSet(words)  PROVE c[sp + SlotOf(words, w)] = reg[pc.fn][w]
  <2>1. PICK j \in 1..L : words[j] = w /\ SlotOf(words, w) = 2 * (j - 1)
    BY SlotFacts
  <2> DEFINE i == sp + 2 * (j - 1)
  <2>2. i \in 0..(SlotsCap - 1) /\ i \in sp..(sp + 2 * L - 1) /\ ((i - sp) \div 2) + 1 = j
    BY <1>0
  <2> HIDE DEF i
  <2>3. c[i] = reg[pc.fn][words[j]]
    BY <2>2, <1>1
  <2> QED BY <2>1, <2>3 DEF i
<1>5. DOMAIN c = 0..(SlotsCap - 1)
  BY <1>1
<1> QED BY <1>2, <1>3, <1>4, <1>5 DEF c

-----------------------------------------------------------------------------
(* The copies of arguments, one after the other.  They change only the     *)
(* parameters of the callee; each gets its argument, if the callee is      *)
(* another function or takes none of its own parameters for another.       *)
LEMMA CopyFacts ==
    ASSUME NEW g \in DOMAIN prog, NEW src, IsProgram(prog), reg \in Banks(prog), pc.fn \in DOMAIN prog,
           IsSequence(src), Len(src) = Len(prog[g].params), ToSet(src) \subseteq WordsOf(prog[pc.fn])
    PROVE  LET r == CopyArgs(g, src)
               params == prog[g].params
           IN  /\ r \in Banks(prog)
               /\ \A f \in DOMAIN prog : f # g => r[f] = reg[f]
               /\ \A w \in WordsOf(prog[g]) \ ToSet(params) : r[g][w] = reg[g][w]
               /\ pc.fn # g \/ ~Clobbers(params, src) =>
                     \A j \in DOMAIN src : r[g][params[j]] = reg[pc.fn][src[j]]
<1> DEFINE params == prog[g].params
           N == Len(src)
           V == Banks(prog)
           one(r, k) == [r EXCEPT ![g][params[k]] = r[pc.fn][src[k]]]
           G == [x \in (1..N) \X V |-> one(x[2], x[1])]
           Eq(s) == s = [k \in 0..N |-> IF k = 0 THEN reg ELSE one(s[k - 1], k)]
           t == CHOOSE s : Eq(s)
<1>1. CopyArgs(g, src) = t[N]
  BY DEF CopyArgs
<1>2. /\ N \in Nat /\ DOMAIN src = 1..N
      /\ DOMAIN params = 1..N
      /\ \A i, j \in 1..N : params[i] = params[j] => i = j
      /\ ToSet(params) \subseteq WordsOf(prog[g])
  <2>1. IsFunction(prog, prog[g])
    BY FunctionFacts
  <2>2. IsSequence(params) /\ \A i, j \in DOMAIN params : params[i] = params[j] => i = j
    BY <2>1 DEF IsFunction
  <2>3. DOMAIN params = 1..Len(params)
    BY <2>2, ListedFinite
  <2>4. N \in Nat /\ DOMAIN src = 1..N
    BY ListedFinite
  <2>5. ToSet(params) \subseteq WordsOf(prog[g])
    BY DEF WordsOf
  <2> QED BY <2>2, <2>3, <2>4, <2>5
<1>3. \A j \in 1..N : params[j] \in ToSet(params) /\ src[j] \in ToSet(src)
  BY <1>2 DEF ToSet
<1> DEFINE W == WordsOf(prog[g])
           W0 == WordsOf(prog[pc.fn])
<1>4. /\ \A r \in V : r[g] \in [W -> Nat] /\ r[pc.fn] \in [W0 -> Nat]
      /\ \A r \in V, b \in [W -> Nat] : [r EXCEPT ![g] = b] \in V
  <2>1. \A r \in V : r[g] \in [W -> Nat] /\ r[pc.fn] \in [W0 -> Nat]
    BY DEF Banks
  <2>2. ASSUME NEW r \in V, NEW b \in [W -> Nat]  PROVE [r EXCEPT ![g] = b] \in V
    <3> DEFINE U == UNION {[WordsOf(prog[f]) -> Nat] : f \in DOMAIN prog}
    <3>1. b \in U
      OBVIOUS
    <3>2. r \in [DOMAIN prog -> U] /\ \A f \in DOMAIN prog : r[f] \in [WordsOf(prog[f]) -> Nat]
      BY DEF Banks
    <3>3. [r EXCEPT ![g] = b] \in [DOMAIN prog -> U]
      <4> HIDE DEF U
      <4> QED BY <3>1, <3>2
    <3>4. \A f \in DOMAIN prog : [r EXCEPT ![g] = b][f] \in [WordsOf(prog[f]) -> Nat]
      BY <3>2
    <3> QED BY <3>3, <3>4 DEF Banks
  <2> QED BY <2>1, <2>2
<1>5. ASSUME NEW r \in V, NEW k \in 1..N
      PROVE  /\ one(r, k) \in V
             /\ \A f \in DOMAIN prog : f # g => one(r, k)[f] = r[f]
             /\ \A w \in W : one(r, k)[g][w] = IF w = params[k] THEN r[pc.fn][src[k]] ELSE r[g][w]
  <2> DEFINE v == r[pc.fn][src[k]]
             b == [r[g] EXCEPT ![params[k]] = v]
  <2>1. r[g] \in [W -> Nat] /\ v \in Nat /\ params[k] \in W
    BY <1>2, <1>3, <1>4
  <2>2. b \in [W -> Nat] /\ \A w \in W : b[w] = IF w = params[k] THEN v ELSE r[g][w]
    <3> HIDE DEF v, W, params
    <3> QED BY <2>1
  <2>3. one(r, k) = [r EXCEPT ![g] = b]
    BY DEF Banks
  <2>4. DOMAIN r = DOMAIN prog
    BY DEF Banks
  <2> HIDE DEF b, one, V
  <2>5. one(r, k) \in V
    BY <2>2, <2>3, <1>4
  <2>6. one(r, k)[g] = b /\ \A f \in DOMAIN prog : f # g => one(r, k)[f] = r[f]
    BY <2>3, <2>4
  <2> QED BY <2>2, <2>5, <2>6
<1> HIDE DEF V, one, params, N, W, W0
<1>6. PICK f \in [0..N -> V] : Iterates(f, reg, G, N)
  <2>1. G \in [(1..N) \X V -> V]
    BY <1>5
  <2>2. reg \in V
    BY DEF V
  <2>3. N \in Nat
    BY <1>2
  <2> HIDE DEF G
  <2> QED BY <2>1, <2>2, <2>3, BoundedRecursion
<1>7. \A k \in 1..N : k - 1 \in 0..N /\ k \in 0..N /\ f[k - 1] \in V /\ f[k] = one(f[k - 1], k)
  <2>1. \A k \in 1..N : k - 1 \in 0..N /\ k \in 0..N
    BY <1>2
  <2>2. ASSUME NEW k \in 1..N  PROVE f[k - 1] \in V /\ f[k] = one(f[k - 1], k)
    <3>1. f[k - 1] \in V /\ f[k] = G[<<k, f[k - 1]>>]
      <4> HIDE DEF G
      <4> QED BY <2>1, <1>6 DEF Iterates
    <3> QED BY <3>1
  <2> QED BY <2>1, <2>2
<1>8. Eq(f)
  <2>1. \A k \in 0..N : k = 0 \/ k \in 1..N
    BY <1>2
  <2>2. \A k \in 0..N : f[k] = IF k = 0 THEN reg ELSE one(f[k - 1], k)
    <3> HIDE DEF G
    <3> QED BY <2>1, <1>6, <1>7 DEF Iterates
  <2> HIDE DEF G
  <2> QED BY <2>2
<1>9. Eq(t)
  <2> HIDE DEF Eq
  <2> QED BY <1>8
<1>10. t[0] = reg /\ \A k \in 1..N : t[k] = one(t[k - 1], k)
  <2>1. \A k \in 0..N : t[k] = IF k = 0 THEN reg ELSE one(t[k - 1], k)
    <3> HIDE DEF t
    <3> QED BY <1>9
  <2>2. 0 \in 0..N /\ \A k \in 1..N : k \in 0..N /\ k # 0
    BY <1>2
  <2> HIDE DEF t
  <2> QED BY <2>1, <2>2
<1> HIDE DEF t, Eq, G
<1> DEFINE fine(k) == /\ t[k] \in V
                      /\ \A h \in DOMAIN prog : h # g => t[k][h] = reg[h]
                      /\ \A w \in W : (\A j \in 1..k : params[j] # w) => t[k][g][w] = reg[g][w]
                      /\ pc.fn # g \/ ~Clobbers(params, src) =>
                            \A j \in 1..k : t[k][g][params[j]] = reg[pc.fn][src[j]]
           U == {k \in Nat : k <= N => fine(k)}
<1>11. 0 \in U
  <2>1. reg \in V
    BY DEF V
  <2> QED BY <2>1, <1>10
<1>12. ASSUME NEW k \in Nat, k \in U  PROVE k + 1 \in U
  <2> SUFFICES ASSUME k + 1 <= N  PROVE fine(k + 1)
    OBVIOUS
  <2>1. k + 1 \in 1..N /\ k <= N /\ (k + 1) - 1 = k /\ \A j \in 1..(k + 1) : j = k + 1 \/ j \in 1..k
    BY <1>2
  <2>2. /\ t[k] \in V
        /\ \A h \in DOMAIN prog : h # g => t[k][h] = reg[h]
        /\ \A w \in W : (\A j \in 1..k : params[j] # w) => t[k][g][w] = reg[g][w]
        /\ pc.fn # g \/ ~Clobbers(params, src) => \A j \in 1..k : t[k][g][params[j]] = reg[pc.fn][src[j]]
    BY <2>1, <1>12
  <2>3. t[k + 1] = one(t[k], k + 1)
    BY <2>1, <1>10
  <2>4. /\ t[k + 1] \in V
        /\ \A h \in DOMAIN prog : h # g => t[k + 1][h] = t[k][h]
        /\ \A w \in W : t[k + 1][g][w] = IF w = params[k + 1] THEN t[k][pc.fn][src[k + 1]] ELSE t[k][g][w]
    BY <2>1, <2>2, <2>3, <1>5
  <2>5. \A h \in DOMAIN prog : h # g => t[k + 1][h] = reg[h]
    BY <2>2, <2>4
  <2>6. ASSUME NEW w \in W, \A j \in 1..(k + 1) : params[j] # w  PROVE t[k + 1][g][w] = reg[g][w]
    <3>1. w # params[k + 1] /\ \A j \in 1..k : params[j] # w
      BY <2>1, <2>6
    <3> QED BY <3>1, <2>2, <2>4
  <2>7. ASSUME pc.fn # g \/ ~Clobbers(params, src), NEW j \in 1..(k + 1)
        PROVE  t[k + 1][g][params[j]] = reg[pc.fn][src[j]]
    <3>1. /\ j \in 1..N /\ params[j] \in W /\ src[k + 1] \in W0
          /\ (j # k + 1 => j \in 1..k) /\ \A m \in 1..k : m \in 1..N
      <4>1. j \in 1..N /\ \A m \in 1..k : m \in 1..N
        BY <2>1, <1>2
      <4>2. params[j] \in W
        BY <4>1, <1>2, <1>3 DEF W
      <4>3. src[k + 1] \in W0
        BY <2>1, <1>3 DEF W0
      <4> QED BY <4>1, <4>2, <4>3, <2>1
    <3>2. CASE j # k + 1
      <4>1. params[j] # params[k + 1]
        BY <3>1, <3>2, <2>1, <1>2
      <4>2. t[k + 1][g][params[j]] = t[k][g][params[j]]
        BY <4>1, <3>1, <2>4
      <4> QED BY <4>2, <3>1, <3>2, <2>2, <2>7
    <3>3. CASE j = k + 1
      <4>1. t[k + 1][g][params[j]] = t[k][pc.fn][src[j]]
        BY <3>1, <3>3, <2>4
      <4>2. CASE pc.fn # g
        BY <4>1, <4>2, <2>2
      <4>3. CASE pc.fn = g
        <5>1. ~Clobbers(params, src) /\ src[j] \in W
          BY <4>3, <2>7, <3>1, <3>3 DEF W, W0
        <5>2. CASE \A m \in 1..k : params[m] # src[j]
          BY <5>1, <5>2, <4>1, <4>3, <2>2
        <5>3. CASE \E m \in 1..k : params[m] = src[j]
          <6>1. PICK m \in 1..k : params[m] = src[j]
            BY <5>3
          <6>2. src[m] = params[m]
            BY <5>1, <6>1, <3>1, <3>3, <1>2 DEF Clobbers
          <6>3. t[k][g][params[m]] = reg[pc.fn][src[m]]
            BY <2>2, <2>7
          <6> QED BY <6>1, <6>2, <6>3, <4>1, <4>3
        <5> QED BY <5>2, <5>3
      <4> QED BY <4>2, <4>3
    <3> QED BY <3>2, <3>3
  <2> QED BY <2>4, <2>5, <2>6, <2>7
<1>13. fine(N)
  <2>1. Nat \subseteq U
    <3> HIDE DEF U
    <3> QED BY <1>11, <1>12, NatInduct
  <2>2. N <= N
    BY <1>2
  <2> QED BY <2>1, <2>2, <1>2
<1>14. \A w \in W \ ToSet(params) : \A j \in 1..N : params[j] # w
  BY <1>3
<1>15. t[N] \in Banks(prog) /\ \A h \in DOMAIN prog : h # g => t[N][h] = reg[h]
  BY <1>13 DEF V
<1>16. \A w \in WordsOf(prog[g]) \ ToSet(prog[g].params) : t[N][g][w] = reg[g][w]
  BY <1>13, <1>14, Zenon DEF W, params
<1>17. pc.fn # g \/ ~Clobbers(prog[g].params, src) =>
          \A j \in DOMAIN src : t[N][g][prog[g].params[j]] = reg[pc.fn][src[j]]
  BY <1>13, <1>2 DEF params
<1> HIDE DEF fine
<1> QED BY <1>1, <1>15, <1>16, <1>17, Zenon

-----------------------------------------------------------------------------
(* The inductive invariant.  Frames end at the slots of B, each on another *)
(* of them down to slot 0, and the frame at slot 0 is the entry's.         *)
StackedOn(pr, stack, B, top) ==
    /\ B \subseteq 0..top /\ 0 \in B /\ top \in B
    /\ \A n \in B \ {0} :
          /\ EndsFrame(pr, stack, n) /\ FrameBase(pr, stack, n) \in B
          /\ stack[n - 1].fn = 1 <=> FrameBase(pr, stack, n) = 0
          /\ \A w \in DOMAIN FrameAt(pr, stack, n).env : FrameAt(pr, stack, n).env[w] \in Nat

(* The words of an activation that goes on are in the slots above Bottom.  *)
WordsHeld ==
    pc.stage = "cont" =>
        /\ RaSlot(Fn, pc.at) <= sp
        /\ \A w \in ToSet(Saved(Fn, pc.at)) : cs[Bottom + SlotOf(Saved(Fn, pc.at), w)] \in Nat

Typed ==
    /\ prog \in Programs /\ slots \in 1..SlotsCap /\ sp \in 0..slots
    /\ pc.fn \in DOMAIN prog /\ pc.at \in DOMAIN Fn.code /\ pc.stage \in Stages
    /\ pc.stage # "at" => IsCall(Current)
    /\ reg \in Banks(prog) /\ ret \in Nat
    /\ DOMAIN cs = 0..(SlotsCap - 1)
    /\ status \in {"run", "exit", "overflow", "unreachable"}

Nested ==
    /\ pc.fn = 1 <=> Bottom = 0
    /\ \E B \in SUBSET (0..Bottom) : StackedOn(prog, cs, B, Bottom)
    /\ status = "exit" => sp = 0

CallInv == Typed /\ Nested /\ WordsHeld

(* Below a slot, what is stacked there depends on the slots below only.    *)
LEMMA StackedSame ==
    ASSUME NEW pr, IsProgram(pr), NEW stack, NEW other, NEW top \in Nat, NEW B, StackedOn(pr, stack, B, top),
           \A i \in 0..(top - 1) : other[i] = stack[i]
    PROVE  StackedOn(pr, other, B, top)
<1>1. B \subseteq 0..top /\ 0 \in B /\ top \in B
  BY DEF StackedOn
<1>2. ASSUME NEW n \in B \ {0}
      PROVE  /\ EndsFrame(pr, other, n) /\ FrameBase(pr, other, n) \in B
             /\ other[n - 1].fn = 1 <=> FrameBase(pr, other, n) = 0
             /\ \A w \in DOMAIN FrameAt(pr, other, n).env : FrameAt(pr, other, n).env[w] \in Nat
  <2>1. n \in Nat \ {0} /\ n - 1 \in 0..(top - 1) /\ \A i \in 0..(n - 1) : i \in 0..(top - 1)
    <3>1. n \in 0..top /\ n # 0
      BY <1>1
    <3>2. n \in Nat \ {0} /\ n <= top
      BY <3>1
    <3> QED BY <3>2
  <2>2. \A i \in 0..(n - 1) : other[i] = stack[i]
    BY <2>1
  <2>3. /\ EndsFrame(pr, other, n) <=> EndsFrame(pr, stack, n)
        /\ FrameBase(pr, other, n) = FrameBase(pr, stack, n)
        /\ EndsFrame(pr, stack, n) => FrameAt(pr, other, n) = FrameAt(pr, stack, n)
    BY <2>1, <2>2, FrameSame
  <2>4. other[n - 1] = stack[n - 1]
    BY <2>1
  <2>5. /\ EndsFrame(pr, stack, n) /\ FrameBase(pr, stack, n) \in B
        /\ stack[n - 1].fn = 1 <=> FrameBase(pr, stack, n) = 0
        /\ \A w \in DOMAIN FrameAt(pr, stack, n).env : FrameAt(pr, stack, n).env[w] \in Nat
    BY Zenon DEF StackedOn
  <2> QED BY <2>3, <2>4, <2>5, Zenon
<1> QED BY <1>1, <1>2, Zenon DEF StackedOn

(* A frame on top of a stack, and the stack under its topmost frame. *)
LEMMA StackedPush ==
    ASSUME NEW pr, NEW stack, NEW top \in Nat, NEW n \in Nat, NEW B, StackedOn(pr, stack, B, top), top < n,
           EndsFrame(pr, stack, n), FrameBase(pr, stack, n) = top, stack[n - 1].fn = 1 <=> top = 0,
           \A w \in DOMAIN FrameAt(pr, stack, n).env : FrameAt(pr, stack, n).env[w] \in Nat
    PROVE  StackedOn(pr, stack, B \cup {n}, n)
<1>1. B \subseteq 0..top /\ 0 \in B /\ top \in B
  BY DEF StackedOn
<1>2. B \cup {n} \subseteq 0..n
  BY <1>1
<1>3. ASSUME NEW m \in (B \cup {n}) \ {0}
      PROVE  /\ EndsFrame(pr, stack, m) /\ FrameBase(pr, stack, m) \in B \cup {n}
             /\ stack[m - 1].fn = 1 <=> FrameBase(pr, stack, m) = 0
             /\ \A w \in DOMAIN FrameAt(pr, stack, m).env : FrameAt(pr, stack, m).env[w] \in Nat
  <2>1. CASE m = n
    BY <2>1, <1>1, Zenon
  <2>2. CASE m # n
    <3>1. m \in B \ {0}
      BY <2>2
    <3> QED BY <3>1, Zenon DEF StackedOn
  <2> QED BY <2>1, <2>2
<1> QED BY <1>1, <1>2, <1>3, Zenon DEF StackedOn

LEMMA StackedPop ==
    ASSUME NEW pr, IsProgram(pr), NEW stack, NEW n \in Nat \ {0}, NEW B, StackedOn(pr, stack, B, n)
    PROVE  LET base == FrameBase(pr, stack, n)
           IN  /\ EndsFrame(pr, stack, n) /\ base \in 0..(n - 1)
               /\ stack[n - 1].fn = 1 <=> base = 0
               /\ \A w \in DOMAIN FrameAt(pr, stack, n).env : FrameAt(pr, stack, n).env[w] \in Nat
               /\ StackedOn(pr, stack, B \cap (0..base), base)
<1> DEFINE base == FrameBase(pr, stack, n)
<1>1. B \subseteq 0..n /\ 0 \in B /\ n \in B
  BY DEF StackedOn
<1>2. /\ EndsFrame(pr, stack, n) /\ base \in B
      /\ stack[n - 1].fn = 1 <=> base = 0
      /\ \A w \in DOMAIN FrameAt(pr, stack, n).env : FrameAt(pr, stack, n).env[w] \in Nat
  BY <1>1, Zenon DEF StackedOn
<1>3. base \in 0..(n - 1)
  BY <1>2, FrameFacts
<1>4. ASSUME NEW m \in (B \cap (0..base)) \ {0}
      PROVE  /\ EndsFrame(pr, stack, m) /\ FrameBase(pr, stack, m) \in B \cap (0..base)
             /\ stack[m - 1].fn = 1 <=> FrameBase(pr, stack, m) = 0
             /\ \A w \in DOMAIN FrameAt(pr, stack, m).env : FrameAt(pr, stack, m).env[w] \in Nat
  <2>1. /\ EndsFrame(pr, stack, m) /\ FrameBase(pr, stack, m) \in B
        /\ stack[m - 1].fn = 1 <=> FrameBase(pr, stack, m) = 0
        /\ \A w \in DOMAIN FrameAt(pr, stack, m).env : FrameAt(pr, stack, m).env[w] \in Nat
    BY Zenon DEF StackedOn
  <2>2. m \in Nat /\ m <= base
    BY <1>3
  <2>3. FrameBase(pr, stack, m) \in 0..(m - 1)
    BY <2>1, <2>2, FrameFacts
  <2>4. FrameBase(pr, stack, m) \in 0..base
    <3> HIDE DEF base
    <3> QED BY <2>2, <2>3, <1>3
  <2> QED BY <2>1, <2>4
<1>5. 0 \in B \cap (0..base) /\ base \in B \cap (0..base)
  <2> HIDE DEF base
  <2> QED BY <1>1, <1>2, <1>3
<1>6. B \cap (0..base) \subseteq 0..base
  OBVIOUS
<1>7. StackedOn(pr, stack, B \cap (0..base), base)
  <2> HIDE DEF base
  <2> QED BY <1>4, <1>5, <1>6, Zenon DEF StackedOn
<1> QED BY <1>2, <1>3, <1>7

-----------------------------------------------------------------------------
(* What calls enter. *)

(* The arguments of a call are words it reads. *)
LEMMA ArgsFacts ==
    ASSUME NEW pr, NEW i, IsInstruction(pr, i), IsCall(i) \/ IsTail(i)
    PROVE  /\ IsSequence(Args(i)) /\ DOMAIN Args(i) = 1..Len(Args(i)) /\ Len(Args(i)) \in Nat
           /\ \A j \in DOMAIN Args(i) : j \in DOMAIN i.src /\ Args(i)[j] = i.src[j]
           /\ ToSet(Args(i)) \subseteq Reads(i)
           /\ Indirect(i) => Len(Args(i)) = i.arg /\ Last(i.src) \in Reads(i)
           /\ ~Indirect(i) => Len(Args(i)) = Len(pr[i.arg].params) /\ i.arg \in Callees(pr)
<1>1. IsSequence(i.src) /\ Len(i.src) \in Nat /\ DOMAIN i.src = 1..Len(i.src)
  BY ListedFinite DEF IsInstruction
<1>2. i.src \in Seq(ToSet(i.src))
  <2>1. \A j \in 1..Len(i.src) : i.src[j] \in ToSet(i.src)
    BY <1>1 DEF ToSet
  <2>2. [j \in 1..Len(i.src) |-> i.src[j]] \in Seq(ToSet(i.src))
    BY <2>1, <1>1
  <2> QED BY <2>2, <1>1, Zenon DEF IsSequence
<1>3. CASE Indirect(i)
  <2>1. i.arg \in Nat /\ Len(i.src) = i.arg + 1
    BY <1>3 DEF IsInstruction
  <2>2. Args(i) = SubSeq(i.src, 1, i.arg)
    BY <1>3, <2>1 DEF Args, Front
  <2>3. /\ Args(i) \in Seq(ToSet(i.src)) /\ Len(Args(i)) = i.arg /\ DOMAIN Args(i) = 1..i.arg
        /\ \A j \in 1..i.arg : Args(i)[j] = i.src[j] /\ j \in 1..Len(i.src)
    <3> DEFINE S == ToSet(i.src)
               s == i.src
               n == i.arg
    <3>1. s \in Seq(S) /\ n \in Nat /\ Len(s) = n + 1
      BY <2>1, <1>2
    <3> HIDE DEF S, s, n
    <3>2. SubSeq(s, 1, n) \in Seq(S)
      BY <3>1
    <3>3. Len(SubSeq(s, 1, n)) = n /\ DOMAIN SubSeq(s, 1, n) = 1..n
      BY <3>1
    <3>4. \A j \in 1..n : SubSeq(s, 1, n)[j] = s[j] /\ j \in 1..Len(s)
      BY <3>1
    <3> QED BY <3>2, <3>3, <3>4, <2>2 DEF S, s, n
  <2>4. Args(i) = [j \in 1..Len(Args(i)) |-> Args(i)[j]]
    BY <2>3
  <2>5. Last(i.src) \in ToSet(i.src)
    BY <2>1, <1>1 DEF Last, ToSet
  <2>6. ToSet(Args(i)) \subseteq ToSet(i.src)
    BY <2>3, <1>1 DEF ToSet
  <2> QED BY <1>1, <1>3, <2>1, <2>3, <2>4, <2>5, <2>6 DEF IsSequence, Reads
<1>4. CASE ~Indirect(i)
  <2>1. i.op \in {"Call", "Tail"} /\ Args(i) = i.src
    BY <1>4 DEF IsCall, IsTail, Indirect, Args
  <2>2. i.arg \in Callees(pr) /\ Len(i.src) = Len(pr[i.arg].params)
    BY <2>1 DEF IsInstruction
  <2> QED BY <1>1, <1>4, <2>1, <2>2 DEF Reads
<1> QED BY <1>3, <1>4

(* The high bytes tell an index that is no byte from one that is. *)
LEMMA IndexFacts ==
    ASSUME NEW v \in Nat
    PROVE  IF HighBytes(v) THEN v >= Len(Table) ELSE v % BYTE = v
<1>1. BYTE \in Nat \ {0} /\ Len(Table) \in 0..BYTE
  BY TableAssumption
<1> DEFINE q == v \div BYTE
           r == v % BYTE
<1>2. q \in Nat /\ r \in 0..(BYTE - 1) /\ v = BYTE * q + r
  BY <1>1, Z3
<1> HIDE DEF q, r
<1>3. CASE q = 0
  BY <1>1, <1>2, <1>3 DEF HighBytes, q, r
<1>4. CASE q # 0
  <2>1. BYTE * q >= BYTE
    <3>1. PICK m \in Nat : q = m + 1
      BY <1>2, <1>4
    <3>2. BYTE * q = BYTE * m + BYTE /\ BYTE * m \in Nat
      BY <3>1, <1>1, Z3
    <3> QED BY <3>2, <1>1
  <2> QED BY <1>1, <1>2, <1>4, <2>1 DEF HighBytes, q
<1> QED BY <1>3, <1>4

(* The operators on programs mean the same in Activations. *)
LEMMA SameWords ==
    /\ \A fn : Abstract!WordsOf(fn) = WordsOf(fn)
    /\ \A fn, k : Abstract!Needed(fn, k) = Needed(fn, k)
    /\ \A i, e : Abstract!Compute(i, e) = Compute(i, e)
    /\ \A i, k, e : Abstract!Goes(i, k, e) = Goes(i, k, e)
<1>1. \A fn : Abstract!WordsOf(fn) = WordsOf(fn)
  BY Zenon DEF Abstract!WordsOf, WordsOf, Abstract!Reads, Abstract!Writes, Reads, Writes, Abstract!ToSet, ToSet,
               Abstract!NoWord, NoWord
<1>2. \A fn, k : Abstract!Needed(fn, k) = Needed(fn, k)
  BY <1>1, Zenon DEF Abstract!Needed, Needed, Abstract!Reached, Reached, Abstract!Reads, Abstract!Writes, Reads, Writes,
               Abstract!ToSet, ToSet, Abstract!Successors, Successors, Abstract!NoWord, NoWord
<1>3. \A i, e : Abstract!Compute(i, e) = Compute(i, e)
  BY Zenon DEF Abstract!Compute, Compute
<1>4. \A i, k, e : Abstract!Goes(i, k, e) = Goes(i, k, e)
  BY Zenon DEF Abstract!Goes, Goes
<1> QED BY <1>1, <1>2, <1>3, <1>4

LEMMA SameCalls ==
    /\ \A i : Abstract!Indirect(i) = Indirect(i)
    /\ \A i : Abstract!IsCall(i) = IsCall(i)
    /\ \A i : Abstract!IsTail(i) = IsTail(i)
    /\ \A i : Abstract!IsLocalStep(i) = IsLocalStep(i)
    /\ \A i : Abstract!Args(i) = Args(i)
    /\ \A kind, fn : Abstract!Entry(kind, fn) = Entry(kind, fn)
    /\ Abstract!Trap = Trap
    /\ \A pr, e, n : Abstract!Resolve(pr, e, n) = Resolve(pr, e, n)
    /\ \A s : Abstract!Last(s) = Last(s) /\ Abstract!Front(s) = Front(s)
<1>1. /\ \A i : Abstract!Indirect(i) = Indirect(i)
      /\ \A i : Abstract!IsCall(i) = IsCall(i)
      /\ \A i : Abstract!IsTail(i) = IsTail(i)
      /\ \A i : Abstract!IsLocalStep(i) = IsLocalStep(i)
  BY Zenon DEF Abstract!Indirect, Indirect, Abstract!IsCall, IsCall, Abstract!IsTail, IsTail,
               Abstract!IsLocalStep, IsLocalStep
<1>2. \A s : Abstract!Last(s) = Last(s) /\ Abstract!Front(s) = Front(s)
  BY Zenon DEF Abstract!Last, Last, Abstract!Front, Front
<1>3. \A i : Abstract!Args(i) = Args(i)
  BY <1>1, <1>2, Zenon DEF Abstract!Args, Args
<1>4. (\A kind, fn : Abstract!Entry(kind, fn) = Entry(kind, fn)) /\ Abstract!Trap = Trap
  BY Zenon DEF Abstract!Entry, Entry, Abstract!Trap, Trap
<1>5. \A pr, e, n : Abstract!Resolve(pr, e, n) = Resolve(pr, e, n)
  BY <1>4, Zenon DEF Abstract!Resolve, Resolve
<1> QED BY <1>1, <1>2, <1>3, <1>4, <1>5

(* What the program, its function and its instruction are. *)
LEMMA HereFacts ==
    ASSUME Typed
    PROVE  /\ IsProgram(prog) /\ SlotsFor(prog) \in 1..SlotsCap /\ SlotsCap \in Nat \ {0}
           /\ IsFunction(prog, Fn) /\ JumpsInside(Fn) /\ IsInstruction(prog, Current)
           /\ reg[pc.fn] \in [WordsOf(Fn) -> Nat]
           /\ pc.at \in Nat /\ slots \in Nat /\ sp \in Nat
<1>1. IsProgram(prog) /\ SlotsFor(prog) \in 1..SlotsCap /\ SlotsCap \in Nat \ {0}
  BY ProgramsAssumption DEF Typed
<1>2. pc.fn \in DOMAIN prog /\ pc.at \in DOMAIN Fn.code
  BY DEF Typed
<1>3. IsFunction(prog, Fn) /\ JumpsInside(Fn) /\ IsInstruction(prog, Current) /\ pc.at \in Nat
  BY <1>1, <1>2, FunctionFacts DEF Fn, Current
<1>4. reg[pc.fn] \in [WordsOf(Fn) -> Nat]
  BY <1>2 DEF Typed, Banks, Fn
<1>5. slots \in Nat /\ sp \in Nat
  BY <1>1 DEF Typed
<1> QED BY <1>1, <1>3, <1>4, <1>5

(* What a call enters takes its arguments; the machine, which looks at the *)
(* low byte of an index and then at the others, enters what the index says. *)
LEMMA CalleeFacts ==
    ASSUME Typed, IsCall(Current) \/ IsTail(Current)
    PROVE  /\ \A env : (Indirect(Current) => env[Last(Current.src)] = reg[pc.fn][Last(Current.src)])
                       => Abstract!Target(Current, env) = Callee
           /\ Callee.kind = "fn" =>
                 /\ Callee.fn \in Callees(prog)
                 /\ Len(Args(Current)) = Len(prog[Callee.fn].params)
                 /\ Callee.fn = pc.fn => CallsItself(prog, pc.fn, Current)
           /\ Callee.kind = "putchar" => Len(Args(Current)) = 1
           /\ Callee.kind # "fn" => Indirect(Current)
<1>1. /\ IsProgram(prog) /\ IsFunction(prog, Fn) /\ IsInstruction(prog, Current)
      /\ reg[pc.fn] \in [WordsOf(Fn) -> Nat] /\ pc.at \in DOMAIN Fn.code
  BY HereFacts DEF Typed
<1>2. /\ Indirect(Current) => Len(Args(Current)) = Current.arg /\ Last(Current.src) \in Reads(Current)
      /\ ~Indirect(Current) => Len(Args(Current)) = Len(prog[Current.arg].params) /\ Current.arg \in Callees(prog)
  BY <1>1, ArgsFacts
<1>3. Reads(Current) \subseteq WordsOf(Fn)
  BY <1>1, WordFacts DEF Current
<1>4. CASE ~Indirect(Current)
  <2>1. Callee = Entry("fn", Current.arg) /\ \A env : Abstract!Target(Current, env) = Entry("fn", Current.arg)
    BY <1>4, SameCalls, Zenon DEF Callee, Abstract!Target
  <2>2. Callee.kind = "fn" /\ Callee.fn = Current.arg
    BY <2>1 DEF Entry
  <2>3. Current.op \in {"Call", "Tail"}
    BY <1>4 DEF IsCall, IsTail, Indirect
  <2>4. Callee.fn = pc.fn => CallsItself(prog, pc.fn, Current)
    BY <2>2, <2>3 DEF CallsItself
  <2> QED BY <1>2, <1>4, <2>1, <2>2, <2>4
<1>5. CASE Indirect(Current)
  <2> DEFINE v == reg[pc.fn][Last(Current.src)]
             n == Current.arg
  <2>1. v \in Nat
    BY <1>1, <1>2, <1>3, <1>5
  <2>2. Callee = IF HighBytes(v) THEN Trap ELSE Case(v, n)
    BY <1>5 DEF Callee
  <2>3. \A env : env[Last(Current.src)] = v =>
            Abstract!Target(Current, env) = IF v < Len(Table) THEN Resolve(prog, Table[v + 1], n) ELSE Trap
    BY <1>5, SameCalls, Zenon DEF Abstract!Target
  <2>4. IF HighBytes(v) THEN v >= Len(Table) ELSE v % BYTE = v
    BY <2>1, IndexFacts
  <2>5. Len(Table) \in Nat /\ DOMAIN Table = 1..Len(Table)
    <3>1. BYTE \in Nat /\ Len(Table) \in 0..BYTE /\ Table = [k \in 1..Len(Table) |-> Table[k]]
      BY TableAssumption
    <3>2. DOMAIN [k \in 1..Len(Table) |-> Table[k]] = 1..Len(Table)
      OBVIOUS
    <3>3. Len(Table) \in Nat
      BY <3>1
    <3> QED BY <3>1, <3>2, <3>3, Zenon
  <2> HIDE DEF v, n
  <2>6. Callee = IF v < Len(Table) THEN Resolve(prog, Table[v + 1], n) ELSE Trap
    <3>1. CASE HighBytes(v)
      <4>1. ~(v < Len(Table))
        BY <3>1, <2>1, <2>4, <2>5
      <4> QED BY <3>1, <4>1, <2>2, Zenon
    <3>2. CASE ~HighBytes(v)
      <4>1. v % BYTE = v
        BY <3>2, <2>4
      <4>2. Callee = Case(v, n)
        BY <3>2, <2>2
      <4> QED BY <4>1, <4>2, Zenon DEF Case
    <3> QED BY <3>1, <3>2
  <2>7. \A env : env[Last(Current.src)] = v => Abstract!Target(Current, env) = Callee
    BY <2>3, <2>6, Zenon
  <2>8. CASE ~(v < Len(Table))
    <3>1. Callee.kind = "null"
      BY <2>6, <2>8 DEF Trap, Entry
    <3> QED BY <3>1, <2>7, <1>5 DEF v
  <2>9. CASE v < Len(Table)
    <3> DEFINE e == Table[v + 1]
    <3>1. v + 1 \in DOMAIN Table
      BY <2>1, <2>5, <2>9
    <3>2. Callee = Resolve(prog, e, n)
      BY <2>6, <2>9
    <3>3. e.kind = "fn" => e.fn \in Callees(prog)
      BY <3>1, <1>1 DEF IsProgram
    <3>4. CASE e.kind = "fn" /\ Len(prog[e.fn].params) = n
      <4>1. Callee = e
        BY <3>2, <3>4 DEF Resolve
      <4>2. Callee.fn = pc.fn => CallsItself(prog, pc.fn, Current)
        BY <4>1, <3>1, <3>4, <1>5 DEF CallsItself, n
      <4> HIDE DEF e
      <4> QED BY <4>1, <4>2, <3>3, <3>4, <2>7, <1>2, <1>5 DEF v, n
    <3>5. CASE e.kind = "putchar" /\ n = 1
      <4>1. Callee = e
        BY <3>2, <3>5 DEF Resolve
      <4> HIDE DEF e
      <4> QED BY <4>1, <3>5, <2>7, <1>2, <1>5 DEF v, n
    <3>6. CASE ~(e.kind = "fn" /\ Len(prog[e.fn].params) = n) /\ ~(e.kind = "putchar" /\ n = 1)
      <4>1. Callee.kind # "fn" /\ Callee.kind # "putchar"
        BY <3>2, <3>6 DEF Resolve, Trap, Entry
      <4> QED BY <4>1, <2>7, <1>5 DEF v
    <3> HIDE DEF e
    <3> QED BY <3>4, <3>5, <3>6
  <2> QED BY <2>8, <2>9
<1> QED BY <1>4, <1>5

-----------------------------------------------------------------------------
(* What the kinds of steps do to the invariant. *)

(* A bank with other words for one function, or for one word of it. *)
LEMMA BankFacts ==
    ASSUME NEW pr, NEW r \in Banks(pr), NEW f \in DOMAIN pr
    PROVE  /\ \A b \in [WordsOf(pr[f]) -> Nat] :
                 [r EXCEPT ![f] = b] \in Banks(pr) /\ [r EXCEPT ![f] = b][f] = b
           /\ \A w \in WordsOf(pr[f]), v \in Nat :
                 /\ [r EXCEPT ![f][w] = v] \in Banks(pr)
                 /\ [r EXCEPT ![f][w] = v][f] = [r[f] EXCEPT ![w] = v]
<1> DEFINE W == WordsOf(pr[f])
           U == UNION {[WordsOf(pr[h]) -> Nat] : h \in DOMAIN pr}
<1>1. r \in [DOMAIN pr -> U] /\ \A h \in DOMAIN pr : r[h] \in [WordsOf(pr[h]) -> Nat]
  BY DEF Banks
<1>2. ASSUME NEW b \in [W -> Nat]  PROVE [r EXCEPT ![f] = b] \in Banks(pr) /\ [r EXCEPT ![f] = b][f] = b
  <2>1. b \in U
    OBVIOUS
  <2>2. [r EXCEPT ![f] = b] \in [DOMAIN pr -> U] /\ [r EXCEPT ![f] = b][f] = b
    <3> HIDE DEF U
    <3> QED BY <1>1, <2>1
  <2>3. \A h \in DOMAIN pr : [r EXCEPT ![f] = b][h] \in [WordsOf(pr[h]) -> Nat]
    BY <1>1
  <2> QED BY <2>2, <2>3 DEF Banks
<1>3. ASSUME NEW w \in W, NEW v \in Nat
      PROVE  /\ [r EXCEPT ![f][w] = v] \in Banks(pr)
             /\ [r EXCEPT ![f][w] = v][f] = [r[f] EXCEPT ![w] = v]
  <2> DEFINE b == [r[f] EXCEPT ![w] = v]
  <2>1. r[f] \in [W -> Nat]
    BY <1>1
  <2>2. b \in [W -> Nat]
    <3> HIDE DEF W
    <3> QED BY <2>1
  <2>3. [r EXCEPT ![f][w] = v] = [r EXCEPT ![f] = b]
    BY Zenon
  <2> HIDE DEF b, W
  <2>4. [r EXCEPT ![f] = b] \in Banks(pr) /\ [r EXCEPT ![f] = b][f] = b
    BY <2>2, <1>2
  <2> QED BY <2>3, <2>4, Zenon DEF b
<1> QED BY <1>2, <1>3

(* Where the stack stays, the frames on it stay. *)
LEMMA StayNested ==
    ASSUME Nested, prog' = prog, cs' = cs, Bottom' = Bottom, pc'.fn = 1 <=> pc.fn = 1,
           status' = "exit" => sp' = 0
    PROVE  Nested'
<1>1. PICK B \in SUBSET (0..Bottom) : StackedOn(prog, cs, B, Bottom)
  BY DEF Nested
<1>2. pc.fn = 1 <=> Bottom = 0
  BY DEF Nested
<1>3. StackedOn(prog', cs', B, Bottom') /\ B \in SUBSET (0..Bottom')
  BY <1>1
<1> QED BY <1>2, <1>3, Zenon DEF Nested

(* The frame on which a function other than the entry returns. *)
LEMMA PopFacts ==
    ASSUME Typed, Nested, pc.stage = "at", pc.fn # 1
    PROVE  LET ra   == cs[sp - 1]
               base == FrameBase(prog, cs, sp)
           IN  /\ sp \in 1..SlotsCap /\ Bottom = sp
               /\ EndsFrame(prog, cs, sp) /\ base \in 0..(sp - 1)
               /\ ra.fn \in DOMAIN prog /\ ra.at \in DOMAIN prog[ra.fn].code /\ ra.stage = "cont"
               /\ IsCall(prog[ra.fn].code[ra.at])
               /\ RaSlot(prog[ra.fn], ra.at) <= sp - 1
               /\ (sp - 1) - RaSlot(prog[ra.fn], ra.at) = base
               /\ ra.fn = 1 <=> base = 0
               /\ \E B \in SUBSET (0..base) : StackedOn(prog, cs, B, base)
               /\ \A w \in ToSet(Saved(prog[ra.fn], ra.at)) :
                     /\ cs[base + SlotOf(Saved(prog[ra.fn], ra.at), w)] \in Nat
                     /\ FrameAt(prog, cs, sp).env[w] = cs[base + SlotOf(Saved(prog[ra.fn], ra.at), w)]
<1> DEFINE ra   == cs[sp - 1]
           base == FrameBase(prog, cs, sp)
           s == Saved(prog[ra.fn], ra.at)
<1>1. IsProgram(prog) /\ SlotsCap \in Nat /\ slots \in Nat /\ sp \in Nat /\ sp <= slots /\ slots <= SlotsCap
  BY HereFacts DEF Typed
<1>2. Bottom = sp /\ sp # 0
  BY DEF Nested, Bottom
<1>3. sp \in Nat \ {0} /\ sp \in 1..SlotsCap
  BY <1>1, <1>2
<1>4. PICK B \in SUBSET (0..sp) : StackedOn(prog, cs, B, sp)
  BY <1>2, Zenon DEF Nested
<1>5. /\ EndsFrame(prog, cs, sp) /\ base \in 0..(sp - 1)
      /\ ra.fn = 1 <=> base = 0
      /\ \A w \in DOMAIN FrameAt(prog, cs, sp).env : FrameAt(prog, cs, sp).env[w] \in Nat
      /\ StackedOn(prog, cs, B \cap (0..base), base)
  BY <1>1, <1>3, <1>4, StackedPop
<1>6. IsReturnPc(prog, ra)
  BY <1>5 DEF EndsFrame
<1>7. sp = base + 2 * Len(s) + 1 /\ Len(s) \in Nat
  BY <1>1, <1>5, FrameFacts
<1>8. ra.fn \in DOMAIN prog /\ ra.at \in DOMAIN prog[ra.fn].code /\ IsCall(prog[ra.fn].code[ra.at])
  BY <1>6, Zenon DEF IsReturnPc
<1>9. ra.stage = "cont"
  <2>1. ra = Cont(ra.fn, ra.at)
    BY <1>6, Zenon DEF IsReturnPc
  <2>2. \A f, k : Cont(f, k).stage = "cont"
    BY DEF Cont
  <2> HIDE DEF ra
  <2> QED BY <2>1, <2>2, Zenon
<1>10. RaSlot(prog[ra.fn], ra.at) = 2 * Len(s)
  BY DEF RaSlot, WORD_SLOTS
<1>11. FrameAt(prog, cs, sp).env = [w \in ToSet(s) |-> cs[base + SlotOf(s, w)]]
  BY DEF FrameAt
<1> HIDE DEF s, base, ra
<1>12. \A w \in ToSet(s) : cs[base + SlotOf(s, w)] \in Nat /\ FrameAt(prog, cs, sp).env[w] = cs[base + SlotOf(s, w)]
  BY <1>5, <1>11
<1>13. RaSlot(prog[ra.fn], ra.at) <= sp - 1 /\ (sp - 1) - RaSlot(prog[ra.fn], ra.at) = base
  BY <1>1, <1>5, <1>7, <1>10
<1>14. B \cap (0..base) \in SUBSET (0..base)
  OBVIOUS
<1> QED BY <1>2, <1>3, <1>5, <1>8, <1>9, <1>12, <1>13, <1>14, Zenon DEF s, base, ra

(* The words of an activation that goes on after its call. *)
LEMMA RestoredFacts ==
    ASSUME Typed, WordsHeld, pc.stage = "cont"
    PROVE  LET s == Saved(Fn, pc.at)
               e == Restored(s, sp - RaSlot(Fn, pc.at))
           IN  /\ e \in [WordsOf(Fn) -> Nat]
               /\ \A w \in ToSet(s) : e[w] = cs[Bottom + SlotOf(s, w)]
               /\ Bottom = sp - RaSlot(Fn, pc.at) /\ Bottom \in 0..sp
<1> DEFINE s == Saved(Fn, pc.at)
           base == sp - RaSlot(Fn, pc.at)
           e == Restored(s, base)
<1>1. /\ IsProgram(prog) /\ IsFunction(prog, Fn) /\ reg[pc.fn] \in [WordsOf(Fn) -> Nat]
      /\ pc.at \in DOMAIN Fn.code /\ IsCall(Fn.code[pc.at]) /\ sp \in Nat
  BY HereFacts DEF Typed, Current
<1>2. Bottom = base
  BY DEF Bottom
<1>3. Len(s) \in Nat /\ ToSet(s) \subseteq WordsOf(Fn)
  BY <1>1, SavedFacts
<1>4. \A w \in ToSet(s) : cs[base + SlotOf(s, w)] \in Nat
  BY <1>2, Zenon DEF WordsHeld
<1>5. base \in 0..sp
  <2>1. RaSlot(Fn, pc.at) = 2 * Len(s)
    BY DEF RaSlot, WORD_SLOTS
  <2>2. RaSlot(Fn, pc.at) <= sp
    BY DEF WordsHeld
  <2> HIDE DEF s
  <2> QED BY <1>1, <1>3, <2>1, <2>2
<1> HIDE DEF s, base
<1>6. e = [w \in WordsOf(Fn) |-> IF w \in ToSet(s) THEN cs[base + SlotOf(s, w)] ELSE reg[pc.fn][w]]
  <2>1. DOMAIN reg[pc.fn] = WordsOf(Fn)
    BY <1>1
  <2> QED BY <2>1, Zenon DEF Restored
<1> HIDE DEF e
<1>7. e \in [WordsOf(Fn) -> Nat] /\ \A w \in ToSet(s) : e[w] = cs[base + SlotOf(s, w)]
  BY <1>1, <1>3, <1>4, <1>6
<1> QED BY <1>2, <1>5, <1>7, Zenon DEF s, base, e

(* What a function that is entered starts with. *)
LEMMA EnterFacts ==
    ASSUME Typed, Enters({"fn"})
    PROVE  LET g == Callee.fn
               src == Args(Current)
               r == CopyArgs(g, src)
           IN  /\ g \in DOMAIN prog /\ g # 1 /\ 1 \in DOMAIN prog[g].code
               /\ r \in Banks(prog)
               /\ DOMAIN prog[g].params = DOMAIN src
               /\ \A j \in DOMAIN src : src[j] \in Reads(Current)
               /\ ArgumentsApart(prog) => \A j \in DOMAIN src : r[g][prog[g].params[j]] = reg[pc.fn][src[j]]
<1> DEFINE g == Callee.fn
           src == Args(Current)
           r == CopyArgs(g, src)
<1>1. IsCall(Current) \/ IsTail(Current)
  BY DEF Enters
<1>2. /\ IsProgram(prog) /\ IsFunction(prog, Fn) /\ IsInstruction(prog, Current)
      /\ pc.fn \in DOMAIN prog /\ pc.at \in DOMAIN Fn.code /\ reg \in Banks(prog)
  BY HereFacts DEF Typed
<1>3. /\ g \in Callees(prog) /\ Len(src) = Len(prog[g].params)
      /\ g = pc.fn => CallsItself(prog, pc.fn, Current)
  <2>1. Callee.kind = "fn"
    BY DEF Enters
  <2> QED BY <1>1, <2>1, CalleeFacts
<1>4. IsSequence(src) /\ DOMAIN src = 1..Len(src) /\ ToSet(src) \subseteq Reads(Current)
  BY <1>1, <1>2, ArgsFacts
<1>5. g \in DOMAIN prog /\ g # 1
  BY <1>3 DEF Callees
<1>6. 1 \in DOMAIN prog[g].code /\ IsFunction(prog, prog[g])
  BY <1>2, <1>5, FunctionFacts
<1>7. DOMAIN prog[g].params = DOMAIN src
  <2>1. IsSequence(prog[g].params)
    BY <1>6 DEF IsFunction
  <2> HIDE DEF src, g
  <2> QED BY <2>1, <1>3, <1>4, ListedFinite
<1>8. ToSet(src) \subseteq WordsOf(prog[pc.fn])
  <2>1. Reads(Current) \subseteq WordsOf(Fn)
    BY <1>2, WordFacts DEF Current
  <2> HIDE DEF src
  <2> QED BY <2>1, <1>4 DEF Fn
<1>9. /\ r \in Banks(prog)
      /\ pc.fn # g \/ ~Clobbers(prog[g].params, src) =>
             \A j \in DOMAIN src : r[g][prog[g].params[j]] = reg[pc.fn][src[j]]
  <2> HIDE DEF src, g
  <2> QED BY <1>2, <1>3, <1>4, <1>5, <1>8, CopyFacts DEF r
<1>10. ASSUME ArgumentsApart(prog)  PROVE pc.fn # g \/ ~Clobbers(prog[g].params, src)
  <2>1. CallsItself(prog, pc.fn, prog[pc.fn].code[pc.at]) => ~Clobbers(prog[pc.fn].params, Args(prog[pc.fn].code[pc.at]))
    BY <1>2, <1>10 DEF ArgumentsApart, Fn
  <2>2. CallsItself(prog, pc.fn, Current) => ~Clobbers(prog[pc.fn].params, src)
    BY <2>1 DEF Current, Fn
  <2> HIDE DEF src, g
  <2> QED BY <1>3, <2>2
<1>11. \A j \in DOMAIN src : src[j] \in Reads(Current)
  <2> HIDE DEF src
  <2> QED BY <1>4 DEF ToSet
<1> QED BY <1>5, <1>6, <1>7, <1>9, <1>10, <1>11, Zenon

(* The copies that a stalled tick makes leave the words needed alone. *)
LEMMA StallFacts ==
    ASSUME Typed, Current.op = "Key", Fn.code[pc.at + 1].op = "Tail"
    PROVE  LET t == Fn.code[pc.at + 1]
               r == CopyArgs(t.arg, t.src)
           IN  /\ r \in Banks(prog)
               /\ ArgumentsApart(prog) => \A w \in Needed(Fn, pc.at) : r[pc.fn][w] = reg[pc.fn][w]
<1> DEFINE t == Fn.code[pc.at + 1]
           g == t.arg
           src == t.src
           params == prog[g].params
           r == CopyArgs(g, src)
<1>1. /\ IsProgram(prog) /\ IsFunction(prog, Fn) /\ JumpsInside(Fn) /\ IsInstruction(prog, Current)
      /\ pc.fn \in DOMAIN prog /\ pc.at \in DOMAIN Fn.code /\ reg \in Banks(prog)
      /\ reg[pc.fn] \in [WordsOf(Fn) -> Nat]
  BY HereFacts DEF Typed
<1>2. Successors(Current, pc.at) = {pc.at + 1} /\ pc.at + 1 \in DOMAIN Fn.code
  BY <1>1, NextFacts DEF Current
<1>3. IsInstruction(prog, t)
  BY <1>1, <1>2, FunctionFacts DEF Fn
<1>4. /\ IsSequence(src) /\ Len(src) = Len(params) /\ g \in Callees(prog) /\ Args(t) = src
      /\ IsTail(t) /\ ~Indirect(t)
  BY <1>3 DEF IsInstruction, Args, Indirect, IsTail
<1>5. g \in DOMAIN prog /\ ToSet(src) = Reads(t)
  BY <1>4 DEF Callees, Reads
<1>6. Reads(t) \subseteq WordsOf(Fn) /\ Writes(t) = {}
  BY <1>1, <1>2, WordFacts DEF Results
<1>7. DOMAIN src = 1..Len(src) /\ DOMAIN params = DOMAIN src
  <2>1. IsSequence(params)
    BY <1>1, <1>5, FunctionFacts DEF IsFunction
  <2> HIDE DEF src, params
  <2> QED BY <2>1, <1>4, ListedFinite
<1>8. /\ r \in Banks(prog)
      /\ \A f \in DOMAIN prog : f # g => r[f] = reg[f]
      /\ \A w \in WordsOf(prog[g]) \ ToSet(params) : r[g][w] = reg[g][w]
      /\ pc.fn # g \/ ~Clobbers(params, src) => \A j \in DOMAIN src : r[g][params[j]] = reg[pc.fn][src[j]]
  <2> HIDE DEF src, g, t
  <2> QED BY <1>1, <1>4, <1>5, <1>6, CopyFacts DEF r, params, Fn
<1>9. ASSUME ArgumentsApart(prog), NEW w \in Needed(Fn, pc.at)  PROVE r[pc.fn][w] = reg[pc.fn][w]
  <2>1. CASE g # pc.fn
    BY <2>1, <1>1, <1>8, Zenon
  <2>2. CASE g = pc.fn
    <3>1. ~Clobbers(params, src)
      <4>1. prog[pc.fn].code[pc.at + 1] = t
        BY DEF Fn
      <4>2. CallsItself(prog, pc.fn, t)
        BY <2>2, <1>3, <1>4 DEF CallsItself, IsTail, Indirect
      <4>3. CallsItself(prog, pc.fn, prog[pc.fn].code[pc.at + 1])
                => ~Clobbers(prog[pc.fn].params, Args(prog[pc.fn].code[pc.at + 1]))
        BY <1>1, <1>2, <1>9 DEF ArgumentsApart, Fn
      <4> QED BY <4>1, <4>2, <4>3, <2>2, <1>4
    <3>2. w \in ToSet(src)
      <4>1. Reads(Current) = {}
        <5>1. Len(Current.src) = 0 /\ IsSequence(Current.src)
          BY <1>1 DEF IsInstruction
        <5>2. DOMAIN Current.src = {}
          BY <5>1, ListedFinite
        <5> QED BY <5>2 DEF Reads, ToSet
      <4>2. w \in Needed(Fn, pc.at + 1)
        BY <4>1, <1>1, <1>2, <1>9, NeededFacts DEF Current
      <4>3. Successors(t, pc.at + 1) = {}
        BY <1>4 DEF Successors, IsTail
      <4> QED BY <4>2, <4>3, <1>1, <1>2, <1>5, NeededFacts
    <3>3. CASE w \notin ToSet(params)
      <4>1. w \in WordsOf(prog[g])
        BY <3>2, <1>5, <1>6, <2>2 DEF Fn
      <4> HIDE DEF params
      <4> QED BY <4>1, <3>3, <1>8, <2>2
    <3>4. CASE w \in ToSet(params)
      <4> HIDE DEF params, src
      <4>1. PICK j \in DOMAIN params : params[j] = w
        BY <3>4 DEF ToSet
      <4>2. PICK k \in DOMAIN src : src[k] = w
        BY <3>2 DEF ToSet
      <4>3. src[j] = params[j]
        BY <4>1, <4>2, <3>1, <1>7, Zenon DEF Clobbers
      <4>4. r[g][params[j]] = reg[pc.fn][src[j]]
        BY <4>1, <3>1, <1>7, <1>8, Zenon
      <4> QED BY <4>1, <4>3, <4>4, <2>2, Zenon
    <3> QED BY <3>3, <3>4
  <2> QED BY <2>1, <2>2
<1> QED BY <1>8, <1>9, Zenon

-----------------------------------------------------------------------------
(* The invariant is inductive. *)
LEMMA CallInvInit ==
    ASSUME Init  PROVE CallInv
<1>1. prog \in Programs /\ slots = SlotsFor(prog) /\ pc = At(1, 1) /\ ret = 0 /\ sp = 0 /\ status = "run"
  BY DEF Init
<1>2. IsProgram(prog) /\ slots \in 1..SlotsCap /\ SlotsCap \in Nat
  BY <1>1, ProgramsAssumption
<1>3. 1 \in DOMAIN prog /\ 1 \in DOMAIN prog[1].code
  BY <1>2, FunctionFacts DEF IsProgram
<1>4. pc.fn = 1 /\ pc.at = 1 /\ pc.stage = "at"
  BY <1>1 DEF At
<1>5. reg \in Banks(prog)
  <2>1. reg = [f \in DOMAIN prog |-> [w \in WordsOf(prog[f]) |-> 0]]
    BY DEF Init
  <2> DEFINE U == UNION {[WordsOf(prog[f]) -> Nat] : f \in DOMAIN prog}
  <2>2. \A f \in DOMAIN prog : reg[f] \in [WordsOf(prog[f]) -> Nat]
    BY <2>1
  <2>3. \A f \in DOMAIN prog : reg[f] \in U
    BY <2>2
  <2>4. reg \in [DOMAIN prog -> U]
    <3>1. reg = [f \in DOMAIN prog |-> reg[f]]
      BY <2>1
    <3> HIDE DEF U
    <3> QED BY <2>3, <3>1
  <2> QED BY <2>2, <2>4 DEF Banks
<1>6. DOMAIN cs = 0..(SlotsCap - 1)
  BY DEF Init
<1>7. Typed
  BY <1>1, <1>2, <1>3, <1>4, <1>5, <1>6 DEF Typed, Fn, Stages
<1>8. Bottom = 0
  BY <1>1, <1>4 DEF Bottom
<1>9. StackedOn(prog, cs, {0}, 0) /\ {0} \in SUBSET (0..Bottom)
  BY <1>8 DEF StackedOn
<1>10. Nested
  BY <1>1, <1>4, <1>8, <1>9, Zenon DEF Nested
<1>11. WordsHeld
  BY <1>4 DEF WordsHeld
<1> QED BY <1>7, <1>10, <1>11 DEF CallInv

LEMMA StepKeeps ==
    ASSUME CallInv, Step  PROVE CallInv'
<1> USE DEF CallInv
<1>1. /\ Running /\ IsLocalStep(Current) /\ reg' = [reg EXCEPT ![pc.fn] = Compute(Current, @)]
      /\ pc' = At(pc.fn, Goes(Current, pc.at, reg[pc.fn]))
      /\ prog' = prog /\ slots' = slots /\ ret' = ret /\ cs' = cs /\ sp' = sp /\ status' = status
  BY DEF Step
<1>2. /\ IsProgram(prog) /\ IsFunction(prog, Fn) /\ reg[pc.fn] \in [WordsOf(Fn) -> Nat]
      /\ pc.fn \in DOMAIN prog /\ pc.at \in DOMAIN Fn.code /\ reg \in Banks(prog)
  BY HereFacts DEF Typed
<1>3. Compute(Current, reg[pc.fn]) \in [WordsOf(Fn) -> Nat] /\ Goes(Current, pc.at, reg[pc.fn]) \in DOMAIN Fn.code
  BY <1>1, <1>2, ComputeFacts DEF Current
<1>4. reg' \in Banks(prog)
  <2>1. reg' = [reg EXCEPT ![pc.fn] = Compute(Current, reg[pc.fn])]
    BY <1>1, Zenon
  <2> DEFINE b == Compute(Current, reg[pc.fn])
  <2>2. b \in [WordsOf(prog[pc.fn]) -> Nat]
    BY <1>3 DEF Fn
  <2> HIDE DEF b
  <2>3. [reg EXCEPT ![pc.fn] = b] \in Banks(prog)
    BY <2>2, <1>2, BankFacts
  <2> QED BY <2>1, <2>3, Zenon DEF b
<1>5. pc'.fn = pc.fn /\ pc'.at = Goes(Current, pc.at, reg[pc.fn]) /\ pc'.stage = "at"
  BY <1>1 DEF At
<1>6. Fn' = Fn
  BY <1>1, <1>5 DEF Fn
<1>7. Typed'
  BY <1>1, <1>2, <1>3, <1>4, <1>5, <1>6 DEF Typed, Stages
<1>8. pc.stage = "at" /\ status = "run"
  BY <1>1 DEF Running
<1>9. Bottom' = Bottom
  BY <1>1, <1>5, <1>8 DEF Bottom
<1>10. Nested'
  BY <1>1, <1>5, <1>8, <1>9, StayNested
<1>11. WordsHeld'
  BY <1>5 DEF WordsHeld
<1> QED BY <1>7, <1>10, <1>11

LEMMA ReadKeyKeeps ==
    ASSUME CallInv, ReadKey  PROVE CallInv'
<1> USE DEF CallInv
<1>1. PICK key \in Keys : reg' = [reg EXCEPT ![pc.fn][Current.dst] = key]
  BY DEF ReadKey
<1>2. /\ Running /\ Current.op = "Key" /\ pc' = At(pc.fn, pc.at + 1)
      /\ prog' = prog /\ slots' = slots /\ ret' = ret /\ cs' = cs /\ sp' = sp /\ status' = status
  BY DEF ReadKey
<1>3. /\ IsProgram(prog) /\ IsFunction(prog, Fn) /\ JumpsInside(Fn)
      /\ pc.fn \in DOMAIN prog /\ pc.at \in DOMAIN Fn.code /\ reg \in Banks(prog)
  BY HereFacts DEF Typed
<1>4. pc.at + 1 \in DOMAIN Fn.code
  BY <1>2, <1>3, NextFacts DEF Current
<1>5. Current.dst \in WordsOf(Fn)
  BY <1>2, <1>3, WordFacts DEF Current, Results
<1>6. reg' \in Banks(prog)
  BY <1>1, <1>3, <1>5, KeysAssumption, BankFacts DEF Fn
<1>7. pc'.fn = pc.fn /\ pc'.at = pc.at + 1 /\ pc'.stage = "at"
  BY <1>2 DEF At
<1>8. Fn' = Fn
  BY <1>2, <1>7 DEF Fn
<1>9. Typed'
  BY <1>2, <1>3, <1>4, <1>6, <1>7, <1>8 DEF Typed, Stages
<1>10. pc.stage = "at" /\ status = "run"
  BY <1>2 DEF Running
<1>11. Bottom' = Bottom
  BY <1>2, <1>7, <1>10 DEF Bottom
<1>12. Nested'
  BY <1>2, <1>7, <1>10, <1>11, StayNested
<1>13. WordsHeld'
  BY <1>7 DEF WordsHeld
<1> QED BY <1>9, <1>12, <1>13

LEMMA TakeResultKeeps ==
    ASSUME CallInv, TakeResult  PROVE CallInv'
<1> USE DEF CallInv
<1>1. /\ status = "run" /\ pc.stage = "join" /\ pc' = At(pc.fn, pc.at + 1)
      /\ reg' = [reg EXCEPT ![pc.fn][Current.dst] = ret]
      /\ prog' = prog /\ slots' = slots /\ ret' = ret /\ cs' = cs /\ sp' = sp /\ status' = status
  BY DEF TakeResult
<1>2. /\ IsProgram(prog) /\ IsFunction(prog, Fn) /\ JumpsInside(Fn) /\ IsCall(Current) /\ ret \in Nat
      /\ pc.fn \in DOMAIN prog /\ pc.at \in DOMAIN Fn.code /\ reg \in Banks(prog)
  BY <1>1, HereFacts DEF Typed
<1>3. pc.at + 1 \in DOMAIN Fn.code
  BY <1>2, NextFacts DEF Current, IsCall
<1>4. Current.dst \in WordsOf(Fn)
  BY <1>2, WordFacts DEF Current, Results, IsCall
<1>5. reg' \in Banks(prog)
  BY <1>1, <1>2, <1>4, BankFacts DEF Fn
<1>6. pc'.fn = pc.fn /\ pc'.at = pc.at + 1 /\ pc'.stage = "at"
  BY <1>1 DEF At
<1>7. Fn' = Fn
  BY <1>1, <1>6 DEF Fn
<1>8. Typed'
  BY <1>1, <1>2, <1>3, <1>5, <1>6, <1>7 DEF Typed, Stages
<1>9. Bottom' = Bottom
  BY <1>1, <1>6 DEF Bottom
<1>10. Nested'
  BY <1>1, <1>6, <1>9, StayNested
<1>11. WordsHeld'
  BY <1>6 DEF WordsHeld
<1> QED BY <1>8, <1>10, <1>11

LEMMA RestoreKeeps ==
    ASSUME CallInv, Restore  PROVE CallInv'
<1> USE DEF CallInv
<1> DEFINE s == Saved(Fn, pc.at)
           base == sp - RaSlot(Fn, pc.at)
<1>1. /\ status = "run" /\ pc.stage = "cont" /\ pc' = Join(pc.fn, pc.at)
      /\ sp' = base /\ reg' = [reg EXCEPT ![pc.fn] = Restored(s, base)]
      /\ prog' = prog /\ slots' = slots /\ ret' = ret /\ cs' = cs /\ status' = status
  <2>1. sp' = base
    BY DEF Restore
  <2>2. reg' = [reg EXCEPT ![pc.fn] = Restored(s, sp')]
    BY Zenon DEF Restore
  <2> QED BY <2>1, <2>2 DEF Restore
<1>2. /\ IsProgram(prog) /\ IsFunction(prog, Fn) /\ IsCall(Current) /\ slots \in Nat /\ sp \in Nat
      /\ pc.fn \in DOMAIN prog /\ pc.at \in DOMAIN Fn.code /\ reg \in Banks(prog)
  BY <1>1, HereFacts DEF Typed
<1>3. Restored(s, base) \in [WordsOf(Fn) -> Nat] /\ Bottom = base /\ Bottom \in 0..sp
  BY <1>1, RestoredFacts
<1> HIDE DEF s, base
<1>4. reg' \in Banks(prog)
  BY <1>1, <1>2, <1>3, BankFacts DEF Fn
<1>5. pc'.fn = pc.fn /\ pc'.at = pc.at /\ pc'.stage = "join"
  BY <1>1 DEF Join
<1>6. Fn' = Fn /\ Current' = Current
  BY <1>1, <1>5 DEF Fn, Current
<1>7. sp' \in 0..slots'
  <2>1. sp <= slots
    BY <1>2 DEF Typed
  <2> QED BY <1>1, <1>2, <1>3, <2>1
<1>8. Typed'
  BY <1>1, <1>2, <1>4, <1>5, <1>6, <1>7 DEF Typed, Stages
<1>9. Bottom' = Bottom
  BY <1>1, <1>3, <1>5 DEF Bottom
<1>10. Nested'
  BY <1>1, <1>5, <1>9, StayNested
<1>11. WordsHeld'
  BY <1>5 DEF WordsHeld
<1> QED BY <1>8, <1>10, <1>11

LEMMA StalledTailKeeps ==
    ASSUME CallInv, StalledTail  PROVE CallInv'
<1> USE DEF CallInv
<1>1. /\ Running /\ Current.op = "Key" /\ Fn.code[pc.at + 1].op = "Tail"
      /\ reg' = CopyArgs(Fn.code[pc.at + 1].arg, Fn.code[pc.at + 1].src)
      /\ prog' = prog /\ slots' = slots /\ pc' = pc /\ ret' = ret /\ cs' = cs /\ sp' = sp /\ status' = status
  BY DEF StalledTail
<1>2. reg' \in Banks(prog)
  BY <1>1, StallFacts
<1>3. Fn' = Fn /\ Current' = Current
  BY <1>1 DEF Fn, Current
<1>4. Typed'
  BY <1>1, <1>2, <1>3 DEF Typed
<1>5. Bottom' = Bottom
  BY <1>1, <1>3 DEF Bottom
<1>6. pc.stage = "at" /\ status = "run"
  BY <1>1 DEF Running
<1>7. Nested'
  BY <1>1, <1>5, <1>6, StayNested
<1>8. WordsHeld'
  BY <1>1, <1>6 DEF WordsHeld
<1> QED BY <1>4, <1>7, <1>8

LEMMA TailCallKeeps ==
    ASSUME CallInv, TailCall  PROVE CallInv'
<1> USE DEF CallInv
<1> DEFINE g == Callee.fn
<1>1. /\ Running /\ IsTail(Current) /\ Enters({"fn"})
      /\ reg' = CopyArgs(g, Args(Current)) /\ pc' = At(g, 1)
      /\ prog' = prog /\ slots' = slots /\ ret' = ret /\ cs' = cs /\ sp' = sp /\ status' = status
  BY DEF TailCall
<1>2. /\ IsProgram(prog) /\ pc.fn \in DOMAIN prog /\ pc.at \in DOMAIN Fn.code
  BY HereFacts DEF Typed
<1>3. g \in DOMAIN prog /\ g # 1 /\ 1 \in DOMAIN prog[g].code /\ reg' \in Banks(prog)
  BY <1>1, EnterFacts
<1> HIDE DEF g
<1>4. pc'.fn = g /\ pc'.at = 1 /\ pc'.stage = "at"
  BY <1>1 DEF At
<1>5. pc.fn # 1
  BY <1>1, <1>2 DEF IsProgram, Current, Fn
<1>6. Fn' = prog[g]
  BY <1>1, <1>4 DEF Fn
<1>7. Typed'
  BY <1>1, <1>3, <1>4, <1>6 DEF Typed, Stages
<1>8. pc.stage = "at" /\ status = "run"
  BY <1>1 DEF Running
<1>9. Bottom' = Bottom
  BY <1>1, <1>4, <1>8 DEF Bottom
<1>10. Nested'
  BY <1>1, <1>3, <1>4, <1>5, <1>8, <1>9, StayNested
<1>11. WordsHeld'
  BY <1>4 DEF WordsHeld
<1> QED BY <1>7, <1>10, <1>11

(* Where a program stops, its machine stays as it is. *)
LEMMA StopKeeps ==
    ASSUME CallInv, Overflow \/ Unreachable \/ Exit  PROVE CallInv'
<1> USE DEF CallInv
<1>1. /\ prog' = prog /\ slots' = slots /\ pc' = pc /\ reg' = reg /\ cs' = cs /\ sp' = sp
      /\ status' \in {"exit", "overflow", "unreachable"}
  BY DEF Overflow, Unreachable, Exit
<1>2. ret' \in Nat
  <2>1. CASE Overflow \/ Unreachable
    BY <2>1 DEF Overflow, Unreachable, Typed
  <2>2. CASE Exit
    <3>1. pc.fn = 1 /\ Current.op = "Ret" /\ ret' = reg[1][Current.src[1]]
      BY <2>2 DEF Exit
    <3>2. /\ IsFunction(prog, Fn) /\ reg[pc.fn] \in [WordsOf(Fn) -> Nat] /\ pc.at \in DOMAIN Fn.code
      BY HereFacts DEF Typed
    <3>3. Current.src[1] \in WordsOf(Fn)
      <4>1. 1 \in DOMAIN Current.src /\ Current.src[1] \in Reads(Current) /\ Reads(Current) \subseteq WordsOf(Fn)
        BY <3>1, <3>2, WordFacts DEF Current, OneOperand
      <4> QED BY <4>1
    <3> QED BY <3>1, <3>2, <3>3
  <2> QED BY <2>1, <2>2
<1>3. status' = "exit" => sp' = 0
  <2>1. status' = "exit" => Exit
    BY DEF Overflow, Unreachable
  <2>2. ASSUME Exit  PROVE sp = 0
    <3>1. pc.fn = 1 /\ pc.stage = "at"
      BY <2>2 DEF Exit, Running
    <3> QED BY <3>1 DEF Nested, Bottom
  <2> QED BY <1>1, <2>1, <2>2
<1>4. Fn' = Fn /\ Current' = Current
  BY <1>1 DEF Fn, Current
<1>5. Typed'
  BY <1>1, <1>2, <1>4 DEF Typed
<1>6. Bottom' = Bottom
  BY <1>1, <1>4 DEF Bottom
<1>7. Nested'
  BY <1>1, <1>3, <1>6, StayNested
<1>8. WordsHeld'
  BY <1>1, <1>4, <1>6 DEF WordsHeld
<1> QED BY <1>5, <1>7, <1>8

(* Return, and a host function called in tail position: a frame is left. *)
LEMMA PopKeeps ==
    ASSUME CallInv, Running, pc.fn # 1, sp' = sp - 1, pc' = cs[sp - 1], ret' \in Nat,
           prog' = prog, slots' = slots, reg' = reg, cs' = cs, status' = status
    PROVE  CallInv'
<1> USE DEF CallInv
<1> DEFINE ra   == cs[sp - 1]
           base == FrameBase(prog, cs, sp)
           s == Saved(prog[ra.fn], ra.at)
<1>1. pc.stage = "at" /\ status = "run"
  BY DEF Running
<1>2. /\ sp \in 1..SlotsCap /\ Bottom = sp
      /\ EndsFrame(prog, cs, sp) /\ base \in 0..(sp - 1)
      /\ ra.fn \in DOMAIN prog /\ ra.at \in DOMAIN prog[ra.fn].code /\ ra.stage = "cont"
      /\ IsCall(prog[ra.fn].code[ra.at])
      /\ RaSlot(prog[ra.fn], ra.at) <= sp - 1
      /\ (sp - 1) - RaSlot(prog[ra.fn], ra.at) = base
      /\ ra.fn = 1 <=> base = 0
      /\ \E B \in SUBSET (0..base) : StackedOn(prog, cs, B, base)
      /\ \A w \in ToSet(s) : cs[base + SlotOf(s, w)] \in Nat
  BY <1>1, PopFacts
<1>3. pc' = ra /\ s = Saved(prog[ra.fn], ra.at)
  BY Zenon
<1> HIDE DEF ra, base, s
<1>4. Fn' = prog[ra.fn] /\ Current' = prog[ra.fn].code[ra.at]
  BY <1>3 DEF Fn, Current
<1>5. slots \in Nat /\ sp \in Nat /\ sp <= slots /\ sp - 1 \in 0..slots
  <2>1. slots \in Nat /\ sp \in Nat /\ sp <= slots
    BY HereFacts DEF Typed
  <2>2. sp >= 1
    BY <1>2
  <2> QED BY <2>1, <2>2
<1>6. Typed'
  BY <1>1, <1>2, <1>3, <1>4, <1>5 DEF Typed, Stages
<1>7. Bottom' = base
  BY <1>2, <1>3, <1>4 DEF Bottom
<1>8. Nested'
  BY <1>1, <1>2, <1>3, <1>7, Zenon DEF Nested
<1>9. WordsHeld'
  BY <1>2, <1>3, <1>4, <1>7, Zenon DEF WordsHeld
<1> QED BY <1>6, <1>8, <1>9

LEMMA ReturnKeeps ==
    ASSUME CallInv, Return  PROVE CallInv'
<1>1. /\ Running /\ pc.fn # 1 /\ Current.op = "Ret" /\ sp' = sp - 1 /\ pc' = cs[sp - 1]
      /\ ret' = reg[pc.fn][Current.src[1]]
      /\ prog' = prog /\ slots' = slots /\ reg' = reg /\ cs' = cs /\ status' = status
  BY DEF Return
<1>2. ret' \in Nat
  <2>1. IsFunction(prog, Fn) /\ reg[pc.fn] \in [WordsOf(Fn) -> Nat] /\ pc.at \in DOMAIN Fn.code
    BY HereFacts DEF Typed, CallInv
  <2>2. 1 \in DOMAIN Current.src /\ Reads(Current) \subseteq WordsOf(Fn)
        /\ \A j \in DOMAIN Current.src : Current.src[j] \in Reads(Current)
    BY <1>1, <2>1, WordFacts DEF Current, OneOperand
  <2>3. Current.src[1] \in WordsOf(Fn)
    BY <2>2
  <2> QED BY <1>1, <2>1, <2>3
<1> QED BY <1>1, <1>2, PopKeeps

(* Of a host function's answer, either a frame is left or the machine goes *)
(* on at the join.                                                         *)
LEMMA AnswerKeeps ==
    ASSUME CallInv, Running, Enters({"putchar", "getchar"}), NEW value \in Nat, Answered(value)
    PROVE  CallInv'
<1>1. /\ ret' = value
      /\ prog' = prog /\ slots' = slots /\ reg' = reg /\ cs' = cs /\ status' = status
  BY DEF Answered
<1>2. CASE IsTail(Current)
  <2>1. sp' = sp - 1 /\ pc' = cs[sp - 1]
    BY <1>2 DEF Answered
  <2>2. IsProgram(prog) /\ pc.at \in DOMAIN Fn.code
    BY HereFacts DEF Typed, CallInv
  <2>3. pc.fn # 1
    BY <1>2, <2>2 DEF IsProgram, Current, Fn
  <2> QED BY <1>1, <2>1, <2>3, PopKeeps
<1>3. CASE ~IsTail(Current)
  <2>1. pc' = Join(pc.fn, pc.at) /\ sp' = sp
    BY <1>3 DEF Answered
  <2>2. pc'.fn = pc.fn /\ pc'.at = pc.at /\ pc'.stage = "join"
    BY <2>1 DEF Join
  <2>3. IsCall(Current)
    BY <1>3 DEF Enters
  <2>4. pc.stage = "at" /\ status = "run"
    BY DEF Running
  <2>5. Fn' = Fn /\ Current' = Current
    BY <1>1, <2>2 DEF Fn, Current
  <2>6. Typed'
    BY <1>1, <2>1, <2>2, <2>3, <2>5 DEF Typed, Stages, CallInv
  <2>7. Bottom' = Bottom
    BY <2>1, <2>2, <2>4 DEF Bottom
  <2>8. Nested'
    BY <1>1, <2>2, <2>4, <2>7, StayNested DEF CallInv
  <2>9. WordsHeld'
    BY <2>2 DEF WordsHeld
  <2> QED BY <2>6, <2>8, <2>9 DEF CallInv
<1> QED BY <1>2, <1>3

LEMMA HostKeeps ==
    ASSUME CallInv, Putchar \/ Getchar  PROVE CallInv'
<1>1. CASE Putchar
  <2> DEFINE byte == reg[pc.fn][Current.src[1]] % BYTE
  <2>1. Running /\ Enters({"putchar"}) /\ Answered(byte)
    BY <1>1, Zenon DEF Putchar
  <2>2. IsFunction(prog, Fn) /\ IsInstruction(prog, Current) /\ reg[pc.fn] \in [WordsOf(Fn) -> Nat] /\ pc.at \in DOMAIN Fn.code
    BY HereFacts DEF Typed, CallInv
  <2>3. IsCall(Current) \/ IsTail(Current)
    BY <2>1 DEF Enters
  <2>4. Len(Args(Current)) = 1
    BY <2>1, <2>3, CalleeFacts DEF Enters, CallInv
  <2>5. Current.src[1] \in WordsOf(Fn)
    <3>1. 1 \in DOMAIN Args(Current) /\ \A j \in DOMAIN Args(Current) : j \in DOMAIN Current.src
      BY <2>2, <2>3, <2>4, ArgsFacts
    <3>2. Current.src[1] \in Reads(Current) /\ Reads(Current) \subseteq WordsOf(Fn)
      BY <3>1, <2>2, WordFacts DEF Current
    <3> QED BY <3>2
  <2>6. byte \in Nat
    <3>1. reg[pc.fn][Current.src[1]] \in Nat /\ BYTE \in Nat \ {0}
      BY <2>2, <2>5, TableAssumption
    <3> QED BY <3>1, Z3
  <2>7. Enters({"putchar", "getchar"})
    BY <2>1 DEF Enters
  <2> HIDE DEF byte
  <2> QED BY <2>1, <2>6, <2>7, AnswerKeeps
<1>2. CASE Getchar
  <2>1. Running /\ Enters({"putchar", "getchar"})
    BY <1>2 DEF Getchar, Enters
  <2>2. PICK key \in Keys : Answered(key)
    BY <1>2 DEF Getchar
  <2>3. key \in Nat
    BY KeysAssumption
  <2> QED BY <2>1, <2>2, <2>3, AnswerKeeps
<1> QED BY <1>1, <1>2

(* The frame that a call pushes holds the words the caller needs after it. *)
LEMMA CallFacts ==
    ASSUME Typed, CallSite
    PROVE  LET n == sp'
               words == Needed(Fn, pc.at + 1) \ {Current.dst}
           IN  /\ n \in 1..SlotsCap /\ n \in 0..slots /\ sp < n
               /\ EndsFrame(prog, cs', n) /\ FrameBase(prog, cs', n) = sp
               /\ cs'[n - 1] = Cont(pc.fn, pc.at)
               /\ words \subseteq WordsOf(Fn)
               /\ FrameAt(prog, cs', n) = [fn |-> pc.fn, at |-> pc.at, env |-> [w \in words |-> reg[pc.fn][w]]]
               /\ \A i \in 0..(sp - 1) : cs'[i] = cs[i]
               /\ DOMAIN cs' = 0..(SlotsCap - 1)
<1> DEFINE s == Saved(Fn, pc.at)
           n == sp'
           words == Needed(Fn, pc.at + 1) \ {Current.dst}
           ra == Cont(pc.fn, pc.at)
<1>1. /\ IsCall(Current) /\ Fits /\ cs' = Push(s, ra) /\ sp' = sp + FrameSlots(Fn, pc.at)
  BY DEF CallSite
<1>2. /\ IsFunction(prog, Fn) /\ pc.fn \in DOMAIN prog /\ pc.at \in DOMAIN Fn.code
      /\ slots \in Nat /\ sp \in Nat /\ SlotsCap \in Nat /\ slots <= SlotsCap /\ DOMAIN cs = 0..(SlotsCap - 1)
  BY HereFacts DEF Typed
<1>3. /\ Len(s) \in Nat /\ DOMAIN s = 1..Len(s)
      /\ \A i, j \in DOMAIN s : s[i] = s[j] => i = j
      /\ ToSet(s) = words /\ ToSet(s) \subseteq WordsOf(Fn)
  BY <1>1, <1>2, SavedFacts DEF Current
<1>4. FrameSlots(Fn, pc.at) = 2 * Len(s) + 1
  BY DEF FrameSlots, RaSlot, WORD_SLOTS
<1> HIDE DEF s, words
<1>5. n = sp + 2 * Len(s) + 1 /\ n <= slots
  BY <1>1, <1>2, <1>3, <1>4 DEF Fits
<1>6. n \in 1..SlotsCap /\ n \in 0..slots /\ sp < n /\ n - 1 = sp + 2 * Len(s)
  BY <1>2, <1>3, <1>5
<1>7. /\ DOMAIN cs' = 0..(SlotsCap - 1)
      /\ \A i \in 0..(sp - 1) : cs'[i] = cs[i]
      /\ cs'[sp + 2 * Len(s)] = ra
      /\ \A w \in ToSet(s) : cs'[sp + SlotOf(s, w)] = reg[pc.fn][w]
  <2>1. sp + 2 * Len(s) + 1 <= SlotsCap
    BY <1>2, <1>3, <1>5
  <2> DEFINE c == Push(s, ra)
  <2> HIDE DEF ra
  <2>2. /\ DOMAIN c = 0..(SlotsCap - 1)
        /\ \A i \in 0..(sp - 1) : c[i] = cs[i]
        /\ c[sp + 2 * Len(s)] = ra
        /\ \A w \in ToSet(s) : c[sp + SlotOf(s, w)] = reg[pc.fn][w]
    <3>1. Lists(s)
      BY <1>3 DEF Lists
    <3> QED BY <1>2, <2>1, <3>1, PushFacts
  <2> HIDE DEF c
  <2>3. cs' = c
    BY <1>1 DEF c
  <2> QED BY <2>2, <2>3, Zenon
<1>8. cs'[n - 1] = ra
  BY <1>6, <1>7
<1>9. ra.fn = pc.fn /\ ra.at = pc.at
  BY DEF Cont
<1>10. FrameBase(prog, cs', n) = sp
  <2>1. FrameBase(prog, cs', n) = n - FrameSlots(prog[pc.fn], pc.at)
    BY <1>8, <1>9, Zenon DEF FrameBase
  <2> QED BY <2>1, <1>2, <1>3, <1>4, <1>5 DEF Fn
<1>11. EndsFrame(prog, cs', n)
  <2>1. IsReturnPc(prog, ra)
    BY <1>1, <1>2, <1>9 DEF IsReturnPc, Fn, Current
  <2>2. FrameSlots(prog[pc.fn], pc.at) <= n /\ n > 0
    BY <1>2, <1>3, <1>4, <1>5 DEF Fn
  <2> HIDE DEF ra
  <2> QED BY <2>1, <2>2, <1>8, <1>9, Zenon DEF EndsFrame
<1>12. FrameAt(prog, cs', n) = [fn |-> pc.fn, at |-> pc.at, env |-> [w \in words |-> reg[pc.fn][w]]]
  <2>1. FrameAt(prog, cs', n) = [fn |-> pc.fn, at |-> pc.at, env |-> [w \in ToSet(s) |-> cs'[sp + SlotOf(s, w)]]]
    BY <1>8, <1>9, <1>10, Zenon DEF FrameAt, s, Fn
  <2> QED BY <2>1, <1>3, <1>7
<1> QED BY <1>3, <1>6, <1>7, <1>8, <1>10, <1>11, <1>12 DEF words

LEMMA CallSiteKeeps ==
    ASSUME CallInv, CallSite  PROVE CallInv'
<1> USE DEF CallInv
<1> DEFINE g == Callee.fn
           n == sp'
           words == Needed(Fn, pc.at + 1) \ {Current.dst}
<1>1. /\ Running /\ Enters({"fn"})
      /\ reg' = CopyArgs(g, Args(Current)) /\ pc' = At(g, 1)
      /\ prog' = prog /\ slots' = slots /\ ret' = ret /\ status' = status
  BY DEF CallSite
<1>2. IsProgram(prog) /\ reg[pc.fn] \in [WordsOf(Fn) -> Nat] /\ sp \in Nat
  BY HereFacts DEF Typed
<1>3. g \in DOMAIN prog /\ g # 1 /\ 1 \in DOMAIN prog[g].code /\ reg' \in Banks(prog)
  BY <1>1, EnterFacts
<1>4. /\ n \in 1..SlotsCap /\ n \in 0..slots /\ sp < n
      /\ EndsFrame(prog, cs', n) /\ FrameBase(prog, cs', n) = sp
      /\ cs'[n - 1] = Cont(pc.fn, pc.at)
      /\ words \subseteq WordsOf(Fn)
      /\ FrameAt(prog, cs', n) = [fn |-> pc.fn, at |-> pc.at, env |-> [w \in words |-> reg[pc.fn][w]]]
      /\ \A i \in 0..(sp - 1) : cs'[i] = cs[i]
      /\ DOMAIN cs' = 0..(SlotsCap - 1)
  BY CallFacts
<1> HIDE DEF g, words
<1>5. pc'.fn = g /\ pc'.at = 1 /\ pc'.stage = "at"
  BY <1>1 DEF At
<1>6. Fn' = prog[g]
  BY <1>1, <1>5 DEF Fn
<1>7. Typed'
  BY <1>1, <1>3, <1>4, <1>5, <1>6 DEF Typed, Stages
<1>8. pc.stage = "at" /\ status = "run"
  BY <1>1 DEF Running
<1>9. Bottom = sp /\ Bottom' = n
  BY <1>5, <1>8 DEF Bottom
<1>10. \E B \in SUBSET (0..n) : StackedOn(prog, cs', B, n)
  <2>1. PICK B \in SUBSET (0..sp) : StackedOn(prog, cs, B, sp)
    BY <1>9, Zenon DEF Nested
  <2>2. StackedOn(prog, cs', B, sp)
    BY <2>1, <1>2, <1>4, StackedSame
  <2>3. cs'[n - 1].fn = 1 <=> sp = 0
    <3>1. cs'[n - 1].fn = pc.fn
      BY <1>4 DEF Cont
    <3> QED BY <3>1, <1>9, Zenon DEF Nested
  <2>4. \A w \in DOMAIN FrameAt(prog, cs', n).env : FrameAt(prog, cs', n).env[w] \in Nat
    BY <1>2, <1>4
  <2>5. n \in Nat /\ sp < n
    BY <1>4
  <2>6. StackedOn(prog, cs', B \cup {n}, n)
    <3> HIDE DEF n
    <3> QED BY <2>2, <2>3, <2>4, <2>5, <1>2, <1>4, StackedPush
  <2>7. B \cup {n} \subseteq 0..n
    BY <2>6 DEF StackedOn
  <2> QED BY <2>6, <2>7
<1>11. n # 0
  BY <1>4
<1>12. Nested'
  BY <1>1, <1>3, <1>5, <1>8, <1>9, <1>10, <1>11, Zenon DEF Nested
<1>13. WordsHeld'
  BY <1>5 DEF WordsHeld
<1> QED BY <1>7, <1>12, <1>13

LEMMA CallInvStep ==
    ASSUME CallInv, [Next]_vars  PROVE CallInv'
<1>1. CASE Next
  BY <1>1, StepKeeps, CallSiteKeeps, StopKeeps, TailCallKeeps, HostKeeps, ReadKeyKeeps, StalledTailKeeps,
     ReturnKeeps, RestoreKeeps, TakeResultKeeps, Zenon DEF Next
<1>2. CASE UNCHANGED vars
  <2>1. /\ prog' = prog /\ slots' = slots /\ pc' = pc /\ reg' = reg /\ ret' = ret /\ cs' = cs /\ sp' = sp
        /\ status' = status
    BY <1>2 DEF vars
  <2>2. Fn' = Fn /\ Current' = Current
    BY <2>1 DEF Fn, Current
  <2>3. Bottom' = Bottom
    BY <2>1, <2>2 DEF Bottom
  <2>4. Typed'
    BY <2>1, <2>2 DEF Typed, CallInv
  <2>5. Nested'
    BY <2>1, <2>3, StayNested DEF CallInv, Nested
  <2>6. WordsHeld'
    BY <2>1, <2>2, <2>3 DEF WordsHeld, CallInv
  <2> QED BY <2>4, <2>5, <2>6 DEF CallInv
<1> QED BY <1>1, <1>2

LEMMA CallInvHolds == Spec => []CallInv
<1>1. Init => CallInv
  BY CallInvInit
<1>2. CallInv /\ [Next]_vars => CallInv'
  BY CallInvStep
<1> QED BY <1>1, <1>2, PTL DEF Spec

-----------------------------------------------------------------------------
(* The machine stays in its program, in its banks and within its slots,    *)
(* for every program that validation and lowering let through.             *)
THEOREM CallTypes == Spec => []TypeOK
<1>1. CallInv => TypeOK
  BY DEF CallInv, Typed, TypeOK, Banks
<1> QED BY <1>1, CallInvHolds, PTL

(* Every frame that is pushed is popped: the entry ends on an empty stack, *)
(* through whatever calls, tail calls and host calls it got there.         *)
THEOREM CallsBalance == Spec => []StackBalanced
<1>1. CallInv => StackBalanced
  BY DEF CallInv, Nested, StackBalanced
<1> QED BY <1>1, CallInvHolds, PTL

-----------------------------------------------------------------------------
(* The machine implements the activations. *)

(* A stack, its top and what is below it. *)
LEMMA StackFacts ==
    ASSUME NEW S, NEW W \in Seq(S), NEW x, NEW y
    PROVE  LET F == Append(W, x)
           IN  /\ Len(F) = Len(W) + 1 /\ F[Len(F)] = x
               /\ SubSeq(F, 1, Len(F) - 1) = W /\ Front(F) = W /\ Last(F) = x
               /\ W \o <<x, y>> = Append(F, y)
               /\ Len(F) = 1 <=> W = <<>>
               /\ Len(F) > 1 <=> W # <<>>
<1> DEFINE T == S \cup {x, y}
           F == Append(W, x)
<1>1. W \in Seq(T) /\ x \in T /\ y \in T /\ Len(W) \in Nat
  <2>1. W \in Seq(T)
    <3>1. Len(W) \in Nat /\ W \in [1..Len(W) -> S]
      OBVIOUS
    <3>2. W \in [1..Len(W) -> T]
      BY <3>1
    <3> HIDE DEF T
    <3> QED BY <3>1, <3>2
  <2> QED BY <2>1
<1> HIDE DEF T
<1>2. Len(F) = Len(W) + 1 /\ F[Len(F)] = x /\ F \in Seq(T)
  BY <1>1
<1>3. SubSeq(F, 1, Len(F) - 1) = W
  <2>1. Len(F) - 1 = Len(W)
    BY <1>1, <1>2
  <2> DEFINE G == SubSeq(F, 1, Len(W))
  <2>2. G \in Seq(T) /\ Len(G) = Len(W)
    BY <1>1, <1>2
  <2>3. \A j \in 1..Len(W) : G[j] = W[j]
    BY <1>1, <1>2
  <2>4. G = W
    <3> HIDE DEF G
    <3> QED BY <2>2, <2>3, <1>1
  <2> QED BY <2>1, <2>4
<1>4. Front(F) = W /\ Last(F) = x
  <2> HIDE DEF F
  <2> QED BY <1>2, <1>3 DEF Front, Last
<1>5. W \o <<x, y>> = Append(F, y)
  BY <1>1
<1>6. (Len(F) = 1 <=> W = <<>>) /\ (Len(F) > 1 <=> W # <<>>)
  <2>1. W = <<>> <=> Len(W) = 0
    BY <1>1
  <2> HIDE DEF F
  <2> QED BY <1>1, <1>2, <2>1
<1> QED BY <1>2, <1>3, <1>4, <1>5, <1>6

(* The next instruction of the activation that runs. *)
NextAt == IF pc.stage = "at" THEN pc.at ELSE pc.at + 1

(* Banks that agree on what is needed make the same activation. *)
LEMMA SameActivation ==
    ASSUME NEW f, NEW k, NEW a, NEW b, AgreeOn(Needed(prog[f], k), a, b)
    PROVE  Abstract!Activation(f, k, a) = Abstract!Activation(f, k, b)
<1>1. Abstract!Activation(f, k, a) = [fn |-> f, at |-> k, env |-> [w \in Needed(prog[f], k) |-> a[w]]]
  BY SameWords, Zenon DEF Abstract!Activation
<1>2. Abstract!Activation(f, k, b) = [fn |-> f, at |-> k, env |-> [w \in Needed(prog[f], k) |-> b[w]]]
  BY SameWords, Zenon DEF Abstract!Activation
<1>3. [w \in Needed(prog[f], k) |-> a[w]] = [w \in Needed(prog[f], k) |-> b[w]]
  BY DEF AgreeOn
<1> QED BY <1>1, <1>2, <1>3, Zenon

(* A bank made of the words that an activation holds agrees on them. *)
LEMMA FullFacts ==
    ASSUME NEW f, NEW S \in SUBSET WordsOf(prog[f]), NEW env, DOMAIN env = S, \A w \in S : env[w] \in Nat
    PROVE  LET d == Abstract!Full(f, env)
           IN  d \in [WordsOf(prog[f]) -> Nat] /\ AgreeOn(S, env, d)
<1>1. Abstract!Full(f, env) = [w \in WordsOf(prog[f]) |-> IF w \in S THEN env[w] ELSE 0]
  BY SameWords, Zenon DEF Abstract!Full
<1>2. [w \in WordsOf(prog[f]) |-> IF w \in S THEN env[w] ELSE 0] \in [WordsOf(prog[f]) -> Nat]
  OBVIOUS
<1>3. \A w \in S : Abstract!Full(f, env)[w] = env[w]
  BY <1>1
<1> QED BY <1>1, <1>2, <1>3 DEF AgreeOn

(* The stack of activations that the state of the machine stands for. *)
LEMMA TopFacts ==
    ASSUME CallInv, status = "run"
    PROVE  LET W == Waiting(prog, cs)[Bottom]
           IN  /\ W \in Seq(FramesOf(prog, cs)) /\ (W = <<>> <=> Bottom = 0)
               /\ Frames = Append(W, Running1)
               /\ Abstract!Top = Running1 /\ Abstract!Below = W
               /\ Bottom \in 0..SlotsCap
<1> DEFINE W == Waiting(prog, cs)[Bottom]
<1>1. Typed /\ Nested /\ WordsHeld /\ IsProgram(prog)
  BY HereFacts DEF CallInv
<1>2. Bottom \in 0..SlotsCap
  <2>1. sp \in Nat /\ slots \in Nat /\ sp <= slots /\ slots <= SlotsCap /\ SlotsCap \in Nat
    BY <1>1, HereFacts DEF Typed
  <2>2. Bottom \in 0..sp
    <3>1. CASE pc.stage = "cont"
      BY <1>1, <3>1, RestoredFacts
    <3>2. CASE pc.stage # "cont"
      BY <2>1, <3>2 DEF Bottom
    <3> QED BY <3>1, <3>2
  <2> QED BY <2>1, <2>2
<1>3. /\ W \in Seq(FramesOf(prog, cs))
      /\ Waiting(prog, cs)[0] = <<>>
      /\ \A n \in 1..SlotsCap : EndsFrame(prog, cs, n) =>
            /\ Waiting(prog, cs)[n] = Append(Waiting(prog, cs)[FrameBase(prog, cs, n)], FrameAt(prog, cs, n))
            /\ FrameBase(prog, cs, n) \in 0..SlotsCap
  <2>1. /\ \A n \in 0..SlotsCap : Waiting(prog, cs)[n] \in Seq(FramesOf(prog, cs))
        /\ Waiting(prog, cs)[0] = <<>>
        /\ \A n \in 1..SlotsCap : EndsFrame(prog, cs, n) =>
              Waiting(prog, cs)[n] = Append(Waiting(prog, cs)[FrameBase(prog, cs, n)], FrameAt(prog, cs, n))
    BY <1>1, WaitingFacts
  <2>2. ASSUME NEW n \in 1..SlotsCap, EndsFrame(prog, cs, n)  PROVE FrameBase(prog, cs, n) \in 0..SlotsCap
    <3>1. n \in Nat /\ n <= SlotsCap /\ SlotsCap \in Nat
      BY <1>1, HereFacts
    <3>2. FrameBase(prog, cs, n) \in 0..(n - 1)
      BY <3>1, <2>2, <1>1, FrameFacts
    <3> QED BY <3>1, <3>2
  <2> QED BY <2>1, <2>2, <1>2
<1>4. W = <<>> <=> Bottom = 0
  <2>1. CASE Bottom = 0
    BY <2>1, <1>3
  <2>2. CASE Bottom # 0
    <3>1. Bottom \in 1..SlotsCap
      BY <2>2, <1>1, <1>2, HereFacts
    <3>2. EndsFrame(prog, cs, Bottom)
      BY <1>1, <2>2, Zenon DEF Nested, StackedOn
    <3> DEFINE V == Waiting(prog, cs)[FrameBase(prog, cs, Bottom)]
    <3>3. W = Append(V, FrameAt(prog, cs, Bottom)) /\ V \in Seq(FramesOf(prog, cs))
      BY <3>1, <3>2, <1>1, <1>3, WaitingFacts
    <3>4. W # <<>>
      <4> HIDE DEF V, W
      <4>1. Len(W) = Len(V) + 1 /\ Len(V) \in Nat
        BY <3>3, StackFacts
      <4>2. Len(<<>>) = 0
        OBVIOUS
      <4> QED BY <4>1, <4>2
    <3> QED BY <3>4, <2>2
  <2> QED BY <2>1, <2>2
<1> HIDE DEF W
<1>5. Frames = Append(W, Running1)
  BY Zenon DEF Frames, W
<1>6. Abstract!Top = Running1 /\ Abstract!Below = W
  <2>1. Append(W, Running1)[Len(Append(W, Running1))] = Running1
        /\ SubSeq(Append(W, Running1), 1, Len(Append(W, Running1)) - 1) = W
    BY <1>3, StackFacts
  <2> QED BY <1>5, <2>1, Zenon DEF Abstract!Top, Abstract!Below
<1> QED BY <1>2, <1>3, <1>4, <1>5, <1>6, Zenon DEF W

(* The activation that runs, before an instruction. *)
LEMMA AtFacts ==
    ASSUME CallInv, Running
    PROVE  LET e == reg[pc.fn]
               needed == Needed(Fn, pc.at)
               d == Abstract!Full(pc.fn, Running1.env)
           IN  /\ status = "run" /\ pc.stage = "at" /\ Bottom = sp
               /\ Running1 = [fn |-> pc.fn, at |-> pc.at, env |-> [w \in needed |-> e[w]]]
               /\ Running1.fn = pc.fn /\ Running1.at = pc.at
               /\ Running1.env = [w \in needed |-> e[w]]
               /\ needed \subseteq WordsOf(Fn) /\ Reads(Current) \subseteq needed
               /\ \A w \in needed : Running1.env[w] = e[w] /\ e[w] \in Nat
               /\ Abstract!Current = Current
               /\ e \in [WordsOf(Fn) -> Nat]
               /\ d \in [WordsOf(Fn) -> Nat] /\ AgreeOn(needed, e, d)
<1> DEFINE e == reg[pc.fn]
           needed == Needed(Fn, pc.at)
<1>1. status = "run" /\ pc.stage = "at" /\ Bottom = sp
  BY DEF Running, Bottom
<1>2. Running1 = [fn |-> pc.fn, at |-> pc.at, env |-> [w \in needed |-> e[w]]]
  BY <1>1, Zenon DEF Running1, Now
<1>3. Running1.fn = pc.fn /\ Running1.at = pc.at /\ Running1.env = [w \in needed |-> e[w]]
  BY <1>2
<1>4. JumpsInside(Fn) /\ pc.at \in DOMAIN Fn.code /\ e \in [WordsOf(Fn) -> Nat] /\ pc.fn \in DOMAIN prog
  BY HereFacts DEF CallInv, Typed
<1>5. needed \subseteq WordsOf(Fn) /\ Reads(Current) \subseteq needed
  BY <1>4, NeededFacts DEF Current
<1>6. Abstract!Current = Current
  <2>1. Abstract!Top = Running1
    BY <1>1, TopFacts
  <2> QED BY <2>1, <1>3, Zenon DEF Abstract!Current, Abstract!Code, Current, Fn
<1> HIDE DEF needed
<1>7. \A w \in needed : Running1.env[w] = e[w] /\ e[w] \in Nat
  BY <1>3, <1>4, <1>5
<1>8. /\ Abstract!Full(pc.fn, Running1.env) \in [WordsOf(Fn) -> Nat]
      /\ AgreeOn(needed, Running1.env, Abstract!Full(pc.fn, Running1.env))
  <2>1. DOMAIN Running1.env = needed /\ \A w \in needed : Running1.env[w] \in Nat
    BY <1>3, <1>7
  <2>2. needed \in SUBSET WordsOf(prog[pc.fn])
    BY <1>5 DEF Fn
  <2> QED BY <2>1, <2>2, FullFacts DEF Fn
<1>9. AgreeOn(needed, e, Abstract!Full(pc.fn, Running1.env))
  BY <1>7, <1>8, Zenon DEF AgreeOn
<1> QED BY <1>1, <1>2, <1>3, <1>4, <1>5, <1>6, <1>7, <1>8, <1>9, Zenon DEF needed

(* The stack of activations after a step, by where the machine then is. *)
LEMMA FramesNext ==
    ASSUME prog' = prog, status' = "run", NEW f, NEW k, pc'.fn = f, pc'.at = k
    PROVE  /\ pc'.stage = "at" =>
                 Frames' = Append(Waiting(prog, cs')[sp'], Abstract!Activation(f, k, reg'[f]))
           /\ pc'.stage = "join" =>
                 Frames' = Append(Waiting(prog, cs')[sp'],
                              Abstract!Activation(f, k + 1, [reg'[f] EXCEPT ![prog[f].code[k].dst] = ret']))
<1>1. Fn' = prog[f]
  BY DEF Fn
<1>2. Current' = prog[f].code[k]
  BY <1>1 DEF Current
<1>3. Frames' = Append(Waiting(prog, cs')[Bottom'], Running1')
  BY DEF Frames
<1>4. CASE pc'.stage = "at"
  <2>1. Bottom' = sp'
    BY <1>4 DEF Bottom
  <2>2. Now' = reg'[f]
    BY <1>4 DEF Now
  <2>3. Running1' = [fn |-> f, at |-> k, env |-> [w \in Needed(prog[f], k) |-> reg'[f][w]]]
    BY <1>1, <1>4, <2>2, Zenon DEF Running1
  <2>4. Abstract!Activation(f, k, reg'[f]) = [fn |-> f, at |-> k, env |-> [w \in Needed(prog[f], k) |-> reg'[f][w]]]
    BY SameWords, Zenon DEF Abstract!Activation
  <2> QED BY <1>3, <1>4, <2>1, <2>3, <2>4, Zenon
<1>5. CASE pc'.stage = "join"
  <2> DEFINE e == [reg'[f] EXCEPT ![prog[f].code[k].dst] = ret']
  <2>1. Bottom' = sp' /\ pc'.stage # "at"
    BY <1>5 DEF Bottom
  <2>2. Now' = e
    BY <1>2, <1>5 DEF Now
  <2> HIDE DEF e
  <2>3. Running1' = [fn |-> f, at |-> k + 1, env |-> [w \in Needed(prog[f], k + 1) |-> e[w]]]
    BY <1>1, <2>1, <2>2, Zenon DEF Running1
  <2>4. Abstract!Activation(f, k + 1, e) = [fn |-> f, at |-> k + 1, env |-> [w \in Needed(prog[f], k + 1) |-> e[w]]]
    BY SameWords, Zenon DEF Abstract!Activation
  <2> QED BY <1>3, <2>1, <2>3, <2>4, Zenon DEF e
<1> QED BY <1>4, <1>5

(* What is needed after an instruction that only computes was needed       *)
(* before it, but for its result.                                          *)
LEMMA NeededAfter ==
    ASSUME NEW pr, NEW fn, IsFunction(pr, fn), NEW k \in DOMAIN fn.code,
           fn.code[k].op \in {"Key", "Call", "CallIndirect"},
           NEW a \in [WordsOf(fn) -> Nat], NEW b \in [WordsOf(fn) -> Nat], AgreeOn(Needed(fn, k), a, b), NEW v
    PROVE  /\ AgreeOn(Needed(fn, k + 1), [a EXCEPT ![fn.code[k].dst] = v], [b EXCEPT ![fn.code[k].dst] = v])
           /\ Needed(fn, k + 1) \ {fn.code[k].dst} \subseteq Needed(fn, k)
           /\ k + 1 \in DOMAIN fn.code /\ fn.code[k].dst \in WordsOf(fn)
<1> DEFINE x == fn.code[k].dst
<1>1. JumpsInside(fn)
  BY DEF IsFunction, JumpsInside
<1>2. Successors(fn.code[k], k) = {k + 1} /\ k + 1 \in DOMAIN fn.code
  BY <1>1, NextFacts
<1>3. Writes(fn.code[k]) = {x} /\ Writes(fn.code[k]) \subseteq WordsOf(fn)
  BY WordFacts DEF Results
<1>4. Needed(fn, k + 1) \ {x} \subseteq Needed(fn, k) /\ Needed(fn, k + 1) \subseteq WordsOf(fn)
  BY <1>1, <1>2, <1>3, NeededFacts
<1>5. AgreeOn(Needed(fn, k + 1), [a EXCEPT ![x] = v], [b EXCEPT ![x] = v])
  BY <1>3, <1>4 DEF AgreeOn
<1> QED BY <1>2, <1>3, <1>4, <1>5

LEMMA StepImplements ==
    ASSUME CallInv, Step  PROVE Abstract!Step
<1> DEFINE e == reg[pc.fn]
           d == Abstract!Full(pc.fn, Running1.env)
           n == Goes(Current, pc.at, e)
           W == Waiting(prog, cs)[sp]
<1>1. /\ Running /\ IsLocalStep(Current) /\ (Current.op = "Put" => Len(out) < MaxOut)
      /\ reg' = [reg EXCEPT ![pc.fn] = Compute(Current, @)]
      /\ out' = IF Current.op = "Put" THEN Append(out, e[Current.src[1]]) ELSE out
      /\ pc' = At(pc.fn, n)
      /\ prog' = prog /\ cs' = cs /\ sp' = sp /\ status' = status
  BY DEF Step
<1>2. /\ status = "run" /\ Bottom = sp /\ Abstract!Current = Current
      /\ Running1.fn = pc.fn /\ Running1.at = pc.at
      /\ e \in [WordsOf(Fn) -> Nat] /\ d \in [WordsOf(Fn) -> Nat] /\ AgreeOn(Needed(Fn, pc.at), e, d)
  BY <1>1, AtFacts
<1>3. Abstract!Top = Running1 /\ Abstract!Below = W
  BY <1>2, TopFacts
<1>4. IsFunction(prog, Fn) /\ pc.at \in DOMAIN Fn.code /\ pc.fn \in DOMAIN prog /\ reg \in Banks(prog)
  BY HereFacts DEF CallInv, Typed
<1>5. /\ Goes(Current, pc.at, d) = n
      /\ Current.op = "Put" => d[Current.src[1]] = e[Current.src[1]]
      /\ AgreeOn(Needed(Fn, n), Compute(Current, e), Compute(Current, d))
  BY <1>1, <1>2, <1>4, ComputeFacts DEF Current
<1>6. reg'[pc.fn] = Compute(Current, e)
  BY <1>1, <1>4 DEF Banks
<1>7. pc'.fn = pc.fn /\ pc'.at = n /\ pc'.stage = "at"
  BY <1>1 DEF At
<1> HIDE DEF e, d, n, W
<1>8. Frames' = Append(W, Abstract!Activation(pc.fn, n, Compute(Current, e)))
  BY <1>1, <1>2, <1>6, <1>7, FramesNext DEF W
<1>9. Abstract!Activation(pc.fn, n, Compute(Current, e)) = Abstract!Activation(pc.fn, n, Compute(Current, d))
  BY <1>5, SameActivation DEF Fn
<1>10. /\ Abstract!IsLocalStep(Current) /\ Abstract!Goes(Current, pc.at, d) = n
       /\ Abstract!Compute(Current, d) = Compute(Current, d)
  BY <1>1, <1>5, SameWords, SameCalls
<1>11. Frames' = Append(Abstract!Below, Abstract!Activation(Abstract!Top.fn,
                    Abstract!Goes(Abstract!Current, Abstract!Top.at, d), Abstract!Compute(Abstract!Current, d)))
  BY <1>2, <1>3, <1>8, <1>9, <1>10, Zenon
<1>12. out' = IF Current.op = "Put" THEN Append(out, d[Current.src[1]]) ELSE out
  BY <1>1, <1>5
<1>13. d = Abstract!Full(Abstract!Top.fn, Abstract!Top.env)
  BY <1>2, <1>3, Zenon DEF d
<1> QED BY <1>1, <1>2, <1>10, <1>11, <1>12, <1>13, Zenon DEF Abstract!Step

LEMMA ReadKeyImplements ==
    ASSUME CallInv, ReadKey  PROVE Abstract!ReadKey
<1> DEFINE e == reg[pc.fn]
           d == Abstract!Full(pc.fn, Running1.env)
           W == Waiting(prog, cs)[sp]
<1>1. /\ Running /\ Current.op = "Key" /\ pc' = At(pc.fn, pc.at + 1)
      /\ prog' = prog /\ cs' = cs /\ sp' = sp /\ status' = status /\ out' = out
  BY DEF ReadKey
<1>2. PICK key \in Keys : reg' = [reg EXCEPT ![pc.fn][Current.dst] = key]
  BY DEF ReadKey
<1>3. /\ status = "run" /\ Bottom = sp /\ Abstract!Current = Current
      /\ Running1.fn = pc.fn /\ Running1.at = pc.at
      /\ e \in [WordsOf(Fn) -> Nat] /\ d \in [WordsOf(Fn) -> Nat] /\ AgreeOn(Needed(Fn, pc.at), e, d)
  BY <1>1, AtFacts
<1>4. Abstract!Top = Running1 /\ Abstract!Below = W
  BY <1>3, TopFacts
<1>5. IsFunction(prog, Fn) /\ pc.at \in DOMAIN Fn.code /\ pc.fn \in DOMAIN prog /\ reg \in Banks(prog) /\ key \in Nat
  BY HereFacts, KeysAssumption DEF CallInv, Typed
<1>6. /\ AgreeOn(Needed(Fn, pc.at + 1), [e EXCEPT ![Current.dst] = key], [d EXCEPT ![Current.dst] = key])
      /\ Current.dst \in WordsOf(Fn)
  BY <1>1, <1>3, <1>5, NeededAfter DEF Current
<1>7. reg'[pc.fn] = [e EXCEPT ![Current.dst] = key]
  BY <1>2, <1>5, <1>6, BankFacts DEF Fn
<1>8. pc'.fn = pc.fn /\ pc'.at = pc.at + 1 /\ pc'.stage = "at"
  BY <1>1 DEF At
<1> HIDE DEF e, d, W
<1>9. Frames' = Append(W, Abstract!Activation(pc.fn, pc.at + 1, [e EXCEPT ![Current.dst] = key]))
  <2> DEFINE n == pc.at + 1
  <2>1. prog' = prog /\ status' = "run" /\ pc'.fn = pc.fn /\ pc'.at = n /\ pc'.stage = "at"
    BY <1>1, <1>3, <1>8
  <2> HIDE DEF n
  <2>2. Frames' = Append(Waiting(prog, cs')[sp'], Abstract!Activation(pc.fn, n, reg'[pc.fn]))
    BY <2>1, FramesNext
  <2> QED BY <2>2, <1>1, <1>7, Zenon DEF W, n
<1>10. Abstract!Activation(pc.fn, pc.at + 1, [e EXCEPT ![Current.dst] = key])
         = Abstract!Activation(pc.fn, pc.at + 1, [d EXCEPT ![Current.dst] = key])
  BY <1>6, SameActivation DEF Fn
<1>11. d = Abstract!Full(Abstract!Top.fn, Abstract!Top.env)
  BY <1>3, <1>4, Zenon DEF d
<1>12. Frames' = Append(Abstract!Below, Abstract!Activation(Abstract!Top.fn, Abstract!Top.at + 1,
                    [Abstract!Full(Abstract!Top.fn, Abstract!Top.env) EXCEPT ![Abstract!Current.dst] = key]))
  BY <1>3, <1>4, <1>9, <1>10, <1>11, Zenon
<1> QED BY <1>1, <1>3, <1>12, Zenon DEF Abstract!ReadKey

(* What a call enters, by the words of the activation, and with what. *)
LEMMA TargetFacts ==
    ASSUME CallInv, Running, IsCall(Current) \/ IsTail(Current)
    PROVE  /\ Abstract!Target(Current, Running1.env) = Callee
           /\ \A kind : Abstract!Enters(kind) <=> Callee.kind = kind
           /\ \A j \in DOMAIN Args(Current) :
                 /\ Abstract!Values(Current, Running1.env)[j] = reg[pc.fn][Args(Current)[j]]
                 /\ reg[pc.fn][Args(Current)[j]] \in Nat
<1>1. /\ status = "run" /\ Abstract!Current = Current /\ Reads(Current) \subseteq Needed(Fn, pc.at)
      /\ \A w \in Needed(Fn, pc.at) : Running1.env[w] = reg[pc.fn][w] /\ reg[pc.fn][w] \in Nat
  BY AtFacts
<1>2. IsInstruction(prog, Current) /\ Typed
  BY HereFacts DEF CallInv
<1>3. /\ ToSet(Args(Current)) \subseteq Reads(Current)
      /\ Indirect(Current) => Last(Current.src) \in Reads(Current)
  BY <1>2, ArgsFacts
<1>4. Abstract!Target(Current, Running1.env) = Callee
  <2>1. Indirect(Current) => Running1.env[Last(Current.src)] = reg[pc.fn][Last(Current.src)]
    BY <1>1, <1>3
  <2> QED BY <2>1, <1>2, CalleeFacts
<1>5. Abstract!Top = Running1
  BY <1>1, TopFacts
<1>6. \A kind : Abstract!Enters(kind) <=> Callee.kind = kind
  BY <1>1, <1>4, <1>5, Zenon DEF Abstract!Enters
<1>7. Abstract!Values(Current, Running1.env) = [j \in DOMAIN Args(Current) |-> Running1.env[Args(Current)[j]]]
  BY SameCalls, Zenon DEF Abstract!Values
<1>8. \A j \in DOMAIN Args(Current) : Args(Current)[j] \in Needed(Fn, pc.at)
  BY <1>1, <1>3 DEF ToSet
<1> QED BY <1>1, <1>4, <1>6, <1>7, <1>8

(* The activation that a call makes is what its arguments say. *)
LEMMA EnteredFacts ==
    ASSUME CallInv, Running, Enters({"fn"}), ArgumentsApart(prog), reg' = CopyArgs(Callee.fn, Args(Current))
    PROVE  Abstract!Activation(Callee.fn, 1, reg'[Callee.fn]) = Abstract!Entered
<1> DEFINE g == Callee.fn
           params == prog[g].params
           values == Abstract!Values(Current, Running1.env)
           r == CopyArgs(g, Args(Current))
<1>1. Typed /\ IsProgram(prog) /\ (IsCall(Current) \/ IsTail(Current))
  BY HereFacts DEF CallInv, Enters
<1>2. /\ g \in DOMAIN prog /\ DOMAIN params = DOMAIN Args(Current)
      /\ \A j \in DOMAIN Args(Current) : r[g][params[j]] = reg[pc.fn][Args(Current)[j]]
  BY <1>1, EnterFacts
<1>3. \A j \in DOMAIN Args(Current) : values[j] = reg[pc.fn][Args(Current)[j]]
  BY <1>1, TargetFacts
<1>4. status = "run" /\ Abstract!Current = Current /\ Abstract!Target(Current, Running1.env) = Callee
  BY <1>1, AtFacts, TargetFacts
<1>5. Abstract!Top = Running1
  BY <1>4, TopFacts
<1>6. IsFunction(prog, prog[g])
  BY <1>1, <1>2, FunctionFacts
<1>7. /\ \A j, k \in DOMAIN params : params[j] = params[k] => j = k
      /\ Needed(prog[g], 1) \subseteq ToSet(params)
      /\ ToSet(params) \subseteq WordsOf(prog[g])
  <2>1. ToSet(params) \subseteq WordsOf(prog[g])
    BY DEF WordsOf
  <2> QED BY <2>1, <1>6 DEF IsFunction
<1>8. Abstract!Entered = Abstract!Activation(g, 1, Abstract!Passed(g, values))
  BY <1>4, <1>5, Zenon DEF Abstract!Entered
<1>9. Abstract!Passed(g, values) =
        [w \in WordsOf(prog[g]) |-> IF \E k \in DOMAIN params : params[k] = w
                                    THEN values[CHOOSE k \in DOMAIN params : params[k] = w] ELSE 0]
  BY SameWords, Zenon DEF Abstract!Passed
<1> HIDE DEF g, params, values, r
<1>10. ASSUME NEW w \in Needed(prog[g], 1)  PROVE r[g][w] = Abstract!Passed(g, values)[w]
  <2>1. PICK j \in DOMAIN params : params[j] = w
    BY <1>7 DEF ToSet
  <2>2. (CHOOSE k \in DOMAIN params : params[k] = w) = j
    BY <2>1, <1>7
  <2>3. w \in WordsOf(prog[g])
    BY <1>7
  <2>4. Abstract!Passed(g, values)[w] = values[j]
    <3>1. Abstract!Passed(g, values)[w] = IF \E k \in DOMAIN params : params[k] = w
                                    THEN values[CHOOSE k \in DOMAIN params : params[k] = w] ELSE 0
      BY <2>3, <1>9
    <3> QED BY <3>1, <2>1, <2>2, Zenon
  <2> QED BY <2>1, <2>4, <1>2, <1>3
<1>11. AgreeOn(Needed(prog[g], 1), reg'[g], Abstract!Passed(g, values))
  BY <1>10 DEF AgreeOn, r, g
<1> QED BY <1>8, <1>11, SameActivation, Zenon DEF g

LEMMA TailCallImplements ==
    ASSUME CallInv, ArgumentsApart(prog), TailCall  PROVE Abstract!TailCall
<1> DEFINE g == Callee.fn
           W == Waiting(prog, cs)[sp]
<1>1. /\ Running /\ IsTail(Current) /\ Enters({"fn"})
      /\ reg' = CopyArgs(g, Args(Current)) /\ pc' = At(g, 1)
      /\ prog' = prog /\ cs' = cs /\ sp' = sp /\ status' = status /\ out' = out
  BY DEF TailCall
<1>2. status = "run" /\ Bottom = sp /\ Abstract!Current = Current
  BY <1>1, AtFacts
<1>3. Abstract!Below = W
  BY <1>2, TopFacts
<1>4. Abstract!Enters("fn")
  BY <1>1, TargetFacts DEF Enters
<1>5. Abstract!Activation(g, 1, reg'[g]) = Abstract!Entered
  BY <1>1, EnteredFacts
<1>6. pc'.fn = g /\ pc'.at = 1 /\ pc'.stage = "at"
  BY <1>1 DEF At
<1> HIDE DEF g, W
<1>7. Frames' = Append(W, Abstract!Activation(g, 1, reg'[g]))
  BY <1>1, <1>2, <1>6, FramesNext DEF W
<1>8. Abstract!IsTail(Current)
  BY <1>1, SameCalls
<1> QED BY <1>1, <1>2, <1>3, <1>4, <1>5, <1>7, <1>8, Zenon DEF Abstract!TailCall

LEMMA CallImplements ==
    ASSUME CallInv, ArgumentsApart(prog), CallSite  PROVE Abstract!Call
<1> DEFINE g == Callee.fn
           W == Waiting(prog, cs)[sp]
           words == Needed(Fn, pc.at + 1) \ {Current.dst}
           frame == [fn |-> pc.fn, at |-> pc.at, env |-> [w \in words |-> reg[pc.fn][w]]]
           entered == Abstract!Activation(g, 1, reg'[g])
<1>1. /\ Running /\ IsCall(Current) /\ Enters({"fn"})
      /\ reg' = CopyArgs(g, Args(Current)) /\ pc' = At(g, 1)
      /\ prog' = prog /\ status' = status /\ out' = out
  BY DEF CallSite
<1>2. /\ status = "run" /\ Bottom = sp /\ Abstract!Current = Current
      /\ Running1 = [fn |-> pc.fn, at |-> pc.at, env |-> [w \in Needed(Fn, pc.at) |-> reg[pc.fn][w]]]
      /\ Running1.fn = pc.fn /\ Running1.at = pc.at
      /\ \A w \in Needed(Fn, pc.at) : Running1.env[w] = reg[pc.fn][w]
      /\ reg[pc.fn] \in [WordsOf(Fn) -> Nat]
  BY <1>1, AtFacts
<1>3. Abstract!Top = Running1 /\ Abstract!Below = W /\ W \in Seq(FramesOf(prog, cs)) /\ sp \in 0..SlotsCap
  BY <1>2, TopFacts
<1>4. Abstract!Enters("fn")
  BY <1>1, TargetFacts DEF Enters
<1>5. entered = Abstract!Entered
  BY <1>1, EnteredFacts
<1>6. pc'.fn = g /\ pc'.at = 1 /\ pc'.stage = "at"
  BY <1>1 DEF At
<1>7. /\ sp' \in 1..SlotsCap /\ EndsFrame(prog, cs', sp') /\ FrameBase(prog, cs', sp') = sp
      /\ FrameAt(prog, cs', sp') = frame
      /\ \A i \in 0..(sp - 1) : cs'[i] = cs[i]
  BY CallFacts DEF CallInv
<1>8. IsProgram(prog) /\ IsFunction(prog, Fn) /\ pc.at \in DOMAIN Fn.code
  BY HereFacts DEF CallInv, Typed
<1>9. Waiting(prog, cs')[sp'] = Append(W, frame)
  <2>1. Waiting(prog, cs')[sp'] = Append(Waiting(prog, cs')[FrameBase(prog, cs', sp')], FrameAt(prog, cs', sp'))
    BY <1>7, <1>8, WaitingFacts
  <2>2. Waiting(prog, cs')[sp] = W
    BY <1>3, <1>7, <1>8, WaitingSame
  <2> QED BY <1>7, <2>1, <2>2, Zenon
<1>10. Frames' = Append(Append(W, frame), entered)
  <2>1. pc'.fn = g /\ pc'.at = 1 /\ prog' = prog /\ pc'.stage = "at" /\ status' = "run"
    BY <1>1, <1>2, <1>6
  <2> HIDE DEF g, W, frame
  <2> QED BY <1>9, <2>1, FramesNext DEF entered
<1> HIDE DEF g, entered
<1>11. Abstract!Waiting(Running1) = frame
  <2>1. Abstract!Code(Running1.fn)[Running1.at] = Current
    BY <1>2, Zenon DEF Abstract!Code, Current, Fn
  <2>2. Abstract!Waiting(Running1) =
          [Running1 EXCEPT !.env = [w \in Needed(Fn, pc.at + 1) \ {Current.dst} |-> Running1.env[w]]]
    BY <1>2, <2>1, SameWords, Zenon DEF Abstract!Waiting, Fn
  <2>3. words \subseteq Needed(Fn, pc.at)
    <3>1. AgreeOn(Needed(Fn, pc.at), reg[pc.fn], reg[pc.fn])
      BY DEF AgreeOn
    <3> QED BY <3>1, <1>1, <1>2, <1>8, NeededAfter DEF Current, IsCall
  <2>4. [w \in words |-> Running1.env[w]] = [w \in words |-> reg[pc.fn][w]]
    BY <1>2, <2>3
  <2>5. [Running1 EXCEPT !.env = [w \in words |-> reg[pc.fn][w]]] = frame
    BY <1>2
  <2> QED BY <2>2, <2>4, <2>5, Zenon
<1> HIDE DEF frame, W
<1>12. W \o <<frame, entered>> = Append(Append(W, frame), entered)
  BY <1>3, StackFacts
<1>13. Frames' = Abstract!Below \o <<Abstract!Waiting(Abstract!Top), Abstract!Entered>>
  BY <1>3, <1>5, <1>10, <1>11, <1>12, Zenon
<1>14. Abstract!IsCall(Current)
  BY <1>1, SameCalls
<1> QED BY <1>1, <1>2, <1>4, <1>13, <1>14, Zenon DEF Abstract!Call

(* An activation holds, of a bank, what its function needs after a call.   *)
Holds(a, f, k, e) ==
    /\ a.fn = f /\ a.at = k /\ DOMAIN a.env \subseteq WordsOf(prog[f])
    /\ Needed(prog[f], k + 1) \ {prog[f].code[k].dst} \subseteq DOMAIN a.env
    /\ \A w \in DOMAIN a.env : a.env[w] \in Nat /\ a.env[w] = e[w]
    /\ e \in [WordsOf(prog[f]) -> Nat]

(* A caller that goes on after its call holds what it needs and the result. *)
LEMMA ResumedFacts ==
    ASSUME NEW S, NEW W \in Seq(S), NEW f \in DOMAIN prog, NEW k \in DOMAIN prog[f].code,
           IsProgram(prog), IsCall(prog[f].code[k]), NEW value, NEW a, NEW e, Holds(a, f, k, e)
    PROVE  Abstract!Resumed(Append(W, a), value)
             = Append(W, Abstract!Activation(f, k + 1, [e EXCEPT ![prog[f].code[k].dst] = value]))
<1> DEFINE words == DOMAIN a.env
<1>0. /\ a.fn = f /\ a.at = k /\ words \subseteq WordsOf(prog[f])
      /\ Needed(prog[f], k + 1) \ {prog[f].code[k].dst} \subseteq words
      /\ \A w \in words : a.env[w] \in Nat
      /\ e \in [WordsOf(prog[f]) -> Nat] /\ AgreeOn(words, a.env, e)
  BY DEF Holds, AgreeOn
<1> DEFINE x == prog[f].code[k].dst
           d == Abstract!Full(f, a.env)
<1>1. Last(Append(W, a)) = a /\ Front(Append(W, a)) = W
  BY StackFacts
<1>2. Abstract!Resumed(Append(W, a), value) = Append(W, Abstract!Activation(f, k + 1, [d EXCEPT ![x] = value]))
  BY <1>0, <1>1, SameCalls, Zenon DEF Abstract!Resumed, Abstract!Code
<1>3. d \in [WordsOf(prog[f]) -> Nat] /\ AgreeOn(words, a.env, d)
  BY <1>0, FullFacts
<1>4. x \in WordsOf(prog[f]) /\ Needed(prog[f], k + 1) \subseteq WordsOf(prog[f])
  <2>1. IsFunction(prog, prog[f])
    BY FunctionFacts
  <2>2. Writes(prog[f].code[k]) = {x} /\ Writes(prog[f].code[k]) \subseteq WordsOf(prog[f])
    BY <2>1, WordFacts DEF Results, IsCall
  <2>3. x \in WordsOf(prog[f])
    BY <2>2
  <2> QED BY <2>3 DEF Needed
<1>5. AgreeOn(Needed(prog[f], k + 1), [e EXCEPT ![x] = value], [d EXCEPT ![x] = value])
  <2> HIDE DEF d, x
  <2>1. ASSUME NEW w \in Needed(prog[f], k + 1)  PROVE [e EXCEPT ![x] = value][w] = [d EXCEPT ![x] = value][w]
    <3>1. CASE w = x
      BY <3>1, <1>0, <1>3, <1>4
    <3>2. CASE w # x
      <4>1. w \in words /\ w \in WordsOf(prog[f])
        BY <3>2, <1>0, <1>4 DEF x
      <4>2. e[w] = d[w]
        BY <4>1, <1>0, <1>3 DEF AgreeOn
      <4> QED BY <3>2, <4>1, <4>2, <1>0, <1>3
    <3> QED BY <3>1, <3>2
  <2> QED BY <2>1 DEF AgreeOn
<1>6. Abstract!Activation(f, k + 1, [e EXCEPT ![x] = value]) = Abstract!Activation(f, k + 1, [d EXCEPT ![x] = value])
  BY <1>5, SameActivation
<1> QED BY <1>2, <1>6, Zenon

(* The activation that runs after a step, where that is in a call. *)
LEMMA RunningNext ==
    ASSUME prog' = prog, NEW f, NEW k, pc'.fn = f, pc'.at = k, pc'.stage # "at", NEW e, Now' = e
    PROVE  Running1' = Abstract!Activation(f, k + 1, e)
<1>1. Fn' = prog[f]
  BY DEF Fn
<1>2. Running1' = [fn |-> f, at |-> k + 1, env |-> [w \in Needed(prog[f], k + 1) |-> e[w]]]
  BY <1>1, Zenon DEF Running1
<1> QED BY <1>2, SameWords, Zenon DEF Abstract!Activation

LEMMA RunningHere ==
    ASSUME pc.stage # "at", NEW e, Now = e
    PROVE  Running1 = Abstract!Activation(pc.fn, pc.at + 1, e)
<1>1. Running1 = [fn |-> pc.fn, at |-> pc.at + 1, env |-> [w \in Needed(prog[pc.fn], pc.at + 1) |-> e[w]]]
  BY Zenon DEF Running1, Fn
<1> QED BY <1>1, SameWords, Zenon DEF Abstract!Activation

(* Where a frame is left, its caller goes on with the value returned. *)
LEMMA LeaveImplements ==
    ASSUME CallInv, Running, pc.fn # 1, sp' = sp - 1, pc' = cs[sp - 1],
           prog' = prog, reg' = reg, cs' = cs, status' = status, NEW value, ret' = value
    PROVE  Frames' = Abstract!Resumed(Abstract!Below, value) /\ Len(Frames) > 1
<1> DEFINE ra   == cs[sp - 1]
           f    == ra.fn
           k    == ra.at
           base == FrameBase(prog, cs, sp)
           s    == Saved(prog[f], k)
           x    == prog[f].code[k].dst
           a    == FrameAt(prog, cs, sp)
           V    == Waiting(prog, cs)[base]
           W    == Waiting(prog, cs)[sp]
           e    == [w \in WordsOf(prog[f]) |-> IF w \in ToSet(s) THEN cs[base + SlotOf(s, w)] ELSE reg[f][w]]
<1>1. Typed /\ Nested /\ IsProgram(prog) /\ pc.stage = "at" /\ status = "run" /\ Bottom = sp
  BY HereFacts, AtFacts DEF CallInv
<1>2. /\ sp \in 1..SlotsCap
      /\ EndsFrame(prog, cs, sp) /\ base \in 0..(sp - 1)
      /\ f \in DOMAIN prog /\ k \in DOMAIN prog[f].code /\ ra.stage = "cont"
      /\ IsCall(prog[f].code[k])
      /\ (sp - 1) - RaSlot(prog[f], k) = base
      /\ \A w \in ToSet(s) : cs[base + SlotOf(s, w)] \in Nat /\ a.env[w] = cs[base + SlotOf(s, w)]
  BY <1>1, PopFacts
<1>3. /\ Abstract!Below = W /\ Frames = Append(W, Running1)
      /\ W \in Seq(FramesOf(prog, cs)) /\ (W = <<>> <=> sp = 0)
  <2> DEFINE Z == Waiting(prog, cs)[Bottom]
  <2>1. /\ Abstract!Below = Z /\ Frames = Append(Z, Running1)
        /\ Z \in Seq(FramesOf(prog, cs)) /\ (Z = <<>> <=> Bottom = 0)
    BY <1>1, TopFacts
  <2> QED BY <1>1, <2>1, Zenon
<1>4. W = Append(V, a) /\ V \in Seq(FramesOf(prog, cs))
  <2>1. SlotsCap \in Nat /\ base \in 0..SlotsCap
    <3> HIDE DEF base
    <3> QED BY <1>1, <1>2, HereFacts
  <2> QED BY <1>1, <1>2, <2>1, WaitingFacts
<1>5. a = [fn |-> f, at |-> k, env |-> [w \in ToSet(s) |-> cs[base + SlotOf(s, w)]]]
  BY Zenon DEF FrameAt
<1>6. a.fn = f /\ a.at = k /\ DOMAIN a.env = ToSet(s)
  BY <1>5
<1>7. IsFunction(prog, prog[f])
  BY <1>1, <1>2, FunctionFacts
<1>8. ToSet(s) = Needed(prog[f], k + 1) \ {x} /\ ToSet(s) \subseteq WordsOf(prog[f])
  BY <1>2, <1>7, SavedFacts
<1>9. reg[f] \in [WordsOf(prog[f]) -> Nat]
  BY <1>1, <1>2 DEF Typed, Banks
<1> HIDE DEF s, base, x, a, V, W
<1>10. e \in [WordsOf(prog[f]) -> Nat] /\ AgreeOn(ToSet(s), a.env, e)
  BY <1>2, <1>8, <1>9 DEF AgreeOn
<1>11. Fn' = prog[f] /\ Current' = prog[f].code[k]
  BY DEF Fn, Current
<1>12. pc'.fn = f /\ pc'.at = k /\ pc'.stage = "cont"
  BY <1>2
<1>13. Bottom' = base
  BY <1>2, <1>11, <1>12 DEF Bottom
<1>14. Now' = [e EXCEPT ![x] = value]
  <2>1. Now' = [Restored(Saved(Fn, pc.at), sp - RaSlot(Fn, pc.at))' EXCEPT ![Current'.dst] = ret']
    BY <1>12, Zenon DEF Now
  <2>2. Restored(Saved(Fn, pc.at), sp - RaSlot(Fn, pc.at))' = e
    <3>1. DOMAIN reg[f] = WordsOf(prog[f])
      BY <1>9
    <3>2. Restored(Saved(Fn, pc.at), sp - RaSlot(Fn, pc.at))' =
            [w \in DOMAIN reg[f] |->
               IF w \in ToSet(Saved(prog[f], k)) THEN cs[(sp - 1) - RaSlot(prog[f], k) + SlotOf(Saved(prog[f], k), w)]
               ELSE reg[f][w]]
      BY <1>11, <1>12, Zenon DEF Restored
    <3> QED BY <1>2, <3>1, <3>2, Zenon DEF s
  <2> QED BY <2>1, <2>2, <1>11, Zenon DEF x
<1> HIDE DEF e
<1>15. Running1' = Abstract!Activation(f, k + 1, [e EXCEPT ![x] = value])
  <2>1. pc'.stage # "at"
    BY <1>12
  <2> HIDE DEF f, k, ra
  <2> QED BY <2>1, <1>12, <1>14, RunningNext
<1>16. Frames' = Append(V, Running1')
  <2>1. Frames' = Append(Waiting(prog', cs')[Bottom'], Running1')
    BY <1>1, Zenon DEF Frames
  <2> QED BY <2>1, <1>13, Zenon DEF V
<1>17. Abstract!Resumed(Append(V, a), value) = Append(V, Abstract!Activation(f, k + 1, [e EXCEPT ![x] = value]))
  <2>1. Holds(a, f, k, e)
    BY <1>2, <1>6, <1>8, <1>10 DEF Holds, AgreeOn, x
  <2> HIDE DEF f, k, ra
  <2> QED BY <1>1, <1>2, <1>4, <2>1, ResumedFacts DEF x
<1>18. Len(Frames) > 1
  <2>1. W # <<>>
    BY <1>2, <1>3
  <2> QED BY <2>1, <1>3, StackFacts
<1> QED BY <1>3, <1>4, <1>15, <1>16, <1>17, <1>18, Zenon

LEMMA ReturnImplements ==
    ASSUME CallInv, Return  PROVE Abstract!Return
<1> DEFINE value == reg[pc.fn][Current.src[1]]
<1>1. /\ Running /\ Current.op = "Ret" /\ pc.fn # 1 /\ sp' = sp - 1 /\ pc' = cs[sp - 1] /\ ret' = value
      /\ prog' = prog /\ reg' = reg /\ cs' = cs /\ status' = status /\ out' = out
  BY DEF Return
<1>2. /\ status = "run" /\ Abstract!Current = Current /\ Reads(Current) \subseteq Needed(Fn, pc.at)
      /\ \A w \in Needed(Fn, pc.at) : Running1.env[w] = reg[pc.fn][w]
  BY <1>1, AtFacts
<1>3. Abstract!Top = Running1
  BY <1>2, TopFacts
<1>4. Current.src[1] \in Reads(Current)
  <2>1. IsFunction(prog, Fn) /\ pc.at \in DOMAIN Fn.code
    BY HereFacts DEF CallInv, Typed
  <2> QED BY <1>1, <2>1, WordFacts DEF Current, OneOperand
<1>5. Abstract!Top.env[Abstract!Current.src[1]] = value
  BY <1>2, <1>3, <1>4
<1> HIDE DEF value
<1>6. Frames' = Abstract!Resumed(Abstract!Below, value) /\ Len(Frames) > 1
  BY <1>1, LeaveImplements
<1> QED BY <1>1, <1>2, <1>5, <1>6, Zenon DEF Abstract!Return

(* A host function's answer is the result of its call. *)
LEMMA AnswerImplements ==
    ASSUME CallInv, Running, Enters({"putchar", "getchar"}), NEW value, Answered(value)
    PROVE  Frames' = Abstract!Resumed(IF Abstract!IsCall(Abstract!Current) THEN Frames ELSE Abstract!Below, value)
<1>1. ret' = value /\ prog' = prog /\ reg' = reg /\ cs' = cs /\ status' = status
  BY DEF Answered
<1>2. Typed /\ IsProgram(prog) /\ IsFunction(prog, Fn) /\ pc.at \in DOMAIN Fn.code /\ pc.fn \in DOMAIN prog
  BY HereFacts DEF CallInv, Typed
<1>3. /\ status = "run" /\ Bottom = sp /\ Abstract!Current = Current
      /\ Running1.fn = pc.fn /\ Running1.at = pc.at
      /\ Running1.env = [w \in Needed(Fn, pc.at) |-> reg[pc.fn][w]]
      /\ Needed(Fn, pc.at) \subseteq WordsOf(Fn)
      /\ \A w \in Needed(Fn, pc.at) : Running1.env[w] = reg[pc.fn][w] /\ reg[pc.fn][w] \in Nat
      /\ reg[pc.fn] \in [WordsOf(Fn) -> Nat]
  BY AtFacts
<1>4. CASE IsTail(Current)
  <2>1. sp' = sp - 1 /\ pc' = cs[sp - 1]
    BY <1>4 DEF Answered
  <2>2. pc.fn # 1
    BY <1>2, <1>4 DEF IsProgram, Current, Fn
  <2>3. ~Abstract!IsCall(Abstract!Current)
    <3>1. ~IsCall(Current)
      BY <1>4 DEF IsTail, IsCall
    <3> QED BY <3>1, <1>3, SameCalls
  <2>4. Frames' = Abstract!Resumed(Abstract!Below, value)
    BY <1>1, <2>1, <2>2, LeaveImplements
  <2> QED BY <2>3, <2>4, Zenon
<1>5. CASE ~IsTail(Current)
  <2> DEFINE W == Waiting(prog, cs)[sp]
             words == Needed(Fn, pc.at)
             e == reg[pc.fn]
             f == pc.fn
             k == pc.at
  <2>1. pc' = Join(pc.fn, pc.at) /\ sp' = sp
    BY <1>5 DEF Answered
  <2>2. pc'.fn = f /\ pc'.at = k /\ pc'.stage = "join"
    BY <2>1 DEF Join
  <2>3. IsCall(Current) /\ Current = prog[f].code[k]
    BY <1>5 DEF Enters, Current, Fn
  <2>4. Abstract!IsCall(Abstract!Current)
    BY <2>3, <1>3, SameCalls
  <2>5. Frames' = Append(W, Abstract!Activation(f, k + 1, [e EXCEPT ![prog[f].code[k].dst] = value]))
    BY <1>1, <1>3, <2>1, <2>2, FramesNext
  <2>6. Frames = Append(W, Running1) /\ W \in Seq(FramesOf(prog, cs))
    <3> DEFINE Z == Waiting(prog, cs)[Bottom]
    <3>1. Frames = Append(Z, Running1) /\ Z \in Seq(FramesOf(prog, cs))
      BY <1>3, TopFacts
    <3> QED BY <1>3, <3>1, Zenon
  <2>7. Needed(prog[f], k + 1) \ {prog[f].code[k].dst} \subseteq words
    <3>1. AgreeOn(words, e, e)
      BY DEF AgreeOn
    <3> QED BY <3>1, <1>2, <1>3, <2>3, NeededAfter DEF Fn, IsCall
  <2>8. DOMAIN Running1.env = words /\ words \subseteq WordsOf(prog[f]) /\ e \in [WordsOf(prog[f]) -> Nat]
        /\ k \in DOMAIN prog[f].code
    BY <1>2, <1>3 DEF Fn
  <2>9. Holds(Running1, f, k, e)
    BY <1>3, <2>7, <2>8 DEF Holds
  <2>10. f \in DOMAIN prog /\ IsCall(prog[f].code[k])
    BY <1>2, <2>3
  <2> HIDE DEF W, e, f, k
  <2>11. Abstract!Resumed(Append(W, Running1), value)
           = Append(W, Abstract!Activation(f, k + 1, [e EXCEPT ![prog[f].code[k].dst] = value]))
    <3>1. IsProgram(prog) /\ W \in Seq(FramesOf(prog, cs)) /\ k \in DOMAIN prog[f].code
      BY <1>2, <2>6, <2>8
    <3> QED BY <3>1, <2>9, <2>10, ResumedFacts
  <2> QED BY <2>4, <2>5, <2>6, <2>11, Zenon
<1> QED BY <1>4, <1>5

LEMMA HostImplements ==
    ASSUME CallInv, Putchar \/ Getchar  PROVE Abstract!Host
<1>1. Running /\ Enters({"putchar", "getchar"})
  BY DEF Putchar, Getchar, Enters
<1>2. /\ status = "run" /\ Abstract!Current = Current
      /\ IsCall(Current) \/ IsTail(Current)
  BY <1>1, AtFacts DEF Enters
<1>3. Abstract!Top = Running1
  BY <1>2, TopFacts
<1>4. Abstract!IsCall(Current) \/ Abstract!IsTail(Current)
  BY <1>2, SameCalls
<1>5. prog' = prog /\ status' = status
  BY DEF Putchar, Getchar, Answered
<1>6. CASE Putchar
  <2> DEFINE byte == reg[pc.fn][Current.src[1]] % BYTE
  <2>1. Enters({"putchar"}) /\ Answered(byte) /\ Len(out) < MaxOut /\ out' = Append(out, byte)
    BY <1>6, Zenon DEF Putchar
  <2>2. Callee.kind = "putchar"
    BY <2>1 DEF Enters
  <2>3. Abstract!Enters("putchar")
    BY <1>1, <1>2, <2>2, TargetFacts
  <2>4. Abstract!Values(Current, Running1.env)[1] % BYTE = byte
    <3>1. Len(Args(Current)) = 1 /\ IsInstruction(prog, Current)
      BY <1>2, <2>2, CalleeFacts, HereFacts DEF CallInv
    <3>2. 1 \in DOMAIN Args(Current) /\ Args(Current)[1] = Current.src[1]
      BY <1>2, <3>1, ArgsFacts
    <3>3. Abstract!Values(Current, Running1.env)[1] = reg[pc.fn][Current.src[1]]
      BY <1>1, <1>2, <3>2, TargetFacts
    <3> QED BY <3>3, Zenon
  <2> HIDE DEF byte
  <2>5. Frames' = Abstract!Resumed(IF Abstract!IsCall(Abstract!Current) THEN Frames ELSE Abstract!Below, byte)
    BY <1>1, <2>1, AnswerImplements
  <2>6. \A key : Abstract!AskHost(key)
    BY <1>2, <1>3, <1>5, <2>1, <2>3, <2>4, <2>5, Zenon DEF Abstract!AskHost
  <2>7. \E key \in Keys : Abstract!AskHost(key)
    BY <2>6, KeysAssumption
  <2> QED BY <1>2, <1>4, <2>7, Zenon DEF Abstract!Host
<1>7. CASE Getchar
  <2>1. PICK key \in Keys : Answered(key)
    BY <1>7 DEF Getchar
  <2>2. out' = out /\ Callee.kind = "getchar"
    BY <1>7 DEF Getchar, Enters
  <2>3. Abstract!Enters("getchar") /\ ~Abstract!Enters("putchar")
    BY <1>1, <1>2, <2>2, TargetFacts
  <2>4. Frames' = Abstract!Resumed(IF Abstract!IsCall(Abstract!Current) THEN Frames ELSE Abstract!Below, key)
    BY <1>1, <2>1, AnswerImplements
  <2>5. Abstract!AskHost(key)
    BY <1>2, <1>5, <2>2, <2>3, <2>4, Zenon DEF Abstract!AskHost
  <2> QED BY <1>2, <1>4, <2>5, Zenon DEF Abstract!Host
<1> QED BY <1>6, <1>7

(* A program stops where its activations do. *)
LEMMA StopImplements ==
    ASSUME CallInv, Overflow \/ Unreachable \/ Exit
    PROVE  Abstract!Exhausted \/ Abstract!Unreachable \/ Abstract!Exit
<1>1. Running /\ prog' = prog /\ out' = out /\ status' \in {"overflow", "unreachable", "exit"}
  BY DEF Overflow, Unreachable, Exit
<1>2. status = "run" /\ Abstract!Current = Current /\ Bottom = sp
  BY <1>1, AtFacts
<1>3. Frames' = <<>>
  <2>1. status' # "run"
    BY <1>1
  <2> QED BY <2>1 DEF Frames
<1>4. CASE Overflow
  <2>1. IsCall(Current) /\ Callee.kind = "fn" /\ status' = "overflow"
    BY <1>4 DEF Overflow, Enters
  <2>2. Abstract!Enters("fn") /\ Abstract!IsCall(Current)
    BY <1>1, <2>1, TargetFacts, SameCalls
  <2> QED BY <1>1, <1>2, <1>3, <2>1, <2>2, Zenon DEF Abstract!Exhausted
<1>5. CASE Unreachable
  <2>1. (IsCall(Current) \/ IsTail(Current)) /\ Callee.kind = "null" /\ status' = "unreachable"
    BY <1>5 DEF Unreachable, Enters
  <2>2. Abstract!Enters("null") /\ Indirect(Current)
    BY <1>1, <2>1, TargetFacts, CalleeFacts DEF CallInv
  <2>3. Abstract!Indirect(Current)
    BY <2>2, SameCalls
  <2> QED BY <1>1, <1>2, <1>3, <2>1, <2>2, <2>3, Zenon DEF Abstract!Unreachable
<1>6. CASE Exit
  <2>1. Current.op = "Ret" /\ pc.fn = 1 /\ status' = "exit"
    BY <1>6 DEF Exit
  <2>2. Bottom = 0
    BY <2>1 DEF CallInv, Nested
  <2>3. Len(Frames) = 1
    <3> DEFINE W == Waiting(prog, cs)[Bottom]
    <3>1. Frames = Append(W, Running1) /\ W \in Seq(FramesOf(prog, cs)) /\ (W = <<>> <=> Bottom = 0)
      BY <1>2, TopFacts
    <3> HIDE DEF W
    <3> QED BY <3>1, <2>2, StackFacts
  <2> QED BY <1>1, <1>2, <1>3, <2>1, <2>3, Zenon DEF Abstract!Exit
<1> QED BY <1>4, <1>5, <1>6

(* Reloading the words, taking the result and the copies of a stalled tick *)
(* are steps of the machine only.                                          *)
LEMMA RestoreStutters ==
    ASSUME CallInv, Restore  PROVE Frames' = Frames
<1> DEFINE s == Saved(Fn, pc.at)
           base == sp - RaSlot(Fn, pc.at)
           e == Restored(s, base)
<1>1. /\ status = "run" /\ pc.stage = "cont" /\ pc' = Join(pc.fn, pc.at)
      /\ sp' = base /\ reg' = [reg EXCEPT ![pc.fn] = e]
      /\ prog' = prog /\ ret' = ret /\ cs' = cs /\ status' = status
  <2>1. sp' = base
    BY DEF Restore
  <2>2. reg' = [reg EXCEPT ![pc.fn] = Restored(s, sp')]
    BY Zenon DEF Restore
  <2> QED BY <2>1, <2>2 DEF Restore
<1>2. pc.fn \in DOMAIN prog /\ reg \in Banks(prog)
  BY DEF CallInv, Typed
<1>3. Bottom = base /\ Now = [e EXCEPT ![Current.dst] = ret]
  BY <1>1, Zenon DEF Bottom, Now
<1>4. reg'[pc.fn] = e
  BY <1>1, <1>2 DEF Banks
<1>5. pc'.fn = pc.fn /\ pc'.at = pc.at /\ pc'.stage = "join"
  BY <1>1 DEF Join
<1> HIDE DEF e, base, s
<1>6. Current = prog[pc.fn].code[pc.at]
  BY DEF Current, Fn
<1>7. Frames' = Append(Waiting(prog, cs)[base],
                   Abstract!Activation(pc.fn, pc.at + 1, [e EXCEPT ![Current.dst] = ret]))
  BY <1>1, <1>4, <1>5, <1>6, FramesNext
<1>8. Running1 = Abstract!Activation(pc.fn, pc.at + 1, [e EXCEPT ![Current.dst] = ret])
  BY <1>1, <1>3, RunningHere
<1>9. Frames = Append(Waiting(prog, cs)[base], Running1)
  BY <1>1, <1>3, TopFacts
<1> QED BY <1>7, <1>8, <1>9, Zenon

LEMMA TakeResultStutters ==
    ASSUME CallInv, TakeResult  PROVE Frames' = Frames
<1> DEFINE e == [reg[pc.fn] EXCEPT ![Current.dst] = ret]
           n == pc.at + 1
<1>1. /\ status = "run" /\ pc.stage = "join" /\ pc' = At(pc.fn, n)
      /\ reg' = [reg EXCEPT ![pc.fn][Current.dst] = ret]
      /\ prog' = prog /\ cs' = cs /\ sp' = sp /\ status' = status
  BY DEF TakeResult
<1>2. /\ IsFunction(prog, Fn) /\ IsCall(Current) /\ ret \in Nat
      /\ pc.fn \in DOMAIN prog /\ pc.at \in DOMAIN Fn.code /\ reg \in Banks(prog)
  BY <1>1, HereFacts DEF CallInv, Typed
<1>3. Current.dst \in WordsOf(Fn)
  BY <1>2, WordFacts DEF Current, Results, IsCall
<1>4. reg'[pc.fn] = e
  BY <1>1, <1>2, <1>3, BankFacts DEF Fn
<1>5. pc'.fn = pc.fn /\ pc'.at = n /\ pc'.stage = "at"
  BY <1>1 DEF At
<1>6. Bottom = sp /\ Now = e /\ pc.stage # "at"
  BY <1>1 DEF Bottom, Now
<1> HIDE DEF e, n
<1>7. Frames' = Append(Waiting(prog, cs)[sp], Abstract!Activation(pc.fn, n, e))
  BY <1>1, <1>4, <1>5, FramesNext
<1>8. Running1 = Abstract!Activation(pc.fn, n, e)
  BY <1>6, RunningHere DEF n
<1>9. Frames = Append(Waiting(prog, cs)[sp], Running1)
  BY <1>1, <1>6, TopFacts
<1> QED BY <1>7, <1>8, <1>9, Zenon

LEMMA StalledTailStutters ==
    ASSUME CallInv, ArgumentsApart(prog), StalledTail  PROVE Frames' = Frames
<1> DEFINE t == Fn.code[pc.at + 1]
           r == CopyArgs(t.arg, t.src)
<1>1. /\ Running /\ Current.op = "Key" /\ t.op = "Tail" /\ reg' = r
      /\ prog' = prog /\ pc' = pc /\ cs' = cs /\ sp' = sp /\ status' = status
  BY DEF StalledTail
<1>2. \A w \in Needed(Fn, pc.at) : r[pc.fn][w] = reg[pc.fn][w]
  BY <1>1, StallFacts DEF CallInv
<1>3. /\ status = "run" /\ pc.stage = "at" /\ Bottom = sp
      /\ Running1 = [fn |-> pc.fn, at |-> pc.at, env |-> [w \in Needed(Fn, pc.at) |-> reg[pc.fn][w]]]
  BY <1>1, AtFacts
<1> HIDE DEF r, t
<1>4. Frames' = Append(Waiting(prog, cs)[sp], Abstract!Activation(pc.fn, pc.at, r[pc.fn]))
  BY <1>1, <1>3, FramesNext
<1>5. AgreeOn(Needed(prog[pc.fn], pc.at), r[pc.fn], reg[pc.fn])
  BY <1>2 DEF AgreeOn, Fn
<1>6. Abstract!Activation(pc.fn, pc.at, r[pc.fn]) = Abstract!Activation(pc.fn, pc.at, reg[pc.fn])
  BY <1>5, SameActivation
<1>7. Running1 = Abstract!Activation(pc.fn, pc.at, reg[pc.fn])
  BY <1>3, SameWords, Zenon DEF Abstract!Activation, Fn
<1>8. Frames = Append(Waiting(prog, cs)[sp], Running1)
  BY <1>3, TopFacts
<1> QED BY <1>4, <1>6, <1>7, <1>8, Zenon

(* The machine starts as one activation of the entry, its words all 0. *)
LEMMA InitImplements ==
    ASSUME Init  PROVE Abstract!ActInit(Programs)
<1>1. /\ prog \in Programs /\ pc = At(1, 1) /\ sp = 0 /\ out = <<>> /\ status = "run"
      /\ reg = [f \in DOMAIN prog |-> [w \in WordsOf(prog[f]) |-> 0]]
  BY DEF Init
<1>2. CallInv
  BY CallInvInit
<1>3. IsProgram(prog) /\ 1 \in DOMAIN prog /\ pc.fn = 1 /\ pc.at = 1 /\ pc.stage = "at"
  BY <1>1, <1>2, HereFacts DEF At, CallInv, Typed
<1>4. /\ Bottom = 0
      /\ Running1 = [fn |-> 1, at |-> 1, env |-> [w \in Needed(prog[1], 1) |-> reg[1][w]]]
      /\ Needed(prog[1], 1) \subseteq WordsOf(prog[1])
  <2>1. Running
    BY <1>1, <1>3 DEF Running
  <2> QED BY <1>1, <1>2, <1>3, <2>1, AtFacts DEF Fn
<1>5. Frames = <<Running1>>
  <2>1. Frames = Append(Waiting(prog, cs)[0], Running1)
    BY <1>1, <1>2, <1>4, TopFacts
  <2>2. Waiting(prog, cs)[0] = <<>>
    BY <1>3, WaitingFacts
  <2>3. Append(<<>>, Running1) = <<Running1>>
    OBVIOUS
  <2> QED BY <2>1, <2>2, <2>3, Zenon
<1>6. Abstract!Full(1, <<>>) = [w \in WordsOf(prog[1]) |-> 0]
  <2>1. DOMAIN <<>> = {}
    OBVIOUS
  <2>2. Abstract!Full(1, <<>>) = [w \in WordsOf(prog[1]) |-> IF w \in DOMAIN <<>> THEN <<>>[w] ELSE 0]
    BY SameWords, Zenon DEF Abstract!Full
  <2> QED BY <2>1, <2>2
<1>7. reg[1] = [w \in WordsOf(prog[1]) |-> 0]
  BY <1>1, <1>3
<1>8. Running1 = Abstract!Activation(1, 1, Abstract!Full(1, <<>>))
  BY <1>4, <1>6, <1>7, SameWords, Zenon DEF Abstract!Activation
<1> QED BY <1>1, <1>5, <1>8, Zenon DEF Abstract!ActInit

LEMMA NextImplements ==
    ASSUME CallInv, ArgumentsApart(prog), [Next]_vars  PROVE [Abstract!ActNext]_(Abstract!vars)
<1>1. CASE Step \/ CallSite \/ TailCall \/ ReadKey \/ Return \/ Putchar \/ Getchar
  <2>1. Abstract!Step \/ Abstract!Call \/ Abstract!TailCall \/ Abstract!ReadKey \/ Abstract!Return \/ Abstract!Host
    BY <1>1, StepImplements, CallImplements, TailCallImplements, ReadKeyImplements, ReturnImplements,
       HostImplements, Zenon
  <2> QED BY <2>1, Zenon DEF Abstract!ActNext
<1>2. CASE Overflow \/ Unreachable \/ Exit
  BY <1>2, StopImplements, Zenon DEF Abstract!ActNext
<1>3. CASE Restore \/ TakeResult \/ StalledTail
  <2>1. Frames' = Frames
    BY <1>3, RestoreStutters, TakeResultStutters, StalledTailStutters, Zenon
  <2>2. prog' = prog /\ out' = out /\ status' = status
    BY <1>3 DEF Restore, TakeResult, StalledTail
  <2> QED BY <2>1, <2>2, Zenon DEF Abstract!vars
<1>4. CASE UNCHANGED vars
  <2>1. /\ prog' = prog /\ slots' = slots /\ pc' = pc /\ reg' = reg /\ ret' = ret /\ cs' = cs /\ sp' = sp
        /\ status' = status /\ out' = out
    BY <1>4 DEF vars
  <2>2. Fn' = Fn /\ Current' = Current
    BY <2>1 DEF Fn, Current
  <2>3. Bottom' = Bottom /\ Now' = Now
    BY <2>1, <2>2, Zenon DEF Bottom, Now, Restored
  <2>4. Running1' = Running1
    BY <2>1, <2>2, <2>3, Zenon DEF Running1
  <2>5. Frames' = Frames
    BY <2>1, <2>3, <2>4, Zenon DEF Frames
  <2> QED BY <2>1, <2>5, Zenon DEF Abstract!vars
<1> QED BY <1>1, <1>2, <1>3, <1>4, Zenon DEF Next

(* Static registers and one flat stack behave as if every activation had   *)
(* words of its own, through calls direct and indirect, recursion, tail    *)
(* calls, host calls, returns and exhaustion, for all programs in which no *)
(* function that may call itself hands one of its parameters over as       *)
(* another (copy_args_to_callee copies one word after the other).          *)
THEOREM CallsImplementActivations ==
    ASSUME \A pr \in Programs : ArgumentsApart(pr)
    PROVE  Spec => ImplementsActivations
<1>1. Init => Abstract!ActInit(Programs)
  BY InitImplements
<1>2. CallInv /\ [Next]_vars => [Abstract!ActNext]_(Abstract!vars)
  <2>1. CallInv => ArgumentsApart(prog)
    BY DEF CallInv, Typed
  <2> QED BY <2>1, NextImplements
<1> QED BY <1>1, <1>2, CallInvHolds, PTL DEF Spec, ImplementsActivations

(* In the same programs every parameter starts with the value that its     *)
(* argument had at the call, as if the copies were made at once.           *)
THEOREM CopiesAreParallel ==
    ASSUME \A pr \in Programs : ArgumentsApart(pr)
    PROVE  Spec => ArgumentsParallel
<1> DEFINE P == CallSite \/ TailCall =>
                  \A k \in DOMAIN Args(Current) :
                      reg'[Callee.fn][prog[Callee.fn].params[k]] = reg[pc.fn][Args(Current)[k]]
<1>1. CallInv /\ [Next]_vars => [P]_vars
  <2> SUFFICES ASSUME CallInv, CallSite \/ TailCall
               PROVE  \A k \in DOMAIN Args(Current) :
                        reg'[Callee.fn][prog[Callee.fn].params[k]] = reg[pc.fn][Args(Current)[k]]
    OBVIOUS
  <2>1. Enters({"fn"}) /\ reg' = CopyArgs(Callee.fn, Args(Current))
    BY DEF CallSite, TailCall
  <2>2. Typed /\ ArgumentsApart(prog)
    BY DEF CallInv, Typed
  <2> QED BY <2>1, <2>2, EnterFacts
<1> QED BY <1>1, CallInvHolds, PTL DEF Spec, ArgumentsParallel
=============================================================================
