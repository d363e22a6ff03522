--------------------------- MODULE RegAlloc_proofs ---------------------------
(***************************************************************************)
(* The allocator keeps apart what must not share a register, for every     *)
(* program, every schedule of it, every numbering of its blocks and every  *)
(* limit, in the first attempt and in the second.  First, what the         *)
(* operators of RegAlloc compute: running sums, owners, the liveness       *)
(* iteration against liveness by paths, and intervals that cover every     *)
(* position at which their registers matter.                               *)
(***************************************************************************)
EXTENDS RegAlloc, LinearScan_proofs, NatLemmas

-----------------------------------------------------------------------------
(* Running sums. *)

LEMMA SumToFacts ==
    ASSUME NEW L \in Nat, NEW f \in [1..L -> Nat]
    PROVE  /\ SumTo(f) \in [0..L -> Nat]
           /\ SumTo(f)[0] = 0
           /\ \A n \in 1..L : SumTo(f)[n] = SumTo(f)[n - 1] + f[n]
<1> DEFINE G == [x \in Nat \X Nat |-> x[2] + IF x[1] \in 1..L THEN f[x[1]] ELSE 0]
           Eq(s) == s = [n \in 0..L |-> IF n = 0 THEN 0 ELSE s[n - 1] + f[n]]
           t == SumTo(f)
<1>1. G \in [Nat \X Nat -> Nat]
  <2>1. ASSUME NEW x \in Nat \X Nat
        PROVE  x[2] + (IF x[1] \in 1..L THEN f[x[1]] ELSE 0) \in Nat
    OBVIOUS
  <2> QED BY <2>1
<1>2. PICK g \in [Nat -> Nat] : Recurses(g, 0, G)
  <2> HIDE DEF G
  <2>1. 0 \in Nat
    OBVIOUS
  <2> QED BY <1>1, <2>1, NatRecursion
<1> DEFINE s == [n \in 0..L |-> g[n]]
<1>3. ASSUME NEW n \in 1..L  PROVE s[n] = s[n - 1] + f[n]
  <2>1. n \in Nat \ {0} /\ n - 1 \in Nat /\ n \in 0..L /\ n - 1 \in 0..L
    OBVIOUS
  <2>2. g[n] = G[<<n, g[n - 1]>>] /\ g[n - 1] \in Nat
    <3> HIDE DEF G
    <3> QED BY <1>2, <2>1 DEF Recurses
  <2>3. G[<<n, g[n - 1]>>] = g[n - 1] + f[n]
    BY <2>1, <2>2
  <2> QED BY <2>1, <2>2, <2>3
<1>4. Eq(s)
  <2>1. \A n \in 0..L : s[n] = IF n = 0 THEN 0 ELSE s[n - 1] + f[n]
    <3>1. s[0] = 0
      BY <1>2 DEF Recurses
    <3>2. \A n \in 0..L : n # 0 => n \in 1..L
      OBVIOUS
    <3> HIDE DEF s
    <3> QED BY <1>3, <3>1, <3>2
  <2>2. s = [n \in 0..L |-> s[n]]
    OBVIOUS
  <2> HIDE DEF s
  <2> QED BY <2>1, <2>2
<1>5. Eq(t)
  <2>1. Len(f) = L
    OBVIOUS
  <2>2. t = CHOOSE u : Eq(u)
    BY <2>1 DEF SumTo
  <2> HIDE DEF Eq, s, t
  <2> QED BY <1>4, <2>2
<1> HIDE DEF t
<1>6. t[0] = 0 /\ \A n \in 1..L : t[n] = t[n - 1] + f[n]
  <2>1. \A n \in 0..L : t[n] = IF n = 0 THEN 0 ELSE t[n - 1] + f[n]
    BY <1>5
  <2>2. 0 \in 0..L /\ \A n \in 1..L : n \in 0..L /\ n # 0
    OBVIOUS
  <2> HIDE DEF Eq
  <2> QED BY <2>1, <2>2
<1> HIDE DEF Eq
<1> DEFINE S == {n \in Nat : n <= L => t[n] \in Nat}
<1>7. 0 \in S
  BY <1>6
<1>8. ASSUME NEW n \in Nat, n \in S  PROVE n + 1 \in S
  <2> SUFFICES ASSUME n + 1 <= L  PROVE t[n + 1] \in Nat
    OBVIOUS
  <2>1. t[n] \in Nat /\ n + 1 \in 1..L /\ (n + 1) - 1 = n
    BY <1>8
  <2>2. t[n + 1] = t[n] + f[n + 1]
    BY <1>6, <2>1
  <2>3. t[n] \in Nat /\ f[n + 1] \in Nat
    BY <2>1
  <2>4. \A x, y \in Nat : x + y \in Nat
    OBVIOUS
  <2> HIDE DEF S
  <2> QED BY <2>2, <2>3, <2>4, Zenon
<1>9. \A n \in 0..L : t[n] \in Nat
  <2>1. Nat \subseteq S
    <3> HIDE DEF S
    <3> QED BY <1>7, <1>8, NatInduct
  <2> QED BY <2>1
<1>10. t \in [0..L -> Nat]
  <2>1. t = [n \in 0..L |-> t[n]]
    BY <1>5 DEF Eq
  <2> QED BY <1>9, <2>1
<1> QED BY <1>6, <1>10 DEF t

LEMMA SumToGrows ==
    ASSUME NEW L \in Nat, NEW f \in [1..L -> Nat], NEW m \in 0..L, NEW n \in 0..L, m <= n
    PROVE  SumTo(f)[m] <= SumTo(f)[n]
<1> DEFINE t == SumTo(f)
           S == {k \in Nat : m + k <= L => t[m] <= t[m + k]}
<1>0. m \in Nat /\ n \in Nat
  OBVIOUS
<1>1. t \in [0..L -> Nat] /\ \A k \in 1..L : t[k] = t[k - 1] + f[k]
  BY SumToFacts
<1> HIDE DEF t
<1>2. 0 \in S
  BY <1>0, <1>1
<1>3. ASSUME NEW k \in Nat, k \in S  PROVE k + 1 \in S
  <2> SUFFICES ASSUME m + (k + 1) <= L  PROVE t[m] <= t[m + (k + 1)]
    OBVIOUS
  <2>1. /\ t[m] <= t[m + k] /\ m + (k + 1) \in 1..L /\ (m + (k + 1)) - 1 = m + k
        /\ m + k \in 0..L
    BY <1>0, <1>3
  <2>2. f[m + (k + 1)] \in Nat /\ t[m] \in Nat /\ t[m + k] \in Nat
    BY <1>0, <1>1, <2>1
  <2>3. t[m + (k + 1)] = t[m + k] + f[m + (k + 1)]
    BY <1>1, <2>1
  <2> HIDE DEF S
  <2> QED BY <2>1, <2>2, <2>3
<1>4. n - m \in S
  <2>1. n - m \in Nat
    BY <1>0
  <2> HIDE DEF S
  <2> QED BY <1>2, <1>3, <2>1, NatInduct
<1> QED BY <1>0, <1>4 DEF t

-----------------------------------------------------------------------------
(* Programs. *)

LEMMA BlockFacts ==
    ASSUME NEW bk \in Block
    PROVE  /\ Len(bk.insts) \in Nat /\ DOMAIN bk.insts = 1..Len(bk.insts)
           /\ DOMAIN Insts(bk) = 1..(Len(bk.insts) + 1)
           /\ \A k \in DOMAIN bk.insts : bk.insts[k] \in Inst /\ Insts(bk)[k] = bk.insts[k]
           /\ Insts(bk)[Len(bk.insts) + 1] = [use |-> bk.use, def |-> bk.def]
           /\ \A k \in DOMAIN Insts(bk) : Insts(bk)[k].use \cup Insts(bk)[k].def \subseteq BlockRegs(bk)
           /\ BlockRegs(bk) \subseteq Regs
<1> DEFINE s == bk.insts
           t == [use |-> bk.use, def |-> bk.def]
<1>1. s \in Seq(Inst) /\ bk.use \subseteq Regs /\ bk.def \subseteq Regs
  BY DEF Block
<1> HIDE DEF s, t
<1>2. Len(s) \in Nat /\ DOMAIN s = 1..Len(s) /\ \A k \in DOMAIN s : s[k] \in Inst
  BY <1>1
<1>3. /\ DOMAIN Append(s, t) = 1..(Len(s) + 1)
      /\ Append(s, t)[Len(s) + 1] = t
      /\ \A k \in 1..Len(s) : Append(s, t)[k] = s[k]
  BY <1>1
<1>4. Insts(bk) = Append(s, t)
  BY DEF Insts, s, t
<1>5. \A k \in DOMAIN s : s[k].use \subseteq Regs /\ s[k].def \subseteq Regs
  BY <1>2 DEF Inst
<1>6. BlockRegs(bk) = bk.use \cup bk.def \cup UNION {s[k].use \cup s[k].def : k \in DOMAIN s}
  BY DEF BlockRegs, s
<1>7. BlockRegs(bk) \subseteq Regs
  BY <1>1, <1>5, <1>6
<1>8. \A k \in DOMAIN s : s[k].use \cup s[k].def \subseteq BlockRegs(bk)
  BY <1>6
<1>9. ASSUME NEW k \in DOMAIN Insts(bk)
      PROVE  Insts(bk)[k].use \cup Insts(bk)[k].def \subseteq BlockRegs(bk)
  <2>1. CASE k = Len(s) + 1
    <3>1. Insts(bk)[k] = t
      BY <2>1, <1>3, <1>4
    <3> QED BY <3>1, <1>6 DEF t
  <2>2. CASE k \in DOMAIN s
    <3>1. Insts(bk)[k] = s[k]
      BY <2>2, <1>2, <1>3, <1>4
    <3> QED BY <2>2, <3>1, <1>8
  <2>3. k = Len(s) + 1 \/ k \in 1..Len(s)
    <3>1. k \in 1..(Len(s) + 1)
      BY <1>3, <1>4
    <3> QED BY <3>1, <1>2
  <2> QED BY <2>1, <2>2, <2>3, <1>2
<1>10. \A k \in DOMAIN s : s[k] \in Inst /\ Insts(bk)[k] = s[k]
  BY <1>2, <1>3, <1>4
<1>11. Insts(bk)[Len(s) + 1] = t /\ DOMAIN Insts(bk) = 1..(Len(s) + 1)
  BY <1>3, <1>4
<1> QED BY <1>2, <1>7, <1>9, <1>10, <1>11 DEF s, t

LEMMA ProgramFacts ==
    ASSUME NEW pr, IsProgram(pr)
    PROVE  /\ Len(pr) \in Nat \ {0} /\ DOMAIN pr = 1..Len(pr)
           /\ \A n \in DOMAIN pr :
                /\ pr[n].locals \in Nat
                /\ Len(pr[n].blocks) \in Nat \ {0}
                /\ DOMAIN pr[n].blocks = 1..Len(pr[n].blocks)
                /\ \A b \in DOMAIN pr[n].blocks :
                     /\ pr[n].blocks[b] \in Block
                     /\ pr[n].blocks[b].succ \subseteq DOMAIN pr[n].blocks
<1> DEFINE F == [locals : Nat, blocks : Seq(Block)]
<1>1. pr \in Seq(F) /\ pr # <<>>
  BY DEF IsProgram
<1>2. Len(pr) \in Nat \ {0} /\ DOMAIN pr = 1..Len(pr) /\ \A n \in DOMAIN pr : pr[n] \in F
  <2> HIDE DEF F
  <2> QED BY <1>1
<1>3. ASSUME NEW n \in DOMAIN pr
      PROVE  pr[n].locals \in Nat /\ pr[n].blocks \in Seq(Block) /\ pr[n].blocks # <<>>
  BY <1>2 DEF IsProgram
<1>4. ASSUME NEW s \in Seq(Block), s # <<>>
      PROVE  Len(s) \in Nat \ {0} /\ DOMAIN s = 1..Len(s) /\ \A b \in DOMAIN s : s[b] \in Block
  BY <1>4
<1>5. \A n \in DOMAIN pr : \A b \in DOMAIN pr[n].blocks : pr[n].blocks[b].succ \subseteq DOMAIN pr[n].blocks
  BY DEF IsProgram
<1> HIDE DEF F
<1> QED BY <1>2, <1>3, <1>4, <1>5

LEMMA RegsFinite ==
    ASSUME NEW pr, IsProgram(pr)
    PROVE  /\ \A n \in DOMAIN pr : FuncRegs(pr[n]) \subseteq ProgRegs(pr)
           /\ \A n \in DOMAIN pr : \A b \in DOMAIN pr[n].blocks :
                BlockRegs(pr[n].blocks[b]) \subseteq FuncRegs(pr[n])
           /\ ProgRegs(pr) \subseteq Regs
           /\ Regs \subseteq Nat
           /\ IsFiniteSet(Regs)
<1>1. \A n \in DOMAIN pr : \A b \in DOMAIN pr[n].blocks : BlockRegs(pr[n].blocks[b]) \subseteq Regs
  BY BlockFacts, ProgramFacts
<1>2. \A n \in DOMAIN pr : FuncRegs(pr[n]) \subseteq Regs
  BY <1>1 DEF FuncRegs
<1>3. ProgRegs(pr) \subseteq Regs
  BY <1>2 DEF ProgRegs
<1>4. Regs \subseteq Nat /\ IsFiniteSet(Regs)
  <2>1. MAX_REG \in Int
    BY DEF MAX_REG
  <2>2. 0 \in Int /\ 0..MAX_REG \subseteq Nat
    BY <2>1
  <2>3. IsFiniteSet(0..MAX_REG)
    BY <2>1, <2>2, FS_Interval
  <2> QED BY <2>2, <2>3 DEF Regs
<1> QED BY <1>3, <1>4 DEF FuncRegs, ProgRegs

-----------------------------------------------------------------------------
(* Owners. *)

LEMMA LocalFacts ==
    ASSUME NEW pr, IsProgram(pr)
    PROVE  /\ LocalBytes(pr) \in [0..Len(pr) -> Nat]
           /\ LocalBytes(pr)[0] = 0
           /\ \A m, n \in 0..Len(pr) : m <= n => LocalBytes(pr)[m] <= LocalBytes(pr)[n]
<1> DEFINE L == Len(pr)
           f == [n \in DOMAIN pr |-> 4 * pr[n].locals]
<1>1. L \in Nat /\ DOMAIN pr = 1..L /\ \A n \in DOMAIN pr : pr[n].locals \in Nat
  BY ProgramFacts
<1>2. \A n \in DOMAIN pr : 4 * pr[n].locals \in Nat
  BY <1>1
<1>3. f \in [1..L -> Nat]
  BY <1>1, <1>2
<1>4. LocalBytes(pr) = SumTo(f)
  BY DEF LocalBytes
<1> HIDE DEF L, f
<1>5. /\ SumTo(f) \in [0..L -> Nat] /\ SumTo(f)[0] = 0
  BY <1>1, <1>3, SumToFacts
<1>6. \A m, n \in 0..L : m <= n => SumTo(f)[m] <= SumTo(f)[n]
  BY <1>1, <1>3, SumToGrows
<1> QED BY <1>4, <1>5, <1>6 DEF L

(* Every register from VREG_START on that a program names has one owner.   *)
LEMMA Ownership ==
    ASSUME NEW pr, IsProgram(pr)
    PROVE  /\ \A n \in DOMAIN pr : /\ OwnedBy(pr, n) \subseteq {r \in Nat : r >= VREG_START}
                                   /\ IsFiniteSet(OwnedBy(pr, n))
           /\ \A m, n \in DOMAIN pr : m # n => OwnedBy(pr, m) \cap OwnedBy(pr, n) = {}
           /\ \A r \in ProgRegs(pr) : r >= VREG_START => \E n \in DOMAIN pr : r \in OwnedBy(pr, n)
           /\ \A n \in DOMAIN pr : \A r \in FuncRegs(pr[n]) :
                r \notin OwnedBy(pr, n) => r < FreshStart(pr)
<1> DEFINE L == Len(pr)
           c == LocalBytes(pr)
<1>1. L \in Nat \ {0} /\ DOMAIN pr = 1..L
  BY ProgramFacts
<1>2. /\ c \in [0..L -> Nat] /\ c[0] = 0
      /\ \A m, n \in 0..L : m <= n => c[m] <= c[n]
  BY LocalFacts
<1>3. /\ FreshStart(pr) = VREG_START + c[L]
      /\ \A n : LocalsOf(pr, n) = (VREG_START + c[n - 1])..(VREG_START + c[n] - 1)
  BY DEF FreshStart, LocalsOf
<1> HIDE DEF L, c
<1>4. ASSUME NEW n \in 1..L
      PROVE  n - 1 \in 0..L /\ n \in 0..L /\ c[n - 1] \in Nat /\ c[n] \in Nat
  BY <1>1, <1>2
<1>5. c[L] \in Nat /\ FreshStart(pr) \in Nat /\ FreshStart(pr) >= VREG_START
  BY <1>1, <1>2, <1>3 DEF VREG_START
<1>6. \A n \in 1..L : LocalsOf(pr, n) \subseteq {r \in Nat : r >= VREG_START /\ r < FreshStart(pr)}
  <2> SUFFICES ASSUME NEW n \in 1..L, NEW r \in LocalsOf(pr, n)
               PROVE  r \in Nat /\ r >= VREG_START /\ r < FreshStart(pr)
    OBVIOUS
  <2>1. c[n] <= c[L] /\ c[n] \in Nat /\ c[n - 1] \in Nat /\ c[L] \in Nat
    BY <1>1, <1>2, <1>4
  <2>2. r \in (VREG_START + c[n - 1])..(VREG_START + c[n] - 1)
    BY <1>3
  <2>3. FreshStart(pr) = VREG_START + c[L]
    BY <1>3
  <2> QED BY <2>1, <2>2, <2>3 DEF VREG_START
<1>7. \A n \in 1..L : FuncRegs(pr[n]) \subseteq Nat /\ IsFiniteSet(FuncRegs(pr[n]))
  <2> SUFFICES ASSUME NEW n \in 1..L
               PROVE  FuncRegs(pr[n]) \subseteq Nat /\ IsFiniteSet(FuncRegs(pr[n]))
    OBVIOUS
  <2>1. FuncRegs(pr[n]) \subseteq Regs /\ Regs \subseteq Nat /\ IsFiniteSet(Regs)
    BY <1>1, RegsFinite
  <2> QED BY <2>1, FS_Subset
<1>8. ASSUME NEW n \in 1..L
      PROVE  /\ OwnedBy(pr, n) \subseteq {r \in Nat : r >= VREG_START}
             /\ IsFiniteSet(OwnedBy(pr, n))
  <2> DEFINE fresh == {r \in FuncRegs(pr[n]) : r >= FreshStart(pr)}
  <2>1. OwnedBy(pr, n) = LocalsOf(pr, n) \cup fresh
    BY DEF OwnedBy
  <2>2. fresh \subseteq {r \in Nat : r >= VREG_START}
    BY <1>5, <1>7 DEF VREG_START
  <2>3. IsFiniteSet(fresh)
    <3>1. fresh \in SUBSET FuncRegs(pr[n])
      OBVIOUS
    <3> QED BY <3>1, <1>7, FS_Subset
  <2>4. IsFiniteSet(LocalsOf(pr, n))
    <3>1. VREG_START + c[n - 1] \in Int /\ VREG_START + c[n] - 1 \in Int
      BY <1>4 DEF VREG_START
    <3> QED BY <3>1, <1>3, FS_Interval
  <2> HIDE DEF fresh
  <2>5. IsFiniteSet(LocalsOf(pr, n) \cup fresh)
    BY <2>3, <2>4, FS_Union
  <2> QED BY <2>1, <2>2, <2>5, <1>6
<1>9. ASSUME NEW m \in 1..L, NEW n \in 1..L, m < n
      PROVE  OwnedBy(pr, m) \cap OwnedBy(pr, n) = {}
  <2> SUFFICES ASSUME NEW r \in OwnedBy(pr, m), r \in OwnedBy(pr, n)  PROVE FALSE
    OBVIOUS
  <2>1. CASE r \in LocalsOf(pr, m) /\ r \in LocalsOf(pr, n)
    <3>1. c[m] <= c[n - 1]
      BY <1>2, <1>4, <1>9
    <3>2. r \in (VREG_START + c[m - 1])..(VREG_START + c[m] - 1)
      BY <2>1, <1>3
    <3>3. r \in (VREG_START + c[n - 1])..(VREG_START + c[n] - 1)
      BY <2>1, <1>3
    <3> QED BY <3>1, <3>2, <3>3, <1>4 DEF VREG_START
  <2>2. CASE r \in FuncRegs(pr[m]) /\ r \in FuncRegs(pr[n]) /\ r >= FreshStart(pr)
    <3>0. m \in DOMAIN pr /\ n \in DOMAIN pr /\ m # n
      BY <1>1, <1>9
    <3>1. r < FreshStart(pr)
      BY <2>2, <3>0, Zenon DEF IsProgram
    <3>2. r \in Nat
      BY <2>2, <1>7
    <3> QED BY <2>2, <3>1, <3>2, <1>5
  <2>3. \/ r \in LocalsOf(pr, m)
        \/ r \in FuncRegs(pr[m]) /\ r >= FreshStart(pr)
    BY DEF OwnedBy
  <2>4. \/ r \in LocalsOf(pr, n)
        \/ r \in FuncRegs(pr[n]) /\ r >= FreshStart(pr)
    BY DEF OwnedBy
  <2>5. r \in Nat /\ (r \in LocalsOf(pr, m) \/ r \in LocalsOf(pr, n) => ~(r >= FreshStart(pr)))
    BY <1>5, <1>6, <1>8
  <2> QED BY <2>1, <2>2, <2>3, <2>4, <2>5
<1>10. \A m, n \in 1..L : m # n => OwnedBy(pr, m) \cap OwnedBy(pr, n) = {}
  <2>1. \A m, n \in 1..L : m # n => m < n \/ n < m
    BY <1>1
  <2> QED BY <2>1, <1>9
<1>11. ASSUME NEW r \in ProgRegs(pr), r >= VREG_START
       PROVE  \E n \in 1..L : r \in OwnedBy(pr, n)
  <2>1. r \in Nat
    BY RegsFinite
  <2>2. CASE r >= FreshStart(pr)
    <3>1. PICK n \in 1..L : r \in FuncRegs(pr[n])
      BY <1>1 DEF ProgRegs
    <3> QED BY <2>2, <3>1 DEF OwnedBy
  <2>3. CASE r < FreshStart(pr)
    <3> DEFINE S == {n \in 0..L : r < VREG_START + c[n]}
    <3>1. S \in SUBSET Nat /\ L \in S
      BY <2>3, <1>1, <1>3
    <3>2. PICK n \in S : \A k \in S : n <= k
      <4> HIDE DEF S
      <4> QED BY <3>1, LeastNumber
    <3>3. n \in 1..L
      <4>1. n # 0
        BY <1>2, <1>11, <2>1 DEF VREG_START
      <4> QED BY <4>1, <1>1
    <3>4. n - 1 \notin S /\ n - 1 \in 0..L
      BY <3>2, <3>3, <1>1
    <3>5. ~(r < VREG_START + c[n - 1]) /\ r < VREG_START + c[n]
      BY <3>4
    <3>6. r \in (VREG_START + c[n - 1])..(VREG_START + c[n] - 1)
      BY <2>1, <3>3, <3>5, <1>4 DEF VREG_START
    <3>7. r \in OwnedBy(pr, n)
      BY <3>6, <1>3 DEF OwnedBy
    <3> QED BY <3>3, <3>7
  <2> QED BY <2>1, <2>2, <2>3, <1>5
<1>12. ASSUME NEW n \in 1..L, NEW r \in FuncRegs(pr[n]), r \notin OwnedBy(pr, n)
       PROVE  r < FreshStart(pr)
  <2>1. ~(r >= FreshStart(pr)) /\ r \in Nat
    BY <1>12, <1>7 DEF OwnedBy
  <2> QED BY <2>1, <1>5
<1> QED BY <1>1, <1>8, <1>10, <1>11, <1>12

-----------------------------------------------------------------------------
(* Liveness. *)

(* The rounds only add pairs, and once a round adds none the pairs are     *)
(* closed under it.                                                        *)
LEMMA LiveClosed ==
    ASSUME NEW blocks, NEW own, IsFiniteSet(DOMAIN blocks), IsFiniteSet(own)
    PROVE  /\ LiveIns(blocks, own) \subseteq (DOMAIN blocks) \X own
           /\ LiveRound(blocks, own, LiveIns(blocks, own)) = LiveIns(blocks, own)
<1> DEFINE S == (DOMAIN blocks) \X own
           R(live) == LiveRound(blocks, own, live)
           G == [x \in Nat \X SUBSET S |-> R(x[2])]
           Eq(s) == s = [n \in Nat |-> IF n = 0 THEN {} ELSE R(s[n - 1])]
           t == LiveRounds(blocks, own)
<1>1. \A live : R(live) \in SUBSET S
  BY DEF LiveRound
<1>2. \A p, q : p \subseteq q => R(p) \subseteq R(q)
  BY DEF LiveRound
<1> HIDE DEF R, S
<1>3. G \in [Nat \X SUBSET S -> SUBSET S]
  BY <1>1
<1>4. PICK g \in [Nat -> SUBSET S] : Recurses(g, {}, G)
  <2> HIDE DEF G
  <2>1. {} \in SUBSET S
    OBVIOUS
  <2> QED BY <1>3, <2>1, NatRecursion
<1>5. g[0] = {} /\ \A n \in Nat \ {0} : g[n] = R(g[n - 1])
  <2>1. ASSUME NEW n \in Nat \ {0}  PROVE g[n] = R(g[n - 1])
    <3>1. n - 1 \in Nat /\ g[n - 1] \in SUBSET S
      OBVIOUS
    <3>2. G[<<n, g[n - 1]>>] = R(g[n - 1])
      BY <3>1
    <3>3. g[n] = G[<<n, g[n - 1]>>]
      <4> HIDE DEF G
      <4> QED BY <1>4 DEF Recurses
    <3> QED BY <3>2, <3>3
  <2> QED BY <1>4, <2>1 DEF Recurses
<1>6. Eq(g)
  <2>1. \A n \in Nat : g[n] = IF n = 0 THEN {} ELSE R(g[n - 1])
    BY <1>5
  <2> QED BY <2>1
<1>7. Eq(t)
  <2>1. t = CHOOSE s : Eq(s)
    BY DEF LiveRounds, R
  <2> HIDE DEF Eq, t
  <2> QED BY <1>6, <2>1
<1> HIDE DEF t
<1>8. t[0] = {} /\ \A n \in Nat : t[n + 1] = R(t[n])
  <2>1. \A n \in Nat : t[n] = IF n = 0 THEN {} ELSE R(t[n - 1])
    BY <1>7
  <2>2. \A n \in Nat : n + 1 \in Nat /\ n + 1 # 0 /\ (n + 1) - 1 = n
    OBVIOUS
  <2> HIDE DEF Eq
  <2> QED BY <2>1, <2>2
<1>9. \A n \in Nat : t[n] \in SUBSET S
  <2>1. \A n \in Nat : t[n] = IF n = 0 THEN {} ELSE R(t[n - 1])
    BY <1>7
  <2> QED BY <2>1, <1>1
<1>10. t \in [Nat -> SUBSET S]
  <2>1. t = [n \in Nat |-> t[n]]
    BY <1>7
  <2> HIDE DEF Eq
  <2> QED BY <2>1, <1>9
<1>11. \A n \in Nat : t[n] \subseteq t[n + 1]
  <2> DEFINE U == {n \in Nat : t[n] \subseteq t[n + 1]}
  <2>1. 0 \in U
    BY <1>8
  <2>2. ASSUME NEW n \in Nat, n \in U  PROVE n + 1 \in U
    <3>1. t[n + 1] = R(t[n]) /\ t[(n + 1) + 1] = R(t[n + 1]) /\ n + 1 \in Nat
      BY <1>8
    <3>2. R(t[n]) \subseteq R(t[n + 1])
      BY <1>2, <2>2
    <3> QED BY <3>1, <3>2
  <2>3. Nat \subseteq U
    <3> HIDE DEF U
    <3> QED BY <2>1, <2>2, NatInduct
  <2> QED BY <2>3
<1>12. IsFiniteSet(S)
  BY FS_Product DEF S
<1> DEFINE n == CHOOSE n \in 0..Cardinality(S) : t[n + 1] = t[n]
<1>13. n \in Nat /\ t[n + 1] = t[n]
  <2>1. \E k \in 0..Cardinality(S) : t[k + 1] = t[k]
    BY <1>10, <1>11, <1>12, GrowthStops
  <2>2. n \in 0..Cardinality(S) /\ t[n + 1] = t[n]
    BY <2>1
  <2>3. Cardinality(S) \in Nat
    BY <1>12, FS_CardinalityType
  <2> HIDE DEF n
  <2> QED BY <2>2, <2>3
<1>14. LiveIns(blocks, own) = t[n]
  BY DEF LiveIns, S, t
<1> HIDE DEF n
<1>15. R(t[n]) = t[n] /\ t[n] \in SUBSET S
  BY <1>8, <1>9, <1>13
<1> QED BY <1>14, <1>15 DEF R, S

(* What a function keeps live at the end of a block. *)
LiveOut(blocks, live, b, r) == \E c \in blocks[b].succ : <<c, r>> \in live

(* r is live just before the k-th instruction of a block: it is used there *)
(* or further down before anything defines it, or it is live at the end    *)
(* and not defined before.                                                 *)
LiveBefore(blocks, live, b, k, r) ==
    LET is == Insts(blocks[b])
    IN  \/ \E j \in k..Len(is) : r \in is[j].use /\ \A i \in k..(j - 1) : r \notin is[i].def
        \/ LiveOut(blocks, live, b, r) /\ \A i \in k..Len(is) : r \notin is[i].def

(* What is live before the first instruction of a block is live into it.   *)
LEMMA LiveAtStart ==
    ASSUME NEW blocks, NEW own, NEW b \in DOMAIN blocks, NEW r \in own,
           IsFiniteSet(DOMAIN blocks), IsFiniteSet(own), blocks[b] \in Block,
           LiveBefore(blocks, LiveIns(blocks, own), b, 1, r)
    PROVE  <<b, r>> \in LiveIns(blocks, own)
<1> DEFINE live == LiveIns(blocks, own)
           is == Insts(blocks[b])
           L == Len(blocks[b].insts) + 1
<1>1. LiveRound(blocks, own, live) = live
  BY LiveClosed
<1>2. DOMAIN is = 1..L /\ L \in Nat /\ Len(is) = L
  <2>1. blocks[b].insts \in Seq(Inst)
    BY DEF Block
  <2>2. Len(is) = L
    BY <2>1 DEF Insts
  <2> QED BY <2>2, BlockFacts
<1> SUFFICES <<b, r>> \in LiveRound(blocks, own, live)
  BY <1>1
<1> HIDE DEF live, is, L
<1>3. CASE \E j \in 1..L : r \in is[j].use /\ \A i \in 1..(j - 1) : r \notin is[i].def
  <2>1. PICK j \in 1..L : r \in is[j].use /\ \A i \in 1..(j - 1) : r \notin is[i].def
    BY <1>3
  <2>2. r \in is[j].use \ UNION {is[m].def : m \in 1..(j - 1)}
    BY <2>1
  <2>3. r \in Uses(blocks[b])
    BY <2>2, <1>2 DEF Uses, is
  <2> QED BY <2>3 DEF LiveRound
<1>4. CASE LiveOut(blocks, live, b, r) /\ \A i \in 1..L : r \notin is[i].def
  <2>1. r \notin Defs(blocks[b])
    BY <1>2, <1>4 DEF Defs, is
  <2> QED BY <2>1, <1>4 DEF LiveRound, LiveOut
<1> QED BY <1>2, <1>3, <1>4 DEF LiveBefore, live, is

-----------------------------------------------------------------------------
(* The reference liveness agrees with the allocator's: a register that is  *)
(* live from a set of points is, for the allocator, live before one of     *)
(* them.                                                                   *)
LiveSet(pr, n) == LiveIns(pr[n].blocks, OwnedBy(pr, n))
Needed(n, r) == {v \in Nodes(n) : LiveBefore(prog[n].blocks, LiveSet(prog, n), v[1], v[2], r)}

LEMMA RowFacts ==
    ASSUME NEW n, NEW b
    PROVE  LET K == 1..(Len(prog[n].blocks[b].insts) + 1)
           IN  /\ \A v \in Row(n, b) : v[1] = b /\ v[2] \in K /\ v = <<v[1], v[2]>>
               /\ \A k \in K : <<b, k>> \in Row(n, b)
<1> DEFINE K == 1..(Len(prog[n].blocks[b].insts) + 1)
<1>1. Row(n, b) = {b} \X K
  BY Zenon DEF Row
<1> HIDE DEF K
<1> QED BY <1>1 DEF K

LEMMA NodeFacts ==
    ASSUME IsProgram(prog), NEW n \in DOMAIN prog, NEW v \in Nodes(n)
    PROVE  LET bk == prog[n].blocks[v[1]]
           IN  /\ v[1] \in DOMAIN prog[n].blocks /\ bk \in Block
               /\ Len(bk.insts) \in Nat
               /\ v[2] \in 1..(Len(bk.insts) + 1)
               /\ v = <<v[1], v[2]>>
               /\ Len(Insts(bk)) = Len(bk.insts) + 1
               /\ DOMAIN Insts(bk) = 1..(Len(bk.insts) + 1)
<1>1. PICK b \in DOMAIN prog[n].blocks : v \in Row(n, b)
  BY DEF Nodes
<1>2. PICK k \in 1..(Len(prog[n].blocks[b].insts) + 1) : v = <<b, k>>
  BY <1>1, RowFacts
<1>3. v[1] = b /\ v[2] = k
  BY <1>2
<1>4. prog[n].blocks[b] \in Block
  BY ProgramFacts
<1>5. DOMAIN Insts(prog[n].blocks[b]) = 1..(Len(prog[n].blocks[b].insts) + 1)
  BY <1>4, BlockFacts
<1>6. Len(prog[n].blocks[b].insts) \in Nat
  BY <1>4, BlockFacts
<1>7. Len(Insts(prog[n].blocks[b])) = Len(prog[n].blocks[b].insts) + 1
  <2>1. prog[n].blocks[b].insts \in Seq(Inst)
    BY <1>4 DEF Block
  <2> QED BY <2>1 DEF Insts
<1> QED BY <1>2, <1>3, <1>4, <1>5, <1>6, <1>7

LEMMA AfterNodes ==
    ASSUME IsProgram(prog), NEW n \in DOMAIN prog, NEW v \in Nodes(n)
    PROVE  After(n, v) \subseteq Nodes(n)
<1> DEFINE blocks == prog[n].blocks
           b == v[1]
           k == v[2]
<1>1. /\ b \in DOMAIN blocks /\ blocks[b] \in Block /\ Len(blocks[b].insts) \in Nat
      /\ k \in 1..(Len(blocks[b].insts) + 1)
  BY NodeFacts
<1>2. CASE IsTerm(n, v)
  <2> SUFFICES ASSUME NEW c \in blocks[b].succ  PROVE <<c, 1>> \in Nodes(n)
    BY <1>2 DEF After
  <2>1. c \in DOMAIN blocks
    BY <1>1, ProgramFacts
  <2>2. blocks[c] \in Block
    BY <2>1, ProgramFacts
  <2>3. Len(blocks[c].insts) \in Nat
    BY <2>2, BlockFacts
  <2>4. 1 \in 1..(Len(blocks[c].insts) + 1)
    BY <2>3
  <2> QED BY <2>1, <2>4, RowFacts DEF Nodes
<1>3. CASE ~IsTerm(n, v)
  <2>1. k + 1 \in 1..(Len(blocks[b].insts) + 1)
    <3> DEFINE L == Len(blocks[b].insts)
    <3>1. k # L + 1
      BY <1>3 DEF IsTerm
    <3>2. L \in Nat /\ k \in 1..(L + 1)
      BY <1>1
    <3> HIDE DEF L, k
    <3>3. k + 1 \in 1..(L + 1)
      BY <3>1, <3>2
    <3> QED BY <3>3 DEF L
  <2>2. <<b, k + 1>> \in Nodes(n)
    BY <1>1, <2>1, RowFacts DEF Nodes
  <2> QED BY <2>2, <1>3 DEF After
<1> QED BY <1>2, <1>3

LEMMA OwnFacts ==
    ASSUME IsProgram(prog), NEW n \in DOMAIN prog
    PROVE  /\ IsFiniteSet(OwnedBy(prog, n))
           /\ IsFiniteSet(DOMAIN prog[n].blocks)
<1>1. Len(prog[n].blocks) \in Nat /\ DOMAIN prog[n].blocks = 1..Len(prog[n].blocks)
  BY ProgramFacts
<1>2. IsFiniteSet(1..Len(prog[n].blocks))
  <2>1. 1 \in Int /\ Len(prog[n].blocks) \in Int
    BY <1>1
  <2> QED BY <2>1, FS_Interval
<1> QED BY <1>1, <1>2, Ownership

(* A use makes a register live, and it is live before an instruction that  *)
(* does not define it if it is live after it.                              *)
LEMMA LiveStep ==
    ASSUME NEW blocks, NEW live, NEW b, NEW r, NEW L \in Nat, NEW k \in 1..L,
           Len(Insts(blocks[b])) = L
    PROVE  LET is == Insts(blocks[b])
           IN  /\ r \in is[k].use => LiveBefore(blocks, live, b, k, r)
               /\ r \notin is[k].def /\ k = L /\ LiveOut(blocks, live, b, r)
                    => LiveBefore(blocks, live, b, k, r)
               /\ r \notin is[k].def /\ LiveBefore(blocks, live, b, k + 1, r)
                    => LiveBefore(blocks, live, b, k, r)
<1> DEFINE is == Insts(blocks[b])
           Out == LiveOut(blocks, live, b, r)
           P(m) == \/ \E j \in m..L : r \in is[j].use /\ \A i \in m..(j - 1) : r \notin is[i].def
                   \/ Out /\ \A i \in m..L : r \notin is[i].def
<1>1. \A m : LiveBefore(blocks, live, b, m, r) <=> P(m)
  BY DEF LiveBefore
<1> HIDE DEF is, Out
<1>2. ASSUME r \in is[k].use  PROVE P(k)
  <2>1. k \in k..L /\ \A i \in k..(k - 1) : FALSE
    OBVIOUS
  <2> QED BY <2>1, <1>2
<1>3. ASSUME r \notin is[k].def, k = L, Out  PROVE P(k)
  <2>1. \A i \in k..L : i = k
    BY <1>3
  <2> QED BY <2>1, <1>3
<1>4. ASSUME r \notin is[k].def, P(k + 1)  PROVE P(k)
  <2>1. CASE \E j \in (k + 1)..L : r \in is[j].use /\ \A i \in (k + 1)..(j - 1) : r \notin is[i].def
    <3>1. PICK j \in (k + 1)..L : r \in is[j].use /\ \A i \in (k + 1)..(j - 1) : r \notin is[i].def
      BY <2>1
    <3>2. j \in k..L /\ \A i \in k..(j - 1) : i = k \/ i \in (k + 1)..(j - 1)
      OBVIOUS
    <3>3. \A i \in k..(j - 1) : r \notin is[i].def
      BY <3>1, <3>2, <1>4
    <3> QED BY <3>1, <3>2, <3>3
  <2>2. CASE Out /\ \A i \in (k + 1)..L : r \notin is[i].def
    <3>1. \A i \in k..L : i = k \/ i \in (k + 1)..L
      OBVIOUS
    <3>2. \A i \in k..L : r \notin is[i].def
      BY <2>2, <3>1, <1>4
    <3> QED BY <3>2, <2>2
  <2> QED BY <2>1, <2>2, <1>4
<1> HIDE DEF P
<1> QED BY <1>1, <1>2, <1>3, <1>4 DEF is, Out

(* A use makes a register needed, and the need passes back over a point    *)
(* that does not define it.                                                *)
LEMMA NeededBack ==
    ASSUME IsProgram(prog), NEW n \in DOMAIN prog, NEW r \in OwnedBy(prog, n), NEW v \in Nodes(n)
    PROVE  /\ r \in UsesAt(n, v) => v \in Needed(n, r)
           /\ \A w \in After(n, v) : r \notin DefsAt(n, v) /\ w \in Needed(n, r) => v \in Needed(n, r)
<1> DEFINE blocks == prog[n].blocks
           live == LiveSet(prog, n)
           b == v[1]
           k == v[2]
           is == Insts(blocks[b])
           L == Len(blocks[b].insts) + 1
           LB(c, m) == LiveBefore(blocks, live, c, m, r)
<1>1. /\ b \in DOMAIN blocks /\ blocks[b] \in Block /\ L \in Nat /\ k \in 1..L
      /\ Len(is) = L
  BY NodeFacts
<1>2. /\ r \in is[k].use => LB(b, k)
      /\ r \notin is[k].def /\ k = L /\ LiveOut(blocks, live, b, r) => LB(b, k)
      /\ r \notin is[k].def /\ LB(b, k + 1) => LB(b, k)
  <2> HIDE DEF blocks, live, b, k, L
  <2> QED BY <1>1, LiveStep
<1>3. UsesAt(n, v) = is[k].use /\ DefsAt(n, v) = is[k].def
  BY DEF UsesAt, DefsAt
<1>4. \A x \in Nodes(n) : x \in Needed(n, r) <=> LB(x[1], x[2])
  BY DEF Needed
<1>5. LB(b, k) => v \in Needed(n, r)
  BY <1>4
<1>6. ASSUME NEW w \in After(n, v), r \notin DefsAt(n, v), w \in Needed(n, r)
      PROVE  v \in Needed(n, r)
  <2>1. LB(w[1], w[2])
    BY <1>4, <1>6, AfterNodes
  <2>2. CASE IsTerm(n, v)
    <3>1. PICK c \in blocks[b].succ : w = <<c, 1>>
      BY <1>6, <2>2 DEF After
    <3>2. c \in DOMAIN blocks /\ blocks[c] \in Block
      BY <1>1, <3>1, ProgramFacts
    <3>3. LiveBefore(blocks, live, c, 1, r)
      BY <2>1, <3>1
    <3>4. <<c, r>> \in live
      BY <3>2, <3>3, LiveAtStart, OwnFacts DEF LiveSet
    <3>5. LiveOut(blocks, live, b, r)
      BY <3>1, <3>4 DEF LiveOut
    <3>6. k = L
      BY <2>2 DEF IsTerm
    <3> HIDE DEF live, b, k, LB, L, is
    <3> QED BY <3>5, <3>6, <1>2, <1>3, <1>5, <1>6
  <2>3. CASE ~IsTerm(n, v)
    <3>1. w = <<b, k + 1>>
      BY <1>6, <2>3 DEF After
    <3>2. LB(b, k + 1)
      BY <2>1, <3>1
    <3> HIDE DEF live, b, k, LB, L, is
    <3> QED BY <3>2, <1>2, <1>3, <1>5, <1>6
  <2> QED BY <2>2, <2>3
<1>7. r \in UsesAt(n, v) => v \in Needed(n, r)
  <2> HIDE DEF live, b, k, LB, L, is
  <2> QED BY <1>2, <1>3, <1>5
<1> QED BY <1>6, <1>7

LEMMA ReachFacts ==
    ASSUME IsProgram(prog), NEW n \in DOMAIN prog, NEW from \in SUBSET Nodes(n), NEW r
    PROVE  LET t == ReachRounds(n, from, r)
           IN  /\ t[0] = from
               /\ \A k \in Nat : /\ t[k] \in SUBSET Nodes(n)
                                 /\ t[k + 1] = t[k] \cup UNION {After(n, v) : v \in {v \in t[k] : r \notin DefsAt(n, v)}}
<1> DEFINE S == Nodes(n)
           R(old) == old \cup UNION {After(n, v) : v \in {v \in old : r \notin DefsAt(n, v)}}
           G == [x \in Nat \X SUBSET S |-> R(x[2])]
           Eq(s) == s = [k \in Nat |-> IF k = 0 THEN from ELSE R(s[k - 1])]
           t == ReachRounds(n, from, r)
<1>1. \A old \in SUBSET S : R(old) \in SUBSET S
  BY AfterNodes
<1> HIDE DEF R, S
<1>2. G \in [Nat \X SUBSET S -> SUBSET S]
  BY <1>1
<1>3. PICK g \in [Nat -> SUBSET S] : Recurses(g, from, G)
  <2> HIDE DEF G
  <2>1. from \in SUBSET S
    BY DEF S
  <2> QED BY <1>2, <2>1, NatRecursion
<1>4. g[0] = from /\ \A k \in Nat \ {0} : g[k] = R(g[k - 1])
  <2>1. ASSUME NEW k \in Nat \ {0}  PROVE g[k] = R(g[k - 1])
    <3>1. k - 1 \in Nat /\ g[k - 1] \in SUBSET S
      OBVIOUS
    <3>2. G[<<k, g[k - 1]>>] = R(g[k - 1])
      BY <3>1
    <3>3. g[k] = G[<<k, g[k - 1]>>]
      <4> HIDE DEF G
      <4> QED BY <1>3 DEF Recurses
    <3> QED BY <3>2, <3>3
  <2> QED BY <1>3, <2>1 DEF Recurses
<1>5. Eq(g)
  <2>1. \A k \in Nat : g[k] = IF k = 0 THEN from ELSE R(g[k - 1])
    BY <1>4
  <2> QED BY <2>1
<1>6. Eq(t)
  <2>1. t = CHOOSE s : Eq(s)
    BY DEF ReachRounds, R
  <2> HIDE DEF Eq, t
  <2> QED BY <1>5, <2>1
<1> HIDE DEF t
<1>7. t[0] = from /\ \A k \in Nat : t[k + 1] = R(t[k])
  <2>1. \A k \in Nat : t[k] = IF k = 0 THEN from ELSE R(t[k - 1])
    BY <1>6
  <2>2. \A k \in Nat : k + 1 \in Nat /\ k + 1 # 0 /\ (k + 1) - 1 = k
    OBVIOUS
  <2> HIDE DEF Eq
  <2> QED BY <2>1, <2>2
<1> DEFINE T == {k \in Nat : t[k] \in SUBSET S}
<1>8. 0 \in T
  BY <1>7 DEF S
<1>9. \A k \in Nat : k \in T => k + 1 \in T
  BY <1>1, <1>7
<1>10. Nat \subseteq T
  <2> HIDE DEF T
  <2> QED BY <1>8, <1>9, NatInduct
<1> QED BY <1>7, <1>10 DEF R, S, t

LEMMA LiveMeansNeeded ==
    ASSUME IsProgram(prog), NEW n \in DOMAIN prog, NEW r \in OwnedBy(prog, n),
           NEW from \in SUBSET Nodes(n), LiveFrom(n, from, r)
    PROVE  from \cap Needed(n, r) # {} /\ r \in FuncRegs(prog[n])
<1> DEFINE t == ReachRounds(n, from, r)
           R(old) == old \cup UNION {After(n, v) : v \in {v \in old : r \notin DefsAt(n, v)}}
           c == Cardinality(Nodes(n))
<1>1. t[0] = from /\ \A k \in Nat : t[k] \in SUBSET Nodes(n) /\ t[k + 1] = R(t[k])
  BY ReachFacts
<1> HIDE DEF t
<1>2. c \in Nat
  <2> DEFINE D == DOMAIN prog[n].blocks
             T == {Row(n, b) : b \in D}
             row == [b \in D |-> Row(n, b)]
  <2>1. IsFiniteSet(D)
    BY OwnFacts
  <2>2. ASSUME NEW b \in D  PROVE IsFiniteSet(Row(n, b))
    <3>1. Len(prog[n].blocks[b].insts) + 1 \in Int /\ 1 \in Int
      BY BlockFacts, ProgramFacts
    <3>2. IsFiniteSet(1..(Len(prog[n].blocks[b].insts) + 1)) /\ IsFiniteSet({b})
      BY <3>1, FS_Interval, FS_Singleton
    <3> QED BY <3>2, FS_Product DEF Row
  <2>4. Nodes(n) = UNION T
    BY DEF Nodes
  <2> HIDE DEF D
  <2>5. \A U \in T : IsFiniteSet(U)
    BY <2>2
  <2>3. row \in Surjection(D, T)
    <3>1. row \in [D -> T]
      BY Zenon
    <3>2. \A y \in T : \E s \in D : row[s] = y
      BY Zenon
    <3> HIDE DEF row, T
    <3> QED BY <3>1, <3>2 DEF Surjection
  <2> HIDE DEF row, T
  <2>6. IsFiniteSet(T)
    BY <2>1, <2>3, FS_Surjection
  <2>7. IsFiniteSet(Nodes(n))
    BY <2>4, <2>5, <2>6, FS_UNION
  <2> QED BY <2>7, FS_CardinalityType
<1>3. PICK v \in t[c] : r \in UsesAt(n, v)
  BY DEF LiveFrom, t
<1>4. v \in Nodes(n)
  BY <1>1, <1>2, <1>3
<1>5. r \in FuncRegs(prog[n])
  <2> DEFINE bk == prog[n].blocks[v[1]]
  <2>1. v[1] \in DOMAIN prog[n].blocks /\ bk \in Block /\ v[2] \in DOMAIN Insts(bk)
    BY <1>4, NodeFacts
  <2>2. Insts(bk)[v[2]].use \subseteq BlockRegs(bk)
    BY <2>1, BlockFacts
  <2> QED BY <1>3, <2>1, <2>2, RegsFinite DEF UsesAt
<1>6. from \cap Needed(n, r) # {}
  <2> SUFFICES ASSUME from \cap Needed(n, r) = {}  PROVE FALSE
    OBVIOUS
  <2> DEFINE T == {k \in Nat : t[k] \cap Needed(n, r) = {}}
  <2>1. 0 \in T
    BY <1>1
  <2>2. ASSUME NEW k \in Nat, k \in T  PROVE k + 1 \in T
    <3>1. \A w \in t[k] : w \in Nodes(n) /\ w \notin Needed(n, r)
      BY <1>1, <2>2
    <3>2. \A w \in t[k] : r \notin DefsAt(n, w) => After(n, w) \cap Needed(n, r) = {}
      BY <3>1, NeededBack
    <3>3. R(t[k]) \cap Needed(n, r) = {}
      BY <3>1, <3>2
    <3> QED BY <1>1, <3>3
  <2>3. c \in T
    <3> HIDE DEF T
    <3> QED BY <2>1, <2>2, <1>2, NatInduct
  <2>4. v \notin Needed(n, r)
    BY <2>3, <1>3
  <2> QED BY <2>4, <1>3, <1>4, NeededBack
<1> QED BY <1>5, <1>6

-----------------------------------------------------------------------------
(* Intervals. *)

Numbered(pr) ==
    \A n \in DOMAIN pr : Starts(pr[n].blocks) \in [DOMAIN pr[n].blocks -> Nat]

LEMMA PointFacts ==
    ASSUME NEW bk \in Block, NEW s \in Nat, NEW liveIn, NEW liveOut, NEW r
    PROVE  LET P == Points(bk, s, liveIn, liveOut, r)
               e == s + Len(bk.insts)
           IN  /\ \A p \in P : p \in Nat /\ s <= p /\ p <= e
               /\ \A k \in DOMAIN Insts(bk) :
                    r \in Insts(bk)[k].use \cup Insts(bk)[k].def => s + k - 1 \in P
               /\ liveIn => s \in P
               /\ liveOut => s \in P /\ e \in P
<1> DEFINE L == Len(bk.insts)
           e == s + L
           K == {k \in DOMAIN Insts(bk) : r \in Insts(bk)[k].use \cup Insts(bk)[k].def}
           P == Points(bk, s, liveIn, liveOut, r)
<1>1. L \in Nat /\ DOMAIN Insts(bk) = 1..(L + 1)
  BY BlockFacts
<1>2. P = {s + k - 1 : k \in K} \cup {p \in {s} : liveIn} \cup {p \in {s, e} : liveOut}
  BY Zenon DEF Points
<1>3. K \subseteq 1..(L + 1)
  BY <1>1
<1>4. \A k \in DOMAIN Insts(bk) : r \in Insts(bk)[k].use \cup Insts(bk)[k].def => k \in K
  OBVIOUS
<1> HIDE DEF L, K, P
<1>5. /\ \A p : p \in P <=> \/ \E k \in K : p = s + k - 1
                            \/ p = s /\ liveIn
                            \/ (p = s \/ p = e) /\ liveOut
  BY <1>2, Zenon
<1> HIDE DEF e
<1>6. e \in Nat /\ s <= e
  BY <1>1 DEF e
<1>7. \A k \in K : s + k - 1 \in Nat /\ s <= s + k - 1 /\ s + k - 1 <= e
  BY <1>1, <1>3 DEF e
<1>8. \A p \in P : p \in Nat /\ s <= p /\ p <= e
  BY <1>5, <1>6, <1>7
<1> QED BY <1>4, <1>5, <1>8 DEF P, e, L

LEMMA TouchedFacts ==
    ASSUME NEW pr, IsProgram(pr), Numbered(pr), NEW n \in DOMAIN pr, NEW live
    PROVE  LET T(r) == Touched(pr[n].blocks, Starts(pr[n].blocks), live, r)
           IN  \E u \in Nat : \A r : \A p \in T(r) : p \in Nat /\ p <= u
<1> DEFINE blocks == pr[n].blocks
           start == Starts(blocks)
           T(r) == Touched(blocks, start, live, r)
           m == Len(blocks)
           last == [b \in 1..m |-> start[b] + Len(blocks[b].insts)]
           P(b, r) == Points(blocks[b], start[b], <<b, r>> \in live,
                             \E c \in blocks[b].succ : <<c, r>> \in live, r)
<1>1. m \in Nat /\ DOMAIN blocks = 1..m /\ \A b \in 1..m : blocks[b] \in Block
  BY ProgramFacts
<1>2. start \in [1..m -> Nat]
  BY <1>1 DEF Numbered
<1>3. \A b \in 1..m : Len(blocks[b].insts) \in Nat
  BY <1>1, BlockFacts
<1>4. \A r : T(r) = UNION {P(b, r) : b \in 1..m}
  BY <1>1 DEF Touched
<1> HIDE DEF blocks, start, m, T
<1>5. \A b \in 1..m : start[b] + Len(blocks[b].insts) \in Nat
  BY <1>2, <1>3
<1>6. last \in [1..m -> Nat]
  BY <1>5
<1>7. \A b \in 1..m : last[b] = start[b] + Len(blocks[b].insts)
  OBVIOUS
<1> HIDE DEF last
<1>8. PICK u \in Nat : \A b \in 1..m : last[b] <= u
  BY <1>1, <1>6, FamilyBounded
<1>9. ASSUME NEW b \in 1..m, NEW r, NEW p \in P(b, r)  PROVE p \in Nat /\ p <= u
  <2>0. blocks[b] \in Block /\ start[b] \in Nat
    BY <1>1, <1>2
  <2>1. p \in Nat /\ p <= start[b] + Len(blocks[b].insts)
    <3>1. p \in Points(blocks[b], start[b], <<b, r>> \in live,
                      \E c \in blocks[b].succ : <<c, r>> \in live, r)
      BY <1>9
    <3> HIDE DEF P
    <3> QED BY <2>0, <3>1, PointFacts, Zenon
  <2>2. p <= last[b] /\ last[b] <= u /\ last[b] \in Nat
    BY <2>1, <1>6, <1>7, <1>8
  <2> QED BY <2>1, <2>2
<1> HIDE DEF P
<1>10. \A r : \A p \in T(r) : p \in Nat /\ p <= u
  BY <1>4, <1>9
<1> QED BY <1>10 DEF T, start, blocks

LEMMA BetweenFacts ==
    ASSUME NEW S, NEW u \in Nat, \A p \in S : p \in Nat /\ p <= u
    PROVE  /\ Between(S) \in Interval /\ Between(S).start <= Between(S).end
           /\ \A p \in S : Between(S).start <= p /\ p <= Between(S).end
<1>1. CASE S = {}
  BY <1>1 DEF Between, Interval
<1>2. CASE S # {}
  <2>1. S \in SUBSET Nat /\ \A y \in S : y <= u
    OBVIOUS
  <2>2. \E x \in S : \A y \in S : x <= y
    BY <1>2, <2>1, LeastNumber
  <2>3. \E x \in S : \A y \in S : x >= y
    <3>1. \E x \in S : \A y \in S : y <= x
      BY <1>2, <2>1, GreatestNumber
    <3> QED BY <3>1, <2>1
  <2>4. Min(S) \in S /\ \A y \in S : Min(S) <= y
    BY <2>2 DEF Min
  <2>5. Max(S) \in S /\ \A y \in S : Max(S) >= y
    BY <2>3 DEF Max
  <2>6. Between(S) = [start |-> Min(S), end |-> Max(S)]
    BY <1>2 DEF Between
  <2> DEFINE a == Min(S)
             z == Max(S)
  <2> HIDE DEF a, z
  <2>7. a \in Nat /\ z \in Nat /\ a <= z /\ \A p \in S : a <= p /\ p <= z
    BY <2>1, <2>4, <2>5 DEF a, z
  <2>8. Between(S) = [start |-> a, end |-> z]
    BY <2>6 DEF a, z
  <2>9. Between(S).start = a /\ Between(S).end = z
    BY <2>8
  <2> QED BY <2>7, <2>8, <2>9 DEF Interval
<1> QED BY <1>1, <1>2

(* The positions at which a group of a function is touched. *)
TouchedAt(pr, n, r) == Touched(pr[n].blocks, Starts(pr[n].blocks), LiveSet(pr, n), r)

LEMMA IntervalFacts ==
    ASSUME NEW pr, IsProgram(pr), Numbered(pr), NEW n \in DOMAIN pr
    PROVE  /\ DOMAIN Intervals(pr, n) = Referenced(pr, n)
           /\ \A g \in Referenced(pr, n) :
                /\ Intervals(pr, n)[g] \in Interval
                /\ Intervals(pr, n)[g].start <= Intervals(pr, n)[g].end
                /\ \A r \in Word(g) \cap OwnedBy(pr, n) : \A p \in TouchedAt(pr, n, r) :
                     Intervals(pr, n)[g].start <= p /\ p <= Intervals(pr, n)[g].end
<1> DEFINE pts(g) == UNION {TouchedAt(pr, n, r) : r \in Word(g) \cap OwnedBy(pr, n)}
           iv == Intervals(pr, n)
<1>1. iv = [g \in Referenced(pr, n) |-> Between(pts(g))]
  BY Zenon DEF Intervals, TouchedAt, LiveSet
<1>2. DOMAIN iv = Referenced(pr, n) /\ \A g \in Referenced(pr, n) : iv[g] = Between(pts(g))
  <2> HIDE DEF iv
  <2> QED BY <1>1
<1>3. PICK u \in Nat : \A r : \A p \in TouchedAt(pr, n, r) : p \in Nat /\ p <= u
  BY TouchedFacts DEF TouchedAt
<1>4. ASSUME NEW g
      PROVE  /\ Between(pts(g)) \in Interval /\ Between(pts(g)).start <= Between(pts(g)).end
             /\ \A p \in pts(g) : Between(pts(g)).start <= p /\ p <= Between(pts(g)).end
  <2>1. \A p \in pts(g) : p \in Nat /\ p <= u
    BY <1>3
  <2> HIDE DEF pts
  <2> QED BY <2>1, BetweenFacts
<1>5. \A g : \A r \in Word(g) \cap OwnedBy(pr, n) : \A p \in TouchedAt(pr, n, r) : p \in pts(g)
  OBVIOUS
<1> HIDE DEF iv, pts
<1> QED BY <1>2, <1>4, <1>5 DEF iv

LEMMA WordFacts ==
    ASSUME NEW r \in Nat
    PROVE  GroupOf(r) \in Nat /\ r \in Word(GroupOf(r)) /\ r = 4 * GroupOf(r) + (r % 4) /\ r % 4 \in 0..3
<1>1. r \div 4 \in Nat /\ r % 4 \in 0..3 /\ r = 4 * (r \div 4) + (r % 4)
  OBVIOUS
<1> QED BY <1>1 DEF GroupOf, Word

(* A group's interval covers every position at which one of its registers  *)
(* is touched.                                                             *)
LEMMA SpanFacts ==
    ASSUME NEW pr, IsProgram(pr), Numbered(pr), NEW n \in DOMAIN pr,
           NEW r \in OwnedBy(pr, n) \cap ProgRegs(pr)
    PROVE  /\ GroupOf(r) \in DOMAIN InputOf(pr, n).interval
           /\ \A p \in TouchedAt(pr, n, r) :
                /\ InputOf(pr, n).interval[GroupOf(r)].start <= p
                /\ p <= InputOf(pr, n).interval[GroupOf(r)].end
<1>1. r \in Nat
  BY RegsFinite
<1>2. r \in Word(GroupOf(r))
  BY <1>1, WordFacts
<1>3. GroupOf(r) \in Referenced(pr, n)
  BY DEF Referenced
<1>4. InputOf(pr, n).interval = Intervals(pr, n)
  BY DEF InputOf
<1> QED BY <1>2, <1>3, <1>4, IntervalFacts

LEMMA Touches ==
    ASSUME NEW pr, IsProgram(pr), Numbered(pr), NEW n \in DOMAIN pr,
           NEW b \in DOMAIN pr[n].blocks, NEW r
    PROVE  LET bk == pr[n].blocks[b]
               s == Starts(pr[n].blocks)[b]
               T == TouchedAt(pr, n, r)
           IN  /\ s \in Nat
               /\ \A k \in DOMAIN Insts(bk) :
                    r \in Insts(bk)[k].use \cup Insts(bk)[k].def => s + k - 1 \in T
               /\ <<b, r>> \in LiveSet(pr, n) => s \in T
               /\ LiveOut(pr[n].blocks, LiveSet(pr, n), b, r) => s \in T /\ s + Len(bk.insts) \in T
<1> DEFINE blocks == pr[n].blocks
           bk == blocks[b]
           s == Starts(blocks)[b]
           live == LiveSet(pr, n)
           P == Points(bk, s, <<b, r>> \in live, \E c \in bk.succ : <<c, r>> \in live, r)
           T == TouchedAt(pr, n, r)
<1>1. bk \in Block /\ s \in Nat
  BY ProgramFacts DEF Numbered
<1>2. P \subseteq T
  <2>1. T = UNION {Points(blocks[a], Starts(blocks)[a], <<a, r>> \in live,
                          \E c \in blocks[a].succ : <<c, r>> \in live, r) : a \in DOMAIN blocks}
    BY Zenon DEF TouchedAt, Touched
  <2> HIDE DEF T, live
  <2> QED BY <2>1, Zenon
<1>3. /\ \A k \in DOMAIN Insts(bk) : r \in Insts(bk)[k].use \cup Insts(bk)[k].def => s + k - 1 \in P
      /\ <<b, r>> \in live => s \in P
      /\ LiveOut(blocks, live, b, r) => s \in P /\ s + Len(bk.insts) \in P
  <2> HIDE DEF live, s
  <2>1. LiveOut(blocks, live, b, r) <=> \E c \in bk.succ : <<c, r>> \in live
    BY Zenon DEF LiveOut
  <2> HIDE DEF bk
  <2> QED BY <1>1, <2>1, PointFacts, Zenon
<1> HIDE DEF P
<1> QED BY <1>1, <1>2, <1>3

LEMMA ReferencedFinite ==
    ASSUME NEW pr, IsProgram(pr), NEW n \in DOMAIN pr
    PROVE  Referenced(pr, n) \subseteq Nat /\ IsFiniteSet(Referenced(pr, n))
<1> DEFINE S == OwnedBy(pr, n) \cap ProgRegs(pr)
           f == [r \in S |-> GroupOf(r)]
           G == Referenced(pr, n)
<1>1. S \in SUBSET Nat /\ IsFiniteSet(S)
  <2>1. IsFiniteSet(OwnedBy(pr, n)) /\ S \in SUBSET OwnedBy(pr, n)
    BY Ownership
  <2>2. S \in SUBSET Nat
    BY RegsFinite
  <2> HIDE DEF S
  <2> QED BY <2>1, <2>2, FS_Subset
<1>2. G = {GroupOf(r) : r \in S}
  BY DEF Referenced
<1> HIDE DEF S, G
<1>3. f \in Surjection(S, G)
  BY <1>2 DEF Surjection
<1> HIDE DEF f
<1>4. IsFiniteSet(G)
  BY <1>1, <1>3, FS_Surjection
<1>5. \A r \in S : GroupOf(r) \in Nat
  BY <1>1, WordFacts
<1> QED BY <1>2, <1>4, <1>5 DEF G

(* A copy partner is a group of the function, and both are touched at the  *)
(* position of the copy.                                                   *)
LEMMA PartnerFacts ==
    ASSUME NEW pr, IsProgram(pr), Numbered(pr), NEW n \in DOMAIN pr,
           NEW g \in Referenced(pr, n), NEW c \in Partners(pr, n, g)
    PROVE  /\ c \in Nat \X Nat \X Referenced(pr, n)
           /\ \E r, q \in OwnedBy(pr, n) \cap ProgRegs(pr) : \E p :
                /\ GroupOf(r) = g /\ GroupOf(q) = c[3]
                /\ p \in TouchedAt(pr, n, r) /\ p \in TouchedAt(pr, n, q)
<1> DEFINE blocks == pr[n].blocks
           own == OwnedBy(pr, n)
<1>1. PICK b \in DOMAIN blocks : \E k \in DOMAIN blocks[b].insts :
           c \in {<<b, k, h>> : h \in CopiedWith(blocks[b].insts[k], own, g)}
  BY DEF Partners
<1>2. PICK k \in DOMAIN blocks[b].insts : c \in {<<b, k, h>> : h \in CopiedWith(blocks[b].insts[k], own, g)}
  BY <1>1
<1> DEFINE i == blocks[b].insts[k]
<1>3. PICK h \in CopiedWith(i, own, g) : c = <<b, k, h>>
  BY <1>2
<1> DEFINE pairs == IF i.copy /\ i.def \cup i.use \subseteq own
                    THEN (i.def \X i.use) \cup (i.use \X i.def) ELSE {}
<1> HIDE DEF i
<1>4. PICK d \in pairs : GroupOf(d[1]) = g /\ h = GroupOf(d[2])
  BY <1>3 DEF CopiedWith
<1>5. d[1] \in (i.use \cup i.def) \cap own /\ d[2] \in (i.use \cup i.def) \cap own
  BY <1>4
<1> HIDE DEF pairs
<1>6. blocks[b] \in Block /\ b \in Nat
  <2>1. DOMAIN blocks = 1..Len(blocks) /\ Len(blocks) \in Nat
    BY ProgramFacts
  <2>2. blocks[b] \in Block
    BY ProgramFacts
  <2> HIDE DEF blocks
  <2> QED BY <2>1, <2>2
<1>7. /\ k \in Nat /\ Insts(blocks[b])[k] = i /\ k \in DOMAIN Insts(blocks[b])
      /\ i.use \cup i.def \subseteq ProgRegs(pr)
  <2>1. /\ Len(blocks[b].insts) \in Nat /\ DOMAIN blocks[b].insts = 1..Len(blocks[b].insts)
        /\ DOMAIN Insts(blocks[b]) = 1..(Len(blocks[b].insts) + 1)
        /\ Insts(blocks[b])[k] = i
        /\ \A m \in DOMAIN Insts(blocks[b]) :
             Insts(blocks[b])[m].use \cup Insts(blocks[b])[m].def \subseteq BlockRegs(blocks[b])
    BY <1>6, BlockFacts DEF i
  <2>2. BlockRegs(blocks[b]) \subseteq ProgRegs(pr)
    BY RegsFinite
  <2> HIDE DEF blocks
  <2>3. k \in Nat /\ k \in DOMAIN Insts(blocks[b])
    BY <2>1
  <2> QED BY <2>1, <2>2, <2>3
<1> DEFINE p == Starts(blocks)[b] + k - 1
<1>8. p \in TouchedAt(pr, n, d[1]) /\ p \in TouchedAt(pr, n, d[2])
  <2>1. \A r \in i.use \cup i.def : p \in TouchedAt(pr, n, r)
    BY <1>7, Touches
  <2> HIDE DEF p
  <2> QED BY <2>1, <1>5
<1>9. d[1] \in own \cap ProgRegs(pr) /\ d[2] \in own \cap ProgRegs(pr)
  BY <1>5, <1>7
<1>10. h \in Referenced(pr, n)
  BY <1>4, <1>9 DEF Referenced
<1>11. c \in Nat \X Nat \X Referenced(pr, n) /\ c[3] = h
  BY <1>3, <1>6, <1>7, <1>10
<1> HIDE DEF p, own
<1>12. /\ GroupOf(d[1]) = g /\ GroupOf(d[2]) = c[3]
       /\ p \in TouchedAt(pr, n, d[1]) /\ p \in TouchedAt(pr, n, d[2])
  BY <1>4, <1>8, <1>11
<1> QED BY <1>9, <1>11, <1>12, Zenon DEF own

(* What the scan of a function is given is what linear_scan expects, and   *)
(* no copy can be removed by it: the groups overlap at the copy.           *)
LEMMA InputValid ==
    ASSUME NEW pr, IsProgram(pr), Numbered(pr), NEW n \in DOMAIN pr
    PROVE  ValidInput(InputOf(pr, n)) /\ PartnersOverlap(InputOf(pr, n))
<1> DEFINE x == InputOf(pr, n)
           G == Referenced(pr, n)
<1>1. /\ x.interval = Intervals(pr, n)
      /\ DOMAIN x.interval = G
      /\ x.partners = [g \in G |-> Partners(pr, n, g)]
  BY IntervalFacts DEF InputOf
<1>2. IsFiniteSet(G) /\ G \subseteq Nat
  BY ReferencedFinite
<1>3. \A g \in G : x.interval[g] \in Interval /\ x.interval[g].start <= x.interval[g].end
  BY <1>1, IntervalFacts
<1>4. \A g \in G : Partners(pr, n, g) \in SUBSET (Nat \X Nat \X G)
  BY PartnerFacts
<1> HIDE DEF x, G
<1>5. x.partners \in [G -> SUBSET (Nat \X Nat \X G)]
  <2> DEFINE N == Nat \X Nat \X G
  <2>1. \A g \in G : Partners(pr, n, g) \in SUBSET N
    BY <1>4
  <2> HIDE DEF N
  <2>2. x.partners \in [G -> SUBSET N]
    BY <1>1, <2>1
  <2> QED BY <2>2 DEF N
<1>6. ValidInput(x)
  <2> DEFINE N == Nat \X Nat \X G
  <2>1. x.partners \in [G -> SUBSET N]
    BY <1>5
  <2> HIDE DEF N
  <2> QED BY <1>1, <1>2, <1>3, <2>1, Zenon DEF ValidInput, N
<1>7. ASSUME NEW g \in G, NEW c \in x.partners[g]
      PROVE  /\ x.interval[g].start <= x.interval[c[3]].end
             /\ x.interval[c[3]].start <= x.interval[g].end
  <2>1. c \in Partners(pr, n, g)
    BY <1>1, <1>7
  <2>2. PICK r, q, p :
           /\ r \in OwnedBy(pr, n) \cap ProgRegs(pr) /\ q \in OwnedBy(pr, n) \cap ProgRegs(pr)
           /\ GroupOf(r) = g /\ GroupOf(q) = c[3]
           /\ p \in TouchedAt(pr, n, r) /\ p \in TouchedAt(pr, n, q)
    BY <2>1, PartnerFacts DEF G
  <2>3. /\ x.interval[g].start <= p /\ p <= x.interval[g].end
        /\ x.interval[c[3]].start <= p /\ p <= x.interval[c[3]].end
        /\ c[3] \in G
    BY <2>2, <1>1, SpanFacts DEF x
  <2>4. p \in Nat
    BY <2>2, TouchedFacts DEF TouchedAt
  <2>5. \A h \in G : x.interval[h].start \in Nat /\ x.interval[h].end \in Nat
    BY <1>3 DEF Interval
  <2> QED BY <2>3, <2>4, <2>5
<1>8. PartnersOverlap(x)
  BY <1>1, <1>7 DEF PartnersOverlap
<1> QED BY <1>6, <1>8 DEF x

(* A register live before an instruction has its interval open there: it   *)
(* is touched there or later, and, unless it was live into the block, it   *)
(* is defined before.                                                      *)
LEMMA OpenBefore ==
    ASSUME NEW blocks, NEW live, NEW b, NEW r, NEW L \in Nat, NEW k \in 1..L,
           Len(Insts(blocks[b])) = L, LiveBefore(blocks, live, b, k, r)
    PROVE  LET is == Insts(blocks[b])
           IN  /\ LiveOut(blocks, live, b, r) \/ \E j \in k..L : r \in is[j].use
               /\ LiveBefore(blocks, live, b, 1, r) \/ \E i \in 1..(k - 1) : r \in is[i].def
<1> DEFINE is == Insts(blocks[b])
           Out == LiveOut(blocks, live, b, r)
           P(m) == \/ \E j \in m..L : r \in is[j].use /\ \A i \in m..(j - 1) : r \notin is[i].def
                   \/ Out /\ \A i \in m..L : r \notin is[i].def
<1>1. \A m : LiveBefore(blocks, live, b, m, r) <=> P(m)
  BY DEF LiveBefore
<1> HIDE DEF is, Out
<1>2. P(k)
  BY <1>1
<1>3. ASSUME \A i \in 1..(k - 1) : r \notin is[i].def  PROVE P(1)
  <2>1. CASE \E j \in k..L : r \in is[j].use /\ \A i \in k..(j - 1) : r \notin is[i].def
    <3>1. PICK j \in k..L : r \in is[j].use /\ \A i \in k..(j - 1) : r \notin is[i].def
      BY <2>1
    <3>2. j \in 1..L /\ \A i \in 1..(j - 1) : i \in 1..(k - 1) \/ i \in k..(j - 1)
      OBVIOUS
    <3>3. \A i \in 1..(j - 1) : r \notin is[i].def
      BY <1>3, <3>1, <3>2
    <3> QED BY <3>1, <3>2, <3>3
  <2>2. CASE Out /\ \A i \in k..L : r \notin is[i].def
    <3>1. \A i \in 1..L : i \in 1..(k - 1) \/ i \in k..L
      OBVIOUS
    <3>2. \A i \in 1..L : r \notin is[i].def
      BY <2>2, <3>1, <1>3
    <3> QED BY <3>2, <2>2
  <2> QED BY <2>1, <2>2, <1>2
<1>4. Out \/ \E j \in k..L : r \in is[j].use
  BY <1>2
<1> HIDE DEF P
<1> QED BY <1>1, <1>3, <1>4 DEF is, Out

(* The position of an instruction or terminator. *)
At(n, v) == Starts(prog[n].blocks)[v[1]] + v[2] - 1

(* A register needed after a point is touched both at or before the        *)
(* point's position and at or after it.                                    *)
LEMMA NeededSpans ==
    ASSUME IsProgram(prog), Numbered(prog), NEW n \in DOMAIN prog, NEW r \in OwnedBy(prog, n),
           NEW v \in Nodes(n), NEW w \in After(n, v), w \in Needed(n, r)
    PROVE  \E p, q \in TouchedAt(prog, n, r) : p <= At(n, v) /\ At(n, v) <= q
<1> DEFINE blocks == prog[n].blocks
           live == LiveSet(prog, n)
           b == v[1]
           k == v[2]
           is == Insts(blocks[b])
           m == Len(blocks[b].insts)
           s == Starts(blocks)[b]
           T == TouchedAt(prog, n, r)
<1>1. /\ b \in DOMAIN blocks /\ blocks[b] \in Block /\ m \in Nat /\ k \in 1..(m + 1)
      /\ Len(is) = m + 1 /\ DOMAIN is = 1..(m + 1)
  BY NodeFacts
<1>2. LiveBefore(blocks, live, w[1], w[2], r)
  BY DEF Needed
<1>3. /\ s \in Nat
      /\ \A j \in 1..(m + 1) : r \in is[j].use \cup is[j].def => s + j - 1 \in T
      /\ <<b, r>> \in live => s \in T
      /\ LiveOut(blocks, live, b, r) => s \in T /\ s + m \in T
  BY <1>1, Touches
<1>4. At(n, v) = s + k - 1
  BY DEF At
<1>5. CASE IsTerm(n, v)
  <2>1. PICK c \in blocks[b].succ : w = <<c, 1>>
    BY <1>5 DEF After
  <2>2. c \in DOMAIN blocks /\ blocks[c] \in Block
    BY <1>1, <2>1, ProgramFacts
  <2>3. <<c, r>> \in live
    BY <1>2, <2>1, <2>2, LiveAtStart, OwnFacts DEF LiveSet
  <2>4. LiveOut(blocks, live, b, r)
    BY <2>1, <2>3 DEF LiveOut
  <2>5. k = m + 1
    BY <1>5 DEF IsTerm
  <2> HIDE DEF m, s, b, k, live, T
  <2>6. s \in T /\ s + m \in T /\ s <= s + k - 1 /\ s + k - 1 <= s + m
    BY <1>1, <1>3, <2>4, <2>5
  <2>7. \E p, q \in T : p <= At(n, v) /\ At(n, v) <= q
    BY <1>4, <2>6
  <2> QED BY <2>7 DEF T
<1>6. CASE ~IsTerm(n, v)
  <2>1. LiveBefore(blocks, live, b, k + 1, r)
    BY <1>2, <1>6 DEF After
  <2>2. k + 1 \in 1..(m + 1) /\ m + 1 \in Nat
    <3>1. k # m + 1
      BY <1>6 DEF IsTerm
    <3> HIDE DEF m, k
    <3> QED BY <1>1, <3>1
  <2>3. /\ LiveOut(blocks, live, b, r) \/ \E j \in (k + 1)..(m + 1) : r \in is[j].use
        /\ LiveBefore(blocks, live, b, 1, r) \/ \E i \in 1..((k + 1) - 1) : r \in is[i].def
    <3> HIDE DEF m, k, b, live, blocks
    <3> QED BY <1>1, <2>1, <2>2, OpenBefore DEF is
  <2>4. LiveBefore(blocks, live, b, 1, r) => <<b, r>> \in live
    BY <1>1, LiveAtStart, OwnFacts DEF LiveSet
  <2> HIDE DEF m, s, b, k, live, T, is, blocks
  <2>5. \E q \in T : s + k - 1 <= q
    <3>1. CASE LiveOut(blocks, live, b, r)
      BY <3>1, <1>1, <1>3
    <3>2. CASE \E j \in (k + 1)..(m + 1) : r \in is[j].use
      <4>1. PICK j \in (k + 1)..(m + 1) : r \in is[j].use
        BY <3>2
      <4>2. j \in 1..(m + 1) /\ s + k - 1 <= s + j - 1
        BY <1>1, <1>3
      <4> QED BY <4>1, <4>2, <1>3
    <3> QED BY <2>3, <3>1, <3>2
  <2>6. \E p \in T : p <= s + k - 1
    <3>1. CASE <<b, r>> \in live
      BY <3>1, <1>1, <1>3
    <3>2. CASE \E i \in 1..((k + 1) - 1) : r \in is[i].def
      <4>1. PICK i \in 1..((k + 1) - 1) : r \in is[i].def
        BY <3>2
      <4>2. i \in 1..(m + 1) /\ s + i - 1 <= s + k - 1
        BY <1>1, <1>3
      <4> QED BY <4>1, <4>2, <1>3
    <3> QED BY <2>3, <2>4, <3>1, <3>2
  <2>7. \E p, q \in T : p <= At(n, v) /\ At(n, v) <= q
    BY <1>4, <2>5, <2>6
  <2> QED BY <2>7 DEF T
<1> QED BY <1>5, <1>6

Together(x, g, h) == /\ x.interval[g].start <= x.interval[h].end
                     /\ x.interval[h].start <= x.interval[g].end

LEMMA SpanTyped ==
    ASSUME IsProgram(prog), Numbered(prog), NEW n \in DOMAIN prog,
           NEW r \in OwnedBy(prog, n) \cap ProgRegs(prog)
    PROVE  LET i == InputOf(prog, n).interval[GroupOf(r)]
           IN  i.start \in Nat /\ i.end \in Nat /\ \A p \in TouchedAt(prog, n, r) : p \in Nat
<1>1. InputOf(prog, n).interval[GroupOf(r)] \in Interval
  BY SpanFacts, InputValid DEF ValidInput
<1> QED BY <1>1, TouchedFacts DEF TouchedAt, Interval

(* The groups of a register that is written and of one needed afterwards,  *)
(* and those of two registers live on entry, have overlapping intervals.   *)
LEMMA WrittenAndNeeded ==
    ASSUME IsProgram(prog), Numbered(prog), NEW n \in DOMAIN prog, NEW v \in Nodes(n),
           NEW d \in DefsAt(n, v) \cap OwnedBy(prog, n), NEW r \in OwnedBy(prog, n),
           r \in ProgRegs(prog), After(n, v) \cap Needed(n, r) # {}
    PROVE  Together(InputOf(prog, n), GroupOf(d), GroupOf(r))
<1> DEFINE x == InputOf(prog, n)
           a == At(n, v)
<1>1. PICK w \in After(n, v) : w \in Needed(n, r)
  OBVIOUS
<1>2. PICK p \in TouchedAt(prog, n, r), q \in TouchedAt(prog, n, r) : p <= a /\ a <= q
  BY <1>1, NeededSpans
<1>3. d \in ProgRegs(prog) /\ a \in TouchedAt(prog, n, d)
  <2> DEFINE bk == prog[n].blocks[v[1]]
  <2>1. v[1] \in DOMAIN prog[n].blocks /\ bk \in Block /\ v[2] \in DOMAIN Insts(bk)
    BY NodeFacts
  <2>2. Insts(bk)[v[2]].def \subseteq ProgRegs(prog)
    BY <2>1, BlockFacts, RegsFinite
  <2>3. d \in Insts(bk)[v[2]].use \cup Insts(bk)[v[2]].def
    BY DEF DefsAt
  <2>4. a \in TouchedAt(prog, n, d)
    BY <2>1, <2>3, Touches DEF At
  <2> QED BY <2>2, <2>4 DEF DefsAt
<1>4. /\ x.interval[GroupOf(d)].start <= a /\ a <= x.interval[GroupOf(d)].end
      /\ x.interval[GroupOf(d)].start \in Nat /\ x.interval[GroupOf(d)].end \in Nat /\ a \in Nat
  BY <1>3, SpanFacts, SpanTyped
<1>5. /\ x.interval[GroupOf(r)].start <= p /\ q <= x.interval[GroupOf(r)].end
      /\ x.interval[GroupOf(r)].start \in Nat /\ x.interval[GroupOf(r)].end \in Nat
      /\ p \in Nat /\ q \in Nat
  BY SpanFacts, SpanTyped
<1> HIDE DEF x, a
<1> QED BY <1>2, <1>4, <1>5 DEF Together, x

LEMMA LiveOnEntry ==
    ASSUME IsProgram(prog), Numbered(prog), NEW n \in DOMAIN prog,
           NEW a \in OwnedBy(prog, n) \cap ProgRegs(prog),
           NEW b \in OwnedBy(prog, n) \cap ProgRegs(prog),
           <<1, 1>> \in Needed(n, a), <<1, 1>> \in Needed(n, b)
    PROVE  Together(InputOf(prog, n), GroupOf(a), GroupOf(b))
<1> DEFINE x == InputOf(prog, n)
           s == Starts(prog[n].blocks)[1]
<1>1. 1 \in DOMAIN prog[n].blocks /\ prog[n].blocks[1] \in Block
  <2>1. Len(prog[n].blocks) \in Nat \ {0} /\ DOMAIN prog[n].blocks = 1..Len(prog[n].blocks)
    BY ProgramFacts
  <2>2. 1 \in DOMAIN prog[n].blocks
    BY <2>1
  <2> QED BY <2>2, ProgramFacts
<1>2. ASSUME NEW r \in OwnedBy(prog, n) \cap ProgRegs(prog), <<1, 1>> \in Needed(n, r)
      PROVE  /\ x.interval[GroupOf(r)].start <= s /\ s <= x.interval[GroupOf(r)].end
             /\ x.interval[GroupOf(r)].start \in Nat /\ x.interval[GroupOf(r)].end \in Nat
  <2>1. LiveBefore(prog[n].blocks, LiveSet(prog, n), 1, 1, r)
    BY <1>2 DEF Needed
  <2>2. <<1, r>> \in LiveSet(prog, n)
    BY <1>1, <2>1, LiveAtStart, OwnFacts DEF LiveSet
  <2>3. s \in TouchedAt(prog, n, r)
    BY <1>1, <2>2, Touches
  <2> QED BY <2>3, SpanFacts, SpanTyped
<1>3. s \in Nat
  BY <1>1 DEF Numbered
<1> HIDE DEF x, s
<1>4. /\ x.interval[GroupOf(a)].start <= s /\ s <= x.interval[GroupOf(a)].end
      /\ x.interval[GroupOf(b)].start <= s /\ s <= x.interval[GroupOf(b)].end
      /\ x.interval[GroupOf(a)].start \in Nat /\ x.interval[GroupOf(a)].end \in Nat
      /\ x.interval[GroupOf(b)].start \in Nat /\ x.interval[GroupOf(b)].end \in Nat
  BY <1>2
<1> QED BY <1>3, <1>4 DEF Together, x

-----------------------------------------------------------------------------
(* From the results of the scans to the final registers. *)

ResultSound(n) ==
    LET G == DOMAIN InputOf(prog, n).interval
    IN  /\ allocs[n].max \in Nat
        /\ allocs[n].phys \in [G -> 1..allocs[n].max]
        /\ \A g, h \in G : g # h /\ Together(InputOf(prog, n), g, h)
                             => allocs[n].phys[g] # allocs[n].phys[h]

Results ==
    /\ IsProgram(prog) /\ Numbered(prog)
    /\ DOMAIN allocs = DOMAIN prog
    /\ \A n \in DOMAIN allocs : ResultSound(n)

(* The physical group, counted from the start of the first bank, of a      *)
(* register of function n.                                                 *)
PhysGroup(n, r) == BankOffset(n) + allocs[n].phys[GroupOf(r)]
BankEnd(n) == BankOffset(n) + allocs[n].max

LEMMA BankFacts ==
    ASSUME Results
    PROVE  /\ \A n \in DOMAIN prog : BankOffset(n) \in Nat /\ allocs[n].max \in Nat
           /\ \A m, n \in DOMAIN prog : m < n => BankEnd(m) <= BankOffset(n)
<1> DEFINE L == Len(prog)
           f == [n \in DOMAIN allocs |-> allocs[n].max]
           c == SumTo(f)
<1>1. L \in Nat /\ DOMAIN prog = 1..L /\ DOMAIN allocs = 1..L
  BY ProgramFacts DEF Results
<1>2. \A n \in 1..L : allocs[n].max \in Nat
  BY <1>1 DEF Results, ResultSound
<1>3. f \in [1..L -> Nat] /\ \A n \in 1..L : f[n] = allocs[n].max
  <2> HIDE DEF L
  <2> QED BY <1>1, <1>2
<1>4. \A n : BankOffset(n) = c[n - 1]
  BY DEF BankOffset
<1> HIDE DEF f, L
<1>5. /\ c \in [0..L -> Nat] /\ \A n \in 1..L : c[n] = c[n - 1] + f[n]
      /\ \A m, n \in 0..L : m <= n => c[m] <= c[n]
  <2>1. c \in [0..L -> Nat] /\ \A n \in 1..L : c[n] = c[n - 1] + f[n]
    BY <1>1, <1>3, SumToFacts
  <2>2. \A m, n \in 0..L : m <= n => c[m] <= c[n]
    BY <1>1, <1>3, SumToGrows
  <2> QED BY <2>1, <2>2
<1> HIDE DEF c
<1>6. \A n \in 1..L : n - 1 \in 0..L /\ n \in 0..L
  BY <1>1
<1>7. ASSUME NEW m \in 1..L, NEW n \in 1..L, m < n  PROVE BankEnd(m) <= BankOffset(n)
  <2>1. m <= n - 1
    BY <1>7
  <2>2. c[m] <= c[n - 1]
    BY <2>1, <1>5, <1>6
  <2>3. c[m] = BankOffset(m) + allocs[m].max
    BY <1>3, <1>4, <1>5
  <2> QED BY <2>2, <2>3, <1>4 DEF BankEnd
<1>8. \A n \in 1..L : BankOffset(n) \in Nat
  BY <1>4, <1>5, <1>6
<1> QED BY <1>1, <1>2, <1>7, <1>8

LEMMA MapFacts ==
    ASSUME Results, NEW n \in DOMAIN prog, NEW r \in OwnedBy(prog, n) \cap ProgRegs(prog)
    PROVE  /\ r \in Nat
           /\ allocs[n].phys[GroupOf(r)] \in Nat
           /\ BankOffset(n) < PhysGroup(n, r) /\ PhysGroup(n, r) <= BankEnd(n)
           /\ MapVreg(r) = 4 * PhysGroup(n, r) + (r % 4)
           /\ PhysGroup(n, r) \in Nat /\ r % 4 \in 0..3 /\ MapVreg(r) \in Nat
<1>1. r \in Nat /\ r >= VREG_START /\ IsProgram(prog)
  BY Ownership DEF Results
<1>2. OwnerOf(r) = n
  BY <1>1, Ownership DEF OwnerOf
<1>3. GroupOf(r) \in DOMAIN InputOf(prog, n).interval
  BY <1>1, SpanFacts DEF Results
<1>4. allocs[n].phys[GroupOf(r)] \in 1..allocs[n].max /\ allocs[n].max \in Nat
  BY <1>3 DEF Results, ResultSound
<1>5. BankOffset(n) \in Nat
  BY BankFacts
<1>6. /\ allocs[n].phys[GroupOf(r)] \in Nat
      /\ BankOffset(n) < PhysGroup(n, r) /\ PhysGroup(n, r) <= BankEnd(n)
      /\ PhysGroup(n, r) \in Nat
  BY <1>4, <1>5 DEF PhysGroup, BankEnd
<1>7. ~(r < VREG_START)
  BY <1>1 DEF VREG_START
<1>8. MapVreg(r) = 4 * PhysGroup(n, r) + (r % 4)
  BY <1>2, <1>7 DEF MapVreg, PhysGroup
<1>9. r % 4 \in 0..3
  BY <1>1, WordFacts
<1> QED BY <1>1, <1>6, <1>8, <1>9

(* Registers of different functions, different physical groups or          *)
(* different lanes stay apart.                                             *)
LEMMA MapApart ==
    ASSUME Results, NEW m \in DOMAIN prog, NEW n \in DOMAIN prog,
           NEW q \in OwnedBy(prog, m) \cap ProgRegs(prog),
           NEW r \in OwnedBy(prog, n) \cap ProgRegs(prog), MapVreg(q) = MapVreg(r)
    PROVE  m = n /\ allocs[n].phys[GroupOf(q)] = allocs[n].phys[GroupOf(r)] /\ q % 4 = r % 4
<1> DEFINE a == PhysGroup(m, q)
           b == PhysGroup(n, r)
           i == q % 4
           j == r % 4
<1>1. /\ a \in Nat /\ b \in Nat /\ i \in 0..3 /\ j \in 0..3
      /\ MapVreg(q) = 4 * a + i /\ MapVreg(r) = 4 * b + j
  BY MapFacts
<1>2. a = b /\ i = j
  <2>1. 4 * a + i = 4 * b + j
    BY <1>1
  <2> HIDE DEF a, b, i, j
  <2> QED BY <1>1, <2>1
<1>3. /\ BankOffset(m) < a /\ a <= BankEnd(m) /\ BankOffset(n) < b /\ b <= BankEnd(n)
  BY MapFacts
<1>4. m \in Nat /\ n \in Nat
  BY ProgramFacts DEF Results
<1>5. /\ BankOffset(m) \in Nat /\ BankOffset(n) \in Nat /\ BankEnd(m) \in Nat /\ BankEnd(n) \in Nat
      /\ m < n => BankEnd(m) <= BankOffset(n)
      /\ n < m => BankEnd(n) <= BankOffset(m)
  BY BankFacts DEF BankEnd
<1>6. m = n
  <2> HIDE DEF a, b
  <2> QED BY <1>1, <1>2, <1>3, <1>4, <1>5
<1>7. allocs[n].phys[GroupOf(q)] = allocs[n].phys[GroupOf(r)]
  <2>1. /\ BankOffset(n) \in Nat /\ allocs[n].phys[GroupOf(q)] \in Nat
        /\ allocs[n].phys[GroupOf(r)] \in Nat
    BY <1>5, <1>6, MapFacts
  <2>2. BankOffset(n) + allocs[n].phys[GroupOf(q)] = BankOffset(n) + allocs[n].phys[GroupOf(r)]
    BY <1>2, <1>6 DEF PhysGroup
  <2> QED BY <2>1, <2>2
<1> QED BY <1>2, <1>6, <1>7

(* compact_physical_vregs keeps distinct registers distinct. *)
LEMMA FinalApart ==
    ASSUME Results, NEW m \in DOMAIN prog, NEW n \in DOMAIN prog,
           NEW q \in OwnedBy(prog, m) \cap ProgRegs(prog),
           NEW r \in OwnedBy(prog, n) \cap ProgRegs(prog), FinalReg(q) = FinalReg(r)
    PROVE  MapVreg(q) = MapVreg(r)
<1> DEFINE A == ActivePhys
           Below(p) == {s \in A : s < p}
<1>1. /\ MapVreg(q) \in Nat /\ MapVreg(r) \in Nat
  BY MapFacts
<1>2. ASSUME NEW s \in ProgRegs(prog)  PROVE MapVreg(s) \in Nat
  <2>1. s \in Nat
    BY RegsFinite DEF Results
  <2>2. CASE s < VREG_START
    BY <2>1, <2>2 DEF MapVreg
  <2>3. CASE s >= VREG_START
    <3>1. PICK k \in DOMAIN prog : s \in OwnedBy(prog, k)
      BY <2>3, Ownership DEF Results
    <3> QED BY <3>1, MapFacts
  <2> QED BY <2>1, <2>2, <2>3 DEF VREG_START
<1>3. IsFiniteSet(A) /\ A \in SUBSET Nat
  <2> DEFINE S == ProgRegs(prog)
             f == [s \in S |-> MapVreg(s)]
             I == {MapVreg(s) : s \in S}
  <2>1. IsFiniteSet(S)
    BY RegsFinite, FS_Subset DEF Results
  <2>2. f \in Surjection(S, I)
    <3> HIDE DEF S
    <3> QED BY DEF Surjection
  <2>3. A \subseteq I /\ I \subseteq Nat
    BY <1>2 DEF ActivePhys
  <2> HIDE DEF f, S, I
  <2>4. IsFiniteSet(I)
    BY <2>1, <2>2, FS_Surjection
  <2> QED BY <2>3, <2>4, FS_Subset
<1>4. /\ MapVreg(q) >= VREG_START => MapVreg(q) \in A
      /\ MapVreg(r) >= VREG_START => MapVreg(r) \in A
  BY DEF ActivePhys
<1>5. \A x \in OwnedBy(prog, m) \cup OwnedBy(prog, n) : 
        FinalReg(x) = IF MapVreg(x) < VREG_START THEN MapVreg(x)
                      ELSE VREG_START + Cardinality(Below(MapVreg(x)))
  BY DEF FinalReg
<1> DEFINE a == MapVreg(q)
           b == MapVreg(r)
           Place(p) == IF p < VREG_START THEN p ELSE VREG_START + Cardinality(Below(p))
<1>6. Place(a) = Place(b)
  BY <1>5
<1> HIDE DEF A, a, b
<1>7. \A p \in Nat : IsFiniteSet(Below(p)) /\ Cardinality(Below(p)) \in Nat
  <2> SUFFICES ASSUME NEW p \in Nat
               PROVE  IsFiniteSet(Below(p)) /\ Cardinality(Below(p)) \in Nat
    OBVIOUS
  <2>1. Below(p) \in SUBSET A
    OBVIOUS
  <2> HIDE DEF Below
  <2>2. IsFiniteSet(Below(p))
    BY <1>3, <2>1, FS_Subset
  <2> QED BY <2>2, FS_CardinalityType
<1>8. ASSUME NEW x \in A, NEW y \in Nat, x < y, x >= VREG_START  PROVE Place(x) # Place(y)
  <2>0. x \in Nat
    BY <1>3
  <2>1. Below(x) \subseteq Below(y) /\ x \in Below(y) /\ x \notin Below(x)
    <3>1. \A s \in A : s < x => s < y
      BY <1>3, <1>8
    <3>2. ~(x < x)
      BY <2>0
    <3> QED BY <1>8, <3>1, <3>2, Zenon
  <2>2. Below(x) # Below(y)
    BY <2>1
  <2> HIDE DEF Below
  <2>3. Cardinality(Below(x)) < Cardinality(Below(y))
    BY <1>7, <2>0, <2>1, <2>2, FS_Subset
  <2>4. ~(x < VREG_START) /\ ~(y < VREG_START)
    BY <1>8, <2>0 DEF VREG_START
  <2>5. Cardinality(Below(x)) \in Nat /\ Cardinality(Below(y)) \in Nat
    BY <1>7, <2>0
  <2> QED BY <2>3, <2>4, <2>5 DEF VREG_START
<1>9. \A p \in Nat : /\ p < VREG_START => Place(p) = p
                     /\ p >= VREG_START => Place(p) >= VREG_START /\ Place(p) \in Nat
                     /\ p < VREG_START \/ p >= VREG_START
  <2> HIDE DEF Below
  <2> QED BY <1>7 DEF VREG_START
<1>10. a \in Nat /\ b \in Nat /\ (a >= VREG_START => a \in A) /\ (b >= VREG_START => b \in A)
  BY <1>1, <1>4 DEF a, b, A
<1> HIDE DEF Place
<1>11. a = b
  <2>1. CASE a < VREG_START
    BY <1>6, <1>9, <1>10, <2>1 DEF VREG_START
  <2>2. CASE b < VREG_START
    BY <1>6, <1>9, <1>10, <2>2 DEF VREG_START
  <2>3. CASE a >= VREG_START /\ b >= VREG_START
    <3>1. ~(a < b) /\ ~(b < a)
      BY <1>6, <1>8, <1>10, <2>3
    <3> QED BY <3>1, <1>10
  <2> QED BY <1>9, <1>10, <2>1, <2>2, <2>3
<1> QED BY <1>11 DEF a, b

-----------------------------------------------------------------------------
(* The inductive invariant: the attempt works on the program in the order  *)
(* it says, each function scanned so far has a sound result, and the scan  *)
(* under way is one of the next function's groups.                         *)
PhysMaps == UNION {[G -> Nat] : G \in SUBSET Nat}

AttemptOK ==
    /\ source \in Programs /\ scheduledOrder \in BOOLEAN
    /\ prog = IF scheduledOrder THEN Scheduled(source) ELSE source
    /\ allocs \in Seq([phys : PhysMaps, max : Nat]) /\ Len(allocs) <= Len(prog)

RAInv ==
    /\ AttemptOK /\ IInv /\ PartnersOverlap(input)
    /\ Len(allocs) < Len(prog) => input = InputOf(prog, Len(allocs) + 1)
    /\ \A n \in DOMAIN allocs : ResultSound(n)

LEMMA AttemptFacts ==
    ASSUME AttemptOK
    PROVE  /\ IsProgram(prog) /\ Numbered(prog) /\ IsProgram(source) /\ Numbered(source)
           /\ Len(prog) \in Nat \ {0} /\ DOMAIN prog = 1..Len(prog)
           /\ Len(source) \in Nat \ {0} /\ DOMAIN source = 1..Len(source)
           /\ Len(allocs) \in Nat /\ DOMAIN allocs = 1..Len(allocs)
<1>1. IsProgram(prog) /\ Numbered(prog) /\ IsProgram(source) /\ Numbered(source)
  BY ProgramsAssumption, StartsAssumption DEF AttemptOK, Numbered
<1>2. Len(allocs) \in Nat /\ DOMAIN allocs = 1..Len(allocs)
  BY DEF AttemptOK
<1> QED BY <1>1, <1>2, ProgramFacts

LEMMA RAInitInv == RAInit => RAInv
<1> SUFFICES ASSUME RAInit  PROVE RAInv
  OBVIOUS
<1>1. allocs = <<>> /\ Len(allocs) = 0 /\ DOMAIN allocs = {}
  BY DEF RAInit
<1>2. AttemptOK
  <2>1. IsProgram(prog)
    BY ProgramsAssumption DEF RAInit
  <2>2. Len(prog) \in Nat \ {0}
    BY <2>1, ProgramFacts
  <2>3. \A S : <<>> \in Seq(S)
    OBVIOUS
  <2> QED BY <1>1, <2>2, <2>3 DEF RAInit, AttemptOK
<1>3. ValidInput(InputOf(prog, 1)) /\ PartnersOverlap(InputOf(prog, 1))
  BY <1>2, AttemptFacts, InputValid
<1>4. StartScan(InputOf(prog, 1)) /\ input = InputOf(prog, 1)
  BY DEF RAInit, StartScan
<1>5. IInv
  BY <1>3, <1>4, StartIInv
<1>6. InputOf(prog, Len(allocs) + 1) = input
  <2>1. Len(allocs) + 1 = 1
    BY <1>1
  <2> QED BY <2>1, <1>4
<1> QED BY <1>1, <1>2, <1>3, <1>4, <1>5, <1>6 DEF RAInv

(* A scan that is over gives a sound result. *)
LEMMA ScanResult ==
    ASSUME RAInv, Len(allocs) < Len(prog), todo = {}
    PROVE  LET n == Len(allocs) + 1
               G == DOMAIN InputOf(prog, n).interval
           IN  /\ n \in DOMAIN prog
               /\ nextPhys - 1 \in Nat /\ phys \in [G -> 1..(nextPhys - 1)]
               /\ \A g, h \in G : g # h /\ Together(InputOf(prog, n), g, h) => phys[g] # phys[h]
               /\ [phys |-> phys, max |-> nextPhys - 1] \in [phys : PhysMaps, max : Nat]
<1> DEFINE n == Len(allocs) + 1
           G == DOMAIN InputOf(prog, n).interval
<1>1. n \in DOMAIN prog
  <2>1. Len(allocs) \in Nat /\ Len(prog) \in Nat /\ DOMAIN prog = 1..Len(prog)
    BY AttemptFacts DEF RAInv
  <2> QED BY <2>1
<1>2. input = InputOf(prog, n)
  BY DEF RAInv
<1>3. Groups = G /\ DOMAIN phys = G /\ G \subseteq Nat
  BY <1>2 DEF RAInv, IInv, TypeOK, Groups, ValidInput
<1>4. nextPhys - 1 \in Nat /\ phys \in [G -> 1..(nextPhys - 1)]
  BY <1>3 DEF RAInv, IInv, TypeOK
<1>5. \A g, h \in G : g # h /\ Together(InputOf(prog, n), g, h) => phys[g] # phys[h]
  BY <1>2, <1>3 DEF RAInv, IInv, NoSharing, Overlap, Together, Start, End
<1>6. phys \in PhysMaps
  <2>1. phys \in [G -> Nat] /\ G \in SUBSET Nat
    BY <1>3, <1>4
  <2> QED BY <2>1 DEF PhysMaps
<1> QED BY <1>1, <1>4, <1>5, <1>6

LEMMA FinishInv == RAInv /\ FinishFunction => RAInv'
<1> SUFFICES ASSUME RAInv, FinishFunction  PROVE RAInv'
  OBVIOUS
<1> DEFINE n == Len(allocs) + 1
           e == [phys |-> phys, max |-> nextPhys - 1]
           E == [phys : PhysMaps, max : Nat]
<1>1. /\ todo = {} /\ Len(allocs) < Len(prog) /\ allocs' = Append(allocs, e)
      /\ source' = source /\ scheduledOrder' = scheduledOrder /\ prog' = prog
  BY DEF FinishFunction
<1>2. /\ n \in DOMAIN prog /\ e \in E
      /\ e.max \in Nat /\ e.phys \in [DOMAIN InputOf(prog, n).interval -> 1..e.max]
      /\ \A g, h \in DOMAIN InputOf(prog, n).interval :
            g # h /\ Together(InputOf(prog, n), g, h) => e.phys[g] # e.phys[h]
  BY <1>1, ScanResult
<1>3. /\ Len(prog) \in Nat /\ Len(allocs) \in Nat /\ DOMAIN allocs = 1..Len(allocs)
      /\ DOMAIN prog = 1..Len(prog) /\ IsProgram(prog) /\ Numbered(prog)
  BY AttemptFacts DEF RAInv
<1>4. allocs \in Seq(E)
  BY DEF RAInv, AttemptOK
<1> HIDE DEF e, E
<1>5. /\ allocs' \in Seq(E) /\ Len(allocs') = n /\ DOMAIN allocs' = 1..n
      /\ allocs'[n] = e /\ \A k \in DOMAIN allocs : allocs'[k] = allocs[k]
  BY <1>1, <1>2, <1>3, <1>4
<1>6. AttemptOK'
  <2>1. n <= Len(prog)
    BY <1>2, <1>3
  <2> QED BY <1>1, <1>5, <2>1 DEF RAInv, AttemptOK, E
<1>7. \A k \in DOMAIN allocs' : ResultSound(k)'
  <2> SUFFICES ASSUME NEW k \in DOMAIN allocs'  PROVE ResultSound(k)'
    OBVIOUS
  <2>1. CASE k = n
    BY <2>1, <1>1, <1>2, <1>5 DEF ResultSound, Together
  <2>2. CASE k \in DOMAIN allocs
    <3>1. allocs'[k] = allocs[k] /\ ResultSound(k)
      BY <2>2, <1>5 DEF RAInv
    <3> QED BY <3>1, <1>1 DEF ResultSound, Together
  <2>3. k = n \/ k \in DOMAIN allocs
    BY <1>3, <1>5
  <2> QED BY <2>1, <2>2, <2>3
<1>8. CASE n < Len(prog)
  <2>1. Restart(InputOf(prog, n + 1))
    BY <1>1, <1>8, <1>3 DEF FinishFunction
  <2>2. n + 1 \in DOMAIN prog
    BY <1>3, <1>8
  <2>3. ValidInput(InputOf(prog, n + 1)) /\ PartnersOverlap(InputOf(prog, n + 1))
    BY <1>3, <2>2, InputValid
  <2>4. IInv'
    BY <2>1, <2>3, RestartIInv
  <2>5. input' = InputOf(prog, n + 1)
    BY <2>1 DEF Restart
  <2>6. PartnersOverlap(input)'
    BY <2>3, <2>5 DEF PartnersOverlap
  <2> QED BY <1>1, <1>5, <1>6, <1>7, <2>4, <2>5, <2>6 DEF RAInv
<1>9. CASE ~(n < Len(prog))
  <2>1. UNCHANGED scanVars
    BY <1>9 DEF FinishFunction
  <2>2. IInv'
    BY <2>1, StutterIInv DEF RAInv
  <2>3. PartnersOverlap(input)'
    BY <2>1 DEF RAInv, PartnersOverlap, scanVars
  <2> QED BY <1>1, <1>5, <1>6, <1>7, <1>9, <2>2, <2>3 DEF RAInv
<1> QED BY <1>8, <1>9

LEMMA RANextInv == RAInv /\ [RANext]_vars => RAInv'
<1> SUFFICES ASSUME RAInv, [RANext]_vars  PROVE RAInv'
  OBVIOUS
<1>1. ASSUME UNCHANGED <<source, scheduledOrder, prog, allocs>>, [Next]_scanVars
      PROVE  RAInv'
  <2>1. IInv'
    BY <1>1, NextIInv DEF RAInv
  <2>2. input' = input
    BY <1>1 DEF Next, Assign, scanVars
  <2>3. AttemptOK'
    BY <1>1 DEF RAInv, AttemptOK
  <2>4. \A k \in DOMAIN allocs' : ResultSound(k)'
    BY <1>1 DEF RAInv, ResultSound, Together
  <2>5. PartnersOverlap(input)'
    BY <2>2 DEF RAInv, PartnersOverlap
  <2>6. Len(allocs') < Len(prog') => input' = InputOf(prog', Len(allocs') + 1)
    BY <1>1, <2>2 DEF RAInv
  <2> QED BY <2>1, <2>3, <2>4, <2>5, <2>6 DEF RAInv
<1>2. CASE ScanStep
  BY <1>1, <1>2 DEF ScanStep
<1>3. CASE FinishFunction
  BY <1>3, FinishInv
<1>4. CASE Retry
  <2>1. /\ source' = source /\ scheduledOrder' = FALSE /\ prog' = source /\ allocs' = <<>>
        /\ Restart(InputOf(source, 1)) /\ input' = InputOf(source, 1)
    BY <1>4 DEF Retry, Restart
  <2>2. IsProgram(source) /\ Numbered(source) /\ Len(source) \in Nat \ {0} /\ 1 \in DOMAIN source
    <3>1. /\ IsProgram(source) /\ Numbered(source) /\ Len(source) \in Nat \ {0}
          /\ DOMAIN source = 1..Len(source)
      BY AttemptFacts DEF RAInv
    <3>2. 1 \in 1..Len(source)
      BY <3>1
    <3> QED BY <3>1, <3>2
  <2>3. ValidInput(InputOf(source, 1)) /\ PartnersOverlap(InputOf(source, 1))
    BY <2>2, InputValid
  <2>4. IInv'
    BY <2>1, <2>3, RestartIInv
  <2>5. PartnersOverlap(input)'
    BY <2>1, <2>3 DEF PartnersOverlap
  <2>6. Len(allocs') = 0 /\ DOMAIN allocs' = {} /\ \A S : <<>> \in Seq(S)
    BY <2>1
  <2>7. AttemptOK'
    <3>1. source' \in Programs /\ Len(allocs') <= Len(prog')
      BY <2>1, <2>2, <2>6 DEF RAInv, AttemptOK
    <3>2. prog' = source' /\ scheduledOrder' = FALSE
      BY <2>1
    <3>3. allocs' \in Seq([phys : PhysMaps, max : Nat])
      BY <2>1, <2>6
    <3> QED BY <3>1, <3>2, <3>3, Zenon DEF AttemptOK
  <2>8. input' = InputOf(prog', Len(allocs') + 1)
    <3>1. Len(allocs') + 1 = 1
      BY <2>6
    <3> QED BY <2>1, <3>1
  <2> QED BY <2>4, <2>5, <2>6, <2>7, <2>8 DEF RAInv
<1>5. CASE UNCHANGED vars
  BY <1>1, <1>5 DEF vars
<1> QED BY <1>2, <1>3, <1>4, <1>5 DEF RANext

-----------------------------------------------------------------------------
LEMMA WorksResults == RAInv /\ Works => Results
  BY AttemptFacts DEF RAInv, Works, Allocated, Results

(* Every definition is of a register the program names. *)
LEMMA DefsNamed ==
    ASSUME IsProgram(prog), NEW n \in DOMAIN prog, NEW v \in Nodes(n)
    PROVE  DefsAt(n, v) \subseteq ProgRegs(prog)
<1> DEFINE bk == prog[n].blocks[v[1]]
<1>1. v[1] \in DOMAIN prog[n].blocks /\ bk \in Block /\ v[2] \in DOMAIN Insts(bk)
  BY NodeFacts
<1>2. Insts(bk)[v[2]].def \subseteq ProgRegs(prog)
  BY <1>1, BlockFacts, RegsFinite
<1> QED BY <1>2 DEF DefsAt

(* Two registers of one function with overlapping groups stay apart.       *)
LEMMA TogetherApart ==
    ASSUME Results, NEW n \in DOMAIN prog,
           NEW q \in OwnedBy(prog, n) \cap ProgRegs(prog),
           NEW r \in OwnedBy(prog, n) \cap ProgRegs(prog),
           Together(InputOf(prog, n), GroupOf(q), GroupOf(r)), FinalReg(q) = FinalReg(r)
    PROVE  q = r
<1>1. allocs[n].phys[GroupOf(q)] = allocs[n].phys[GroupOf(r)] /\ q % 4 = r % 4
  BY FinalApart, MapApart
<1>2. GroupOf(q) = GroupOf(r)
  <2>1. /\ GroupOf(q) \in DOMAIN InputOf(prog, n).interval
        /\ GroupOf(r) \in DOMAIN InputOf(prog, n).interval
    BY SpanFacts DEF Results
  <2> QED BY <1>1, <2>1 DEF Results, ResultSound
<1>3. q = 4 * GroupOf(q) + (q % 4) /\ r = 4 * GroupOf(r) + (r % 4)
  BY MapFacts, WordFacts
<1> QED BY <1>1, <1>2, <1>3

LEMMA BanksInv == RAInv => BanksDisjoint
<1> SUFFICES ASSUME RAInv, Works, NEW m \in DOMAIN prog, NEW n \in DOMAIN prog, m # n,
                    NEW q \in OwnedBy(prog, m) \cap ProgRegs(prog),
                    NEW r \in OwnedBy(prog, n) \cap ProgRegs(prog), FinalReg(q) = FinalReg(r)
             PROVE  FALSE
  BY DEF BanksDisjoint
<1>1. Results
  BY WorksResults
<1> QED BY <1>1, FinalApart, MapApart

LEMMA AllocationInv == RAInv => AllocationSound
<1> SUFFICES ASSUME RAInv, Works, NEW n \in DOMAIN prog, NEW v \in Nodes(n),
                    NEW d \in DefsAt(n, v) \ 0..(VREG_START - 1),
                    NEW r \in OwnedBy(prog, n) \ {d},
                    LiveFrom(n, After(n, v), r), FinalReg(r) = FinalReg(d)
             PROVE  FALSE
  BY DEF AllocationSound
<1>1. Results
  BY WorksResults
<1>2. IsProgram(prog) /\ Numbered(prog)
  BY <1>1 DEF Results
<1>3. After(n, v) \cap Needed(n, r) # {} /\ r \in ProgRegs(prog)
  <2>1. After(n, v) \in SUBSET Nodes(n)
    BY <1>2, AfterNodes
  <2>2. After(n, v) \cap Needed(n, r) # {} /\ r \in FuncRegs(prog[n])
    BY <1>2, <2>1, LiveMeansNeeded
  <2> QED BY <1>2, <2>2, RegsFinite
<1>4. d \in ProgRegs(prog)
  BY <1>2, DefsNamed
<1>5. CASE d \in OwnedBy(prog, n)
  <2>1. Together(InputOf(prog, n), GroupOf(d), GroupOf(r))
    BY <1>2, <1>3, <1>5, WrittenAndNeeded
  <2> QED BY <1>1, <1>3, <1>4, <1>5, <2>1, TogetherApart
<1>6. CASE d \notin OwnedBy(prog, n)
  <2>1. d \in Nat /\ d >= VREG_START
    <3>1. d \in Nat
      BY <1>2, <1>4, RegsFinite
    <3> QED BY <3>1 DEF VREG_START
  <2>2. PICK m \in DOMAIN prog : d \in OwnedBy(prog, m)
    BY <1>2, <1>4, <2>1, Ownership
  <2> QED BY <1>1, <1>3, <1>4, <1>6, <2>2, FinalApart, MapApart
<1> QED BY <1>5, <1>6

LEMMA ParametersInv == RAInv => ParametersApart
<1> SUFFICES ASSUME RAInv, Works, NEW n \in DOMAIN prog,
                    NEW a \in OwnedBy(prog, n) \cap ProgRegs(prog),
                    NEW b \in OwnedBy(prog, n) \cap ProgRegs(prog),
                    LiveFrom(n, {<<1, 1>>}, a), LiveFrom(n, {<<1, 1>>}, b),
                    FinalReg(a) = FinalReg(b)
             PROVE  a = b
  BY DEF ParametersApart
<1>1. Results
  BY WorksResults
<1>2. IsProgram(prog) /\ Numbered(prog)
  BY <1>1 DEF Results
<1>3. {<<1, 1>>} \in SUBSET Nodes(n)
  <2>1. Len(prog[n].blocks) \in Nat \ {0} /\ DOMAIN prog[n].blocks = 1..Len(prog[n].blocks)
    BY <1>2, ProgramFacts
  <2>2. 1 \in DOMAIN prog[n].blocks
    BY <2>1
  <2>3. Len(prog[n].blocks[1].insts) \in Nat
    BY <1>2, <2>2, ProgramFacts, BlockFacts
  <2>4. 1 \in 1..(Len(prog[n].blocks[1].insts) + 1)
    BY <2>3
  <2> QED BY <2>2, <2>4, RowFacts DEF Nodes
<1>4. <<1, 1>> \in Needed(n, a) /\ <<1, 1>> \in Needed(n, b)
  <2>1. {<<1, 1>>} \cap Needed(n, a) # {} /\ {<<1, 1>>} \cap Needed(n, b) # {}
    BY <1>2, <1>3, LiveMeansNeeded
  <2> QED BY <2>1
<1>5. Together(InputOf(prog, n), GroupOf(a), GroupOf(b))
  BY <1>2, <1>4, LiveOnEntry
<1> QED BY <1>1, <1>5, TogetherApart

(* Every scan of every function, in both attempts, keeps groups that are   *)
(* live together apart, and the copy bias of linear_scan never fires.      *)
THEOREM ScansSound == RASpec => [](NoSharing /\ BiasNeverFires)
<1>1. RAInv => NoSharing /\ BiasNeverFires
  BY BiasDead DEF RAInv, IInv
<1> QED BY <1>1, RAInitInv, RANextInv, PTL DEF RASpec

(* A write never destroys a register that is still needed: from the        *)
(* liveness iteration through intervals, scan, banks and renumbering.      *)
THEOREM AllocationIsSound == RASpec => []AllocationSound
  BY RAInitInv, RANextInv, AllocationInv, PTL DEF RASpec

(* Functions write disjoint registers: what is live across a call survives *)
(* it.                                                                     *)
THEOREM CallsPreserve == RASpec => []BanksDisjoint
  BY RAInitInv, RANextInv, BanksInv, PTL DEF RASpec

(* The parameters a function reads are in registers of their own.          *)
THEOREM ArgumentsKept == RASpec => []ParametersApart
  BY RAInitInv, RANextInv, ParametersInv, PTL DEF RASpec
==============================================================================
