-------------------------- MODULE CodeLayout_proofs --------------------------
(***************************************************************************)
(* That no label is lost between lowering and the page, for all programs,  *)
(* numbers of labels, cuttings into cycles and relabellings.               *)
(***************************************************************************)
EXTENDS CodeLayout, NatLemmas

-----------------------------------------------------------------------------
(* Sequences. *)

LEMMA SequenceFacts ==
    ASSUME NEW s, IsSequence(s)
    PROVE  /\ DOMAIN s = 1..Len(s) /\ Len(s) \in Nat /\ s \in Seq(ToSet(s))
           /\ IsFiniteSet(DOMAIN s) /\ Cardinality(DOMAIN s) = Len(s)
<1>1. Len(s) \in Nat /\ s = [k \in 1..Len(s) |-> s[k]]
  BY DEF IsSequence
<1>2. DOMAIN s = 1..Len(s)
  BY <1>1
<1>3. s \in Seq(ToSet(s))
  <2>1. s \in [1..Len(s) -> ToSet(s)]
    BY <1>1 DEF ToSet
  <2> QED BY <1>1, <2>1
<1>4. IsFiniteSet(1..Len(s)) /\ Cardinality(1..Len(s)) = Len(s)
  <2>1. 1 \in Int /\ Len(s) \in Int /\ Len(s) - 1 + 1 = Len(s) /\ (1 > Len(s) => Len(s) = 0)
    BY <1>1
  <2> HIDE <1>1
  <2> QED BY <2>1, FS_Interval
<1> QED BY <1>1, <1>2, <1>3, <1>4

(* A member of Seq is a sequence in the sense of IsSequence.               *)
LEMMA SequenceOf ==
    ASSUME NEW S, NEW s \in Seq(S)
    PROVE  IsSequence(s)
<1>1. Len(s) \in Nat /\ DOMAIN s = 1..Len(s) /\ s \in [1..Len(s) -> S]
  OBVIOUS
<1> QED BY <1>1 DEF IsSequence

(* A function from 1..n is a sequence of length n.                         *)
LEMMA BuiltSequence ==
    ASSUME NEW n \in Nat, NEW s, s = [k \in 1..n |-> s[k]]
    PROVE  IsSequence(s) /\ Len(s) = n /\ DOMAIN s = 1..n
<1> DEFINE S == {s[k] : k \in 1..n}
<1>1. s \in [1..n -> S]
  OBVIOUS
<1>2. s \in Seq(S) /\ Len(s) = n
  BY <1>1
<1> QED BY <1>2, SequenceOf

(* Append adds one place and leaves the others as they were.               *)
LEMMA AppendFacts ==
    ASSUME NEW s, IsSequence(s), NEW x
    PROVE  LET t == Append(s, x)
           IN  /\ IsSequence(t) /\ Len(t) = Len(s) + 1 /\ DOMAIN t = 1..(Len(s) + 1)
               /\ \A k \in DOMAIN s : k \in DOMAIN t /\ t[k] = s[k]
               /\ t[Len(s) + 1] = x
<1> DEFINE S == ToSet(s) \cup {x}
           t == Append(s, x)
<1>1. s \in Seq(ToSet(s)) /\ DOMAIN s = 1..Len(s) /\ Len(s) \in Nat
  BY SequenceFacts
<1>2. s \in Seq(S)
  BY <1>1
<1> HIDE DEF S
<1>0. x \in S
  BY DEF S
<1>3. t \in Seq(S) /\ Len(t) = Len(s) + 1 /\ DOMAIN t = 1..(Len(s) + 1)
  BY <1>2, <1>0
<1>4. \A k \in 1..Len(s) : t[k] = s[k]
  BY <1>2, <1>0
<1>5. t[Len(s) + 1] = x
  BY <1>2, <1>0
<1>6. IsSequence(t)
  BY <1>3, SequenceOf
<1> HIDE DEF t
<1> QED BY <1>1, <1>3, <1>4, <1>5, <1>6 DEF t

(* The places of r \o s are those of r, then those of s.                   *)
LEMMA ConcatFacts ==
    ASSUME NEW s, IsSequence(s), NEW t, IsSequence(t)
    PROVE  LET u == s \o t
           IN  /\ IsSequence(u) /\ Len(u) = Len(s) + Len(t) /\ DOMAIN u = 1..(Len(s) + Len(t))
               /\ \A k \in DOMAIN s : k \in DOMAIN u /\ u[k] = s[k]
               /\ \A k \in DOMAIN t : Len(s) + k \in DOMAIN u /\ u[Len(s) + k] = t[k]
               /\ \A k \in DOMAIN u \ DOMAIN s : k - Len(s) \in DOMAIN t /\ u[k] = t[k - Len(s)]
<1> DEFINE S == ToSet(s) \cup ToSet(t)
           u == s \o t
<1>1. s \in Seq(ToSet(s)) /\ DOMAIN s = 1..Len(s) /\ Len(s) \in Nat
  BY SequenceFacts
<1>2. t \in Seq(ToSet(t)) /\ DOMAIN t = 1..Len(t) /\ Len(t) \in Nat
  BY SequenceFacts
<1>3. s \in Seq(S) /\ t \in Seq(S)
  BY <1>1, <1>2
<1> HIDE DEF S
<1>4. u \in Seq(S) /\ Len(u) = Len(s) + Len(t)
  BY <1>3
<1>5. DOMAIN u = 1..(Len(s) + Len(t))
  BY <1>4
<1>6. \A k \in 1..(Len(s) + Len(t)) : u[k] = IF k <= Len(s) THEN s[k] ELSE t[k - Len(s)]
  BY <1>3
<1>7. IsSequence(u)
  BY <1>4, SequenceOf
<1> HIDE DEF u
<1>8. \A k \in DOMAIN s : k \in DOMAIN u /\ u[k] = s[k]
  BY <1>1, <1>2, <1>5, <1>6
<1>9. \A k \in DOMAIN t : Len(s) + k \in DOMAIN u /\ u[Len(s) + k] = t[k]
  BY <1>1, <1>2, <1>5, <1>6
<1>10. \A k \in DOMAIN u \ DOMAIN s : k - Len(s) \in DOMAIN t /\ u[k] = t[k - Len(s)]
  BY <1>1, <1>2, <1>5, <1>6
<1> QED BY <1>4, <1>5, <1>7, <1>8, <1>9, <1>10 DEF u

(* Ranks that are different numbers up to how many there are list every    *)
(* element once.                                                           *)
LEMMA RankedFacts ==
    ASSUME NEW s, NEW rank, IsFiniteSet(DOMAIN rank),
           rank \in [DOMAIN rank -> 1..Cardinality(DOMAIN rank)],
           \A j, k \in DOMAIN rank : rank[j] = rank[k] => j = k
    PROVE  LET r == Ranked(s, rank)
           IN  /\ IsSequence(r) /\ Len(r) = Cardinality(DOMAIN rank)
               /\ \A n \in DOMAIN r : \E k \in DOMAIN rank : rank[k] = n /\ r[n] = s[k]
               /\ \A k \in DOMAIN rank : rank[k] \in DOMAIN r /\ r[rank[k]] = s[k]
<1> DEFINE D == DOMAIN rank
           c == Cardinality(D)
           r == Ranked(s, rank)
<1>1. c \in Nat
  BY FS_CardinalityType
<1>2. IsFiniteSet(1..c) /\ Cardinality(1..c) = c
  <2>1. 1 \in Int /\ c \in Int /\ c - 1 + 1 = c /\ (1 > c => c = 0)
    BY <1>1
  <2> HIDE DEF c
  <2> QED BY <2>1, FS_Interval
<1>3. rank \in Injection(D, 1..c)
  BY DEF Injection, IsInjective
<1>4. rank \in Surjection(D, 1..c)
  <2> HIDE DEF c, D
  <2> QED BY <1>2, <1>3, FS_Injection DEF c
<1>5. \A n \in 1..c : \E k \in D : rank[k] = n
  BY <1>4 DEF Surjection
<1>6. \A n \in 1..c : LET k == CHOOSE k \in D : rank[k] = n IN k \in D /\ rank[k] = n
  BY <1>5
<1>7. r = [n \in 1..c |-> s[CHOOSE k \in D : rank[k] = n]]
  BY DEF Ranked
<1> HIDE DEF r
<1>8. IsSequence(r) /\ Len(r) = c /\ DOMAIN r = 1..c
  <2>1. r = [n \in 1..c |-> r[n]]
    BY <1>7
  <2> HIDE DEF c
  <2> QED BY <1>1, <2>1, BuiltSequence
<1>9. \A n \in 1..c : \E k \in D : rank[k] = n /\ r[n] = s[k]
  BY <1>6, <1>7
<1>10. \A k \in D : rank[k] \in 1..c
  OBVIOUS
<1>11. \A k \in D : r[rank[k]] = s[k]
  <2> SUFFICES ASSUME NEW k \in D  PROVE r[rank[k]] = s[k]
    OBVIOUS
  <2>1. rank[k] \in 1..c
    BY <1>10
  <2>2. PICK j \in D : rank[j] = rank[k] /\ r[rank[k]] = s[j]
    BY <2>1, <1>9
  <2> QED BY <2>2
<1> QED BY <1>8, <1>9, <1>10, <1>11 DEF r

(* Counting what comes before gives such ranks.                            *)
LEMMA CountFacts ==
    ASSUME NEW D, IsFiniteSet(D), NEW T \in [D -> SUBSET D],
           \A k \in D : k \in T[k],
           \A j, k \in D : j # k => T[j] \subseteq T[k] \ {k} \/ T[k] \subseteq T[j] \ {j}
    PROVE  LET rank == [k \in D |-> Cardinality(T[k])]
           IN  /\ rank \in [D -> 1..Cardinality(D)]
               /\ \A j, k \in D : rank[j] = rank[k] => j = k
<1>1. ASSUME NEW k \in D
      PROVE  IsFiniteSet(T[k]) /\ Cardinality(T[k]) \in 1..Cardinality(D)
  <2>1. T[k] \in SUBSET D /\ T[k] # {}
    OBVIOUS
  <2>2. IsFiniteSet(T[k]) /\ Cardinality(T[k]) <= Cardinality(D)
    BY <2>1, FS_Subset
  <2>3. Cardinality(T[k]) # 0
    BY <2>1, <2>2, FS_EmptySet
  <2> QED BY <2>2, <2>3, FS_CardinalityType
<1>2. ASSUME NEW j \in D, NEW k \in D, T[j] \subseteq T[k] \ {k}
      PROVE  Cardinality(T[j]) < Cardinality(T[k])
  <2>1. IsFiniteSet(T[k] \ {k}) /\ Cardinality(T[k] \ {k}) = Cardinality(T[k]) - 1
    BY <1>1, FS_RemoveElement
  <2>2. T[j] \in SUBSET (T[k] \ {k})
    BY <1>2
  <2>3. Cardinality(T[j]) <= Cardinality(T[k] \ {k})
    BY <2>1, <2>2, FS_Subset
  <2> QED BY <1>1, <2>1, <2>3
<1>3. \A j, k \in D : Cardinality(T[j]) = Cardinality(T[k]) => j = k
  <2> SUFFICES ASSUME NEW j \in D, NEW k \in D, Cardinality(T[j]) = Cardinality(T[k]), j # k
               PROVE  FALSE
    OBVIOUS
  <2>1. Cardinality(T[j]) < Cardinality(T[k]) \/ Cardinality(T[k]) < Cardinality(T[j])
    BY <1>2
  <2>2. Cardinality(T[j]) \in Int
    BY <1>1
  <2> QED BY <2>1, <2>2
<1> QED BY <1>1, <1>3

(* What Kept keeps: the elements at D, each once.                          *)
LEMMA KeptFacts ==
    ASSUME NEW s, IsSequence(s), NEW D \in SUBSET DOMAIN s
    PROVE  LET r == Kept(s, D)
           IN  /\ IsSequence(r)
               /\ \E o \in [DOMAIN r -> D] :
                     /\ \A n \in DOMAIN r : r[n] = s[o[n]]
                     /\ \A m, n \in DOMAIN r : o[m] = o[n] => m = n
                     /\ \A k \in D : \E n \in DOMAIN r : o[n] = k
<1> DEFINE T == [k \in D |-> {j \in D : j <= k}]
           rank == [k \in D |-> Cardinality({j \in D : j <= k})]
           r == Kept(s, D)
<1>1. DOMAIN s = 1..Len(s) /\ Len(s) \in Nat /\ IsFiniteSet(DOMAIN s)
  BY SequenceFacts
<1>2. IsFiniteSet(D)
  BY <1>1, FS_Subset
<1>3. \A k \in D : k \in Int
  BY <1>1
<1>4. /\ T \in [D -> SUBSET D] /\ \A k \in D : k \in T[k]
      /\ \A j, k \in D : j # k => T[j] \subseteq T[k] \ {k} \/ T[k] \subseteq T[j] \ {j}
  <2>1. \A k \in D : k \in T[k]
    BY <1>3
  <2>2. ASSUME NEW j \in D, NEW k \in D, j < k  PROVE T[j] \subseteq T[k] \ {k}
    BY <1>3, <2>2
  <2> QED BY <1>3, <2>1, <2>2
<1>5. rank = [k \in D |-> Cardinality(T[k])]
  OBVIOUS
<1> HIDE DEF T
<1>6. rank \in [D -> 1..Cardinality(D)] /\ \A j, k \in D : rank[j] = rank[k] => j = k
  <2> HIDE DEF rank
  <2> QED BY <1>2, <1>4, <1>5, CountFacts
<1>7. DOMAIN rank = D /\ r = Ranked(s, rank)
  BY DEF Kept
<1> HIDE DEF rank, r
<1>8. /\ IsSequence(r)
      /\ \A n \in DOMAIN r : \E k \in D : rank[k] = n /\ r[n] = s[k]
      /\ \A k \in D : rank[k] \in DOMAIN r /\ r[rank[k]] = s[k]
  BY <1>2, <1>6, <1>7, RankedFacts
<1> DEFINE o == [n \in DOMAIN r |-> CHOOSE k \in D : rank[k] = n /\ r[n] = s[k]]
<1>9. \A n \in DOMAIN r : o[n] \in D /\ rank[o[n]] = n /\ r[n] = s[o[n]]
  BY <1>8
<1>10. o \in [DOMAIN r -> D]
  BY <1>9
<1> HIDE DEF o
<1>11. \A m, n \in DOMAIN r : o[m] = o[n] => m = n
  BY <1>9
<1>12. \A k \in D : \E n \in DOMAIN r : o[n] = k
  BY <1>6, <1>8, <1>9
<1> QED BY <1>8, <1>9, <1>10, <1>11, <1>12 DEF r

-----------------------------------------------------------------------------
(* The inductive invariant. *)

HasBlocks == {f \in Funcs : source.funcs[f] # <<>>}
EntryPcs  == {Label(f, 0) : f \in HasBlocks}
Ids(bs)   == {bs[k].id : k \in DOMAIN bs}

IsBlock(b) == b = [id |-> b.id, ops |-> b.ops, term |-> b.term] /\ IsOps(b.ops) /\ IsTerm(b.term)

(* The blocks of one function, whose entry is e. *)
FunctionSound(bs, e) ==
    /\ IsSequence(bs) /\ e \in Ids(bs)
    /\ \A j, k \in DOMAIN bs : bs[j].id = bs[k].id => j = k
    /\ \A k \in DOMAIN bs :
          /\ IsBlock(bs[k]) /\ bs[k].id \in 0..MaxPc /\ Named(bs[k]) \subseteq 0..MaxPc
          /\ \A c \in StoredPcs(bs[k]) :
                /\ bs[k].term.op = "Call" /\ bs[k].term.targets = <<c>>
                /\ \E j \in DOMAIN bs : bs[j].id = c /\ Frees(bs[j])

BlocksSound ==
    \/ blocks = <<>>
    \/ /\ DOMAIN blocks = Funcs
       /\ \A f \in Funcs : IF f \in HasBlocks THEN FunctionSound(blocks[f], Label(f, 0))
                                              ELSE blocks[f] = <<>>

(* What schedule() has numbered so far is the beginning of Order. *)
LaidSound ==
    /\ IsSequence(laid) /\ Len(laid) <= Len(Order)
    /\ \A n \in DOMAIN laid :
          /\ laid[n].block = Order[n].block
          /\ \E w \in Widths : laid[n].cut = Cut(laid[n].block.ops, w)
          /\ laid[n].pcs \in [DOMAIN laid[n].cut -> 0..MaxPc]

PageIds == {cycles[k].id : k \in DOMAIN cycles}
PageSound ==
    /\ IsSequence(cycles) /\ DOMAIN entries = Funcs
    /\ \A k \in DOMAIN cycles : /\ IsBlock(cycles[k]) /\ cycles[k].id \in 0..MaxPc
                                /\ Named(cycles[k]) \subseteq PageIds
    /\ IF phase = "page" THEN start \in PageIds ELSE Entry \in PageIds

LayoutInv ==
    /\ source \in Programs
    /\ phase \in Phases /\ pass \in 0..(PASSES + 1) /\ changed \in BOOLEAN
    /\ rounds \in 0..MAX_OPT_RUN_ITERS
    /\ BlocksSound
    /\ phase = "lower" => blocks = <<>>
    /\ phase \in {"lower", "opt"} => laid = <<>>
    /\ phase \in {"opt", "layout"} =>
          /\ blocks # <<>>
          /\ entries = [f \in Funcs |-> IF f \in HasBlocks THEN Label(f, 0) ELSE 0]
    /\ phase = "layout" => LaidSound
    /\ IF Paged THEN PageSound ELSE cycles = <<>>
    /\ phase # "page" => start = 0

(* With labels that are apart, names stay inside their function or are     *)
(* entries.                                                                *)
FunctionClosed(bs, e) ==
    /\ Ids(bs) \cap EntryPcs \subseteq {e}
    /\ \A k \in DOMAIN bs : /\ Successors(bs[k]) \subseteq Ids(bs) \cup EntryPcs
                            /\ ToSet(bs[k].term.callee) \subseteq EntryPcs
Closed ==
    phase \in {"opt", "layout"} => \A f \in HasBlocks : FunctionClosed(blocks[f], Label(f, 0))

(* What every pass keeps. *)
Keeps(bs, new, e) ==
    FunctionSound(bs, e) =>
        /\ FunctionSound(new, e)
        /\ FunctionClosed(bs, e) => FunctionClosed(new, e)

-----------------------------------------------------------------------------
(* The least and the greatest position of some.                            *)
LEMMA PickFacts ==
    ASSUME NEW bs, IsSequence(bs), NEW S \in SUBSET DOMAIN bs, S # {}
    PROVE  Min(S) \in S /\ Max(S) \in S
<1>1. DOMAIN bs = 1..Len(bs) /\ Len(bs) \in Nat
  BY SequenceFacts
<1>2. S \in SUBSET Nat /\ \A y \in S : y <= Len(bs)
  BY <1>1
<1>3. \E x \in S : \A y \in S : x <= y
  BY <1>2, LeastNumber
<1>4. \E x \in S : \A y \in S : x >= y
  <2>1. \E x \in S : \A y \in S : y <= x
    BY <1>1, <1>2, GreatestNumber
  <2> QED BY <2>1, <1>2
<1> QED BY <1>3, <1>4 DEF Min, Max

(* A block with another terminator in the place of its own.                *)
LEMMA NewTerm ==
    ASSUME NEW b, IsBlock(b), NEW t, IsTerm(t)
    PROVE  LET c == [b EXCEPT !.term = t]
           IN  /\ IsBlock(c) /\ c.id = b.id /\ c.ops = b.ops /\ c.term = t
               /\ StoredPcs(c) = StoredPcs(b) /\ (Frees(c) <=> Frees(b))
<1> DEFINE c == [b EXCEPT !.term = t]
<1>1. c = [id |-> b.id, ops |-> b.ops, term |-> t]
  BY DEF IsBlock
<1>2. c.id = b.id /\ c.ops = b.ops /\ c.term = t
  BY <1>1
<1> HIDE DEF c
<1> QED BY <1>1, <1>2 DEF IsBlock, StoredPcs, Frees, c

(* A block with other ops in the place of its own.                         *)
LEMMA NewOps ==
    ASSUME NEW b, IsBlock(b), NEW ops, IsOps(ops)
    PROVE  LET c == [b EXCEPT !.ops = ops]
           IN  /\ IsBlock(c) /\ c.id = b.id /\ c.ops = ops /\ c.term = b.term
<1> DEFINE c == [b EXCEPT !.ops = ops]
<1>1. c = [id |-> b.id, ops |-> ops, term |-> b.term]
  BY DEF IsBlock
<1>2. c.id = b.id /\ c.ops = ops /\ c.term = b.term
  BY <1>1
<1> HIDE DEF c
<1> QED BY <1>1, <1>2 DEF IsBlock, c

(* A jump is a terminator that names its target and nothing else.          *)
LEMMA GotoFacts ==
    ASSUME NEW x
    PROVE  /\ IsTerm(Goto(x)) /\ Goto(x).op = "Goto" /\ Goto(x).targets = <<x>>
           /\ Goto(x).callee = <<>> /\ ToSet(Goto(x).targets) = {x} /\ ToSet(Goto(x).callee) = {}
<1>1. IsSequence(<<x>>) /\ DOMAIN <<x>> = {1} /\ <<x>>[1] = x
  <2>1. DOMAIN <<x>> = 1..1 /\ <<x>>[1] = x /\ Len(<<x>>) = 1
    OBVIOUS
  <2>2. <<x>> = [k \in 1..1 |-> <<x>>[k]]
    OBVIOUS
  <2> QED BY <2>1, <2>2 DEF IsSequence
<1>2. IsSequence(<<>>) /\ DOMAIN <<>> = {}
  <2>1. DOMAIN <<>> = 1..0 /\ Len(<<>>) = 0
    OBVIOUS
  <2>2. <<>> = [k \in 1..0 |-> <<>>[k]]
    OBVIOUS
  <2> QED BY <2>1, <2>2 DEF IsSequence
<1>3. ToSet(<<x>>) = {x} /\ ToSet(<<>>) = {}
  BY <1>1, <1>2 DEF ToSet
<1> QED BY <1>1, <1>2, <1>3 DEF Goto, IsTerm

(* Passes that leave every block in its place. *)
InPlace(bs, new) ==
    /\ new = [k \in DOMAIN bs |-> new[k]]
    /\ \A k \in DOMAIN bs :
          /\ IsBlock(new[k]) /\ new[k].id = bs[k].id
          /\ StoredPcs(new[k]) = StoredPcs(bs[k])
          /\ Frees(bs[k]) => Frees(new[k])
          /\ StoredPcs(bs[k]) # {} => new[k].term.op = bs[k].term.op
                                      /\ new[k].term.targets = bs[k].term.targets

(* A pass that keeps ids, continuations and frames keeps a function        *)
(* sound.                                                                  *)
LEMMA InPlaceSound ==
    ASSUME NEW bs, NEW new, NEW e, FunctionSound(bs, e), InPlace(bs, new),
           \A k \in DOMAIN bs : Named(new[k]) \subseteq 0..MaxPc
    PROVE  FunctionSound(new, e) /\ Ids(new) = Ids(bs) /\ DOMAIN new = DOMAIN bs
<1>1. DOMAIN new = DOMAIN bs /\ DOMAIN bs = 1..Len(bs) /\ Len(bs) \in Nat
  BY SequenceFacts DEF InPlace, FunctionSound
<1>2. IsSequence(new)
  <2>1. new = [k \in 1..Len(bs) |-> new[k]]
    BY <1>1 DEF InPlace
  <2> QED BY <1>1, <2>1, BuiltSequence
<1>3. Ids(new) = Ids(bs)
  BY <1>1 DEF InPlace, Ids
<1>4. \A j, k \in DOMAIN new : new[j].id = new[k].id => j = k
  BY <1>1 DEF InPlace, FunctionSound
<1>5. ASSUME NEW k \in DOMAIN new
      PROVE  /\ IsBlock(new[k]) /\ new[k].id \in 0..MaxPc /\ Named(new[k]) \subseteq 0..MaxPc
             /\ \A c \in StoredPcs(new[k]) :
                   /\ new[k].term.op = "Call" /\ new[k].term.targets = <<c>>
                   /\ \E j \in DOMAIN new : new[j].id = c /\ Frees(new[j])
  <2>1. IsBlock(new[k]) /\ new[k].id \in 0..MaxPc /\ Named(new[k]) \subseteq 0..MaxPc
    BY <1>1 DEF InPlace, FunctionSound
  <2>2. ASSUME NEW c \in StoredPcs(new[k])
        PROVE  /\ new[k].term.op = "Call" /\ new[k].term.targets = <<c>>
               /\ \E j \in DOMAIN new : new[j].id = c /\ Frees(new[j])
    <3>1. c \in StoredPcs(bs[k]) /\ k \in DOMAIN bs
      BY <1>1 DEF InPlace
    <3>2. bs[k].term.op = "Call" /\ bs[k].term.targets = <<c>>
      BY <3>1 DEF FunctionSound
    <3>3. PICK j \in DOMAIN bs : bs[j].id = c /\ Frees(bs[j])
      BY <3>1 DEF FunctionSound
    <3>4. new[j].id = c /\ Frees(new[j])
      BY <3>3 DEF InPlace
    <3>5. new[k].term.op = "Call" /\ new[k].term.targets = <<c>>
      BY <3>1, <3>2 DEF InPlace
    <3> QED BY <1>1, <3>4, <3>5
  <2> QED BY <2>1, <2>2
<1>6. e \in Ids(new)
  BY <1>3 DEF FunctionSound
<1> QED BY <1>1, <1>2, <1>3, <1>4, <1>5, <1>6 DEF FunctionSound

-----------------------------------------------------------------------------
(* instsimplify *)
LEMMA SimplifyKeeps ==
    ASSUME NEW bs, NEW e
    PROVE  Keeps(bs, SimplifyTerms(bs, e), e)
<1> SUFFICES ASSUME FunctionSound(bs, e)
             PROVE  /\ FunctionSound(SimplifyTerms(bs, e), e)
                    /\ FunctionClosed(bs, e) => FunctionClosed(SimplifyTerms(bs, e), e)
  BY DEF Keeps
<1> DEFINE new == SimplifyTerms(bs, e)
<1>1. ASSUME NEW k \in DOMAIN bs
      PROVE  /\ IsBlock(new[k]) /\ new[k].id = bs[k].id
             /\ StoredPcs(new[k]) = StoredPcs(bs[k]) /\ (Frees(bs[k]) => Frees(new[k]))
             /\ Successors(new[k]) \subseteq Successors(bs[k])
             /\ ToSet(new[k].term.callee) \subseteq ToSet(bs[k].term.callee)
             /\ new[k].term = bs[k].term \/ bs[k].term.op = "Branch"
  <2> DEFINE t == bs[k].term
             u == SimplifyTerm(t)
  <2>1. IsBlock(bs[k]) /\ IsTerm(t)
    BY DEF FunctionSound, IsBlock
  <2>2. /\ IsTerm(u) /\ ToSet(u.targets) \subseteq ToSet(t.targets)
        /\ ToSet(u.callee) \subseteq ToSet(t.callee) /\ (u = t \/ t.op = "Branch")
    <3>1. CASE u = t
      BY <2>1, <3>1
    <3>2. CASE u # t
      <4> HIDE DEF t
      <4>0. t.op = "Branch" /\ u = Goto(t.targets[1])
        BY <3>2 DEF SimplifyTerm
      <4>1. t.targets[1] \in ToSet(t.targets)
        BY <2>1, <4>0 DEF IsTerm, ToSet
      <4> HIDE DEF u
      <4>2. /\ IsTerm(u) /\ ToSet(u.targets) = {t.targets[1]} /\ ToSet(u.callee) = {}
        BY <4>0, GotoFacts
      <4> QED BY <4>0, <4>1, <4>2
    <3> QED BY <3>1, <3>2
  <2>3. new[k] = [bs[k] EXCEPT !.term = u]
    BY DEF SimplifyTerms
  <2> HIDE DEF t, u, new
  <2>4. /\ IsBlock(new[k]) /\ new[k].id = bs[k].id /\ new[k].term = u
        /\ StoredPcs(new[k]) = StoredPcs(bs[k]) /\ (Frees(new[k]) <=> Frees(bs[k]))
    BY <2>1, <2>2, <2>3, NewTerm
  <2> QED BY <2>2, <2>4 DEF Successors, t
<1>2. InPlace(bs, new)
  <2>1. new = [k \in DOMAIN bs |-> new[k]]
    BY DEF SimplifyTerms
  <2>2. \A k \in DOMAIN bs : StoredPcs(bs[k]) # {} => bs[k].term.op # "Branch"
    BY DEF FunctionSound
  <2> HIDE DEF new
  <2> QED BY <1>1, <2>1, <2>2 DEF InPlace
<1> HIDE DEF new
<1>3. \A k \in DOMAIN bs : Named(new[k]) \subseteq 0..MaxPc
  BY <1>1 DEF Named, FunctionSound
<1>4. FunctionSound(new, e) /\ Ids(new) = Ids(bs) /\ DOMAIN new = DOMAIN bs
  BY <1>2, <1>3, InPlaceSound
<1>5. FunctionClosed(bs, e) => FunctionClosed(new, e)
  BY <1>1, <1>4 DEF FunctionClosed
<1> QED BY <1>4, <1>5 DEF new

-----------------------------------------------------------------------------
(* Sequences of ops. *)
StoredIn(ops) == {ops[k].val[1] : k \in {k \in DOMAIN ops : ops[k].op = "StorePc"}}
FreesIn(ops)  == \E m \in DOMAIN ops : ops[m].op = "Free"

(* What a block stores and frees is what its ops do.                       *)
LEMMA OpsOf ==
    ASSUME NEW b
    PROVE  StoredPcs(b) = StoredIn(b.ops) /\ (Frees(b) <=> FreesIn(b.ops))
BY DEF StoredPcs, StoredIn, Frees, FreesIn

(* Joined ops store and free what the two parts do.                        *)
LEMMA OpsConcat ==
    ASSUME NEW r, NEW s, IsOps(r), IsOps(s)
    PROVE  /\ IsOps(r \o s)
           /\ StoredIn(r \o s) = StoredIn(r) \cup StoredIn(s)
           /\ FreesIn(r \o s) <=> FreesIn(r) \/ FreesIn(s)
<1> DEFINE u == r \o s
<1>1. /\ IsSequence(u) /\ DOMAIN u = 1..(Len(r) + Len(s))
      /\ \A k \in DOMAIN r : k \in DOMAIN u /\ u[k] = r[k]
      /\ \A k \in DOMAIN s : Len(r) + k \in DOMAIN u /\ u[Len(r) + k] = s[k]
      /\ \A k \in DOMAIN u \ DOMAIN r : k - Len(r) \in DOMAIN s /\ u[k] = s[k - Len(r)]
  <2>1. IsSequence(r) /\ IsSequence(s)
    BY DEF IsOps
  <2>2. /\ IsSequence(u) /\ DOMAIN u = 1..(Len(r) + Len(s))
        /\ \A k \in DOMAIN r : k \in DOMAIN u /\ u[k] = r[k]
    BY <2>1, ConcatFacts
  <2>3. \A k \in DOMAIN s : Len(r) + k \in DOMAIN u /\ u[Len(r) + k] = s[k]
    BY <2>1, ConcatFacts
  <2>4. \A k \in DOMAIN u \ DOMAIN r : k - Len(r) \in DOMAIN s /\ u[k] = s[k - Len(r)]
    BY <2>1, ConcatFacts
  <2> HIDE DEF u
  <2> QED BY <2>2, <2>3, <2>4
<1> HIDE DEF u
<1>2. IsOps(u)
  <2>1. ASSUME NEW k \in DOMAIN u  PROVE u[k] = Op(u[k].op, u[k].val)
    <3>1. CASE k \in DOMAIN r
      <4>1. u[k] = r[k] /\ r[k] = Op(r[k].op, r[k].val)
        BY <1>1, <3>1 DEF IsOps
      <4> QED BY <4>1
    <3>2. CASE k \notin DOMAIN r
      <4>1. k - Len(r) \in DOMAIN s /\ u[k] = s[k - Len(r)]
        BY <1>1, <3>2
      <4>2. s[k - Len(r)] = Op(s[k - Len(r)].op, s[k - Len(r)].val)
        BY <4>1 DEF IsOps
      <4> QED BY <4>1, <4>2
    <3> QED BY <3>1, <3>2
  <2> QED BY <1>1, <2>1 DEF IsOps
<1>3. StoredIn(u) = StoredIn(r) \cup StoredIn(s)
  <2>1. StoredIn(u) \subseteq StoredIn(r) \cup StoredIn(s)
    <3> SUFFICES ASSUME NEW k \in DOMAIN u, u[k].op = "StorePc"
                 PROVE  u[k].val[1] \in StoredIn(r) \cup StoredIn(s)
      BY DEF StoredIn
    <3>1. CASE k \in DOMAIN r
      BY <1>1, <3>1 DEF StoredIn
    <3>2. CASE k \notin DOMAIN r
      <4>1. k - Len(r) \in DOMAIN s /\ u[k] = s[k - Len(r)]
        BY <1>1, <3>2
      <4> QED BY <4>1 DEF StoredIn
    <3> QED BY <3>1, <3>2
  <2>2. StoredIn(r) \subseteq StoredIn(u)
    BY <1>1 DEF StoredIn
  <2>3. StoredIn(s) \subseteq StoredIn(u)
    <3> SUFFICES ASSUME NEW k \in DOMAIN s, s[k].op = "StorePc"  PROVE s[k].val[1] \in StoredIn(u)
      BY DEF StoredIn
    <3>1. Len(r) + k \in DOMAIN u /\ u[Len(r) + k] = s[k]
      BY <1>1
    <3> QED BY <3>1 DEF StoredIn
  <2> QED BY <2>1, <2>2, <2>3
<1>4. FreesIn(u) <=> FreesIn(r) \/ FreesIn(s)
  <2>1. FreesIn(r) => FreesIn(u)
    BY <1>1 DEF FreesIn
  <2>2. FreesIn(s) => FreesIn(u)
    BY <1>1 DEF FreesIn
  <2>3. FreesIn(u) => FreesIn(r) \/ FreesIn(s)
    BY <1>1 DEF FreesIn
  <2> QED BY <2>1, <2>2, <2>3
<1> QED BY <1>2, <1>3, <1>4 DEF u

(* An op that neither stores nor frees, added at the end, changes nothing  *)
(* of either.                                                              *)
LEMMA OpsAppend ==
    ASSUME NEW r, IsOps(r), NEW x, x = Op(x.op, x.val), x.op \notin {"StorePc", "Free"}
    PROVE  /\ IsOps(Append(r, x)) /\ StoredIn(Append(r, x)) = StoredIn(r)
           /\ FreesIn(Append(r, x)) <=> FreesIn(r)
<1> DEFINE u == Append(r, x)
<1>1. DOMAIN r = 1..Len(r) /\ Len(r) \in Nat
  BY SequenceFacts DEF IsOps
<1>2. /\ IsSequence(u) /\ DOMAIN u = 1..(Len(r) + 1)
      /\ \A k \in DOMAIN r : k \in DOMAIN u /\ u[k] = r[k]
      /\ u[Len(r) + 1] = x
  BY AppendFacts DEF IsOps
<1> HIDE DEF u
<1>3. \A k \in DOMAIN u : k \in DOMAIN r \/ u[k] = x
  BY <1>1, <1>2
<1>4. IsOps(u)
  BY <1>2, <1>3 DEF IsOps
<1>5. StoredIn(u) = StoredIn(r)
  BY <1>2, <1>3 DEF StoredIn
<1>6. FreesIn(u) <=> FreesIn(r)
  BY <1>2, <1>3 DEF FreesIn
<1> QED BY <1>4, <1>5, <1>6 DEF u

(* Leaving out ops that neither store nor free changes nothing of either.  *)
LEMMA OpsKept ==
    ASSUME NEW r, IsOps(r), NEW D \in SUBSET DOMAIN r,
           \A k \in DOMAIN r : r[k].op \in {"StorePc", "Free"} => k \in D
    PROVE  /\ IsOps(Kept(r, D)) /\ StoredIn(Kept(r, D)) = StoredIn(r)
           /\ FreesIn(Kept(r, D)) <=> FreesIn(r)
<1> DEFINE u == Kept(r, D)
<1>1. IsSequence(u) /\ \E o \in [DOMAIN u -> D] :
            /\ \A n \in DOMAIN u : u[n] = r[o[n]]
            /\ \A k \in D : \E n \in DOMAIN u : o[n] = k
  <2>1. IsSequence(r)
    BY DEF IsOps
  <2> HIDE DEF u
  <2> QED BY <2>1, KeptFacts DEF u
<1> HIDE DEF u
<1>2. PICK o \in [DOMAIN u -> D] : /\ \A n \in DOMAIN u : u[n] = r[o[n]]
                                   /\ \A k \in D : \E n \in DOMAIN u : o[n] = k
  BY <1>1
<1>3. IsOps(u)
  BY <1>1, <1>2 DEF IsOps
<1>4. StoredIn(u) \subseteq StoredIn(r)
  BY <1>2 DEF StoredIn
<1>5. StoredIn(r) \subseteq StoredIn(u)
  <2> SUFFICES ASSUME NEW k \in DOMAIN r, r[k].op = "StorePc"  PROVE r[k].val[1] \in StoredIn(u)
    BY DEF StoredIn
  <2>1. PICK n \in DOMAIN u : o[n] = k
    BY <1>2
  <2> QED BY <1>2, <2>1 DEF StoredIn
<1>6. FreesIn(u) <=> FreesIn(r)
  BY <1>2 DEF FreesIn
<1> QED BY <1>3, <1>4, <1>5, <1>6 DEF u

-----------------------------------------------------------------------------
(* predicate_branch_putchar *)
LEMMA HoistKeeps ==
    ASSUME NEW bs, NEW e, NEW i \in DOMAIN bs, NEW a \in 1..2, PutArm(bs, i, a)
    PROVE  Keeps(bs, HoistPut(bs, i, a), e)
<1> SUFFICES ASSUME FunctionSound(bs, e)
             PROVE  /\ FunctionSound(HoistPut(bs, i, a), e)
                    /\ FunctionClosed(bs, e) => FunctionClosed(HoistPut(bs, i, a), e)
  BY DEF Keeps
<1> DEFINE t    == bs[i].term
           arm  == bs[Max(Index(bs, t.targets[a]))]
           x    == Op("PutIf", <<arm.ops[1].val[1], t.cond, a>>)
           u    == Goto(t.targets[3 - a])
           ops  == Append(bs[i].ops, x)
           new  == HoistPut(bs, i, a)
<1>1. t.op = "Branch" /\ Len(t.targets) = 2
  BY DEF PutArm
<1>2. IsBlock(bs[i]) /\ IsTerm(t) /\ IsOps(bs[i].ops)
  BY DEF FunctionSound, IsBlock
<1>3. t.targets[3 - a] \in ToSet(t.targets)
  <2>1. DOMAIN t.targets = 1..2
    BY <1>1, <1>2, SequenceFacts DEF IsTerm
  <2>2. 3 - a \in 1..2
    OBVIOUS
  <2> HIDE DEF t
  <2> QED BY <2>1, <2>2 DEF ToSet
<1>4. /\ IsTerm(u) /\ u.op = "Goto" /\ ToSet(u.targets) \subseteq ToSet(t.targets)
      /\ ToSet(u.callee) = {}
  <2> DEFINE y == t.targets[3 - a]
  <2>1. y \in ToSet(t.targets)
    BY <1>3
  <2> HIDE DEF y, t
  <2>2. IsTerm(Goto(y)) /\ Goto(y).op = "Goto" /\ ToSet(Goto(y).targets) = {y} /\ ToSet(Goto(y).callee) = {}
    BY GotoFacts
  <2>3. u = Goto(y)
    BY DEF y
  <2> HIDE DEF u
  <2> QED BY <2>1, <2>2, <2>3
<1>5. x = Op(x.op, x.val) /\ x.op = "PutIf"
  BY DEF Op
<1>6. /\ IsOps(ops) /\ StoredIn(ops) = StoredIn(bs[i].ops)
      /\ FreesIn(ops) <=> FreesIn(bs[i].ops)
  <2> HIDE DEF x
  <2> QED BY <1>2, <1>5, OpsAppend
<1>7. new = [bs EXCEPT ![i] = [[bs[i] EXCEPT !.ops = ops] EXCEPT !.term = u]]
  BY <1>2 DEF HoistPut, FunctionSound, IsSequence
<1> DEFINE c == [bs[i] EXCEPT !.ops = ops]
           d == [c EXCEPT !.term = u]
<1> HIDE DEF x, ops, u, new
<1>8. IsBlock(c) /\ c.id = bs[i].id /\ c.ops = ops
  BY <1>2, <1>6, NewOps
<1>9. /\ IsBlock(d) /\ d.id = bs[i].id /\ d.term = u
      /\ StoredPcs(d) = StoredPcs(bs[i]) /\ (Frees(d) <=> Frees(bs[i]))
  <2> HIDE DEF c
  <2>1. IsBlock(d) /\ d.id = c.id /\ d.term = u /\ StoredPcs(d) = StoredPcs(c) /\ (Frees(d) <=> Frees(c))
    BY <1>4, <1>8, NewTerm
  <2> HIDE DEF d
  <2> QED BY <2>1, <1>6, <1>8, OpsOf
<1>10. new = [bs EXCEPT ![i] = d]
  BY <1>7
<1> HIDE DEF c, d
<1>11. DOMAIN new = DOMAIN bs /\ new[i] = d /\ \A k \in DOMAIN bs : k # i => new[k] = bs[k]
  BY <1>10
<1>12. ASSUME NEW k \in DOMAIN bs
       PROVE  /\ IsBlock(new[k]) /\ new[k].id = bs[k].id
              /\ StoredPcs(new[k]) = StoredPcs(bs[k]) /\ (Frees(bs[k]) => Frees(new[k]))
              /\ Successors(new[k]) \subseteq Successors(bs[k])
              /\ ToSet(new[k].term.callee) \subseteq ToSet(bs[k].term.callee)
              /\ new[k].term = bs[k].term \/ bs[k].term.op = "Branch"
  <2>1. CASE k # i
    BY <1>11, <2>1 DEF FunctionSound
  <2>2. CASE k = i
    <3> QED BY <1>1, <1>4, <1>9, <1>11, <2>2 DEF Successors
  <2> QED BY <2>1, <2>2
<1>13. InPlace(bs, new)
  <2>1. new = [k \in DOMAIN bs |-> new[k]]
    BY <1>10
  <2>2. \A k \in DOMAIN bs : StoredPcs(bs[k]) # {} => bs[k].term.op # "Branch"
    BY DEF FunctionSound
  <2> QED BY <1>12, <2>1, <2>2 DEF InPlace
<1>14. \A k \in DOMAIN bs : Named(new[k]) \subseteq 0..MaxPc
  BY <1>12 DEF Named, FunctionSound
<1>15. FunctionSound(new, e) /\ Ids(new) = Ids(bs) /\ DOMAIN new = DOMAIN bs
  BY <1>13, <1>14, InPlaceSound
<1>16. FunctionClosed(bs, e) => FunctionClosed(new, e)
  BY <1>12, <1>15 DEF FunctionClosed
<1> QED BY <1>15, <1>16 DEF new

(* One arm hoisted, or none, keeps the function sound and closed.          *)
LEMMA PredicateOnceKeeps ==
    ASSUME NEW bs, NEW e
    PROVE  Keeps(bs, PredicateOnce(bs), e)
<1> SUFFICES ASSUME FunctionSound(bs, e)  PROVE Keeps(bs, PredicateOnce(bs), e)
  BY DEF Keeps
<1> DEFINE at == {i \in DOMAIN bs : \E a \in 1..2 : PutArm(bs, i, a)}
           i  == Min(at)
           A  == {a \in 1..2 : PutArm(bs, i, a)}
<1>1. CASE at = {}
  <2>1. PredicateOnce(bs) = bs
    BY <1>1 DEF PredicateOnce
  <2> QED BY <2>1 DEF Keeps
<1>2. CASE at # {}
  <2>1. at \in SUBSET DOMAIN bs
    OBVIOUS
  <2>2. i \in at
    <3> HIDE DEF at
    <3> QED BY <1>2, <2>1, PickFacts DEF FunctionSound
  <2>3. i \in DOMAIN bs /\ A # {}
    BY <2>2
  <2>4. Min(A) \in A
    <3>1. A \in SUBSET Nat
      OBVIOUS
    <3>2. \E y \in A : \A z \in A : y <= z
      <4> HIDE DEF A
      <4> QED BY <3>1, <2>3, LeastNumber
    <3> HIDE DEF A
    <3> QED BY <3>2 DEF Min
  <2>5. PredicateOnce(bs) = HoistPut(bs, i, Min(A))
    BY <1>2 DEF PredicateOnce
  <2>6. Min(A) \in 1..2 /\ PutArm(bs, i, Min(A))
    BY <2>4
  <2> HIDE DEF i, A
  <2> QED BY <2>3, <2>5, <2>6, HoistKeeps
<1> QED BY <1>1, <1>2

(* Two passes that each keep this keep it one after the other.             *)
LEMMA KeepsChains ==
    ASSUME NEW bs, NEW mid, NEW new, NEW e, Keeps(bs, mid, e), Keeps(mid, new, e)
    PROVE  Keeps(bs, new, e)
BY DEF Keeps

(* Any number of steps that keep, kept in a table, keep.                   *)
LEMMA StepsKeep ==
    ASSUME NEW bs, NEW e, NEW N \in Nat, NEW after, after[0] = bs,
           \A n \in 1..N : Keeps(after[n - 1], after[n], e)
    PROVE  Keeps(bs, after[N], e)
<1> DEFINE S == {n \in Nat : n <= N => Keeps(bs, after[n], e)}
<1>1. 0 \in S
  BY DEF Keeps
<1>2. ASSUME NEW n \in Nat, n \in S  PROVE n + 1 \in S
  <2> SUFFICES ASSUME n + 1 <= N  PROVE Keeps(bs, after[n + 1], e)
    OBVIOUS
  <2>1. n <= N /\ n + 1 \in 1..N /\ (n + 1) - 1 = n
    OBVIOUS
  <2>2. Keeps(bs, after[n], e) /\ Keeps(after[n], after[n + 1], e)
    BY <1>2, <2>1
  <2> QED BY <2>2, KeepsChains
<1>3. Nat \subseteq S
  <2> HIDE DEF S
  <2> QED BY <1>1, <1>2, NatInduct
<1> QED BY <1>3

(* predicate_branch_putchar keeps the function sound and closed.           *)
LEMMA PredicateKeeps ==
    ASSUME NEW bs, NEW e, Len(bs) \in Nat
    PROVE  Keeps(bs, PredicatePutchars(bs, e), e)
<1> DEFINE N == Len(bs)
           one(x) == PredicateOnce(x)
           Table(h, m) == h = [n \in 0..m |-> IF n = 0 THEN bs ELSE one(h[n - 1])]
           after == CHOOSE h : Table(h, N)
           S == {m \in Nat : \E h : Table(h, m)}
<1>0. PredicatePutchars(bs, e) = after[N]
  BY DEF PredicatePutchars
<1>1. \A x : Keeps(x, one(x), e)
  BY PredicateOnceKeeps
<1> HIDE DEF one, N
<1>2. 0 \in S
  <2>1. Table([n \in 0..0 |-> bs], 0)
    OBVIOUS
  <2> QED BY <2>1
<1>3. ASSUME NEW m \in Nat, m \in S  PROVE m + 1 \in S
  <2>1. PICK h : Table(h, m)
    BY <1>3
  <2> DEFINE k == [n \in 0..(m + 1) |-> IF n = m + 1 THEN one(h[m]) ELSE h[n]]
  <2>2. \A n \in 0..m : h[n] = IF n = 0 THEN bs ELSE one(h[n - 1])
    BY <2>1
  <2>3. ASSUME NEW n \in 0..(m + 1)  PROVE k[n] = IF n = 0 THEN bs ELSE one(k[n - 1])
    <3>1. CASE n = m + 1
      <4>1. n # 0 /\ n - 1 = m /\ m \in 0..(m + 1) /\ m # m + 1
        BY <3>1
      <4>2. k[n] = one(h[m]) /\ k[m] = h[m]
        BY <3>1, <4>1
      <4> QED BY <4>1, <4>2
    <3>2. CASE n # m + 1
      <4>1. n \in 0..m /\ (n # 0 => n - 1 \in 0..(m + 1) /\ n - 1 # m + 1)
        BY <3>2
      <4>2. k[n] = h[n] /\ (n # 0 => k[n - 1] = h[n - 1])
        BY <3>2, <4>1
      <4> QED BY <2>2, <4>1, <4>2
    <3> QED BY <3>1, <3>2
  <2>4. k = [n \in 0..(m + 1) |-> k[n]]
    OBVIOUS
  <2> HIDE DEF k
  <2>5. Table(k, m + 1)
    BY <2>3, <2>4
  <2> HIDE DEF Table
  <2> QED BY <2>5
<1>4. N \in S
  <2>1. Nat \subseteq S
    <3> HIDE DEF S
    <3> QED BY <1>2, <1>3, NatInduct
  <2> QED BY <2>1 DEF N
<1>5. Table(after, N)
  <2> HIDE DEF Table
  <2> QED BY <1>4
<1> HIDE DEF after
<1>6. after[0] = bs /\ \A n \in 1..N : Keeps(after[n - 1], after[n], e)
  <2>1. \A n \in 0..N : after[n] = IF n = 0 THEN bs ELSE one(after[n - 1])
    BY <1>5
  <2>2. N \in Nat /\ 0 \in 0..N /\ \A n \in 1..N : n \in 0..N /\ n # 0
    BY DEF N
  <2> HIDE DEF Table
  <2> QED BY <1>1, <2>1, <2>2
<1> HIDE DEF Table
<1>7. Keeps(bs, after[N], e)
  BY <1>6, StepsKeep DEF N
<1> QED BY <1>0, <1>7

-----------------------------------------------------------------------------
(* dead_code_elim *)
LEMMA DeadKeeps ==
    ASSUME NEW bs, NEW e
    PROVE  Keeps(bs, DropDead(bs, e), e)
<1> SUFFICES ASSUME FunctionSound(bs, e)
             PROVE  /\ FunctionSound(DropDead(bs, e), e)
                    /\ FunctionClosed(bs, e) => FunctionClosed(DropDead(bs, e), e)
  BY DEF Keeps
<1> DEFINE new == DropDead(bs, e)
<1>1. ASSUME NEW k \in DOMAIN bs
      PROVE  /\ IsBlock(new[k]) /\ new[k].id = bs[k].id /\ new[k].term = bs[k].term
             /\ StoredPcs(new[k]) = StoredPcs(bs[k]) /\ (Frees(bs[k]) => Frees(new[k]))
  <2> DEFINE r == bs[k].ops
             D == {m \in DOMAIN r : r[m].op # "Dead"}
             ops == Kept(r, D)
  <2>1. IsBlock(bs[k]) /\ IsOps(r)
    BY DEF FunctionSound, IsBlock
  <2>2. IsOps(ops) /\ StoredIn(ops) = StoredIn(r) /\ (FreesIn(ops) <=> FreesIn(r))
    <3>1. D \in SUBSET DOMAIN r /\ \A m \in DOMAIN r : r[m].op \in {"StorePc", "Free"} => m \in D
      OBVIOUS
    <3> HIDE DEF D, r
    <3> QED BY <2>1, <3>1, OpsKept
  <2>3. new[k] = [bs[k] EXCEPT !.ops = ops]
    BY DEF DropDead
  <2> HIDE DEF new, ops
  <2>4. IsBlock(new[k]) /\ new[k].id = bs[k].id /\ new[k].ops = ops /\ new[k].term = bs[k].term
    BY <2>1, <2>2, <2>3, NewOps
  <2> QED BY <2>2, <2>4, OpsOf
<1>2. InPlace(bs, new)
  <2>1. new = [k \in DOMAIN bs |-> new[k]]
    BY DEF DropDead
  <2> HIDE DEF new
  <2> QED BY <1>1, <2>1 DEF InPlace
<1> HIDE DEF new
<1>3. \A k \in DOMAIN bs : Named(new[k]) \subseteq 0..MaxPc
  BY <1>1 DEF Named, FunctionSound, Successors
<1>4. FunctionSound(new, e) /\ Ids(new) = Ids(bs) /\ DOMAIN new = DOMAIN bs
  BY <1>2, <1>3, InPlaceSound
<1>5. FunctionClosed(bs, e) => FunctionClosed(new, e)
  BY <1>1, <1>4 DEF FunctionClosed, Successors
<1> QED BY <1>4, <1>5 DEF new

-----------------------------------------------------------------------------
(* thread_empty_gotos *)

(* Where a jump ends up: where it went, or at the target of a forwarder.   *)
LEMMA ResolveFacts ==
    ASSUME NEW bs, NEW e, NEW i, FunctionSound(bs, e)
    PROVE  /\ \/ Resolve(bs, e, i) = i
              \/ \E k \in DOMAIN bs : Resolve(bs, e, i) \in Successors(bs[k])
           /\ (\A k \in Index(bs, i) : ~IsForwarder(bs[k], e)) => Resolve(bs, e, i) = i
<1> DEFINE N == Len(bs)
           next(r) == {k \in Index(bs, r.at) : IsForwarder(bs[k], e)}
           one(r) == IF next(r) = {} \/ r.at \in r.met THEN r
                     ELSE [at |-> bs[Max(next(r))].term.targets[1], met |-> r.met \cup {r.at}]
           begin == [at |-> i, met |-> {}]
           Table(h, m) == h = [n \in 0..m |-> IF n = 0 THEN begin ELSE one(h[n - 1])]
           hop == CHOOSE h : Table(h, N)
           S == {m \in Nat : \E h : Table(h, m)}
<1>0. Resolve(bs, e, i) = hop[N].at
  BY DEF Resolve
<1>1. N \in Nat /\ IsSequence(bs)
  BY SequenceFacts DEF FunctionSound
<1>2. ASSUME NEW r
      PROVE  /\ one(r) = r \/ \E k \in DOMAIN bs : one(r).at \in Successors(bs[k])
             /\ next(r) = {} => one(r) = r
  <2>1. CASE next(r) = {} \/ r.at \in r.met
    BY <2>1
  <2>2. CASE ~(next(r) = {} \/ r.at \in r.met)
    <3>1. next(r) \in SUBSET DOMAIN bs
      BY DEF Index
    <3> DEFINE k == Max(next(r))
    <3>2. k \in next(r)
      <4> HIDE DEF next
      <4> QED BY <1>1, <2>2, <3>1, PickFacts
    <3>3. k \in DOMAIN bs /\ bs[k].term.op = "Goto"
      BY <3>2 DEF Index, IsForwarder
    <3>4. one(r).at = bs[k].term.targets[1]
      BY <2>2
    <3>5. IsTerm(bs[k].term)
      <4> HIDE DEF k
      <4> QED BY <3>3 DEF FunctionSound, IsBlock
    <3> HIDE DEF k, one, next
    <3>6. 1 \in DOMAIN bs[k].term.targets
      BY <3>3, <3>5 DEF IsTerm
    <3>7. one(r).at \in Successors(bs[k])
      BY <3>4, <3>6 DEF Successors, ToSet
    <3> QED BY <2>2, <3>3, <3>7
  <2> QED BY <2>1, <2>2
<1>3. begin.at = i
  OBVIOUS
<1> HIDE DEF one, N, begin
<1>4. 0 \in S
  <2>1. Table([n \in 0..0 |-> begin], 0)
    OBVIOUS
  <2> QED BY <2>1
<1>5. ASSUME NEW m \in Nat, m \in S  PROVE m + 1 \in S
  <2>1. PICK h : Table(h, m)
    BY <1>5
  <2> DEFINE k == [n \in 0..(m + 1) |-> IF n = m + 1 THEN one(h[m]) ELSE h[n]]
  <2>2. \A n \in 0..m : h[n] = IF n = 0 THEN begin ELSE one(h[n - 1])
    BY <2>1
  <2>3. ASSUME NEW n \in 0..(m + 1)  PROVE k[n] = IF n = 0 THEN begin ELSE one(k[n - 1])
    <3>1. CASE n = m + 1
      <4>1. n # 0 /\ n - 1 = m /\ m \in 0..(m + 1) /\ m # m + 1
        BY <3>1
      <4>2. k[n] = one(h[m]) /\ k[m] = h[m]
        BY <3>1, <4>1
      <4> QED BY <4>1, <4>2
    <3>2. CASE n # m + 1
      <4>1. n \in 0..m /\ (n # 0 => n - 1 \in 0..(m + 1) /\ n - 1 # m + 1)
        BY <3>2
      <4>2. k[n] = h[n] /\ (n # 0 => k[n - 1] = h[n - 1])
        BY <3>2, <4>1
      <4> QED BY <2>2, <4>1, <4>2
    <3> QED BY <3>1, <3>2
  <2>4. k = [n \in 0..(m + 1) |-> k[n]]
    OBVIOUS
  <2> HIDE DEF k
  <2>5. Table(k, m + 1)
    BY <2>3, <2>4
  <2> HIDE DEF Table
  <2> QED BY <2>5
<1>6. N \in S
  <2>1. Nat \subseteq S
    <3> HIDE DEF S
    <3> QED BY <1>4, <1>5, NatInduct
  <2> QED BY <2>1, <1>1
<1>7. Table(hop, N)
  <2> HIDE DEF Table
  <2> QED BY <1>6
<1> HIDE DEF hop
<1>8. hop[0] = begin /\ \A n \in Nat : n + 1 <= N => hop[n + 1] = one(hop[n])
  <2>1. \A n \in 0..N : hop[n] = IF n = 0 THEN begin ELSE one(hop[n - 1])
    BY <1>7
  <2>2. N \in Nat /\ 0 \in 0..N
        /\ \A n \in Nat : n + 1 <= N => n + 1 \in 0..N /\ n + 1 # 0 /\ (n + 1) - 1 = n
    BY <1>1
  <2> HIDE DEF Table
  <2> QED BY <2>1, <2>2
<1> HIDE DEF Table
<1> DEFINE There(x) == x = i \/ \E k \in DOMAIN bs : x \in Successors(bs[k])
           P == {n \in Nat : n <= N => There(hop[n].at)}
           Q == {n \in Nat : n <= N => hop[n] = begin}
<1>9. Nat \subseteq P
  <2>1. 0 \in P
    BY <1>3, <1>8
  <2>2. ASSUME NEW n \in Nat, n \in P  PROVE n + 1 \in P
    <3> SUFFICES ASSUME n + 1 <= N  PROVE There(hop[n + 1].at)
      OBVIOUS
    <3>1. There(hop[n].at) /\ hop[n + 1] = one(hop[n])
      BY <1>1, <1>8, <2>2
    <3> QED BY <3>1, <1>2
  <2> HIDE DEF P
  <2> QED BY <2>1, <2>2, NatInduct
<1>10. ASSUME \A k \in Index(bs, i) : ~IsForwarder(bs[k], e)
       PROVE  Nat \subseteq Q
  <2>1. 0 \in Q
    BY <1>8
  <2>2. ASSUME NEW n \in Nat, n \in Q  PROVE n + 1 \in Q
    <3> SUFFICES ASSUME n + 1 <= N  PROVE hop[n + 1] = begin
      OBVIOUS
    <3>1. hop[n] = begin /\ hop[n + 1] = one(hop[n])
      BY <1>1, <1>8, <2>2
    <3>2. next(begin) = {}
      BY <1>3, <1>10
    <3> HIDE DEF next
    <3> QED BY <3>1, <3>2, <1>2
  <2> HIDE DEF Q
  <2> QED BY <2>1, <2>2, NatInduct
<1>11. There(hop[N].at)
  BY <1>1, <1>9
<1>12. (\A k \in Index(bs, i) : ~IsForwarder(bs[k], e)) => hop[N].at = i
  BY <1>1, <1>3, <1>10
<1> QED BY <1>0, <1>11, <1>12

(* A terminator whose targets and callee are replaced one by one.          *)
Renamed(u, t, p, q) ==
    /\ u = [t EXCEPT !.targets = p, !.callee = q]
    /\ p = [m \in DOMAIN t.targets |-> p[m]] /\ q = [m \in DOMAIN t.callee |-> q[m]]

(* A terminator with other names in the places of its own.                 *)
LEMMA NewTargets ==
    ASSUME NEW t, IsTerm(t), NEW p, NEW q, NEW u, Renamed(u, t, p, q)
    PROVE  IsTerm(u) /\ u.op = t.op /\ u.cond = t.cond /\ u.targets = p /\ u.callee = q
<1> USE DEF Renamed
<1>1. u = [op |-> t.op, targets |-> p, cond |-> t.cond, callee |-> q]
  BY DEF IsTerm
<1>2. u.op = t.op /\ u.cond = t.cond /\ u.targets = p /\ u.callee = q
  BY <1>1
<1>3. /\ Len(t.targets) \in Nat /\ DOMAIN t.targets = 1..Len(t.targets)
      /\ Len(t.callee) \in Nat /\ DOMAIN t.callee = 1..Len(t.callee)
  BY SequenceFacts DEF IsTerm
<1>4. IsSequence(p) /\ Len(p) = Len(t.targets) /\ DOMAIN p = DOMAIN t.targets
  BY <1>3, BuiltSequence
<1>5. IsSequence(q) /\ Len(q) = Len(t.callee) /\ DOMAIN q = DOMAIN t.callee
  BY <1>3, BuiltSequence
<1>6. t.callee = <<>> => q = <<>>
  <2> SUFFICES ASSUME t.callee = <<>>  PROVE q = <<>>
    OBVIOUS
  <2>1. Len(q) = 0 /\ q \in Seq(ToSet(q))
    BY <1>5, SequenceFacts
  <2> QED BY <2>1
<1>7. t.targets = <<t.targets[1]>> => p = <<p[1]>>
  <2> SUFFICES ASSUME t.targets = <<t.targets[1]>>  PROVE p = <<p[1]>>
    OBVIOUS
  <2>0. Len(t.targets) = 1
    <3> DEFINE y == t.targets[1]
    <3>1. t.targets = <<y>> /\ Len(<<y>>) = 1
      OBVIOUS
    <3> HIDE DEF y
    <3> QED BY <3>1
  <2>1. Len(p) = 1 /\ p \in Seq(ToSet(p))
    BY <1>4, <2>0, SequenceFacts
  <2> QED BY <2>1
<1>8. IsTerm(u)
  <2>1. u = [op |-> u.op, targets |-> u.targets, cond |-> u.cond, callee |-> u.callee]
    BY <1>1, <1>2
  <2>2. u.op \in {"Goto", "Branch"} => 1 \in DOMAIN u.targets /\ u.callee = <<>>
    BY <1>2, <1>4, <1>6 DEF IsTerm
  <2>3. u.op = "Goto" => u.targets = <<u.targets[1]>>
    <3> SUFFICES ASSUME t.op = "Goto"  PROVE p = <<p[1]>>
      BY <1>2
    <3>1. t.targets = <<t.targets[1]>>
      BY DEF IsTerm
    <3> QED BY <3>1, <1>7
  <2>4. IsSequence(u.targets) /\ IsSequence(u.callee)
    BY <1>2, <1>4, <1>5
  <2> QED BY <2>1, <2>2, <2>3, <2>4 DEF IsTerm
<1> QED BY <1>2, <1>8

(* thread_empty_gotos keeps the function sound and closed: a continuation  *)
(* is never empty, so it stays where it is.                                *)
LEMMA ThreadKeeps ==
    ASSUME NEW bs, NEW e
    PROVE  Keeps(bs, ThreadGotos(bs, e), e)
<1> SUFFICES ASSUME FunctionSound(bs, e)
             PROVE  /\ FunctionSound(ThreadGotos(bs, e), e)
                    /\ FunctionClosed(bs, e) => FunctionClosed(ThreadGotos(bs, e), e)
  BY DEF Keeps
<1> DEFINE new == ThreadGotos(bs, e)
           to(i) == Resolve(bs, e, i)
<1>1. \A i : \/ to(i) = i
             \/ \E k \in DOMAIN bs : to(i) \in Successors(bs[k])
  BY ResolveFacts
<1>2. \A i : (\A k \in Index(bs, i) : ~IsForwarder(bs[k], e)) => to(i) = i
  BY ResolveFacts
<1>a. new = [k \in DOMAIN bs |->
        [bs[k] EXCEPT !.term.targets = [m \in DOMAIN @ |-> to(@[m])],
                      !.term.callee  = [m \in DOMAIN @ |-> to(@[m])]]]
  BY DEF ThreadGotos
<1> HIDE DEF to, new
<1>3. ASSUME NEW k \in DOMAIN bs
      PROVE  /\ IsBlock(new[k]) /\ new[k].id = bs[k].id
             /\ StoredPcs(new[k]) = StoredPcs(bs[k]) /\ (Frees(bs[k]) <=> Frees(new[k]))
             /\ new[k].term.op = bs[k].term.op
             /\ new[k].term.targets = [m \in DOMAIN bs[k].term.targets |-> to(bs[k].term.targets[m])]
             /\ new[k].term.callee = [m \in DOMAIN bs[k].term.callee |-> to(bs[k].term.callee[m])]
  <2> DEFINE t == bs[k].term
             p == [m \in DOMAIN t.targets |-> to(t.targets[m])]
             q == [m \in DOMAIN t.callee |-> to(t.callee[m])]
             u == [t EXCEPT !.targets = p, !.callee = q]
  <2>1. IsBlock(bs[k]) /\ IsTerm(t)
    BY DEF FunctionSound, IsBlock
  <2>2. new[k] = [bs[k] EXCEPT !.term = u]
    <3>1. new[k] = [bs[k] EXCEPT !.term.targets = p, !.term.callee = q]
      BY <1>a
    <3> HIDE DEF p, q
    <3> QED BY <2>1, <3>1 DEF IsBlock, IsTerm
  <2>3. p = [m \in DOMAIN t.targets |-> p[m]] /\ q = [m \in DOMAIN t.callee |-> q[m]]
    OBVIOUS
  <2>4. IsTerm(u) /\ u.op = t.op /\ u.targets = p /\ u.callee = q
    <3>1. Renamed(u, t, p, q)
      BY <2>3 DEF Renamed
    <3> HIDE DEF u, p, q, t
    <3> QED BY <2>1, <3>1, NewTargets
  <2> HIDE DEF u
  <2>5. /\ IsBlock(new[k]) /\ new[k].id = bs[k].id /\ new[k].term = u
        /\ StoredPcs(new[k]) = StoredPcs(bs[k]) /\ (Frees(new[k]) <=> Frees(bs[k]))
    BY <2>1, <2>2, <2>4, NewTerm
  <2> QED BY <2>4, <2>5
<1>4. ASSUME NEW k \in DOMAIN bs, NEW c \in StoredPcs(bs[k])
      PROVE  new[k].term.targets = bs[k].term.targets
  <2>1. bs[k].term.targets = <<c>>
    BY <1>4 DEF FunctionSound
  <2>2. PICK j \in DOMAIN bs : bs[j].id = c /\ Frees(bs[j])
    BY <1>4 DEF FunctionSound
  <2>3. bs[j].ops # <<>>
    BY <2>2 DEF Frees
  <2>4. \A i \in Index(bs, c) : ~IsForwarder(bs[i], e)
    BY <2>2, <2>3 DEF Index, IsForwarder, FunctionSound
  <2>5. to(c) = c
    BY <2>4, <1>2
  <2>6. DOMAIN <<c>> = {1} /\ <<c>>[1] = c /\ <<c>> = [m \in {1} |-> c]
    OBVIOUS
  <2>7. new[k].term.targets = [m \in DOMAIN <<c>> |-> to(<<c>>[m])]
    BY <1>3, <2>1
  <2>8. [m \in DOMAIN <<c>> |-> to(<<c>>[m])] = [m \in {1} |-> c]
    BY <2>5, <2>6
  <2> QED BY <2>1, <2>6, <2>7, <2>8
<1>5. InPlace(bs, new)
  <2>1. new = [k \in DOMAIN bs |-> new[k]]
    BY <1>a
  <2> QED BY <1>3, <1>4, <2>1 DEF InPlace
<1>6. ASSUME NEW k \in DOMAIN bs
      PROVE  /\ \A x \in Successors(new[k]) : \E j \in DOMAIN bs : x \in Successors(bs[j])
             /\ \A x \in ToSet(new[k].term.callee) :
                   \E y \in ToSet(bs[k].term.callee) : x = to(y)
  <2>1. ASSUME NEW x \in Successors(new[k])  PROVE \E j \in DOMAIN bs : x \in Successors(bs[j])
    <3> DEFINE p == new[k].term.targets
               r == bs[k].term.targets
    <3>a. p = [m \in DOMAIN r |-> to(r[m])]
      BY <1>3
    <3>b. \E m \in DOMAIN p : x = p[m]
      BY DEF Successors, ToSet
    <3>c. DOMAIN p = DOMAIN r /\ \A m \in DOMAIN p : p[m] = to(r[m])
      <4> HIDE DEF p, r
      <4> QED BY <3>a
    <3>1. PICK m \in DOMAIN bs[k].term.targets : x = to(bs[k].term.targets[m])
      BY <3>b, <3>c
    <3>2. bs[k].term.targets[m] \in Successors(bs[k])
      BY <3>1 DEF Successors, ToSet
    <3> QED BY <1>1, <3>1, <3>2
  <2>2. ASSUME NEW x \in ToSet(new[k].term.callee)
        PROVE  \E y \in ToSet(bs[k].term.callee) : x = to(y)
    <3> DEFINE p == new[k].term.callee
               r == bs[k].term.callee
    <3>a. p = [m \in DOMAIN r |-> to(r[m])]
      BY <1>3
    <3>b. \E m \in DOMAIN p : x = p[m]
      BY DEF ToSet
    <3>c. DOMAIN p = DOMAIN r /\ \A m \in DOMAIN p : p[m] = to(r[m])
      <4> HIDE DEF p, r
      <4> QED BY <3>a
    <3>1. PICK m \in DOMAIN r : x = to(r[m])
      BY <3>b, <3>c
    <3>2. r[m] \in ToSet(r)
      BY DEF ToSet
    <3> QED BY <3>1, <3>2
  <2> QED BY <2>1, <2>2
<1>7. \A k \in DOMAIN bs : Named(new[k]) \subseteq 0..MaxPc
  <2>1. \A j \in DOMAIN bs : Successors(bs[j]) \cup ToSet(bs[j].term.callee) \cup StoredPcs(bs[j]) \subseteq 0..MaxPc
    BY DEF FunctionSound, Named
  <2> SUFFICES ASSUME NEW k \in DOMAIN bs
               PROVE  Successors(new[k]) \cup ToSet(new[k].term.callee) \cup StoredPcs(new[k]) \subseteq 0..MaxPc
    BY DEF Named
  <2>2. Successors(new[k]) \subseteq 0..MaxPc
    BY <1>6, <2>1
  <2>3. ToSet(new[k].term.callee) \subseteq 0..MaxPc
    BY <1>1, <1>6, <2>1
  <2>4. StoredPcs(new[k]) \subseteq 0..MaxPc
    BY <1>3, <2>1
  <2> QED BY <2>2, <2>3, <2>4
<1>8. FunctionSound(new, e) /\ Ids(new) = Ids(bs) /\ DOMAIN new = DOMAIN bs
  BY <1>5, <1>7, InPlaceSound
<1>9. ASSUME FunctionClosed(bs, e)  PROVE FunctionClosed(new, e)
  <2>1. ASSUME NEW x \in EntryPcs  PROVE to(x) = x
    <3>1. \A k \in Index(bs, x) : bs[k].id = e
      BY <1>9 DEF Index, FunctionClosed, Ids
    <3> QED BY <3>1, <1>2 DEF IsForwarder
  <2>2. \A k \in DOMAIN bs : Successors(new[k]) \subseteq Ids(bs) \cup EntryPcs
    BY <1>6, <1>9 DEF FunctionClosed
  <2>3. \A k \in DOMAIN bs : ToSet(new[k].term.callee) \subseteq EntryPcs
    <3> SUFFICES ASSUME NEW k \in DOMAIN bs, NEW x \in ToSet(new[k].term.callee)  PROVE x \in EntryPcs
      OBVIOUS
    <3>1. PICK y \in ToSet(bs[k].term.callee) : x = to(y)
      BY <1>6
    <3>2. y \in EntryPcs
      BY <1>9, <3>1 DEF FunctionClosed
    <3> QED BY <2>1, <3>1, <3>2
  <2> QED BY <1>8, <1>9, <2>2, <2>3 DEF FunctionClosed
<1> QED BY <1>8, <1>9 DEF new

-----------------------------------------------------------------------------
(* remove_unreachable_blocks *)

LEMMA IdsFinite ==
    ASSUME NEW bs, IsSequence(bs)
    PROVE  IsFiniteSet(Ids(bs)) /\ Cardinality(Ids(bs)) <= Len(bs)
<1> DEFINE f == [k \in DOMAIN bs |-> bs[k].id]
<1>1. IsFiniteSet(DOMAIN bs) /\ Cardinality(DOMAIN bs) = Len(bs)
  BY SequenceFacts
<1>2. f \in Surjection(DOMAIN bs, Ids(bs))
  BY DEF Surjection, Ids
<1> HIDE DEF f
<1> QED BY <1>1, <1>2, FS_Surjection

(* What is reached has been followed: the rounds were enough.              *)
LEMMA ReachableFacts ==
    ASSUME NEW bs, NEW e, IsSequence(bs), e \in Ids(bs)
    PROVE  LET R == Reachable(bs, e)
           IN  /\ e \in R
               /\ \A k \in DOMAIN bs : bs[k].id \in R => Successors(bs[k]) \cap Ids(bs) \subseteq R
<1> DEFINE N == Len(bs)
           one(r) == r \cup UNION {Successors(bs[k]) : k \in {k \in DOMAIN bs : bs[k].id \in r}}
           begin == {e}
           Table(h, m) == h = [n \in 0..m |-> IF n = 0 THEN begin ELSE one(h[n - 1])]
           reached == CHOOSE h : Table(h, N)
           S == {m \in Nat : \E h : Table(h, m)}
<1>0. Reachable(bs, e) = reached[N]
  BY DEF Reachable
<1>1. N \in Nat
  BY SequenceFacts
<1> DEFINE I == Ids(bs)
           inner(r) == one(r) \cap I
           G == [x \in Nat \X SUBSET I |-> inner(x[2])]
           H == [r \in SUBSET I |-> inner(r)]
<1>2. \A r : inner(r \cap I) = one(r) \cap I /\ inner(r) \in SUBSET I
  BY DEF Ids
<1>3. \A r \in SUBSET I : r \subseteq inner(r)
  OBVIOUS
<1>4. \A r : \A k \in DOMAIN bs : bs[k].id \in r => Successors(bs[k]) \cap I \subseteq inner(r)
  OBVIOUS
<1>5. begin \in SUBSET I /\ begin \cap I = begin /\ e \in begin
  OBVIOUS
<1> HIDE DEF N, one, begin
<1>6. 0 \in S
  <2>1. Table([n \in 0..0 |-> begin], 0)
    OBVIOUS
  <2> QED BY <2>1
<1>7. ASSUME NEW m \in Nat, m \in S  PROVE m + 1 \in S
  <2>1. PICK h : Table(h, m)
    BY <1>7
  <2> DEFINE k == [n \in 0..(m + 1) |-> IF n = m + 1 THEN one(h[m]) ELSE h[n]]
  <2>2. \A n \in 0..m : h[n] = IF n = 0 THEN begin ELSE one(h[n - 1])
    BY <2>1
  <2>3. ASSUME NEW n \in 0..(m + 1)  PROVE k[n] = IF n = 0 THEN begin ELSE one(k[n - 1])
    <3>1. CASE n = m + 1
      <4>1. n # 0 /\ n - 1 = m /\ m \in 0..(m + 1) /\ m # m + 1
        BY <3>1
      <4>2. k[n] = one(h[m]) /\ k[m] = h[m]
        BY <3>1, <4>1
      <4> QED BY <4>1, <4>2
    <3>2. CASE n # m + 1
      <4>1. n \in 0..m /\ (n # 0 => n - 1 \in 0..(m + 1) /\ n - 1 # m + 1)
        BY <3>2
      <4>2. k[n] = h[n] /\ (n # 0 => k[n - 1] = h[n - 1])
        BY <3>2, <4>1
      <4> QED BY <2>2, <4>1, <4>2
    <3> QED BY <3>1, <3>2
  <2>4. k = [n \in 0..(m + 1) |-> k[n]]
    OBVIOUS
  <2> HIDE DEF k
  <2>5. Table(k, m + 1)
    BY <2>3, <2>4
  <2> HIDE DEF Table
  <2> QED BY <2>5
<1>8. N \in S
  <2>1. Nat \subseteq S
    <3> HIDE DEF S
    <3> QED BY <1>6, <1>7, NatInduct
  <2> QED BY <2>1, <1>1
<1>9. Table(reached, N)
  <2> HIDE DEF Table
  <2> QED BY <1>8
<1> HIDE DEF reached
<1>10. reached[0] = begin /\ \A n \in Nat : n + 1 <= N => reached[n + 1] = one(reached[n])
  <2>1. \A n \in 0..N : reached[n] = IF n = 0 THEN begin ELSE one(reached[n - 1])
    BY <1>9
  <2>2. N \in Nat /\ 0 \in 0..N
        /\ \A n \in Nat : n + 1 <= N => n + 1 \in 0..N /\ n + 1 # 0 /\ (n + 1) - 1 = n
    BY <1>1
  <2> HIDE DEF Table
  <2> QED BY <2>1, <2>2
<1> HIDE DEF Table, I
<1>11. PICK g \in [Nat -> SUBSET I] : Recurses(g, begin, G)
  <2>1. G \in [Nat \X SUBSET I -> SUBSET I]
    <3>1. \A x \in Nat \X SUBSET I : inner(x[2]) \in SUBSET I
      BY <1>2
    <3> HIDE DEF inner
    <3> QED BY <3>1
  <2> HIDE DEF G
  <2> QED BY <2>1, <1>5, NatRecursion
<1>12. g[0] = begin /\ \A n \in Nat : g[n + 1] = inner(g[n])
  <2>1. ASSUME NEW n \in Nat  PROVE g[n + 1] = inner(g[n])
    <3>1. n + 1 \in Nat \ {0} /\ (n + 1) - 1 = n /\ g[n] \in SUBSET I
      OBVIOUS
    <3>2. G[<<n + 1, g[n]>>] = inner(g[n])
      <4> HIDE DEF inner
      <4> QED BY <3>1
    <3>3. g[n + 1] = G[<<n + 1, g[n]>>]
      <4> HIDE DEF G
      <4> QED BY <1>11, <3>1 DEF Recurses
    <3> HIDE DEF G, inner
    <3> QED BY <3>2, <3>3
  <2> HIDE DEF G, inner
  <2> QED BY <1>11, <2>1 DEF Recurses
<1> HIDE DEF G
<1>13. /\ H[g[N]] = g[N] /\ \A n \in Nat : g[n] \subseteq g[N]
  <2>1. Grows(I, g, H)
    <3>1. \A r \in SUBSET I : inner(r) \in SUBSET I /\ r \subseteq inner(r)
      BY <1>2, <1>3
    <3> HIDE DEF inner
    <3>2. H \in [SUBSET I -> SUBSET I]
      BY <3>1
    <3>3. \A n \in Nat : g[n] \in SUBSET I /\ g[n + 1] = H[g[n]] /\ g[n] \subseteq g[n + 1]
      BY <1>12, <3>1
    <3> HIDE DEF H
    <3> QED BY <3>2, <3>3 DEF Grows
  <2>2. IsFiniteSet(I) /\ Cardinality(I) <= N
    BY IdsFinite DEF I, N
  <2> HIDE DEF H
  <2> QED BY <1>1, <2>1, <2>2, NothingToAdd
<1>14. inner(g[N]) = g[N] /\ e \in g[N] /\ g[N] \in SUBSET I
  <2>1. g[N] \in SUBSET I /\ g[0] \subseteq g[N]
    BY <1>1, <1>13
  <2> HIDE DEF inner
  <2> QED BY <2>1, <1>5, <1>12, <1>13
<1> DEFINE P == {n \in Nat : n <= N => reached[n] \cap I = g[n]}
<1>15. Nat \subseteq P
  <2>1. 0 \in P
    BY <1>5, <1>10, <1>12
  <2>2. ASSUME NEW n \in Nat, n \in P  PROVE n + 1 \in P
    <3> SUFFICES ASSUME n + 1 <= N  PROVE reached[n + 1] \cap I = g[n + 1]
      OBVIOUS
    <3>1. reached[n] \cap I = g[n] /\ reached[n + 1] = one(reached[n]) /\ g[n + 1] = inner(g[n])
      <4> HIDE DEF inner
      <4> QED BY <1>1, <1>10, <1>12, <2>2
    <3>2. inner(reached[n] \cap I) = one(reached[n]) \cap I
      BY <1>2, Zenon
    <3> HIDE DEF inner
    <3> QED BY <3>1, <3>2
  <2> HIDE DEF P
  <2> QED BY <2>1, <2>2, NatInduct
<1>16. reached[N] \cap I = g[N]
  BY <1>1, <1>15
<1>17. e \in reached[N]
  BY <1>14, <1>16
<1>18. ASSUME NEW k \in DOMAIN bs, bs[k].id \in reached[N]
       PROVE  Successors(bs[k]) \cap I \subseteq reached[N]
  <2>1. bs[k].id \in g[N]
    BY <1>16, <1>18 DEF I, Ids
  <2>2. Successors(bs[k]) \cap I \subseteq inner(g[N])
    <3> HIDE DEF inner
    <3> QED BY <1>4, <2>1
  <2> HIDE DEF inner
  <2> QED BY <2>2, <1>14, <1>16
<1> QED BY <1>0, <1>17, <1>18 DEF I

(* A terminator with one target has one successor.                         *)
LEMMA SingleTarget ==
    ASSUME NEW b, NEW c, b.term.targets = <<c>>
    PROVE  Successors(b) = {c}
<1>1. DOMAIN <<c>> = {1} /\ <<c>>[1] = c
  <2>1. DOMAIN <<c>> = 1..1
    OBVIOUS
  <2> QED BY <2>1
<1> QED BY <1>1 DEF Successors, ToSet

(* remove_unreachable_blocks keeps every block that a block it keeps       *)
(* names.                                                                  *)
LEMMA UnreachableKeeps ==
    ASSUME NEW bs, NEW e
    PROVE  Keeps(bs, DropUnreachable(bs, e), e)
<1> SUFFICES ASSUME FunctionSound(bs, e)
             PROVE  /\ FunctionSound(DropUnreachable(bs, e), e)
                    /\ FunctionClosed(bs, e) => FunctionClosed(DropUnreachable(bs, e), e)
  BY DEF Keeps
<1> DEFINE R == Reachable(bs, e)
           D == {k \in DOMAIN bs : bs[k].id \in R}
           new == Kept(bs, D)
<1>1. IsSequence(bs) /\ e \in Ids(bs)
  BY DEF FunctionSound
<1>2. DropUnreachable(bs, e) = new
  BY <1>1 DEF DropUnreachable, Index, Ids
<1>3. /\ e \in R
      /\ \A k \in DOMAIN bs : bs[k].id \in R => Successors(bs[k]) \cap Ids(bs) \subseteq R
  BY <1>1, ReachableFacts
<1> HIDE DEF R
<1>4. D \in SUBSET DOMAIN bs
  OBVIOUS
<1>5. /\ IsSequence(new)
      /\ \E o \in [DOMAIN new -> D] :
            /\ \A n \in DOMAIN new : new[n] = bs[o[n]]
            /\ \A m, n \in DOMAIN new : o[m] = o[n] => m = n
            /\ \A k \in D : \E n \in DOMAIN new : o[n] = k
  <2> HIDE DEF D
  <2> QED BY <1>1, <1>4, KeptFacts
<1> HIDE DEF new
<1>6. PICK o \in [DOMAIN new -> D] :
            /\ \A n \in DOMAIN new : new[n] = bs[o[n]]
            /\ \A m, n \in DOMAIN new : o[m] = o[n] => m = n
            /\ \A k \in D : \E n \in DOMAIN new : o[n] = k
  BY <1>5
<1>7. \A n \in DOMAIN new : o[n] \in DOMAIN bs /\ bs[o[n]].id \in R /\ new[n] = bs[o[n]]
  BY <1>6
<1>8. \A k \in DOMAIN bs : bs[k].id \in R => \E n \in DOMAIN new : o[n] = k /\ new[n] = bs[k]
  BY <1>6
<1> HIDE DEF D
<1>9. Ids(new) = Ids(bs) \cap R
  BY <1>7, <1>8 DEF Ids
<1>10. \A m, n \in DOMAIN new : new[m].id = new[n].id => m = n
  BY <1>6, <1>7 DEF FunctionSound
<1>11. ASSUME NEW n \in DOMAIN new
       PROVE  /\ IsBlock(new[n]) /\ new[n].id \in 0..MaxPc /\ Named(new[n]) \subseteq 0..MaxPc
              /\ \A c \in StoredPcs(new[n]) :
                    /\ new[n].term.op = "Call" /\ new[n].term.targets = <<c>>
                    /\ \E j \in DOMAIN new : new[j].id = c /\ Frees(new[j])
  <2> DEFINE k == o[n]
  <2>1. k \in DOMAIN bs /\ bs[k].id \in R /\ new[n] = bs[k]
    BY <1>7
  <2> HIDE DEF k
  <2>2. IsBlock(new[n]) /\ new[n].id \in 0..MaxPc /\ Named(new[n]) \subseteq 0..MaxPc
    BY <2>1 DEF FunctionSound
  <2>3. ASSUME NEW c \in StoredPcs(new[n])
        PROVE  /\ new[n].term.op = "Call" /\ new[n].term.targets = <<c>>
               /\ \E j \in DOMAIN new : new[j].id = c /\ Frees(new[j])
    <3>1. c \in StoredPcs(bs[k])
      BY <2>1
    <3>2. bs[k].term.op = "Call" /\ bs[k].term.targets = <<c>>
      BY <2>1, <3>1 DEF FunctionSound
    <3>3. PICK i \in DOMAIN bs : bs[i].id = c /\ Frees(bs[i])
      BY <2>1, <3>1 DEF FunctionSound
    <3>4. c \in Successors(bs[k]) \cap Ids(bs)
      BY <3>2, <3>3, SingleTarget DEF Ids
    <3>5. bs[i].id \in R
      BY <1>3, <2>1, <3>3, <3>4
    <3>6. PICK j \in DOMAIN new : new[j] = bs[i]
      BY <1>8, <3>5
    <3> QED BY <2>1, <3>2, <3>3, <3>6
  <2> QED BY <2>2, <2>3
<1>12. FunctionSound(new, e)
  BY <1>1, <1>3, <1>5, <1>9, <1>10, <1>11 DEF FunctionSound
<1>13. ASSUME FunctionClosed(bs, e)  PROVE FunctionClosed(new, e)
  <2>1. ASSUME NEW n \in DOMAIN new
        PROVE  /\ Successors(new[n]) \subseteq Ids(new) \cup EntryPcs
               /\ ToSet(new[n].term.callee) \subseteq EntryPcs
    <3>1. o[n] \in DOMAIN bs /\ bs[o[n]].id \in R /\ new[n] = bs[o[n]]
      BY <1>7
    <3>2. Successors(new[n]) \subseteq Ids(bs) \cup EntryPcs /\ ToSet(new[n].term.callee) \subseteq EntryPcs
      BY <1>13, <3>1 DEF FunctionClosed
    <3>3. Successors(new[n]) \cap Ids(bs) \subseteq R
      BY <1>3, <3>1
    <3> QED BY <1>9, <3>2, <3>3
  <2>2. Ids(new) \cap EntryPcs \subseteq {e}
    BY <1>9, <1>13 DEF FunctionClosed
  <2> QED BY <2>1, <2>2 DEF FunctionClosed
<1> QED BY <1>2, <1>12, <1>13

-----------------------------------------------------------------------------
(* coalesce_linear_blocks *)

(* RemoveAt leaves the others, in their order. *)
LEMMA RemoveAtFacts ==
    ASSUME NEW s, IsSequence(s), NEW j \in DOMAIN s
    PROVE  LET r == RemoveAt(s, j)
           IN  /\ IsSequence(r) /\ DOMAIN r = 1..(Len(s) - 1)
               /\ \A n \in DOMAIN r : r[n] = s[IF n < j THEN n ELSE n + 1]
<1> DEFINE S == ToSet(s)
           p == SubSeq(s, 1, j - 1)
           q == SubSeq(s, j + 1, Len(s))
           r == RemoveAt(s, j)
<1>1. s \in Seq(S) /\ DOMAIN s = 1..Len(s) /\ Len(s) \in Nat
  BY SequenceFacts
<1> HIDE DEF S
<1>2. j \in 1..Len(s)
  BY <1>1
<1>3. p \in Seq(S) /\ Len(p) = j - 1 /\ \A n \in 1..(j - 1) : p[n] = s[n]
  BY <1>1, <1>2
<1>4. q \in Seq(S) /\ Len(q) = Len(s) - j /\ \A n \in 1..(Len(s) - j) : q[n] = s[j + n]
  BY <1>1, <1>2
<1>5. r = p \o q
  BY DEF RemoveAt
<1> HIDE DEF p, q
<1>6. IsSequence(p) /\ IsSequence(q) /\ DOMAIN p = 1..(j - 1) /\ DOMAIN q = 1..(Len(s) - j)
  BY <1>3, <1>4, SequenceOf, SequenceFacts
<1> HIDE DEF r
<1>7. /\ IsSequence(p \o q) /\ DOMAIN (p \o q) = 1..(Len(p) + Len(q))
      /\ \A k \in DOMAIN p : (p \o q)[k] = p[k]
  BY <1>6, ConcatFacts
<1>8. \A k \in DOMAIN (p \o q) \ DOMAIN p : k - Len(p) \in DOMAIN q /\ (p \o q)[k] = q[k - Len(p)]
  BY <1>6, ConcatFacts
<1>9. DOMAIN r = 1..(Len(s) - 1)
  BY <1>1, <1>2, <1>3, <1>4, <1>5, <1>7
<1>10. ASSUME NEW n \in DOMAIN r  PROVE r[n] = s[IF n < j THEN n ELSE n + 1]
  <2>1. CASE n < j
    <3>1. n \in 1..(j - 1)
      BY <1>2, <1>9, <2>1
    <3> QED BY <1>3, <1>5, <1>6, <1>7, <2>1, <3>1
  <2>2. CASE ~(n < j)
    <3>1. n \in DOMAIN (p \o q) \ DOMAIN p
      BY <1>2, <1>5, <1>6, <1>9, <2>2
    <3>2. n - (j - 1) \in 1..(Len(s) - j) /\ r[n] = q[n - (j - 1)]
      BY <1>3, <1>5, <1>6, <1>8, <3>1
    <3>3. j + (n - (j - 1)) = n + 1
      BY <1>1, <1>2, <1>9
    <3> QED BY <1>4, <2>2, <3>2, <3>3
  <2> QED BY <2>1, <2>2
<1> QED BY <1>5, <1>7, <1>9, <1>10 DEF r

(* A block with one edge to it has no other. *)
LEMMA OnlyEdge ==
    ASSUME NEW bs, NEW e, FunctionSound(bs, e), NEW x, PredCount(bs, x) = 1,
           NEW i \in DOMAIN bs, x \in Successors(bs[i]), NEW k \in DOMAIN bs, k # i
    PROVE  x \notin Successors(bs[k])
<1> DEFINE edges(n) == {m \in DOMAIN bs[n].term.targets : bs[n].term.targets[m] = x}
           All == {{n} \X edges(n) : n \in DOMAIN bs}
           E == UNION All
<1>1. Cardinality(E) = 1
  BY DEF PredCount
<1>2. \A n \in DOMAIN bs : IsFiniteSet({n} \X edges(n))
  <2> SUFFICES ASSUME NEW n \in DOMAIN bs  PROVE IsFiniteSet({n} \X edges(n))
    OBVIOUS
  <2>1. IsFiniteSet(DOMAIN bs[n].term.targets)
    BY SequenceFacts DEF FunctionSound, IsBlock, IsTerm
  <2>2. edges(n) \in SUBSET DOMAIN bs[n].term.targets
    OBVIOUS
  <2> HIDE DEF edges
  <2>3. IsFiniteSet(edges(n)) /\ IsFiniteSet({n})
    BY <2>1, <2>2, FS_Subset, FS_Singleton
  <2> QED BY <2>3, FS_Product
<1>3. IsFiniteSet(All)
  <2> DEFINE f == [n \in DOMAIN bs |-> {n} \X edges(n)]
  <2>1. f \in Surjection(DOMAIN bs, All)
    <3> HIDE DEF edges
    <3> QED BY DEF Surjection
  <2>2. IsFiniteSet(DOMAIN bs)
    BY SequenceFacts DEF FunctionSound
  <2> HIDE DEF f, All
  <2> QED BY <2>1, <2>2, FS_Surjection
<1>4. IsFiniteSet(E)
  <2>1. \A T \in All : IsFiniteSet(T)
    BY <1>2
  <2> HIDE DEF All
  <2> QED BY <1>3, <2>1, FS_UNION
<1>5. \E y : E = {y}
  <2> HIDE DEF E
  <2> QED BY <1>1, <1>4, FS_Singleton
<1>6. \A n \in DOMAIN bs : \A m \in edges(n) : <<n, m>> \in E
  OBVIOUS
<1> SUFFICES ASSUME x \in Successors(bs[k])  PROVE FALSE
  OBVIOUS
<1>7. \A n \in DOMAIN bs : x \in Successors(bs[n]) => edges(n) # {}
  BY DEF Successors, ToSet
<1> HIDE DEF E, edges
<1>8. PICK m \in edges(i), l \in edges(k) : TRUE
  BY <1>7
<1>9. <<i, m>> \in E /\ <<k, l>> \in E
  BY <1>6, <1>8
<1>10. <<i, m>> = <<k, l>>
  BY <1>5, <1>9
<1> QED BY <1>10

(* mid is bs with the block its block i jumps to, block j, put at its end. *)
Merged(mid, bs, i, j) ==
    /\ j = Max(Index(bs, bs[i].term.targets[1]))
    /\ mid = [bs EXCEPT ![i].ops = @ \o bs[j].ops, ![i].term = bs[j].term]

(* Merging a block into the one block that jumps to it loses no name.      *)
LEMMA MergeKeeps ==
    ASSUME NEW bs, NEW e, NEW i \in DOMAIN bs, MergesAt(bs, e, i),
           NEW j, NEW mid, Merged(mid, bs, i, j)
    PROVE  Keeps(bs, RemoveAt(mid, j), e)
<1> SUFFICES ASSUME FunctionSound(bs, e)
             PROVE  /\ FunctionSound(RemoveAt(mid, j), e)
                    /\ FunctionClosed(bs, e) => FunctionClosed(RemoveAt(mid, j), e)
  BY DEF Keeps
<1> DEFINE to == bs[i].term.targets[1]
           new == RemoveAt(mid, j)
<1>1. /\ bs[i].term.op = "Goto" /\ to # e /\ PredCount(bs, to) = 1
      /\ Index(bs, to) \ {i} # {}
  BY DEF MergesAt
<1>2. DOMAIN bs = 1..Len(bs) /\ Len(bs) \in Nat /\ IsSequence(bs)
  BY SequenceFacts DEF FunctionSound
<1>3. j \in DOMAIN bs /\ bs[j].id = to
  <2>1. Index(bs, to) \in SUBSET DOMAIN bs /\ Index(bs, to) # {}
    BY <1>1 DEF Index
  <2>2. j \in Index(bs, to)
    BY <1>2, <2>1, PickFacts DEF Merged
  <2> QED BY <2>2 DEF Index
<1>4. \A k \in DOMAIN bs : bs[k].id = to => k = j
  BY <1>3 DEF FunctionSound
<1>5. j # i
  BY <1>1, <1>4 DEF Index
<1>6. to \in Successors(bs[i])
  BY <1>1 DEF FunctionSound, IsBlock, IsTerm, Successors, ToSet
<1>7. \A k \in DOMAIN bs : k # i => to \notin Successors(bs[k])
  <2> HIDE DEF to
  <2> QED BY <1>1, <1>6, OnlyEdge
<1> DEFINE ops == bs[i].ops \o bs[j].ops
           c == [bs[i] EXCEPT !.ops = ops]
           d == [c EXCEPT !.term = bs[j].term]
<1>8. /\ IsBlock(bs[i]) /\ IsBlock(bs[j]) /\ IsOps(bs[i].ops) /\ IsOps(bs[j].ops)
      /\ IsTerm(bs[j].term)
  BY <1>3 DEF FunctionSound, IsBlock
<1>9. /\ IsOps(ops) /\ StoredIn(ops) = StoredIn(bs[i].ops) \cup StoredIn(bs[j].ops)
      /\ FreesIn(ops) <=> FreesIn(bs[i].ops) \/ FreesIn(bs[j].ops)
  BY <1>8, OpsConcat
<1>10. mid = [bs EXCEPT ![i] = d]
  BY <1>2, <1>8 DEF IsBlock, Merged
<1> HIDE DEF ops
<1>11. IsBlock(c) /\ c.id = bs[i].id /\ c.ops = ops
  BY <1>8, <1>9, NewOps
<1> HIDE DEF c
<1>12. /\ IsBlock(d) /\ d.id = c.id /\ d.term = bs[j].term
       /\ StoredPcs(d) = StoredPcs(c) /\ (Frees(d) <=> Frees(c))
  BY <1>8, <1>11, NewTerm
<1> HIDE DEF d
<1>13. StoredPcs(bs[i]) = {}
  BY <1>1 DEF FunctionSound
<1>14. StoredPcs(d) = StoredPcs(bs[j]) /\ (Frees(bs[i]) => Frees(d)) /\ d.id = bs[i].id
  BY <1>9, <1>11, <1>12, <1>13, OpsOf
<1>15. DOMAIN mid = DOMAIN bs /\ mid[i] = d /\ \A k \in DOMAIN bs : k # i => mid[k] = bs[k]
  BY <1>10
<1>16. IsSequence(mid) /\ Len(mid) = Len(bs)
  <2>1. mid = [k \in 1..Len(bs) |-> mid[k]]
    BY <1>2, <1>10
  <2> QED BY <1>2, <2>1, BuiltSequence
<1> DEFINE p(n) == IF n < j THEN n ELSE n + 1
<1>17. /\ IsSequence(new) /\ DOMAIN new = 1..(Len(bs) - 1)
       /\ \A n \in DOMAIN new : new[n] = mid[p(n)]
  BY <1>3, <1>15, <1>16, RemoveAtFacts
<1> HIDE DEF new
<1>18. \A n \in DOMAIN new : p(n) \in DOMAIN bs /\ p(n) # j
  BY <1>2, <1>3, <1>17
<1>19. \A m, n \in DOMAIN new : p(m) = p(n) => m = n
  BY <1>2, <1>3, <1>17
<1>20. \A k \in DOMAIN bs : k # j => \E n \in DOMAIN new : p(n) = k
  <2> SUFFICES ASSUME NEW k \in DOMAIN bs, k # j  PROVE \E n \in DOMAIN new : p(n) = k
    OBVIOUS
  <2>1. CASE k < j
    <3>1. k \in DOMAIN new /\ p(k) = k
      BY <1>2, <1>3, <1>17, <2>1
    <3> QED BY <3>1
  <2>2. CASE ~(k < j)
    <3>1. k - 1 \in DOMAIN new /\ p(k - 1) = k
      BY <1>2, <1>3, <1>17, <2>2
    <3> QED BY <3>1
  <2> QED BY <2>1, <2>2
<1> HIDE DEF p
<1> DEFINE from(n) == IF p(n) = i THEN j ELSE p(n)
<1>21. ASSUME NEW n \in DOMAIN new
       PROVE  /\ IsBlock(new[n]) /\ new[n].id = bs[p(n)].id
              /\ from(n) \in DOMAIN bs \ {i} /\ new[n].term = bs[from(n)].term
              /\ StoredPcs(new[n]) = StoredPcs(bs[from(n)])
              /\ Frees(bs[p(n)]) => Frees(new[n])
  <2>1. p(n) \in DOMAIN bs /\ new[n] = mid[p(n)]
    BY <1>17, <1>18
  <2>2. CASE p(n) = i
    BY <1>3, <1>5, <1>12, <1>14, <1>15, <2>1, <2>2
  <2>3. CASE p(n) # i
    BY <1>15, <2>1, <2>3 DEF FunctionSound
  <2> QED BY <2>2, <2>3
<1> HIDE DEF from, to
<1>22. Ids(new) = Ids(bs) \ {to}
  <2>1. ASSUME NEW n \in DOMAIN new  PROVE new[n].id \in Ids(bs) \ {to}
    BY <1>4, <1>18, <1>21 DEF Ids
  <2>2. ASSUME NEW k \in DOMAIN bs, bs[k].id # to  PROVE bs[k].id \in Ids(new)
    BY <1>3, <1>20, <1>21, <2>2 DEF Ids
  <2> QED BY <2>1, <2>2 DEF Ids
<1>23. \A m, n \in DOMAIN new : new[m].id = new[n].id => m = n
  BY <1>18, <1>19, <1>21 DEF FunctionSound
<1>24. ASSUME NEW n \in DOMAIN new
       PROVE  /\ IsBlock(new[n]) /\ new[n].id \in 0..MaxPc /\ Named(new[n]) \subseteq 0..MaxPc
              /\ \A x \in StoredPcs(new[n]) :
                    /\ new[n].term.op = "Call" /\ new[n].term.targets = <<x>>
                    /\ \E m \in DOMAIN new : new[m].id = x /\ Frees(new[m])
  <2>1. new[n].id \in 0..MaxPc
    BY <1>18, <1>21 DEF FunctionSound
  <2>2. Named(new[n]) \subseteq 0..MaxPc
    <3>1. Named(new[n]) = Named(bs[from(n)])
      BY <1>21 DEF Named, Successors
    <3> QED BY <1>21, <3>1 DEF FunctionSound
  <2>3. ASSUME NEW x \in StoredPcs(new[n])
        PROVE  /\ new[n].term.op = "Call" /\ new[n].term.targets = <<x>>
               /\ \E m \in DOMAIN new : new[m].id = x /\ Frees(new[m])
    <3> DEFINE k == from(n)
    <3>1. k \in DOMAIN bs /\ k # i /\ x \in StoredPcs(bs[k]) /\ new[n].term = bs[k].term
      BY <1>21
    <3>2. bs[k].term.op = "Call" /\ bs[k].term.targets = <<x>>
      BY <3>1 DEF FunctionSound
    <3>3. PICK l \in DOMAIN bs : bs[l].id = x /\ Frees(bs[l])
      BY <3>1 DEF FunctionSound
    <3>4. x # to
      BY <1>7, <3>1, <3>2, SingleTarget
    <3>5. PICK m \in DOMAIN new : p(m) = l
      BY <1>3, <1>20, <3>3, <3>4
    <3>6. new[m].id = x /\ Frees(new[m])
      BY <1>21, <3>3, <3>5
    <3> QED BY <3>1, <3>2, <3>6
  <2> QED BY <1>21, <2>1, <2>2, <2>3
<1>25. FunctionSound(new, e)
  <2>1. e \in Ids(new)
    BY <1>1, <1>22 DEF FunctionSound
  <2> QED BY <1>17, <1>23, <1>24, <2>1 DEF FunctionSound
<1>26. ASSUME FunctionClosed(bs, e)  PROVE FunctionClosed(new, e)
  <2>1. ASSUME NEW n \in DOMAIN new
        PROVE  /\ Successors(new[n]) \subseteq Ids(new) \cup EntryPcs
               /\ ToSet(new[n].term.callee) \subseteq EntryPcs
    <3>1. from(n) \in DOMAIN bs /\ from(n) # i /\ new[n].term = bs[from(n)].term
      BY <1>21
    <3>2. Successors(new[n]) = Successors(bs[from(n)])
      BY <3>1 DEF Successors
    <3>3. to \notin Successors(bs[from(n)])
      BY <1>7, <3>1
    <3>4. /\ Successors(bs[from(n)]) \subseteq Ids(bs) \cup EntryPcs
          /\ ToSet(bs[from(n)].term.callee) \subseteq EntryPcs
      BY <1>26, <3>1 DEF FunctionClosed
    <3> QED BY <1>22, <3>1, <3>2, <3>3, <3>4
  <2>2. Ids(new) \cap EntryPcs \subseteq {e}
    BY <1>22, <1>26 DEF FunctionClosed
  <2> QED BY <2>1, <2>2 DEF FunctionClosed
<1> QED BY <1>25, <1>26 DEF new

(* One merge, or none, keeps the function sound and closed.                *)
LEMMA CoalesceOnceKeeps ==
    ASSUME NEW bs, NEW e
    PROVE  Keeps(bs, CoalesceOnce(bs, e), e)
<1> SUFFICES ASSUME FunctionSound(bs, e)  PROVE Keeps(bs, CoalesceOnce(bs, e), e)
  BY DEF Keeps
<1> DEFINE at == {i \in DOMAIN bs : MergesAt(bs, e, i)}
           i  == Min(at)
           j  == Max(Index(bs, bs[i].term.targets[1]))
           mid == [bs EXCEPT ![i].ops = @ \o bs[j].ops, ![i].term = bs[j].term]
<1>1. CASE at = {}
  <2>1. CoalesceOnce(bs, e) = bs
    BY <1>1 DEF CoalesceOnce
  <2> QED BY <2>1 DEF Keeps
<1>2. CASE at # {}
  <2>1. i \in at
    <3>1. at \in SUBSET DOMAIN bs
      OBVIOUS
    <3> HIDE DEF at
    <3> QED BY <1>2, <3>1, PickFacts DEF FunctionSound
  <2>2. CoalesceOnce(bs, e) = RemoveAt(mid, j)
    BY <1>2 DEF CoalesceOnce
  <2>3. i \in DOMAIN bs /\ MergesAt(bs, e, i)
    BY <2>1
  <2> HIDE DEF i
  <2>4. Merged(mid, bs, i, j)
    BY DEF Merged
  <2> HIDE DEF j, mid
  <2> QED BY <2>2, <2>3, <2>4, MergeKeeps
<1> QED BY <1>1, <1>2

(* coalesce_linear_blocks keeps the function sound and closed.             *)
LEMMA CoalesceKeeps ==
    ASSUME NEW bs, NEW e, Len(bs) \in Nat
    PROVE  Keeps(bs, Coalesce(bs, e), e)
<1> DEFINE N == Len(bs)
           one(x) == CoalesceOnce(x, e)
           Table(h, m) == h = [n \in 0..m |-> IF n = 0 THEN bs ELSE one(h[n - 1])]
           after == CHOOSE h : Table(h, N)
           S == {m \in Nat : \E h : Table(h, m)}
<1>0. Coalesce(bs, e) = after[N]
  BY DEF Coalesce
<1>1. \A x : Keeps(x, one(x), e)
  BY CoalesceOnceKeeps
<1> HIDE DEF one, N
<1>2. 0 \in S
  <2>1. Table([n \in 0..0 |-> bs], 0)
    OBVIOUS
  <2> QED BY <2>1
<1>3. ASSUME NEW m \in Nat, m \in S  PROVE m + 1 \in S
  <2>1. PICK h : Table(h, m)
    BY <1>3
  <2> DEFINE k == [n \in 0..(m + 1) |-> IF n = m + 1 THEN one(h[m]) ELSE h[n]]
  <2>2. \A n \in 0..m : h[n] = IF n = 0 THEN bs ELSE one(h[n - 1])
    BY <2>1
  <2>3. ASSUME NEW n \in 0..(m + 1)  PROVE k[n] = IF n = 0 THEN bs ELSE one(k[n - 1])
    <3>1. CASE n = m + 1
      <4>1. n # 0 /\ n - 1 = m /\ m \in 0..(m + 1) /\ m # m + 1
        BY <3>1
      <4>2. k[n] = one(h[m]) /\ k[m] = h[m]
        BY <3>1, <4>1
      <4> QED BY <4>1, <4>2
    <3>2. CASE n # m + 1
      <4>1. n \in 0..m /\ (n # 0 => n - 1 \in 0..(m + 1) /\ n - 1 # m + 1)
        BY <3>2
      <4>2. k[n] = h[n] /\ (n # 0 => k[n - 1] = h[n - 1])
        BY <3>2, <4>1
      <4> QED BY <2>2, <4>1, <4>2
    <3> QED BY <3>1, <3>2
  <2>4. k = [n \in 0..(m + 1) |-> k[n]]
    OBVIOUS
  <2> HIDE DEF k
  <2>5. Table(k, m + 1)
    BY <2>3, <2>4
  <2> HIDE DEF Table
  <2> QED BY <2>5
<1>4. N \in S
  <2>1. Nat \subseteq S
    <3> HIDE DEF S
    <3> QED BY <1>2, <1>3, NatInduct
  <2> QED BY <2>1 DEF N
<1>5. Table(after, N)
  <2> HIDE DEF Table
  <2> QED BY <1>4
<1> HIDE DEF after
<1>6. after[0] = bs /\ \A n \in 1..N : Keeps(after[n - 1], after[n], e)
  <2>1. \A n \in 0..N : after[n] = IF n = 0 THEN bs ELSE one(after[n - 1])
    BY <1>5
  <2>2. N \in Nat /\ 0 \in 0..N /\ \A n \in 1..N : n \in 0..N /\ n # 0
    BY DEF N
  <2> HIDE DEF Table
  <2> QED BY <1>1, <2>1, <2>2
<1> HIDE DEF Table
<1>7. Keeps(bs, after[N], e)
  BY <1>6, StepsKeep DEF N
<1> QED BY <1>0, <1>7

-----------------------------------------------------------------------------
(* Functions without blocks get none. *)
LEMMA EmptyPasses ==
    ASSUME NEW e
    PROVE  /\ SimplifyTerms(<<>>, e) = <<>> /\ PredicatePutchars(<<>>, e) = <<>>
           /\ ThreadGotos(<<>>, e) = <<>> /\ DropDead(<<>>, e) = <<>>
           /\ DropUnreachable(<<>>, e) = <<>> /\ Coalesce(<<>>, e) = <<>>
<1>1. DOMAIN <<>> = {} /\ Len(<<>>) = 0
  OBVIOUS
<1>2. \A f : DOMAIN f = {} /\ f = [k \in {} |-> f[k]] => f = <<>>
  OBVIOUS
<1>3. SimplifyTerms(<<>>, e) = <<>>
  BY <1>1 DEF SimplifyTerms
<1>4. ThreadGotos(<<>>, e) = <<>>
  BY <1>1 DEF ThreadGotos
<1>5. DropDead(<<>>, e) = <<>>
  BY <1>1 DEF DropDead
<1>6. DropUnreachable(<<>>, e) = <<>>
  BY <1>1 DEF DropUnreachable, Index
<1>7. PredicatePutchars(<<>>, e) = <<>>
  <2> DEFINE one(x) == PredicateOnce(x)
             Table(h) == h = [n \in 0..Len(<<>>) |-> IF n = 0 THEN <<>> ELSE one(h[n - 1])]
             after == CHOOSE h : Table(h)
  <2>1. PredicatePutchars(<<>>, e) = after[Len(<<>>)]
    BY DEF PredicatePutchars
  <2> HIDE DEF one
  <2>2. Table([n \in 0..0 |-> <<>>])
    BY <1>1
  <2>3. Table(after)
    <3> HIDE DEF Table
    <3> QED BY <2>2
  <2> HIDE DEF after
  <2>4. after[0] = <<>>
    BY <1>1, <2>3
  <2> QED BY <1>1, <2>1, <2>4
<1>8. Coalesce(<<>>, e) = <<>>
  <2> DEFINE one(x) == CoalesceOnce(x, e)
             Table(h) == h = [n \in 0..Len(<<>>) |-> IF n = 0 THEN <<>> ELSE one(h[n - 1])]
             after == CHOOSE h : Table(h)
  <2>1. Coalesce(<<>>, e) = after[Len(<<>>)]
    BY DEF Coalesce
  <2> HIDE DEF one
  <2>2. Table([n \in 0..0 |-> <<>>])
    BY <1>1
  <2>3. Table(after)
    <3> HIDE DEF Table
    <3> QED BY <2>2
  <2> HIDE DEF after
  <2>4. after[0] = <<>>
    BY <1>1, <2>3
  <2> QED BY <1>1, <2>1, <2>4
<1> QED BY <1>3, <1>4, <1>5, <1>6, <1>7, <1>8

(* What the assumptions say of the source at hand.                         *)
LEMMA SourceFacts ==
    ASSUME source \in Programs
    PROVE  /\ IsSource(source) /\ Funcs = 1..Len(source.funcs) /\ Len(source.funcs) \in Nat
           /\ source.entry \in HasBlocks /\ HasBlocks \subseteq Funcs
           /\ PC_STRIDE \in Nat \ {0} /\ MaxPc \in Nat
<1>1. IsSource(source)
  BY SourceAssumption
<1>2. Funcs = 1..Len(source.funcs) /\ Len(source.funcs) \in Nat
  BY <1>1, SequenceFacts DEF IsSource, Funcs
<1> QED BY <1>1, <1>2, LayoutAssumption DEF IsSource, HasBlocks, Funcs

-----------------------------------------------------------------------------
(* One pass over all functions. *)
LEMMA PassStep ==
    ASSUME LayoutInv, NEW n \in 1..PASSES, NEW new, Pass(n, new), new = [f \in DOMAIN blocks |-> new[f]],
           \A f \in DOMAIN blocks : /\ blocks[f] = <<>> => new[f] = <<>>
                                    /\ Len(blocks[f]) \in Nat => Keeps(blocks[f], new[f], entries[f])
    PROVE  LayoutInv' /\ (Closed => Closed')
<1>1. /\ phase = "opt" /\ blocks' = new /\ changed' \in BOOLEAN /\ pass' \in 0..(PASSES + 1)
      /\ UNCHANGED <<source, phase, entries, rounds, seen, laid, cycles, start>>
  BY DEF Pass, PASSES
<1>2. source \in Programs /\ source.entry \in HasBlocks /\ HasBlocks \subseteq Funcs
  BY SourceFacts DEF LayoutInv
<1>3. /\ blocks # <<>>
      /\ entries = [f \in Funcs |-> IF f \in HasBlocks THEN Label(f, 0) ELSE 0]
  BY <1>1 DEF LayoutInv
<1>4. /\ DOMAIN blocks = Funcs
      /\ \A f \in Funcs : IF f \in HasBlocks THEN FunctionSound(blocks[f], Label(f, 0))
                                             ELSE blocks[f] = <<>>
  BY <1>3 DEF LayoutInv, BlocksSound
<1>5. ASSUME NEW f \in HasBlocks
      PROVE  /\ FunctionSound(new[f], Label(f, 0))
             /\ FunctionClosed(blocks[f], Label(f, 0)) => FunctionClosed(new[f], Label(f, 0))
  <2>1. f \in DOMAIN blocks /\ FunctionSound(blocks[f], Label(f, 0)) /\ entries[f] = Label(f, 0)
    BY <1>2, <1>3, <1>4
  <2>2. Len(blocks[f]) \in Nat
    BY <2>1, SequenceFacts DEF FunctionSound
  <2> QED BY <2>1, <2>2 DEF Keeps
<1>6. \A f \in Funcs : f \notin HasBlocks => new[f] = <<>>
  BY <1>4
<1>7. new # <<>>
  <2>1. DOMAIN new # {}
    BY <1>2, <1>4
  <2> QED BY <2>1
<1>8. HasBlocks' = HasBlocks /\ Funcs' = Funcs /\ EntryPcs' = EntryPcs
  BY <1>1 DEF HasBlocks, Funcs, EntryPcs
<1>9. DOMAIN blocks' = Funcs
  BY <1>1, <1>4
<1>10. BlocksSound'
  BY <1>1, <1>5, <1>6, <1>8, <1>9 DEF BlocksSound
<1>11. LayoutInv'
  BY <1>1, <1>3, <1>7, <1>8, <1>10 DEF LayoutInv, Paged
<1>12. ASSUME Closed  PROVE Closed'
  BY <1>1, <1>5, <1>8, <1>12 DEF Closed, FunctionClosed
<1> QED BY <1>11, <1>12

-----------------------------------------------------------------------------
(* FlattenSeq: the elements of the sequences, and nothing else. *)
LEMMA FlattenFacts ==
    ASSUME NEW ss, IsSequence(ss), \A n \in DOMAIN ss : IsSequence(ss[n])
    PROVE  LET r == FlattenSeq(ss)
           IN  /\ IsSequence(r)
               /\ \A k \in DOMAIN r : \E n \in DOMAIN ss : \E g \in DOMAIN ss[n] : r[k] = ss[n][g]
               /\ \A n \in DOMAIN ss : \A g \in DOMAIN ss[n] : \E k \in DOMAIN r : r[k] = ss[n][g]
<1> DEFINE N == Len(ss)
           one(x, i) == x \o ss[i]
           Table(h, m) == h = [i \in 1..m |-> IF i = 1 THEN ss[i] ELSE one(h[i - 1], i)]
           flat == CHOOSE h : Table(h, N)
           S == {m \in Nat : \E h : Table(h, m)}
           r == FlattenSeq(ss)
<1>1. N \in Nat /\ DOMAIN ss = 1..N
  BY SequenceFacts
<1>2. CASE N = 0
  <2>1. r = ss /\ DOMAIN ss = {}
    BY <1>1, <1>2 DEF FlattenSeq
  <2> HIDE DEF r
  <2> QED BY <2>1 DEF r
<1>3. CASE N # 0
  <2>1. r = flat[N]
    BY <1>3 DEF FlattenSeq
  <2>2. ASSUME NEW x, IsSequence(x), NEW i \in 1..N
        PROVE  /\ IsSequence(one(x, i))
               /\ \A k \in DOMAIN one(x, i) : \/ \E l \in DOMAIN x : one(x, i)[k] = x[l]
                                              \/ \E g \in DOMAIN ss[i] : one(x, i)[k] = ss[i][g]
               /\ \A l \in DOMAIN x : \E k \in DOMAIN one(x, i) : one(x, i)[k] = x[l]
               /\ \A g \in DOMAIN ss[i] : \E k \in DOMAIN one(x, i) : one(x, i)[k] = ss[i][g]
    <3> DEFINE t == ss[i]
               u == one(x, i)
    <3>1. IsSequence(t)
      BY <1>1
    <3>2. u = x \o t
      OBVIOUS
    <3> HIDE DEF t, u
    <3>3. /\ IsSequence(u) /\ \A k \in DOMAIN x : k \in DOMAIN u /\ u[k] = x[k]
      BY <2>2, <3>1, <3>2, ConcatFacts
    <3>4. \A k \in DOMAIN t : Len(x) + k \in DOMAIN u /\ u[Len(x) + k] = t[k]
      BY <2>2, <3>1, <3>2, ConcatFacts
    <3>5. \A k \in DOMAIN u \ DOMAIN x : k - Len(x) \in DOMAIN t /\ u[k] = t[k - Len(x)]
      BY <2>2, <3>1, <3>2, ConcatFacts
    <3>6. \A k \in DOMAIN u : (\E l \in DOMAIN x : u[k] = x[l]) \/ (\E g \in DOMAIN t : u[k] = t[g])
      BY <3>3, <3>5
    <3> QED BY <3>3, <3>4, <3>6 DEF t, u
  <2> HIDE DEF one, N, r
  <2>3. 0 \in S
    <3>1. Table([i \in 1..0 |-> 0], 0)
      OBVIOUS
    <3> QED BY <3>1
  <2>4. ASSUME NEW m \in Nat, m \in S  PROVE m + 1 \in S
    <3>1. PICK h : Table(h, m)
      BY <2>4
    <3> DEFINE k == [n \in 1..(m + 1) |-> IF n = m + 1 THEN (IF n = 1 THEN ss[n] ELSE one(h[m], n)) ELSE h[n]]
    <3>2. \A n \in 1..m : h[n] = IF n = 1 THEN ss[n] ELSE one(h[n - 1], n)
      BY <3>1
    <3>3. ASSUME NEW n \in 1..(m + 1)  PROVE k[n] = IF n = 1 THEN ss[n] ELSE one(k[n - 1], n)
      <4>1. CASE n = m + 1
        <5>1. n - 1 = m /\ (n # 1 => m \in 1..(m + 1) /\ m # m + 1)
          BY <4>1
        <5>2. k[n] = IF n = 1 THEN ss[n] ELSE one(h[m], n)
          BY <4>1
        <5>3. n # 1 => k[m] = h[m]
          BY <5>1
        <5> HIDE DEF k
        <5> QED BY <5>1, <5>2, <5>3
      <4>2. CASE n # m + 1
        <5>1. n \in 1..m /\ (n # 1 => n - 1 \in 1..(m + 1) /\ n - 1 # m + 1)
          BY <4>2
        <5>2. k[n] = h[n] /\ (n # 1 => k[n - 1] = h[n - 1])
          BY <4>2, <5>1
        <5> QED BY <3>2, <5>1, <5>2
      <4> QED BY <4>1, <4>2
    <3>4. k = [n \in 1..(m + 1) |-> k[n]]
      OBVIOUS
    <3> HIDE DEF k
    <3>5. Table(k, m + 1)
      BY <3>3, <3>4
    <3> HIDE DEF Table
    <3> QED BY <3>5
  <2>5. N \in S
    <3>1. Nat \subseteq S
      <4> HIDE DEF S
      <4> QED BY <2>3, <2>4, NatInduct
    <3> QED BY <3>1, <1>1
  <2>6. Table(flat, N)
    <3> HIDE DEF Table
    <3> QED BY <2>5
  <2> HIDE DEF flat
  <2>7. /\ flat[1] = ss[1] /\ 1 \in 1..N
        /\ \A n \in Nat : n # 0 /\ n + 1 <= N => n + 1 \in 1..N /\ flat[n + 1] = one(flat[n], n + 1)
    <3>1. \A n \in 1..N : flat[n] = IF n = 1 THEN ss[n] ELSE one(flat[n - 1], n)
      BY <2>6
    <3>2. 1 \in 1..N
          /\ \A n \in Nat : n # 0 /\ n + 1 <= N => n + 1 \in 1..N /\ n + 1 # 1 /\ (n + 1) - 1 = n
      BY <1>1, <1>3
    <3> HIDE DEF Table
    <3> QED BY <3>1, <3>2
  <2> HIDE DEF Table
  <2> DEFINE Holds(x, n) ==
                /\ IsSequence(x)
                /\ \A k \in DOMAIN x : \E i \in 1..n : \E g \in DOMAIN ss[i] : x[k] = ss[i][g]
                /\ \A i \in 1..n : \A g \in DOMAIN ss[i] : \E k \in DOMAIN x : x[k] = ss[i][g]
             P == {n \in Nat : n + 1 <= N => Holds(flat[n + 1], n + 1)}
  <2>8. 0 \in P
    <3>1. IsSequence(ss[1]) /\ 0 + 1 = 1 /\ 1..1 = {1}
      BY <1>1, <2>7
    <3>2. Holds(ss[1], 1)
      BY <3>1
    <3> HIDE DEF Holds
    <3> QED BY <2>7, <3>1, <3>2
  <2>9. ASSUME NEW n \in Nat, n \in P  PROVE n + 1 \in P
    <3> SUFFICES ASSUME (n + 1) + 1 <= N  PROVE Holds(flat[(n + 1) + 1], (n + 1) + 1)
      OBVIOUS
    <3> DEFINE a == n + 1
    <3>1. /\ a \in Nat /\ a # 0 /\ a + 1 <= N /\ a <= N /\ a + 1 \in 1..N
          /\ 1..(a + 1) = (1..a) \cup {a + 1}
      BY <1>1
    <3>2. Holds(flat[a], a)
      BY <2>9, <3>1
    <3> HIDE DEF a, Holds
    <3>3. flat[a + 1] = one(flat[a], a + 1)
      BY <2>7, <3>1
    <3> DEFINE x == flat[a]
               u == one(x, a + 1)
               t == ss[a + 1]
    <3>4. IsSequence(x)
      BY <3>2 DEF Holds
    <3>5. /\ IsSequence(u)
          /\ \A k \in DOMAIN u : \/ \E l \in DOMAIN x : u[k] = x[l]
                                 \/ \E g \in DOMAIN t : u[k] = t[g]
          /\ \A l \in DOMAIN x : \E k \in DOMAIN u : u[k] = x[l]
          /\ \A g \in DOMAIN t : \E k \in DOMAIN u : u[k] = t[g]
      <4> DEFINE i == a + 1
      <4>1. i \in 1..N
        BY <3>1
      <4> HIDE DEF i, x, one
      <4> QED BY ONLY <2>2, <3>4, <4>1 DEF i, u, t
    <3> HIDE DEF u, x
    <3>6. \A k \in DOMAIN u : \E i \in 1..(a + 1) : \E g \in DOMAIN ss[i] : u[k] = ss[i][g]
      <4> SUFFICES ASSUME NEW k \in DOMAIN u
                   PROVE  \E i \in 1..(a + 1) : \E g \in DOMAIN ss[i] : u[k] = ss[i][g]
        OBVIOUS
      <4>1. CASE \E l \in DOMAIN x : u[k] = x[l]
        <5>1. PICK l \in DOMAIN x : u[k] = x[l]
          BY <4>1
        <5>2. PICK i \in 1..a : \E g \in DOMAIN ss[i] : x[l] = ss[i][g]
          BY <3>2 DEF Holds, x
        <5> QED BY <3>1, <5>1, <5>2
      <4>2. CASE \E g \in DOMAIN t : u[k] = t[g]
        BY <3>1, <4>2
      <4> QED BY <3>5, <4>1, <4>2
    <3>7. ASSUME NEW i \in 1..(a + 1), NEW g \in DOMAIN ss[i]  PROVE \E k \in DOMAIN u : u[k] = ss[i][g]
      <4>1. CASE i = a + 1
        BY <3>5, <4>1
      <4>2. CASE i # a + 1
        <5>1. i \in 1..a
          BY <3>1, <4>2
        <5>2. PICK l \in DOMAIN x : x[l] = ss[i][g]
          BY <3>2, <5>1 DEF Holds, x
        <5> QED BY <3>5, <5>2
      <4> QED BY <4>1, <4>2
    <3>8. Holds(u, a + 1)
      BY <3>5, <3>6, <3>7 DEF Holds
    <3> QED BY <3>3, <3>8 DEF a, u, x
  <2>10. Holds(flat[N], N)
    <3>1. Nat \subseteq P
      <4> HIDE DEF P
      <4> QED BY <2>8, <2>9, NatInduct
    <3>2. N - 1 \in Nat /\ (N - 1) + 1 = N /\ N <= N
      BY <1>1, <1>3
    <3>3. N - 1 \in P
      BY <3>1, <3>2
    <3> HIDE DEF Holds
    <3> QED BY <3>2, <3>3
  <2> QED BY <1>1, <2>1, <2>10 DEF r
<1> QED BY <1>2, <1>3

-----------------------------------------------------------------------------
(* Renaming. *)
LEMMA RenamedOpsFacts ==
    ASSUME NEW ops, IsOps(ops), NEW map
    PROVE  LET u == RenamedOps(ops, map)
           IN  /\ IsOps(u) /\ StoredIn(u) = {map[c] : c \in StoredIn(ops)}
               /\ FreesIn(u) <=> FreesIn(ops)
<1> DEFINE u == RenamedOps(ops, map)
<1>1. DOMAIN ops = 1..Len(ops) /\ Len(ops) \in Nat
  BY SequenceFacts DEF IsOps
<1>2. u = [m \in DOMAIN ops |-> IF ops[m].op = "StorePc" THEN Op("StorePc", <<map[ops[m].val[1]]>>)
                                                         ELSE ops[m]]
  BY DEF RenamedOps
<1> HIDE DEF u
<1>3. IsSequence(u) /\ DOMAIN u = DOMAIN ops
  <2>1. u = [m \in 1..Len(ops) |-> u[m]]
    BY <1>1, <1>2
  <2> QED BY <1>1, <2>1, BuiltSequence
<1>4. ASSUME NEW m \in DOMAIN ops
      PROVE  /\ u[m] = Op(u[m].op, u[m].val) /\ u[m].op = ops[m].op
             /\ ops[m].op = "StorePc" => u[m].val[1] = map[ops[m].val[1]]
  <2>1. CASE ops[m].op = "StorePc"
    <3> DEFINE y == map[ops[m].val[1]]
    <3>1. u[m] = Op("StorePc", <<y>>)
      BY <1>2, <2>1
    <3>2. <<y>>[1] = y
      OBVIOUS
    <3> HIDE DEF y
    <3>3. u[m].op = "StorePc" /\ u[m].val = <<y>>
      BY <3>1 DEF Op
    <3> QED BY <2>1, <3>1, <3>2, <3>3 DEF y
  <2>2. CASE ops[m].op # "StorePc"
    <3>1. u[m] = ops[m]
      BY <1>2, <2>2
    <3> QED BY <2>2, <3>1 DEF IsOps
  <2> QED BY <2>1, <2>2
<1>5. IsOps(u)
  BY <1>3, <1>4 DEF IsOps
<1>6. StoredIn(u) = {map[c] : c \in StoredIn(ops)}
  <2>1. ASSUME NEW m \in DOMAIN u, u[m].op = "StorePc"
        PROVE  u[m].val[1] \in {map[c] : c \in StoredIn(ops)}
    <3>1. ops[m].op = "StorePc" /\ u[m].val[1] = map[ops[m].val[1]] /\ m \in DOMAIN ops
      BY <1>3, <1>4, <2>1
    <3>2. ops[m].val[1] \in StoredIn(ops)
      BY <3>1 DEF StoredIn
    <3> QED BY <3>1, <3>2
  <2>2. ASSUME NEW c \in StoredIn(ops)  PROVE map[c] \in StoredIn(u)
    <3>1. PICK m \in DOMAIN ops : ops[m].op = "StorePc" /\ c = ops[m].val[1]
      BY DEF StoredIn
    <3>2. m \in DOMAIN u /\ u[m].op = "StorePc" /\ u[m].val[1] = map[c]
      BY <1>3, <1>4, <3>1
    <3> QED BY <3>2 DEF StoredIn
  <2>3. StoredIn(u) \subseteq {map[c] : c \in StoredIn(ops)}
    BY <2>1 DEF StoredIn
  <2> QED BY <2>2, <2>3
<1>7. FreesIn(u) <=> FreesIn(ops)
  BY <1>3, <1>4 DEF FreesIn
<1> QED BY <1>5, <1>6, <1>7 DEF u

(* A renamed terminator is the same one with each name replaced.           *)
LEMMA RenamedTermFacts ==
    ASSUME NEW t, IsTerm(t), NEW map
    PROVE  LET u == RenamedTerm(t, map)
           IN  /\ IsTerm(u) /\ u.op = t.op /\ u.cond = t.cond
               /\ DOMAIN u.targets = DOMAIN t.targets
               /\ \A m \in DOMAIN t.targets : u.targets[m] = map[t.targets[m]]
               /\ \A x \in ToSet(u.targets) : \E y \in ToSet(t.targets) : x = map[y]
               /\ \A x \in ToSet(u.callee) : \E y \in ToSet(t.callee) : x = map[y]
<1> DEFINE p == [m \in DOMAIN t.targets |-> map[t.targets[m]]]
           q == [m \in DOMAIN t.callee |-> map[t.callee[m]]]
           u == RenamedTerm(t, map)
<1>1. u = [t EXCEPT !.targets = p, !.callee = q]
  BY DEF RenamedTerm
<1>2. p = [m \in DOMAIN t.targets |-> p[m]] /\ q = [m \in DOMAIN t.callee |-> q[m]]
  OBVIOUS
<1>3. ToSet(p) = {map[x] : x \in ToSet(t.targets)} /\ ToSet(q) = {map[x] : x \in ToSet(t.callee)}
  BY DEF ToSet
<1>4. IsTerm(u) /\ u.op = t.op /\ u.cond = t.cond /\ u.targets = p /\ u.callee = q
  <2> HIDE DEF p, q, u
  <2>1. Renamed(u, t, p, q)
    BY <1>1, <1>2 DEF Renamed
  <2> QED BY <2>1, NewTargets
<1>5. DOMAIN p = DOMAIN t.targets /\ \A m \in DOMAIN t.targets : p[m] = map[t.targets[m]]
  OBVIOUS
<1>6. /\ \A x \in ToSet(p) : \E y \in ToSet(t.targets) : x = map[y]
      /\ \A x \in ToSet(q) : \E y \in ToSet(t.callee) : x = map[y]
  BY <1>3
<1> HIDE DEF u, p, q
<1> QED BY <1>4, <1>5, <1>6 DEF u

-----------------------------------------------------------------------------
(* Lowering *)
LEMMA LoweredFacts ==
    ASSUME source \in Programs, LabelsFit, NEW f \in HasBlocks, NEW k \in DOMAIN source.funcs[f]
    PROVE  LET c == Lowered(PC_STRIDE, f, k)
               b == source.funcs[f][k]
               n == Len(source.funcs[f])
           IN  /\ IsBlock(c) /\ c.id = Label(f, k - 1) /\ (Frees(b) => Frees(c))
               /\ Successors(c) \subseteq {Label(f, m) : m \in 0..(n - 1)} \cup EntryPcs
               /\ ToSet(c.term.callee) \subseteq EntryPcs
               /\ \A x \in StoredPcs(c) :
                     /\ c.term.op = "Call" /\ c.term.targets = <<x>>
                     /\ \E m \in 0..(n - 1) : x = Label(f, m) /\ Frees(source.funcs[f][m + 1])
<1> DEFINE c == Lowered(PC_STRIDE, f, k)
           b == source.funcs[f][k]
           t == b.term
           n == Len(source.funcs[f])
           own == [m \in 0..(n - 1) |-> LabelAt(PC_STRIDE, f, m)]
           q == [m \in DOMAIN t.callee |-> LabelAt(PC_STRIDE, t.callee[m] + 1, 0)]
           tailCall == t.op = "Call" /\ t.targets = <<>>
           s == [t EXCEPT !.callee = <<>>]
           r == RenamedTerm(s, own)
           p == IF tailCall THEN q ELSE r.targets
           u == [r EXCEPT !.callee = q, !.targets = IF tailCall THEN q ELSE @]
<1>1. /\ IsOps(b.ops) /\ IsTerm(t)
      /\ Successors(b) \subseteq 0..(n - 1)
      /\ \A x \in ToSet(t.callee) : x + 1 \in DOMAIN source.funcs /\ source.funcs[x + 1] # <<>>
      /\ \A x \in StoredPcs(b) : t.op = "Call" /\ t.targets = <<x>> /\ Frees(source.funcs[f][x + 1])
  BY SourceFacts DEF IsSource, Funcs
<1>2. n \in Nat /\ k \in 1..n /\ k - 1 \in 0..(n - 1)
  <2>1. IsSequence(source.funcs[f])
    BY SourceFacts DEF IsSource, Funcs
  <2>2. n \in Nat /\ DOMAIN source.funcs[f] = 1..n
    BY <2>1, SequenceFacts
  <2> HIDE DEF n
  <2> QED BY <2>2
<1>3. c = [id |-> own[k - 1], ops |-> RenamedOps(b.ops, own), term |-> u]
  BY DEF Lowered
<1>4. \A m \in 0..(n - 1) : own[m] = Label(f, m)
  BY DEF Label
<1>5. \A m \in DOMAIN t.callee : q[m] \in EntryPcs
  <2> SUFFICES ASSUME NEW m \in DOMAIN t.callee  PROVE q[m] \in EntryPcs
    OBVIOUS
  <2>1. t.callee[m] \in ToSet(t.callee)
    BY DEF ToSet
  <2>2. t.callee[m] + 1 \in HasBlocks
    BY <1>1, <2>1 DEF HasBlocks, Funcs
  <2>3. q[m] = Label(t.callee[m] + 1, 0)
    BY DEF Label
  <2> HIDE DEF q, t
  <2> QED BY <2>2, <2>3 DEF EntryPcs
<1>6. ToSet(q) \subseteq EntryPcs
  BY <1>5 DEF ToSet
<1>7. /\ DOMAIN t.callee = 1..Len(t.callee) /\ Len(t.callee) \in Nat
      /\ IsSequence(t.targets) /\ IsSequence(t.callee)
  BY <1>1, SequenceFacts DEF IsTerm
<1>8. IsSequence(q) /\ DOMAIN q = DOMAIN t.callee /\ (t.callee = <<>> => q = <<>>)
  <2>1. q = [m \in 1..Len(t.callee) |-> q[m]]
    BY <1>7
  <2>2. IsSequence(q) /\ Len(q) = Len(t.callee) /\ DOMAIN q = DOMAIN t.callee
    <3> HIDE DEF q, t
    <3> QED BY <1>7, <2>1, BuiltSequence
  <2>3. t.callee = <<>> => q = <<>>
    BY <1>7
  <2> QED BY <2>2, <2>3
<1> HIDE DEF q
<1>9. IsTerm(s) /\ s.op = t.op /\ s.targets = t.targets /\ s.callee = <<>>
  <2>1. s = [op |-> t.op, targets |-> t.targets, cond |-> t.cond, callee |-> <<>>]
    <3>1. t = [op |-> t.op, targets |-> t.targets, cond |-> t.cond, callee |-> t.callee]
      <4> HIDE DEF t
      <4> QED BY <1>1 DEF IsTerm
    <3>2. s = [t EXCEPT !.callee = <<>>]
      OBVIOUS
    <3> HIDE DEF s, t
    <3> QED BY ONLY <3>1, <3>2
  <2>2. s.op = t.op /\ s.targets = t.targets /\ s.callee = <<>> /\ s.cond = t.cond
    BY <2>1
  <2>3. IsSequence(<<>>)
    <3>1. <<>> \in Seq({})
      OBVIOUS
    <3> QED BY <3>1, SequenceOf
  <2> HIDE DEF s, t
  <2> QED BY <1>1, <2>1, <2>2, <2>3 DEF IsTerm
<1> HIDE DEF own
<1>10. /\ IsTerm(r) /\ r.op = t.op
       /\ DOMAIN r.targets = DOMAIN t.targets
       /\ \A m \in DOMAIN t.targets : r.targets[m] = own[t.targets[m]]
       /\ \A x \in ToSet(r.targets) : \E y \in ToSet(t.targets) : x = own[y]
  <2> HIDE DEF s, t
  <2>1. /\ IsTerm(r) /\ r.op = s.op /\ DOMAIN r.targets = DOMAIN s.targets
        /\ \A m \in DOMAIN s.targets : r.targets[m] = own[s.targets[m]]
    BY <1>9, RenamedTermFacts
  <2>2. \A x \in ToSet(r.targets) : \E y \in ToSet(s.targets) : x = own[y]
    BY <1>9, RenamedTermFacts
  <2> HIDE DEF r
  <2> QED BY <1>9, <2>1, <2>2
<1> HIDE DEF s, r
<1>11. u = [op |-> t.op, targets |-> p, cond |-> r.cond, callee |-> q]
  <2>1. r = [op |-> t.op, targets |-> r.targets, cond |-> r.cond, callee |-> r.callee]
    BY <1>10 DEF IsTerm
  <2>2. u = [r EXCEPT !.callee = q, !.targets = p]
    BY <2>1
  <2> HIDE DEF t, p, u
  <2> DEFINE o == t.op
             x == r.targets
             y == r.cond
             z == r.callee
  <2>3. r = [op |-> o, targets |-> x, cond |-> y, callee |-> z]
    BY <2>1
  <2>4. u = [[r EXCEPT !.callee = q] EXCEPT !.targets = p]
    BY <2>2
  <2> HIDE DEF o, x, y, z, r
  <2>5. [r EXCEPT !.callee = q] = [op |-> o, targets |-> x, cond |-> y, callee |-> q]
    BY <2>3
  <2>6. u = [op |-> o, targets |-> p, cond |-> y, callee |-> q]
    BY <2>4, <2>5
  <2> QED BY <2>6 DEF o, y
<1>12. u.op = t.op /\ u.targets = p /\ u.callee = q
  BY <1>11
<1>13. p = (IF tailCall THEN q ELSE r.targets)
  OBVIOUS
<1> HIDE DEF u, p
<1>14. IsTerm(u)
  <2>1. IsSequence(p)
    BY <1>8, <1>10, <1>13 DEF IsTerm
  <2>2. ASSUME t.op \in {"Goto", "Branch"}
        PROVE  p = r.targets /\ 1 \in DOMAIN p /\ q = <<>> /\ (t.op = "Goto" => p = <<p[1]>>)
    <3>1. p = r.targets
      BY <1>13, <2>2
    <3> HIDE DEF t
    <3>2. q = <<>>
      BY <1>1, <1>8, <2>2 DEF IsTerm
    <3>3. IsTerm(r) /\ r.op = t.op
      BY <1>10
    <3> HIDE DEF r
    <3>4. 1 \in DOMAIN r.targets /\ (t.op = "Goto" => r.targets = <<r.targets[1]>>)
      BY ONLY <2>2, <3>3 DEF IsTerm
    <3> QED BY ONLY <2>2, <3>1, <3>2, <3>4
  <2> HIDE DEF t
  <2> QED BY <1>8, <1>11, <1>12, <2>1, <2>2 DEF IsTerm
<1>15. IsOps(c.ops) /\ StoredIn(c.ops) = {own[x] : x \in StoredIn(b.ops)}
       /\ (FreesIn(c.ops) <=> FreesIn(b.ops)) /\ c.id = own[k - 1] /\ c.term = u
  <2>1. c.ops = RenamedOps(b.ops, own) /\ c.id = own[k - 1] /\ c.term = u
    BY <1>3
  <2> HIDE DEF c, b
  <2> QED BY <1>1, <2>1, RenamedOpsFacts
<1>16. IsBlock(c)
  <2>1. c = [id |-> c.id, ops |-> c.ops, term |-> c.term]
    BY <1>3
  <2> HIDE DEF c
  <2> QED BY <1>14, <1>15, <2>1 DEF IsBlock
<1>17. StoredPcs(c) = {own[x] : x \in StoredPcs(b)} /\ (Frees(b) => Frees(c))
  <2> HIDE DEF c, b
  <2> QED BY <1>15, OpsOf
<1> HIDE DEF c, n
<1>18. Successors(c) \subseteq {Label(f, m) : m \in 0..(n - 1)} \cup EntryPcs
  <2>1. Successors(c) = ToSet(p)
    BY <1>12, <1>15 DEF Successors
  <2>2. \A x \in ToSet(t.targets) : x \in 0..(n - 1) /\ own[x] = Label(f, x)
    BY <1>1, <1>4 DEF Successors
  <2>3. ToSet(r.targets) \subseteq {Label(f, m) : m \in 0..(n - 1)}
    <3> SUFFICES ASSUME NEW y \in ToSet(r.targets)  PROVE y \in {Label(f, m) : m \in 0..(n - 1)}
      OBVIOUS
    <3>1. PICK x \in ToSet(t.targets) : y = own[x]
      BY <1>10
    <3>2. x \in 0..(n - 1) /\ y = Label(f, x)
      BY <2>2, <3>1
    <3> HIDE DEF t
    <3> QED BY <3>2
  <2> QED BY <1>6, <1>13, <2>1, <2>3
<1>19. ToSet(c.term.callee) \subseteq EntryPcs
  BY <1>6, <1>12, <1>15
<1>20. ASSUME NEW x \in StoredPcs(c)
       PROVE  /\ c.term.op = "Call" /\ c.term.targets = <<x>>
              /\ \E m \in 0..(n - 1) : x = Label(f, m) /\ Frees(source.funcs[f][m + 1])
  <2>1. PICK y \in StoredPcs(b) : x = own[y]
    BY <1>17
  <2>2. t.op = "Call" /\ t.targets = <<y>> /\ Frees(source.funcs[f][y + 1])
    BY <1>1, <2>1
  <2>3. /\ DOMAIN <<y>> = {1} /\ <<y>>[1] = y /\ <<y>> = [m \in {1} |-> y]
        /\ <<x>> = [m \in {1} |-> x]
    <3>1. DOMAIN <<y>> = 1..1 /\ 1..1 = {1}
      OBVIOUS
    <3> QED BY <3>1
  <2>4. Successors(b) = {y}
    BY <2>2, SingleTarget
  <2>5. y \in 0..(n - 1) /\ x = Label(f, y)
    BY <1>1, <1>4, <2>1, <2>4
  <2>6. ~tailCall /\ p = r.targets
    <3>1. t.targets # <<>>
      BY <2>2
    <3> QED BY <3>1, <1>13
  <2>7. DOMAIN r.targets = {1} /\ r.targets[1] = x
    BY <1>10, <2>1, <2>2, <2>3
  <2>8. r.targets = [m \in {1} |-> x]
    <3>1. r.targets = [m \in DOMAIN r.targets |-> r.targets[m]]
      BY <1>10, SequenceFacts DEF IsTerm, IsSequence
    <3> QED BY <2>7, <3>1
  <2>9. c.term.targets = <<x>>
    BY <1>12, <1>15, <2>3, <2>6, <2>8
  <2>10. c.term.op = "Call"
    BY <1>12, <1>15, <2>2
  <2> QED BY <2>2, <2>5, <2>9, <2>10
<1>21. c.id = Label(f, k - 1)
  BY <1>2, <1>4, <1>15
<1> QED BY <1>16, <1>17, <1>18, <1>19, <1>20, <1>21 DEF c, n

(* Labels are numbers, and those of one function are apart.                *)
LEMMA LabelFacts ==
    ASSUME NEW f \in Nat \ {0}, PC_STRIDE \in Nat \ {0}
    PROVE  /\ \A k \in Nat : Label(f, k) \in Nat
           /\ \A j, k \in Nat : Label(f, j) = Label(f, k) => j = k
<1> DEFINE b == (f - 1) * PC_STRIDE
<1>1. b \in Nat
  OBVIOUS
<1>2. \A k : Label(f, k) = b + k
  BY DEF Label, LabelAt
<1> HIDE DEF b
<1> QED BY <1>1, <1>2

(* With room for a function's blocks, the labels of the functions are      *)
(* apart.                                                                  *)
LEMMA LabelsApart ==
    ASSUME PC_STRIDE \in Nat \ {0}, NEW f \in Nat \ {0}, NEW g \in Nat \ {0},
           NEW k \in 0..(PC_STRIDE - 1), Label(f, k) = Label(g, 0)
    PROVE  f = g
<1> DEFINE s == PC_STRIDE
           d == g - f
<1>1. (f - 1) * s + k = (g - 1) * s
  BY DEF Label, LabelAt
<1>2. (g - 1) * s = (f - 1) * s + d * s
  OBVIOUS
<1>3. d * s = k
  <2>1. (f - 1) * s \in Int /\ d * s \in Int
    OBVIOUS
  <2> HIDE DEF d, s
  <2> QED BY <1>1, <1>2, <2>1
<1>4. CASE d = 0
  BY <1>4
<1>5. CASE d >= 1
  <2>1. (d - 1) * s >= 0
    BY <1>5
  <2>2. d * s = (d - 1) * s + s
    OBVIOUS
  <2>3. (d - 1) * s \in Int /\ s \in Nat
    OBVIOUS
  <2> HIDE DEF d
  <2> QED BY <1>3, <2>1, <2>2, <2>3
<1>6. CASE d <= -1
  <2>1. (-d - 1) * s >= 0
    BY <1>6
  <2>2. d * s = -((-d - 1) * s) - s
    OBVIOUS
  <2>3. (-d - 1) * s \in Int /\ s \in Nat \ {0}
    OBVIOUS
  <2> HIDE DEF d
  <2> QED BY <1>3, <2>1, <2>2, <2>3
<1> QED BY <1>4, <1>5, <1>6

(* No function has more blocks than labels. *)
BlocksFit == \A src \in Programs : \A f \in DOMAIN src.funcs : Len(src.funcs[f]) <= PC_STRIDE

(* Lowering makes every function sound, and closed if its blocks fit its   *)
(* labels.                                                                 *)
LEMMA LowerStep ==
    ASSUME LayoutInv, Lower
    PROVE  LayoutInv' /\ (BlocksFit => Closed')
<1> DEFINE bs(f) == [k \in DOMAIN source.funcs[f] |-> Lowered(PC_STRIDE, f, k)]
<1>1. /\ phase = "lower" /\ LabelsFit /\ phase' = "opt"
      /\ blocks' = [f \in Funcs |-> bs(f)]
      /\ entries' = [f \in Funcs |-> IF source.funcs[f] = <<>> THEN 0 ELSE Label(f, 0)]
      /\ UNCHANGED <<source, pass, changed, rounds, seen, laid, cycles, start>>
  BY DEF Lower, optVars
<1>2. /\ source \in Programs /\ IsSource(source) /\ Funcs = 1..Len(source.funcs)
      /\ Len(source.funcs) \in Nat /\ source.entry \in HasBlocks /\ HasBlocks \subseteq Funcs
      /\ PC_STRIDE \in Nat \ {0} /\ MaxPc \in Nat
  BY SourceFacts DEF LayoutInv
<1>3. HasBlocks' = HasBlocks /\ Funcs' = Funcs /\ EntryPcs' = EntryPcs
  BY <1>1 DEF HasBlocks, Funcs, EntryPcs
<1>4. \A f \in Funcs : /\ IsSequence(source.funcs[f]) /\ f \in Nat \ {0}
                       /\ DOMAIN source.funcs[f] = 1..Len(source.funcs[f]) /\ Len(source.funcs[f]) \in Nat
  BY <1>2, SequenceFacts DEF IsSource, Funcs
<1>5. \A f \in HasBlocks : 1 \in DOMAIN source.funcs[f]
  <2> SUFFICES ASSUME NEW f \in HasBlocks  PROVE 1 \in DOMAIN source.funcs[f]
    OBVIOUS
  <2> DEFINE s == source.funcs[f]
  <2>1. s # <<>> /\ IsSequence(s) /\ DOMAIN s = 1..Len(s) /\ Len(s) \in Nat
    BY <1>2, <1>4 DEF HasBlocks
  <2> HIDE DEF s
  <2>2. s \in Seq(ToSet(s))
    BY <2>1, SequenceFacts
  <2>3. Len(s) # 0
    BY <2>1, <2>2
  <2> QED BY <2>1, <2>3 DEF s
<1>6. \A f \in Funcs : \A k \in DOMAIN source.funcs[f] :
         k - 1 \in Nat /\ Label(f, k - 1) \in 0..MaxPc
  <2> SUFFICES ASSUME NEW f \in Funcs, NEW k \in DOMAIN source.funcs[f]
               PROVE  k - 1 \in Nat /\ Label(f, k - 1) \in 0..MaxPc
    OBVIOUS
  <2>1. k - 1 \in Nat
    BY <1>4
  <2>2. Label(f, k - 1) <= MaxPc
    BY <1>1 DEF LabelsFit
  <2>3. Label(f, k - 1) \in Nat
    BY <1>2, <1>4, <2>1, LabelFacts
  <2> QED BY <1>2, <2>1, <2>2, <2>3
<1>7. EntryPcs \subseteq 0..MaxPc
  <2> SUFFICES ASSUME NEW f \in HasBlocks  PROVE Label(f, 0) \in 0..MaxPc
    BY DEF EntryPcs
  <2>1. f \in Funcs /\ 1 \in DOMAIN source.funcs[f] /\ 1 - 1 = 0
    BY <1>2, <1>5
  <2> QED BY <1>6, <2>1
<1>8. ASSUME NEW f \in HasBlocks, NEW k \in DOMAIN source.funcs[f]
      PROVE  LET c == bs(f)[k]
                 n == Len(source.funcs[f])
             IN  /\ IsBlock(c) /\ c.id = Label(f, k - 1)
                 /\ (Frees(source.funcs[f][k]) => Frees(c))
                 /\ Successors(c) \subseteq {Label(f, m) : m \in 0..(n - 1)} \cup EntryPcs
                 /\ ToSet(c.term.callee) \subseteq EntryPcs
                 /\ \A x \in StoredPcs(c) :
                       /\ c.term.op = "Call" /\ c.term.targets = <<x>>
                       /\ \E m \in 0..(n - 1) : x = Label(f, m) /\ Frees(source.funcs[f][m + 1])
  <2>1. bs(f)[k] = Lowered(PC_STRIDE, f, k)
    OBVIOUS
  <2> HIDE DEF bs
  <2> QED BY ONLY <1>1, <1>2, <2>1, LoweredFacts, f \in HasBlocks, k \in DOMAIN source.funcs[f]
<1>9. ASSUME NEW f \in HasBlocks
      PROVE  /\ Ids(bs(f)) = {Label(f, m) : m \in 0..(Len(source.funcs[f]) - 1)}
             /\ FunctionSound(bs(f), Label(f, 0))
  <2> DEFINE s == bs(f)
             n == Len(source.funcs[f])
             L == {Label(f, m) : m \in 0..(n - 1)}
  <2>1. /\ n \in Nat /\ DOMAIN source.funcs[f] = 1..n /\ 1 \in 1..n /\ f \in Nat \ {0} /\ f \in Funcs
    BY <1>2, <1>4, <1>5
  <2>2. DOMAIN s = 1..n /\ s = [k \in 1..n |-> s[k]]
    BY <2>1
  <2>3. \A k \in 1..n : /\ IsBlock(s[k]) /\ s[k].id = Label(f, k - 1)
                        /\ (Frees(source.funcs[f][k]) => Frees(s[k]))
                        /\ Successors(s[k]) \subseteq L \cup EntryPcs
                        /\ ToSet(s[k].term.callee) \subseteq EntryPcs
    <3> HIDE DEF bs
    <3> QED BY ONLY <1>8, <2>1, f \in HasBlocks
  <2>4. \A k \in 1..n : \A x \in StoredPcs(s[k]) :
           /\ s[k].term.op = "Call" /\ s[k].term.targets = <<x>>
           /\ \E m \in 0..(n - 1) : x = Label(f, m) /\ Frees(source.funcs[f][m + 1])
    <3> HIDE DEF bs
    <3> QED BY ONLY <1>8, <2>1, f \in HasBlocks
  <2>5. \A k \in 1..n : k - 1 \in 0..(n - 1) /\ k - 1 \in Nat /\ Label(f, k - 1) \in 0..MaxPc
    <3>1. \A k \in 1..n : k - 1 \in Nat /\ Label(f, k - 1) \in 0..MaxPc
      BY <1>6, <2>1
    <3>2. \A k \in 1..n : k - 1 \in 0..(n - 1)
      <4> HIDE DEF n
      <4> QED BY <2>1
    <3> QED BY <3>1, <3>2
  <2>6. \A m \in 0..(n - 1) : m \in Nat /\ m + 1 \in 1..n /\ (m + 1) - 1 = m
    BY <2>1
  <2> HIDE DEF s, n
  <2>7. IsSequence(s)
    BY <2>1, <2>2, BuiltSequence
  <2>8. Ids(s) = L
    <3>1. \A k \in DOMAIN s : s[k].id \in L
      BY <2>2, <2>3, <2>5
    <3>2. \A m \in 0..(n - 1) : m + 1 \in DOMAIN s /\ s[m + 1].id = Label(f, m)
      BY <2>2, <2>3, <2>6
    <3> QED BY <3>1, <3>2 DEF Ids
  <2>9. Label(f, 0) \in L /\ L \subseteq 0..MaxPc
    <3>1. 0 \in 0..(n - 1)
      BY <2>1
    <3>2. \A m \in 0..(n - 1) : Label(f, m) \in 0..MaxPc
      <4> SUFFICES ASSUME NEW m \in 0..(n - 1)  PROVE Label(f, m) \in 0..MaxPc
        OBVIOUS
      <4>1. m + 1 \in 1..n /\ (m + 1) - 1 = m
        BY <2>6
      <4> QED BY <2>5, <4>1
    <3> QED BY <3>1, <3>2
  <2>10. \A j, k \in DOMAIN s : s[j].id = s[k].id => j = k
    <3> SUFFICES ASSUME NEW j \in DOMAIN s, NEW k \in DOMAIN s, s[j].id = s[k].id  PROVE j = k
      OBVIOUS
    <3>1. j - 1 \in Nat /\ k - 1 \in Nat /\ Label(f, j - 1) = Label(f, k - 1)
      BY <2>2, <2>3, <2>5
    <3>2. j - 1 = k - 1
      BY <1>2, <2>1, <3>1, LabelFacts
    <3> QED BY <2>2, <3>2
  <2>11. ASSUME NEW k \in DOMAIN s
         PROVE  /\ IsBlock(s[k]) /\ s[k].id \in 0..MaxPc /\ Named(s[k]) \subseteq 0..MaxPc
                /\ \A c \in StoredPcs(s[k]) :
                      /\ s[k].term.op = "Call" /\ s[k].term.targets = <<c>>
                      /\ \E j \in DOMAIN s : s[j].id = c /\ Frees(s[j])
    <3>1. k \in 1..n
      BY <2>2
    <3>2. ASSUME NEW c \in StoredPcs(s[k])
          PROVE  /\ s[k].term.op = "Call" /\ s[k].term.targets = <<c>>
                 /\ \E j \in DOMAIN s : s[j].id = c /\ Frees(s[j])
      <4>1. PICK m \in 0..(n - 1) : c = Label(f, m) /\ Frees(source.funcs[f][m + 1])
        BY <2>4, <3>1
      <4>2. m + 1 \in DOMAIN s /\ s[m + 1].id = c /\ Frees(s[m + 1])
        BY <2>2, <2>3, <2>6, <4>1
      <4> QED BY <2>4, <3>1, <4>2
    <3>3. StoredPcs(s[k]) \subseteq Successors(s[k])
      BY <3>2, SingleTarget
    <3>4. Named(s[k]) \subseteq 0..MaxPc
      BY <1>7, <2>3, <2>9, <3>1, <3>3 DEF Named
    <3> QED BY <2>3, <2>5, <3>1, <3>2, <3>4
  <2>12. FunctionSound(s, Label(f, 0))
    BY <2>7, <2>8, <2>9, <2>10, <2>11 DEF FunctionSound
  <2> QED BY <2>8, <2>12 DEF s, n
<1>10. \A f \in Funcs : f \notin HasBlocks => bs(f) = <<>>
  <2> SUFFICES ASSUME NEW f \in Funcs, f \notin HasBlocks  PROVE bs(f) = <<>>
    OBVIOUS
  <2>1. source.funcs[f] = <<>>
    BY DEF HasBlocks
  <2> QED BY <2>1
<1> HIDE DEF bs
<1>11. blocks' # <<>> /\ DOMAIN blocks' = Funcs
  <2>1. DOMAIN blocks' = Funcs /\ Funcs # {}
    BY <1>1, <1>2
  <2> QED BY <2>1
<1>12. \A f \in Funcs : blocks'[f] = bs(f)
  BY <1>1
<1>13. BlocksSound'
  BY <1>3, <1>9, <1>10, <1>11, <1>12 DEF BlocksSound
<1>14. entries' = [f \in Funcs |-> IF f \in HasBlocks THEN Label(f, 0) ELSE 0]
  BY <1>1 DEF HasBlocks
<1>15. LayoutInv'
  BY <1>1, <1>3, <1>11, <1>13, <1>14 DEF LayoutInv, Paged, Phases
<1>16. ASSUME BlocksFit, NEW f \in HasBlocks  PROVE FunctionClosed(bs(f), Label(f, 0))
  <2> DEFINE s == bs(f)
             n == Len(source.funcs[f])
  <2>1. n <= PC_STRIDE /\ n \in Nat /\ f \in Nat \ {0}
    BY <1>2, <1>4, <1>16 DEF BlocksFit, Funcs
  <2>2. Ids(s) = {Label(f, m) : m \in 0..(n - 1)}
    BY <1>9
  <2>3. DOMAIN s = DOMAIN source.funcs[f]
    BY DEF bs
  <2>4. \A k \in DOMAIN s : /\ Successors(s[k]) \subseteq {Label(f, m) : m \in 0..(n - 1)} \cup EntryPcs
                            /\ ToSet(s[k].term.callee) \subseteq EntryPcs
    BY <1>8, <2>3
  <2>5. Ids(s) \cap EntryPcs \subseteq {Label(f, 0)}
    <3> SUFFICES ASSUME NEW m \in 0..(n - 1), NEW g \in HasBlocks, Label(f, m) = Label(g, 0)
                 PROVE  Label(g, 0) = Label(f, 0)
      BY <2>2 DEF EntryPcs
    <3>1. g \in Nat \ {0} /\ m \in 0..(PC_STRIDE - 1)
      BY <1>2, <1>4, <2>1
    <3>2. f = g
      BY <1>2, <2>1, <3>1, LabelsApart
    <3> QED BY <3>2
  <2> HIDE DEF s, n
  <2> QED BY <2>2, <2>4, <2>5 DEF FunctionClosed, s
<1>17. BlocksFit => Closed'
  BY <1>1, <1>2, <1>3, <1>12, <1>16 DEF Closed, FunctionClosed
<1> QED BY <1>15, <1>17

-----------------------------------------------------------------------------
(* opt8::run *)

(* The blocks in the order in which they get their pcs. *)
LEMMA OrderFacts ==
    ASSUME source \in Programs, BlocksSound, blocks # <<>>
    PROVE  /\ IsSequence(Order)
           /\ \A n \in DOMAIN Order : \E f \in HasBlocks : \E k \in DOMAIN blocks[f] :
                 Order[n].fn = f /\ Order[n].block = blocks[f][k]
           /\ \A f \in HasBlocks : \A k \in DOMAIN blocks[f] :
                 \E n \in DOMAIN Order : Order[n].block = blocks[f][k]
<1> DEFINE row(f) == [k \in DOMAIN blocks[f] |-> [fn |-> f, block |-> blocks[f][k]]]
           ss == [f \in DOMAIN blocks |-> row(f)]
<1>1. /\ DOMAIN blocks = Funcs
      /\ \A f \in Funcs : IF f \in HasBlocks THEN FunctionSound(blocks[f], Label(f, 0))
                                             ELSE blocks[f] = <<>>
  BY DEF BlocksSound
<1>2. /\ Funcs = 1..Len(source.funcs) /\ Len(source.funcs) \in Nat /\ HasBlocks \subseteq Funcs
  BY SourceFacts
<1>3. \A f \in Funcs : IsSequence(row(f)) /\ DOMAIN row(f) = DOMAIN blocks[f]
  <2> SUFFICES ASSUME NEW f \in Funcs  PROVE IsSequence(row(f)) /\ DOMAIN row(f) = DOMAIN blocks[f]
    OBVIOUS
  <2>1. DOMAIN blocks[f] = 1..Len(blocks[f]) /\ Len(blocks[f]) \in Nat
    <3>1. CASE f \in HasBlocks
      BY <1>1, <3>1, SequenceFacts DEF FunctionSound
    <3>2. CASE f \notin HasBlocks
      <4>1. blocks[f] = <<>>
        BY <1>1, <3>2
      <4> QED BY <4>1
    <3> QED BY <3>1, <3>2
  <2> DEFINE r == row(f)
  <2>2. DOMAIN r = DOMAIN blocks[f] /\ r = [k \in 1..Len(blocks[f]) |-> r[k]]
    BY <2>1
  <2> HIDE DEF r
  <2>3. IsSequence(r)
    BY <2>1, <2>2, BuiltSequence
  <2> QED BY <2>2, <2>3 DEF r
<1>4. ss = [f \in 1..Len(source.funcs) |-> ss[f]] /\ DOMAIN ss = Funcs
  BY <1>1, <1>2
<1>5. Order = FlattenSeq(ss)
  BY DEF Order
<1>6. \A f \in Funcs : ss[f] = row(f)
  BY <1>1
<1> HIDE DEF ss
<1>7. IsSequence(ss)
  BY <1>2, <1>4, BuiltSequence
<1>8. \A f \in DOMAIN ss : IsSequence(ss[f])
  BY <1>3, <1>4, <1>6
<1> DEFINE r == FlattenSeq(ss)
<1>9. /\ IsSequence(r)
      /\ \A k \in DOMAIN r : \E n \in DOMAIN ss : \E g \in DOMAIN ss[n] : r[k] = ss[n][g]
      /\ \A n \in DOMAIN ss : \A g \in DOMAIN ss[n] : \E k \in DOMAIN r : r[k] = ss[n][g]
  BY <1>7, <1>8, FlattenFacts
<1> HIDE DEF r
<1>10. \A f \in Funcs : \A k \in DOMAIN ss[f] :
          f \in HasBlocks /\ k \in DOMAIN blocks[f] /\ ss[f][k].fn = f /\ ss[f][k].block = blocks[f][k]
  <2> SUFFICES ASSUME NEW f \in Funcs, NEW k \in DOMAIN ss[f]
               PROVE  /\ f \in HasBlocks /\ k \in DOMAIN blocks[f]
                      /\ ss[f][k].fn = f /\ ss[f][k].block = blocks[f][k]
    OBVIOUS
  <2>1. k \in DOMAIN blocks[f] /\ ss[f] = row(f)
    BY <1>3, <1>6
  <2>2. blocks[f] # <<>>
    BY <2>1
  <2>3. f \in HasBlocks
    BY <1>1, <2>2
  <2>4. ss[f][k] = [fn |-> f, block |-> blocks[f][k]]
    BY <2>1
  <2> QED BY <2>1, <2>3, <2>4
<1>11. \A n \in DOMAIN r : \E f \in HasBlocks : \E k \in DOMAIN blocks[f] :
          r[n].fn = f /\ r[n].block = blocks[f][k]
  <2> SUFFICES ASSUME NEW n \in DOMAIN r
               PROVE  \E f \in HasBlocks : \E k \in DOMAIN blocks[f] :
                         r[n].fn = f /\ r[n].block = blocks[f][k]
    OBVIOUS
  <2>1. PICK f \in DOMAIN ss : \E k \in DOMAIN ss[f] : r[n] = ss[f][k]
    BY <1>9
  <2>2. PICK k \in DOMAIN ss[f] : r[n] = ss[f][k]
    BY <2>1
  <2>3. f \in HasBlocks /\ k \in DOMAIN blocks[f] /\ ss[f][k].fn = f /\ ss[f][k].block = blocks[f][k]
    BY <1>4, <1>10
  <2>4. r[n].fn = f /\ r[n].block = blocks[f][k]
    BY <2>2, <2>3
  <2> QED BY <2>3, <2>4
<1>12. ASSUME NEW f \in HasBlocks, NEW k \in DOMAIN blocks[f]
       PROVE  \E n \in DOMAIN r : r[n].block = blocks[f][k]
  <2>1. f \in DOMAIN ss /\ k \in DOMAIN ss[f]
    BY <1>2, <1>3, <1>4, <1>6
  <2>2. PICK n \in DOMAIN r : r[n] = ss[f][k]
    BY <1>9, <2>1
  <2>3. ss[f][k].block = blocks[f][k]
    BY <1>4, <1>10, <2>1
  <2>4. r[n].block = blocks[f][k]
    BY <2>2, <2>3
  <2> QED BY <2>4
<1> QED BY <1>5, <1>9, <1>11, <1>12 DEF r

(* Nothing is numbered yet when schedule() begins. *)
LEMMA NothingLaid ==
    ASSUME source \in Programs, BlocksSound, blocks # <<>>, laid = <<>>
    PROVE  LaidSound
<1>1. Len(Order) \in Nat
  BY OrderFacts, SequenceFacts
<1>2. IsSequence(laid) /\ Len(laid) = 0 /\ DOMAIN laid = {}
  <2>1. <<>> \in Seq({}) /\ Len(<<>>) = 0 /\ DOMAIN <<>> = {}
    OBVIOUS
  <2> QED BY <2>1, SequenceOf
<1> QED BY <1>1, <1>2 DEF LaidSound

(* The loop of opt8::run touches no block.                                 *)
LEMMA LoopStep ==
    ASSUME LayoutInv, BeginRound \/ EndRound
    PROVE  LayoutInv' /\ (Closed => Closed')
<1>1. /\ phase = "opt" /\ phase' \in {"opt", "layout"}
      /\ UNCHANGED <<source, blocks, entries, laid, cycles, start>>
      /\ pass' \in 0..(PASSES + 1) /\ changed' \in BOOLEAN /\ rounds' \in 0..MAX_OPT_RUN_ITERS
  <2>1. MAX_OPT_RUN_ITERS \in Nat
    BY LayoutAssumption
  <2>2. CASE BeginRound
    <3>1. /\ phase = "opt" /\ pass = 0 /\ UNCHANGED <<source, blocks, entries, laid, cycles, start>>
          /\ changed \in BOOLEAN /\ rounds \in 0..MAX_OPT_RUN_ITERS
          /\ pass \in 0..(PASSES + 1)
      BY <2>2 DEF BeginRound, LayoutInv
    <3>2. CASE rounds < MAX_OPT_RUN_ITERS /\ blocks \notin seen
      <4>1. rounds' = rounds + 1 /\ pass' = 1 /\ changed' = FALSE /\ phase' = phase
        BY <2>2, <3>2 DEF BeginRound
      <4>2. changed' \in BOOLEAN
        BY <4>1
      <4>3. rounds' \in 0..MAX_OPT_RUN_ITERS /\ pass' \in 0..(PASSES + 1)
        <5>1. rounds \in 0..MAX_OPT_RUN_ITERS /\ rounds' = rounds + 1 /\ pass' = 1
          BY <3>1, <4>1
        <5> QED BY <2>1, <3>2, <5>1 DEF PASSES
      <4> QED BY <3>1, <4>1, <4>2, <4>3
    <3>3. CASE ~(rounds < MAX_OPT_RUN_ITERS /\ blocks \notin seen)
      <4>1. phase' = "layout" /\ pass' = pass /\ changed' = changed /\ rounds' = rounds
        BY <2>2, <3>3 DEF BeginRound, optVars
      <4> QED BY <3>1, <4>1
    <3> QED BY <3>2, <3>3
  <2>3. CASE EndRound
    BY <2>1, <2>3 DEF EndRound, LayoutInv, PASSES
  <2> QED BY <2>2, <2>3
<1>2. HasBlocks' = HasBlocks /\ Funcs' = Funcs /\ EntryPcs' = EntryPcs
  BY <1>1 DEF HasBlocks, Funcs, EntryPcs
<1>3. BlocksSound'
  BY <1>1, <1>2 DEF BlocksSound, LayoutInv
<1>4. LaidSound'
  <2>1. LaidSound
    BY <1>1, NothingLaid DEF LayoutInv
  <2>2. Order' = Order
    BY <1>1 DEF Order
  <2> QED BY <1>1, <2>1, <2>2 DEF LaidSound
<1>5. LayoutInv'
  BY <1>1, <1>2, <1>3, <1>4 DEF LayoutInv, Paged, Phases
<1>6. ASSUME Closed  PROVE Closed'
  BY <1>1, <1>2, <1>6 DEF Closed, FunctionClosed
<1> QED BY <1>5, <1>6

(* A step of opt8::run keeps every function sound and closed.              *)
LEMMA OptimiseStep ==
    ASSUME LayoutInv, Optimise
    PROVE  LayoutInv' /\ (Closed => Closed')
<1>1. CASE BeginRound
  BY <1>1, LoopStep
<1>2. CASE EndRound
  BY <1>2, LoopStep
<1>3. CASE Pass(1, [f \in DOMAIN blocks |-> SimplifyTerms(blocks[f], entries[f])])
  <2> DEFINE new == [f \in DOMAIN blocks |-> SimplifyTerms(blocks[f], entries[f])]
  <2>1. \A f \in DOMAIN blocks : new[f] = SimplifyTerms(blocks[f], entries[f])
    OBVIOUS
  <2>2. new = [f \in DOMAIN blocks |-> new[f]] /\ 1 \in 1..PASSES
    BY DEF PASSES
  <2> HIDE DEF new
  <2>3. \A f \in DOMAIN blocks : /\ blocks[f] = <<>> => new[f] = <<>>
                                 /\ Len(blocks[f]) \in Nat => Keeps(blocks[f], new[f], entries[f])
    BY <2>1, EmptyPasses, SimplifyKeeps
  <2>4. Pass(1, new)
    BY <1>3 DEF new
  <2> QED BY <2>2, <2>3, <2>4, PassStep
<1>4. CASE Pass(2, [f \in DOMAIN blocks |-> PredicatePutchars(blocks[f], entries[f])])
  <2> DEFINE new == [f \in DOMAIN blocks |-> PredicatePutchars(blocks[f], entries[f])]
  <2>1. \A f \in DOMAIN blocks : new[f] = PredicatePutchars(blocks[f], entries[f])
    OBVIOUS
  <2>2. new = [f \in DOMAIN blocks |-> new[f]] /\ 2 \in 1..PASSES
    BY DEF PASSES
  <2> HIDE DEF new
  <2>3. \A f \in DOMAIN blocks : /\ blocks[f] = <<>> => new[f] = <<>>
                                 /\ Len(blocks[f]) \in Nat => Keeps(blocks[f], new[f], entries[f])
    BY <2>1, EmptyPasses, PredicateKeeps
  <2>4. Pass(2, new)
    BY <1>4 DEF new
  <2> QED BY <2>2, <2>3, <2>4, PassStep
<1>5. CASE Pass(3, [f \in DOMAIN blocks |-> ThreadGotos(blocks[f], entries[f])])
  <2> DEFINE new == [f \in DOMAIN blocks |-> ThreadGotos(blocks[f], entries[f])]
  <2>1. \A f \in DOMAIN blocks : new[f] = ThreadGotos(blocks[f], entries[f])
    OBVIOUS
  <2>2. new = [f \in DOMAIN blocks |-> new[f]] /\ 3 \in 1..PASSES
    BY DEF PASSES
  <2> HIDE DEF new
  <2>3. \A f \in DOMAIN blocks : /\ blocks[f] = <<>> => new[f] = <<>>
                                 /\ Len(blocks[f]) \in Nat => Keeps(blocks[f], new[f], entries[f])
    BY <2>1, EmptyPasses, ThreadKeeps
  <2>4. Pass(3, new)
    BY <1>5 DEF new
  <2> QED BY <2>2, <2>3, <2>4, PassStep
<1>6. CASE Pass(4, [f \in DOMAIN blocks |-> DropDead(blocks[f], entries[f])])
  <2> DEFINE new == [f \in DOMAIN blocks |-> DropDead(blocks[f], entries[f])]
  <2>1. \A f \in DOMAIN blocks : new[f] = DropDead(blocks[f], entries[f])
    OBVIOUS
  <2>2. new = [f \in DOMAIN blocks |-> new[f]] /\ 4 \in 1..PASSES
    BY DEF PASSES
  <2> HIDE DEF new
  <2>3. \A f \in DOMAIN blocks : /\ blocks[f] = <<>> => new[f] = <<>>
                                 /\ Len(blocks[f]) \in Nat => Keeps(blocks[f], new[f], entries[f])
    BY <2>1, EmptyPasses, DeadKeeps
  <2>4. Pass(4, new)
    BY <1>6 DEF new
  <2> QED BY <2>2, <2>3, <2>4, PassStep
<1>7. CASE Pass(5, [f \in DOMAIN blocks |-> DropUnreachable(blocks[f], entries[f])])
  <2> DEFINE new == [f \in DOMAIN blocks |-> DropUnreachable(blocks[f], entries[f])]
  <2>1. \A f \in DOMAIN blocks : new[f] = DropUnreachable(blocks[f], entries[f])
    OBVIOUS
  <2>2. new = [f \in DOMAIN blocks |-> new[f]] /\ 5 \in 1..PASSES
    BY DEF PASSES
  <2> HIDE DEF new
  <2>3. \A f \in DOMAIN blocks : /\ blocks[f] = <<>> => new[f] = <<>>
                                 /\ Len(blocks[f]) \in Nat => Keeps(blocks[f], new[f], entries[f])
    BY <2>1, EmptyPasses, UnreachableKeeps
  <2>4. Pass(5, new)
    BY <1>7 DEF new
  <2> QED BY <2>2, <2>3, <2>4, PassStep
<1>8. CASE Pass(6, [f \in DOMAIN blocks |-> Coalesce(blocks[f], entries[f])])
  <2> DEFINE new == [f \in DOMAIN blocks |-> Coalesce(blocks[f], entries[f])]
  <2>1. \A f \in DOMAIN blocks : new[f] = Coalesce(blocks[f], entries[f])
    OBVIOUS
  <2>2. new = [f \in DOMAIN blocks |-> new[f]] /\ 6 \in 1..PASSES
    BY DEF PASSES
  <2> HIDE DEF new
  <2>3. \A f \in DOMAIN blocks : /\ blocks[f] = <<>> => new[f] = <<>>
                                 /\ Len(blocks[f]) \in Nat => Keeps(blocks[f], new[f], entries[f])
    BY <2>1, EmptyPasses, CoalesceKeeps
  <2>4. Pass(6, new)
    BY <1>8 DEF new
  <2> QED BY <2>2, <2>3, <2>4, PassStep
<1> QED BY <1>1, <1>2, <1>3, <1>4, <1>5, <1>6, <1>7, <1>8 DEF Optimise

-----------------------------------------------------------------------------
(* schedule(): cutting and numbering *)

LEMMA SubSeqFacts ==
    ASSUME NEW s, IsSequence(s), NEW m \in Nat \ {0}, NEW n \in Nat, n <= Len(s)
    PROVE  LET r == SubSeq(s, m, n)
           IN  IsSequence(r) /\ \A k \in DOMAIN r : m + k - 1 \in DOMAIN s /\ r[k] = s[m + k - 1]
<1> DEFINE S == ToSet(s)
           r == SubSeq(s, m, n)
<1>1. s \in Seq(S) /\ DOMAIN s = 1..Len(s) /\ Len(s) \in Nat
  BY SequenceFacts
<1> HIDE DEF S
<1>2. r \in Seq(S) /\ Len(r) = (IF m <= n THEN n - m + 1 ELSE 0)
  BY <1>1
<1>3. \A k \in 1..(n - m + 1) : r[k] = s[m + k - 1]
  BY <1>1
<1> HIDE DEF r
<1>4. IsSequence(r) /\ DOMAIN r = 1..Len(r)
  BY <1>2, SequenceOf
<1>5. ASSUME NEW k \in DOMAIN r  PROVE m + k - 1 \in DOMAIN s /\ r[k] = s[m + k - 1]
  <2>1. k \in 1..(n - m + 1)
    BY <1>2, <1>4
  <2> QED BY <1>1, <1>3, <2>1
<1> QED BY <1>4, <1>5 DEF r

(* A block with ops has at least one cycle.                                *)
LEMMA RoundsUp ==
    ASSUME NEW l \in Nat \ {0}, NEW w \in Nat \ {0}
    PROVE  (l + w - 1) \div w \in Nat \ {0}
OBVIOUS

(* The pieces of a cut store what the block stores, and there is at least  *)
(* one.                                                                    *)
LEMMA OpsCut ==
    ASSUME NEW ops, IsOps(ops), NEW w \in Nat \ {0}
    PROVE  LET cut == Cut(ops, w)
           IN  /\ IsSequence(cut) /\ Len(cut) \in Nat \ {0} /\ DOMAIN cut = 1..Len(cut)
               /\ \A g \in DOMAIN cut : IsOps(cut[g]) /\ StoredIn(cut[g]) \subseteq StoredIn(ops)
<1> DEFINE cut == Cut(ops, w)
           l == Len(ops)
           n == (l + w - 1) \div w
<1>1. IsSequence(ops) /\ DOMAIN ops = 1..l /\ l \in Nat
  BY SequenceFacts DEF IsOps
<1>2. CASE ops = <<>>
  <2>1. cut = << <<>> >>
    BY <1>2 DEF Cut
  <2>2. Len(<< <<>> >>) = 1 /\ DOMAIN << <<>> >> = 1..1 /\ << <<>> >> \in Seq({<<>>})
    OBVIOUS
  <2>3. IsSequence(<< <<>> >>)
    BY <2>2, SequenceOf
  <2>4. \A g \in 1..1 : << <<>> >>[g] = ops
    BY <1>2
  <2>5. \A g \in DOMAIN cut : cut[g] = ops
    BY <2>1, <2>2, <2>4
  <2> HIDE DEF cut
  <2> QED BY <2>1, <2>2, <2>3, <2>5 DEF cut
<1>3. CASE ops # <<>>
  <2>1. l # 0
    <3>1. ops \in Seq(ToSet(ops))
      BY <1>1, SequenceFacts
    <3> QED BY <1>3, <3>1
  <2>2. n \in Nat \ {0}
    <3> HIDE DEF l
    <3> QED BY <1>1, <2>1, RoundsUp
  <2>3. cut = [g \in 1..n |-> SubSeq(ops, (g - 1) * w + 1, Min({g * w, l}))]
    BY <1>3 DEF Cut
  <2> HIDE DEF cut, n, l
  <2>4. cut = [g \in 1..n |-> cut[g]]
    BY <2>3
  <2>5. IsSequence(cut) /\ Len(cut) = n /\ DOMAIN cut = 1..n
    BY <2>2, <2>4, BuiltSequence
  <2>6. ASSUME NEW g \in DOMAIN cut
        PROVE  IsOps(cut[g]) /\ StoredIn(cut[g]) \subseteq StoredIn(ops)
    <3> DEFINE a == (g - 1) * w + 1
               b == Min({g * w, l})
               r == cut[g]
    <3>1. a \in Nat \ {0} /\ g * w \in Nat
      BY <2>2, <2>5
    <3>2. b \in Nat /\ b <= l
      <4> DEFINE x == g * w
      <4>1. x \in Nat /\ l \in Nat
        BY <1>1, <3>1
      <4> HIDE DEF x
      <4>2. \E y \in {x, l} : \A z \in {x, l} : y <= z
        BY <4>1
      <4>3. Min({x, l}) \in {x, l} /\ \A z \in {x, l} : Min({x, l}) <= z
        BY <4>2 DEF Min
      <4> QED BY <4>1, <4>3 DEF x
    <3>3. r = SubSeq(ops, a, b)
      BY <2>3, <2>5
    <3> HIDE DEF a, b, r
    <3>4. IsSequence(r) /\ \A k \in DOMAIN r : a + k - 1 \in DOMAIN ops /\ r[k] = ops[a + k - 1]
      <4>1. l = Len(ops)
        BY DEF l
      <4> QED BY <1>1, <3>1, <3>2, <3>3, <4>1, SubSeqFacts
    <3>5. IsOps(r)
      BY <3>4 DEF IsOps
    <3>6. StoredIn(r) \subseteq StoredIn(ops)
      BY <3>4 DEF StoredIn
    <3> QED BY <3>5, <3>6 DEF r
  <2> QED BY <2>2, <2>5, <2>6 DEF cut
<1> QED BY <1>2, <1>3

(* The number of cycles a function has so far is a number.                 *)
LEMMA UsedFacts ==
    ASSUME IsSequence(laid), \A n \in DOMAIN laid : Len(laid[n].cut) \in Nat, NEW f
    PROVE  Used(f) \in Nat
<1> DEFINE N == Len(laid)
           more(n) == IF laid[n].fn = f THEN Len(laid[n].cut) ELSE 0
           G == [x \in (1..N) \X Nat |-> x[2] + more(x[1])]
           Eq(h) == h = [n \in 0..N |-> IF n = 0 THEN 0 ELSE h[n - 1] + more(n)]
           used == CHOOSE h : Eq(h)
<1>1. Used(f) = used[N]
  BY DEF Used
<1>2. N \in Nat /\ DOMAIN laid = 1..N
  BY SequenceFacts
<1>3. \A n \in 1..N : more(n) \in Nat
  BY <1>2
<1> HIDE DEF N, more
<1>4. PICK h \in [0..N -> Nat] : Iterates(h, 0, G, N)
  <2>1. G \in [(1..N) \X Nat -> Nat]
    BY <1>3
  <2> HIDE DEF G
  <2> QED BY <1>2, <2>1, BoundedRecursion
<1>5. Eq(h)
  <2>1. \A n \in 1..N : n - 1 \in 0..N /\ h[n - 1] \in Nat
    BY <1>2
  <2>2. \A n \in 1..N : h[n] = h[n - 1] + more(n)
    <3> SUFFICES ASSUME NEW n \in 1..N  PROVE h[n] = h[n - 1] + more(n)
      OBVIOUS
    <3>1. G[<<n, h[n - 1]>>] = h[n - 1] + more(n)
      BY <2>1
    <3> HIDE DEF G
    <3> QED BY <1>4, <3>1 DEF Iterates
  <2>3. h[0] = 0
    <3> HIDE DEF G
    <3> QED BY <1>4 DEF Iterates
  <2>4. \A n \in 0..N : h[n] = IF n = 0 THEN 0 ELSE h[n - 1] + more(n)
    <3>1. \A n \in 0..N : n = 0 \/ n \in 1..N
      BY <1>2
    <3> HIDE DEF G
    <3> QED BY <2>2, <2>3, <3>1
  <2> HIDE DEF G
  <2> QED BY <2>4
<1>6. Eq(used)
  <2> HIDE DEF Eq
  <2> QED BY <1>5
<1> HIDE DEF used, G
<1> DEFINE P == {n \in Nat : n <= N => used[n] \in Nat}
<1>7. used[0] = 0 /\ \A n \in Nat : n + 1 <= N => used[n + 1] = used[n] + more(n + 1) /\ n + 1 \in 1..N
  <2>1. \A n \in 0..N : used[n] = IF n = 0 THEN 0 ELSE used[n - 1] + more(n)
    BY <1>6
  <2>2. 0 \in 0..N /\ \A n \in Nat : n + 1 <= N => n + 1 \in 0..N /\ n + 1 \in 1..N /\ n + 1 # 0 /\ (n + 1) - 1 = n
    BY <1>2
  <2> HIDE DEF Eq
  <2> QED BY <2>1, <2>2
<1> HIDE DEF Eq
<1>8. 0 \in P
  BY <1>7
<1>9. ASSUME NEW n \in Nat, n \in P  PROVE n + 1 \in P
  <2> SUFFICES ASSUME n + 1 <= N  PROVE used[n + 1] \in Nat
    OBVIOUS
  <2>1. used[n] \in Nat /\ more(n + 1) \in Nat /\ used[n + 1] = used[n] + more(n + 1)
    BY <1>2, <1>3, <1>7, <1>9
  <2> QED BY <2>1
<1>10. Nat \subseteq P
  <2> HIDE DEF P
  <2> QED BY <1>8, <1>9, NatInduct
<1> QED BY <1>1, <1>2, <1>10

(* What is known of the blocks while they are numbered.                    *)
LEMMA ScheduledFacts ==
    ASSUME LayoutInv, phase = "layout"
    PROVE  /\ source \in Programs /\ blocks # <<>> /\ BlocksSound /\ LaidSound
           /\ IsSequence(Order) /\ DOMAIN Order = 1..Len(Order) /\ Len(Order) \in Nat
           /\ \A n \in DOMAIN Order :
                 /\ Order[n].fn \in Nat \ {0} /\ IsBlock(Order[n].block)
                 /\ Order[n].block.id \in 0..MaxPc
<1>1. source \in Programs /\ blocks # <<>> /\ BlocksSound /\ LaidSound
  BY DEF LayoutInv
<1>2. IsSequence(Order) /\ DOMAIN Order = 1..Len(Order) /\ Len(Order) \in Nat
  BY <1>1, OrderFacts, SequenceFacts
<1>3. ASSUME NEW n \in DOMAIN Order
      PROVE  /\ Order[n].fn \in Nat \ {0} /\ IsBlock(Order[n].block)
             /\ Order[n].block.id \in 0..MaxPc
  <2>1. PICK f \in HasBlocks : \E k \in DOMAIN blocks[f] :
                Order[n].fn = f /\ Order[n].block = blocks[f][k]
    BY <1>1, OrderFacts
  <2>2. PICK k \in DOMAIN blocks[f] : Order[n].fn = f /\ Order[n].block = blocks[f][k]
    BY <2>1
  <2>3. f \in Nat \ {0} /\ f \in Funcs
    BY <1>1, SourceFacts
  <2>4. FunctionSound(blocks[f], Label(f, 0))
    BY <1>1, <2>3 DEF BlocksSound
  <2>5. IsBlock(blocks[f][k]) /\ blocks[f][k].id \in 0..MaxPc
    BY <2>4 DEF FunctionSound
  <2> QED BY <2>2, <2>3, <2>5
<1> QED BY <1>1, <1>2, <1>3

(* What is known of a block that has been numbered.                        *)
LEMMA LaidFacts ==
    ASSUME LayoutInv, phase = "layout", NEW n \in DOMAIN laid
    PROVE  LET l == laid[n]
           IN  /\ n \in DOMAIN Order /\ l.block = Order[n].block
               /\ IsBlock(l.block) /\ l.block.id \in 0..MaxPc
               /\ IsSequence(l.cut) /\ Len(l.cut) \in Nat \ {0} /\ DOMAIN l.cut = 1..Len(l.cut)
               /\ \A g \in DOMAIN l.cut : IsOps(l.cut[g]) /\ StoredIn(l.cut[g]) \subseteq StoredIn(l.block.ops)
               /\ l.pcs \in [DOMAIN l.cut -> 0..MaxPc]
<1> DEFINE b == laid[n].block
           cut == laid[n].cut
<1>1. LaidSound /\ DOMAIN Order = 1..Len(Order) /\ Len(Order) \in Nat
  BY ScheduledFacts
<1>2. DOMAIN laid = 1..Len(laid) /\ Len(laid) \in Nat /\ Len(laid) <= Len(Order)
  BY <1>1, SequenceFacts DEF LaidSound
<1>3. n \in DOMAIN Order /\ b = Order[n].block
  BY <1>1, <1>2 DEF LaidSound
<1>4. IsBlock(b) /\ b.id \in 0..MaxPc
  BY <1>3, ScheduledFacts
<1>5. PICK w \in Widths : cut = Cut(b.ops, w)
  BY <1>1 DEF LaidSound
<1>6. w \in Nat \ {0} /\ IsOps(b.ops)
  BY <1>4, LayoutAssumption DEF IsBlock
<1>7. laid[n].pcs \in [DOMAIN cut -> 0..MaxPc]
  BY <1>1 DEF LaidSound
<1> HIDE DEF cut, b
<1>8. /\ IsSequence(cut) /\ Len(cut) \in Nat \ {0} /\ DOMAIN cut = 1..Len(cut)
      /\ \A g \in DOMAIN cut : IsOps(cut[g]) /\ StoredIn(cut[g]) \subseteq StoredIn(b.ops)
  BY <1>5, <1>6, OpsCut
<1> QED BY <1>3, <1>4, <1>7, <1>8 DEF cut, b

(* A cycle's pc is a u16, because the arithmetic wraps.                    *)
LEMMA CyclePcType ==
    ASSUME NEW f \in Nat \ {0}, NEW n \in Nat
    PROVE  CyclePc(f, n) \in 0..MaxPc
<1>1. Label(f, n) \in Nat /\ MaxPc \in Nat
  BY LayoutAssumption, LabelFacts
<1>2. \A x, m \in Nat : x % (m + 1) \in 0..m
  OBVIOUS
<1> QED BY <1>1, <1>2 DEF CyclePc

(* Numbering a block keeps the invariant.                                  *)
LEMMA LayBlockStep ==
    ASSUME LayoutInv, LayBlock
    PROVE  LayoutInv' /\ (Closed => Closed')
<1>1. /\ phase = "layout" /\ Len(laid) < Len(Order)
      /\ UNCHANGED <<source, blocks, entries, pass, changed, rounds, seen, cycles, start>>
  BY DEF LayBlock, optVars
<1>2. HasBlocks' = HasBlocks /\ Funcs' = Funcs /\ EntryPcs' = EntryPcs /\ Order' = Order
  BY <1>1 DEF HasBlocks, Funcs, EntryPcs, Order
<1>3. BlocksSound'
  BY <1>1, <1>2 DEF BlocksSound, LayoutInv
<1> DEFINE next == Order[Len(laid) + 1]
<1>4. PICK w \in Widths :
          LET cut == Cut(next.block.ops, w)
          IN  IF Used(next.fn) + Len(cut) > PC_STRIDE
              THEN phase' = "refused" /\ UNCHANGED laid
              ELSE /\ laid' = Append(laid, [fn |-> next.fn, block |-> next.block, cut |-> cut,
                                 pcs |-> [g \in DOMAIN cut |-> CyclePc(next.fn, Used(next.fn) + g - 1)]])
                   /\ UNCHANGED phase
  BY DEF LayBlock
<1> DEFINE cut == Cut(next.block.ops, w)
           u   == Used(next.fn)
           pcs == [g \in DOMAIN cut |-> CyclePc(next.fn, u + g - 1)]
           l   == [fn |-> next.fn, block |-> next.block, cut |-> cut, pcs |-> pcs]
<1>5. CASE phase' = "refused" /\ UNCHANGED laid
  <2>1. LayoutInv'
    BY <1>1, <1>2, <1>3, <1>5 DEF LayoutInv, Paged, Phases
  <2>2. Closed'
    BY <1>5 DEF Closed
  <2> QED BY <2>1, <2>2
<1>6. CASE laid' = Append(laid, l) /\ UNCHANGED phase
  <2>1. /\ LaidSound /\ IsSequence(Order) /\ DOMAIN Order = 1..Len(Order) /\ Len(Order) \in Nat
    BY <1>1, ScheduledFacts
  <2>2. IsSequence(laid) /\ DOMAIN laid = 1..Len(laid) /\ Len(laid) \in Nat
    BY <2>1, SequenceFacts DEF LaidSound
  <2>3. Len(laid) + 1 \in DOMAIN Order
    BY <1>1, <2>1, <2>2
  <2>4. next.fn \in Nat \ {0} /\ IsBlock(next.block)
    BY <1>1, <2>3, ScheduledFacts
  <2>5. u \in Nat
    <3>1. \A n \in DOMAIN laid : Len(laid[n].cut) \in Nat
      BY <1>1, LaidFacts
    <3> QED BY <2>2, <3>1, UsedFacts
  <2>6. DOMAIN cut = 1..Len(cut) /\ Len(cut) \in Nat
    <3>1. w \in Nat \ {0} /\ IsOps(next.block.ops)
      BY <2>4, LayoutAssumption DEF IsBlock
    <3> HIDE DEF next
    <3> QED BY <3>1, OpsCut
  <2>7. l.block = next.block /\ l.cut = cut /\ l.pcs = pcs
    OBVIOUS
  <2>8. cut = Cut(next.block.ops, w)
    OBVIOUS
  <2>9. pcs \in [DOMAIN cut -> 0..MaxPc]
    <3> HIDE DEF cut, u, next
    <3>1. ASSUME NEW g \in DOMAIN cut  PROVE CyclePc(next.fn, u + g - 1) \in 0..MaxPc
      <4>1. u + g - 1 \in Nat
        BY <2>5, <2>6
      <4> QED BY <2>4, <4>1, CyclePcType
    <3> QED BY <3>1
  <2>10. next.block = Order[Len(laid) + 1].block
    OBVIOUS
  <2> HIDE DEF l, pcs, u, cut, next
  <2>11. /\ IsSequence(laid') /\ Len(laid') = Len(laid) + 1 /\ DOMAIN laid' = 1..(Len(laid) + 1)
         /\ \A k \in DOMAIN laid : laid'[k] = laid[k]
         /\ laid'[Len(laid) + 1] = l
    BY <1>6, <2>2, AppendFacts
  <2>12. ASSUME NEW n \in DOMAIN laid'
         PROVE  /\ laid'[n].block = Order[n].block
                /\ \E v \in Widths : laid'[n].cut = Cut(laid'[n].block.ops, v)
                /\ laid'[n].pcs \in [DOMAIN laid'[n].cut -> 0..MaxPc]
    <3>1. CASE n \in DOMAIN laid
      BY <2>1, <2>11, <3>1 DEF LaidSound
    <3>2. CASE n \notin DOMAIN laid
      <4>1. n = Len(laid) + 1
        BY <2>2, <2>11, <3>2
      <4>2. laid'[n] = l
        BY <2>11, <4>1
      <4> QED BY <2>7, <2>8, <2>9, <2>10, <4>1, <4>2
    <3> QED BY <3>1, <3>2
  <2>13. Len(laid') <= Len(Order)
    BY <1>1, <2>1, <2>2, <2>11
  <2>14. LaidSound'
    BY <1>2, <2>11, <2>12, <2>13 DEF LaidSound
  <2>15. LayoutInv'
    BY <1>1, <1>2, <1>3, <1>6, <2>14 DEF LayoutInv, Paged, Phases
  <2>16. Closed => Closed'
    BY <1>1, <1>2, <1>6 DEF Closed, FunctionClosed
  <2> QED BY <2>15, <2>16
<1> QED BY <1>4, <1>5, <1>6

-----------------------------------------------------------------------------
(* The page: linking and relabelling rename every cycle. *)

LEMMA RenamedCycle ==
    ASSUME NEW ops, IsOps(ops), NEW t, IsTerm(t), NEW map, NEW i
    PROVE  LET c == [id |-> i, ops |-> RenamedOps(ops, map), term |-> RenamedTerm(t, map)]
           IN  /\ IsBlock(c) /\ c.id = i
               /\ \A x \in Named(c) :
                     \E y \in ToSet(t.targets) \cup ToSet(t.callee) \cup StoredIn(ops) : x = map[y]
<1> DEFINE u == RenamedTerm(t, map)
           r == RenamedOps(ops, map)
           c == [id |-> i, ops |-> r, term |-> u]
<1>1. /\ IsTerm(u)
      /\ \A x \in ToSet(u.targets) : \E y \in ToSet(t.targets) : x = map[y]
      /\ \A x \in ToSet(u.callee) : \E y \in ToSet(t.callee) : x = map[y]
  <2>1. u = RenamedTerm(t, map)
    OBVIOUS
  <2> HIDE DEF u
  <2> QED BY ONLY <2>1, IsTerm(t), RenamedTermFacts
<1>2. IsOps(r) /\ StoredIn(r) = {map[y] : y \in StoredIn(ops)}
  BY RenamedOpsFacts
<1> HIDE DEF u, r
<1>3. c.id = i /\ c.ops = r /\ c.term = u /\ c = [id |-> c.id, ops |-> c.ops, term |-> c.term]
  OBVIOUS
<1> HIDE DEF c
<1>4. IsBlock(c)
  BY <1>1, <1>2, <1>3 DEF IsBlock
<1>5. Named(c) = ToSet(u.targets) \cup ToSet(u.callee) \cup StoredIn(r)
  BY <1>3, OpsOf DEF Named, Successors
<1>6. \A x \in Named(c) :
         \E y \in ToSet(t.targets) \cup ToSet(t.callee) \cup StoredIn(ops) : x = map[y]
  BY <1>1, <1>2, <1>5
<1> QED BY <1>3, <1>4, <1>6 DEF c, r, u

(* first_pc_map leads to the first cycle of some block.                    *)
LEMMA FirstPcFacts ==
    ASSUME LayoutInv, phase = "layout", NEW y \in Labels
    PROVE  \E n \in DOMAIN laid : 1 \in DOMAIN laid[n].cut /\ FirstPcMap[y] = laid[n].pcs[1]
<1> DEFINE S == {n \in DOMAIN laid : laid[n].block.id = y}
<1>1. FirstPcMap[y] = laid[Max(S)].pcs[1]
  BY DEF FirstPcMap
<1>2. S \in SUBSET DOMAIN laid /\ S # {}
  BY DEF Labels
<1>3. IsSequence(laid)
  BY DEF LayoutInv, LaidSound
<1> HIDE DEF S
<1>4. Max(S) \in DOMAIN laid
  BY <1>2, <1>3, PickFacts
<1>5. 1 \in DOMAIN laid[Max(S)].cut
  <2>1. DOMAIN laid[Max(S)].cut = 1..Len(laid[Max(S)].cut) /\ Len(laid[Max(S)].cut) \in Nat \ {0}
    BY <1>4, LaidFacts
  <2> QED BY <2>1
<1> QED BY <1>1, <1>4, <1>5

(* The linked cycles of a block name each other or what the map gives.     *)
LEMMA LinkedFacts ==
    ASSUME LayoutInv, phase = "layout", Linkable, NEW n \in DOMAIN laid
    PROVE  LET l  == laid[n]
               ls == Linked(l)
           IN  /\ IsSequence(ls) /\ DOMAIN ls = DOMAIN l.cut
               /\ \A g \in DOMAIN ls :
                     /\ IsBlock(ls[g]) /\ ls[g].id = l.pcs[g] /\ ls[g].id \in 0..MaxPc
                     /\ \A x \in Named(ls[g]) : \/ \E h \in DOMAIN ls : x = l.pcs[h]
                                                \/ \E y \in Labels : x = FirstPcMap[y]
<1> DEFINE l  == laid[n]
           map == FirstPcMap
           ls == Linked(l)
           N == Len(l.cut)
<1>1. /\ IsBlock(l.block) /\ l.block.id \in 0..MaxPc
      /\ IsSequence(l.cut) /\ N \in Nat \ {0} /\ DOMAIN l.cut = 1..N
      /\ \A g \in DOMAIN l.cut : IsOps(l.cut[g]) /\ StoredIn(l.cut[g]) \subseteq StoredIn(l.block.ops)
      /\ l.pcs \in [DOMAIN l.cut -> 0..MaxPc]
  BY LaidFacts
<1>2. Named(l.block) \subseteq Labels
  BY DEF Linkable
<1> DEFINE more(g) == [id |-> l.pcs[g], ops |-> RenamedOps(l.cut[g], map), term |-> Goto(l.pcs[g + 1])]
           last(g) == [id |-> l.pcs[g], ops |-> RenamedOps(l.cut[g], map),
                       term |-> RenamedTerm(l.block.term, map)]
<1>3. /\ DOMAIN ls = DOMAIN l.cut
      /\ \A g \in DOMAIN l.cut : ls[g] = IF g < N THEN more(g) ELSE last(g)
      /\ ls = [g \in 1..N |-> ls[g]]
  BY <1>1 DEF Linked
<1> HIDE DEF ls
<1>4. IsSequence(ls)
  <2> HIDE DEF N
  <2> QED BY <1>1, <1>3, BuiltSequence
<1>5. IsTerm(l.block.term) /\ IsOps(l.block.ops)
  BY <1>1 DEF IsBlock
<1>6. /\ ToSet(l.block.term.targets) \subseteq Labels /\ ToSet(l.block.term.callee) \subseteq Labels
      /\ StoredIn(l.block.ops) \subseteq Labels
  BY <1>2, OpsOf DEF Named, Successors
<1> HIDE DEF map, l, N
<1>7. ASSUME NEW g \in DOMAIN ls
      PROVE  /\ IsBlock(ls[g]) /\ ls[g].id = l.pcs[g] /\ ls[g].id \in 0..MaxPc
             /\ \A x \in Named(ls[g]) : \/ \E h \in DOMAIN ls : x = l.pcs[h]
                                        \/ \E y \in Labels : x = map[y]
  <2>1. l.pcs[g] \in 0..MaxPc /\ IsOps(l.cut[g]) /\ StoredIn(l.cut[g]) \subseteq Labels
    BY <1>1, <1>3, <1>6
  <2>2. CASE g < N
    <3> DEFINE r == RenamedOps(l.cut[g], map)
               t == Goto(l.pcs[g + 1])
               c == more(g)
    <3>1. ls[g] = c /\ g + 1 \in DOMAIN ls
      BY <1>1, <1>3, <2>2
    <3>2. c.id = l.pcs[g] /\ c.ops = r /\ c.term = t /\ c = [id |-> c.id, ops |-> c.ops, term |-> c.term]
      OBVIOUS
    <3>3. IsOps(r) /\ StoredIn(r) = {map[y] : y \in StoredIn(l.cut[g])}
      BY <2>1, RenamedOpsFacts
    <3>4. IsTerm(t) /\ ToSet(t.targets) = {l.pcs[g + 1]} /\ ToSet(t.callee) = {}
      BY GotoFacts
    <3> HIDE DEF c, r, t
    <3>5. IsBlock(c)
      BY <3>2, <3>3, <3>4 DEF IsBlock
    <3>6. Named(c) = {l.pcs[g + 1]} \cup StoredIn(r)
      BY <3>2, <3>4, OpsOf DEF Named, Successors
    <3> QED BY <2>1, <3>1, <3>2, <3>3, <3>5, <3>6
  <2>3. CASE ~(g < N)
    <3> DEFINE c == last(g)
    <3>1. ls[g] = c
      BY <1>3, <2>3
    <3>2. /\ IsBlock(c) /\ c.id = l.pcs[g]
          /\ \A x \in Named(c) :
                \E y \in ToSet(l.block.term.targets) \cup ToSet(l.block.term.callee)
                         \cup StoredIn(l.cut[g]) : x = map[y]
      BY <1>5, <2>1, RenamedCycle
    <3> HIDE DEF c
    <3> QED BY <1>6, <2>1, <3>1, <3>2
  <2> QED BY <2>2, <2>3
<1> QED BY <1>3, <1>4, <1>7 DEF l, map, ls

(* The entry's label is that of a block that has been numbered.            *)
LEMMA EntryLaid ==
    ASSUME LayoutInv, phase = "layout", Len(laid) = Len(Order)
    PROVE  Entry \in Labels /\ Entry = Label(source.entry, 0)
<1>1. source \in Programs /\ blocks # <<>> /\ BlocksSound /\ source.entry \in HasBlocks /\ HasBlocks \subseteq Funcs
  BY SourceFacts DEF LayoutInv
<1>2. Entry = Label(source.entry, 0)
  BY <1>1 DEF LayoutInv, Entry
<1>3. FunctionSound(blocks[source.entry], Label(source.entry, 0))
  BY <1>1 DEF BlocksSound
<1>4. PICK k \in DOMAIN blocks[source.entry] : blocks[source.entry][k].id = Label(source.entry, 0)
  BY <1>3 DEF FunctionSound, Ids
<1>5. PICK n \in DOMAIN Order : Order[n].block = blocks[source.entry][k]
  BY <1>1, OrderFacts
<1>6. DOMAIN laid = DOMAIN Order /\ LaidSound
  <2>1. IsSequence(laid) /\ IsSequence(Order) /\ LaidSound
    BY <1>1, OrderFacts DEF LayoutInv, LaidSound
  <2> QED BY <2>1, SequenceFacts
<1>7. laid[n].block = Order[n].block
  BY <1>6 DEF LaidSound
<1> QED BY <1>2, <1>4, <1>5, <1>6, <1>7 DEF Labels

(* Linking makes a page on which no name is lost, or refuses.              *)
LEMMA LinkStep ==
    ASSUME LayoutInv, Link
    PROVE  LayoutInv' /\ Closed'
<1> DEFINE ss == [n \in DOMAIN laid |-> Linked(laid[n])]
<1>1. /\ phase = "layout" /\ Len(laid) = Len(Order)
      /\ UNCHANGED <<source, blocks, pass, changed, rounds, seen, laid, start>>
  BY DEF Link, optVars
<1>2. HasBlocks' = HasBlocks /\ Funcs' = Funcs
  BY <1>1 DEF HasBlocks, Funcs
<1>3. BlocksSound'
  BY <1>1, <1>2 DEF BlocksSound, LayoutInv
<1>4. CASE ~Linkable
  <2>1. phase' = "refused" /\ UNCHANGED <<cycles, entries>>
    BY <1>4 DEF Link
  <2>2. LayoutInv'
    BY <1>1, <1>2, <1>3, <2>1 DEF LayoutInv, Paged, Phases
  <2> QED BY <2>1, <2>2 DEF Closed
<1>5. CASE Linkable
  <2>1. phase' = "linked" /\ cycles' = FlattenSeq(ss) /\ entries' = Remapped(FirstPcMap)
    BY <1>5 DEF Link
  <2>2. \A n \in DOMAIN laid :
           /\ IsSequence(ss[n]) /\ DOMAIN ss[n] = DOMAIN laid[n].cut
           /\ \A g \in DOMAIN ss[n] :
                 /\ IsBlock(ss[n][g]) /\ ss[n][g].id = laid[n].pcs[g] /\ ss[n][g].id \in 0..MaxPc
                 /\ \A x \in Named(ss[n][g]) : \/ \E h \in DOMAIN ss[n] : x = laid[n].pcs[h]
                                               \/ \E y \in Labels : x = FirstPcMap[y]
    <3> SUFFICES ASSUME NEW n \in DOMAIN laid
                 PROVE  /\ IsSequence(Linked(laid[n])) /\ DOMAIN Linked(laid[n]) = DOMAIN laid[n].cut
                        /\ \A g \in DOMAIN Linked(laid[n]) :
                              LET c == Linked(laid[n])[g]
                              IN  /\ IsBlock(c) /\ c.id = laid[n].pcs[g] /\ c.id \in 0..MaxPc
                                  /\ \A x \in Named(c) : \/ \E h \in DOMAIN Linked(laid[n]) : x = laid[n].pcs[h]
                                                         \/ \E y \in Labels : x = FirstPcMap[y]
      OBVIOUS
    <3> QED BY <1>1, <1>5, LinkedFacts
  <2>3. IsSequence(laid)
    BY <1>1 DEF LayoutInv, LaidSound
  <2>4. DOMAIN ss = DOMAIN laid /\ IsSequence(ss)
    <3>1. DOMAIN laid = 1..Len(laid) /\ Len(laid) \in Nat
      BY <2>3, SequenceFacts
    <3>2. ss = [n \in 1..Len(laid) |-> ss[n]]
      BY <3>1
    <3>3. DOMAIN ss = DOMAIN laid
      OBVIOUS
    <3> HIDE DEF ss
    <3> QED BY <3>1, <3>2, <3>3, BuiltSequence
  <2> HIDE DEF ss
  <2>5. /\ IsSequence(cycles')
        /\ \A k \in DOMAIN cycles' : \E n \in DOMAIN ss : \E g \in DOMAIN ss[n] : cycles'[k] = ss[n][g]
        /\ \A n \in DOMAIN ss : \A g \in DOMAIN ss[n] : \E k \in DOMAIN cycles' : cycles'[k] = ss[n][g]
    BY <2>1, <2>2, <2>4, FlattenFacts
  <2>6. \A n \in DOMAIN laid : \A g \in DOMAIN laid[n].cut : laid[n].pcs[g] \in PageIds'
    <3> SUFFICES ASSUME NEW n \in DOMAIN laid, NEW g \in DOMAIN laid[n].cut
                 PROVE  laid[n].pcs[g] \in PageIds'
      OBVIOUS
    <3>1. PICK k \in DOMAIN cycles' : cycles'[k] = ss[n][g]
      BY <2>2, <2>4, <2>5
    <3>2. cycles'[k].id = laid[n].pcs[g]
      BY <2>2, <3>1
    <3> QED BY <3>2 DEF PageIds
  <2>7. \A y \in Labels : FirstPcMap[y] \in PageIds'
    <3> SUFFICES ASSUME NEW y \in Labels  PROVE FirstPcMap[y] \in PageIds'
      OBVIOUS
    <3>1. PICK n \in DOMAIN laid : 1 \in DOMAIN laid[n].cut /\ FirstPcMap[y] = laid[n].pcs[1]
      BY <1>1, FirstPcFacts
    <3> QED BY <2>6, <3>1
  <2>8. ASSUME NEW k \in DOMAIN cycles'
        PROVE  /\ IsBlock(cycles'[k]) /\ cycles'[k].id \in 0..MaxPc
               /\ Named(cycles'[k]) \subseteq PageIds'
    <3>1. PICK n \in DOMAIN laid : \E g \in DOMAIN ss[n] : cycles'[k] = ss[n][g]
      BY <2>4, <2>5
    <3>2. PICK g \in DOMAIN ss[n] : cycles'[k] = ss[n][g]
      BY <3>1
    <3>3. IsBlock(cycles'[k]) /\ cycles'[k].id \in 0..MaxPc
      BY <2>2, <3>2
    <3>4. ASSUME NEW x \in Named(cycles'[k])  PROVE x \in PageIds'
      <4>1. \/ \E h \in DOMAIN laid[n].cut : x = laid[n].pcs[h]
            \/ \E y \in Labels : x = FirstPcMap[y]
        BY <2>2, <3>2, <3>4
      <4> QED BY <2>6, <2>7, <4>1
    <3> QED BY <3>3, <3>4
  <2>9. DOMAIN entries = Funcs /\ source.entry \in Funcs
    BY <1>1, SourceFacts DEF LayoutInv
  <2>10. DOMAIN entries' = Funcs' /\ Entry' \in PageIds'
    <3>1. Entry \in Labels /\ DOMAIN FirstPcMap = Labels
      BY <1>1, EntryLaid DEF FirstPcMap
    <3>2. entries' = [f \in DOMAIN entries |-> IF entries[f] \in DOMAIN FirstPcMap THEN FirstPcMap[entries[f]]
                                                                                   ELSE entries[f]]
      BY <2>1 DEF Remapped
    <3>3. Entry' = FirstPcMap[Entry]
      BY <1>1, <2>9, <3>1, <3>2 DEF Entry
    <3> QED BY <1>2, <2>7, <2>9, <3>1, <3>2, <3>3
  <2>11. PageSound'
    BY <2>1, <2>5, <2>8, <2>10 DEF PageSound
  <2>12. LayoutInv'
    <3>1. /\ source' \in Programs /\ pass' \in 0..(PASSES + 1) /\ changed' \in BOOLEAN
          /\ rounds' \in 0..MAX_OPT_RUN_ITERS /\ start' = 0
      BY <1>1 DEF LayoutInv
    <3> QED BY <1>3, <2>1, <2>11, <3>1 DEF LayoutInv, Paged, Phases
  <2>13. Closed'
    BY <2>1 DEF Closed
  <2> QED BY <2>12, <2>13
<1> QED BY <1>4, <1>5

(* Sorting loses no cycle and invents none.                                *)
LEMMA ByPcFacts ==
    ASSUME NEW cs, IsSequence(cs), \A k \in DOMAIN cs : cs[k].id \in Nat
    PROVE  LET r == ByPc(cs)
           IN  /\ IsSequence(r)
               /\ \A n \in DOMAIN r : \E k \in DOMAIN cs : r[n] = cs[k]
               /\ \A k \in DOMAIN cs : \E n \in DOMAIN r : r[n] = cs[k]
<1> DEFINE D == DOMAIN cs
           T == [k \in D |-> UpTo(cs, k)]
           rank == [k \in D |-> Cardinality(UpTo(cs, k))]
           r == ByPc(cs)
<1>1. DOMAIN cs = 1..Len(cs) /\ Len(cs) \in Nat /\ IsFiniteSet(D)
  BY SequenceFacts
<1>2. \A k \in D : k \in Nat /\ cs[k].id \in Nat
  BY <1>1
<1>3. \A j, k \in D : j \in T[k] <=> (cs[j].id < cs[k].id \/ (cs[j].id = cs[k].id /\ j <= k))
  BY DEF UpTo
<1>4. T \in [D -> SUBSET D]
  BY DEF UpTo
<1>5. \A k \in D : rank[k] = Cardinality(T[k])
  OBVIOUS
<1>6. rank = [k \in D |-> Cardinality(T[k])]
  OBVIOUS
<1>7. r = Ranked(cs, rank) /\ DOMAIN rank = D
  BY DEF ByPc
<1> HIDE DEF T, rank, r
<1>8. \A k \in D : k \in T[k]
  BY <1>2, <1>3
<1>9. ASSUME NEW j \in D, NEW k \in D, cs[j].id < cs[k].id \/ (cs[j].id = cs[k].id /\ j < k)
      PROVE  T[j] \subseteq T[k] \ {k}
  <2> SUFFICES ASSUME NEW m \in T[j]  PROVE m \in T[k] /\ m # k
    OBVIOUS
  <2>1. m \in D
    BY <1>4
  <2> QED BY <1>2, <1>3, <1>9, <2>1
<1>10. \A j, k \in D : j # k => T[j] \subseteq T[k] \ {k} \/ T[k] \subseteq T[j] \ {j}
  <2> SUFFICES ASSUME NEW j \in D, NEW k \in D, j # k
               PROVE  T[j] \subseteq T[k] \ {k} \/ T[k] \subseteq T[j] \ {j}
    OBVIOUS
  <2>1. \/ cs[j].id < cs[k].id \/ (cs[j].id = cs[k].id /\ j < k)
        \/ cs[k].id < cs[j].id \/ (cs[k].id = cs[j].id /\ k < j)
    BY <1>2
  <2> QED BY <1>9, <2>1
<1>11. rank \in [D -> 1..Cardinality(D)] /\ \A j, k \in D : rank[j] = rank[k] => j = k
  <2> HIDE DEF D
  <2> QED BY <1>1, <1>4, <1>6, <1>8, <1>10, CountFacts
<1>12. /\ IsSequence(r)
       /\ \A n \in DOMAIN r : \E k \in D : rank[k] = n /\ r[n] = cs[k]
       /\ \A k \in D : rank[k] \in DOMAIN r /\ r[rank[k]] = cs[k]
  <2> HIDE DEF D
  <2>1. /\ IsFiniteSet(DOMAIN rank) /\ rank \in [DOMAIN rank -> 1..Cardinality(DOMAIN rank)]
        /\ \A j, k \in DOMAIN rank : rank[j] = rank[k] => j = k
    BY <1>1, <1>7, <1>11
  <2> QED BY <1>7, <2>1, RankedFacts
<1> QED BY <1>12 DEF r

(* Both relabellings rename all names alike.                               *)
LEMMA RelabelStep ==
    ASSUME LayoutInv, phase \in {"linked", "randomized"},
           NEW labels \in Shuffles(Len(cycles)) \cup Sparse(Len(cycles)), Relabel(labels),
           phase' \in {"randomized", "sparse"}
    PROVE  LayoutInv' /\ Closed'
<1> DEFINE remap == [pc \in {cycles[k].id : k \in DOMAIN cycles} |->
                        labels[Max({k \in DOMAIN cycles : cycles[k].id = pc})]]
           cs == [k \in DOMAIN cycles |->
                     [id   |-> remap[cycles[k].id],
                      ops  |-> RenamedOps(cycles[k].ops, remap),
                      term |-> RenamedTerm(cycles[k].term, remap)]]
<1>1. /\ Len(cycles) <= MaxPc /\ cycles' = ByPc(cs) /\ entries' = Remapped(remap)
      /\ UNCHANGED <<source, blocks, pass, changed, rounds, seen, laid, start>>
  BY DEF Relabel, optVars
<1>2. HasBlocks' = HasBlocks /\ Funcs' = Funcs
  BY <1>1 DEF HasBlocks, Funcs
<1>3. BlocksSound'
  BY <1>1, <1>2 DEF BlocksSound, LayoutInv
<1>4. /\ IsSequence(cycles) /\ DOMAIN entries = Funcs /\ Entry \in PageIds
      /\ \A k \in DOMAIN cycles : /\ IsBlock(cycles[k]) /\ cycles[k].id \in 0..MaxPc
                                  /\ Named(cycles[k]) \subseteq PageIds
  BY DEF LayoutInv, Paged, PageSound
<1>5. DOMAIN remap = PageIds
  BY DEF PageIds
<1>6. \A pc \in PageIds : remap[pc] \in 0..MaxPc
  <2> SUFFICES ASSUME NEW pc \in PageIds  PROVE remap[pc] \in 0..MaxPc
    OBVIOUS
  <2> DEFINE S == {k \in DOMAIN cycles : cycles[k].id = pc}
  <2>1. remap[pc] = labels[Max(S)]
    BY DEF PageIds
  <2>2. S \in SUBSET DOMAIN cycles /\ S # {}
    BY DEF PageIds
  <2> HIDE DEF S, remap
  <2>3. Max(S) \in DOMAIN cycles
    BY <1>4, <2>2, PickFacts
  <2>4. DOMAIN cycles = 1..Len(cycles) /\ Len(cycles) \in Nat
    BY <1>4, SequenceFacts
  <2>5. labels \in [1..Len(cycles) -> 0..MaxPc]
    <3>1. MaxPc \in Nat
      BY LayoutAssumption
    <3>2. Len(cycles) \in 0..MaxPc
      BY <1>1, <2>4, <3>1
    <3> QED BY <3>2, LayoutAssumption
  <2> QED BY <2>1, <2>3, <2>4, <2>5
<1>7. \A k \in DOMAIN cycles :
         cs[k] = [id   |-> remap[cycles[k].id],
                  ops  |-> RenamedOps(cycles[k].ops, remap),
                  term |-> RenamedTerm(cycles[k].term, remap)]
  <2> HIDE DEF remap
  <2> QED OBVIOUS
<1>8. DOMAIN cs = DOMAIN cycles /\ IsSequence(cs)
  <2>1. DOMAIN cycles = 1..Len(cycles) /\ Len(cycles) \in Nat
    BY <1>4, SequenceFacts
  <2>2. cs = [k \in 1..Len(cycles) |-> cs[k]] /\ DOMAIN cs = DOMAIN cycles
    <3> HIDE DEF remap
    <3> QED BY <2>1
  <2> HIDE DEF cs
  <2> QED BY <2>1, <2>2, BuiltSequence
<1> HIDE DEF cs, remap
<1>9. ASSUME NEW k \in DOMAIN cycles
      PROVE  /\ IsBlock(cs[k]) /\ cs[k].id = remap[cycles[k].id] /\ cs[k].id \in 0..MaxPc
             /\ \A x \in Named(cs[k]) : \E y \in PageIds : x = remap[y]
  <2>1. IsOps(cycles[k].ops) /\ IsTerm(cycles[k].term) /\ cycles[k].id \in PageIds
    BY <1>4 DEF IsBlock, PageIds
  <2>2. /\ IsBlock(cs[k]) /\ cs[k].id = remap[cycles[k].id]
        /\ \A x \in Named(cs[k]) :
              \E y \in ToSet(cycles[k].term.targets) \cup ToSet(cycles[k].term.callee)
                       \cup StoredIn(cycles[k].ops) : x = remap[y]
    <3> DEFINE ops == cycles[k].ops
               t   == cycles[k].term
               i   == remap[cycles[k].id]
    <3>1. cs[k] = [id |-> i, ops |-> RenamedOps(ops, remap), term |-> RenamedTerm(t, remap)]
      BY <1>7
    <3>2. IsOps(ops) /\ IsTerm(t)
      BY <2>1
    <3> HIDE DEF ops, t, i
    <3>3. /\ IsBlock(cs[k]) /\ cs[k].id = i
          /\ \A x \in Named(cs[k]) :
                \E y \in ToSet(t.targets) \cup ToSet(t.callee) \cup StoredIn(ops) : x = remap[y]
      BY <3>1, <3>2, RenamedCycle
    <3> QED BY <3>3 DEF ops, t, i
  <2>3. /\ ToSet(cycles[k].term.targets) \subseteq PageIds /\ ToSet(cycles[k].term.callee) \subseteq PageIds
        /\ StoredIn(cycles[k].ops) \subseteq PageIds
    BY <1>4, OpsOf DEF Named, Successors
  <2> QED BY <1>6, <2>1, <2>2, <2>3
<1>10. /\ IsSequence(cycles')
       /\ \A n \in DOMAIN cycles' : \E k \in DOMAIN cycles : cycles'[n] = cs[k]
       /\ \A k \in DOMAIN cycles : \E n \in DOMAIN cycles' : cycles'[n] = cs[k]
  <2>1. \A k \in DOMAIN cs : cs[k].id \in Nat
    <3>1. MaxPc \in Nat
      BY LayoutAssumption
    <3>2. \A k \in DOMAIN cs : cs[k].id \in 0..MaxPc
      BY <1>8, <1>9
    <3> QED BY ONLY <3>1, <3>2
  <2> QED BY <1>1, <1>8, <2>1, ByPcFacts
<1>11. \A y \in PageIds : remap[y] \in PageIds'
  <2> SUFFICES ASSUME NEW k \in DOMAIN cycles  PROVE remap[cycles[k].id] \in PageIds'
    BY DEF PageIds
  <2>1. PICK n \in DOMAIN cycles' : cycles'[n] = cs[k]
    BY <1>10
  <2>2. cs[k].id = remap[cycles[k].id]
    BY <1>9
  <2>3. cycles'[n].id = remap[cycles[k].id]
    BY ONLY <2>1, <2>2
  <2> QED BY <2>3 DEF PageIds
<1>12. ASSUME NEW n \in DOMAIN cycles'
       PROVE  /\ IsBlock(cycles'[n]) /\ cycles'[n].id \in 0..MaxPc
              /\ Named(cycles'[n]) \subseteq PageIds'
  <2>1. PICK k \in DOMAIN cycles : cycles'[n] = cs[k]
    BY <1>10
  <2> QED BY <1>9, <1>11, <2>1
<1>13. DOMAIN entries' = Funcs' /\ Entry' \in PageIds'
  <2>1. source.entry \in Funcs
    BY SourceFacts DEF LayoutInv
  <2>2. entries' = [f \in DOMAIN entries |-> IF entries[f] \in DOMAIN remap THEN remap[entries[f]]
                                                                            ELSE entries[f]]
    BY <1>1 DEF Remapped
  <2>3. Entry' = remap[Entry]
    BY <1>1, <1>4, <1>5, <2>1, <2>2 DEF Entry
  <2> QED BY <1>2, <1>4, <1>11, <2>2, <2>3
<1>14. PageSound'
  BY <1>10, <1>12, <1>13 DEF PageSound
<1>15. LayoutInv'
  <2>1. /\ source' \in Programs /\ pass' \in 0..(PASSES + 1) /\ changed' \in BOOLEAN
        /\ rounds' \in 0..MAX_OPT_RUN_ITERS /\ start' = 0
    BY <1>1 DEF LayoutInv
  <2> QED BY <1>3, <1>14, <2>1 DEF LayoutInv, Paged, Phases
<1>16. Closed'
  BY DEF Closed
<1> QED BY <1>15, <1>16

(* A page without its entry cycle still has all that is named.             *)
LEMMA EmitStep ==
    ASSUME LayoutInv, Emit
    PROVE  LayoutInv' /\ Closed'
<1>1. /\ phase \in {"linked", "randomized", "sparse"} /\ phase' = "page"
      /\ UNCHANGED <<source, blocks, entries, pass, changed, rounds, seen, laid>>
  BY DEF Emit, optVars
<1>2. HasBlocks' = HasBlocks /\ Funcs' = Funcs
  BY <1>1 DEF HasBlocks, Funcs
<1>3. BlocksSound'
  BY <1>1, <1>2 DEF BlocksSound, LayoutInv
<1>4. /\ IsSequence(cycles) /\ DOMAIN entries = Funcs /\ Entry \in PageIds
      /\ \A k \in DOMAIN cycles : /\ IsBlock(cycles[k]) /\ cycles[k].id \in 0..MaxPc
                                  /\ Named(cycles[k]) \subseteq PageIds
  BY <1>1 DEF LayoutInv, Paged, PageSound
<1>5. CASE EntryRunsOnce /\ TrivialEntry(EntryCycle)
  <2> DEFINE S == {k \in DOMAIN cycles : cycles[k].id = Entry}
             D == {k \in DOMAIN cycles : cycles[k].id # Entry}
             to == EntryCycle.term.targets[1]
  <2>1. start' = to /\ cycles' = Kept(cycles, D)
    BY <1>5 DEF Emit
  <2>2. PICK e \in DOMAIN cycles : EntryCycle = cycles[e]
    <3>1. S \in SUBSET DOMAIN cycles /\ S # {} /\ EntryCycle = cycles[Min(S)]
      BY <1>4 DEF PageIds, EntryCycle
    <3> HIDE DEF S
    <3>2. Min(S) \in DOMAIN cycles
      BY <1>4, <3>1, PickFacts
    <3> QED BY <3>1, <3>2
  <2>3. to \in PageIds /\ to # Entry
    <3>1. EntryCycle.term.op = "Goto" /\ IsTerm(EntryCycle.term)
      BY <1>4, <1>5, <2>2 DEF TrivialEntry, IsBlock
    <3>2. 1 \in DOMAIN EntryCycle.term.targets
      BY <3>1 DEF IsTerm
    <3>3. to \in Named(EntryCycle)
      BY <3>2 DEF Named, Successors, ToSet
    <3> HIDE DEF to
    <3>4. Entry \notin Named(EntryCycle) /\ Named(EntryCycle) \subseteq PageIds
      BY <1>4, <1>5, <2>2 DEF EntryRunsOnce
    <3> QED BY <3>3, <3>4
  <2>4. D \in SUBSET DOMAIN cycles
    OBVIOUS
  <2>5. \A k \in DOMAIN cycles : k \in D <=> cycles[k].id # Entry
    OBVIOUS
  <2> HIDE DEF D, to
  <2>6. IsSequence(cycles')
    BY <1>4, <2>1, <2>4, KeptFacts
  <2>7. PICK o \in [DOMAIN cycles' -> D] :
           /\ \A n \in DOMAIN cycles' : cycles'[n] = cycles[o[n]]
           /\ \A k \in D : \E n \in DOMAIN cycles' : o[n] = k
    BY <1>4, <2>1, <2>4, KeptFacts
  <2>8. \A x \in PageIds : x # Entry => x \in PageIds'
    <3> SUFFICES ASSUME NEW k \in DOMAIN cycles, cycles[k].id # Entry  PROVE cycles[k].id \in PageIds'
      BY DEF PageIds
    <3>1. PICK n \in DOMAIN cycles' : o[n] = k
      BY <2>5, <2>7
    <3>2. cycles'[n].id = cycles[k].id
      BY <2>7, <3>1
    <3> QED BY <3>2 DEF PageIds
  <2>9. ASSUME NEW n \in DOMAIN cycles'
        PROVE  /\ IsBlock(cycles'[n]) /\ cycles'[n].id \in 0..MaxPc
               /\ Named(cycles'[n]) \subseteq PageIds'
    <3>1. o[n] \in DOMAIN cycles /\ cycles'[n] = cycles[o[n]]
      BY <2>4, <2>7
    <3>2. Entry \notin Named(cycles[o[n]])
      BY <1>5, <3>1 DEF EntryRunsOnce
    <3> QED BY <1>4, <2>8, <3>1, <3>2
  <2>10. start' \in PageIds'
    BY <2>1, <2>3, <2>8
  <2>11. PageSound'
    BY <1>1, <1>2, <1>4, <2>6, <2>9, <2>10 DEF PageSound
  <2> QED BY <1>1, <1>3, <2>11 DEF LayoutInv, Paged, Phases, Closed
<1>6. CASE ~(EntryRunsOnce /\ TrivialEntry(EntryCycle))
  <2>1. start' = Entry /\ cycles' = cycles
    BY <1>6 DEF Emit
  <2>2. PageIds' = PageIds
    BY <2>1 DEF PageIds
  <2>3. PageSound'
    BY <1>1, <1>2, <1>4, <2>1, <2>2 DEF PageSound
  <2> QED BY <1>1, <1>3, <2>3 DEF LayoutInv, Paged, Phases, Closed
<1> QED BY <1>5, <1>6

-----------------------------------------------------------------------------
(* The invariants. *)

LEMMA InitStep ==
    ASSUME Init
    PROVE  LayoutInv /\ Closed
<1>1. MAX_OPT_RUN_ITERS \in Nat
  BY LayoutAssumption
<1>2. 0 \in 0..MAX_OPT_RUN_ITERS /\ 0 \in 0..(PASSES + 1)
  BY <1>1 DEF PASSES
<1> QED BY <1>2 DEF Init, LayoutInv, BlocksSound, Paged, Phases, Closed

(* A refused program has no page.                                          *)
LEMMA RefusedStep ==
    ASSUME LayoutInv, LowerRefused
    PROVE  LayoutInv' /\ Closed'
<1>1. /\ phase = "lower" /\ phase' = "refused"
      /\ UNCHANGED <<source, blocks, entries, pass, changed, rounds, seen, laid, cycles, start>>
  BY DEF LowerRefused, optVars
<1>2. HasBlocks' = HasBlocks /\ Funcs' = Funcs
  BY <1>1 DEF HasBlocks, Funcs
<1>3. BlocksSound'
  BY <1>1, <1>2 DEF BlocksSound, LayoutInv
<1> QED BY <1>1, <1>3 DEF LayoutInv, Paged, Phases, Closed

(* The invariant is inductive.                                             *)
LEMMA NextStep ==
    ASSUME LayoutInv, [Next]_vars
    PROVE  LayoutInv' /\ (Closed /\ BlocksFit => Closed')
<1>1. CASE Lower
  BY <1>1, LowerStep
<1>2. CASE LowerRefused
  BY <1>2, RefusedStep
<1>3. CASE Optimise
  BY <1>3, OptimiseStep
<1>4. CASE LayBlock
  BY <1>4, LayBlockStep
<1>5. CASE Link
  BY <1>5, LinkStep
<1>6. CASE RandomizePcs
  <2>1. /\ phase \in {"linked", "randomized"} /\ phase' \in {"randomized", "sparse"}
        /\ \E labels \in Shuffles(Len(cycles)) \cup Sparse(Len(cycles)) : Relabel(labels)
    BY <1>6 DEF RandomizePcs
  <2> QED BY <2>1, RelabelStep
<1>7. CASE SparsifyPcs
  <2>1. /\ phase \in {"linked", "randomized"} /\ phase' \in {"randomized", "sparse"}
        /\ \E labels \in Shuffles(Len(cycles)) \cup Sparse(Len(cycles)) : Relabel(labels)
    BY <1>7 DEF SparsifyPcs
  <2> QED BY <2>1, RelabelStep
<1>8. CASE Emit
  BY <1>8, EmitStep
<1>9. CASE UNCHANGED vars
  <2>1. UNCHANGED <<source, phase, blocks, entries, pass, changed, rounds, seen, laid, cycles, start>>
    BY <1>9 DEF vars, optVars
  <2>2. /\ HasBlocks' = HasBlocks /\ Funcs' = Funcs /\ EntryPcs' = EntryPcs /\ Order' = Order
        /\ PageIds' = PageIds /\ Entry' = Entry
    BY <2>1 DEF HasBlocks, Funcs, EntryPcs, Order, PageIds, Entry
  <2>3. BlocksSound' = BlocksSound
    BY <2>1, <2>2 DEF BlocksSound
  <2>4. LaidSound' = LaidSound
    BY <2>1, <2>2 DEF LaidSound
  <2>5. PageSound' = PageSound
    BY <2>1, <2>2 DEF PageSound
  <2>6. LayoutInv'
    BY <2>1, <2>2, <2>3, <2>4, <2>5 DEF LayoutInv, Paged
  <2>7. Closed => Closed'
    BY <2>1, <2>2 DEF Closed, FunctionClosed
  <2> QED BY <2>6, <2>7
<1> QED BY <1>1, <1>2, <1>3, <1>4, <1>5, <1>6, <1>7, <1>8, <1>9 DEF Next

(* What the invariant says of the properties. *)
LEMMA BlocksAgree ==
    ASSUME LayoutInv, NEW f \in DOMAIN blocks, NEW k \in DOMAIN blocks[f]
    PROVE  /\ f \in HasBlocks /\ FunctionSound(blocks[f], Label(f, 0))
<1>1. blocks # <<>>
  OBVIOUS
<1>2. /\ DOMAIN blocks = Funcs
      /\ IF f \in HasBlocks THEN FunctionSound(blocks[f], Label(f, 0)) ELSE blocks[f] = <<>>
  BY <1>1 DEF LayoutInv, BlocksSound
<1>3. blocks[f] # <<>>
  OBVIOUS
<1> QED BY <1>2, <1>3

(* The invariant contains TypeOK.                                          *)
LEMMA InvTypes ==
    ASSUME LayoutInv
    PROVE  TypeOK
<1>1. MaxPc \in Nat
  BY LayoutAssumption
<1>2. \A f \in DOMAIN blocks : \A k \in DOMAIN blocks[f] :
         blocks[f][k].id \in 0..MaxPc /\ Named(blocks[f][k]) \subseteq 0..MaxPc
  BY BlocksAgree DEF FunctionSound
<1>3. /\ \A k \in DOMAIN cycles : cycles[k].id \in 0..MaxPc
      /\ start \in 0..MaxPc
  <2>1. CASE Paged
    <3>1. PageSound
      BY <2>1 DEF LayoutInv
    <3>2. \A k \in DOMAIN cycles : cycles[k].id \in 0..MaxPc
      BY <3>1 DEF PageSound
    <3>3. start \in 0..MaxPc
      BY <1>1, <3>1, <3>2 DEF PageSound, PageIds, LayoutInv
    <3> QED BY <3>2, <3>3
  <2>2. CASE ~Paged
    BY <1>1, <2>2 DEF LayoutInv, Paged
  <2> QED BY <2>1, <2>2
<1> QED BY <1>2, <1>3 DEF TypeOK, LayoutInv

(* The invariant contains TargetsExist.                                    *)
LEMMA InvTargets ==
    ASSUME LayoutInv
    PROVE  TargetsExist
<1> SUFFICES ASSUME Paged  PROVE TargetsExist
  BY DEF TargetsExist
<1>1. PageSound
  BY DEF LayoutInv
<1> QED BY <1>1 DEF TargetsExist, PageSound, PageIds

(* The invariant implies StoredIsContinuation.                             *)
LEMMA InvStored ==
    ASSUME LayoutInv
    PROVE  StoredIsContinuation
<1> SUFFICES ASSUME NEW f \in DOMAIN blocks, NEW k \in DOMAIN blocks[f], StoredPcs(blocks[f][k]) # {}
             PROVE  LET b == blocks[f][k] IN b.term.op = "Call" /\ StoredPcs(b) = Successors(b)
  BY DEF StoredIsContinuation
<1> DEFINE b == blocks[f][k]
<1>1. \A c \in StoredPcs(b) : b.term.op = "Call" /\ b.term.targets = <<c>>
  BY BlocksAgree DEF FunctionSound
<1>2. PICK c \in StoredPcs(b) : TRUE
  OBVIOUS
<1> HIDE DEF b
<1>3. b.term.op = "Call" /\ b.term.targets = <<c>>
  BY <1>1, <1>2
<1>4. \A x, y : <<x>> = <<y>> => x = y
  OBVIOUS
<1>5. StoredPcs(b) = {c}
  BY <1>1, <1>2, <1>3, <1>4
<1>6. Successors(b) = {c}
  BY <1>3, GotoFacts DEF Successors, Goto
<1> QED BY <1>3, <1>5, <1>6 DEF b

(* A function that is sound and closed names only blocks that are there.   *)
LEMMA InvNothingDangles ==
    ASSUME LayoutInv, Closed
    PROVE  NothingDangles
<1> SUFFICES ASSUME phase \in {"opt", "layout"}, NEW f \in Funcs, NEW k \in DOMAIN blocks[f],
                    NEW x \in Named(blocks[f][k])
             PROVE  \E g \in Funcs : \E j \in DOMAIN blocks[g] : blocks[g][j].id = x
  BY DEF NothingDangles
<1>1. source \in Programs /\ blocks # <<>> /\ HasBlocks \subseteq Funcs
  BY SourceFacts DEF LayoutInv
<1>2. DOMAIN blocks = Funcs /\ \A g \in HasBlocks : FunctionSound(blocks[g], Label(g, 0))
  BY <1>1 DEF LayoutInv, BlocksSound
<1>3. f \in HasBlocks /\ FunctionSound(blocks[f], Label(f, 0))
  BY <1>2, BlocksAgree
<1>4. FunctionClosed(blocks[f], Label(f, 0))
  BY <1>3 DEF Closed
<1>5. CASE x \in Ids(blocks[f])
  BY <1>5 DEF Ids
<1>6. CASE x \in EntryPcs
  <2>1. PICK g \in HasBlocks : x = Label(g, 0)
    BY <1>6 DEF EntryPcs
  <2>2. Label(g, 0) \in Ids(blocks[g])
    BY <1>2 DEF FunctionSound
  <2> QED BY <1>1, <2>1, <2>2 DEF Ids
<1>7. CASE x \in StoredPcs(blocks[f][k])
  BY <1>3, <1>7 DEF FunctionSound
<1>8. x \in Ids(blocks[f]) \/ x \in EntryPcs \/ x \in StoredPcs(blocks[f][k])
  BY <1>4 DEF FunctionClosed, Named
<1> QED BY <1>5, <1>6, <1>7, <1>8

(* Every label a stage hands on, and every pc of the page, is a u16,       *)
(* whatever the passes, the cutting and the relabellings did.              *)
THEOREM LayoutTypes == Spec => []TypeOK
<1>1. Init => LayoutInv
  BY InitStep
<1>2. LayoutInv /\ [Next]_vars => LayoutInv'
  BY NextStep
<1>3. LayoutInv => TypeOK
  BY InvTypes
<1> QED BY <1>1, <1>2, <1>3, PTL DEF Spec

(* Once schedule() has linked the cycles, every jump, call, stored return  *)
(* address and the entry lead to a cycle of the page, through both         *)
(* relabellings and the choice of where the page starts.                   *)
THEOREM TargetsKept == Spec => []TargetsExist
<1>1. Init => LayoutInv
  BY InitStep
<1>2. LayoutInv /\ [Next]_vars => LayoutInv'
  BY NextStep
<1>3. LayoutInv => TargetsExist
  BY InvTargets
<1> QED BY <1>1, <1>2, <1>3, PTL DEF Spec

(* The return address a block stores stays the continuation its call       *)
(* names, though opt8 rewrites the one and not the other.                  *)
THEOREM ContinuationsStored == Spec => []StoredIsContinuation
<1>1. Init => LayoutInv
  BY InitStep
<1>2. LayoutInv /\ [Next]_vars => LayoutInv'
  BY NextStep
<1>3. LayoutInv => StoredIsContinuation
  BY InvStored
<1> QED BY <1>1, <1>2, <1>3, PTL DEF Spec

(* When no function has more blocks than labels, no pass of opt8 takes     *)
(* away a block that some block still names: scheduling is never refused   *)
(* for a missing target.                                                   *)
THEOREM NamesKept ==
    ASSUME BlocksFit
    PROVE  Spec => []NothingDangles
<1>1. Init => LayoutInv /\ Closed
  BY InitStep
<1>2. LayoutInv /\ Closed /\ [Next]_vars => (LayoutInv /\ Closed)'
  BY BlocksFit, NextStep
<1>3. LayoutInv /\ Closed => NothingDangles
  BY InvNothingDangles
<1> QED BY <1>1, <1>2, <1>3, PTL DEF Spec
=============================================================================
