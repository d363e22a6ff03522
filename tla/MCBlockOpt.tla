----------------------------- MODULE MCBlockOpt -----------------------------
(***************************************************************************)
(* Instances of BlockOpt: small functions that between them give every     *)
(* pass something to do and something to refuse.                           *)
(***************************************************************************)
EXTENDS BlockOpt

MCCallee(v) == (FoldLeft(LAMBDA acc, x : acc + x, 0, v) + 1) % BASE

x == 8
y == 12
z == 13

Key(r)      == Inst("Getchar", r, <<>>)
Copy(d, s)  == Inst("Copy", d, <<s>>)
Show(v)    == Inst("Putchar", NoDst, <<v>>)
Exit(v)     == Term("Exit", v, <<>>)
Goto(k)     == Term("Goto", <<>>, <<k>>)
Branch(c, t, f) == Term("Branch", <<c>>, <<t, f>>)
Straight(insts, v) == <<Block(0, insts, Exit(v))>>

-----------------------------------------------------------------------------
(* Copies among three registers, one of them preferred as a destination.   *)
CopyAlphabet ==
    {Copy(d, s) : d \in {x, y}, s \in {y, z}} \cup {Copy(z, x), Copy(z, y), Copy(y, x)}
    \cup {Copy(z, Imm(1)), Key(x)}
Copies ==
    {Straight(<<Key(x), Key(y), Key(z), i, j, k>>, <<x, y, z, Imm(0)>>) : i, j, k \in CopyAlphabet}

-----------------------------------------------------------------------------
(* One operation on a key, a condition, a constant register or an          *)
(* immediate, and a second one that reads its result.                      *)
key  == 8
cond == 12
one  == 14
t    == 20
u    == 21

Setup == <<Key(key), Inst("Eq", cond, <<key, Imm(2)>>), Key(16), Copy(one, Imm(1))>>

ByteOps == {"Sub", "MulLo", "MulHi", "And8", "Or8", "Xor8", "Eq", "Ne", "LtU", "GeU", "BoolAnd", "BoolOr"}
Second  == {Inst("BoolNot", u, <<t>>), Inst("Eq", u, <<t, Imm(1)>>), Inst("Ne", u, <<Imm(0), t>>),
            Inst("Sel", u, <<cond, t, one>>), Inst("Xor8", u, <<Imm(1), t>>)}

Algebra ==
    {Straight(Setup \o <<Inst(op, t, <<a, b>>), i>>, <<t, u, Imm(0), Imm(0)>>) :
        op \in ByteOps, a \in {key, cond, Imm(0), Imm(1)}, b \in {key, cond, one, Imm(0), Imm(BASE - 1)}, i \in Second}

Selects ==
    {Straight(Setup \o <<Inst("BoolNot", 22, <<cond>>), Inst("Ne", 23, <<22, Imm(n)>>),
                         Inst("Sel", t, <<c, a, b>>), Inst("PutcharIf", NoDst, <<t, 23>>)>>,
              <<t, Imm(0), Imm(0), Imm(0)>>) :
        n \in 0..1, c, a, b \in {key, cond, 22, 23, Imm(0), Imm(1)}}

(* Words: constant, extended with zeros, partly constant, unknown. *)
Words == {WordOf(0), WordOf(1), WordOf(7), WordOf(WORD - 2), Narrow(key), Narrow(cond),
          <<key, 16, Imm(0), one>>, <<one, one, key, Imm(2)>>}
Wide ==
    {Straight(Setup \o [k \in 1..4 |-> Lane(op, 29 + k, a, b, k - 1)], <<30, 31, 32, 33>>) :
        op \in LaneOps, a, b \in Words}
    \cup
    {Straight(Setup \o <<Lane(op, 30, a, b, 0), Lane("DivS32", 31, a, b, 0)>>, <<30, 31, Imm(0), Imm(0)>>) :
        op \in CmpOps \cup {"Borrow32"}, a, b \in Words}
    \cup
    {Straight(Setup \o <<Lane(op, 30, a, b, 0), Lane(op, 31, a, b, 1)>>, <<30, 31, Imm(0), Imm(0)>>) :
        op \in DivOps, a \in Words, b \in {WordOf(1), WordOf(7), WordOf(WORD - 2), <<one, one, key, Imm(2)>>}}

(* Trees of conditions, too wide for one instruction or shared. *)
Leaf(n) == Inst("Eq", 40 + n, <<key, Imm(n % BASE)>>)
Chains ==
    {Straight(Setup \o <<Leaf(0), Leaf(1), Leaf(2), Leaf(3),
                         Inst(o1, 50, <<40, 41>>), Inst(o2, 51, <<l, 42>>), Inst(o3, 52, <<51, r>>)>>,
              <<52, s, Imm(0), Imm(0)>>) :
        o1, o2, o3 \in {"BoolAnd", "BoolOr"}, l \in {50, 43}, r \in {43, 50, 51, Imm(1)}, s \in {Imm(0), 50, 51}}

-----------------------------------------------------------------------------
(* Stores and loads through two addresses that may be the same.            *)
p == <<8, Imm(0)>>
q == <<12, Imm(0)>>
MemAlphabet ==
    {Store(0, p, 0, 13), Store(1, p, 0, Imm(2)), Store(0, p, 1, 14), Store(0, q, 0, Imm(3)),
     Load(14, 0, p, 0), Load(13, 0, p, 1), Load(14, 1, q, 0), Load(8, 0, p, 0), Key(8)}
Memory ==
    {Straight(<<Key(8), Key(12), Key(13), Key(14), i, j, k, Load(15, 0, p, 0), Show(15)>>,
              <<13, 14, Imm(0), Imm(0)>>) : i, j, k \in MemAlphabet}

(* An increment of four bytes, and what keeps it from being fused: other   *)
(* sums in it, and what stands between its parts or after it.              *)
counter == <<16, Imm(0)>>
word == <<30, 31, 32, 33>>
IncGroup(op, n) ==
    [load  |-> [k \in 1..4 |-> Load(word[k], byte_pos(0, k - 1)[1], counter, byte_pos(0, k - 1)[2])],
     sum   |-> [k \in 1..4 |-> Lane(op, 39 + k, word, WordOf(n), k - 1)],
     store |-> [k \in 1..4 |-> Store(byte_pos(0, k - 1)[1], counter, byte_pos(0, k - 1)[2], 39 + k)]]
IncGroups ==
    {IncGroup(op, n) : op \in {"Add32", "Sub32"}, n \in {17, 21, 250}}
    \cup {[IncGroup("Add32", 17) EXCEPT !.sum[1] = Lane("Add32", 40, word, WordOf(6), 0)],
          [IncGroup("Add32", 17) EXCEPT !.sum[2] = Lane("Add32", 41, <<31, 30, 32, 33>>, WordOf(17), 1)]}
Increments ==
    {Straight(Setup \o g.load \o a \o g.sum \o b \o g.store \o c, <<v, Imm(0), Imm(0), Imm(0)>>) :
        g \in IncGroups,
        a \in {<<>>, <<Show(key)>>, <<Load(50, 0, counter, 0), Show(50)>>},
        b \in {<<>>, <<Store(1, q, 0, Imm(2))>>, <<Key(16)>>},
        c \in {<<>>, <<Show(41)>>, <<Load(50, 2, counter, 0), Show(50)>>},
        v \in {Imm(0), 31}}

-----------------------------------------------------------------------------
(* Registers carried from block to block: a branch, a loop, a call.        *)
Diamond ==
    {<<Block(0, <<Key(x), Key(16), a>>, Branch(16, 1, 2)),
       Block(1, <<b>>, Goto(3)),
       Block(2, <<c, Copy(18, Imm(1))>>, Goto(3)),
       Block(3, <<d, Show(17)>>, Exit(<<x, y, Imm(0), Imm(0)>>))>> :
        a \in {Copy(y, x), Copy(y, Imm(1)), Inst("Sub", y, <<x, Imm(1)>>)},
        b \in {Copy(z, y), Key(x), Copy(y, Imm(1)), Copy(y, x)},
        c \in {Key(y), Copy(y, Imm(1)), Copy(x, y), Show(x)},
        d \in {Copy(17, y), Copy(17, x), Inst("Eq", 17, <<y, Imm(1)>>), Inst("Xor8", 17, <<y, y>>)}}

Loop ==
    {<<Block(0, <<Key(x), Copy(y, x), Copy(16, i)>>, Goto(1)),
       Block(1, <<a, Inst("Sub", 19, <<y, Imm(1)>>), b>>, Goto(2)),
       Block(2, <<Copy(y, 19), c>>, Branch(v, 1, 3)),
       Block(3, <<Show(16)>>, Exit(<<x, y, 17, Imm(0)>>))>> :
        i \in {x, Imm(2)}, a \in {Copy(17, y), Copy(17, x), Copy(17, 16)},
        b \in {Copy(16, 17), Copy(16, 19), Copy(x, 17)},
        c \in {Copy(16, 17), Show(17), Copy(17, 19)}, v \in {y, 19}}

Switching ==
    {<<Block(0, <<Key(x), Copy(y, i)>>, Term("Switch", <<s>>, <<1, k, 3>>)),
       Block(1, <<Show(x)>>, Goto(3)),
       Block(2, <<Copy(y, Imm(3))>>, Goto(3)),
       Block(3, <<>>, Exit(<<x, y, Imm(0), Imm(0)>>))>> :
        i \in {x, Imm(1), Imm(2)}, s \in {x, y}, k \in 1..3}

(* Two calls: what the first returned must survive the second. *)
Calls ==
    {<<Block(0, <<Key(x), a>>, CallSetup(<<x, Imm(1), 17, Imm(0)>>, 1, <<12, 13, 14, 15>>)),
       Block(1, <<Copy(y, 0), b, Copy(18, 1)>>, CallSetup(<<y, x, 18, Imm(0)>>, 2, <<>>)),
       Block(2, <<Copy(19, 0), c>>, Exit(<<19, 18, y, 17>>))>> :
        a \in {Copy(17, x), Inst("Sub", 17, <<x, Imm(1)>>)},
        b \in {Copy(x, 0), Inst("CellSet", NoDst, <<0>>), Copy(0, y)},
        c \in {Copy(y, 18), Show(y), Inst("CellGet", 17, <<>>), Inst("Random", 17, <<>>)}}

(* Constant stores to memory that still holds its initial value, or not. *)
At(n)    == <<Imm(n), Imm(0)>>
InitialStores ==
    {<<Block(0, <<Store(0, At(0), 0, Imm(1)), a, Key(x)>>, Branch(x, 1, 2)),
       Block(1, <<b, Store(1, At(1), 0, Imm(3)), Inst("Eq", 16, <<x, Imm(2)>>)>>, back),
       Block(2, <<Store(0, At(2), 0, Imm(3)), Store(0, At(0), 1, Imm(0))>>, Exit(<<x, Imm(0), Imm(0), Imm(0)>>))>> :
        a \in {Store(1, At(0), 0, Imm(2)), Store(2, At(0), 0, Imm(3)), Store(2, At(0), 0, Imm(1))},
        b \in {Store(0, At(2), 0, Imm(0)), Store(0, <<x, Imm(0)>>, 0, Imm(1)),
               [Inst("MemInc", NoDst, At(1)) EXCEPT !.imm = 5], Show(x)},
        back \in {Goto(2), Branch(16, 0, 2), CallSetup(<<Imm(0)>>, 2, <<>>)}}

-----------------------------------------------------------------------------
(* Loops that print through a counter, from a key's address on.            *)
count == <<8, 9, 10, 11>>
Cursor == <<Key(8), Copy(9, Imm(0)), Copy(10, Imm(0)), Copy(11, Imm(0)), Store(0, At(5), 0, Imm(2))>>
Advance == [k \in 1..4 |-> Lane("Add32", 29 + k, count, WordOf(1), k - 1)] \o [k \in 1..4 |-> Copy(7 + k, 29 + k)]
Printing(before, turn, c) ==
    <<Block(0, Cursor \o before, Goto(1)), Block(1, turn, Branch(c, 1, 2)),
      Block(2, <<>>, Exit(<<Imm(1), Imm(0), Imm(0), Imm(0)>>))>>

ShowIf(v, c)   == Inst("PutcharIf", NoDst, <<v, c>>)
Nonzero(d, r)  == Inst("Ne", d, <<r, Imm(0)>>)
Read(d, base)  == Load(d, base, <<8, 9>>, 0)

(* Strings: a turn prints what it loads unless that ends the string, or    *)
(* what the turn before has loaded; and loops that are something else.     *)
Strings ==
    {Printing(<<>>, <<Read(20, 0), m, Nonzero(23, 20), ShowIf(v, 23), n, Inst("Ne", 25, <<20, Imm(1)>>)>>
                    \o Advance, w) :
        w \in {23, 25}, m \in {Copy(22, 20), Read(22, 0), Read(22, 1), Inst("Xor8", 22, <<20, Imm(1)>>), Copy(22, Imm(3))},
        v \in {20, 22}, n \in {ShowIf(22, 23), Copy(24, 20), Inst("CellSet", NoDst, <<20>>)}}
    \cup
    {<<Block(0, Cursor \o <<Read(22, 0), Nonzero(23, 22)>>, Branch(23, 1, 2)),
       Block(1, <<Show(22), Read(20, 1)>> \o u1 \o Advance \o u2 \o <<Nonzero(24, r)>>, Branch(24, 1, 2)),
       Block(2, <<>>, Exit(<<Imm(1), Imm(0), Imm(0), Imm(0)>>))>> :
        u1, u2 \in {<<>>, <<Copy(22, 20)>>}, r \in {20, 22}}

(* Buffers: a turn goes on while the counter is below an end, of which the *)
(* first block knows that it is not reached.                               *)
End    == <<12, 13, 14, 15>>
Finish == [k \in 1..4 |-> Lane("Add32", 11 + k, count, WordOf(5), k - 1)]
Below ==            \* byte by byte
    [k \in 1..4 |-> Inst("LtU", 39 + k, <<count[k], End[k]>>)]
    \o [k \in 1..3 |-> Inst("Eq", 43 + k, <<count[k + 1], End[k + 1]>>)]
    \o <<Inst("BoolAnd", 47, <<46, 42>>), Inst("BoolAnd", 48, <<46, 45>>), Inst("BoolAnd", 49, <<48, 41>>),
         Inst("BoolAnd", 50, <<48, 44, 40>>), Inst("BoolOr", 51, <<43, 47, 49, 50>>)>>

While  == {<<"CmpLtU", WordOf(4)>>, <<"CmpLtU", WordOf(9)>>, <<"CmpLtS", WordOf(7)>>, <<"CmpLtU", End>>}

Buffers ==
    {Printing(Finish, <<Read(20, 2), m, Inst("Eq", 23, <<20, Imm(3)>>), e, Show(20), n>>
                      \o Advance \o <<Lane(w[1], 51, count, w[2], 0)>>, 51) :
        m \in {Copy(22, 20), Inst("Xor8", 22, <<20, Imm(1)>>)},
        e \in {ShowIf(Imm(0), 23), ShowIf(20, 23)}, n \in {Show(22), Show(Imm(1))}, w \in While}
    \cup
    {Printing(Finish, <<Lane("Add32", 24, count, WordOf(2), 0), Lane("Add32", 25, count, WordOf(2), 1),
                        Load(20, 0, <<24, 25>>, 0), Show(20)>> \o Advance \o test, 51) :
        test \in {Below} \cup {<<Lane(w[1], 51, count, w[2], 0)>> : w \in While}}

-----------------------------------------------------------------------------
(* The operands of a condition that is written once are, apart from copies,  *)
(* written once themselves: the optimiser takes it for granted (see README). *)
SteadyConditions(bs) ==
    LET defs  == collect_def_counts(bs)
        once  == {i \in ToSet(AllInsts(bs)) : i.dst # NoDst /\ Times(defs, i.dst) = 1}
        roots == <<>> @@ [r \in {i.dst : i \in {i \in once : IsCopy(i)}} |->
                            (CHOOSE i \in once : i.dst = r).args[1]]
    IN  \A i \in {i \in once : i.op \in BoolOps} :
            \A r \in InstUses(i) : LET root == resolve(roots, r) IN IsImm(root) \/ Times(defs, root) = 1

Families == Copies \cup Algebra \cup Selects \cup Wide \cup Chains \cup Memory \cup Increments
            \cup Diamond \cup Loop \cup Switching \cup Calls \cup InitialStores

MCPrograms == {bs \in Families : SteadyConditions(bs)} \cup Strings \cup Buffers

(* Loops that the unrolling changes, by what they do: print the zero that  *)
(* ends a string; load a byte twice and test the second; count further     *)
(* than the byte printed; keep a sum; print what is computed after another *)
(* print.  No run holds them: see README, section 5.                       *)
Changed ==
    LET sum   == Inst("Xor8", 16, <<16, 20>>)
        twice == Inst("Xor8", 22, <<20, Imm(1)>>)
        text(turn, ret) == <<Block(0, Cursor \o <<Copy(16, Imm(0))>>, Goto(1)),
                             Block(1, turn \o Advance \o <<Copy(17, 16)>>, Branch(23, 1, 2)),
                             Block(2, <<>>, Exit(<<ret, Imm(0), Imm(0), Imm(0)>>))>>
        below == <<Lane("CmpLtU", 51, count, WordOf(7), 0)>>
    IN  [Zero  |-> text(<<Read(20, 0), Nonzero(23, 20), Show(20)>>, 16),
         Alias |-> text(<<Read(20, 0), Read(22, 0), Nonzero(23, 22), ShowIf(20, 23)>>, 16),
         Count |-> text(<<Read(20, 0), Nonzero(23, 20), ShowIf(20, 23)>>, 8),
         Sum   |-> text(<<Read(20, 0), Nonzero(23, 20), ShowIf(20, 23), sum>>, 16),
         Order |-> Printing(<<>>, <<Read(20, 2), Show(20), twice, Show(22)>> \o Advance \o below, 51)]

(* Whether a local (register 20) is zero is computed, the local is set     *)
(* anew, and the negation of what was computed is returned.                *)
Renewed ==
    {Straight(<<Key(20), Copy(22, 20), Lane("CmpEq", 23, Narrow(22), WordOf(0), 0), Key(20),
                Lane("CmpEq", 24, Narrow(23), WordOf(0), 0)>>, <<24, Imm(0), Imm(0), Imm(0)>>)}

MCImage == [a \in 0..(MemEnd - 1) |-> (3 * a + 1) % BASE]
MCEnvs ==
    {[keys |-> k, rand |-> 2, mem |-> MCImage, cells |-> [c \in 0..1 |-> 3 * c]] :
        k \in {<<0, 1, 2, 3>>, <<3, 1, 0, 2>>, <<1, 0, 1>>, <<2, 2, 1, 0>>}}
=============================================================================
