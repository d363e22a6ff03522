----------------------------- MODULE MCRegAlloc -----------------------------
(* A callee of two parameter words (registers 8-15) with temporaries in     *)
(* groups 4 and 5, and a caller with temporaries in groups 6 and 7.         *)
EXTENDS RegAlloc, BlockOrder

CONSTANTS MaxLen

SeqsUpTo(S, n) == UNION {[1..k -> S] : k \in 0..n}
I(def, use) == [def |-> def, use |-> use, copy |-> FALSE]
Copy(d, s) == [def |-> {d}, use |-> {s}, copy |-> TRUE]
B(insts, use, def, succ) == [insts |-> insts, use |-> use, def |-> def, succ |-> succ]

RET == 0..7
CallBoth(succ) == B(<<I({24}, {}), I({28, 29}, {24})>>, {24, 28}, RET \cup 8..15, succ)
Caller == [locals |-> 0, blocks |->
    <<CallBoth({2}), B(<<I({24}, {}), Copy(28, 0)>>, {24, 28}, {}, {})>>]

Pool4 == {Copy(16, 8), I({20}, {16, 12}), Copy(8, 20), I({12}, {}), I({17}, {9, 20})}
Terms == {[use |-> {16}, succ |-> {}], [use |-> {20}, succ |-> {1, 2}], [use |-> {}, succ |-> {2}]}
Bodies(n) == {B(s, t.use, {}, t.succ) : s \in SeqsUpTo(Pool4, n), t \in Terms}
Callee(b1, b2) == [locals |-> 2, blocks |-> <<b1, b2>>]

(* A loop with a diamond inside, and a self-recursive function. *)
Looping == [locals |-> 2, blocks |->
    <<B(<<Copy(16, 8)>>, {12}, {}, {2, 4}),
      B(<<I({20}, {16})>>, {20}, {}, {3, 4}),
      B(<<I({16}, {20}), Copy(12, 16)>>, {}, {}, {1}),
      B(<<I({17}, {13})>>, {16, 17}, {}, {})>>]
Recursive == [locals |-> 2, blocks |->
    <<B(<<I({16}, {8}), I({20}, {12})>>, {16, 20}, RET \cup 8..15, {2}),
      B(<<I({8}, {}), Copy(20, 0)>>, {8, 20}, {}, {})>>]

(* A schedule: the second instruction first where nothing orders the two.  *)
Apart(i, j) == i.def \cap (j.def \cup j.use) = {} /\ i.use \cap j.def = {}
Reordered(s) ==
    IF Len(s) >= 2 /\ Apart(s[1], s[2]) THEN <<s[2], s[1]>> \o SubSeq(s, 3, Len(s)) ELSE s
MCScheduled(pr) ==
    [n \in DOMAIN pr |->
        [pr[n] EXCEPT !.blocks = [b \in DOMAIN @ |-> [@[b] EXCEPT !.insts = Reordered(@)]]]]

MCPrograms ==
    {<<Callee(b1, b2), Caller>> : b1 \in Bodies(MaxLen), b2 \in Bodies(MaxLen - 1)}
      \cup {<<f, Caller>> : f \in {Looping, Recursive}}
=============================================================================
