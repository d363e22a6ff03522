---------------------------- MODULE MCCodeLayout ----------------------------
(***************************************************************************)
(* Instances of CodeLayout.  SmallGraphs: every function of three blocks   *)
(* over a few bodies and terminators.  Calls: calls, tail calls,           *)
(* recursion through the entry, an imported function.                      *)
(***************************************************************************)
EXTENDS CodeLayout

Put(v) == Op("Put", <<v>>)
PutVar == Op("PutVar", <<>>)
One    == Op("One", <<>>)
Zero   == Op("Zero", <<>>)
Free   == Op("Free", <<>>)
Dead   == Op("Dead", <<>>)
StorePc(k) == Op("StorePc", <<k>>)
B(ops, term) == [ops |-> ops, term |-> term]
Program(funcs, entry) == [funcs |-> funcs, entry |-> entry]

-----------------------------------------------------------------------------
Gotos       == {Goto(k) : k \in 0..2}
Branches(c) == {Branch(c, <<j, k>>) : j, k \in 0..2}

SmallGraphs ==
    {Program(<< <<B(o1, t1), B(o2, t2), B(o3, Stop("Exit"))>> >>, 1) :
        o1 \in {<<>>, <<Zero>>, <<One, Put(1)>>}, t1 \in Gotos \cup Branches(1),
        o2 \in {<<>>, <<Put(2)>>, <<Dead>>},      t2 \in Gotos \cup Branches(2),
        o3 \in {<<PutVar>>}}

(* Diamonds, chains and loops of jumps, in one function of six blocks. *)
Larger ==
    {Program(<< <<B(<<Zero>>, Goto(1)),
                  B(<<>>, Branch(1, <<2, 3>>)),
                  B(<<Put(1)>>, Goto(j)),
                  B(o, Goto(4)),
                  B(<<Dead>>, Branch(c, <<k, 5>>)),
                  B(<<Put(3)>>, Stop("Exit"))>> >>, 1) :
        j \in {3, 4}, o \in {<<>>, <<Put(2)>>}, c \in {0, 2}, k \in 0..4}

(* Three empty blocks in a circle, each with a jump from outside. *)
Spin ==
    Program(<< <<B(<<>>, Branch(1, <<1, 4, 2, 3>>)),
                 B(<<>>, Goto(2)), B(<<>>, Goto(3)), B(<<>>, Goto(1)),
                 B(<<Put(1)>>, Stop("Exit"))>> >>, 1)

-----------------------------------------------------------------------------
(* main calls f, which branches, prints and returns; both print again. *)
Plain(entryOps) ==
    Program(<< <<>>,
               <<B(entryOps, Goto(1)),
                 B(<<StorePc(2)>>, Call(2, 2)),
                 B(<<Free, PutVar>>, Goto(3)),
                 B(<<>>, Stop("Exit"))>>,
               <<B(<<>>, Branch(1, <<1, 2>>)),
                 B(<<Put(1)>>, Goto(2)),
                 B(<<One>>, Goto(3)),
                 B(<<Free>>, Stop("Return"))>>,
               <<B(<<Put(8)>>, Stop("Return"))>> >>, 2)

(* main tail-calls f, which calls main again or exits. *)
Again ==
    Program(<< <<B(<<Zero>>, Goto(1)),
                 B(<<PutVar>>, Branch(1, <<2, 3>>)),
                 B(<<>>, Call(1, 0)),
                 B(<<One>>, Goto(2))>>,
               <<B(<<One>>, Branch(2, <<1, 2>>)),
                 B(<<StorePc(3)>>, Call(0, 3)),
                 B(<<>>, Stop("Exit")),
                 B(<<Free, PutVar>>, Goto(2))>> >>, 1)

TailCall(b) == [b EXCEPT !.term.targets = <<>>]
WithTail(p, f, k) == [p EXCEPT !.funcs[f][k] = TailCall(@)]

(* f calls itself, in tail position and not. *)
Recursive ==
    Program(<< <<B(<<StorePc(1)>>, Call(1, 1)), B(<<Free, Put(9)>>, Stop("Exit"))>>,
               <<B(<<Put(4)>>, Branch(1, <<1, 4>>)),
                 B(<<StorePc(2)>>, Call(1, 2)),
                 B(<<Free>>, Goto(3)),
                 B(<<Put(5)>>, Goto(4)),
                 B(<<Put(6)>>, Branch(2, <<5, 6>>)),
                 B(<<>>, Call(1, 0)),
                 B(<<Free>>, Stop("Return"))>> >>, 1)

Calls == {Plain(<<Zero>>), Plain(<<One>>), Plain(<<>>), WithTail(Again, 1, 3),
          WithTail(Recursive, 2, 6)}

-----------------------------------------------------------------------------
(* Refused: more functions than slots, more cycles than a slot has labels  *)
(* (if every cycle takes one op).                                          *)
TooManyFunctions ==
    Program([f \in 1..5 |-> <<B(<<Put(f)>>, Stop("Exit"))>>], 1)
TooManyCycles ==
    Program(<< <<B([k \in 1..9 |-> Put(k)], Stop("Exit"))>> >>, 1)

MCPrograms == SmallGraphs \cup Larger \cup Calls \cup {Spin, TooManyFunctions, TooManyCycles}

MCShuffles(n) == {[k \in 1..n |-> n + 1 - k]}
MCSparse(n)   == {[k \in 1..n |-> ((k * 11) % 29) + 1]}
MCOracles     == {<<a, b>> : a, b \in {<<1, 2>>, <<2, 1, 1>>}}
=============================================================================
