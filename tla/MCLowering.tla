----------------------------- MODULE MCLowering -----------------------------
(***************************************************************************)
(* Modules for Lowering, with trees as src/parse makes them: a constant    *)
(* that stands for values of dead code precedes br, return, throw and      *)
(* unreachable and follows br_table, and every function ends in a return.  *)
(* A tree is a construct in a construct around a leaf.  Three shapes are   *)
(* left out here, and stated in README.md: a loop that ends by falling     *)
(* off a block with instructions, code after a fused tail call, and a      *)
(* rethrow after another exception was raised in the same catch body.      *)
(***************************************************************************)
EXTENDS Lowering

Leaf(op, val) == <<Node(op, val, <<>>, <<>>)>>

(* Lists one after the other: operands move along. *)
Cat(lists) ==
    LET moved(t, by) == [k \in DOMAIN t |->
                            [t[k] EXCEPT !.args = Evaluated([m \in DOMAIN @ |-> @[m] + by])]]
    IN  FoldLeft(LAMBDA acc, t : acc \o moved(t, Len(acc)), <<>>, lists)

(* A value and a node that reads it. *)
On(op, val, bodies, value) == Append(value, Node(op, val, <<Len(value)>>, bodies))

Const(v) == Leaf("Const", <<v>>)
Read     == Leaf("Read", <<>>)
Put(v)   == On("Put", <<>>, <<>>, Const(v))
PutPayload == On("Put", <<>>, <<>>, Leaf("Payload", <<>>))
Dead(op, val) == Const(0) \o Leaf(op, val)
Throw(t, v)   == Cat(<<Const(v), Const(0), <<Node("Throw", <<t>>, <<>>, <<>>)>> >>)
ThrowWith(t, v) == Const(v) \o Const(0) \o <<Node("Throw", <<t>>, <<1>>, <<>>)>>
ReturnConst(v)  == Const(v) \o Const(0) \o <<Node("Return", <<>>, <<1>>, <<>>)>>
ReturnVoid      == Leaf("Return", <<>>)
PutLocal == Cat(<<On("Set", <<>>, <<>>, Const(6)), Put(5), On("Put", <<>>, <<>>, Leaf("Get", <<>>))>>)
CallWith(f, v)  == On("Call", <<f>>, <<>>, Const(v))

(* Constructs around x.  Loops end in a branch. *)
Wrap(w, x) ==
    CASE w = "Block"    -> <<Node("Block", <<>>, <<>>, <<Cat(<<Put(1), x, Put(2)>>)>>)>>
      [] w = "Loop"     -> <<Node("Loop", <<>>, <<>>, <<Cat(<<x, On("BrIf", <<0>>, <<>>, Read)>>)>>)>>
      [] w = "If"       -> On("If", <<>>, <<Cat(<<x, Put(1)>>), Put(2)>>, Read)
      [] w = "Delegate" -> <<Node("Delegate", <<0>>, <<>>, <<Cat(<<x, Put(1)>>)>>)>>
      [] w = "Try1"     -> <<Node("Try", <<2, 1>>, <<>>, <<Cat(<<x, Put(1)>>), Put(3), PutPayload>>)>>
      [] w = "TryAll"   -> <<Node("Try", <<1, 0>>, <<>>, <<x, PutPayload, Put(4)>>)>>
      [] w = "Try2"     -> <<Node("Try", <<2>>, <<>>, <<Cat(<<Put(1), x>>), Put(3)>>)>>
      [] w = "Catch"    -> <<Node("Try", <<1, 0>>, <<>>,
                               <<CallWith(3, 5), Cat(<<PutPayload, x, Put(1)>>), Put(4)>>)>>
      [] w = "CatchAll" -> <<Node("Try", <<2, 0>>, <<>>,
                               <<CallWith(3, 5), Put(3), Cat(<<x, Put(1)>>)>>)>>

Plain == {"Block", "Loop", "If"}
Tries == {"Delegate", "Try1", "TryAll", "Try2", "Catch", "CatchAll"}

(* What may stand under that many labels. *)
Branches(labels) ==
    {Dead("Br", <<labels - 1>>), Dead("Br", <<0>>), On("BrIf", <<labels - 1>>, <<>>, Read),
     On("BrTable", <<0, labels - 1>>, <<>>, Read) \o Const(0)}

Others == {PutLocal, ReturnVoid, Dead("Unreachable", <<>>), CallWith(3, 8)}

Raising == {ThrowWith(1, 6), Throw(2, 0)}

Rethrows == {Dead("Rethrow", <<0>>), Dead("Rethrow", <<1>>)}

Inner(wraps, leaves) == {Wrap(w, x) : w \in wraps, x \in leaves}

PlainTrees == {Wrap(w, x) : w \in Plain, x \in Inner(Plain, Branches(2) \cup Others)}

TryTrees ==
    {Wrap(w, x) : w \in Plain \cup Tries,
                  x \in Inner(Plain \cup Tries, Branches(2) \cup Raising \cup {CallWith(3, 8), PutLocal})
                        \cup {Dead("Rethrow", <<0>>)}}
    \cup Inner(Tries, Inner({"Catch", "CatchAll"}, Rethrows) \cup Inner({"Catch"}, Inner({"Try2"}, {Dead("Rethrow", <<1>>)})))

Func(body, results) == [body |-> body, results |-> results]

(* Function 3 throws tag 1 with its argument, if the input says so. *)
Thrower == Func(Cat(<<On("If", <<>>, <<Leaf("Get", <<>>) \o Const(0) \o <<Node("Throw", <<1>>, <<1>>, <<>>)>>, <<>> >>, Read),
                      Put(9), ReturnVoid>>), 0)

Printer == Func(Cat(<<On("Put", <<>>, <<>>, Leaf("Get", <<>>)), ReturnVoid>>), 0)

(* The tree in _start. *)
Direct(tree) ==
    [funcs |-> <<Func(Cat(<<tree, Put(7), On("Return", <<>>, <<>>, Const(1))>>), 1),
                 Printer, Thrower>>, entry |-> 1, tags |-> TRUE]

(* The tree in a function that _start calls within a try. *)
Called(tree) ==
    [funcs |-> <<Func(Cat(<< <<Node("Try", <<1>>, <<>>, <<CallWith(2, 3), PutPayload>>)>>,
                             CallWith(2, 4), On("Return", <<>>, <<>>, Const(1))>>), 1),
                 Func(Cat(<<tree, Put(7), ReturnVoid>>), 0), Thrower>>, entry |-> 1, tags |-> TRUE]

(* No exceptions: the tree in a function that ends in a tail call. *)
Tailed(tree, last) ==
    [funcs |-> <<Func(Cat(<<CallWith(2, 3), On("Return", <<>>, <<>>, Const(1))>>), 1),
                 Func(Cat(<<tree, last, ReturnVoid>>), 0), Printer>>, entry |-> 1, tags |-> FALSE]

TailIndirect == Const(8) \o Const(3) \o <<Node("CallIndirect", <<3>>, <<2, 1>>, <<>>)>>

MCModules ==
    {Direct(t) : t \in TryTrees}
    \cup {Called(t) : t \in Inner(Plain \cup Tries, Branches(1) \cup Others \cup Raising)}
    \cup {Tailed(t, l) : t \in PlainTrees, l \in {CallWith(3, 8), TailIndirect}}

(* A loop whose body ends in a print. *)
LoopModules == {Tailed(<<Node("Loop", <<>>, <<>>, <<Put(1)>>)>>, Put(2))}

MCOracles == {<<0>>, <<1>>, <<0, 1>>, <<1, 0>>, <<1, 1, 0>>}
=============================================================================
