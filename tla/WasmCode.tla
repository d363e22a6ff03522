------------------------------ MODULE WasmCode ------------------------------
(***************************************************************************)
(* The body of a WebAssembly function, and the tree that the parser makes  *)
(* of it (src/ast.rs), with what running each of them means.               *)
(*                                                                         *)
(* An operator is [op, val, ty, bodies]; it finds its operands on a stack. *)
(* A node of a tree has args besides: positions, from 1, of earlier nodes  *)
(* of its own list, in the order of the operands.  ty is the type of the   *)
(* value a construct leaves ("void": none), or that an operation is for.   *)
(*   Const <<v>>   Add, Sub, Mul, And, LtU, GtU (a, b)   Eqz (a)           *)
(*   MemorySize   TableSize                                                *)
(*   Get, Set, Tee <<l>>   GlobalGet   GlobalSet   Drop   Select (a, b, c) *)
(*   Load <<n>> (address)   Store <<n>> (address, v): n bytes              *)
(*   Call <<f>> (...)  CallIndirect <<f>> (..., index): f, or its type     *)
(*   Block, Loop, If (c), Try <<tag, ...>>, Delegate <<d>>: bodies         *)
(*   Br, BrIf <<d>>   BrTable <<d, ..., default>>   Return   Unreachable   *)
(*   Throw <<tag>>   Rethrow <<d>>                                         *)
(* Operators only: Nop, MemoryFill, MemoryCopy, ReturnCall,                *)
(* ReturnCallIndirect; nodes only: ExcPayloadGet.  Four stand for the      *)
(* fifteen binary operations of src/ast.rs, two for the ten comparisons,   *)
(* Eqz for the unary ones.  A try has a body more than tags; tag 0 catches *)
(* all.  Functions called are hosts: a call is seen, and answered.         *)
(***************************************************************************)
EXTENDS Integers, Sequences, SequencesExt, FiniteSetsExt, TLC, Bitwise

CONSTANTS BASE,        \* values of a byte: 256 in the program
          MemEnd,      \* bytes of memory
          Signatures,  \* [params, result] of each function
          PayloadTags, \* tags that carry a word
          Fuel         \* turns a loop may take

ASSUME WasmCodeAssumption == BASE \in Nat \ {0, 1} /\ MemEnd \in Nat /\ Fuel \in Nat

WORD == BASE ^ 4

Operator(op, val, ty, bodies)   == [op |-> op, val |-> val, ty |-> ty, bodies |-> bodies]
Node(op, val, ty, args, bodies) == [op |-> op, val |-> val, ty |-> ty, args |-> args, bodies |-> bodies]

LastN(s, n)    == SubSeq(s, Len(s) - n + 1, Len(s))
AllButN(s, n)  == SubSeq(s, 1, Len(s) - n)
Evaluated(s)   == <<>> \o s
Arity(ty)      == IF ty = "void" THEN 0 ELSE 1
Bit(b)         == IF b THEN 1 ELSE 0

-----------------------------------------------------------------------------
(* Operands and results; locals are the types of a function's locals, from *)
(* 1.                                                                      *)
BinOps == {"Add", "Sub", "Mul", "And"}
RelOps == {"LtU", "GtU"}

OperandTypes(o, locals) ==
    CASE o.op \in BinOps \cup RelOps -> <<o.ty, o.ty>>
      [] o.op \in {"Eqz", "GlobalSet", "Drop"} -> <<o.ty>>
      [] o.op \in {"Set", "Tee"}     -> <<locals[o.val[1]]>>
      [] o.op = "Load"               -> <<"i32">>
      [] o.op = "Store"              -> <<"i32", o.ty>>
      [] o.op = "Select"             -> <<o.ty, o.ty, "i32">>
      [] o.op = "Call"               -> Signatures[o.val[1]].params
      [] o.op = "CallIndirect"       -> Append(Signatures[o.val[1]].params, "i32")
      [] OTHER                       -> <<>>

ResultType(o, locals) ==
    CASE o.op \in RelOps \cup {"Eqz", "MemorySize", "TableSize", "ExcPayloadGet"} -> "i32"
      [] o.op \in BinOps \cup {"Const", "GlobalGet", "Load", "Select"} -> o.ty
      [] o.op \in {"Get", "Tee"}            -> locals[o.val[1]]
      [] o.op \in {"Call", "CallIndirect"}  -> Signatures[o.val[1]].result
      [] OTHER                              -> "void"

Yields(o) == /\ o.op \notin {"Set", "GlobalSet", "Drop", "Store"}
             /\ o.op \in {"Call", "CallIndirect"} => Signatures[o.val[1]].result # "void"

Operations == BinOps \cup RelOps \cup {"Const", "Eqz", "MemorySize", "TableSize", "Get", "Set", "Tee", "GlobalGet",
               "GlobalSet", "Drop", "Select", "Load", "Store", "Call", "CallIndirect"}

-----------------------------------------------------------------------------
(* A run: how says what comes next ("go", "br" out of to labels, "return", *)
(* "throw", "trap", "stuck" without fuel, "fault" if no such value was     *)
(* computed).                                                              *)
Begin(env, locals) ==
    [how |-> "go", to |-> 0, val |-> 0, stack |-> <<>>, local |-> locals, global |-> 0,
     mem |-> env.mem, out |-> <<>>, answers |-> env.answers, exc |-> [tag |-> 0, payload |-> 0]]

End(st, how)  == [st EXCEPT !.how = how]
Yield(st, v)  == [st EXCEPT !.val = v]
Go(st, depth) == [st EXCEPT !.how = "br", !.to = depth]
Picked(targets, index) == targets[Min({index + 1, Len(targets)})]

Read(mem, a, n)     == FoldLeft(LAMBDA acc, k : acc + mem[a + k - 1] * BASE ^ (k - 1), 0, [k \in 1..n |-> k])
Written(mem, a, bs) == [x \in DOMAIN mem |-> IF x \in a..(a + Len(bs) - 1) THEN bs[x - a + 1] ELSE mem[x]]
Bytes(v, n)         == [k \in 1..n |-> (v \div BASE ^ (k - 1)) % BASE]

Operate(st, o, vs) ==
    LET v     == vs[1]
        n     == o.val[1]
        outside == v + n > MemEnd
        asked == [st EXCEPT !.out = Append(@, o.val \o vs)]
        set(l, x) == [st EXCEPT !.local[l] = x]
    IN  CASE o.op = "Const"      -> Yield(st, n)
          [] o.op = "Sub"        -> Yield(st, (v - vs[2]) % WORD)
          [] o.op = "Add"        -> Yield(st, (v + vs[2]) % WORD)
          [] o.op = "Mul"        -> Yield(st, (v * vs[2]) % WORD)
          [] o.op = "And"        -> Yield(st, v & vs[2])
          [] o.op = "LtU"        -> Yield(st, Bit(v < vs[2]))
          [] o.op = "GtU"        -> Yield(st, Bit(v > vs[2]))
          [] o.op = "Eqz"        -> Yield(st, Bit(v = 0))
          [] o.op = "MemorySize" -> Yield(st, 1)
          [] o.op = "TableSize"  -> Yield(st, 2)
          [] o.op = "Get"        -> Yield(st, st.local[n])
          [] o.op = "Set"        -> set(n, v)
          [] o.op = "Tee"        -> Yield(set(n, v), v)
          [] o.op = "GlobalGet"  -> Yield(st, st.global)
          [] o.op = "GlobalSet"  -> [st EXCEPT !.global = v]
          [] o.op = "Drop"       -> st
          [] o.op = "Select"     -> Yield(st, IF vs[3] # 0 THEN v ELSE vs[2])
          [] o.op = "Load"       -> IF outside THEN End(st, "trap") ELSE Yield(st, Read(st.mem, v, n))
          [] o.op = "Store"      -> IF outside THEN End(st, "trap")
                                    ELSE [st EXCEPT !.mem = Written(@, v, Bytes(vs[2], n))]
          [] o.op \in {"Call", "CallIndirect"} ->
                 IF Signatures[n].result = "void" THEN asked
                 ELSE [Yield(asked, Head(st.answers)) EXCEPT !.answers = Append(Tail(@), Head(@))]

PastLabel(st) ==
    IF st.how # "br" THEN st ELSE IF st.to = 0 THEN End(st, "go") ELSE [st EXCEPT !.to = @ - 1]

(* turn(_) runs the body of a loop once. *)
Looped(st, turn(_)) ==
    LET again(s) == s.how = "br" /\ s.to = 0
        r        == FoldLeft(LAMBDA s, n : IF again(s) THEN turn(End(s, "go")) ELSE s,
                             Go(st, 0), [n \in 1..Fuel |-> n])
    IN  IF again(r) THEN End(r, "stuck") ELSE PastLabel(r)

(* What happens after the body of a try; handle(_, k) runs the k-th catch. *)
Handled(st, tags, handle(_, _)) ==
    LET matches == {k \in DOMAIN tags : tags[k] \in {st.exc.tag, 0}}
    IN  IF st.how = "throw" /\ matches # {} THEN handle(End(st, "go"), Min(matches)) ELSE st

-----------------------------------------------------------------------------
(* Operators on a stack of values, as WebAssembly defines them.  caught    *)
(* has the exceptions of the catches around, the innermost last.           *)

RECURSIVE RunOps(_, _, _)

RunOp(st, o, caught) ==
    LET top     == Last(st.stack)
        popped  == [st EXCEPT !.stack = Front(@)]
        inner   == [(IF o.op = "If" THEN popped ELSE st) EXCEPT !.stack = <<>>]
        outer   == IF o.op = "If" THEN popped.stack ELSE st.stack
        (* A branch carries what the label takes and leaves the rest. *)
        leave(s) == IF s.how = "go" THEN [s EXCEPT !.stack = outer \o LastN(@, Arity(o.ty))] ELSE s
        in(s, k)    == RunOps(s, o.bodies[k], caught)
        catch(s, k) ==
            RunOps([s EXCEPT !.stack = IF s.exc.tag \in PayloadTags /\ o.val[k] # 0
                                       THEN <<s.exc.payload>> ELSE <<>>],
                   o.bodies[k + 1], Append(caught, s.exc))
        region(a, n) == a + n <= MemEnd
        n3      == LastN(st.stack, 3)
        filled  == Written(st.mem, n3[1], [k \in 1..n3[3] |-> n3[2] % BASE])
        copied  == Written(st.mem, n3[1], [k \in 1..n3[3] |-> st.mem[n3[2] + k - 1]])
        put(m)  == [st EXCEPT !.mem = m, !.stack = AllButN(@, 3)]
        call    == [o EXCEPT !.op = IF @ = "ReturnCall" THEN "Call" ELSE "CallIndirect"]
        n       == Len(OperandTypes(o, st.local))
        r       == Operate(st, o, LastN(st.stack, n))
    IN  CASE o.op \in Operations   -> [r EXCEPT !.stack = AllButN(@, n) \o
                                                         (IF Yields(o) THEN <<r.val>> ELSE <<>>)]
          [] o.op = "Nop"          -> st
          [] o.op = "Block"        -> leave(PastLabel(in(inner, 1)))
          [] o.op = "Delegate"     -> leave(PastLabel(in(inner, 1)))
          [] o.op = "If"           -> IF top # 0 THEN leave(PastLabel(in(inner, 1)))
                                      ELSE IF Len(o.bodies) = 2 THEN leave(PastLabel(in(inner, 2)))
                                      ELSE popped
          [] o.op = "Loop"         -> leave(Looped(inner, LAMBDA s : in([s EXCEPT !.stack = <<>>], 1)))
          [] o.op = "Try"          -> leave(PastLabel(Handled(in(inner, 1), o.val, catch)))
          [] o.op = "Br"           -> Go(st, o.val[1])
          [] o.op = "BrIf"         -> IF top # 0 THEN Go(popped, o.val[1]) ELSE popped
          [] o.op = "BrTable"      -> Go(popped, Picked(o.val, top))
          [] o.op = "Return"       -> End(Yield(st, IF st.stack = <<>> THEN 0 ELSE top), "return")
          [] o.op = "Unreachable"  -> End(st, "trap")
          [] o.op = "Throw"        -> End([st EXCEPT !.exc = [tag |-> o.val[1],
                                           payload |-> IF o.val[1] \in PayloadTags THEN top ELSE 0]], "throw")
          [] o.op = "Rethrow"      -> End([st EXCEPT !.exc = Last(caught)], "throw")
          [] o.op = "MemoryFill"   -> IF region(n3[1], n3[3]) THEN put(filled) ELSE End(st, "trap")
          [] o.op = "MemoryCopy"   -> IF region(n3[1], n3[3]) /\ region(n3[2], n3[3]) THEN put(copied)
                                      ELSE End(st, "trap")
          [] o.op \in {"ReturnCall", "ReturnCallIndirect"} ->
                 LET s == RunOps(st, <<call>>, caught)
                 IN  End(Yield(s, IF s.stack = <<>> THEN 0 ELSE Last(s.stack)), "return")

RunOps(st, ops, caught) ==
    FoldLeft(LAMBDA s, o : IF s.how = "go" THEN RunOp(s, o, caught) ELSE s, st, ops)

-----------------------------------------------------------------------------
(* Nodes, each computed once, where it stands. *)

RECURSIVE RunNodes(_, _, _)

RunNode(st, n, vs, caught) ==
    LET v           == IF vs = <<>> THEN 0 ELSE vs[1]
        in(s, k)    == RunNodes(s, n.bodies[k], caught)
        catch(s, k) == RunNodes(s, n.bodies[k + 1], Append(caught, s.exc))
    IN  CASE n.op \in Operations        -> Operate(st, n, vs)
          [] n.op = "ExcPayloadGet"     -> Yield(st, Last(caught).payload)
          [] n.op \in {"Block", "Delegate"} -> PastLabel(in(st, 1))
          [] n.op = "If"                -> PastLabel(in(st, IF v # 0 THEN 1 ELSE 2))
          [] n.op = "Loop"              -> Looped(st, LAMBDA s : in(s, 1))
          [] n.op = "Try"               -> PastLabel(Handled(in(st, 1), n.val, catch))
          [] n.op = "Br"                -> Go(st, n.val[1])
          [] n.op = "BrIf"              -> IF v # 0 THEN Go(st, n.val[1]) ELSE st
          [] n.op = "BrTable"           -> Go(st, Picked(n.val, v))
          [] n.op = "Return"            -> End(Yield(st, v), "return")
          [] n.op = "Unreachable"       -> End(st, "trap")
          [] n.op = "Throw"             -> End([st EXCEPT !.exc = [tag |-> n.val[1], payload |-> v]], "throw")
          [] n.op = "Rethrow"           -> End([st EXCEPT !.exc = Last(caught)], "throw")

RunNodes(st, nodes, caught) ==
    LET values(acc, n) == Evaluated([k \in DOMAIN n.args |-> acc.vals[n.args[k]]])
        step(acc, n) ==
            CASE acc.st.how # "go" -> acc
              [] acc.st.how = "go" /\ ~(ToSet(n.args) \subseteq DOMAIN acc.vals) ->
                     [acc EXCEPT !.st = End(@, "fault")]
              [] OTHER -> LET r == RunNode(acc.st, n, values(acc, n), caught)
                          IN  [st |-> r, vals |-> Append(acc.vals, r.val)]
    IN  FoldLeft(step, [st |-> st, vals |-> <<>>], nodes).st
=============================================================================
