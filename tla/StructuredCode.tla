--------------------------- MODULE StructuredCode ---------------------------
(***************************************************************************)
(* The trees that the parser builds (src/ast.rs), what running one means,  *)
(* and what running the blocks made from it (src/ir.rs) means.             *)
(*                                                                         *)
(* A node is [op, val, args, bodies]: immediates, the values it reads (the *)
(* positions, from 1, of earlier nodes of its own list) and nested lists.  *)
(*   Const <<v>>  Read  Get  Set(v)  Put(v)  Drop(v)     one local, one    *)
(*   Call <<f>>   CallIndirect <<f>> (index, ...)        input, one output *)
(*   Return(v)    Unreachable                                              *)
(*   Block <<b>>  Loop <<b>>  If(c) <<b, b>>                               *)
(*   Br <<d>>     BrIf <<d>>(c)    BrTable <<d, ..., default>>(i)          *)
(*   Try <<t, ...>> <<b, c, ...>>  a catch per tag; tag 0 is catch_all     *)
(*   Delegate <<d>> <<b>>          Throw <<t>>(v)   Rethrow <<d>>  Payload *)
(* CallIndirect names a function of its type; its index picks the callee.  *)
(*                                                                         *)
(* Every run has a state of the same shape.  how says what comes next:     *)
(* "go", "br" (out of to labels), "return", "throw", "trap", "stuck" when  *)
(* Fuel or MaxCalls is used up, "uncaught", or "fault": a value that no    *)
(* instruction has produced was read.                                      *)
(***************************************************************************)
EXTENDS Integers, Sequences, SequencesExt, FiniteSetsExt, Functions, TLC

CONSTANTS Fuel,       \* iterations a run of a loop may take
          BlockFuel,  \* blocks an activation of a function may take
          MaxCalls    \* activations of a run that may be open at once

ASSUME StructuredCodeAssumption == Fuel \in Nat /\ BlockFuel \in Nat /\ MaxCalls \in Nat

(* The sequence s; TLC would keep a function constructor unevaluated. *)
Evaluated(s) == <<>> \o s

Node(op, val, args, bodies) == [op |-> op, val |-> val, args |-> args, bodies |-> bodies]

NoException == [flag |-> 0, tag |-> 0, payload |-> 0]

Begin(oracle) ==
    [how |-> "go", to |-> 0, val |-> 0, local |-> 0, calls |-> 0, out |-> <<>>,
     answers |-> oracle, exc |-> NoException, at |-> 0, refs |-> <<>>]

Yield(st, v) == [st EXCEPT !.val = v]

(* The instructions that trees and blocks share, on operands vs. *)
Simple == {"Const", "Read", "Get", "Set", "Put", "Drop"}

DoSimple(st, op, val, vs) ==
    CASE op = "Const" -> Yield(st, val[1])
      [] op = "Read"  -> [st EXCEPT !.val = Head(st.answers), !.answers = Append(Tail(@), Head(@))]
      [] op = "Get"   -> Yield(st, st.local)
      [] op = "Set"   -> [st EXCEPT !.local = vs[1]]
      [] op = "Put"   -> [st EXCEPT !.out = Append(@, vs[1])]
      [] op = "Drop"  -> st

Calls == {"Call", "CallIndirect"}

Callee(op, val, vs)    == IF op = "Call" THEN val[1] ELSE vs[1]
Arguments(op, vs)      == IF op = "Call" THEN vs ELSE Tail(vs)
Entered(st, arguments) == [st EXCEPT !.calls = @ + 1, !.refs = <<>>,
                                     !.local = IF arguments = <<>> THEN 0 ELSE arguments[1]]
Left(st, caller)       == [st EXCEPT !.calls = caller.calls, !.local = caller.local,
                                     !.refs = caller.refs, !.at = caller.at]

Picked(targets, index) == targets[Min({index + 1, Len(targets)})]

-----------------------------------------------------------------------------
(* What a tree means: m = [funcs, entry, tags] is a module, a function is  *)
(* [body, results], and caught holds the exceptions of the catch bodies    *)
(* around a node, the innermost last.                                      *)

RECURSIVE EvalNodes(_, _, _, _)

(* The end of a labelled construct. *)
PastLabel(st) ==
    IF st.how # "br" THEN st
    ELSE IF st.to = 0 THEN [st EXCEPT !.how = "go"] ELSE [st EXCEPT !.to = @ - 1]

EvalLoop(m, st, body, caught) ==
    LET again(s)   == s.how = "br" /\ s.to = 0
        turn(s, n) == IF again(s) THEN EvalNodes(m, [s EXCEPT !.how = "go"], body, caught) ELSE s
        r          == FoldLeft(turn, [st EXCEPT !.how = "br", !.to = 0], [n \in 1..Fuel |-> n])
    IN  IF again(r) THEN [r EXCEPT !.how = "stuck"] ELSE PastLabel(r)

EvalTry(m, st, n, caught) ==
    LET r       == EvalNodes(m, st, n.bodies[1], caught)
        matches == {k \in DOMAIN n.val : n.val[k] \in {r.exc.tag, 0}}
        k       == Min(matches)
    IN  PastLabel(IF r.how = "throw" /\ matches # {}
                  THEN EvalNodes(m, [r EXCEPT !.how = "go"], n.bodies[k + 1], Append(caught, r.exc))
                  ELSE r)

EvalCall(m, st, f, arguments) ==
    IF st.calls = MaxCalls THEN [st EXCEPT !.how = "stuck"]
    ELSE LET r == EvalNodes(m, Entered(st, arguments), m.funcs[f].body, <<>>)
         IN  [Left(r, st) EXCEPT !.how = IF @ \in {"return", "br"} THEN "go" ELSE @]

EvalNode(m, st, n, vs, caught) ==
    LET op     == n.op
        val    == IF vs = <<>> THEN 0 ELSE vs[1]
        go(d)  == [st EXCEPT !.how = "br", !.to = d]
        end(h) == [st EXCEPT !.how = h]
        in(b)  == PastLabel(EvalNodes(m, st, b, caught))
    IN  CASE op \in Simple        -> DoSimple(st, op, n.val, vs)
          [] op \in Calls         -> EvalCall(m, st, Callee(op, n.val, vs), Arguments(op, vs))
          [] op = "Return"        -> Yield(end("return"), val)
          [] op = "Unreachable"   -> end("trap")
          [] op \in {"Block", "Delegate"} -> in(n.bodies[1])
          [] op = "If"            -> in(n.bodies[IF val # 0 THEN 1 ELSE 2])
          [] op = "Loop"          -> EvalLoop(m, st, n.bodies[1], caught)
          [] op = "Br"            -> go(n.val[1])
          [] op = "BrIf"          -> IF val # 0 THEN go(n.val[1]) ELSE st
          [] op = "BrTable"       -> go(Picked(n.val, val))
          [] op = "Try"           -> EvalTry(m, st, n, caught)
          [] op = "Throw"         -> [end("throw") EXCEPT !.exc = [flag |-> 1, tag |-> n.val[1],
                                                                   payload |-> val]]
          [] op = "Rethrow"       -> [end("throw") EXCEPT !.exc = Last(caught)]
          [] op = "Payload"       -> Yield(st, Last(caught).payload)

EvalNodes(m, st, nodes, caught) ==
    LET step(acc, n) ==
            IF acc.st.how # "go" THEN acc
            ELSE LET r == EvalNode(m, acc.st, n, Evaluated([k \in DOMAIN n.args |-> acc.vals[n.args[k]]]), caught)
                 IN  [st |-> r, vals |-> Append(acc.vals, r.val)]
    IN  FoldLeft(step, [st |-> st, vals |-> <<>>], nodes).st

RunTree(m, oracle) == EvalCall(m, Begin(oracle), m.entry, <<>>)

-----------------------------------------------------------------------------
(* What blocks mean.  The code of a function is [blocks, entry], a block   *)
(* [id, insts, term]; an instruction is [op, val, args] and a terminator   *)
(* [op, targets, val, args], whose args are refs: instructions of the      *)
(* function counted from 0 in the order of the blocks (ref_base).          *)

Inst(op, val, args)          == [op |-> op, val |-> val, args |-> args]
Term(op, targets, val, args) == [op |-> op, targets |-> targets, val |-> val, args |-> args]

RefBase(blocks, k) == FoldLeft(LAMBDA n, b : n + Len(b.insts), 0, SubSeq(blocks, 1, k - 1))

(* Instructions whose result later ones may read. *)
Yields == {"Const", "Read", "Get", "Call", "CallIndirect", "Eq",
           "ExcFlagGet", "ExcTagGet", "ExcPayloadGet"}

RECURSIVE ExecFunc(_, _, _, _, _)

ExecInst(m, code, st, i, vs) ==
    CASE i.op \in Simple         -> DoSimple(st, i.op, i.val, vs)
      [] i.op \in Calls          -> ExecFunc(m, code, st, Callee(i.op, i.val, vs), Arguments(i.op, vs))
      [] i.op = "Eq"             -> Yield(st, IF vs[1] = vs[2] THEN 1 ELSE 0)
      [] i.op = "ExcSet"         -> [st EXCEPT !.exc.flag = 1, !.exc.tag = i.val[1]]
      [] i.op = "ExcClear"       -> [st EXCEPT !.exc.flag = 0]
      [] i.op = "ExcPayloadSet"  -> [st EXCEPT !.exc.payload = vs[1]]
      [] i.op = "ExcFlagGet"     -> Yield(st, st.exc.flag)
      [] i.op = "ExcTagGet"      -> Yield(st, st.exc.tag)
      [] i.op = "ExcPayloadGet"  -> Yield(st, st.exc.payload)

ExecTerm(m, code, st, f, t, vs) ==
    LET goto(id) == [st EXCEPT !.at = id]
        end(h)   == [st EXCEPT !.how = h]
    IN  CASE t.op = "Goto"        -> goto(t.targets[1])
          [] t.op = "Branch"      -> goto(t.targets[IF vs[1] # 0 THEN 1 ELSE 2])
          [] t.op = "Switch"      -> goto(Picked(t.targets, vs[1]))
          [] t.op \in Calls       -> LET r == ExecFunc(m, code, st, Callee(t.op, t.val, vs),
                                                       Arguments(t.op, vs))
                                     IN  IF r.how = "go" THEN [r EXCEPT !.how = "return"] ELSE r
          [] t.op = "Return"      -> Yield(end("return"), IF vs = <<>> THEN 0 ELSE vs[1])
          [] t.op = "Unreachable" -> end("trap")
          [] t.op = "UncaughtExit" -> end(IF f = m.entry THEN "uncaught" ELSE "return")

ExecBlock(m, code, st, f, k) ==
    LET b        == code[f].blocks[k]
        base     == RefBase(code[f].blocks, k)
        ready(s, x)  == s.how = "go" /\ ToSet(x.args) \subseteq DOMAIN s.refs
        values(s, x) == Evaluated([n \in DOMAIN x.args |-> s.refs[x.args[n]]])
        fault(s)     == IF s.how = "go" THEN [s EXCEPT !.how = "fault"] ELSE s
        inst(s, n)   ==
            LET i == b.insts[n]
                r == ExecInst(m, code, s, i, values(s, i))
            IN  IF ~ready(s, i) THEN fault(s)
                ELSE IF i.op \in Yields THEN [r EXCEPT !.refs = ((base + n - 1) :> r.val) @@ @]
                ELSE r
        ran      == FoldLeft(inst, st, [n \in DOMAIN b.insts |-> n])
    IN  IF ready(ran, b.term) THEN ExecTerm(m, code, ran, f, b.term, values(ran, b.term))
                              ELSE fault(ran)

RECURSIVE ExecFrom(_, _, _, _, _)
ExecFrom(m, code, st, f, fuel) ==
    LET here == {k \in DOMAIN code[f].blocks : code[f].blocks[k].id = st.at}
    IN  CASE st.how # "go" -> st
          [] st.how = "go" /\ fuel = 0  -> [st EXCEPT !.how = "stuck"]
          [] st.how = "go" /\ here = {} -> [st EXCEPT !.how = "fault"]
          [] OTHER -> ExecFrom(m, code, ExecBlock(m, code, st, f, Min(here)), f, fuel - 1)

ExecFunc(m, code, st, f, arguments) ==
    LET r == ExecFrom(m, code, [Entered(st, arguments) EXCEPT !.at = code[f].entry], f, BlockFuel)
    IN  IF st.calls = MaxCalls THEN [st EXCEPT !.how = "stuck"]
        ELSE [Left(r, st) EXCEPT !.how = IF @ = "return" THEN "go" ELSE @]

RunBlocks(m, code, oracle) == ExecFunc(m, code, Begin(oracle), m.entry, <<>>)

-----------------------------------------------------------------------------
(* The blocks do what the tree does, as far as the tree was run. *)
Agrees(blocks, tree, results) ==
    IF tree.how = "stuck" THEN IsPrefix(tree.out, blocks.out)
    ELSE /\ blocks.out = tree.out
         /\ blocks.how = IF tree.how = "throw" THEN "uncaught" ELSE tree.how
         /\ tree.how = "go" /\ results = 1 => blocks.val = tree.val
=============================================================================
