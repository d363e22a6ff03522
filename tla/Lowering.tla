------------------------------ MODULE Lowering ------------------------------
(***************************************************************************)
(* src/lower.rs: structured code to basic blocks.  A builder b goes over   *)
(* the nodes of a function once; it keeps the blocks closed so far, the    *)
(* open one (curr, insts), the number of the next instruction (nextRef),   *)
(* and three stacks: the blocks that branches out of each label go to, the *)
(* dispatch blocks of the tries around, and the tags of the catch bodies   *)
(* around (0 for catch_all).  Four passes then tidy the blocks.  Functions *)
(* do not see one another here, so every step takes all of them along.     *)
(***************************************************************************)
EXTENDS StructuredCode

CONSTANTS Modules,    \* the modules to compile, each [funcs, entry, tags]
          Oracles     \* the inputs of a run, repeated for ever

VARIABLES source,     \* the module being compiled
          code,       \* per function, [blocks, entry]
          phase

vars == <<source, code, phase>>

Funcs == DOMAIN source.funcs

-----------------------------------------------------------------------------
(* The builder. *)

Builder(f) ==
    [blocks |-> <<>>, curr |-> 0, insts |-> <<>>, nextBlk |-> 1, labels |-> <<>>, nextRef |-> 0,
     eh |-> <<>>, catchTags |-> <<>>, result |-> <<>>, isEntry |-> f = source.entry,
     refused |-> FALSE]

Goto(id)               == Term("Goto", <<id>>, <<>>, <<>>)
Branch(cond, yes, no)  == Term("Branch", <<yes, no>>, <<>>, <<cond>>)

Alloc(b, n)   == [b EXCEPT !.nextBlk = @ + n]
Push(b, i)    == [b EXCEPT !.insts = Append(@, i), !.nextRef = @ + 1]
Finish(b, t)  == [b EXCEPT !.blocks = Append(@, [id |-> b.curr, insts |-> b.insts, term |-> t]),
                           !.insts = <<>>]
SwitchTo(b, id)            == [b EXCEPT !.curr = id]
FinishAndSwitch(b, t, id)  == SwitchTo(Finish(b, t), id)
Refuse(b)     == [b EXCEPT !.refused = TRUE]
Newest(b)     == IF b.nextRef = 0 THEN 0 ELSE b.nextRef - 1

(* resolve_depth. *)
HasLabel(b, d)    == d < Len(b.labels)
ResolveDepth(b, d) == b.labels[Len(b.labels) - d]

RECURSIVE LowerNodes(_, _)

(* A nested list whose label leads to block id. *)
LowerUnder(b, id, nodes) ==
    [LowerNodes([b EXCEPT !.labels = Append(@, id)], nodes) EXCEPT !.labels = b.labels]

-----------------------------------------------------------------------------
(* One operator per arm of lower_node; args are the refs of its operands.  *)

(* Slip: only code inside a try looks at the flag. *)
EmitPostCallCheck_InTryOnly(b, call) ==
    LET next == b.nextBlk
    IN  IF Len(b.eh) < 2 THEN b
        ELSE [FinishAndSwitch(Alloc(Push(b, Inst("ExcFlagGet", <<>>, <<>>)), 1),
                              Branch(b.nextRef, Last(b.eh), next), next)
              EXCEPT !.result = <<call>>]

(* Modules without tags have no handlers and no checks. *)
EmitPostCallCheck(b, call) ==
    LET next == b.nextBlk
    IN  IF b.eh = <<>> THEN b
        ELSE [FinishAndSwitch(Alloc(Push(b, Inst("ExcFlagGet", <<>>, <<>>)), 1),
                              Branch(b.nextRef, Last(b.eh), next), next)
              EXCEPT !.result = <<call>>]

LowerCall(b, n, args) == EmitPostCallCheck(Push(b, Inst(n.op, n.val, args)), b.nextRef)

(* maybe_fuse_tail_call. *)
FusesTailCall(b, args) ==
    /\ ~b.isEntry /\ b.insts # <<>> /\ Last(b.insts).op \in Calls
    /\ IF args # <<>> THEN args[1] = Newest(b)
                      ELSE source.funcs[Last(b.insts).val[1]].results = 0

LowerReturn(b, args) ==
    LET call == Last(b.insts)
    IN  IF FusesTailCall(b, args)
        THEN FinishAndSwitch([Alloc(b, 1) EXCEPT !.insts = Front(@)],
                             Term(call.op, <<>>, call.val, call.args), b.nextBlk)
        ELSE FinishAndSwitch(Alloc(b, 1), Term("Return", <<>>, <<>>, args), b.nextBlk)

LowerUnreachable(b) ==
    FinishAndSwitch(Alloc(b, 1), Term("Unreachable", <<>>, <<>>, <<>>), b.nextBlk)

LowerBlock(b, n) ==
    LET body == b.nextBlk
        end  == b.nextBlk + 1
        in   == LowerUnder(FinishAndSwitch(Alloc(b, 2), Goto(body), body), end, n.bodies[1])
    IN  FinishAndSwitch(in, Goto(end), end)

(* A body whose last block holds instructions goes back to the header. *)
LowerLoop(b, n) ==
    LET header == b.nextBlk
        end    == b.nextBlk + 1
        in     == LowerUnder(FinishAndSwitch(Alloc(b, 2), Goto(header), header), header, n.bodies[1])
    IN  FinishAndSwitch(in, Goto(IF in.insts = <<>> THEN end ELSE header), end)

LowerIf(b, n, args) ==
    LET then == b.nextBlk
        else == b.nextBlk + 1
        end  == b.nextBlk + 2
        test == FinishAndSwitch(Alloc(b, 3), Branch(args[1], then, else), then)
        yes  == FinishAndSwitch(LowerUnder(test, end, n.bodies[1]), Goto(end), else)
    IN  FinishAndSwitch(LowerUnder(yes, end, n.bodies[2]), Goto(end), end)

(* Br, BrIf and BrTable. *)
LowerBranch(b, n, args) ==
    LET targets == [k \in DOMAIN n.val |-> ResolveDepth(b, n.val[k])]
        next    == b.nextBlk
    IN  IF \E d \in ToSet(n.val) : ~HasLabel(b, d) THEN Refuse(b)
        ELSE FinishAndSwitch(Alloc(b, 1),
                 CASE n.op = "Br"      -> Goto(targets[1])
                   [] n.op = "BrIf"    -> Branch(args[1], targets[1], next)
                   [] n.op = "BrTable" -> Term("Switch", targets, <<>>, args), next)

(* Throw and Rethrow: the flag, the tag, and to the innermost handler. *)
Raise(b, tag) ==
    IF b.eh = <<>> THEN Refuse(b)
    ELSE FinishAndSwitch(Alloc(Push(b, Inst("ExcSet", <<tag>>, <<>>)), 1),
                         Goto(Last(b.eh)), b.nextBlk)

LowerThrow(b, n, args) ==
    Raise(IF args = <<>> THEN b ELSE Push(b, Inst("ExcPayloadSet", <<>>, args)), n.val[1])

LowerRethrow(b, n) ==
    IF n.val[1] # 0 \/ b.catchTags = <<>> \/ Last(b.catchTags) = 0 THEN Refuse(b)
    ELSE Raise(b, Last(b.catchTags))

-----------------------------------------------------------------------------
(* lower_try. *)

(* Slip: catch bodies still belong to the try. *)
LowerCatch_InsideTry(b, own, merge, tag, body, dispatch) ==
    LET in == LowerUnder([Push(SwitchTo(b, own), Inst("ExcClear", <<>>, <<>>)) EXCEPT
                              !.catchTags = Append(@, tag), !.eh = Append(@, dispatch)], merge, body)
    IN  FinishAndSwitch([in EXCEPT !.catchTags = Front(@), !.eh = Front(@)], Goto(merge), merge)

LowerCatch(b, own, merge, tag, body, dispatch) ==
    LET in == LowerUnder([Push(SwitchTo(b, own), Inst("ExcClear", <<>>, <<>>)) EXCEPT
                              !.catchTags = Append(@, tag)], merge, body)
    IN  FinishAndSwitch([in EXCEPT !.catchTags = Front(@)], Goto(merge), merge)

(* One test of the dispatch: the tag raised against a catch's own. *)
LowerDispatch(b, tag, own) ==
    LET raised == Push(b, Inst("ExcTagGet", <<>>, <<>>))
        wanted == Push(raised, Inst("Const", <<tag>>, <<>>))
        equal  == Push(wanted, Inst("Eq", <<>>, <<b.nextRef, b.nextRef + 1>>))
    IN  FinishAndSwitch(Alloc(equal, 1), Branch(b.nextRef + 2, own, b.nextBlk), b.nextBlk)

LowerTry(b, n) ==
    LET tags     == n.val
        typed    == SelectSeq(tags, LAMBDA t : t # 0)
        body     == b.nextBlk
        dispatch == b.nextBlk + 1
        merge    == b.nextBlk + 2
        forward  == b.nextBlk + 3
        own(k)   == b.nextBlk + 3 + k
        ahead    == FinishAndSwitch(Alloc(b, 4 + Len(tags)), Goto(body), body)
        tried    == LowerUnder([ahead EXCEPT !.eh = Append(@, dispatch)], merge, n.bodies[1])
        closed   == FinishAndSwitch([tried EXCEPT !.eh = Front(@)], Goto(merge), dispatch)
        tested   == FoldLeft(LAMBDA c, k : LowerDispatch(c, tags[k], own(k)), closed,
                             [k \in DOMAIN typed |-> k])
        last     == IF typed = tags THEN forward ELSE own(Len(tags))
        passed   == FinishAndSwitch(FinishAndSwitch(tested, Goto(last), forward),
                                    Goto(Last(b.eh)), merge)
    IN  IF b.eh = <<>> THEN Refuse(b)
        ELSE FoldLeft(LAMBDA c, k : LowerCatch(c, own(k), merge, tags[k], n.bodies[k + 1], dispatch),
                      passed, [k \in DOMAIN tags |-> k])

-----------------------------------------------------------------------------
LowerNode(b, n, args) ==
    CASE n.op \in Simple      -> Push(b, Inst(n.op, n.val, IF n.op = "Drop" THEN <<>> ELSE args))
      [] n.op = "Payload"     -> Push(b, Inst("ExcPayloadGet", <<>>, <<>>))
      [] n.op \in Calls       -> LowerCall(b, n, args)
      [] n.op = "Return"      -> LowerReturn(b, args)
      [] n.op = "Unreachable" -> LowerUnreachable(b)
      [] n.op = "Block"       -> LowerBlock(b, n)
      [] n.op = "Loop"        -> LowerLoop(b, n)
      [] n.op = "If"          -> LowerIf(b, n, args)
      [] n.op \in {"Br", "BrIf", "BrTable"} -> LowerBranch(b, n, args)
      [] n.op = "Try"         -> LowerTry(b, n)
      [] n.op = "Delegate"    -> IF n.val[1] # 0 THEN Refuse(b) ELSE LowerBlock(b, n)
      [] n.op = "Throw"       -> LowerThrow(b, n, args)
      [] n.op = "Rethrow"     -> LowerRethrow(b, n)

(* lower_block_nodes: a node's value is the newest instruction, or what    *)
(* the node says it is.                                                    *)
LowerNodes(b, nodes) ==
    LET step(acc, n) ==
            LET r == LowerNode([acc.b EXCEPT !.result = <<>>], n,
                               Evaluated([k \in DOMAIN n.args |-> acc.refs[n.args[k]]]))
            IN  IF acc.b.refused THEN acc
                ELSE [b    |-> [r EXCEPT !.result = <<>>],
                      refs |-> Append(acc.refs, IF r.result = <<>> THEN Newest(r) ELSE r.result[1])]
    IN  FoldLeft(step, [b |-> b, refs |-> <<>>], nodes).b

(* The builder of function f after its body: in a module with tags, block  *)
(* 1 is where exceptions leave the function.                               *)
LoweredBody(f) ==
    LET start == IF source.tags THEN [Alloc(Builder(f), 1) EXCEPT !.eh = <<1>>] ELSE Builder(f)
        body  == Finish(LowerNodes(start, source.funcs[f].body), Term("Return", <<>>, <<>>, <<>>))
    IN  IF source.tags THEN Finish(SwitchTo(body, 1), Term("UncaughtExit", <<>>, <<>>, <<>>)) ELSE body

-----------------------------------------------------------------------------
(* The passes, on the code of one function. *)

Retargeted(blocks, map) ==
    [k \in DOMAIN blocks |-> [blocks[k] EXCEPT !.term.targets =
        [m \in DOMAIN @ |-> IF @[m] \in DOMAIN map THEN map[@[m]] ELSE @[m]]]]

MovesOn(b) == b.insts = <<>> /\ b.term.op = "Goto" /\ b.term.targets[1] # b.id

Redirects(blocks) ==
    LET on == {k \in DOMAIN blocks : MovesOn(blocks[k])}
    IN  [id \in {blocks[k].id : k \in on} |->
            blocks[CHOOSE k \in on : blocks[k].id = id].term.targets[1]]

(* Slip: one hop only. *)
Resolved_OneHop(redirects, id) == redirects[id]

(* Where a walk along the redirects ends; a cycle ends it too. *)
Resolved(redirects, id) ==
    LET hop(r, n) ==
            IF r.curr \notin DOMAIN redirects \/ redirects[r.curr] \in r.visited THEN r
            ELSE [curr |-> redirects[r.curr], visited |-> r.visited \cup {redirects[r.curr]}]
    IN  FoldLeft(hop, [curr |-> id, visited |-> {id}],
                 [n \in 1..Cardinality(DOMAIN redirects) |-> n]).curr

RemoveEmpty(fn) ==
    LET redirects == Redirects(fn.blocks)
        map       == [id \in DOMAIN redirects |-> Resolved(redirects, id)]
    IN  [blocks |-> SelectSeq(Retargeted(fn.blocks, map), LAMBDA b : ~MovesOn(b)),
         entry  |-> IF fn.entry \in DOMAIN map THEN map[fn.entry] ELSE fn.entry]

(* Block ids become positions, from 0. *)
Renumber(fn) ==
    LET map == [id \in {fn.blocks[k].id : k \in DOMAIN fn.blocks} |->
                   Max({k \in DOMAIN fn.blocks : fn.blocks[k].id = id}) - 1]
        aimed == Retargeted(fn.blocks, map)
    IN  [blocks |-> [k \in DOMAIN aimed |-> [aimed[k] EXCEPT !.id = k - 1]],
         entry  |-> map[fn.entry]]

Live(fn) ==
    FoldLeft(LAMBDA live, b : live \cup UNION {ToSet(fn.blocks[id + 1].term.targets) : id \in live},
             {fn.entry}, fn.blocks)

RefsOf(b) == ToSet(b.term.args) \cup UNION {ToSet(b.insts[n].args) : n \in DOMAIN b.insts}

(* The refs of the instructions in live blocks. *)
LiveRefs(fn) ==
    LET live == Live(fn)
    IN  UNION {RefBase(fn.blocks, k)..(RefBase(fn.blocks, k) + Len(fn.blocks[k].insts) - 1) :
                   k \in {k \in DOMAIN fn.blocks : fn.blocks[k].id \in live}}

(* Slip: refs keep their numbers. *)
RefRemap_Same(fn) == [r \in LiveRefs(fn) |-> r]

RefRemap(fn) ==
    LET live == LiveRefs(fn) IN [r \in live |-> Cardinality({q \in live : q < r})]

(* Any other ref stops the compiler: "missing IrRef remap". *)
RefsSurvive(fn) ==
    LET live == Live(fn)
        refs == LiveRefs(fn)
    IN  \A k \in DOMAIN fn.blocks : fn.blocks[k].id \in live => RefsOf(fn.blocks[k]) \subseteq refs

RemoveDead(fn) ==
    LET live          == Live(fn)
        remap         == RefRemap(fn)
        renamed(args) == [m \in DOMAIN args |-> remap[args[m]]]
        moved(b)      == [b EXCEPT !.insts     = [n \in DOMAIN @ |-> [@[n] EXCEPT !.args = renamed(@)]],
                                   !.term.args = renamed(@)]
        kept          == SelectSeq(fn.blocks, LAMBDA b : b.id \in live)
    IN  [fn EXCEPT !.blocks = [k \in DOMAIN kept |-> moved(kept[k])]]

-----------------------------------------------------------------------------
Init ==
    /\ source \in Modules
    /\ code = <<>>
    /\ phase = "tree"

Lower ==
    LET lowered == [f \in Funcs |-> LoweredBody(f)]
    IN  /\ phase = "tree"
        /\ IF \E f \in Funcs : lowered[f].refused
           THEN phase' = "refused" /\ UNCHANGED code
           ELSE /\ phase' = "lowered"
                /\ code' = [f \in Funcs |-> [blocks |-> lowered[f].blocks, entry |-> 0]]
        /\ UNCHANGED source

Pass(from, to, new) ==
    /\ phase = from
    /\ phase' = to
    /\ code' = new
    /\ UNCHANGED source

RemoveDeadBlocks ==
    /\ phase = "numbered"
    /\ IF \A f \in Funcs : RefsSurvive(code[f])
       THEN phase' = "live" /\ code' = [f \in Funcs |-> RemoveDead(code[f])]
       ELSE phase' = "failed" /\ UNCHANGED code
    /\ UNCHANGED source

Next ==
    \/ Lower
    \/ Pass("lowered", "packed", [f \in Funcs |-> RemoveEmpty(code[f])])
    \/ Pass("packed", "numbered", [f \in Funcs |-> Renumber(code[f])])
    \/ RemoveDeadBlocks
    \/ Pass("live", "done", [f \in Funcs |-> Renumber(code[f])])

Spec == Init /\ [][Next]_vars

-----------------------------------------------------------------------------
(* Properties. *)

(* Lowering opens blocks in one order and closes them in another, and a    *)
(* construct leaves the builder in a block it did not start: after every   *)
(* pass a function still has one block per id, and every jump, dispatch    *)
(* and forward leads to one of them.                                       *)
BlocksClosedOnce ==
    phase # "failed" /\ \A f \in DOMAIN code :
        LET ids == {code[f].blocks[k].id : k \in DOMAIN code[f].blocks}
        IN  /\ Cardinality(ids) = Len(code[f].blocks)
            /\ code[f].entry \in ids
            /\ \A k \in DOMAIN code[f].blocks : ToSet(code[f].blocks[k].term.targets) \subseteq ids

(* Refs count instructions in the order of the blocks, while the builder   *)
(* numbers them as it goes and the passes drop blocks: an operand of live  *)
(* code names an earlier instruction of live code that yields a value.     *)
RefsNameValues ==
    \A f \in DOMAIN code :
        LET fn     == code[f]
            starts == [k \in DOMAIN fn.blocks |-> RefBase(fn.blocks, k)]
            at(id) == CHOOSE k \in DOMAIN fn.blocks : fn.blocks[k].id = id
            grow(reached, b) ==
                reached \cup UNION {{at(t) : t \in ToSet(fn.blocks[k].term.targets)} : k \in reached}
            live   == FoldLeft(grow, {at(fn.entry)}, fn.blocks)
            values(k, n) == {starts[k] + j - 1 : j \in {j \in 1..(n - 1) : fn.blocks[k].insts[j].op \in Yields}}
            before(k, n) == values(k, n) \cup
                UNION {values(j, Len(fn.blocks[j].insts) + 1) : j \in {j \in live : j < k}}
        IN  \A k \in live :
               /\ ToSet(fn.blocks[k].term.args) \subseteq before(k, Len(fn.blocks[k].insts) + 1)
               /\ \A n \in DOMAIN fn.blocks[k].insts :
                     ToSet(fn.blocks[k].insts[n].args) \subseteq before(k, n)

(* After lowering and after each pass, running the blocks prints what the  *)
(* tree prints and ends as it ends, whatever the input: branches out of    *)
(* any depth, calls in tail position, exceptions caught here, in a caller  *)
(* or nowhere.                                                             *)
SameMeaning ==
    code # <<>> => \A oracle \in Oracles :
        Agrees(RunBlocks(source, code, oracle), RunTree(source, oracle),
               source.funcs[source.entry].results)

(* The one exception state is shared by all functions and tested after     *)
(* every call: when a run ends, it is pending if and only if nobody caught *)
(* it; a flag left up would make a later call look as if it had thrown.    *)
FlagMeansPending ==
    code # <<>> => \A oracle \in Oracles :
        LET run == RunBlocks(source, code, oracle)
        IN  run.how \in {"go", "uncaught", "trap"} => (run.exc.flag = 1 <=> run.how = "uncaught")

=============================================================================
