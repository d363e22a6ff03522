------------------------------- MODULE Parse -------------------------------
(***************************************************************************)
(* parse_function (src/parse/mod.rs) and its frames (src/parse/frame.rs):  *)
(* the operators of a function, one after the other, become a tree.        *)
(*                                                                         *)
(* The operand stack holds positions in the list of nodes of the innermost *)
(* frame.  A construct takes over the whole stack: what is on it goes to   *)
(* fresh locals first and comes back as local.gets after the end.  Results *)
(* of constructs go through locals too, which branches set.  Where code is *)
(* dead any operand is a constant, made once per type and frame.           *)
(***************************************************************************)
EXTENDS WasmCode

CONSTANTS
    Functions,   \* [params, locals: types, result, body: operators]
    Envs         \* [mem, answers]: memory at entry, what hosts answer

VARIABLES
    source,   \* the function
    ops,      \* its operators in a row
    at,       \* the next of them
    frames,   \* block_stack
    stack,    \* ref_stack: [ty, at]
    locals,   \* types of the locals so far
    status,   \* "parsing", "parsed", "failed" (an error was returned)
    tree

vars == <<source, ops, at, frames, stack, locals, status, tree>>

(* The operator sequence: constructs are closed by their own operators. *)
RECURSIVE Row(_)
Row(body) ==
    LET tok(op, val)  == Operator(op, val, "void", <<>>)
        end           == <<tok("End", <<>>)>>
        catch(t)      == <<IF t = 0 THEN tok("CatchAll", <<>>) ELSE tok("Catch", <<t>>)>>
        row(o) ==
            LET open(op) == <<Operator(op, <<>>, o.ty, <<>>)>>
                in(k)    == Row(o.bodies[k])
            IN  CASE o.op \in {"Block", "Loop"} -> open(o.op) \o in(1) \o end
                  [] o.op = "If"       -> open("If") \o in(1)
                                            \o (IF Len(o.bodies) = 2 THEN <<tok("Else", <<>>)>> \o in(2) ELSE <<>>) \o end
                  [] o.op = "Try"      -> open("Try") \o in(1)
                                            \o FlattenSeq([k \in DOMAIN o.val |-> catch(o.val[k]) \o in(k + 1)]) \o end
                  [] o.op = "Delegate" -> open("Try") \o in(1) \o <<tok("Delegate", o.val)>>
                  [] OTHER             -> <<o>>
    IN  FlattenSeq([k \in DOMAIN body |-> row(body[k])])

-----------------------------------------------------------------------------
(* frame.rs: a frame under work, with the stack, the locals, the refs just *)
(* popped (the last popped last) and whether an error has come up.         *)

BlockFrame(kind, cond, ty, temps, saved) ==
    [kind |-> kind, cond |-> cond, ty |-> ty, temps |-> temps, saved |-> saved,
     segments |-> <<>>, tags |-> <<>>, insts |-> <<>>, unreachable |-> FALSE, dummies |-> <<>>]

(* The next segment of a construct: else, or a catch. *)
NextSegment(f, kind, tags) ==
    [f EXCEPT !.kind = kind, !.segments = Append(@, f.insts), !.tags = tags,
              !.insts = <<>>, !.unreachable = FALSE, !.dummies = <<>>]

Work  == [f |-> Last(frames), stack |-> stack, locals |-> locals, got |-> <<>>, ok |-> TRUE]
Error(w) == [w EXCEPT !.ok = FALSE, !.got = Append(@, 0)]

Emit(w, op, val, ty, args, bodies) == [w EXCEPT !.f.insts = Append(@, Node(op, val, ty, args, bodies))]
Pushed(w, ty) == [w EXCEPT !.stack = Append(@, [ty |-> ty, at |-> Len(w.f.insts)])]
NewLocal(w, ty) == [w EXCEPT !.locals = Append(@, ty)]
SetLocal(w, l, ref) == Emit(w, "Set", <<l>>, "void", <<ref>>, <<>>)
GetLocal(w, l) == Pushed(Emit(w, "Get", <<l>>, w.locals[l], <<>>, <<>>), w.locals[l])

ensure_dummy(w, ty) ==
    LET known == {k \in DOMAIN w.f.dummies : w.f.dummies[k].ty = ty}
        made  == Emit(w, "Const", <<0>>, ty, <<>>, <<>>)
        ref   == Len(made.f.insts)
    IN  IF known # {} THEN [w EXCEPT !.got = Append(@, w.f.dummies[Min(known)].at)]
        ELSE [made EXCEPT !.f.dummies = Append(@, [ty |-> ty, at |-> ref]), !.got = Append(@, ref)]

set_unreachable(w) ==
    [ensure_dummy(w, "i32") EXCEPT !.f.unreachable = TRUE, !.stack = <<>>, !.got = w.got]

pop_live(w, ty) ==
    IF w.stack = <<>> \/ Last(w.stack).ty # ty THEN Error(w)
    ELSE [w EXCEPT !.stack = Front(@), !.got = Append(@, Last(w.stack).at)]

pop_ref(w, ty) == IF w.f.unreachable THEN ensure_dummy(w, ty) ELSE pop_live(w, ty)

pop_ref_or_dummy(w, ty) ==
    IF w.f.unreachable \/ w.stack = <<>> THEN ensure_dummy(w, ty) ELSE pop_live(w, ty)

(* Operands of these types, given in order; the last is on top. *)
Operands(w, types) == FoldRight(LAMBDA ty, acc : pop_ref(acc, ty), types, w)

(* pop_call_args looks at the stack alone, in dead code too. *)
pop_call_args(w, types) == FoldRight(LAMBDA ty, acc : pop_live(acc, ty), types, w)

(* The stack into fresh locals, the lowest value first. *)
materialize_ref_stack(w) ==
    LET spill(acc, typed) == SetLocal(NewLocal(acc, typed.ty), Len(acc.locals) + 1, typed.at)
    IN  [FoldLeft(spill, w, w.stack) EXCEPT !.stack = <<>>]
Spilled(w) == [k \in DOMAIN w.stack |-> Len(w.locals) + k]

(* Slip: what dead code left on the stack stays there. *)
close_segment_KeepsStack(w) ==
    LET one(acc, l) == LET p == pop_ref(acc, acc.locals[l]) IN SetLocal(p, l, Last(p.got))
    IN  FoldLeft(one, w, Reverse(w.f.temps))

(* The results of a segment into the construct's locals. *)
close_segment(w) ==
    LET one(acc, l) == LET p == pop_ref(acc, acc.locals[l]) IN SetLocal(p, l, Last(p.got))
    IN  [FoldLeft(one, w, Reverse(w.f.temps)) EXCEPT !.stack = <<>>]

-----------------------------------------------------------------------------
(* The effect of one operator. *)
Tok == ops[at]
Is(set) == status = "parsing" /\ Tok.op \in set

Advance == at' = at + 1 /\ UNCHANGED <<source, ops>>

Fail == status' = "failed" /\ Advance /\ UNCHANGED <<frames, stack, locals, tree>>

(* outer: the frames around the one under work; inner: those opened in it. *)
Replace(outer, w, inner) ==
    IF w.ok
    THEN /\ Advance
         /\ frames' = outer \o <<w.f>> \o inner
         /\ stack' = w.stack /\ locals' = w.locals
         /\ UNCHANGED <<status, tree>>
    ELSE Fail

Commit(w) == Replace(Front(frames), w, <<>>)

(* Operands popped, a node of them, and its result. *)
Operation(w, o, types, result) ==
    LET p == Operands(w, types)
        e == Emit(p, o.op, o.val, o.ty, Reverse(p.got), <<>>)
    IN  IF result = "void" THEN e ELSE Pushed(e, result)

Translate(set) == /\ Is(set)
                  /\ Commit(Operation(Work, Tok, OperandTypes(Tok, locals), ResultType(Tok, locals)))

ParseConst   == Translate({"Const"})
ParseBinary  == Translate({"Add", "Sub", "Mul", "And"})
ParseUnary   == Translate({"Eqz"})
ParseCompare == Translate({"LtU", "GtU"})
ParseLocal   == Translate({"Get", "Set", "Tee"})
ParseGlobal  == Translate({"GlobalGet", "GlobalSet"})
ParseSize    == Translate({"MemorySize", "TableSize"})
ParseLoad    == Translate({"Load"})
ParseStore   == Translate({"Store"})

ParseDrop ==
    /\ Is({"Drop"})
    /\ IF stack = <<>> THEN Fail
       ELSE Commit(Emit([Work EXCEPT !.stack = Front(@)], "Drop", <<>>, Last(stack).ty,
                        <<Last(stack).at>>, <<>>))

(* An untyped select has the type of the value below its condition. *)
ParseSelect ==
    /\ Is({"Select"})
    /\ LET under == IF Len(stack) > 1 THEN stack[Len(stack) - 1].ty ELSE "i32"
           ty    == IF Tok.ty = "any" THEN under ELSE Tok.ty
       IN  Commit(Operation(Work, [Tok EXCEPT !.ty = ty], <<ty, ty, "i32">>, ty))

ParseNop == Is({"Nop"}) /\ Commit(Work)

-----------------------------------------------------------------------------
(* memory.fill and memory.copy: loops over fresh locals.  A term is a node *)
(* with terms for operands; laid out, operands come before their node.     *)
Term(op, val, args) == [op |-> op, val |-> val, args |-> args]
Lit(v)       == Term("Const", <<v>>, <<>>)
Loc(l)       == Term("Get", <<l>>, <<>>)
Let(l, x)    == Term("Set", <<l>>, <<x>>)
Binary(op, a, b) == Term(op, <<>>, <<a, b>>)
LoadOf(n, a)     == Term("Load", <<n>>, <<a>>)
StoreOf(n, a, x) == Term("Store", <<n>>, <<a, x>>)

RECURSIVE LaidOut(_, _)
LaidOut(nodes, terms) ==
    LET one(acc, t) ==
            LET step(r, x) == LET more == LaidOut(r.nodes, <<x>>)
                              IN  [nodes |-> more, refs |-> Append(r.refs, Len(more))]
                r == FoldLeft(step, [nodes |-> acc, refs |-> <<>>], t.args)
            IN  Append(r.nodes, Node(t.op, t.val, IF t.op = "Set" THEN "void" ELSE "i32", r.refs, <<>>))
    IN  FoldLeft(one, nodes, terms)

(* block { loop { br_if 1 (exit); ...; br 0 } } *)
Until(exit, terms) ==
    LET body == LaidOut(<<>>, <<Term("BrIf", <<1>>, <<exit>>)>> \o terms \o <<Term("Br", <<0>>, <<>>)>>)
        loop == Node("Loop", <<>>, "void", <<>>, <<body>>)
    IN  Node("Block", <<>>, "void", <<>>, << <<loop>> >>)

Shorter(n)    == Binary("LtU", Loc(n), Lit(4))
IsZero(n)     == Term("Eqz", <<>>, <<Loc(n)>>)
Move(l, by)   == Let(l, Binary("Add", Loc(l), Lit(by)))
Shrink(l, by) == Let(l, Binary("Sub", Loc(l), Lit(by)))

build_memory_fill_word_loop(dst, val32, n) ==
    Until(Shorter(n), <<StoreOf(4, Loc(dst), Loc(val32)), Move(dst, 4), Shrink(n, 4)>>)

build_memory_fill_byte_loop(dst, val, n) ==
    Until(IsZero(n), <<StoreOf(1, Loc(dst), Loc(val)), Move(dst, 1), Shrink(n, 1)>>)

build_memory_copy_word_loop(dst, src, n) ==
    Until(Shorter(n), <<StoreOf(4, Loc(dst), LoadOf(4, Loc(src))), Move(dst, 4), Move(src, 4), Shrink(n, 4)>>)

build_memory_copy_byte_loop_forward(dst, src, n) ==
    Until(IsZero(n), <<StoreOf(1, Loc(dst), LoadOf(1, Loc(src))), Move(dst, 1), Move(src, 1), Shrink(n, 1)>>)

build_memory_copy_byte_loop_backward(dst, src, n) ==
    LET end(l) == Binary("Add", Loc(l), Loc(n))
    IN  Until(IsZero(n), <<Shrink(n, 1), StoreOf(1, end(dst), LoadOf(1, end(src)))>>)

(* The three operands into locals from first on; got has the top first. *)
StoreOperands(w, first) ==
    LET p == Operands(w, <<"i32", "i32", "i32">>)
        q == NewLocal(NewLocal(NewLocal(p, "i32"), "i32"), "i32")
    IN  SetLocal(SetLocal(SetLocal(q, first + 2, p.got[1]), first + 1, p.got[2]), first, p.got[3])

Laid(w, terms) == [w EXCEPT !.f.insts = LaidOut(@, terms)]
Added(w, node) == [w EXCEPT !.f.insts = Append(@, node)]

ParseMemoryFill ==
    /\ Is({"MemoryFill"})
    /\ LET dst   == Len(locals) + 1
           val   == dst + 1
           n     == dst + 2
           val32 == dst + 3
           paint == Binary("Mul", Binary("And", Loc(val), Lit(BASE - 1)), Lit(WORD \div (BASE - 1)))
           w     == Laid(NewLocal(StoreOperands(Work, dst), "i32"), <<Let(val32, paint)>>)
       IN  Commit(IF w.ok THEN Added(Added(w, build_memory_fill_word_loop(dst, val32, n)),
                                     build_memory_fill_byte_loop(dst, val, n))
                          ELSE w)

(* Slip: always from the low end. *)
NeedBackward_Never(dst, src, n) == Binary("GtU", Lit(0), Lit(0))

(* src < dst < src + n *)
NeedBackward(dst, src, n) ==
    Binary("And", Binary("GtU", Loc(dst), Loc(src)),
                  Binary("LtU", Binary("Sub", Loc(dst), Loc(src)), Loc(n)))

ParseMemoryCopy ==
    /\ Is({"MemoryCopy"})
    /\ LET dst == Len(locals) + 1
           src == dst + 1
           n   == dst + 2
           w   == Laid(StoreOperands(Work, dst), <<NeedBackward(dst, src, n)>>)
       IN  Commit(Emit(w, "If", <<>>, "void", <<Len(w.f.insts)>>,
                       << <<build_memory_copy_byte_loop_backward(dst, src, n)>>,
                          <<build_memory_copy_word_loop(dst, src, n),
                            build_memory_copy_byte_loop_forward(dst, src, n)>> >>))

-----------------------------------------------------------------------------
(* Constructs. *)

ParseBlock ==
    /\ Is({"Block", "Loop", "If", "Try"})
    /\ LET w     == IF Tok.op = "If" THEN pop_ref(Work, "i32") ELSE Work
           cond  == IF Tok.op = "If" THEN w.got[1] ELSE 0
           typed == IF Tok.ty = "void" THEN w ELSE NewLocal(w, Tok.ty)
           temps == IF Tok.ty = "void" THEN <<>> ELSE <<Len(typed.locals)>>
       IN  Replace(Front(frames), materialize_ref_stack(typed),
                   <<BlockFrame(Tok.op, cond, Tok.ty, temps, Spilled(typed))>>)

ParseElse ==
    /\ Is({"Else"})
    /\ LET w == close_segment(Work)
       IN  IF w.f.kind = "If" THEN Commit([w EXCEPT !.f = NextSegment(@, "Else", <<>>)]) ELSE Fail

(* A catch after catch_all has no tag to file the one before under. *)
OpenTry(f) == f.kind = "Try" \/ (f.kind = "TryCatch" /\ Last(f.tags) # 0)

ParseCatch ==
    /\ Is({"Catch", "CatchAll"})
    /\ LET w      == close_segment(Work)
           tag    == IF Tok.op = "Catch" THEN Tok.val[1] ELSE 0
           caught == [w EXCEPT !.f = NextSegment(@, "TryCatch", Append(@.tags, tag))]
       IN  IF ~OpenTry(w.f) THEN Fail
           ELSE Commit(IF tag \in PayloadTags
                       THEN Pushed(Emit(caught, "ExcPayloadGet", <<>>, "i32", <<>>, <<>>), "i32")
                       ELSE caught)

(* The construct as a node of the parent, then what was spilled and the    *)
(* results, back on the stack.                                             *)
Leave(w, op, val, args, bodies) ==
    LET parent == [w EXCEPT !.f = frames[Len(frames) - 1]]
        node   == Emit(parent, op, val, "void", args, bodies)
        back   == FoldLeft(GetLocal, node, w.f.saved \o w.f.temps)
    IN  Replace(SubSeq(frames, 1, Len(frames) - 2), back, <<>>)

ParseDelegate ==
    /\ Is({"Delegate"})
    /\ LET w == close_segment(Work)
       IN  IF w.f.kind = "Try" THEN Leave(w, "Delegate", Tok.val, <<>>, <<w.f.insts>>) ELSE Fail

ParseEnd ==
    /\ Is({"End"})
    /\ Len(frames) > 1
    /\ LET w        == close_segment(Work)
           segments == Append(w.f.segments, w.f.insts)
       IN  CASE w.f.kind \in {"Block", "Loop"} -> Leave(w, w.f.kind, <<>>, <<>>, segments)
             [] w.f.kind = "If"   -> Leave(w, "If", <<>>, <<w.f.cond>>, Append(segments, <<>>))
             [] w.f.kind = "Else" -> Leave(w, "If", <<>>, <<w.f.cond>>, segments)
             [] w.f.kind \in {"Try", "TryCatch"} -> Leave(w, "Try", w.f.tags, <<>>, segments)

Results == IF source.result = "void" THEN <<>> ELSE <<source.result>>

ParseFunctionEnd ==
    /\ Is({"End"})
    /\ Len(frames) = 1
    /\ LET w == Operands(Work, Results)
       IN  IF w.ok
           THEN /\ status' = "parsed"
                /\ tree' = Emit(w, "Return", <<>>, "void", w.got, <<>>).f.insts
                /\ locals' = w.locals
                /\ Advance
                /\ UNCHANGED <<frames, stack>>
           ELSE Fail

-----------------------------------------------------------------------------
(* Branches.  A branch stores what its label takes in the label's locals.  *)
Target(depth) == frames[Len(frames) - depth]

Dead(w, op, val, args) == Emit(set_unreachable(w), op, val, "void", args, <<>>)

ParseReturn ==
    /\ Is({"Return"})
    /\ LET w == Operands(Work, Results) IN Commit(Dead(w, "Return", <<>>, w.got))

ParseBr ==
    /\ Is({"Br"})
    /\ LET give(w, l) == LET p == pop_ref_or_dummy(w, w.locals[l]) IN SetLocal(p, l, Last(p.got))
       IN  Commit(Dead(FoldLeft(give, Work, Target(Tok.val[1]).temps), "Br", Tok.val, <<>>))

(* A br_if that takes a value becomes an if around a br; the value is kept *)
(* in a local of its own, for either side to read.                         *)
ParseBrIf ==
    /\ Is({"BrIf"})
    /\ LET target == Target(Tok.val[1])
           c      == pop_ref(Work, "i32")
           cond   == c.got[1]
           ty     == target.ty
           v      == pop_ref_or_dummy(c, ty)
           stash  == Len(locals) + 1
           taken  == <<Node("Get", <<stash>>, ty, <<>>, <<>>),
                       Node("Set", target.temps, "void", <<1>>, <<>>),
                       Node("Br", <<Tok.val[1] + 1>>, "void", <<>>, <<>>)>>
           kept   == SetLocal(NewLocal(v, ty), stash, Last(v.got))
       IN  Commit(IF target.temps = <<>>
                  THEN Emit(c, "BrIf", Tok.val, "void", <<cond>>, <<>>)
                  ELSE GetLocal(Emit(kept, "If", <<>>, "void", <<cond>>, <<taken, <<>> >>), stash))

(* A br_table stores the value for every target it lists. *)
ParseBrTable ==
    /\ Is({"BrTable"})
    /\ LET w     == pop_ref(Work, "i32")
           types == IF Target(Last(Tok.val)).temps = <<>> THEN <<>> ELSE <<Target(Last(Tok.val)).ty>>
           v     == FoldLeft(pop_ref_or_dummy, w, types)
           temps == FlattenSeq([k \in DOMAIN Tok.val |-> Target(Tok.val[k]).temps])
           give(acc, l) == SetLocal(acc, l, v.got[2])
           given == IF types = <<>> THEN v ELSE FoldLeft(give, v, temps)
       IN  Commit(set_unreachable(Emit(given, "BrTable", Tok.val, "void", <<w.got[1]>>, <<>>)))

ParseUnreachable == Is({"Unreachable"}) /\ Commit(Dead(Work, "Unreachable", <<>>, <<>>))

-----------------------------------------------------------------------------
(* Calls and exceptions. *)

CallNode(w, op) ==
    LET sig == Signatures[Tok.val[1]]
        i   == IF op = "CallIndirect" THEN pop_live(w, "i32") ELSE w
        p   == pop_call_args(i, sig.params)
        e   == Emit(p, op, Tok.val, sig.result, Reverse(LastN(p.got, Len(sig.params))) \o i.got, <<>>)
    IN  e

ParseCall ==
    /\ Is({"Call", "CallIndirect"})
    /\ LET w == CallNode(Work, Tok.op)
           result == Signatures[Tok.val[1]].result
       IN  Commit(IF result = "void" THEN w ELSE Pushed(w, result))

ParseReturnCall ==
    /\ Is({"ReturnCall", "ReturnCallIndirect"})
    /\ LET w == CallNode(Work, IF Tok.op = "ReturnCall" THEN "Call" ELSE "CallIndirect")
           given == IF Signatures[Tok.val[1]].result = "void" THEN <<>> ELSE <<Len(w.f.insts)>>
       IN  Commit(set_unreachable(Emit(w, "Return", <<>>, "void", given, <<>>)))

ParseThrow ==
    /\ Is({"Throw"})
    /\ LET w == Operands(Work, IF Tok.val[1] \in PayloadTags THEN <<"i32">> ELSE <<>>)
       IN  Commit(Dead(w, "Throw", Tok.val, w.got))

ParseRethrow == Is({"Rethrow"}) /\ Commit(Dead(Work, "Rethrow", Tok.val, <<>>))

-----------------------------------------------------------------------------
Init ==
    /\ source \in Functions
    /\ ops = Row(source.body) \o <<Operator("End", <<>>, "void", <<>>)>>
    /\ at = 1
    /\ frames = <<BlockFrame("Function", 0, source.result, <<>>, <<>>)>>
    /\ stack = <<>>
    /\ locals = source.params \o source.locals
    /\ status = "parsing"
    /\ tree = <<>>

Next ==
    \/ ParseConst \/ ParseBinary \/ ParseUnary \/ ParseCompare
    \/ ParseLocal \/ ParseGlobal \/ ParseSize \/ ParseLoad \/ ParseStore
    \/ ParseDrop \/ ParseSelect \/ ParseNop \/ ParseMemoryFill \/ ParseMemoryCopy
    \/ ParseBlock \/ ParseElse \/ ParseCatch \/ ParseDelegate
    \/ ParseEnd \/ ParseFunctionEnd
    \/ ParseReturn \/ ParseBr \/ ParseBrIf \/ ParseBrTable \/ ParseUnreachable
    \/ ParseCall \/ ParseReturnCall \/ ParseThrow \/ ParseRethrow

Spec == Init /\ [][Next]_vars

-----------------------------------------------------------------------------
(* A position names a node above that has a value of the type asked for;   *)
(* so it is in every list, the lists of constructs included.               *)
RECURSIVE WellTyped(_)
WellTyped(nodes) ==
    LET result(k) == ResultType(nodes[k], locals)
        wanted(n) == CASE n.op \in {"If", "BrIf", "BrTable"} -> <<"i32">>
                       [] n.op = "Return" -> IF n.args = <<>> THEN <<>> ELSE Results
                       [] n.op = "Throw"  -> IF n.args = <<>> THEN <<>> ELSE <<"i32">>
                       [] OTHER           -> OperandTypes(n, locals)
    IN  \A k \in DOMAIN nodes :
            /\ Len(nodes[k].args) = Len(wanted(nodes[k]))
            /\ \A m \in DOMAIN nodes[k].args :
                   nodes[k].args[m] \in 1..(k - 1) /\ result(nodes[k].args[m]) = wanted(nodes[k])[m]
            /\ \A m \in DOMAIN nodes[k].bodies : WellTyped(nodes[k].bodies[m])

(* Positions mean nothing outside their own list, and operands outlive the *)
(* list they were made in: whatever has been opened, closed and cut off by *)
(* a branch, the stack and the constants of dead code name values of their *)
(* type in the innermost list, the condition of an open if one in the list *)
(* around it, and no node reads a value that is not there.                 *)
RefsFit ==
    LET names(insts, ref) == ref.at \in DOMAIN insts /\ ResultType(insts[ref.at], locals) = ref.ty
    IN  /\ \A k \in DOMAIN frames :
               /\ \A m \in DOMAIN frames[k].segments : WellTyped(frames[k].segments[m])
               /\ WellTyped(frames[k].insts)
               /\ \A m \in DOMAIN frames[k].dummies : names(frames[k].insts, frames[k].dummies[m])
               /\ frames[k].cond # 0 => names(frames[k - 1].insts, [ty |-> "i32", at |-> frames[k].cond])
        /\ \A m \in DOMAIN stack : names(Last(frames).insts, stack[m])
        /\ WellTyped(tree)

(* The function is accepted, and for every input the tree does what the    *)
(* operators do: calls, memory, the global, the result and how it ends.    *)
Outcome(st, val) ==
    [how |-> IF st.how = "go" THEN "return" ELSE st.how, out |-> st.out, exc |-> st.exc,
     mem |-> IF st.how = "trap" THEN <<>> ELSE st.mem, global |-> st.global,
     val |-> IF source.result # "void" /\ st.how \in {"go", "return"} THEN val ELSE 0]

Meaning(env) ==
    LET st == RunOps(Begin(env, [k \in DOMAIN (source.params \o source.locals) |-> 0]), source.body, <<>>)
    IN  Outcome(st, IF st.how = "go" /\ source.result # "void" THEN Last(st.stack) ELSE st.val)

TreeMeaning(env) ==
    LET st == RunNodes(Begin(env, [k \in DOMAIN locals |-> 0]), tree, <<>>) IN Outcome(st, st.val)

SameMeaning ==
    /\ status # "failed"
    /\ status = "parsed" => \A env \in Envs : TreeMeaning(env) = Meaning(env)
=============================================================================
