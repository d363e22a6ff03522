----------------------------- MODULE CallDepth -----------------------------
(***************************************************************************)
(* How many call stack slots the page gets: the depth of the stack, where  *)
(* a walk over the program bounds it, within the cap.                      *)
(***************************************************************************)
EXTENDS CallProtocol

(* static_callstack_depth: walk every path of a function with the highest  *)
(* cs_sp seen at each point; a call adds what its callee needs and what    *)
(* its callee's returns leave.  NoBound is None.                           *)
Unknown == [ok |-> FALSE, need |-> 0, ret |-> 0]
MaxOf(a, b) == IF a > b THEN a ELSE b

RECURSIVE Depth(_, _, _), Walk(_, _, _)
Depth(pr, f, active) ==
    IF f \in active THEN Unknown
    ELSE Walk(pr, active \cup {f},
              [work |-> <<[pc |-> At(f, 1), sp |-> 0]>>, seen |-> {}, need |-> 0, rets |-> {}])
Walk(pr, active, st) ==
    IF st.work = <<>>
    THEN [ok |-> TRUE, need |-> st.need, ret |-> IF st.rets = {} THEN 0 ELSE Max(st.rets)]
    ELSE LET e == Last(st.work)
             rest == Front(st.work)
             fn == pr[e.pc.fn]
             i == fn.code[e.pc.at]
             go(targets, need, rets) ==
                 Walk(pr, active, [work |-> rest \o targets, seen |-> st.seen \cup {e},
                                   need |-> MaxOf(st.need, need), rets |-> st.rets \cup rets])
             cases == {Resolve(pr, Table[k], i.arg) : k \in DOMAIN Table}
             entered == IF Indirect(i) THEN {c.fn : c \in {c \in cases : c.kind = "fn"}} ELSE {i.arg}
             callee == [f \in entered |-> Depth(pr, f, active)]
             hosts == Indirect(i) /\ \E c \in cases : c.kind \in {"putchar", "getchar"}
             needs(over) == Max({e.sp} \cup {over + callee[f].need : f \in entered})
             base == e.sp + FrameSlots(fn, e.pc.at)
         IN  IF \E s \in st.seen : s.pc = e.pc /\ s.sp >= e.sp
             THEN Walk(pr, active, [st EXCEPT !.work = rest])
             ELSE CASE e.pc.stage = "cont" ->
                         go(<<[pc |-> Join(e.pc.fn, e.pc.at), sp |-> e.sp - RaSlot(fn, e.pc.at)]>>, e.sp, {})
                    [] e.pc.stage = "join" ->
                         go(<<[pc |-> At(e.pc.fn, e.pc.at + 1), sp |-> e.sp]>>, e.sp, {})
                    [] e.pc.stage = "at" /\ IsCall(i) ->
                         IF \E f \in entered : ~callee[f].ok THEN Unknown
                         ELSE go(SetToSeq({[pc |-> Cont(e.pc.fn, e.pc.at), sp |-> base + callee[f].ret] : f \in entered})
                                   \o (IF hosts THEN <<[pc |-> Join(e.pc.fn, e.pc.at), sp |-> e.sp]>> ELSE <<>>),
                                 needs(base), {})
                    [] e.pc.stage = "at" /\ IsTail(i) ->
                         IF \E f \in entered : ~callee[f].ok THEN Unknown
                         ELSE go(SetToSeq({[pc |-> At(f, 1), sp |-> e.sp + callee[f].ret] : f \in entered}),
                                 needs(e.sp), IF hosts THEN {e.sp - 1} ELSE {})
                    [] e.pc.stage = "at" /\ i.op = "Ret" ->
                         go(<<>>, e.sp, {IF e.pc.fn = 1 THEN e.sp ELSE e.sp - 1})
                    [] OTHER -> go(SetToSeq({[pc |-> At(e.pc.fn, k), sp |-> e.sp] :
                                                k \in Successors(i, e.pc.at)}), e.sp, {})
StaticDepth(pr) == Depth(pr, 1, {})

(* (Slip: the highest slot index taken for the number of slots.)           *)
StaticSlots_TopIndex(pr) ==
    LET d == StaticDepth(pr)
    IN  IF d.ok THEN Min({SlotsCap, MaxOf(d.need - 1, 1)}) ELSE SlotsCap
(* Emitter::new: without a bound the page has all the slots it may have.   *)
StaticSlots(pr) ==
    LET d == StaticDepth(pr)
    IN  IF d.ok THEN Min({SlotsCap, MaxOf(d.need, 1)}) ELSE SlotsCap

(* When the depth of the stack is known statically and within the cap, the *)
(* page has slots enough: no call traps.  (Programs without tail calls.)   *)
HasTailCall(pr) == \E f \in DOMAIN pr : \E k \in DOMAIN pr[f].code : IsTail(pr[f].code[k])
Bounded(pr) == StaticDepth(pr).ok /\ StaticDepth(pr).need <= SlotsCap
SlotsSuffice == status = "overflow" => ~Bounded(prog) \/ HasTailCall(prog)
=============================================================================
