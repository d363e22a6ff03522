---------------------------- MODULE ControlFlow ----------------------------
(***************************************************************************)
(* Code as labelled blocks, each a record [id, ops, term] (src/ir8.rs      *)
(* BasicBlock8, Cycle), and what running it shows.  An op is a kind and    *)
(* its operands, all numbers:                                              *)
(*   Put <<v>>          putchar v                                          *)
(*   PutIf <<v, c, a>>  putchar v if condition c chose its arm a           *)
(*   One, Zero <<>>     a byte variable becomes 1, or 0 as at the start    *)
(*   PutVar <<>>        putchar of the variable                            *)
(*   StorePc <<id>>     CsStorePc: a continuation goes on the call stack   *)
(*   Free <<>>          the CsFree that starts a continuation              *)
(*   Dead <<>>          no side effect and a result nothing reads          *)
(* A terminator is [op, targets, cond, callee]; op is Goto, Branch, Call,  *)
(* Return or Exit, and callee is empty but for a Call.  Conditions are not *)
(* computed: an oracle answers each with the arms it takes, over and over. *)
(* Condition 0 is a constant that takes the first arm.                     *)
(***************************************************************************)
EXTENDS Naturals, Sequences, SequencesExt, FiniteSetsExt, Functions

Op(op, val)   == [op |-> op, val |-> val]
Goto(t)       == [op |-> "Goto",   targets |-> <<t>>,    cond |-> 0, callee |-> <<>>]
Branch(c, ts) == [op |-> "Branch", targets |-> ts,       cond |-> c, callee |-> <<>>]
Call(f, cont) == [op |-> "Call",   targets |-> <<cont>>, cond |-> 0, callee |-> <<f>>]
Stop(op)      == [op |-> op,       targets |-> <<>>,     cond |-> 0, callee |-> <<>>]

Successors(b) == ToSet(b.term.targets)
StoredPcs(b)  == {b.ops[k].val[1] : k \in {k \in DOMAIN b.ops : b.ops[k].op = "StorePc"}}
Named(b)      == Successors(b) \cup ToSet(b.term.callee) \cup StoredPcs(b)

(* A run: where it is, the stored ids, the variable, what was printed, the *)
(* answers to come, and how it ended ("no" while it has not).              *)
Begin(id, oracle) ==
    [at |-> id, stack |-> <<>>, var |-> 0, out |-> <<>>, answers |-> oracle, end |-> "no"]

Arm(st, c)   == IF c = 0 THEN 1 ELSE Head(st.answers[c])
Asked(st, c) == IF c = 0 THEN st ELSE [st EXCEPT !.answers[c] = Append(Tail(@), Head(@))]
Show(st, v)  == [st EXCEPT !.out = Append(@, v)]

Do(st, o) ==
    CASE o.op = "Put"     -> Show(st, o.val[1])
      [] o.op = "PutVar"  -> Show(st, st.var)
      [] o.op = "One"     -> [st EXCEPT !.var = 1]
      [] o.op = "Zero"    -> [st EXCEPT !.var = 0]
      [] o.op = "StorePc" -> [st EXCEPT !.stack = Append(@, o.val[1])]
      [] o.op = "PutIf"   -> Asked(IF Arm(st, o.val[2]) = o.val[3] THEN Show(st, o.val[1])
                                                                   ELSE st, o.val[2])
      [] OTHER            -> st

Jump(st, t) ==
    CASE t.op = "Goto"    -> [st EXCEPT !.at = t.targets[1]]
      [] t.op = "Branch"  -> Asked([st EXCEPT !.at = t.targets[Arm(st, t.cond)]], t.cond)
      [] t.op = "Call"    -> [st EXCEPT !.at = t.callee[1]]
      [] t.op = "Return" /\ st.stack # <<>>
                          -> [st EXCEPT !.at = Last(st.stack), !.stack = Front(@)]
      [] t.op = "Return" /\ st.stack = <<>>
                          -> [st EXCEPT !.end = "fault"]
      [] OTHER            -> [st EXCEPT !.end = "exit"]

(* Running code, a set of blocks, from start for at most fuel blocks. *)
Run(code, start, oracle, fuel) ==
    LET step(st, n) ==
            LET here == {b \in code : b.id = st.at}
            IN  CASE st.end # "no" -> st
                  [] here = {}     -> [st EXCEPT !.end = "fault"]
                  [] OTHER         -> LET b == CHOOSE b \in here : TRUE
                                      IN  Jump(FoldLeft(Do, st, b.ops), b.term)
    IN  FoldLeft(step, Begin(start, oracle), [n \in 1..fuel |-> n])

(* b shows what a shows: as much as a did before its fuel ran out. *)
Follows(b, a) ==
    IF a.end # "no" THEN b.end = a.end /\ b.out = a.out ELSE IsPrefix(a.out, b.out)
=============================================================================
