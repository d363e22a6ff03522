---------------------------- MODULE CallPrograms ----------------------------
(***************************************************************************)
(* Programs as the call protocol sees them: functions over words, reduced  *)
(* to what moves words and control.  A word is a local or an SSA value of  *)
(* its function.  An instruction is [op, dst, src, arg]:                   *)
(*   Set  dst := arg            Dec  dst := src[1] - 1 (0 stays 0)         *)
(*   Move dst := src[1]         Put  putchar(src[1])                       *)
(*   Br   if src[1] # 0 goto arg                                           *)
(*   Key  dst := getchar(), blocking                                       *)
(*   Call dst := function arg applied to src       Tail  return_call       *)
(*   CallIndirect, TailIndirect: the same, of the table entry that the     *)
(*        last of src names, which must take arg words                     *)
(*   Ret  return src[1]                                                    *)
(* A function is [params : Seq(word), code : Seq(instruction)]; a program  *)
(* a sequence of functions, the first of them the entry.  An entry of the  *)
(* table is a function, putchar, getchar, or null.                         *)
(***************************************************************************)
EXTENDS Naturals, Sequences, SequencesExt, FiniteSetsExt

CONSTANTS
    Table,      \* entries [kind, fn], from index 0
    BYTE        \* values of a byte: 256 in the program

ASSUME TableAssumption ==
    /\ BYTE \in Nat \ {0} /\ Len(Table) \in 0..BYTE /\ Table = [k \in 1..Len(Table) |-> Table[k]]

NoWord == ""
Ins(op, dst, src, arg) == [op |-> op, dst |-> dst, src |-> src, arg |-> arg]

Successors(i, k) ==
    CASE i.op \in {"Tail", "TailIndirect", "Ret"} -> {}
      [] i.op = "Br"              -> {k + 1, i.arg}
      [] OTHER                    -> {k + 1}
Reads(i)  == ToSet(i.src)
Writes(i) == {i.dst} \ {NoWord}
WordsOf(fn) == ToSet(fn.params) \cup
    UNION {Reads(fn.code[k]) \cup Writes(fn.code[k]) : k \in DOMAIN fn.code}

(* What an instruction that neither calls nor returns does to the words.   *)
Compute(i, env) ==
    CASE i.op = "Set"  -> [env EXCEPT ![i.dst] = i.arg]
      [] i.op = "Move" -> [env EXCEPT ![i.dst] = env[i.src[1]]]
      [] i.op = "Dec"  -> [env EXCEPT ![i.dst] = IF env[i.src[1]] = 0 THEN 0 ELSE env[i.src[1]] - 1]
      [] OTHER         -> env
Goes(i, k, env) == IF i.op = "Br" /\ env[i.src[1]] # 0 THEN i.arg ELSE k + 1
Indirect(i) == i.op \in {"CallIndirect", "TailIndirect"}
IsCall(i)   == i.op \in {"Call", "CallIndirect"}
IsTail(i)   == i.op \in {"Tail", "TailIndirect"}
Args(i)     == IF Indirect(i) THEN Front(i.src) ELSE i.src

Entry(kind, fn) == [kind |-> kind, fn |-> fn]
Trap            == Entry("null", 0)

(* What a call of type n may enter: an entry of another type is no target. *)
Resolve(pr, e, n) ==
    CASE e.kind = "fn" /\ Len(pr[e.fn].params) = n -> e
      [] e.kind = "putchar" /\ n = 1               -> e
      [] e.kind = "getchar" /\ n = 0               -> e
      [] OTHER                                     -> Trap

IsLocalStep(i) == i.op \in {"Set", "Move", "Dec", "Put", "Br"}

(* Where a path from instruction k gets to without writing word w.         *)
Reached(fn, k, w) ==
    LET reached[n \in Nat] ==
            IF n = 0 THEN {k}
            ELSE LET old == reached[n - 1]
                 IN  old \cup UNION {Successors(fn.code[m], m) :
                                       m \in {m \in old : w \notin Writes(fn.code[m])}}
    IN  reached
(* The words a path from instruction k reads before it writes them.        *)
Needed(fn, k) ==
    {w \in WordsOf(fn) : \E m \in Reached(fn, k, w)[Len(fn.code)] : w \in Reads(fn.code[m])}

-----------------------------------------------------------------------------
(* What validation and lowering ensure of a program: every jump stays in   *)
(* its function, a call passes what its callee takes, the entry makes no   *)
(* tail call (lower_terminator refuses one), no word is read undefined.    *)
(* Beyond that, nothing calls the entry.                                   *)
IsSequence(s) == Len(s) \in Nat /\ s = [j \in 1..Len(s) |-> s[j]]
Callees(pr)   == DOMAIN pr \ {1}
Results       == {"Set", "Move", "Dec", "Key", "Call", "CallIndirect"}
OneOperand    == {"Move", "Dec", "Put", "Br", "Ret"}

IsInstruction(pr, i) ==
    /\ IsSequence(i.src)
    /\ i.dst # NoWord <=> i.op \in Results
    /\ i.op \in OneOperand => Len(i.src) = 1
    /\ i.op = "Set" => i.arg \in Nat
    /\ i.op = "Key" => Len(i.src) = 0
    /\ i.op \in {"Call", "Tail"} => i.arg \in Callees(pr) /\ Len(i.src) = Len(pr[i.arg].params)
    /\ Indirect(i) => i.arg \in Nat /\ Len(i.src) = i.arg + 1

IsFunction(pr, fn) ==
    /\ IsSequence(fn.params) /\ IsSequence(fn.code) /\ 1 \in DOMAIN fn.code
    /\ \A j, k \in DOMAIN fn.params : fn.params[j] = fn.params[k] => j = k
    /\ \A k \in DOMAIN fn.code :
          IsInstruction(pr, fn.code[k]) /\ Successors(fn.code[k], k) \subseteq DOMAIN fn.code
    /\ Needed(fn, 1) \subseteq ToSet(fn.params)

IsProgram(pr) ==
    /\ IsSequence(pr) /\ 1 \in DOMAIN pr
    /\ \A f \in DOMAIN pr : IsFunction(pr, pr[f])
    /\ \A k \in DOMAIN pr[1].code : ~IsTail(pr[1].code[k])
    /\ \A k \in DOMAIN Table : Table[k].kind = "fn" => Table[k].fn \in Callees(pr)

(* A call of a function by itself puts the arguments where some of them    *)
(* may still have to be read: none does if each parameter that is an       *)
(* argument is the argument for itself.                                    *)
Clobbers(params, src) == \E j, k \in DOMAIN src : src[k] = params[j] /\ src[j] # params[j]
CallsItself(pr, f, i) ==
    \/ i.op \in {"Call", "Tail"} /\ i.arg = f
    \/ /\ Indirect(i) /\ i.arg = Len(pr[f].params)
       /\ \E k \in DOMAIN Table : Table[k].kind = "fn" /\ Table[k].fn = f
ArgumentsApart(pr) ==
    \A f \in DOMAIN pr : \A k \in DOMAIN pr[f].code :
        LET i == pr[f].code[k]
        IN  CallsItself(pr, f, i) => ~Clobbers(pr[f].params, Args(i))
=============================================================================
