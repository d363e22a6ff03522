------------------------- MODULE MCScheduleMeaning --------------------------
(* Blocks of up to MaxLen instructions over three pools, and some longer    *)
(* ones shaped like the code generator's.                                   *)
EXTENDS ScheduleMeaning, SequencesExt

CONSTANT MaxLen

SeqsUpTo(S, n) == UNION {[1..k -> S] : k \in 0..n}

MemPool == {
    Inst("Byte", "a", <<"b">>, 0), Inst("Mul", "b", <<"a", "b">>, 1),
    Inst("LoadMem", "a", <<"b">>, 0), Inst("LoadMem", "b", <<"a">>, 1),
    Inst("StoreMem", NoReg, <<"b", "a">>, 0), Inst("StoreMem", NoReg, <<"b", "a">>, 1),
    Inst("StoreMem", NoReg, <<"a", "b">>, 0), Inst("MemInc32", NoReg, <<"b">>, 0)}

IoPool == {
    Inst("Cmp32", "a", <<"b", "a">>, 0),
    Inst("Getchar", "a", <<>>, 0), Inst("GetcharNow", "b", <<>>, 0),
    Inst("Putchar", NoReg, <<"a">>, 0), Inst("PutcharIf", NoReg, <<"b", "a">>, 0),
    Inst("GlobalGetByte", "b", <<>>, 0), Inst("GlobalSetByte", NoReg, <<"a">>, 0),
    Inst("ExcGet", "a", <<>>, 1), Inst("ExcSet", NoReg, <<"b">>, 1)}

CsPool == {
    Inst("Byte", "b", <<"a">>, 1),
    Inst("CsStore", NoReg, <<"a">>, 0), Inst("CsStore", NoReg, <<"b">>, 1),
    Inst("CsLoad", "b", <<>>, 0), Inst("CsStorePc", NoReg, <<>>, 1),
    Inst("CsAlloc", NoReg, <<>>, 1), Inst("CsFree", NoReg, <<>>, 1)}

(* emit_non_main_return_sequence: the only place that loads a pc. *)
ReturnTail == <<Inst("CsFree", NoReg, <<>>, 1), Inst("CsLoadPc", NoReg, <<>>, 0)>>

(* A call site: read a key, save two locals and the return pc, push the    *)
(* frame; the continuation: pop, reload, and return.                       *)
CallSite == <<Inst("Getchar", "c", <<>>, 0),
              Inst("CsStore", NoReg, <<"a">>, 0), Inst("CsStore", NoReg, <<"b">>, 1),
              Inst("CsStorePc", NoReg, <<>>, 1), Inst("CsAlloc", NoReg, <<>>, 2)>>
Continuation == <<Inst("CsFree", NoReg, <<>>, 1),
              Inst("CsLoad", "a", <<>>, 0), Inst("CsLoad", "b", <<>>, 1),
              Inst("Byte", "c", <<"a", "b">>, 0)>> \o ReturnTail
WordCopy == <<Inst("LoadMem", "c", <<"a">>, 0), Inst("StoreMem", NoReg, <<"a", "c">>, 1),
              Inst("LoadMem", "d", <<"a">>, 1), Inst("StoreMem", NoReg, <<"a", "d">>, 2),
              Inst("Byte", "a", <<"a">>, 1),    Inst("StoreMem", NoReg, <<"a", "d">>, 0),
              Inst("LoadMem", "b", <<"a">>, 0), Inst("Putchar", NoReg, <<"b">>, 0)>>

MCBlocks == SeqsUpTo(MemPool, MaxLen) \cup SeqsUpTo(IoPool, MaxLen)
              \cup SeqsUpTo(CsPool, MaxLen)
              \cup {s \o ReturnTail : s \in SeqsUpTo(CsPool, MaxLen - 1)}
              \cup {CallSite, Continuation, WordCopy}

(* Tells its operands, and their order, apart. *)
MCCompute(inst, operands) ==
    (inst.at + FoldLeft(LAMBDA acc, v : 2 * acc + v + 1, 0, operands)) % Radix

Machine(a, b, sp) ==
    [reg |-> [a |-> a, b |-> b, c |-> 3, d |-> 2],
     mem |-> [k \in 0..(MemEnd - 1) |-> (2 * k + 1) % Radix],
     glob |-> [k \in {0} |-> 2], eh |-> [k \in {1} |-> 3],
     cs |-> [k \in 0..(CsSlots - 1) |-> [l \in 0..1 |-> (2 * k + l) % Radix]],
     sp |-> sp, ra |-> <<>>, keys |-> <<1, 2, 3, 0, 1, 2, 3, 0>>, out |-> <<>>,
     trap |-> "no"]
MCInputs == {Machine(0, 0, 1), Machine(0, 1, 2), Machine(1, 0, 1), Machine(3, 2, 0)}
=============================================================================
