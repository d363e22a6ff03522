------------------------------- MODULE ByteIR -------------------------------
(***************************************************************************)
(* The byte intermediate representation with its values: src/ir8.rs, what  *)
(* an instruction reads and writes, and what it computes.                  *)
(*                                                                         *)
(* A byte has BITS bits and a word four bytes, so that TLC can enumerate   *)
(* them; everything else about the instructions is the code's.  A register *)
(* is its number; an immediate v is the negative number Imm(v), which      *)
(* keeps the operands of one type.  Words are written out: an instruction  *)
(* over two words has eight operands, the low byte of each word first.     *)
(*                                                                         *)
(* Cells stand for the state that the optimiser never looks into: globals, *)
(* call-stack slots and the exception flag, tag and payload.               *)
(***************************************************************************)
EXTENDS Integers, Sequences, FiniteSets, SequencesExt, Bitwise

CONSTANTS
    BITS,       \* bits of a byte: 8 in the program
    MemEnd,     \* the first address out of bounds: Ir8Program::memory_end
    Fuel,       \* blocks after which a run is cut
    Callee(_)   \* the bytes a call returns for the bytes it is given

BASE == 2 ^ BITS
WORD == BASE ^ 4
MSB  == BASE \div 2
Byte == 0..(BASE - 1)

VREG_START == 8
NoDst      == -1

Imm(v)      == -v - 2
IsImm(x)    == x < NoDst
ImmValue(x) == -x - 2

Inst(op, dst, args)         == [op |-> op, dst |-> dst, args |-> args, lane |-> 0, base |-> 0, imm |-> 0]
Lane(op, dst, l, r, lane)   == [Inst(op, dst, l \o r) EXCEPT !.lane = lane]
Load(dst, base, addr, lane) == [Inst("Load", dst, addr) EXCEPT !.base = base, !.lane = lane]
Store(base, addr, lane, v)  == [Inst("Store", NoDst, addr \o <<v>>) EXCEPT !.base = base, !.lane = lane]
Term(op, args, to)          == [op |-> op, args |-> args, to |-> to, defs |-> <<>>]
CallSetup(args, cont, vregs) == [op |-> "CallSetup", args |-> args, to |-> <<cont>>,
                                 defs |-> <<0, 1, 2, 3, 4, 5, 6, 7>> \o vregs]
Block(id, insts, term)      == [id |-> id, insts |-> insts, term |-> term]

Narrow(x)    == <<x, Imm(0), Imm(0), Imm(0)>>
WordOf(n)    == [k \in 1..4 |-> Imm((n \div BASE ^ (k - 1)) % BASE)]

LaneOps == {"Add32", "Sub32", "Mul32"}
DivOps  == {"DivU32", "RemU32", "DivS32", "RemS32"}
CmpOps  == {"CmpEq", "CmpNe", "CmpLtU", "CmpLtS", "CmpGeU", "CmpGeS"}
BoolOps == CmpOps \cup {"Borrow32", "Eq", "Ne", "LtU", "GeU", "BoolAnd", "BoolOr", "BoolNot"}

-----------------------------------------------------------------------------
(* Operands read and registers written.                                    *)

(* A lane of a sum reads the bytes up to its own only. *)
ReadArgs(inst) ==
    IF inst.op \in LaneOps
    THEN SubSeq(inst.args, 1, inst.lane + 1) \o SubSeq(inst.args, 5, 5 + inst.lane)
    ELSE inst.args

UseSeq(x) == SelectSeq(x, LAMBDA v : ~IsImm(v))

InstUses(inst) == {v \in ToSet(ReadArgs(inst)) : ~IsImm(v)}
TermUses(term) == {v \in ToSet(term.args) : ~IsImm(v)}

Successors(term) == ToSet(term.to)

HasSideEffect(inst) == inst.op \in {"Putchar", "PutcharIf", "Getchar", "Store", "MemInc", "CellSet"}

AddrUsesReg(addr, r) == r \in ToSet(addr)

-----------------------------------------------------------------------------
(* What an instruction computes from the values v of its operands.         *)
LE(v, n)  == FoldLeft(LAMBDA acc, k : acc + v[k] * BASE ^ (k - 1), 0, [k \in 1..n |-> k])
Lhs(v)    == SubSeq(v, 1, 4)
Rhs(v)    == SubSeq(v, 5, 8)
Signed(x) == IF x >= WORD \div 2 THEN x - WORD ELSE x
Bit(b)    == IF b THEN 1 ELSE 0
AtLane(x, lane) == (x \div BASE ^ lane) % BASE

(* Division rounds toward zero, a remainder takes the sign of the dividend.  *)
AbsInt(x)      == IF x < 0 THEN -x ELSE x
TruncDiv(a, b) == LET q == AbsInt(a) \div AbsInt(b) IN IF (a < 0) = (b < 0) THEN q ELSE -q
TruncRem(a, b) == a - b * TruncDiv(a, b)

DivRem(op, a, b) ==
    CASE b = 0         -> 0
      [] op = "DivU32" -> a \div b
      [] op = "RemU32" -> a % b
      [] op = "DivS32" -> TruncDiv(Signed(a), Signed(b)) % WORD
      [] op = "RemS32" -> TruncRem(Signed(a), Signed(b)) % WORD

Compare(op, a, b) ==
    CASE op = "CmpEq"  -> a = b
      [] op = "CmpNe"  -> a # b
      [] op = "CmpLtU" -> a < b
      [] op = "CmpGeU" -> a >= b
      [] op = "CmpLtS" -> Signed(a) < Signed(b)
      [] op = "CmpGeS" -> Signed(a) >= Signed(b)

(* Half a word at a time, which keeps the numbers small. *)
WordProduct(a, b) == (a * (b % BASE ^ 2) + ((a * (b \div BASE ^ 2)) % BASE ^ 2) * BASE ^ 2) % WORD

Eval(op, v, lane) ==
    LET n == lane + 1
    IN  CASE op = "Copy"    -> v[1]
          [] op = "Add32"   -> AtLane(LE(Lhs(v), n) + LE(Rhs(v), n), lane)
          [] op = "Sub32"   -> AtLane((LE(Lhs(v), n) - LE(Rhs(v), n)) % WORD, lane)
          [] op = "Mul32"   -> AtLane(WordProduct(LE(Lhs(v), n), LE(Rhs(v), n)), lane)
          [] op = "Borrow32" -> Bit(LE(Lhs(v), 4) < LE(Rhs(v), 4))
          [] op \in DivOps  -> AtLane(DivRem(op, LE(Lhs(v), 4), LE(Rhs(v), 4)), lane)
          [] op \in CmpOps  -> Bit(Compare(op, LE(Lhs(v), 4), LE(Rhs(v), 4)))
          [] op = "Sub"     -> (v[1] - v[2]) % BASE
          [] op = "MulLo"   -> (v[1] * v[2]) % BASE
          [] op = "MulHi"   -> (v[1] * v[2]) \div BASE
          [] op = "And8"    -> v[1] & v[2]
          [] op = "Or8"     -> v[1] | v[2]
          [] op = "Xor8"    -> v[1] ^^ v[2]
          [] op = "Eq"      -> Bit(v[1] = v[2])
          [] op = "Ne"      -> Bit(v[1] # v[2])
          [] op = "LtU"     -> Bit(v[1] < v[2])
          [] op = "GeU"     -> Bit(v[1] >= v[2])
          [] op = "BoolAnd" -> Bit(\A k \in DOMAIN v : v[k] # 0)
          [] op = "BoolOr"  -> Bit(\E k \in DOMAIN v : v[k] # 0)
          [] op = "BoolNot" -> Bit(v[1] = 0)
          [] op = "Sel"     -> IF v[1] # 0 THEN v[2] ELSE v[3]

-----------------------------------------------------------------------------
(* Running a function.  env: the keys read, the random byte (also what an  *)
(* unwritten register happens to hold), the memory and the cells at entry. *)
Put(st, r, v) == [st EXCEPT !.reg[r] = v]

Exec(st, inst) ==
    LET val(x) == IF IsImm(x) THEN ImmValue(x) ELSE st.reg[x]
        v      == [k \in DOMAIN inst.args |-> val(inst.args[k])]
        at     == inst.base + inst.lane + v[1] + BASE * v[2]
        bumped == (LE([k \in 1..4 |-> st.mem[at + k - 1]], 4) + inst.imm) % WORD
    IN  CASE inst.op = "Putchar"   -> [st EXCEPT !.out = Append(@, v[1])]
          [] inst.op = "PutcharIf" -> IF v[2] # 0 THEN [st EXCEPT !.out = Append(@, v[1])] ELSE st
          [] inst.op = "Getchar"   -> [Put(st, inst.dst, IF st.keys = <<>> THEN BASE - 1 ELSE Head(st.keys))
                                        EXCEPT !.keys = IF @ = <<>> THEN @ ELSE Tail(@)]
          [] inst.op = "Random"    -> Put(st, inst.dst, st.rand)
          [] inst.op = "CellGet"   -> Put(st, inst.dst, st.cells[inst.imm])
          [] inst.op = "CellSet"   -> [st EXCEPT !.cells[inst.imm] = v[1]]
          [] inst.op = "Load"      -> IF at < MemEnd THEN Put(st, inst.dst, st.mem[at])
                                                     ELSE [st EXCEPT !.pc = "OutOfBounds"]
          [] inst.op = "Store"     -> IF at < MemEnd THEN [st EXCEPT !.mem[at] = v[3]]
                                                     ELSE [st EXCEPT !.pc = "OutOfBounds"]
          [] inst.op = "MemInc"    -> IF at + 3 < MemEnd
                                      THEN [st EXCEPT !.mem = [a \in DOMAIN @ |->
                                                IF a \in at..(at + 3) THEN AtLane(bumped, a - at) ELSE @[a]]]
                                      ELSE [st EXCEPT !.pc = "OutOfBounds"]
          [] OTHER                 -> Put(st, inst.dst, Eval(inst.op, v, inst.lane))

Jump(st, term) ==
    LET val(x) == IF IsImm(x) THEN ImmValue(x) ELSE st.reg[x]
        v      == [k \in DOMAIN term.args |-> val(term.args[k])]
        go(n)  == [st EXCEPT !.at = n]
    IN  CASE term.op = "Goto"      -> go(term.to[1])
          [] term.op = "Branch"    -> go(term.to[IF v[1] # 0 THEN 1 ELSE 2])
          [] term.op = "Switch"    -> go(term.to[IF v[1] + 1 < Len(term.to) THEN v[1] + 1 ELSE Len(term.to)])
          [] term.op = "CallSetup" ->
                 [go(term.to[1]) EXCEPT
                    !.out = @ \o v,
                    !.reg = [r \in DOMAIN @ |-> IF r \in ToSet(term.defs) THEN Callee(v) ELSE @[r]]]
          [] OTHER                 -> [st EXCEPT !.pc = term.op, !.ret = v]

(* The observable outcome: prints, memory, cells, result, how it ended. *)
Run(blocks, env, regs) ==
    LET start   == [reg |-> [r \in regs |-> env.rand], mem |-> env.mem, cells |-> env.cells,
                    keys |-> env.keys, rand |-> env.rand, out |-> <<>>, ret |-> <<>>,
                    pc |-> "run", at |-> blocks[1].id]
        body(st) == blocks[CHOOSE k \in DOMAIN blocks : blocks[k].id = st.at]
        exec(st, inst) == IF st.pc = "run" THEN Exec(st, inst) ELSE st
        step(st, n) == IF st.pc # "run" THEN st
                       ELSE LET done == FoldLeft(exec, st, body(st).insts)
                            IN  IF done.pc = "run" THEN Jump(done, body(st).term) ELSE done
        end     == FoldLeft(step, start, [n \in 1..Fuel |-> n])
    IN  [out |-> end.out, mem |-> end.mem, cells |-> end.cells, ret |-> end.ret, pc |-> end.pc]
=============================================================================
