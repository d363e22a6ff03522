----------------------------- MODULE CycleExec ------------------------------
(***************************************************************************)
(* What instructions do.  Apply is one op of emit_logic (src/emit/         *)
(* logic.rs): registers are read through reg_now, so an op sees what       *)
(* earlier ops of its cycle computed; memory, globals, exception state and *)
(* the call stack are read from the stage-1 snapshot the cycle started     *)
(* with, and writes become visible when the cycle ends.  Run one           *)
(* instruction per cycle, the same operator is the sequential meaning of   *)
(* the block.                                                              *)
(*                                                                         *)
(* A machine state is a record [reg, mem, glob, eh, cs, sp, ra, keys, out, *)
(* trap].  Bytes are 0 .. Radix - 1; keys is what the user types, out the  *)
(* framebuffer, ra where a Return ending the cycle jumps, trap the trap    *)
(* the pc column would select.                                             *)
(***************************************************************************)
EXTENDS Inst8

CONSTANTS
    Radix,          \* values of a byte (256 in the program)
    MemEnd,         \* memory_end: first byte address out of bounds
    CsSlots,        \* number of call-stack slots
    Registers,      \* names of registers
    Globals,        \* numbers of global bytes
    ExcCells,       \* numbers of exception cells
    Compute(_, _)   \* what a pure instruction makes of its operands

(* What a pure op computes is not the cycle's concern, only what it reads. *)
PureValue(inst, reg) == Compute(inst, [k \in DOMAIN inst.src |-> reg[inst.src[k]]])

(* mem_addr_bounds of offset from a base, which is never negative. *)
MemOk(base, offset) == base \in Nat /\ base + offset < MemEnd

(* cs_bounds_check: a slot must exist, a stack pointer may also be the end. *)
SlotOk(s) == s \in 0..(CsSlots - 1)
SpOk(s)   == s \in 0..CsSlots

IsMachine(s) ==
    /\ s = [reg |-> s.reg, mem |-> s.mem, glob |-> s.glob, eh |-> s.eh, cs |-> s.cs,
            sp |-> s.sp, ra |-> s.ra, keys |-> s.keys, out |-> s.out, trap |-> s.trap]
    /\ DOMAIN s.reg = Registers
    /\ DOMAIN s.mem = 0..(MemEnd - 1)
    /\ DOMAIN s.glob = Globals
    /\ DOMAIN s.eh = ExcCells
    /\ DOMAIN s.cs = 0..(CsSlots - 1)
    /\ SpOk(s.sp)

SetReg(s, r, v) == IF r = NoReg THEN s ELSE [s EXCEPT !.reg[r] = v]
Trap(s, why) == [s EXCEPT !.trap = why]

(* MemInc32: four little-endian digits at a, incremented as one number. *)
IncWidth == 4
MemInc(mem, old, a) ==
    LET Pow(k)  == Radix ^ k
        num     == old[a] + Radix * old[a+1] + Pow(2) * old[a+2] + Pow(3) * old[a+3]
        digit(k) == ((num + 1) \div Pow(k)) % Radix
    IN  [b \in DOMAIN mem |-> IF b \in a..(a + IncWidth - 1)
                              THEN digit(b - a) ELSE mem[b]]

(* The Pc a CsStorePc saves; a block stores at most one. *)
PcToken == Radix

(* A slot is two byte lanes; a stored Pc takes both. *)
CsWrite(cs, slot, lanes, v) ==
    [cs EXCEPT ![slot] = [l \in 0..1 |-> IF l \in lanes THEN v ELSE cs[slot][l]]]

-----------------------------------------------------------------------------
(* Each family: inst applied to acc, the cycle's pending result; snap is   *)
(* the state the cycle started from, addr the value of the op's address    *)
(* register.                                                               *)
ApplyPure(inst, acc) ==
    SetReg(acc, inst.dst, PureValue(inst, acc.reg))

(* Out of bounds: the load keeps the old register, the store is dropped    *)
(* (--sel on in_bounds) and the trap column fires.                         *)
ApplyMem(inst, snap, addr, acc) ==
    LET a == addr + inst.at
        last == IF IsInc(inst) THEN inst.at + IncWidth - 1 ELSE inst.at
    IN  IF ~MemOk(addr, last)
        THEN Trap(IF inst.op = "LoadMem"
                         THEN SetReg(acc, inst.dst, snap.reg[inst.dst]) ELSE acc,
                         "memory")
        ELSE CASE inst.op = "LoadMem"  -> SetReg(acc, inst.dst, snap.mem[a])
               [] inst.op = "StoreMem" -> [acc EXCEPT !.mem[a] = acc.reg[inst.src[2]]]
               [] OTHER                -> [acc EXCEPT !.mem = MemInc(@, snap.mem, a)]

ApplyGlobal(inst, snap, acc) ==
    IF IsWrite(inst) THEN [acc EXCEPT !.glob[inst.at] = acc.reg[inst.src[1]]]
    ELSE SetReg(acc, inst.dst, snap.glob[inst.at])

ApplyEh(inst, snap, acc) ==
    IF IsWrite(inst) THEN [acc EXCEPT !.eh[inst.at] = acc.reg[inst.src[1]]]
    ELSE SetReg(acc, inst.dst, snap.eh[inst.at])

(* Reads of keys are consumed in the order the cycles make them. *)
ApplyIo(inst, acc) ==
    CASE inst.op = "Putchar" -> [acc EXCEPT !.out = Append(@, acc.reg[inst.src[1]])]
      [] inst.op = "PutcharIf" ->
            IF acc.reg[inst.src[2]] = 0 THEN acc
            ELSE [acc EXCEPT !.out = Append(@, acc.reg[inst.src[1]])]
      [] OTHER -> [SetReg(acc, inst.dst, Head(acc.keys)) EXCEPT !.keys = Tail(@)]

ApplySp(inst, snap, acc) ==
    LET sp == IF inst.op = "CsAlloc" THEN snap.sp + inst.at ELSE snap.sp - inst.at
    IN  IF SpOk(sp) THEN [acc EXCEPT !.sp = sp] ELSE Trap(acc, "callstack")

ApplyCs(inst, snap, acc) ==
    LET slot == snap.sp + CsSlot(inst)
        lane == inst.at % 2
    IN  IF ~SlotOk(slot) THEN Trap(IF inst.op = "CsLoad"
                                   THEN SetReg(acc, inst.dst, snap.reg[inst.dst])
                                   ELSE acc, "callstack")
        ELSE CASE inst.op = "CsStore" ->
                    [acc EXCEPT !.cs = CsWrite(@, slot, {lane}, acc.reg[inst.src[1]])]
               [] inst.op = "CsStorePc" ->
                    [acc EXCEPT !.cs = CsWrite(@, slot, {0, 1}, PcToken)]
               [] inst.op = "CsLoad" -> SetReg(acc, inst.dst, snap.cs[slot][lane])
               [] OTHER -> [acc EXCEPT !.ra = snap.cs[slot]]

Apply(inst, snap, addr, acc) ==
    CASE inst.op \in PureOps    -> ApplyPure(inst, acc)
      [] IsMem(inst) \/ IsInc(inst) -> ApplyMem(inst, snap, addr, acc)
      [] IsGlobal(inst)         -> ApplyGlobal(inst, snap, acc)
      [] IsEh(inst)             -> ApplyEh(inst, snap, acc)
      [] IsIo(inst)             -> ApplyIo(inst, acc)
      [] IsSp(inst)             -> ApplySp(inst, snap, acc)
      [] OTHER                  -> ApplyCs(inst, snap, acc)

Failed(s) == s.trap # "no"

-----------------------------------------------------------------------------
Accesses(inst) == IsMem(inst) \/ IsInc(inst)

(* The meaning of a block: each instruction reads what the one before it   *)
(* left.  A trap parks the pc on a negative value, and nothing runs.       *)
Execute(inst, s) ==
    IF Failed(s) THEN s
    ELSE Apply(inst, s, IF Accesses(inst) THEN s.reg[AddrReg(inst)] ELSE 0, s)

RunSequentially(blk, s) ==
    LET run[k \in 0..Len(blk)] == IF k = 0 THEN s ELSE Execute(blk[k], run[k - 1])
    IN  run[Len(blk)]

(* assign_addr_slot: an address expression that loads and stores of a      *)
(* cycle share is computed once, at the first of its uses.                 *)
Shared(ops, r) == Cardinality({k \in DOMAIN ops : IsMem(ops[k]) /\ AddrReg(ops[k]) = r}) > 1
UsedAt(ops, r) == {k \in DOMAIN ops : Accesses(ops[k]) /\ AddrReg(ops[k]) = r}
ComputedAt(ops, k) ==
    IF Shared(ops, AddrReg(ops[k]))
    THEN CHOOSE m \in UsedAt(ops, AddrReg(ops[k])) :
             \A n \in UsedAt(ops, AddrReg(ops[k])) : m <= n
    ELSE k

(* The state after the cycle ops started in s.  A Return finds its target  *)
(* in the CsLoadPc of its own cycle, else at the current stack pointer.    *)
TopPc(s) == IF SlotOk(s.sp) THEN s.cs[s.sp] ELSE s.ra
RunCycle(ops, s) ==
    LET run[k \in 0..Len(ops)] ==
            IF k = 0 THEN [s EXCEPT !.ra = TopPc(s)]
            ELSE Apply(ops[k], s,
                       IF Accesses(ops[k])
                       THEN run[ComputedAt(ops, k) - 1].reg[AddrReg(ops[k])] ELSE 0,
                       run[k - 1])
    IN  run[Len(ops)]

Cycle(ops, s) == IF Failed(s) THEN s ELSE RunCycle(ops, s)
RunCycles(groups, s) ==
    LET run[c \in 0..Len(groups)] == IF c = 0 THEN s ELSE Cycle(groups[c], run[c - 1])
    IN  run[Len(groups)]
=============================================================================
