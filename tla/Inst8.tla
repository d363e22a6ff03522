------------------------------- MODULE Inst8 -------------------------------
(***************************************************************************)
(* IR8 instructions (src/ir8.rs) and the dependence tests the scheduler    *)
(* makes on them (src/schedule.rs).                                        *)
(*                                                                         *)
(* An instruction is a record [op, dst, src, at]:                          *)
(*   op   the Inst8Kind, the pure byte operations grouped by their cost;   *)
(*   dst  the register it defines, NoReg when Inst8.dst is None;           *)
(*   src  the registers it reads, in operand order; a memory access has    *)
(*        its address expression first; immediates are registers that      *)
(*        nobody writes, or left out where op and at say what they do;     *)
(*   at   the static operand: byte offset (base + lane), call-stack        *)
(*        offset, frame size, global byte, exception channel.              *)
(***************************************************************************)
EXTENDS Integers, Sequences, FiniteSets

NoReg == "none"

Inst(op, dst, src, at) == [op |-> op, dst |-> dst, src |-> src, at |-> at]

(* Pure byte operations, by their cost in inst_complexity. *)
CheapOps == {"Byte"}           \* Copy, Add32Byte, Sub, And8, Eq, Sel, ...
CmpOps   == {"Cmp32"}
WideOps  == {"Mul"}            \* MulLo, MulHi, Mul32Byte, DivRem32*
PureOps  == CheapOps \cup CmpOps \cup WideOps

MemOps    == {"LoadMem", "StoreMem"}
GlobalOps == {"GlobalGetByte", "GlobalSetByte"}
EhOps     == {"ExcGet", "ExcSet"}
PutOps    == {"Putchar", "PutcharIf"}
GetOps    == {"Getchar", "GetcharNow"}      \* blocking, non-blocking
CsByteOps == {"CsStore", "CsLoad"}
CsPcOps   == {"CsStorePc", "CsLoadPc"}
SpOps     == {"CsAlloc", "CsFree"}
WriteOps  == {"StoreMem", "GlobalSetByte", "ExcSet", "CsStore", "CsStorePc"}
Ops == PureOps \cup MemOps \cup {"MemInc32"} \cup GlobalOps \cup EhOps
         \cup PutOps \cup GetOps \cup CsByteOps \cup CsPcOps \cup SpOps

Uses(inst) == {inst.src[k] : k \in DOMAIN inst.src}
Defs(inst) == {inst.dst} \ {NoReg}

IsWrite(inst)    == inst.op \in WriteOps
IsMem(inst)      == inst.op \in MemOps
IsInc(inst)      == inst.op = "MemInc32"
IsGlobal(inst)   == inst.op \in GlobalOps
IsEh(inst)       == inst.op \in EhOps
IsPut(inst)      == inst.op \in PutOps
IsIo(inst)       == inst.op \in PutOps \cup GetOps
IsSp(inst)       == inst.op \in SpOps
IsCs(inst)       == inst.op \in CsByteOps \cup CsPcOps \cup SpOps

(* InstProfile: only a blocking Getchar needs a cycle of its own. *)
IsGetchar(inst)  == inst.op = "Getchar"
IsStoreMem(inst) == inst.op = "StoreMem"

InstComplexity(inst) ==
    CASE inst.op \in CheapOps -> 1
      [] inst.op \in WideOps \cup MemOps -> 3
      [] inst.op = "MemInc32" -> 6
      [] OTHER -> 2

-----------------------------------------------------------------------------
(* The address expression of a memory access: a register (pair). *)
AddrReg(inst) == inst.src[1]

(* Call-stack bytes are addressed two to a slot; a Pc takes a whole slot. *)
CsSlot(inst)  == IF inst.op \in CsByteOps THEN inst.at \div 2 ELSE inst.at
CsLanes(inst) == IF inst.op \in CsByteOps THEN {inst.at % 2} ELSE {0, 1}

CsConflict(a, b) ==
    \/ IsSp(a) \/ IsSp(b)
    \/ /\ IsWrite(a) \/ IsWrite(b)
       /\ CsSlot(a) = CsSlot(b)
       /\ CsLanes(a) \cap CsLanes(b) # {}

(* A write orders what follows it; a read orders a later write only when   *)
(* the two are compared for order, not for sharing a cycle (reads see the  *)
(* state before the cycle).                                                *)
WriteFirst(a, b, readsNeedOrder) == IsWrite(a) \/ (readsNeedOrder /\ IsWrite(b))

EffectConflict(a, b, readsNeedOrder) ==
    \/ IsCs(a) /\ IsCs(b) /\ CsConflict(a, b)
    \/ IsIo(a) /\ IsIo(b) /\ (readsNeedOrder \/ ~IsPut(a) \/ ~IsPut(b))
    \/ IsInc(a) /\ (IsInc(b) \/ IsMem(b))
    \/ IsMem(a) /\ IsInc(b)
    \/ /\ IsMem(a) /\ IsMem(b)
       /\ WriteFirst(a, b, readsNeedOrder)
       /\ AddrReg(a) = AddrReg(b) => a.at = b.at      \* else they may alias
    \/ /\ (IsGlobal(a) /\ IsGlobal(b)) \/ (IsEh(a) /\ IsEh(b))
       /\ WriteFirst(a, b, readsNeedOrder)
       /\ a.at = b.at

(* Slip: a write need not stay behind an earlier read. *)
RegisterOrderDependent_NoAnti(a, b) == Defs(a) \cap (Defs(b) \cup Uses(b)) # {}

RegisterOrderDependent(a, b) ==
    \/ Defs(a) \cap (Defs(b) \cup Uses(b)) # {}
    \/ Defs(b) \cap Uses(a) # {}

NoSameCycleRegisterHazard(prev, next) ==
    Defs(prev) \cap (Defs(next) \cup Uses(next)) = {}

MustOrderBefore(a, b) ==
    RegisterOrderDependent(a, b) \/ EffectConflict(a, b, TRUE)

CanShareCycleAfter(prev, next) ==
    /\ NoSameCycleRegisterHazard(prev, next)
    /\ ~EffectConflict(prev, next, FALSE)
=============================================================================
