----------------------- MODULE ScheduleMeaning_proofs -----------------------
(***************************************************************************)
(* The cycles of a schedule compute what the block computes, for every     *)
(* block, every machine and every meaning of the pure instructions.        *)
(***************************************************************************)
EXTENDS ScheduleMeaning, BlockScheduler_proofs, NatLemmas

-----------------------------------------------------------------------------
(* What an instruction does, field by field.                               *)

NewSp(inst, snap) == IF inst.op = "CsAlloc" THEN snap.sp + inst.at ELSE snap.sp - inst.at
LastByte(inst) == IF IsInc(inst) THEN inst.at + IncWidth - 1 ELSE inst.at
NamesSlot(inst) == inst.op \in CsByteOps \cup CsPcOps
SlotOf(inst, snap) == snap.sp + CsSlot(inst)

Fails(inst, snap, addr) ==
    \/ Accesses(inst) /\ ~MemOk(addr, LastByte(inst))
    \/ IsSp(inst) /\ ~SpOk(NewSp(inst, snap))
    \/ NamesSlot(inst) /\ ~SlotOk(SlotOf(inst, snap))

SetsReg(inst) ==
    inst.op \in PureOps \cup {"LoadMem", "GlobalGetByte", "ExcGet", "CsLoad"} \cup GetOps
Result(inst, snap, addr, acc) ==
    CASE inst.op \in PureOps       -> PureValue(inst, acc.reg)
      [] inst.op = "LoadMem"       -> snap.mem[addr + inst.at]
      [] inst.op = "GlobalGetByte" -> snap.glob[inst.at]
      [] inst.op = "ExcGet"        -> snap.eh[inst.at]
      [] inst.op = "CsLoad"        -> snap.cs[SlotOf(inst, snap)][inst.at % 2]
      [] OTHER                     -> Head(acc.keys)

RegAfter(inst, snap, addr, acc) ==
    IF SetsReg(inst) /\ inst.dst # NoReg
    THEN [acc.reg EXCEPT ![inst.dst] = Result(inst, snap, addr, acc)] ELSE acc.reg
MemAfter(inst, snap, addr, acc) ==
    CASE inst.op = "StoreMem" -> [acc.mem EXCEPT ![addr + inst.at] = acc.reg[inst.src[2]]]
      [] inst.op = "MemInc32" -> MemInc(acc.mem, snap.mem, addr + inst.at)
      [] OTHER                -> acc.mem
GlobAfter(inst, acc) ==
    IF inst.op = "GlobalSetByte"
    THEN [acc.glob EXCEPT ![inst.at] = acc.reg[inst.src[1]]] ELSE acc.glob
EhAfter(inst, acc) ==
    IF inst.op = "ExcSet" THEN [acc.eh EXCEPT ![inst.at] = acc.reg[inst.src[1]]] ELSE acc.eh
CsAfter(inst, snap, acc) ==
    CASE inst.op = "CsStore" ->
            CsWrite(acc.cs, SlotOf(inst, snap), {inst.at % 2}, acc.reg[inst.src[1]])
      [] inst.op = "CsStorePc" -> CsWrite(acc.cs, SlotOf(inst, snap), {0, 1}, PcToken)
      [] OTHER -> acc.cs
SpAfter(inst, snap, acc) == IF IsSp(inst) THEN NewSp(inst, snap) ELSE acc.sp
RaAfter(inst, snap, acc) ==
    IF inst.op = "CsLoadPc" THEN snap.cs[SlotOf(inst, snap)] ELSE acc.ra
KeysAfter(inst, acc) == IF inst.op \in GetOps THEN Tail(acc.keys) ELSE acc.keys
OutAfter(inst, acc) ==
    IF inst.op = "Putchar" \/ (inst.op = "PutcharIf" /\ acc.reg[inst.src[2]] # 0)
    THEN Append(acc.out, acc.reg[inst.src[1]]) ELSE acc.out

Outcome(inst, snap, addr, acc) ==
    [reg  |-> RegAfter(inst, snap, addr, acc), mem |-> MemAfter(inst, snap, addr, acc),
     glob |-> GlobAfter(inst, acc), eh |-> EhAfter(inst, acc),
     cs   |-> CsAfter(inst, snap, acc), sp |-> SpAfter(inst, snap, acc),
     ra   |-> RaAfter(inst, snap, acc), keys |-> KeysAfter(inst, acc),
     out  |-> OutAfter(inst, acc), trap |-> acc.trap]

(* A machine is a record of its ten fields. *)
Fields(reg, mem, glob, eh, cs, sp, ra, keys, out, trap) ==
    [reg |-> reg, mem |-> mem, glob |-> glob, eh |-> eh, cs |-> cs, sp |-> sp,
     ra |-> ra, keys |-> keys, out |-> out, trap |-> trap]
IsShaped(s) ==
    s = Fields(s.reg, s.mem, s.glob, s.eh, s.cs, s.sp, s.ra, s.keys, s.out, s.trap)

LEMMA FieldUpdates ==
    ASSUME NEW s, IsShaped(s), NEW v
    PROVE
    /\ [s EXCEPT !.reg = v] = Fields(v, s.mem, s.glob, s.eh, s.cs, s.sp, s.ra, s.keys, s.out, s.trap)
    /\ [s EXCEPT !.mem = v] = Fields(s.reg, v, s.glob, s.eh, s.cs, s.sp, s.ra, s.keys, s.out, s.trap)
    /\ [s EXCEPT !.glob = v] = Fields(s.reg, s.mem, v, s.eh, s.cs, s.sp, s.ra, s.keys, s.out, s.trap)
    /\ [s EXCEPT !.eh = v] = Fields(s.reg, s.mem, s.glob, v, s.cs, s.sp, s.ra, s.keys, s.out, s.trap)
    /\ [s EXCEPT !.cs = v] = Fields(s.reg, s.mem, s.glob, s.eh, v, s.sp, s.ra, s.keys, s.out, s.trap)
    /\ [s EXCEPT !.sp = v] = Fields(s.reg, s.mem, s.glob, s.eh, s.cs, v, s.ra, s.keys, s.out, s.trap)
    /\ [s EXCEPT !.ra = v] = Fields(s.reg, s.mem, s.glob, s.eh, s.cs, s.sp, v, s.keys, s.out, s.trap)
    /\ [s EXCEPT !.keys = v] = Fields(s.reg, s.mem, s.glob, s.eh, s.cs, s.sp, s.ra, v, s.out, s.trap)
    /\ [s EXCEPT !.out = v] = Fields(s.reg, s.mem, s.glob, s.eh, s.cs, s.sp, s.ra, s.keys, v, s.trap)
    /\ [s EXCEPT !.trap = v] = Fields(s.reg, s.mem, s.glob, s.eh, s.cs, s.sp, s.ra, s.keys, s.out, v)
BY DEF IsShaped, Fields

(* Which family an op belongs to. *)
LEMMA Families ==
    ASSUME NEW inst, inst.op \in Ops, NEW snap, NEW addr, NEW acc
    PROVE  /\ inst.op \in PureOps => Apply(inst, snap, addr, acc) = ApplyPure(inst, acc)
           /\ Accesses(inst) => Apply(inst, snap, addr, acc) = ApplyMem(inst, snap, addr, acc)
           /\ IsGlobal(inst) => Apply(inst, snap, addr, acc) = ApplyGlobal(inst, snap, acc)
           /\ IsEh(inst) => Apply(inst, snap, addr, acc) = ApplyEh(inst, snap, acc)
           /\ IsIo(inst) => Apply(inst, snap, addr, acc) = ApplyIo(inst, acc)
           /\ IsSp(inst) => Apply(inst, snap, addr, acc) = ApplySp(inst, snap, acc)
           /\ NamesSlot(inst) => Apply(inst, snap, addr, acc) = ApplyCs(inst, snap, acc)
           /\ \/ inst.op \in PureOps \/ Accesses(inst) \/ IsGlobal(inst) \/ IsEh(inst)
              \/ IsIo(inst) \/ IsSp(inst) \/ NamesSlot(inst)
<1> USE DEF IsMem, IsInc, IsGlobal, IsEh, IsIo, IsSp, NamesSlot, Accesses, PureOps, CheapOps,
            CmpOps, WideOps, MemOps, GlobalOps, EhOps, PutOps, GetOps, CsByteOps, CsPcOps, SpOps
<1>1. inst.op \in PureOps => Apply(inst, snap, addr, acc) = ApplyPure(inst, acc)
  BY DEF Apply
<1>2. Accesses(inst) => Apply(inst, snap, addr, acc) = ApplyMem(inst, snap, addr, acc)
  BY DEF Apply
<1>3. IsGlobal(inst) => Apply(inst, snap, addr, acc) = ApplyGlobal(inst, snap, acc)
  BY DEF Apply
<1>4. IsEh(inst) => Apply(inst, snap, addr, acc) = ApplyEh(inst, snap, acc)
  BY DEF Apply
<1>5. IsIo(inst) => Apply(inst, snap, addr, acc) = ApplyIo(inst, acc)
  BY DEF Apply
<1>6. IsSp(inst) => Apply(inst, snap, addr, acc) = ApplySp(inst, snap, acc)
  BY DEF Apply
<1>7. NamesSlot(inst) => Apply(inst, snap, addr, acc) = ApplyCs(inst, snap, acc)
  BY DEF Apply
<1>8. \/ inst.op \in PureOps \/ Accesses(inst) \/ IsGlobal(inst) \/ IsEh(inst)
      \/ IsIo(inst) \/ IsSp(inst) \/ NamesSlot(inst)
  BY DEF Ops
<1> QED BY <1>1, <1>2, <1>3, <1>4, <1>5, <1>6, <1>7, <1>8

(* An op that only sets its destination. *)
LEMMA SetRegFields ==
    ASSUME NEW s, IsShaped(s), NEW r, NEW v
    PROVE  SetReg(s, r, v) =
              Fields(IF r = NoReg THEN s.reg ELSE [s.reg EXCEPT ![r] = v],
                     s.mem, s.glob, s.eh, s.cs, s.sp, s.ra, s.keys, s.out, s.trap)
<1> DEFINE f == [s.reg EXCEPT ![r] = v]
<1>1. CASE r = NoReg
  BY <1>1 DEF SetReg, IsShaped
<1>2. CASE r # NoReg
  <2>1. SetReg(s, r, v) = [s EXCEPT !.reg = f]
    BY <1>2 DEF SetReg
  <2> HIDE DEF f
  <2>2. [s EXCEPT !.reg = f] = Fields(f, s.mem, s.glob, s.eh, s.cs, s.sp, s.ra, s.keys, s.out, s.trap)
    BY FieldUpdates
  <2> QED BY <1>2, <2>1, <2>2 DEF f
<1> QED BY <1>1, <1>2

(* When its bounds checks hold, an op changes the fields listed above.     *)
LEMMA Succeeds ==
    ASSUME NEW inst, inst.op \in Ops, NEW snap, NEW addr, NEW acc, IsShaped(acc),
           ~Fails(inst, snap, addr)
    PROVE  Apply(inst, snap, addr, acc) = Outcome(inst, snap, addr, acc)
<1> DEFINE t == Apply(inst, snap, addr, acc)
           val == Result(inst, snap, addr, acc)
           onlyReg == Fields(IF inst.dst = NoReg THEN acc.reg ELSE [acc.reg EXCEPT ![inst.dst] = val],
                             acc.mem, acc.glob, acc.eh, acc.cs, acc.sp, acc.ra, acc.keys,
                             acc.out, acc.trap)
<1> USE DEF IsMem, IsInc, IsGlobal, IsEh, IsIo, IsSp, NamesSlot, Accesses, PureOps, CheapOps,
            CmpOps, WideOps, MemOps, GlobalOps, EhOps, PutOps, GetOps, CsByteOps, CsPcOps, SpOps
<1>0. ASSUME SetsReg(inst), inst.op \notin GetOps
      PROVE  Outcome(inst, snap, addr, acc) = onlyReg
  BY <1>0 DEF SetsReg, Outcome, Fields, RegAfter, MemAfter, GlobAfter, EhAfter, CsAfter,
              SpAfter, RaAfter, KeysAfter, OutAfter
<1>1. CASE inst.op \in PureOps
  <2>1. t = SetReg(acc, inst.dst, val)
    BY <1>1, Families DEF ApplyPure, Result
  <2> HIDE DEF val
  <2> QED BY <1>0, <1>1, <2>1, SetRegFields DEF SetsReg
<1>2. CASE inst.op = "LoadMem"
  <2>1. t = SetReg(acc, inst.dst, val)
    BY <1>2, Families DEF ApplyMem, Result, Fails, LastByte
  <2> HIDE DEF val
  <2> QED BY <1>0, <1>2, <2>1, SetRegFields DEF SetsReg
<1>3. CASE inst.op = "StoreMem"
  <2> DEFINE f == [acc.mem EXCEPT ![addr + inst.at] = acc.reg[inst.src[2]]]
  <2>1. t = [acc EXCEPT !.mem = f]
    BY <1>3, Families DEF ApplyMem, Fails, LastByte
  <2>2. Outcome(inst, snap, addr, acc) =
          Fields(acc.reg, f, acc.glob, acc.eh, acc.cs, acc.sp, acc.ra, acc.keys, acc.out, acc.trap)
    BY <1>3 DEF SetsReg, Outcome, Fields, RegAfter, MemAfter, GlobAfter, EhAfter, CsAfter,
                SpAfter, RaAfter, KeysAfter, OutAfter
  <2> HIDE DEF f
  <2> QED BY <2>1, <2>2, FieldUpdates
<1>4. CASE inst.op = "MemInc32"
  <2> DEFINE f == MemInc(acc.mem, snap.mem, addr + inst.at)
  <2>1. t = [acc EXCEPT !.mem = f]
    BY <1>4, Families DEF ApplyMem, Fails, LastByte
  <2>2. Outcome(inst, snap, addr, acc) =
          Fields(acc.reg, f, acc.glob, acc.eh, acc.cs, acc.sp, acc.ra, acc.keys, acc.out, acc.trap)
    BY <1>4 DEF SetsReg, Outcome, Fields, RegAfter, MemAfter, GlobAfter, EhAfter, CsAfter,
                SpAfter, RaAfter, KeysAfter, OutAfter
  <2> HIDE DEF f
  <2> QED BY <2>1, <2>2, FieldUpdates
<1>5. CASE inst.op = "GlobalGetByte"
  <2>1. t = SetReg(acc, inst.dst, val)
    BY <1>5, Families DEF ApplyGlobal, Result, IsWrite, WriteOps
  <2> HIDE DEF val
  <2> QED BY <1>0, <1>5, <2>1, SetRegFields DEF SetsReg
<1>6. CASE inst.op = "GlobalSetByte"
  <2> DEFINE f == [acc.glob EXCEPT ![inst.at] = acc.reg[inst.src[1]]]
  <2>1. t = [acc EXCEPT !.glob = f]
    BY <1>6, Families DEF ApplyGlobal, IsWrite, WriteOps
  <2>2. Outcome(inst, snap, addr, acc) =
          Fields(acc.reg, acc.mem, f, acc.eh, acc.cs, acc.sp, acc.ra, acc.keys, acc.out, acc.trap)
    BY <1>6 DEF SetsReg, Outcome, Fields, RegAfter, MemAfter, GlobAfter, EhAfter, CsAfter,
                SpAfter, RaAfter, KeysAfter, OutAfter
  <2> HIDE DEF f
  <2> QED BY <2>1, <2>2, FieldUpdates
<1>7. CASE inst.op = "ExcGet"
  <2>1. t = SetReg(acc, inst.dst, val)
    BY <1>7, Families DEF ApplyEh, Result, IsWrite, WriteOps
  <2> HIDE DEF val
  <2> QED BY <1>0, <1>7, <2>1, SetRegFields DEF SetsReg
<1>8. CASE inst.op = "ExcSet"
  <2> DEFINE f == [acc.eh EXCEPT ![inst.at] = acc.reg[inst.src[1]]]
  <2>1. t = [acc EXCEPT !.eh = f]
    BY <1>8, Families DEF ApplyEh, IsWrite, WriteOps
  <2>2. Outcome(inst, snap, addr, acc) =
          Fields(acc.reg, acc.mem, acc.glob, f, acc.cs, acc.sp, acc.ra, acc.keys, acc.out, acc.trap)
    BY <1>8 DEF SetsReg, Outcome, Fields, RegAfter, MemAfter, GlobAfter, EhAfter, CsAfter,
                SpAfter, RaAfter, KeysAfter, OutAfter
  <2> HIDE DEF f
  <2> QED BY <2>1, <2>2, FieldUpdates
<1>9. CASE inst.op \in PutOps
  <2>1. t = IF inst.op = "PutcharIf" /\ acc.reg[inst.src[2]] = 0 THEN acc
            ELSE [acc EXCEPT !.out = Append(acc.out, acc.reg[inst.src[1]])]
    BY <1>9, Families DEF ApplyIo
  <2>2. Outcome(inst, snap, addr, acc) =
          IF inst.op = "PutcharIf" /\ acc.reg[inst.src[2]] = 0 THEN acc
          ELSE Fields(acc.reg, acc.mem, acc.glob, acc.eh, acc.cs, acc.sp, acc.ra, acc.keys,
                      Append(acc.out, acc.reg[inst.src[1]]), acc.trap)
    BY <1>9 DEF SetsReg, Outcome, IsShaped, Fields, RegAfter, MemAfter, GlobAfter, EhAfter,
                CsAfter, SpAfter, RaAfter, KeysAfter, OutAfter
  <2> QED BY <2>1, <2>2, FieldUpdates
<1>10. CASE inst.op \in GetOps
  <2> DEFINE u == SetReg(acc, inst.dst, val)
             f == IF inst.dst = NoReg THEN acc.reg ELSE [acc.reg EXCEPT ![inst.dst] = val]
  <2>1. t = [u EXCEPT !.keys = Tail(u.keys)]
    BY <1>10, Families DEF ApplyIo, Result
  <2>2. Outcome(inst, snap, addr, acc) =
          Fields(f, acc.mem, acc.glob, acc.eh, acc.cs, acc.sp, acc.ra, Tail(acc.keys), acc.out, acc.trap)
    BY <1>10 DEF SetsReg, Outcome, Fields, RegAfter, MemAfter, GlobAfter, EhAfter, CsAfter,
                 SpAfter, RaAfter, KeysAfter, OutAfter
  <2>3. u = Fields(f, acc.mem, acc.glob, acc.eh, acc.cs, acc.sp, acc.ra, acc.keys, acc.out, acc.trap)
    <3> HIDE DEF val
    <3> QED BY SetRegFields
  <2> HIDE DEF u, f
  <2>4. IsShaped(u) /\ u.keys = acc.keys
    BY <2>3 DEF IsShaped, Fields
  <2>5. t = Fields(u.reg, u.mem, u.glob, u.eh, u.cs, u.sp, u.ra, Tail(u.keys), u.out, u.trap)
    BY <2>1, <2>4, FieldUpdates
  <2> QED BY <2>2, <2>3, <2>5 DEF Fields
<1>11. CASE IsSp(inst)
  <2>1. t = [acc EXCEPT !.sp = NewSp(inst, snap)]
    BY <1>11, Families DEF ApplySp, Fails, NewSp
  <2>2. Outcome(inst, snap, addr, acc) =
          Fields(acc.reg, acc.mem, acc.glob, acc.eh, acc.cs, NewSp(inst, snap), acc.ra, acc.keys,
                 acc.out, acc.trap)
    BY <1>11 DEF SetsReg, Outcome, Fields, RegAfter, MemAfter, GlobAfter, EhAfter, CsAfter,
                 SpAfter, RaAfter, KeysAfter, OutAfter
  <2> QED BY <2>1, <2>2, FieldUpdates
<1>12. CASE inst.op = "CsLoad"
  <2>1. t = SetReg(acc, inst.dst, val)
    <3>1. t = ApplyCs(inst, snap, acc) /\ SlotOk(snap.sp + CsSlot(inst))
      BY <1>12, Families DEF Fails, SlotOf
    <3>2. val = snap.cs[snap.sp + CsSlot(inst)][inst.at % 2]
      BY <1>12 DEF Result, SlotOf
    <3> QED BY <1>12, <3>1, <3>2 DEF ApplyCs
  <2> HIDE DEF val
  <2> QED BY <1>0, <1>12, <2>1, SetRegFields DEF SetsReg
<1>13. CASE inst.op \in {"CsStore", "CsStorePc"}
  <2> DEFINE f == CsAfter(inst, snap, acc)
  <2>1. t = [acc EXCEPT !.cs = f]
    <3>1. t = ApplyCs(inst, snap, acc) /\ SlotOk(snap.sp + CsSlot(inst))
      BY <1>13, Families DEF Fails, SlotOf
    <3>2. CASE inst.op = "CsStore"
      BY <3>1, <3>2 DEF ApplyCs, CsAfter, SlotOf
    <3>3. CASE inst.op = "CsStorePc"
      BY <3>1, <3>3 DEF ApplyCs, CsAfter, SlotOf
    <3> QED BY <1>13, <3>2, <3>3
  <2>2. Outcome(inst, snap, addr, acc) =
          Fields(acc.reg, acc.mem, acc.glob, acc.eh, f, acc.sp, acc.ra, acc.keys, acc.out, acc.trap)
    BY <1>13 DEF SetsReg, Outcome, Fields, RegAfter, MemAfter, GlobAfter, EhAfter,
                 SpAfter, RaAfter, KeysAfter, OutAfter
  <2> HIDE DEF f
  <2> QED BY <2>1, <2>2, FieldUpdates
<1>14. CASE inst.op = "CsLoadPc"
  <2> DEFINE v == snap.cs[SlotOf(inst, snap)]
  <2>1. t = [acc EXCEPT !.ra = v]
    <3>1. t = ApplyCs(inst, snap, acc) /\ SlotOk(snap.sp + CsSlot(inst))
      BY <1>14, Families DEF Fails, SlotOf
    <3> QED BY <1>14, <3>1 DEF ApplyCs, SlotOf
  <2>2. Outcome(inst, snap, addr, acc) =
          Fields(acc.reg, acc.mem, acc.glob, acc.eh, acc.cs, acc.sp, v, acc.keys, acc.out, acc.trap)
    BY <1>14 DEF SetsReg, Outcome, Fields, RegAfter, MemAfter, GlobAfter, EhAfter, CsAfter,
                 SpAfter, RaAfter, KeysAfter, OutAfter
  <2> HIDE DEF v
  <2> QED BY <2>1, <2>2, FieldUpdates
<1> QED BY <1>1, <1>2, <1>3, <1>4, <1>5, <1>6, <1>7, <1>8, <1>9, <1>10, <1>11, <1>12, <1>13,
           <1>14 DEF Ops

(* When one does not hold, a trap is set.                                  *)
LEMMA Traps ==
    ASSUME NEW inst, inst.op \in Ops, NEW snap, NEW addr, NEW acc, IsMachine(acc),
           Fails(inst, snap, addr)
    PROVE  IsMachine(Apply(inst, snap, addr, acc)) /\ Failed(Apply(inst, snap, addr, acc))
<1> DEFINE t == Apply(inst, snap, addr, acc)
<1> USE DEF IsMem, IsInc, IsSp, NamesSlot, Accesses, MemOps, CsByteOps, CsPcOps, SpOps
<1>0. IsShaped(acc)
  BY DEF IsMachine, IsShaped, Fields
<1>1. ASSUME NEW u, IsMachine(u), NEW v \in {"memory", "callstack"}
      PROVE  IsMachine(Trap(u, v)) /\ Failed(Trap(u, v))
  <2>1. IsShaped(u)
    BY <1>1 DEF IsMachine, IsShaped, Fields
  <2>2. Trap(u, v) = Fields(u.reg, u.mem, u.glob, u.eh, u.cs, u.sp, u.ra, u.keys, u.out, v)
    BY <2>1 DEF Trap, IsShaped, Fields
  <2> QED BY <1>1, <2>2 DEF IsMachine, Failed, Fields
<1>2. ASSUME NEW v
      PROVE  IsMachine(SetReg(acc, inst.dst, v))
  <2>1. SetReg(acc, inst.dst, v) =
          Fields(IF inst.dst = NoReg THEN acc.reg ELSE [acc.reg EXCEPT ![inst.dst] = v],
                 acc.mem, acc.glob, acc.eh, acc.cs, acc.sp, acc.ra, acc.keys, acc.out, acc.trap)
    BY <1>0, SetRegFields
  <2> DEFINE f == IF inst.dst = NoReg THEN acc.reg ELSE [acc.reg EXCEPT ![inst.dst] = v]
  <2>2. DOMAIN f = Registers
    BY DEF IsMachine
  <2> HIDE DEF f
  <2> QED BY <2>1, <2>2 DEF f, IsMachine, Fields
<1>3. CASE Accesses(inst)
  <2>1. t = ApplyMem(inst, snap, addr, acc) /\ ~MemOk(addr, LastByte(inst))
    BY <1>3, Families DEF Fails
  <2>2. t = Trap(IF inst.op = "LoadMem" THEN SetReg(acc, inst.dst, snap.reg[inst.dst]) ELSE acc,
                 "memory")
    BY <2>1 DEF ApplyMem, LastByte
  <2> QED BY <1>1, <1>2, <2>2
<1>4. CASE IsSp(inst)
  <2>1. t = ApplySp(inst, snap, acc) /\ ~SpOk(NewSp(inst, snap))
    BY <1>4, Families DEF Fails
  <2>2. t = Trap(acc, "callstack")
    BY <2>1 DEF ApplySp, NewSp
  <2> QED BY <1>1, <2>2
<1>5. CASE NamesSlot(inst)
  <2>1. t = ApplyCs(inst, snap, acc) /\ ~SlotOk(snap.sp + CsSlot(inst))
    BY <1>5, Families DEF Fails, SlotOf
  <2>2. t = Trap(IF inst.op = "CsLoad" THEN SetReg(acc, inst.dst, snap.reg[inst.dst]) ELSE acc,
                 "callstack")
    BY <2>1 DEF ApplyCs
  <2> QED BY <1>1, <1>2, <2>2
<1> QED BY <1>3, <1>4, <1>5 DEF Fails

(* What the fields of an outcome are. *)
LEMMA OutcomeFields ==
    ASSUME NEW inst, NEW snap, NEW addr, NEW acc
    PROVE  LET t == Outcome(inst, snap, addr, acc)
           IN  /\ t.reg = RegAfter(inst, snap, addr, acc)
               /\ t.mem = MemAfter(inst, snap, addr, acc)
               /\ t.glob = GlobAfter(inst, acc)
               /\ t.eh = EhAfter(inst, acc)
               /\ t.cs = CsAfter(inst, snap, acc)
               /\ t.sp = SpAfter(inst, snap, acc)
               /\ t.ra = RaAfter(inst, snap, acc)
               /\ t.keys = KeysAfter(inst, acc)
               /\ t.out = OutAfter(inst, acc)
               /\ t.trap = acc.trap
               /\ IsShaped(t)
BY DEF Outcome, IsShaped, Fields

(* An op keeps the shape of a machine, and a trap stays set.               *)
LEMMA Stays ==
    ASSUME NEW inst, inst.op \in Ops, NEW snap, NEW addr, NEW acc, IsMachine(acc)
    PROVE  /\ IsMachine(Apply(inst, snap, addr, acc))
           /\ Failed(acc) => Failed(Apply(inst, snap, addr, acc))
<1>1. CASE Fails(inst, snap, addr)
  BY <1>1, Traps
<1>2. CASE ~Fails(inst, snap, addr)
  <2> DEFINE t == Outcome(inst, snap, addr, acc)
  <2>0. IsShaped(acc)
    BY DEF IsMachine, IsShaped, Fields
  <2>1. Apply(inst, snap, addr, acc) = t
    BY <1>2, <2>0, Succeeds
  <2>2. /\ t.reg = RegAfter(inst, snap, addr, acc) /\ t.mem = MemAfter(inst, snap, addr, acc)
        /\ t.glob = GlobAfter(inst, acc) /\ t.eh = EhAfter(inst, acc)
        /\ t.cs = CsAfter(inst, snap, acc) /\ t.sp = SpAfter(inst, snap, acc)
        /\ t.trap = acc.trap /\ IsShaped(t)
    BY OutcomeFields
  <2> HIDE DEF t
  <2>3. DOMAIN t.reg = Registers
    BY <2>2 DEF RegAfter, IsMachine
  <2>4. DOMAIN t.mem = 0..(MemEnd - 1)
    BY <2>2 DEF MemAfter, IsMachine, MemInc
  <2>5. DOMAIN t.glob = Globals /\ DOMAIN t.eh = ExcCells
    BY <2>2 DEF GlobAfter, EhAfter, IsMachine
  <2>6. DOMAIN t.cs = 0..(CsSlots - 1)
    BY <2>2 DEF CsAfter, CsWrite, IsMachine
  <2>7. SpOk(t.sp)
    BY <2>2, <1>2 DEF SpAfter, Fails, IsMachine
  <2>8. t = [reg |-> t.reg, mem |-> t.mem, glob |-> t.glob, eh |-> t.eh, cs |-> t.cs,
             sp |-> t.sp, ra |-> t.ra, keys |-> t.keys, out |-> t.out, trap |-> t.trap]
    BY <2>2 DEF IsShaped, Fields
  <2>9. IsMachine(t)
    BY <2>3, <2>4, <2>5, <2>6, <2>7, <2>8 DEF IsMachine
  <2> QED BY <2>1, <2>2, <2>9 DEF Failed
<1> QED BY <1>1, <1>2

-----------------------------------------------------------------------------
(* Machines that differ at most in where a Return would go, or that both   *)
(* have trapped.                                                           *)
Same(s, t) ==
    /\ s.reg = t.reg /\ s.mem = t.mem /\ s.glob = t.glob /\ s.eh = t.eh
    /\ s.cs = t.cs /\ s.sp = t.sp /\ s.keys = t.keys /\ s.out = t.out
Alike(s, t) == (Failed(s) <=> Failed(t)) /\ (~Failed(s) => Same(s, t))

LEMMA AlikeIsEquivalence ==
    ASSUME NEW s, NEW t, NEW u
    PROVE  /\ Alike(s, s)
           /\ Alike(s, t) => Alike(t, s)
           /\ Alike(s, t) /\ Alike(t, u) => Alike(s, u)
BY DEF Alike, Same

(* What an op reads of the state its cycle started in is the same in two   *)
(* of them.                                                                *)
SnapSame(inst, addr, p, q) ==
    /\ inst.op = "LoadMem" /\ MemOk(addr, inst.at) =>
           p.mem[addr + inst.at] = q.mem[addr + inst.at]
    /\ IsInc(inst) => p.mem = q.mem
    /\ inst.op = "GlobalGetByte" => p.glob[inst.at] = q.glob[inst.at]
    /\ inst.op = "ExcGet" => p.eh[inst.at] = q.eh[inst.at]
    /\ IsCs(inst) => p.sp = q.sp
    /\ inst.op = "CsLoad" /\ SlotOk(SlotOf(inst, p)) =>
           p.cs[SlotOf(inst, p)][inst.at % 2] = q.cs[SlotOf(inst, p)][inst.at % 2]

LEMMA SameFailure ==
    ASSUME NEW inst, NEW addr, NEW p, NEW q, SnapSame(inst, addr, p, q)
    PROVE  Fails(inst, p, addr) <=> Fails(inst, q, addr)
BY DEF SnapSame, Fails, IsSp, IsCs, NamesSlot, NewSp, SlotOf

LEMMA SameResult ==
    ASSUME NEW inst, NEW addr, NEW p, NEW q, SnapSame(inst, addr, p, q), NEW u, NEW v,
           \A r \in Uses(inst) : u.reg[r] = v.reg[r],
           inst.op \in GetOps => u.keys = v.keys,
           SetsReg(inst), ~Fails(inst, p, addr)
    PROVE  Result(inst, p, addr, u) = Result(inst, q, addr, v)
<1> USE DEF GetOps, PureOps, CheapOps, CmpOps, WideOps
<1>1. CASE inst.op \in PureOps
  <2>1. \A k \in DOMAIN inst.src : u.reg[inst.src[k]] = v.reg[inst.src[k]]
    BY DEF Uses
  <2>2. PureValue(inst, u.reg) = PureValue(inst, v.reg)
    BY <2>1 DEF PureValue
  <2> QED BY <1>1, <2>2 DEF Result
<1>2. CASE inst.op = "LoadMem"
  BY <1>2 DEF SnapSame, Result, Fails, Accesses, LastByte, IsMem, IsInc, MemOps
<1>3. CASE inst.op = "GlobalGetByte"
  BY <1>3 DEF SnapSame, Result
<1>4. CASE inst.op = "ExcGet"
  BY <1>4 DEF SnapSame, Result
<1>5. CASE inst.op = "CsLoad"
  <2>1. p.sp = q.sp /\ SlotOf(inst, p) = SlotOf(inst, q) /\ SlotOk(SlotOf(inst, p))
    BY <1>5 DEF SnapSame, IsCs, CsByteOps, CsPcOps, SpOps, Fails, NamesSlot, SlotOf
  <2> QED BY <1>5, <2>1 DEF SnapSame, Result
<1>6. CASE inst.op \in GetOps
  BY <1>6 DEF Result
<1> QED BY <1>1, <1>2, <1>3, <1>4, <1>5, <1>6 DEF SetsReg

(* An op does the same in any two cycles that started with what it reads.  *)
LEMMA AnySnapshot ==
    ASSUME NEW inst, inst.op \in Ops, NEW addr, NEW p, NEW q, SnapSame(inst, addr, p, q),
           NEW acc, IsMachine(acc), ~Failed(acc)
    PROVE  Alike(Apply(inst, p, addr, acc), Apply(inst, q, addr, acc))
<1>1. CASE Fails(inst, p, addr)
  BY <1>1, SameFailure, Traps DEF Alike
<1>2. CASE ~Fails(inst, p, addr)
  <2>0. IsShaped(acc)
    BY DEF IsMachine, IsShaped, Fields
  <2>1. /\ Apply(inst, p, addr, acc) = Outcome(inst, p, addr, acc)
        /\ Apply(inst, q, addr, acc) = Outcome(inst, q, addr, acc)
    BY <1>2, <2>0, SameFailure, Succeeds
  <2>2. RegAfter(inst, p, addr, acc) = RegAfter(inst, q, addr, acc)
    <3>1. SetsReg(inst) => Result(inst, p, addr, acc) = Result(inst, q, addr, acc)
      BY <1>2, SameResult
    <3> QED BY <3>1 DEF RegAfter
  <2>3. MemAfter(inst, p, addr, acc) = MemAfter(inst, q, addr, acc)
    BY DEF MemAfter, SnapSame, IsInc
  <2>4. /\ CsAfter(inst, p, acc) = CsAfter(inst, q, acc)
        /\ SpAfter(inst, p, acc) = SpAfter(inst, q, acc)
    BY DEF CsAfter, SpAfter, SnapSame, IsCs, IsSp, SlotOf, NewSp, CsByteOps, CsPcOps
  <2> QED BY <2>1, <2>2, <2>3, <2>4, OutcomeFields DEF Alike, Same, Failed
<1> QED BY <1>1, <1>2

(* An op does the same to machines that are alike. *)
LEMMA AnyPending ==
    ASSUME NEW inst, inst.op \in Ops, NEW addr, NEW p, NEW u, NEW v,
           IsMachine(u), IsMachine(v), Alike(u, v)
    PROVE  Alike(Apply(inst, p, addr, u), Apply(inst, p, addr, v))
<1>1. CASE Fails(inst, p, addr) \/ Failed(u)
  BY <1>1, Traps, Stays DEF Alike
<1>2. CASE ~Fails(inst, p, addr) /\ ~Failed(u)
  <2>0. IsShaped(u) /\ IsShaped(v) /\ Same(u, v) /\ ~Failed(v)
    BY <1>2 DEF IsMachine, IsShaped, Fields, Alike
  <2>1. /\ Apply(inst, p, addr, u) = Outcome(inst, p, addr, u)
        /\ Apply(inst, p, addr, v) = Outcome(inst, p, addr, v)
    BY <1>2, <2>0, Succeeds
  <2>2. Result(inst, p, addr, u) = Result(inst, p, addr, v)
    BY <2>0 DEF Same, Result
  <2>3. /\ RegAfter(inst, p, addr, u) = RegAfter(inst, p, addr, v)
        /\ MemAfter(inst, p, addr, u) = MemAfter(inst, p, addr, v)
        /\ GlobAfter(inst, u) = GlobAfter(inst, v) /\ EhAfter(inst, u) = EhAfter(inst, v)
    BY <2>0, <2>2 DEF Same, RegAfter, MemAfter, GlobAfter, EhAfter
  <2>4. /\ CsAfter(inst, p, u) = CsAfter(inst, p, v) /\ SpAfter(inst, p, u) = SpAfter(inst, p, v)
        /\ KeysAfter(inst, u) = KeysAfter(inst, v) /\ OutAfter(inst, u) = OutAfter(inst, v)
    BY <2>0 DEF Same, CsAfter, SpAfter, KeysAfter, OutAfter
  <2> QED BY <2>0, <2>1, <2>3, <2>4, OutcomeFields DEF Alike, Same, Failed
<1> QED BY <1>1, <1>2

-----------------------------------------------------------------------------
(* One instruction by itself.                                              *)
Proper(inst) == inst \in Block /\ Fits(inst)
At(inst, s) == IF Accesses(inst) THEN s.reg[AddrReg(inst)] ELSE 0

LEMMA ExecuteIs ==
    ASSUME NEW inst, NEW s
    PROVE  /\ Failed(s) => Execute(inst, s) = s
           /\ ~Failed(s) => Execute(inst, s) = Apply(inst, s, At(inst, s), s)
BY DEF Execute, At

(* The operands an instruction has. *)
LEMMA Operands ==
    ASSUME NEW inst, Proper(inst)
    PROVE  /\ inst.op \in Ops /\ inst.at \in Nat
           /\ Uses(inst) \subseteq Registers /\ Defs(inst) \subseteq Registers
           /\ Accesses(inst) => AddrReg(inst) \in Uses(inst)
           /\ inst.op \in OneOperand \cup TwoOperands => inst.src[1] \in Uses(inst)
           /\ inst.op \in TwoOperands => inst.src[2] \in Uses(inst)
           /\ IsGlobal(inst) => inst.at \in Globals
           /\ IsEh(inst) => inst.at \in ExcCells
<1>1. inst.op \in Ops /\ inst.at \in Nat /\ inst.src \in Seq(STRING)
  BY DEF Proper, Block
<1>2. Len(inst.src) \in Nat /\ DOMAIN inst.src = 1..Len(inst.src)
  BY <1>1
<1>3. \A k \in DOMAIN inst.src : inst.src[k] \in Uses(inst)
  BY DEF Uses
<1>4. inst.op \in OneOperand \cup TwoOperands => inst.src[1] \in Uses(inst)
  BY <1>2, <1>3 DEF Proper, Fits
<1>5. inst.op \in TwoOperands => inst.src[2] \in Uses(inst)
  BY <1>2, <1>3 DEF Proper, Fits
<1>6. Accesses(inst) => inst.op \in OneOperand \cup TwoOperands
  BY DEF Accesses, IsMem, IsInc, MemOps, OneOperand, TwoOperands
<1> QED BY <1>1, <1>4, <1>5, <1>6 DEF Proper, Fits, AddrReg

LEMMA ExecuteStays ==
    ASSUME NEW inst, inst.op \in Ops, NEW s, IsMachine(s)
    PROVE  /\ IsMachine(Execute(inst, s))
           /\ Failed(s) => Failed(Execute(inst, s))
           /\ ~Failed(s) => (Failed(Execute(inst, s)) <=> Fails(inst, s, At(inst, s)))
<1>1. CASE Failed(s)
  BY <1>1, ExecuteIs
<1>2. CASE ~Failed(s)
  <2>1. Execute(inst, s) = Apply(inst, s, At(inst, s), s)
    BY <1>2, ExecuteIs
  <2>2. CASE Fails(inst, s, At(inst, s))
    BY <1>2, <2>1, <2>2, Traps
  <2>3. CASE ~Fails(inst, s, At(inst, s))
    <3>1. IsShaped(s)
      BY DEF IsMachine, IsShaped, Fields
    <3>2. Execute(inst, s) = Outcome(inst, s, At(inst, s), s)
      BY <2>1, <2>3, <3>1, Succeeds
    <3>3. ~Failed(Execute(inst, s))
      BY <1>2, <3>2, OutcomeFields DEF Failed
    <3>4. IsMachine(Execute(inst, s))
      BY <2>1, Stays
    <3> QED BY <1>2, <2>3, <3>3, <3>4
  <2> QED BY <2>2, <2>3
<1> QED BY <1>1, <1>2

LEMMA ExecuteAlike ==
    ASSUME NEW inst, inst.op \in Ops, NEW u, NEW v, IsMachine(u), IsMachine(v), Alike(u, v)
    PROVE  Alike(Execute(inst, u), Execute(inst, v))
<1>1. CASE Failed(u)
  BY <1>1, ExecuteIs DEF Alike
<1>2. CASE ~Failed(u)
  <2>1. /\ Execute(inst, u) = Apply(inst, u, At(inst, u), u)
        /\ Execute(inst, v) = Apply(inst, v, At(inst, v), v)
    BY <1>2, ExecuteIs DEF Alike
  <2>2. At(inst, u) = At(inst, v) /\ SnapSame(inst, At(inst, u), u, v)
    BY <1>2 DEF Alike, Same, At, SnapSame
  <2>3. Alike(Apply(inst, u, At(inst, u), u), Apply(inst, v, At(inst, u), u))
    BY <1>2, <2>2, AnySnapshot
  <2>4. Alike(Apply(inst, v, At(inst, u), u), Apply(inst, v, At(inst, u), v))
    BY AnyPending
  <2> QED BY <2>1, <2>2, <2>3, <2>4, AlikeIsEquivalence
<1> QED BY <1>1, <1>2

(* All that inst reads, its operands and the state its cycle started in,   *)
(* is the same in s and u.                                                 *)
Undisturbed(inst, s, u) ==
    /\ \A r \in Uses(inst) : s.reg[r] = u.reg[r]
    /\ SnapSame(inst, At(inst, s), s, u)

LEMMA UndisturbedTwice ==
    ASSUME NEW inst, Proper(inst), NEW s, NEW u, NEW v,
           Undisturbed(inst, s, u), Undisturbed(inst, u, v)
    PROVE  Undisturbed(inst, s, v)
<1>1. At(inst, u) = At(inst, s)
  BY Operands DEF Undisturbed, At
<1>2. SnapSame(inst, At(inst, s), s, v)
  BY <1>1 DEF Undisturbed, SnapSame, SlotOf, IsCs, CsByteOps
<1> QED BY <1>2 DEF Undisturbed

(* An address within bounds is one of a byte of memory.                    *)
LEMMA InMemory ==
    ASSUME NEW b, NEW i \in Nat, MemOk(b, i)
    PROVE  b \in Nat /\ b + i \in 0..(MemEnd - 1)
BY MachineAssumption DEF MemOk

(* An instruction leaves alone what a later one of its cycle reads.        *)
LEMMA LeavesReads ==
    ASSUME NEW x, NEW y, Proper(x), Proper(y), CanShareCycleAfter(x, y),
           NEW s, IsMachine(s), ~Failed(s), ~Failed(Execute(x, s))
    PROVE  Undisturbed(y, s, Execute(x, s))
<1> DEFINE u == Execute(x, s)
           a == At(x, s)
           c == At(y, s)
<1>1. u = Outcome(x, s, a, s) /\ ~Fails(x, s, a)
  <2>1. IsShaped(s)
    BY DEF IsMachine, IsShaped, Fields
  <2>2. ~Fails(x, s, a)
    BY ExecuteStays, Operands
  <2> QED BY <2>1, <2>2, ExecuteIs, Succeeds, Operands
<1>2. /\ u.reg = RegAfter(x, s, a, s) /\ u.mem = MemAfter(x, s, a, s)
      /\ u.glob = GlobAfter(x, s) /\ u.eh = EhAfter(x, s)
      /\ u.cs = CsAfter(x, s, s) /\ u.sp = SpAfter(x, s, s)
  BY <1>1, OutcomeFields
<1>3. /\ x.op \in Ops /\ x.at \in Nat /\ y.op \in Ops /\ y.at \in Nat
      /\ Uses(y) \subseteq Registers
      /\ Accesses(x) => AddrReg(x) \in Uses(x)
      /\ Accesses(y) => AddrReg(y) \in Uses(y)
  BY Operands
<1>4. NoSameCycleRegisterHazard(x, y) /\ ~EffectConflict(x, y, FALSE)
  BY DEF CanShareCycleAfter
<1> HIDE DEF u, a, c
<1>5. \A r \in Uses(y) : s.reg[r] = u.reg[r]
  BY <1>2, <1>3, <1>4 DEF RegAfter, NoSameCycleRegisterHazard, Defs, IsMachine
<1>6. ASSUME y.op = "LoadMem", MemOk(c, y.at)
      PROVE  s.mem[c + y.at] = u.mem[c + y.at]
  <2>1. c \in Nat /\ c + y.at \in 0..(MemEnd - 1)
    BY <1>3, <1>6, InMemory
  <2>2. CASE x.op = "StoreMem"
    <3>1. AddrReg(x) = AddrReg(y) /\ x.at # y.at
      BY <1>4, <1>6, <2>2 DEF EffectConflict, IsMem, MemOps, WriteFirst, IsWrite, WriteOps
    <3>2. a = c
      BY <1>6, <2>2, <3>1 DEF a, c, At, Accesses, IsMem, MemOps
    <3>3. a + x.at # c + y.at
      BY <1>3, <2>1, <3>1, <3>2
    <3>4. u.mem = [s.mem EXCEPT ![a + x.at] = s.reg[x.src[2]]]
      BY <1>2, <2>2 DEF MemAfter
    <3> QED BY <2>1, <3>3, <3>4 DEF IsMachine
  <2>3. CASE x.op # "StoreMem"
    <3>1. x.op # "MemInc32"
      BY <1>4, <1>6 DEF EffectConflict, IsMem, IsInc, MemOps
    <3> QED BY <1>2, <2>3, <3>1 DEF MemAfter
  <2> QED BY <2>2, <2>3
<1>7. IsInc(y) => s.mem = u.mem
  <2>1. IsInc(y) => ~IsInc(x) /\ ~IsMem(x)
    BY <1>4 DEF EffectConflict
  <2> QED BY <1>2, <2>1 DEF MemAfter, IsInc, IsMem, MemOps
<1>8. y.op = "GlobalGetByte" => s.glob[y.at] = u.glob[y.at]
  <2>1. y.op = "GlobalGetByte" /\ x.op = "GlobalSetByte" => x.at # y.at
    BY <1>4 DEF EffectConflict, IsGlobal, GlobalOps, WriteFirst, IsWrite, WriteOps
  <2>2. y.op = "GlobalGetByte" => y.at \in Globals
    BY Operands DEF IsGlobal, GlobalOps
  <2> QED BY <1>2, <2>1, <2>2 DEF GlobAfter, IsMachine
<1>9. y.op = "ExcGet" => s.eh[y.at] = u.eh[y.at]
  <2>1. y.op = "ExcGet" /\ x.op = "ExcSet" => x.at # y.at
    BY <1>4 DEF EffectConflict, IsEh, EhOps, WriteFirst, IsWrite, WriteOps
  <2>2. y.op = "ExcGet" => y.at \in ExcCells
    BY Operands DEF IsEh, EhOps
  <2> QED BY <1>2, <2>1, <2>2 DEF EhAfter, IsMachine
<1>10. IsCs(y) => s.sp = u.sp
  BY <1>2, <1>4 DEF SpAfter, EffectConflict, CsConflict, IsCs, IsSp
<1>11. ASSUME y.op = "CsLoad", SlotOk(SlotOf(y, s))
       PROVE  s.cs[SlotOf(y, s)][y.at % 2] = u.cs[SlotOf(y, s)][y.at % 2]
  <2> DEFINE p == SlotOf(x, s)
             q == SlotOf(y, s)
  <2>0. q \in DOMAIN s.cs
    BY <1>11 DEF SlotOk, IsMachine
  <2>1. IsCs(y) /\ CsLanes(y) = {y.at % 2} /\ y.at % 2 \in 0..1
    BY <1>3, <1>11 DEF IsCs, CsLanes, CsByteOps
  <2>2. CASE x.op \in {"CsStore", "CsStorePc"}
    <3>1. IsCs(x) /\ IsWrite(x)
      BY <2>2 DEF IsCs, CsByteOps, CsPcOps, IsWrite, WriteOps
    <3>2. CsSlot(x) # CsSlot(y) \/ CsLanes(x) \cap CsLanes(y) = {}
      BY <1>4, <2>1, <3>1 DEF EffectConflict, CsConflict
    <3>3. CsSlot(x) \in Nat /\ CsSlot(y) \in Nat /\ s.sp \in Int
      BY <1>3 DEF CsSlot, IsMachine, SpOk
    <3>4. CASE CsSlot(x) # CsSlot(y)
      <4>1. p # q
        BY <3>3, <3>4 DEF SlotOf
      <4>2. u.cs[q] = s.cs[q]
        <5> HIDE DEF p, q
        <5> QED BY <1>2, <2>0, <2>2, <4>1 DEF CsAfter, CsWrite, p
      <4> QED BY <4>2
    <3>5. CASE CsLanes(x) \cap CsLanes(y) = {}
      <4>1. x.op = "CsStore" /\ x.at % 2 # y.at % 2
        BY <2>1, <2>2, <3>5 DEF CsLanes, CsByteOps
      <4>2. u.cs = CsWrite(s.cs, p, {x.at % 2}, s.reg[x.src[1]])
        BY <1>2, <4>1 DEF CsAfter
      <4> HIDE DEF p, q
      <4> QED BY <2>0, <2>1, <4>1, <4>2 DEF CsWrite
    <3> QED BY <3>2, <3>4, <3>5
  <2>3. CASE x.op \notin {"CsStore", "CsStorePc"}
    BY <1>2, <2>3 DEF CsAfter
  <2> QED BY <2>2, <2>3
<1> QED BY <1>5, <1>6, <1>7, <1>8, <1>9, <1>10, <1>11 DEF Undisturbed, SnapSame, u, c

-----------------------------------------------------------------------------
(* Independent instructions may be exchanged.                              *)

LEMMA Independent ==
    ASSUME NEW x, NEW y, ~MustOrderBefore(x, y)
    PROVE  /\ CanShareCycleAfter(x, y) /\ CanShareCycleAfter(y, x)
           /\ Defs(x) \cap Defs(y) = {}
           /\ ~(IsIo(x) /\ IsIo(y))
           /\ (IsMem(x) \/ IsInc(x)) /\ (IsMem(y) \/ IsInc(y)) /\ (IsWrite(x) \/ IsWrite(y)) =>
                 IsMem(x) /\ IsMem(y) /\ AddrReg(x) = AddrReg(y) /\ x.at # y.at
           /\ ~(IsInc(x) /\ (IsMem(y) \/ IsInc(y))) /\ ~(IsInc(y) /\ (IsMem(x) \/ IsInc(x)))
           /\ IsGlobal(x) /\ IsGlobal(y) /\ IsWrite(x) => x.at # y.at
           /\ IsEh(x) /\ IsEh(y) /\ IsWrite(x) => x.at # y.at
           /\ IsCs(x) /\ IsCs(y) => ~CsConflict(x, y)
<1>1. ~RegisterOrderDependent(x, y) /\ ~EffectConflict(x, y, TRUE)
  BY DEF MustOrderBefore
<1>2. Defs(x) \cap (Defs(y) \cup Uses(y)) = {} /\ Defs(y) \cap Uses(x) = {}
  BY <1>1 DEF RegisterOrderDependent
<1>3. ~EffectConflict(x, y, FALSE)
  BY <1>1 DEF EffectConflict, WriteFirst
<1>4. ~EffectConflict(y, x, FALSE)
  <2>1. CsConflict(y, x) => CsConflict(x, y)
    BY DEF CsConflict
  <2> QED BY <1>1, <2>1 DEF EffectConflict, WriteFirst
<1>5. CanShareCycleAfter(x, y) /\ CanShareCycleAfter(y, x)
  BY <1>2, <1>3, <1>4 DEF CanShareCycleAfter, NoSameCycleRegisterHazard
<1> QED BY <1>1, <1>2, <1>5 DEF EffectConflict, WriteFirst

(* The memory, slots and cells two independent instructions leave do not   *)
(* depend on which of them ran first.                                      *)
Fine(x, s) == IsMachine(s) /\ ~Failed(s) /\ ~Failed(Execute(x, s))

LEMMA FineOutcome ==
    ASSUME NEW x, Proper(x), NEW s, Fine(x, s)
    PROVE  LET u == Execute(x, s)
           IN  /\ u.reg = RegAfter(x, s, At(x, s), s) /\ u.mem = MemAfter(x, s, At(x, s), s)
               /\ u.glob = GlobAfter(x, s) /\ u.eh = EhAfter(x, s)
               /\ u.cs = CsAfter(x, s, s) /\ u.sp = SpAfter(x, s, s)
               /\ u.keys = KeysAfter(x, s) /\ u.out = OutAfter(x, s)
               /\ ~Fails(x, s, At(x, s)) /\ IsMachine(u)
<1>1. IsShaped(s) /\ x.op \in Ops
  BY Operands DEF Fine, IsMachine, IsShaped, Fields
<1>2. ~Fails(x, s, At(x, s)) /\ IsMachine(Execute(x, s))
  BY <1>1, ExecuteStays DEF Fine
<1>3. Execute(x, s) = Outcome(x, s, At(x, s), s)
  BY <1>1, <1>2, ExecuteIs, Succeeds DEF Fine
<1> QED BY <1>2, <1>3, OutcomeFields

(* What x writes, computed from s, put into fields that something else may *)
(* have changed.                                                           *)
RegPut(x, s, f) ==
    IF SetsReg(x) /\ x.dst # NoReg
    THEN [f EXCEPT ![x.dst] = Result(x, s, At(x, s), s)] ELSE f
MemPut(x, s, f) ==
    CASE x.op = "StoreMem" -> [f EXCEPT ![At(x, s) + x.at] = s.reg[x.src[2]]]
      [] x.op = "MemInc32" -> MemInc(f, s.mem, At(x, s) + x.at)
      [] OTHER             -> f
GlobPut(x, s, f) ==
    IF x.op = "GlobalSetByte" THEN [f EXCEPT ![x.at] = s.reg[x.src[1]]] ELSE f
EhPut(x, s, f) == IF x.op = "ExcSet" THEN [f EXCEPT ![x.at] = s.reg[x.src[1]]] ELSE f
CsPut(x, s, f) ==
    CASE x.op = "CsStore"   -> CsWrite(f, SlotOf(x, s), {x.at % 2}, s.reg[x.src[1]])
      [] x.op = "CsStorePc" -> CsWrite(f, SlotOf(x, s), {0, 1}, PcToken)
      [] OTHER              -> f
SpPut(x, s, f) == IF IsSp(x) THEN NewSp(x, s) ELSE f
KeysPut(x, s, f) == IF x.op \in GetOps THEN Tail(s.keys) ELSE f
OutPut(x, s, f) ==
    IF x.op = "Putchar" \/ (x.op = "PutcharIf" /\ s.reg[x.src[2]] # 0)
    THEN Append(s.out, s.reg[x.src[1]]) ELSE f

LEMMA First ==
    ASSUME NEW x, Proper(x), NEW s, Fine(x, s)
    PROVE  LET u == Execute(x, s)
           IN  /\ u.reg = RegPut(x, s, s.reg) /\ u.mem = MemPut(x, s, s.mem)
               /\ u.glob = GlobPut(x, s, s.glob) /\ u.eh = EhPut(x, s, s.eh)
               /\ u.cs = CsPut(x, s, s.cs) /\ u.sp = SpPut(x, s, s.sp)
               /\ u.keys = KeysPut(x, s, s.keys) /\ u.out = OutPut(x, s, s.out)
<1>1. RegAfter(x, s, At(x, s), s) = RegPut(x, s, s.reg)
  BY DEF RegAfter, RegPut
<1>2. MemAfter(x, s, At(x, s), s) = MemPut(x, s, s.mem)
  BY DEF MemAfter, MemPut
<1>3. GlobAfter(x, s) = GlobPut(x, s, s.glob) /\ EhAfter(x, s) = EhPut(x, s, s.eh)
  BY DEF GlobAfter, GlobPut, EhAfter, EhPut
<1>4. CsAfter(x, s, s) = CsPut(x, s, s.cs) /\ SpAfter(x, s, s) = SpPut(x, s, s.sp)
  BY DEF CsAfter, CsPut, SpAfter, SpPut
<1>5. KeysAfter(x, s) = KeysPut(x, s, s.keys) /\ OutAfter(x, s) = OutPut(x, s, s.out)
  BY DEF KeysAfter, KeysPut, OutAfter, OutPut
<1> QED BY <1>1, <1>2, <1>3, <1>4, <1>5, FineOutcome

(* Run after an instruction that leaves what it reads alone, it puts there *)
(* what it would have put without it.                                      *)
LEMMA Second ==
    ASSUME NEW x, NEW y, Proper(x), Proper(y), CanShareCycleAfter(x, y),
           ~(IsIo(x) /\ IsIo(y)), NEW s, Fine(x, s), Fine(y, s)
    PROVE  LET u == Execute(x, s)
               w == Execute(y, u)
           IN  /\ Fine(y, u)
               /\ w.reg = RegPut(y, s, u.reg) /\ w.mem = MemPut(y, s, u.mem)
               /\ w.glob = GlobPut(y, s, u.glob) /\ w.eh = EhPut(y, s, u.eh)
               /\ w.cs = CsPut(y, s, u.cs) /\ w.sp = SpPut(y, s, u.sp)
               /\ w.keys = KeysPut(y, s, u.keys) /\ w.out = OutPut(y, s, u.out)
<1> DEFINE u == Execute(x, s)
           c == At(y, s)
           w == Execute(y, u)
<1>1. Undisturbed(y, s, u) /\ IsMachine(u) /\ ~Failed(u)
  BY LeavesReads, ExecuteStays, Operands DEF Fine
<1>2. At(y, u) = c
  BY <1>1, Operands DEF Undisturbed, At
<1>3. SnapSame(y, c, s, u) /\ \A r \in Uses(y) : s.reg[r] = u.reg[r]
  BY <1>1 DEF Undisturbed
<1>4. ~Fails(y, s, c) /\ ~Fails(y, u, c)
  BY <1>3, SameFailure, ExecuteStays, Operands DEF Fine
<1>5. Fine(y, u)
  BY <1>1, <1>2, <1>4, ExecuteStays, Operands DEF Fine
<1>6. /\ w.reg = RegPut(y, u, u.reg) /\ w.mem = MemPut(y, u, u.mem)
      /\ w.glob = GlobPut(y, u, u.glob) /\ w.eh = EhPut(y, u, u.eh)
      /\ w.cs = CsPut(y, u, u.cs) /\ w.sp = SpPut(y, u, u.sp)
      /\ w.keys = KeysPut(y, u, u.keys) /\ w.out = OutPut(y, u, u.out)
  BY <1>5, First
<1>7. IsIo(y) => u.keys = s.keys /\ u.out = s.out
  BY FineOutcome DEF KeysAfter, OutAfter, IsIo, GetOps, PutOps
<1> HIDE DEF u, c
<1>8. RegPut(y, u, u.reg) = RegPut(y, s, u.reg)
  <2>1. SetsReg(y) => Result(y, s, c, s) = Result(y, u, c, u)
    BY <1>3, <1>4, <1>7, SameResult DEF IsIo
  <2> QED BY <1>2, <2>1 DEF RegPut, c
<1>9. MemPut(y, u, u.mem) = MemPut(y, s, u.mem)
  <2>1. y.op = "StoreMem" => y.src[2] \in Uses(y)
    BY Operands DEF TwoOperands
  <2> QED BY <1>2, <1>3, <2>1 DEF MemPut, SnapSame, IsInc, c
<1>10. GlobPut(y, u, u.glob) = GlobPut(y, s, u.glob) /\ EhPut(y, u, u.eh) = EhPut(y, s, u.eh)
  <2>1. y.op \in {"GlobalSetByte", "ExcSet"} => y.src[1] \in Uses(y)
    BY Operands DEF OneOperand
  <2> QED BY <1>3, <2>1 DEF GlobPut, EhPut
<1>11. CsPut(y, u, u.cs) = CsPut(y, s, u.cs) /\ SpPut(y, u, u.sp) = SpPut(y, s, u.sp)
  <2>1. y.op = "CsStore" => y.src[1] \in Uses(y)
    BY Operands DEF OneOperand
  <2>2. IsCs(y) => u.sp = s.sp
    BY <1>3 DEF SnapSame
  <2> QED BY <1>3, <2>1, <2>2 DEF CsPut, SpPut, SlotOf, NewSp, IsCs, IsSp, CsByteOps, CsPcOps
<1>12. KeysPut(y, u, u.keys) = KeysPut(y, s, u.keys) /\ OutPut(y, u, u.out) = OutPut(y, s, u.out)
  <2>1. y.op \in PutOps => y.src[1] \in Uses(y)
    BY Operands DEF OneOperand, TwoOperands, PutOps
  <2>2. y.op = "PutcharIf" => y.src[2] \in Uses(y)
    BY Operands DEF TwoOperands
  <2> QED BY <1>3, <1>7, <2>1, <2>2 DEF KeysPut, OutPut, IsIo, PutOps
<1> QED BY <1>5, <1>6, <1>8, <1>9, <1>10, <1>11, <1>12 DEF u

(* Both orders put the same.                                               *)
LEMMA PutsCommute ==
    ASSUME NEW x, NEW y, Proper(x), Proper(y), ~MustOrderBefore(x, y),
           NEW s, Fine(x, s), Fine(y, s)
    PROVE  /\ RegPut(y, s, RegPut(x, s, s.reg)) = RegPut(x, s, RegPut(y, s, s.reg))
           /\ MemPut(y, s, MemPut(x, s, s.mem)) = MemPut(x, s, MemPut(y, s, s.mem))
           /\ GlobPut(y, s, GlobPut(x, s, s.glob)) = GlobPut(x, s, GlobPut(y, s, s.glob))
           /\ EhPut(y, s, EhPut(x, s, s.eh)) = EhPut(x, s, EhPut(y, s, s.eh))
           /\ CsPut(y, s, CsPut(x, s, s.cs)) = CsPut(x, s, CsPut(y, s, s.cs))
           /\ SpPut(y, s, SpPut(x, s, s.sp)) = SpPut(x, s, SpPut(y, s, s.sp))
           /\ KeysPut(y, s, KeysPut(x, s, s.keys)) = KeysPut(x, s, KeysPut(y, s, s.keys))
           /\ OutPut(y, s, OutPut(x, s, s.out)) = OutPut(x, s, OutPut(y, s, s.out))
<1>0. /\ x.at \in Nat /\ y.at \in Nat
      /\ ~Fails(x, s, At(x, s)) /\ ~Fails(y, s, At(y, s))
  BY Operands, FineOutcome
<1>1. RegPut(y, s, RegPut(x, s, s.reg)) = RegPut(x, s, RegPut(y, s, s.reg))
  <2> DEFINE a == Result(x, s, At(x, s), s)
             c == Result(y, s, At(y, s), s)
  <2>1. x.dst # NoReg /\ y.dst # NoReg => x.dst # y.dst
    BY Independent DEF Defs
  <2> HIDE DEF a, c
  <2>2. x.dst # y.dst =>
          [[s.reg EXCEPT ![x.dst] = a] EXCEPT ![y.dst] = c] =
          [[s.reg EXCEPT ![y.dst] = c] EXCEPT ![x.dst] = a]
    OBVIOUS
  <2> QED BY <2>1, <2>2 DEF RegPut, a, c
<1>2. MemPut(y, s, MemPut(x, s, s.mem)) = MemPut(x, s, MemPut(y, s, s.mem))
  <2>1. CASE x.op = "StoreMem" /\ y.op = "StoreMem"
    <3>1. AddrReg(x) = AddrReg(y) /\ x.at # y.at
      BY <2>1, Independent DEF IsMem, MemOps, IsWrite, WriteOps
    <3>2. At(x, s) = At(y, s) /\ At(x, s) \in Nat
      BY <1>0, <2>1, <3>1 DEF At, Fails, Accesses, IsMem, IsInc, MemOps, MemOk, LastByte
    <3>3. At(x, s) + x.at # At(y, s) + y.at
      BY <1>0, <3>1, <3>2
    <3> QED BY <2>1, <3>3 DEF MemPut
  <2>2. CASE ~(x.op \in {"StoreMem", "MemInc32"} /\ y.op \in {"StoreMem", "MemInc32"})
    BY <2>2 DEF MemPut
  <2>3. ASSUME x.op \in {"StoreMem", "MemInc32"}, y.op \in {"StoreMem", "MemInc32"},
               ~(x.op = "StoreMem" /\ y.op = "StoreMem")
        PROVE  FALSE
    BY <2>3, Independent DEF IsMem, IsInc, MemOps
  <2> QED BY <2>1, <2>2, <2>3
<1>3. GlobPut(y, s, GlobPut(x, s, s.glob)) = GlobPut(x, s, GlobPut(y, s, s.glob))
  <2>1. x.op = "GlobalSetByte" /\ y.op = "GlobalSetByte" => x.at # y.at
    BY Independent DEF IsGlobal, GlobalOps, IsWrite, WriteOps
  <2> QED BY <2>1 DEF GlobPut
<1>4. EhPut(y, s, EhPut(x, s, s.eh)) = EhPut(x, s, EhPut(y, s, s.eh))
  <2>1. x.op = "ExcSet" /\ y.op = "ExcSet" => x.at # y.at
    BY Independent DEF IsEh, EhOps, IsWrite, WriteOps
  <2> QED BY <2>1 DEF EhPut
<1>5. CsPut(y, s, CsPut(x, s, s.cs)) = CsPut(x, s, CsPut(y, s, s.cs))
  <2> DEFINE W == {"CsStore", "CsStorePc"}
             p == SlotOf(x, s)
             q == SlotOf(y, s)
             a == IF x.op = "CsStore" THEN s.reg[x.src[1]] ELSE PcToken
             c == IF y.op = "CsStore" THEN s.reg[y.src[1]] ELSE PcToken
             K == CsLanes(x)
             L == CsLanes(y)
  <2>1. CASE ~(x.op \in W /\ y.op \in W)
    BY <2>1 DEF CsPut
  <2>2. CASE x.op \in W /\ y.op \in W
    <3>1. CsSlot(x) # CsSlot(y) \/ K \cap L = {}
      BY <2>2, Independent DEF CsConflict, IsCs, CsByteOps, CsPcOps, IsWrite, WriteOps
    <3>2. CsSlot(x) \in Nat /\ CsSlot(y) \in Nat /\ s.sp \in Int
      BY <1>0 DEF CsSlot, Fine, IsMachine, SpOk
    <3>3. p # q \/ K \cap L = {}
      BY <3>1, <3>2 DEF SlotOf
    <3>4. \A f : CsPut(x, s, f) = CsWrite(f, p, K, a) /\ CsPut(y, s, f) = CsWrite(f, q, L, c)
      BY <2>2 DEF CsPut, CsLanes, CsByteOps
    <3>5. p \in DOMAIN s.cs /\ q \in DOMAIN s.cs
      BY <1>0, <2>2 DEF Fails, NamesSlot, CsByteOps, CsPcOps, SlotOk, Fine, IsMachine
    <3> HIDE DEF p, q, a, c, K, L
    <3>6. CsWrite(CsWrite(s.cs, p, K, a), q, L, c) = CsWrite(CsWrite(s.cs, q, L, c), p, K, a)
      <4> DEFINE f == CsWrite(s.cs, p, K, a)
                 g == CsWrite(s.cs, q, L, c)
      <4>1. CASE p # q
        BY <3>5, <4>1 DEF CsWrite
      <4>2. CASE p = q
        <5>1. f[p] = [l \in 0..1 |-> IF l \in K THEN a ELSE s.cs[p][l]]
          BY <3>5 DEF CsWrite
        <5>2. g[p] = [l \in 0..1 |-> IF l \in L THEN c ELSE s.cs[p][l]]
          BY <3>5, <4>2 DEF CsWrite
        <5>3. [l \in 0..1 |-> IF l \in L THEN c ELSE f[p][l]] =
              [l \in 0..1 |-> IF l \in K THEN a ELSE g[p][l]]
          BY <3>3, <4>2, <5>1, <5>2
        <5>4. CsWrite(f, q, L, c) = [s.cs EXCEPT ![p] = [l \in 0..1 |-> IF l \in L THEN c ELSE f[p][l]]]
          BY <3>5, <4>2 DEF CsWrite
        <5>5. CsWrite(g, p, K, a) = [s.cs EXCEPT ![p] = [l \in 0..1 |-> IF l \in K THEN a ELSE g[p][l]]]
          BY <3>5, <4>2 DEF CsWrite
        <5> QED BY <5>3, <5>4, <5>5
      <4> QED BY <4>1, <4>2
    <3> QED BY <3>4, <3>6
  <2> QED BY <2>1, <2>2
<1>6. SpPut(y, s, SpPut(x, s, s.sp)) = SpPut(x, s, SpPut(y, s, s.sp))
  BY Independent DEF SpPut, CsConflict, IsCs, IsSp
<1>7. /\ KeysPut(y, s, KeysPut(x, s, s.keys)) = KeysPut(x, s, KeysPut(y, s, s.keys))
      /\ OutPut(y, s, OutPut(x, s, s.out)) = OutPut(x, s, OutPut(y, s, s.out))
  BY Independent DEF KeysPut, OutPut, IsIo, PutOps, GetOps
<1> QED BY <1>1, <1>2, <1>3, <1>4, <1>5, <1>6, <1>7

(* Independent instructions run in either order leave machines alike.      *)
LEMMA Exchange ==
    ASSUME NEW x, NEW y, Proper(x), Proper(y), ~MustOrderBefore(x, y), NEW s, IsMachine(s)
    PROVE  Alike(Execute(y, Execute(x, s)), Execute(x, Execute(y, s)))
<1> DEFINE u == Execute(x, s)
           v == Execute(y, s)
<1>0. x.op \in Ops /\ y.op \in Ops
  BY Operands
<1>1. CASE Failed(s)
  BY <1>1, ExecuteIs, AlikeIsEquivalence
<1>2. IsMachine(u) /\ IsMachine(v)
  BY <1>0, ExecuteStays
<1>3. ~Failed(s) /\ ~Failed(v) => (Failed(Execute(x, v)) <=> Failed(u))
  <2> SUFFICES ASSUME ~Failed(s), ~Failed(v) PROVE Failed(Execute(x, v)) <=> Failed(u)
    OBVIOUS
  <2>1. Undisturbed(x, s, v)
    BY Independent, LeavesReads
  <2>2. At(x, v) = At(x, s)
    BY <2>1, Operands DEF Undisturbed, At
  <2>3. Fails(x, s, At(x, s)) <=> Fails(x, v, At(x, s))
    BY <2>1, SameFailure DEF Undisturbed
  <2> QED BY <1>0, <1>2, <2>2, <2>3, ExecuteStays
<1>4. ~Failed(s) /\ ~Failed(u) => (Failed(Execute(y, u)) <=> Failed(v))
  <2> SUFFICES ASSUME ~Failed(s), ~Failed(u) PROVE Failed(Execute(y, u)) <=> Failed(v)
    OBVIOUS
  <2>1. Undisturbed(y, s, u)
    BY Independent, LeavesReads
  <2>2. At(y, u) = At(y, s)
    BY <2>1, Operands DEF Undisturbed, At
  <2>3. Fails(y, s, At(y, s)) <=> Fails(y, u, At(y, s))
    BY <2>1, SameFailure DEF Undisturbed
  <2> QED BY <1>0, <1>2, <2>2, <2>3, ExecuteStays
<1>5. CASE ~Failed(s) /\ (Failed(u) \/ Failed(v))
  BY <1>0, <1>2, <1>3, <1>4, <1>5, ExecuteStays DEF Alike
<1>6. CASE ~Failed(s) /\ ~Failed(u) /\ ~Failed(v)
  <2>1. Fine(x, s) /\ Fine(y, s)
    BY <1>6 DEF Fine
  <2>2. /\ CanShareCycleAfter(x, y) /\ CanShareCycleAfter(y, x) /\ ~(IsIo(x) /\ IsIo(y))
    BY Independent
  <2> DEFINE w == Execute(y, u)
             z == Execute(x, v)
  <2>3. /\ u.reg = RegPut(x, s, s.reg) /\ u.mem = MemPut(x, s, s.mem)
        /\ u.glob = GlobPut(x, s, s.glob) /\ u.eh = EhPut(x, s, s.eh)
        /\ u.cs = CsPut(x, s, s.cs) /\ u.sp = SpPut(x, s, s.sp)
        /\ u.keys = KeysPut(x, s, s.keys) /\ u.out = OutPut(x, s, s.out)
    BY <2>1, First
  <2>4. /\ v.reg = RegPut(y, s, s.reg) /\ v.mem = MemPut(y, s, s.mem)
        /\ v.glob = GlobPut(y, s, s.glob) /\ v.eh = EhPut(y, s, s.eh)
        /\ v.cs = CsPut(y, s, s.cs) /\ v.sp = SpPut(y, s, s.sp)
        /\ v.keys = KeysPut(y, s, s.keys) /\ v.out = OutPut(y, s, s.out)
    BY <2>1, First
  <2>5. /\ Fine(y, u)
        /\ w.reg = RegPut(y, s, u.reg) /\ w.mem = MemPut(y, s, u.mem)
        /\ w.glob = GlobPut(y, s, u.glob) /\ w.eh = EhPut(y, s, u.eh)
        /\ w.cs = CsPut(y, s, u.cs) /\ w.sp = SpPut(y, s, u.sp)
        /\ w.keys = KeysPut(y, s, u.keys) /\ w.out = OutPut(y, s, u.out)
    BY <2>1, <2>2, Second
  <2>6. /\ Fine(x, v)
        /\ z.reg = RegPut(x, s, v.reg) /\ z.mem = MemPut(x, s, v.mem)
        /\ z.glob = GlobPut(x, s, v.glob) /\ z.eh = EhPut(x, s, v.eh)
        /\ z.cs = CsPut(x, s, v.cs) /\ z.sp = SpPut(x, s, v.sp)
        /\ z.keys = KeysPut(x, s, v.keys) /\ z.out = OutPut(x, s, v.out)
    BY <2>1, <2>2, Second
  <2>7. ~Failed(w) /\ ~Failed(z)
    BY <2>5, <2>6 DEF Fine
  <2> HIDE DEF u, v, w, z
  <2>8. Same(w, z)
    BY <2>1, <2>3, <2>4, <2>5, <2>6, PutsCommute DEF Same
  <2> QED BY <2>7, <2>8 DEF Alike, u, v, w, z
<1> QED BY <1>1, <1>5, <1>6

-----------------------------------------------------------------------------
(* Runs of some of the instructions of a block, in block order: h[k] is    *)
(* the state after those among the first k.                                *)
OneStep(U, blk, k, s) == IF k \in U THEN Execute(blk[k], s) ELSE s
Trail(h, U, blk, s, m) ==
    h = [k \in 0..m |-> IF k = 0 THEN s ELSE OneStep(U, blk, k, h[k - 1])]
RunOf(U, blk, s) == (CHOOSE h : Trail(h, U, blk, s, Len(blk)))[Len(blk)]

LEMMA TrailFacts ==
    ASSUME NEW h, NEW U, NEW blk, NEW s, NEW m \in Nat, Trail(h, U, blk, s, m)
    PROVE  /\ DOMAIN h = 0..m
           /\ h[0] = s
           /\ \A k \in 1..m : h[k] = OneStep(U, blk, k, h[k - 1])
BY DEF Trail

LEMMA TrailExists ==
    ASSUME NEW U, NEW blk, NEW s, NEW m \in Nat
    PROVE  \E h : Trail(h, U, blk, s, m)
<1> DEFINE S == {n \in Nat : \E h : Trail(h, U, blk, s, n)}
<1>1. 0 \in S
  <2>1. Trail([k \in 0..0 |-> s], U, blk, s, 0)
    BY DEF Trail
  <2> QED BY <2>1
<1>2. ASSUME NEW n \in Nat, n \in S PROVE n + 1 \in S
  <2>1. PICK h : Trail(h, U, blk, s, n)
    BY <1>2
  <2> DEFINE g == [k \in 0..(n + 1) |-> IF k = n + 1 THEN OneStep(U, blk, k, h[n]) ELSE h[k]]
  <2>2. \A k \in 0..n : g[k] = h[k]
    OBVIOUS
  <2>3. ASSUME NEW k \in 0..(n + 1)
        PROVE  g[k] = IF k = 0 THEN s ELSE OneStep(U, blk, k, g[k - 1])
    <3>1. CASE k = n + 1
      <4>1. k # 0 /\ k - 1 = n /\ g[k - 1] = h[n]
        BY <3>1, <2>2
      <4>2. g[k] = OneStep(U, blk, k, h[n])
        BY <3>1
      <4> QED BY <4>1, <4>2
    <3>2. CASE k \in 1..n
      <4>1. k # 0 /\ k - 1 \in 0..n /\ g[k] = h[k]
        BY <3>2
      <4>2. h[k] = OneStep(U, blk, k, h[k - 1])
        BY <2>1, <3>2, TrailFacts
      <4>3. g[k - 1] = h[k - 1]
        BY <4>1, <2>2
      <4> HIDE DEF g
      <4> QED BY <4>1, <4>2, <4>3
    <3>3. CASE k = 0
      <4>1. g[0] = h[0] /\ h[0] = s
        BY <2>1, TrailFacts
      <4> QED BY <3>3, <4>1
    <3> QED BY <3>1, <3>2, <3>3
  <2>4. g = [k \in 0..(n + 1) |-> g[k]]
    OBVIOUS
  <2> HIDE DEF g
  <2>5. Trail(g, U, blk, s, n + 1)
    BY <2>3, <2>4 DEF Trail
  <2> QED BY <2>5
<1>3. Nat \subseteq S
  <2> HIDE DEF S
  <2> QED BY <1>1, <1>2, NatInduct
<1> QED BY <1>3

(* Two runs that make the same steps for a while agree so far.             *)
LEMMA TrailsAgree ==
    ASSUME NEW h, NEW U, NEW blk, NEW s, NEW m \in Nat, Trail(h, U, blk, s, m),
           NEW g, NEW V, NEW clk, NEW n \in Nat, Trail(g, V, clk, s, n),
           NEW p \in Nat, p <= m, p <= n,
           \A k \in 1..p : (k \in U <=> k \in V) /\ (k \in U => blk[k] = clk[k])
    PROVE  h[p] = g[p]
<1> DEFINE S == {k \in Nat : k <= p => h[k] = g[k]}
<1>1. 0 \in S
  BY TrailFacts
<1>2. ASSUME NEW k \in Nat, k \in S PROVE k + 1 \in S
  <2> SUFFICES ASSUME k + 1 <= p PROVE h[k + 1] = g[k + 1]
    OBVIOUS
  <2>1. k + 1 \in 1..m /\ k + 1 \in 1..n /\ k + 1 \in 1..p /\ (k + 1) - 1 = k
    OBVIOUS
  <2>2. h[k] = g[k]
    BY <1>2
  <2>3. h[k + 1] = OneStep(U, blk, k + 1, h[k]) /\ g[k + 1] = OneStep(V, clk, k + 1, g[k])
    BY <2>1, TrailFacts
  <2> QED BY <2>1, <2>2, <2>3 DEF OneStep
<1>3. Nat \subseteq S
  <2> HIDE DEF S
  <2> QED BY <1>1, <1>2, NatInduct
<1> QED BY <1>3

LEMMA RunIs ==
    ASSUME NEW h, NEW U, NEW blk, NEW s, Len(blk) \in Nat, Trail(h, U, blk, s, Len(blk))
    PROVE  RunOf(U, blk, s) = h[Len(blk)]
<1> DEFINE g == CHOOSE f : Trail(f, U, blk, s, Len(blk))
<1>1. Trail(g, U, blk, s, Len(blk))
  BY TrailExists
<1>2. RunOf(U, blk, s) = g[Len(blk)]
  BY DEF RunOf
<1> HIDE DEF g
<1>3. g[Len(blk)] = h[Len(blk)]
  BY <1>1, TrailsAgree
<1> QED BY <1>2, <1>3

LEMMA RunAll ==
    ASSUME NEW blk, NEW s, Len(blk) \in Nat
    PROVE  RunSequentially(blk, s) = RunOf(Nat, blk, s)
<1> DEFINE N == Len(blk)
           P(f) == f = [k \in 0..N |-> IF k = 0 THEN s ELSE Execute(blk[k], f[k - 1])]
           g == CHOOSE f : P(f)
<1>1. \A f : P(f) <=> Trail(f, Nat, blk, s, N)
  <2> SUFFICES ASSUME NEW f
               PROVE  [k \in 0..N |-> IF k = 0 THEN s ELSE Execute(blk[k], f[k - 1])]
                        = [k \in 0..N |-> IF k = 0 THEN s ELSE OneStep(Nat, blk, k, f[k - 1])]
    BY DEF Trail
  <2>1. \A k \in 0..N : OneStep(Nat, blk, k, f[k - 1]) = Execute(blk[k], f[k - 1])
    BY DEF OneStep
  <2> QED BY <2>1
<1>2. PICK f : P(f)
  <2>1. PICK f : Trail(f, Nat, blk, s, N)
    BY TrailExists
  <2> HIDE DEF P
  <2> QED BY <1>1, <2>1
<1>3. P(g)
  <2> HIDE DEF P
  <2> QED BY <1>2
<1>4. RunSequentially(blk, s) = g[N]
  BY DEF RunSequentially
<1>5. Trail(g, Nat, blk, s, N)
  <2> HIDE DEF P, g
  <2> QED BY <1>1, <1>3
<1> HIDE DEF g, P
<1> QED BY <1>4, <1>5, RunIs

LEMMA RunNone ==
    ASSUME NEW blk, NEW s, NEW U, Len(blk) \in Nat, U \cap (1..Len(blk)) = {}
    PROVE  RunOf(U, blk, s) = s
<1> DEFINE h == [k \in 0..Len(blk) |-> s]
<1>1. Trail(h, U, blk, s, Len(blk))
  <2>1. \A k \in 0..Len(blk) : k # 0 => k \notin U /\ h[k - 1] = s
    OBVIOUS
  <2> QED BY <2>1 DEF Trail, OneStep
<1> QED BY <1>1, RunIs

(* One more instruction at the end of a sequence. *)
LEMMA RunAppend ==
    ASSUME NEW ops \in Seq(Block), NEW i \in Block, NEW s
    PROVE  RunSequentially(Append(ops, i), s) = Execute(i, RunSequentially(ops, s))
<1> DEFINE N == Len(ops)
           new == Append(ops, i)
<1>1. /\ N \in Nat /\ N + 1 \in Nat /\ Len(new) = N + 1 /\ new[N + 1] = i
      /\ \A k \in 1..N : new[k] = ops[k]
  OBVIOUS
<1> HIDE DEF new
<1>2. PICK h : Trail(h, Nat, ops, s, N)
  BY <1>1, TrailExists
<1>3. PICK g : Trail(g, Nat, new, s, N + 1)
  BY <1>1, TrailExists
<1>4. RunSequentially(ops, s) = h[N] /\ RunSequentially(new, s) = g[N + 1]
  BY <1>1, <1>2, <1>3, RunAll, RunIs
<1>5. h[N] = g[N]
  BY <1>1, <1>2, <1>3, TrailsAgree
<1>6. g[N + 1] = OneStep(Nat, new, N + 1, g[N])
  <2>1. N + 1 \in 1..(N + 1) /\ (N + 1) - 1 = N /\ N + 1 \in Nat
    BY <1>1
  <2> QED BY <2>1, <1>3, TrailFacts
<1> QED BY <1>1, <1>4, <1>5, <1>6 DEF OneStep, new

(* Runs of proper instructions are runs of machines, do not depend on      *)
(* where a Return would go, and stay trapped once they are.                *)
ProperBlock(blk) == blk \in Seq(Block) /\ \A k \in DOMAIN blk : Proper(blk[k])

LEMMA ProperAt ==
    ASSUME NEW blk, ProperBlock(blk)
    PROVE  /\ Len(blk) \in Nat /\ DOMAIN blk = 1..Len(blk)
           /\ \A k \in 1..Len(blk) : Proper(blk[k]) /\ blk[k].op \in Ops
<1>1. Len(blk) \in Nat /\ DOMAIN blk = 1..Len(blk)
  BY DEF ProperBlock
<1> QED BY <1>1, Operands DEF ProperBlock

LEMMA TrailMachine ==
    ASSUME NEW blk, ProperBlock(blk), NEW U, NEW s, IsMachine(s), NEW m \in 0..Len(blk),
           NEW h, Trail(h, U, blk, s, m)
    PROVE  \A k \in 0..m : IsMachine(h[k]) /\ (Failed(s) => Failed(h[k]))
<1>0. m \in Nat /\ Len(blk) \in Nat
  BY ProperAt
<1> DEFINE S == {k \in Nat : k <= m => IsMachine(h[k]) /\ (Failed(s) => Failed(h[k]))}
<1>1. 0 \in S
  BY <1>0, TrailFacts
<1>2. ASSUME NEW k \in Nat, k \in S PROVE k + 1 \in S
  <2> SUFFICES ASSUME k + 1 <= m
               PROVE  IsMachine(h[k + 1]) /\ (Failed(s) => Failed(h[k + 1]))
    OBVIOUS
  <2>1. k + 1 \in 1..m /\ k + 1 \in 1..Len(blk) /\ (k + 1) - 1 = k /\ k <= m
    BY <1>0
  <2>2. IsMachine(h[k]) /\ (Failed(s) => Failed(h[k]))
    BY <1>2, <2>1
  <2>3. h[k + 1] = OneStep(U, blk, k + 1, h[k])
    BY <1>0, <2>1, TrailFacts
  <2> QED BY <2>1, <2>2, <2>3, ProperAt, ExecuteStays DEF OneStep
<1>3. Nat \subseteq S
  <2> HIDE DEF S
  <2> QED BY <1>1, <1>2, NatInduct
<1> QED BY <1>0, <1>3

LEMMA RunMachine ==
    ASSUME NEW blk, ProperBlock(blk), NEW U, NEW s, IsMachine(s)
    PROVE  IsMachine(RunOf(U, blk, s)) /\ (Failed(s) => Failed(RunOf(U, blk, s)))
<1>1. Len(blk) \in Nat /\ Len(blk) \in 0..Len(blk)
  BY ProperAt
<1>2. PICK h : Trail(h, U, blk, s, Len(blk))
  BY <1>1, TrailExists
<1>3. IsMachine(h[Len(blk)]) /\ (Failed(s) => Failed(h[Len(blk)]))
  BY <1>1, <1>2, TrailMachine
<1> QED BY <1>1, <1>2, <1>3, RunIs

LEMMA RunAlike ==
    ASSUME NEW blk, ProperBlock(blk), NEW U, NEW s, NEW t,
           IsMachine(s), IsMachine(t), Alike(s, t)
    PROVE  Alike(RunOf(U, blk, s), RunOf(U, blk, t))
<1> DEFINE N == Len(blk)
<1>1. N \in Nat /\ N \in 0..N
  BY ProperAt
<1>2. PICK h : Trail(h, U, blk, s, N)
  BY <1>1, TrailExists
<1>3. PICK g : Trail(g, U, blk, t, N)
  BY <1>1, TrailExists
<1> DEFINE S == {k \in Nat : k <= N => Alike(h[k], g[k])}
<1>4. 0 \in S
  BY <1>1, <1>2, <1>3, TrailFacts
<1>5. ASSUME NEW k \in Nat, k \in S PROVE k + 1 \in S
  <2> SUFFICES ASSUME k + 1 <= N PROVE Alike(h[k + 1], g[k + 1])
    OBVIOUS
  <2>1. k + 1 \in 1..N /\ (k + 1) - 1 = k /\ k \in 0..N /\ Alike(h[k], g[k])
    BY <1>1, <1>5
  <2>2. IsMachine(h[k]) /\ IsMachine(g[k])
    BY <1>1, <1>2, <1>3, <2>1, TrailMachine
  <2>3. h[k + 1] = OneStep(U, blk, k + 1, h[k]) /\ g[k + 1] = OneStep(U, blk, k + 1, g[k])
    BY <1>1, <1>2, <1>3, <2>1, TrailFacts
  <2> QED BY <2>1, <2>2, <2>3, ProperAt, ExecuteAlike DEF OneStep
<1>6. Nat \subseteq S
  <2> HIDE DEF S
  <2> QED BY <1>4, <1>5, NatInduct
<1>7. Alike(h[N], g[N])
  BY <1>1, <1>6
<1> QED BY <1>1, <1>2, <1>3, <1>7, RunIs

(* An instruction that nothing before it must precede may be run first.    *)
LEMMA MoveToFront ==
    ASSUME NEW blk, ProperBlock(blk), NEW U, NEW s, IsMachine(s),
           NEW i \in U, i \in DOMAIN blk,
           \A j \in U : j \in DOMAIN blk /\ j < i => ~MustOrderBefore(blk[j], blk[i])
    PROVE  Alike(RunOf(U, blk, s), RunOf(U \ {i}, blk, Execute(blk[i], s)))
<1> DEFINE N == Len(blk)
           V == U \ {i}
           t == Execute(blk[i], s)
<1>1. N \in Nat /\ N \in 0..N /\ DOMAIN blk = 1..N /\ i \in 1..N
  BY ProperAt
<1>a. \A k \in 1..N : Proper(blk[k]) /\ blk[k].op \in Ops
  BY ProperAt
<1>b. IsMachine(t)
  BY <1>1, <1>a, ExecuteStays
<1>2. PICK h : Trail(h, U, blk, s, N)
  BY <1>1, TrailExists
<1>3. PICK g : Trail(g, V, blk, t, N)
  BY <1>1, TrailExists
<1> DEFINE S == {k \in Nat : k <= N =>
                   /\ k < i => Alike(Execute(blk[i], h[k]), g[k])
                   /\ k >= i => Alike(h[k], g[k])}
<1>4. 0 \in S
  <2>1. Execute(blk[i], h[0]) = g[0]
    BY <1>1, <1>2, <1>3, TrailFacts
  <2> QED BY <1>1, <2>1, AlikeIsEquivalence
<1>5. ASSUME NEW k \in Nat, k \in S PROVE k + 1 \in S
  <2> DEFINE n == k + 1
  <2> SUFFICES ASSUME n <= N
               PROVE  /\ n < i => Alike(Execute(blk[i], h[n]), g[n])
                      /\ n >= i => Alike(h[n], g[n])
    OBVIOUS
  <2>1. n \in 1..N /\ n - 1 = k /\ k \in 0..N
    BY <1>1
  <2>2. /\ k < i => Alike(Execute(blk[i], h[k]), g[k])
        /\ k >= i => Alike(h[k], g[k])
    BY <1>1, <1>5, <2>1
  <2>3. IsMachine(h[k]) /\ IsMachine(g[k])
    BY <1>1, <1>2, <1>3, <1>b, <2>1, TrailMachine
  <2>4. h[n] = OneStep(U, blk, n, h[k]) /\ g[n] = OneStep(V, blk, n, g[k])
    BY <1>1, <1>2, <1>3, <2>1, TrailFacts
  <2>5. CASE n < i
    <3>1. Alike(Execute(blk[i], h[k]), g[k]) /\ n # i
      BY <1>1, <2>2, <2>5
    <3>2. CASE n \notin U
      BY <2>4, <2>5, <3>1, <3>2, <1>1 DEF OneStep
    <3>3. CASE n \in U
      <4>1. h[n] = Execute(blk[n], h[k]) /\ g[n] = Execute(blk[n], g[k])
        BY <2>4, <3>1, <3>3 DEF OneStep
      <4>2. ~MustOrderBefore(blk[n], blk[i])
        BY <1>1, <2>1, <2>5, <3>3
      <4>3. Alike(Execute(blk[i], Execute(blk[n], h[k])), Execute(blk[n], Execute(blk[i], h[k])))
        BY <1>1, <1>a, <2>1, <2>3, <4>2, Exchange
      <4>4. Alike(Execute(blk[n], Execute(blk[i], h[k])), Execute(blk[n], g[k]))
        BY <1>1, <1>a, <2>1, <2>3, <3>1, ExecuteStays, ExecuteAlike
      <4>5. Alike(Execute(blk[i], h[n]), g[n])
        BY <4>1, <4>3, <4>4, AlikeIsEquivalence
      <4> QED BY <1>1, <2>5, <4>5
    <3> QED BY <3>2, <3>3
  <2>6. CASE n = i
    <3>1. h[n] = Execute(blk[i], h[k]) /\ g[n] = g[k] /\ k < i
      BY <1>1, <2>4, <2>6 DEF OneStep
    <3> QED BY <1>1, <2>2, <2>6, <3>1
  <2>7. CASE n > i
    <3>1. Alike(h[k], g[k]) /\ (n \in U <=> n \in V)
      BY <1>1, <2>2, <2>7
    <3>2. CASE n \notin U
      BY <2>4, <3>1, <3>2, <2>7, <1>1 DEF OneStep
    <3>3. CASE n \in U
      <4>1. h[n] = Execute(blk[n], h[k]) /\ g[n] = Execute(blk[n], g[k])
        BY <2>4, <3>1, <3>3 DEF OneStep
      <4>2. Alike(h[n], g[n])
        BY <1>a, <2>1, <2>3, <3>1, <4>1, ExecuteAlike
      <4> QED BY <1>1, <2>7, <4>2
    <3> QED BY <3>2, <3>3
  <2> QED BY <1>1, <2>5, <2>6, <2>7
<1>6. Nat \subseteq S
  <2> HIDE DEF S
  <2> QED BY <1>4, <1>5, NatInduct
<1>7. Alike(h[N], g[N])
  BY <1>1, <1>6
<1> QED BY <1>1, <1>2, <1>3, <1>7, RunIs

-----------------------------------------------------------------------------
(* Running a cycle.                                                        *)

LEMMA ComputedBefore ==
    ASSUME NEW ops, ProperBlock(ops), NEW k \in 1..Len(ops), Accesses(ops[k])
    PROVE  ComputedAt(ops, k) \in 1..k
<1> DEFINE S == UsedAt(ops, AddrReg(ops[k]))
           c == CHOOSE m \in S : \A n \in S : m <= n
<1>1. Len(ops) \in Nat /\ DOMAIN ops = 1..Len(ops)
  BY ProperAt
<1>2. S \subseteq 1..Len(ops) /\ k \in S
  BY <1>1 DEF UsedAt
<1> HIDE DEF S
<1>3. PICK m \in S : \A n \in S : m <= n
  BY <1>1, <1>2, LeastNumber
<1>4. c \in S /\ \A n \in S : c <= n
  BY <1>3
<1> HIDE DEF c
<1>5. c \in 1..k /\ k \in 1..k
  BY <1>1, <1>2, <1>4
<1> QED BY <1>5 DEF ComputedAt, S, c

(* g[k] is the pending result of the cycle ops after its first k ops.      *)
Shown(s) == [s EXCEPT !.ra = TopPc(s)]
OneOp(ops, s, g, k) ==
    Apply(ops[k], s,
          IF Accesses(ops[k]) THEN g[ComputedAt(ops, k) - 1].reg[AddrReg(ops[k])] ELSE 0,
          g[k - 1])
Unfolds(g, ops, s, m) ==
    g = [k \in 0..m |-> IF k = 0 THEN Shown(s) ELSE OneOp(ops, s, g, k)]

LEMMA UnfoldsFacts ==
    ASSUME NEW g, NEW ops, NEW s, NEW m \in Nat, Unfolds(g, ops, s, m)
    PROVE  /\ DOMAIN g = 0..m
           /\ g[0] = Shown(s)
           /\ \A k \in 1..m : g[k] = OneOp(ops, s, g, k)
BY DEF Unfolds

LEMMA UnfoldsExists ==
    ASSUME NEW ops, ProperBlock(ops), NEW s, NEW m \in Nat, m <= Len(ops)
    PROVE  \E g : Unfolds(g, ops, s, m)
<1>0. Len(ops) \in Nat
  BY ProperAt
<1> DEFINE S == {n \in Nat : n <= Len(ops) => \E g : Unfolds(g, ops, s, n)}
<1>1. 0 \in S
  <2>1. Unfolds([k \in 0..0 |-> Shown(s)], ops, s, 0)
    BY DEF Unfolds
  <2> QED BY <2>1
<1>2. ASSUME NEW n \in Nat, n \in S PROVE n + 1 \in S
  <2> SUFFICES ASSUME n + 1 <= Len(ops) PROVE \E g : Unfolds(g, ops, s, n + 1)
    OBVIOUS
  <2>1. PICK h : Unfolds(h, ops, s, n)
    BY <1>0, <1>2
  <2> DEFINE g == [k \in 0..(n + 1) |-> IF k = n + 1 THEN OneOp(ops, s, h, k) ELSE h[k]]
  <2>2. \A k \in 0..n : g[k] = h[k]
    OBVIOUS
  <2>3. \A k \in 1..(n + 1) : OneOp(ops, s, g, k) = OneOp(ops, s, h, k)
    <3> SUFFICES ASSUME NEW k \in 1..(n + 1) PROVE OneOp(ops, s, g, k) = OneOp(ops, s, h, k)
      OBVIOUS
    <3>1. k \in 1..Len(ops) /\ k - 1 \in 0..n
      BY <1>0
    <3>2. Accesses(ops[k]) => ComputedAt(ops, k) - 1 \in 0..n
      <4> SUFFICES ASSUME Accesses(ops[k]) PROVE ComputedAt(ops, k) - 1 \in 0..n
        OBVIOUS
      <4>1. ComputedAt(ops, k) \in 1..k
        BY <3>1, ComputedBefore
      <4> QED BY <4>1
    <3>3. g[k - 1] = h[k - 1]
      BY <2>2, <3>1
    <3>4. Accesses(ops[k]) => g[ComputedAt(ops, k) - 1] = h[ComputedAt(ops, k) - 1]
      BY <2>2, <3>2
    <3> HIDE DEF g
    <3> QED BY <3>3, <3>4 DEF OneOp
  <2>4. ASSUME NEW k \in 0..(n + 1)
        PROVE  g[k] = IF k = 0 THEN Shown(s) ELSE OneOp(ops, s, g, k)
    <3>1. CASE k = n + 1
      <4>1. g[k] = OneOp(ops, s, h, k) /\ k # 0
        BY <3>1
      <4> QED BY <2>3, <4>1
    <3>2. CASE k \in 1..n
      <4>1. g[k] = h[k] /\ h[k] = OneOp(ops, s, h, k) /\ k # 0
        BY <2>1, <2>2, <3>2, UnfoldsFacts
      <4> QED BY <2>3, <4>1
    <3>3. CASE k = 0
      <4>1. g[0] = h[0] /\ h[0] = Shown(s)
        BY <2>1, <2>2, UnfoldsFacts
      <4> QED BY <3>3, <4>1
    <3> QED BY <3>1, <3>2, <3>3
  <2>5. g = [k \in 0..(n + 1) |-> g[k]]
    OBVIOUS
  <2> HIDE DEF g
  <2>6. Unfolds(g, ops, s, n + 1)
    BY <2>4, <2>5 DEF Unfolds
  <2> QED BY <2>6
<1>3. Nat \subseteq S
  <2> HIDE DEF S
  <2> QED BY <1>1, <1>2, NatInduct
<1> QED BY <1>3

LEMMA CycleUnfolds ==
    ASSUME NEW ops, ProperBlock(ops), NEW s
    PROVE  \E g : Unfolds(g, ops, s, Len(ops)) /\ RunCycle(ops, s) = g[Len(ops)]
<1> DEFINE N == Len(ops)
           P(f) == f = [k \in 0..N |->
                          IF k = 0 THEN [s EXCEPT !.ra = TopPc(s)]
                          ELSE Apply(ops[k], s,
                                     IF Accesses(ops[k])
                                     THEN f[ComputedAt(ops, k) - 1].reg[AddrReg(ops[k])] ELSE 0,
                                     f[k - 1])]
           g == CHOOSE f : P(f)
<1>0. N \in Nat
  BY ProperAt
<1>1. \A f : P(f) <=> Unfolds(f, ops, s, N)
  BY DEF Unfolds, OneOp, Shown
<1>2. RunCycle(ops, s) = g[N]
  BY DEF RunCycle
<1>3. PICK f : Unfolds(f, ops, s, N)
  BY <1>0, UnfoldsExists
<1> HIDE DEF P
<1>4. P(g)
  BY <1>1, <1>3
<1> HIDE DEF g
<1>5. Unfolds(g, ops, s, N)
  BY <1>1, <1>4
<1> QED BY <1>2, <1>5

LEMMA ShownFacts ==
    ASSUME NEW s, IsMachine(s)
    PROVE  /\ IsMachine(Shown(s)) /\ Alike(s, Shown(s)) /\ (Failed(Shown(s)) <=> Failed(s))
           /\ Shown(s).ra = TopPc(s)
<1> DEFINE v == TopPc(s)
           t == Shown(s)
<1>1. t = Fields(s.reg, s.mem, s.glob, s.eh, s.cs, s.sp, v, s.keys, s.out, s.trap)
  BY FieldUpdates DEF IsMachine, IsShaped, Fields, Shown
<1> HIDE DEF v, t
<1>2. /\ t.reg = s.reg /\ t.mem = s.mem /\ t.glob = s.glob /\ t.eh = s.eh /\ t.cs = s.cs
      /\ t.sp = s.sp /\ t.ra = v /\ t.keys = s.keys /\ t.out = s.out /\ t.trap = s.trap
  BY <1>1 DEF Fields
<1>3. IsMachine(t)
  BY <1>1, <1>2 DEF IsMachine, Fields
<1> QED BY <1>2, <1>3 DEF Alike, Same, Failed, t, v

(* The states inside a cycle, too, are machines, and trapped for good.     *)
LEMMA UnfoldsMachine ==
    ASSUME NEW ops, ProperBlock(ops), NEW s, IsMachine(s),
           NEW g, Unfolds(g, ops, s, Len(ops))
    PROVE  /\ \A k \in 0..Len(ops) : IsMachine(g[k])
           /\ \A k \in 1..Len(ops) : Failed(g[k - 1]) => Failed(g[k])
           /\ \A k \in 0..Len(ops) : Failed(g[k]) => Failed(g[Len(ops)])
<1> DEFINE N == Len(ops)
<1>0. N \in Nat
  BY ProperAt
<1>1. ASSUME NEW k \in 1..N, IsMachine(g[k - 1])
      PROVE  IsMachine(g[k]) /\ (Failed(g[k - 1]) => Failed(g[k]))
  <2>1. g[k] = OneOp(ops, s, g, k)
    BY <1>0, UnfoldsFacts
  <2>2. ops[k].op \in Ops
    BY ProperAt
  <2> QED BY <1>1, <2>1, <2>2, Stays DEF OneOp
<1> DEFINE S == {k \in Nat : k <= N => IsMachine(g[k])}
<1>2. 0 \in S
  BY <1>0, UnfoldsFacts, ShownFacts
<1>3. ASSUME NEW k \in Nat, k \in S PROVE k + 1 \in S
  <2> SUFFICES ASSUME k + 1 <= N PROVE IsMachine(g[k + 1])
    OBVIOUS
  <2>1. k + 1 \in 1..N /\ (k + 1) - 1 = k /\ IsMachine(g[k])
    BY <1>0, <1>3
  <2> QED BY <1>1, <2>1
<1>4. Nat \subseteq S
  <2> HIDE DEF S
  <2> QED BY <1>2, <1>3, NatInduct
<1>5. \A k \in 0..N : IsMachine(g[k])
  BY <1>0, <1>4
<1>6. \A k \in 1..N : Failed(g[k - 1]) => Failed(g[k])
  BY <1>0, <1>1, <1>5
<1> DEFINE T == {d \in Nat : d <= N => (Failed(g[N - d]) => Failed(g[N]))}
<1>7. 0 \in T
  BY <1>0
<1>8. ASSUME NEW d \in Nat, d \in T PROVE d + 1 \in T
  <2> SUFFICES ASSUME d + 1 <= N, Failed(g[N - (d + 1)]) PROVE Failed(g[N])
    OBVIOUS
  <2>1. N - d \in 1..N /\ (N - d) - 1 = N - (d + 1) /\ d <= N
    BY <1>0
  <2>2. Failed(g[N - d])
    BY <1>6, <2>1
  <2> QED BY <1>8, <2>1, <2>2
<1>9. Nat \subseteq T
  <2> HIDE DEF T
  <2> QED BY <1>7, <1>8, NatInduct
<1>10. ASSUME NEW k \in 0..N, Failed(g[k]) PROVE Failed(g[N])
  <2>1. N - k \in Nat /\ N - k <= N /\ N - (N - k) = k
    BY <1>0
  <2>2. N - k \in T
    BY <1>9, <2>1
  <2> QED BY <1>10, <2>1, <2>2
<1> QED BY <1>5, <1>6, <1>10

(* A cycle of which every two ops may share one, in that order, does what  *)
(* its ops do one after the other: each reads what it would have read of   *)
(* the state the cycle started in.                                         *)
Shareable(ops) ==
    \A k \in DOMAIN ops : \A m \in 1..(k - 1) : CanShareCycleAfter(ops[m], ops[k])

(* In step, after k ops: the run h one by one and the cycle g.             *)
InStep(ops, s, h, g, k) ==
    /\ Alike(h[k], g[k])
    /\ ~Failed(h[k]) => \A m \in (k + 1)..Len(ops) : Undisturbed(ops[m], s, h[k])

LEMMA StartsInStep ==
    ASSUME NEW ops, ProperBlock(ops), NEW s, IsMachine(s), NEW h, NEW g,
           Trail(h, Nat, ops, s, Len(ops)), Unfolds(g, ops, s, Len(ops))
    PROVE  InStep(ops, s, h, g, 0)
<1>1. Len(ops) \in Nat
  BY ProperAt
<1>2. h[0] = s /\ g[0] = Shown(s)
  BY <1>1, TrailFacts, UnfoldsFacts
<1>3. \A x : Undisturbed(x, s, s)
  BY DEF Undisturbed, SnapSame
<1> QED BY <1>2, <1>3, ShownFacts DEF InStep

LEMMA StaysInStep ==
    ASSUME NEW ops, ProperBlock(ops), Shareable(ops), NEW s, IsMachine(s), NEW h, NEW g,
           Trail(h, Nat, ops, s, Len(ops)), Unfolds(g, ops, s, Len(ops)),
           NEW n \in 1..Len(ops), \A k \in 0..(n - 1) : InStep(ops, s, h, g, k),
           \A k \in 0..(n - 1) : Failed(h[k]) => Failed(h[n - 1])
    PROVE  InStep(ops, s, h, g, n)
<1> DEFINE x == ops[n]
           p == h[n - 1]
           q == g[n - 1]
           a == At(x, s)
<1>1. Len(ops) \in Nat /\ DOMAIN ops = 1..Len(ops) /\ n - 1 \in 0..(n - 1) /\ n \in Nat
  BY ProperAt
<1>2. Proper(x) /\ x.op \in Ops
  BY ProperAt
<1>3. IsMachine(p) /\ IsMachine(q) /\ (Failed(q) => Failed(g[n])) /\ Alike(p, q)
  <2>1. IsMachine(p)
    BY <1>1, TrailMachine
  <2>2. IsMachine(q) /\ (Failed(q) => Failed(g[n]))
    BY <1>1, UnfoldsMachine
  <2>3. Alike(p, q)
    BY <1>1 DEF InStep
  <2> QED BY <2>1, <2>2, <2>3
<1>4. h[n] = Execute(x, p) /\ g[n] = OneOp(ops, s, g, n)
  BY <1>1, TrailFacts, UnfoldsFacts DEF OneStep
<1>5. CASE Failed(p)
  BY <1>3, <1>4, <1>5, ExecuteIs DEF InStep, Alike
<1>6. CASE ~Failed(p)
  <2>1. \A m \in n..Len(ops) : Undisturbed(ops[m], s, p)
    <3>1. InStep(ops, s, h, g, n - 1) /\ (n - 1) + 1 = n
      BY <1>1
    <3> QED BY <1>6, <3>1 DEF InStep
  <2>2. Undisturbed(x, s, p)
    BY <1>1, <2>1
  <2>3. At(x, p) = a /\ SnapSame(x, a, s, p)
    BY <1>2, <2>2, Operands DEF Undisturbed, At
  <2>4. h[n] = Apply(x, p, a, p)
    BY <1>4, <1>6, <2>3, ExecuteIs
  <2>5. g[n] = Apply(x, s, a, q)
    <3>1. CASE ~Accesses(x)
      BY <1>4, <3>1 DEF OneOp, At
    <3>2. CASE Accesses(x)
      <4> DEFINE c == ComputedAt(ops, n) - 1
      <4>1. c \in 0..(n - 1)
        <5>1. ComputedAt(ops, n) \in 1..n
          BY <3>2, ComputedBefore
        <5> QED BY <1>1, <5>1
      <4>2. ~Failed(h[c]) /\ InStep(ops, s, h, g, c)
        BY <1>6, <4>1
      <4>3. Undisturbed(x, s, h[c])
        <5>1. n \in (c + 1)..Len(ops)
          BY <1>1, <4>1
        <5> QED BY <4>2, <5>1 DEF InStep
      <4>4. g[c].reg = h[c].reg
        BY <4>2 DEF InStep, Alike, Same
      <4>5. g[c].reg[AddrReg(x)] = a
        BY <1>2, <3>2, <4>3, <4>4, Operands DEF Undisturbed, At
      <4>6. OneOp(ops, s, g, n) = Apply(x, s, g[c].reg[AddrReg(x)], q)
        BY <3>2 DEF OneOp
      <4> HIDE DEF c, x, q, a
      <4> QED BY <1>4, <4>5, <4>6
    <3> QED BY <3>1, <3>2
  <2>6. Alike(Apply(x, s, a, p), Apply(x, p, a, p))
    BY <1>2, <1>3, <1>6, <2>3, AnySnapshot
  <2>7. Alike(Apply(x, s, a, p), Apply(x, s, a, q))
    BY <1>2, <1>3, AnyPending
  <2>8. Alike(h[n], g[n])
    BY <2>4, <2>5, <2>6, <2>7, AlikeIsEquivalence
  <2>9. ASSUME ~Failed(h[n]), NEW m \in (n + 1)..Len(ops)
        PROVE  Undisturbed(ops[m], s, h[n])
    <3>1. m \in n..Len(ops) /\ m \in 1..Len(ops) /\ n \in 1..(m - 1)
      BY <1>1
    <3>2. CanShareCycleAfter(x, ops[m]) /\ Proper(ops[m])
      BY <1>1, <3>1, ProperAt DEF Shareable
    <3>3. Undisturbed(ops[m], p, h[n])
      BY <1>2, <1>3, <1>4, <1>6, <2>9, <3>2, LeavesReads
    <3>4. Undisturbed(ops[m], s, p)
      BY <2>1, <3>1
    <3> QED BY <3>2, <3>3, <3>4, UndisturbedTwice
  <2> QED BY <2>8, <2>9 DEF InStep
<1> QED BY <1>5, <1>6

LEMMA CycleIsSequence ==
    ASSUME NEW ops, ProperBlock(ops), Shareable(ops), NEW s, IsMachine(s)
    PROVE  IsMachine(Cycle(ops, s)) /\ Alike(RunSequentially(ops, s), Cycle(ops, s))
<1> DEFINE N == Len(ops)
<1>0. N \in Nat /\ N \in 0..N
  BY ProperAt
<1>a. RunSequentially(ops, s) = RunOf(Nat, ops, s)
  BY <1>0, RunAll
<1>1. CASE Failed(s)
  <2>1. Cycle(ops, s) = s
    BY <1>1 DEF Cycle
  <2> QED BY <1>1, <1>a, <2>1, RunMachine DEF Alike
<1>2. CASE ~Failed(s)
  <2>1. PICK g : Unfolds(g, ops, s, N) /\ RunCycle(ops, s) = g[N]
    BY CycleUnfolds
  <2>2. PICK h : Trail(h, Nat, ops, s, N)
    BY <1>0, TrailExists
  <2>3. RunSequentially(ops, s) = h[N] /\ Cycle(ops, s) = g[N]
    BY <1>0, <1>2, <1>a, <2>1, <2>2, RunIs DEF Cycle
  <2>4. \A k \in 0..N : IsMachine(h[k])
    BY <1>0, <2>2, TrailMachine
  <2> DEFINE S == {n \in Nat : n <= N =>
                     \A k \in 0..n : InStep(ops, s, h, g, k) /\ (Failed(h[k]) => Failed(h[n]))}
  <2>5. 0 \in S
    BY <2>1, <2>2, StartsInStep
  <2>6. ASSUME NEW n \in Nat, n \in S PROVE n + 1 \in S
    <3> SUFFICES ASSUME n + 1 <= N
                 PROVE  \A k \in 0..(n + 1) : InStep(ops, s, h, g, k) /\ (Failed(h[k]) => Failed(h[n + 1]))
      OBVIOUS
    <3>1. n + 1 \in 1..N /\ (n + 1) - 1 = n /\ n \in 0..N
      BY <1>0
    <3>2. \A k \in 0..n : InStep(ops, s, h, g, k) /\ (Failed(h[k]) => Failed(h[n]))
      BY <1>0, <2>6
    <3>3. InStep(ops, s, h, g, n + 1)
      BY <2>1, <2>2, <3>1, <3>2, StaysInStep
    <3>4. Failed(h[n]) => Failed(h[n + 1])
      <4>1. h[n + 1] = Execute(ops[n + 1], h[n])
        BY <1>0, <2>2, <3>1, TrailFacts DEF OneStep
      <4> QED BY <4>1, ExecuteIs
    <3>5. \A k \in 0..(n + 1) : k \in 0..n \/ k = n + 1
      OBVIOUS
    <3> QED BY <3>2, <3>3, <3>4, <3>5
  <2>7. Nat \subseteq S
    <3> HIDE DEF S
    <3> QED BY <2>5, <2>6, NatInduct
  <2>8. InStep(ops, s, h, g, N)
    BY <1>0, <2>7
  <2>9. IsMachine(g[N])
    BY <1>0, <2>1, UnfoldsMachine
  <2> QED BY <2>3, <2>8, <2>9 DEF InStep
<1> QED BY <1>1, <1>2

-----------------------------------------------------------------------------
(* Running cycle after cycle.                                              *)
Chain(h, groups, s, m) ==
    h = [c \in 0..m |-> IF c = 0 THEN s ELSE Cycle(groups[c], h[c - 1])]

LEMMA ChainExists ==
    ASSUME NEW groups, NEW s, NEW m \in Nat
    PROVE  \E h : Chain(h, groups, s, m)
<1> DEFINE S == {n \in Nat : \E h : Chain(h, groups, s, n)}
<1>1. 0 \in S
  <2>1. Chain([c \in 0..0 |-> s], groups, s, 0)
    BY DEF Chain
  <2> QED BY <2>1
<1>2. ASSUME NEW n \in Nat, n \in S PROVE n + 1 \in S
  <2>1. PICK h : Chain(h, groups, s, n)
    BY <1>2
  <2> DEFINE g == [c \in 0..(n + 1) |-> IF c = n + 1 THEN Cycle(groups[c], h[n]) ELSE h[c]]
  <2>2. \A c \in 0..n : g[c] = h[c]
    OBVIOUS
  <2>3. ASSUME NEW c \in 0..(n + 1)
        PROVE  g[c] = IF c = 0 THEN s ELSE Cycle(groups[c], g[c - 1])
    <3>1. CASE c = n + 1
      <4>1. c # 0 /\ g[c - 1] = h[n]
        BY <3>1, <2>2
      <4>2. g[c] = Cycle(groups[c], h[n])
        BY <3>1
      <4> QED BY <4>1, <4>2
    <3>2. CASE c \in 1..n
      <4>1. c # 0 /\ c - 1 \in 0..n /\ g[c] = h[c] /\ c \in 0..n
        BY <3>2
      <4>2. h[c] = Cycle(groups[c], h[c - 1])
        BY <2>1, <4>1 DEF Chain
      <4>3. g[c - 1] = h[c - 1]
        BY <4>1, <2>2
      <4> HIDE DEF g
      <4> QED BY <4>1, <4>2, <4>3
    <3>3. CASE c = 0
      <4>1. g[0] = h[0] /\ h[0] = s
        BY <2>1 DEF Chain
      <4> QED BY <3>3, <4>1
    <3> QED BY <3>1, <3>2, <3>3
  <2>4. g = [c \in 0..(n + 1) |-> g[c]]
    OBVIOUS
  <2> HIDE DEF g
  <2>5. Chain(g, groups, s, n + 1)
    BY <2>3, <2>4 DEF Chain
  <2> QED BY <2>5
<1>3. Nat \subseteq S
  <2> HIDE DEF S
  <2> QED BY <1>1, <1>2, NatInduct
<1> QED BY <1>3

LEMMA RunCyclesChain ==
    ASSUME NEW groups, Len(groups) \in Nat, NEW s
    PROVE  \E h : Chain(h, groups, s, Len(groups)) /\ RunCycles(groups, s) = h[Len(groups)]
<1> DEFINE N == Len(groups)
           P(f) == f = [c \in 0..N |-> IF c = 0 THEN s ELSE Cycle(groups[c], f[c - 1])]
           g == CHOOSE f : P(f)
<1>1. \A f : P(f) <=> Chain(f, groups, s, N)
  BY DEF Chain
<1>2. RunCycles(groups, s) = g[N]
  BY DEF RunCycles
<1>3. PICK f : Chain(f, groups, s, N)
  BY ChainExists
<1> HIDE DEF P
<1>4. P(g)
  BY <1>1, <1>3
<1> HIDE DEF g
<1>5. Chain(g, groups, s, N)
  BY <1>1, <1>4
<1> QED BY <1>2, <1>5

LEMMA NoCycles ==
    ASSUME NEW groups, Len(groups) = 0, NEW s
    PROVE  RunCycles(groups, s) = s
<1>1. PICK h : Chain(h, groups, s, Len(groups)) /\ RunCycles(groups, s) = h[Len(groups)]
  BY RunCyclesChain
<1> QED BY <1>1 DEF Chain

(* One more cycle. *)
LEMMA OneMoreCycle ==
    ASSUME NEW groups, NEW more, NEW n \in Nat, Len(groups) = n, Len(more) = n + 1,
           \A c \in 1..n : more[c] = groups[c], NEW s
    PROVE  RunCycles(more, s) = Cycle(more[n + 1], RunCycles(groups, s))
<1>1. PICK h : Chain(h, groups, s, n) /\ RunCycles(groups, s) = h[n]
  BY RunCyclesChain
<1>2. PICK g : Chain(g, more, s, n + 1) /\ RunCycles(more, s) = g[n + 1]
  BY RunCyclesChain
<1> DEFINE S == {c \in Nat : c <= n => g[c] = h[c]}
<1>3. 0 \in S
  BY <1>1, <1>2 DEF Chain
<1>4. ASSUME NEW c \in Nat, c \in S PROVE c + 1 \in S
  <2> SUFFICES ASSUME c + 1 <= n PROVE g[c + 1] = h[c + 1]
    OBVIOUS
  <2>1. c + 1 \in 0..n /\ c + 1 \in 0..(n + 1) /\ (c + 1) - 1 = c /\ c + 1 # 0 /\ c + 1 \in 1..n
    OBVIOUS
  <2>2. h[c + 1] = Cycle(groups[c + 1], h[c]) /\ g[c + 1] = Cycle(more[c + 1], g[c])
    BY <1>1, <1>2, <2>1 DEF Chain
  <2>3. g[c] = h[c] /\ more[c + 1] = groups[c + 1]
    BY <1>4, <2>1
  <2> QED BY <2>2, <2>3
<1>5. Nat \subseteq S
  <2> HIDE DEF S
  <2> QED BY <1>3, <1>4, NatInduct
<1>6. g[n] = h[n]
  BY <1>5
<1>7. g[n + 1] = Cycle(more[n + 1], g[n])
  <2>1. n + 1 \in 0..(n + 1) /\ n + 1 # 0 /\ (n + 1) - 1 = n
    OBVIOUS
  <2> QED BY <1>2, <2>1 DEF Chain
<1> QED BY <1>1, <1>2, <1>6, <1>7

-----------------------------------------------------------------------------
(* Where a Return goes: the slot at the stack pointer, once the pc has     *)
(* been loaded, in the sequence and in the cycles.                         *)
AtTop(s) == SlotOk(s.sp) /\ s.ra = s.cs[s.sp]

(* An instruction that leaves the top of the call stack as it is. *)
KeepsTop(x) ==
    IsCs(x) => /\ ~IsSp(x)
               /\ IsWrite(x) => CsSlot(x) # 0
               /\ x.op = "CsLoadPc" => x.at = 0

LEMMA TopKept ==
    ASSUME NEW x, Proper(x), KeepsTop(x), NEW s, IsMachine(s), NEW addr,
           NEW acc, IsMachine(acc), ~Failed(acc),
           acc.sp = s.sp, ~Failed(Apply(x, s, addr, acc))
    PROVE  LET t == Apply(x, s, addr, acc)
           IN  /\ t.sp = s.sp
               /\ SlotOk(s.sp) => t.cs[s.sp] = acc.cs[s.sp]
               /\ x.op # "CsLoadPc" => t.ra = acc.ra
               /\ x.op = "CsLoadPc" => t.ra = s.cs[s.sp] /\ SlotOk(s.sp)
<1> DEFINE t == Apply(x, s, addr, acc)
<1>0. x.op \in Ops /\ x.at \in Nat /\ IsShaped(acc)
  BY Operands DEF IsMachine, IsShaped, Fields
<1>1. ~Fails(x, s, addr)
  BY <1>0, Traps
<1>2. t = Outcome(x, s, addr, acc)
  BY <1>0, <1>1, Succeeds
<1>3. t.sp = SpAfter(x, s, acc) /\ t.cs = CsAfter(x, s, acc) /\ t.ra = RaAfter(x, s, acc)
  BY <1>2, OutcomeFields
<1> HIDE DEF t
<1>4. t.sp = s.sp
  BY <1>3 DEF KeepsTop, SpAfter, IsCs, IsSp
<1>5. x.op # "CsLoadPc" => t.ra = acc.ra
  BY <1>3 DEF RaAfter
<1>6. x.op = "CsLoadPc" => t.ra = s.cs[s.sp] /\ SlotOk(s.sp)
  <2> SUFFICES ASSUME x.op = "CsLoadPc" PROVE t.ra = s.cs[s.sp] /\ SlotOk(s.sp)
    OBVIOUS
  <2>1. SlotOf(x, s) = s.sp
    <3>1. s.sp \in Int
      BY MachineAssumption DEF IsMachine, SpOk
    <3> QED BY <3>1 DEF KeepsTop, IsCs, CsPcOps, SlotOf, CsSlot, CsByteOps
  <2> QED BY <1>1, <1>3, <2>1 DEF RaAfter, Fails, NamesSlot, CsPcOps
<1>7. SlotOk(s.sp) => t.cs[s.sp] = acc.cs[s.sp]
  <2> SUFFICES ASSUME s.sp \in DOMAIN acc.cs PROVE t.cs[s.sp] = acc.cs[s.sp]
    BY DEF IsMachine, SlotOk
  <2>1. CASE x.op \in {"CsStore", "CsStorePc"}
    <3>1. CsSlot(x) # 0 /\ CsSlot(x) \in Int /\ s.sp \in Int
      <4>1. CsSlot(x) # 0
        BY <2>1 DEF KeepsTop, IsCs, IsWrite, WriteOps, CsByteOps, CsPcOps
      <4> QED BY <1>0, <4>1, MachineAssumption DEF IsMachine, SpOk, CsSlot, CsByteOps
    <3>2. SlotOf(x, s) # s.sp
      BY <3>1 DEF SlotOf
    <3>3. \A lanes, v : CsWrite(acc.cs, SlotOf(x, s), lanes, v)[s.sp] = acc.cs[s.sp]
      BY <3>2 DEF CsWrite
    <3> QED BY <1>3, <2>1, <3>3 DEF CsAfter
  <2>2. CASE x.op \notin {"CsStore", "CsStorePc"}
    BY <1>3, <2>2 DEF CsAfter
  <2> QED BY <2>1, <2>2
<1> QED BY <1>4, <1>5, <1>6, <1>7 DEF t

(* The sequence: after the load nothing touches the call stack. *)
LEMMA SequenceKeepsTop ==
    ASSUME NEW blk, ProperBlock(blk), LoadsPcLast(blk), NEW s, IsMachine(s),
           NEW i \in DOMAIN blk, blk[i].op = "CsLoadPc",
           ~Failed(RunSequentially(blk, s))
    PROVE  AtTop(RunSequentially(blk, s))
<1> DEFINE N == Len(blk)
<1>1. N \in Nat /\ N \in 0..N /\ DOMAIN blk = 1..N /\ i \in 1..N
  BY ProperAt
<1>2. PICK h : Trail(h, Nat, blk, s, N)
  BY <1>1, TrailExists
<1>3. RunSequentially(blk, s) = h[N]
  BY <1>1, <1>2, RunAll, RunIs
<1>4. \A k \in 0..N : IsMachine(h[k])
  BY <1>1, <1>2, TrailMachine
<1> DEFINE S == {k \in Nat : k <= N => (i <= k /\ ~Failed(h[k]) => AtTop(h[k]))}
<1>5. 0 \in S
  BY <1>1
<1>6. ASSUME NEW k \in Nat, k \in S PROVE k + 1 \in S
  <2> DEFINE n == k + 1
             x == blk[n]
             p == h[k]
             q == h[n]
  <2> SUFFICES ASSUME n <= N, i <= n, ~Failed(q) PROVE AtTop(q)
    OBVIOUS
  <2>1. n \in 1..N /\ n - 1 = k /\ k \in 0..N /\ n \in Nat
    BY <1>1
  <2>a. q = Execute(x, p)
    BY <1>1, <1>2, <2>1, TrailFacts DEF OneStep
  <2>b. Proper(x) /\ x.op \in Ops
    BY <2>1, ProperAt
  <2>2. q = Execute(x, p) /\ IsMachine(p) /\ Proper(x) /\ x.op \in Ops
    BY <1>4, <2>1, <2>a, <2>b
  <2>3. ~Failed(p)
    BY <2>2, ExecuteStays
  <2>4. q = Apply(x, p, At(x, p), p)
    BY <2>2, <2>3, ExecuteIs
  <2>5. KeepsTop(x) /\ (x.op = "CsLoadPc" => n = i) /\ (n # i => ~IsCs(x))
    BY <1>1, <2>1 DEF LoadsPcLast, KeepsTop, IsCs, IsSp, IsWrite, WriteOps, CsByteOps, CsPcOps, SpOps
  <2>6. /\ q.sp = p.sp
        /\ SlotOk(p.sp) => q.cs[p.sp] = p.cs[p.sp]
        /\ x.op # "CsLoadPc" => q.ra = p.ra
        /\ x.op = "CsLoadPc" => q.ra = p.cs[p.sp] /\ SlotOk(p.sp)
    BY <2>2, <2>3, <2>4, <2>5, TopKept
  <2>7. CASE n = i
    BY <2>6, <2>7 DEF AtTop
  <2>8. CASE n # i
    <3>1. AtTop(p)
      BY <1>1, <1>6, <2>1, <2>3, <2>8
    <3> QED BY <2>5, <2>6, <2>8, <3>1 DEF AtTop
  <2> QED BY <2>7, <2>8
<1>7. Nat \subseteq S
  <2> HIDE DEF S
  <2> QED BY <1>5, <1>6, NatInduct
<1>8. N \in S
  BY <1>1, <1>7
<1> QED BY <1>1, <1>3, <1>8

(* A cycle of ops that keep the top finds its Return target there.         *)
LEMMA CycleKeepsTop ==
    ASSUME NEW ops, ProperBlock(ops), \A k \in DOMAIN ops : KeepsTop(ops[k]),
           NEW s, IsMachine(s),
           SlotOk(s.sp) \/ \E i \in DOMAIN ops : ops[i].op = "CsLoadPc",
           ~Failed(Cycle(ops, s))
    PROVE  AtTop(Cycle(ops, s))
<1> DEFINE N == Len(ops)
<1>1. N \in Nat /\ N \in 0..N /\ DOMAIN ops = 1..N
  BY ProperAt
<1>2. ~Failed(s)
  BY DEF Cycle
<1>3. PICK g : Unfolds(g, ops, s, N) /\ RunCycle(ops, s) = g[N]
  BY CycleUnfolds
<1>4. Cycle(ops, s) = g[N]
  BY <1>2, <1>3 DEF Cycle
<1>5. \A k \in 0..N : IsMachine(g[k]) /\ ~Failed(g[k])
  BY <1>3, <1>4, UnfoldsMachine
<1>6. g[0] = Shown(s)
  BY <1>1, <1>3, UnfoldsFacts
<1>7. ASSUME NEW k \in 1..N, g[k - 1].sp = s.sp
      PROVE  /\ g[k].sp = s.sp
             /\ SlotOk(s.sp) => g[k].cs[s.sp] = g[k - 1].cs[s.sp]
             /\ ops[k].op # "CsLoadPc" => g[k].ra = g[k - 1].ra
             /\ ops[k].op = "CsLoadPc" => g[k].ra = s.cs[s.sp] /\ SlotOk(s.sp)
  <2> DEFINE x == ops[k]
             acc == g[k - 1]
             addr == IF Accesses(x) THEN g[ComputedAt(ops, k) - 1].reg[AddrReg(x)] ELSE 0
  <2>1. k - 1 \in 0..N /\ k \in 0..N
    BY <1>1
  <2>2. g[k] = Apply(x, s, addr, acc)
    BY <1>1, <1>3, UnfoldsFacts DEF OneOp
  <2>3. IsMachine(acc) /\ ~Failed(acc) /\ ~Failed(g[k]) /\ Proper(x) /\ KeepsTop(x)
    BY <1>1, <1>5, <2>1, ProperAt
  <2> HIDE DEF x, acc, addr
  <2>4. acc.sp = s.sp
    BY <1>7 DEF acc
  <2>5. /\ g[k].sp = s.sp
        /\ SlotOk(s.sp) => g[k].cs[s.sp] = acc.cs[s.sp]
        /\ x.op # "CsLoadPc" => g[k].ra = acc.ra
        /\ x.op = "CsLoadPc" => g[k].ra = s.cs[s.sp] /\ SlotOk(s.sp)
    BY <2>2, <2>3, <2>4, TopKept
  <2> QED BY <2>5 DEF x, acc
<1> DEFINE S == {k \in Nat : k <= N =>
                   /\ g[k].sp = s.sp
                   /\ SlotOk(s.sp) => g[k].cs[s.sp] = s.cs[s.sp] /\ g[k].ra = s.cs[s.sp]}
<1>8. 0 \in S
  <2>1. Same(s, Shown(s)) /\ Shown(s).ra = TopPc(s)
    BY <1>2, ShownFacts DEF Alike
  <2> QED BY <1>6, <2>1 DEF Same, TopPc
<1>9. ASSUME NEW k \in Nat, k \in S PROVE k + 1 \in S
  <2> SUFFICES ASSUME k + 1 <= N
               PROVE  /\ g[k + 1].sp = s.sp
                      /\ SlotOk(s.sp) => g[k + 1].cs[s.sp] = s.cs[s.sp] /\ g[k + 1].ra = s.cs[s.sp]
    OBVIOUS
  <2>1. k + 1 \in 1..N /\ (k + 1) - 1 = k
    BY <1>1
  <2>2. /\ g[k].sp = s.sp
        /\ SlotOk(s.sp) => g[k].cs[s.sp] = s.cs[s.sp] /\ g[k].ra = s.cs[s.sp]
    BY <1>1, <1>9, <2>1
  <2>3. /\ g[k + 1].sp = s.sp
        /\ SlotOk(s.sp) => g[k + 1].cs[s.sp] = g[k].cs[s.sp]
        /\ ops[k + 1].op # "CsLoadPc" => g[k + 1].ra = g[k].ra
        /\ ops[k + 1].op = "CsLoadPc" => g[k + 1].ra = s.cs[s.sp] /\ SlotOk(s.sp)
    BY <1>7, <2>1, <2>2
  <2> QED BY <2>2, <2>3
<1>10. Nat \subseteq S
  <2> HIDE DEF S
  <2> QED BY <1>8, <1>9, NatInduct
<1>11. \A k \in 0..N : /\ g[k].sp = s.sp
                       /\ SlotOk(s.sp) => g[k].cs[s.sp] = s.cs[s.sp] /\ g[k].ra = s.cs[s.sp]
  BY <1>1, <1>10
<1>12. SlotOk(s.sp)
  <2> SUFFICES ASSUME NEW i \in 1..N, ops[i].op = "CsLoadPc" PROVE SlotOk(s.sp)
    BY <1>1
  <2>1. i - 1 \in 0..N
    BY <1>1
  <2> QED BY <1>7, <1>11, <2>1
<1> QED BY <1>1, <1>4, <1>11, <1>12 DEF AtTop

-----------------------------------------------------------------------------
(***************************************************************************)
(* The inductive invariant.  Run the finished cycles, then the pending one *)
(* op by op, then what is not placed in block order: that is the meaning   *)
(* of the block at every moment.                                           *)
(***************************************************************************)
PendingOps == [k \in DOMAIN current.ops |-> insts[current.ops[k]]]
AfterCycles(s)  == RunCycles(Groups, s)
AfterPending(s) == RunSequentially(PendingOps, AfterCycles(s))
AfterAll(s)     == RunOf(Idx \ Placed, insts, AfterPending(s))

MeaningKept(s) == /\ IsMachine(AfterCycles(s))
                  /\ Alike(RunSequentially(insts, s), AfterAll(s))

(* And once a cycle has loaded the return pc, a Return finds it. *)
ReturnKept(s) ==
    (\E i \in InCycles : insts[i].op = "CsLoadPc") /\ ~Failed(AfterCycles(s)) =>
        AtTop(AfterCycles(s))

Faithful == \A s \in Inputs : MeaningKept(s) /\ ReturnKept(s)

LEMMA BlockFacts ==
    ASSUME TypeOK
    PROVE  /\ ProperBlock(insts) /\ LoadsPcLast(insts)
           /\ Len(insts) \in Nat /\ Idx = 1..Len(insts)
           /\ \A i \in Idx : Proper(insts[i]) /\ insts[i] \in Block
<1>1. insts \in Blocks /\ insts \in Seq(Block)
  BY BlocksAssumption DEF TypeOK
<1>2. LoadsPcLast(insts) /\ \A i \in DOMAIN insts : Fits(insts[i])
  BY <1>1, MachineAssumption
<1>3. \A i \in DOMAIN insts : insts[i] \in Block
  BY <1>1
<1> QED BY <1>1, <1>2, <1>3 DEF ProperBlock, Proper, Idx

LEMMA PendingFacts ==
    ASSUME TypeOK
    PROVE  /\ ProperBlock(PendingOps) /\ PendingOps \in Seq(Block)
           /\ DOMAIN PendingOps = DOMAIN current.ops
           /\ DOMAIN current.ops = 1..Len(current.ops)
           /\ Len(PendingOps) = Len(current.ops) /\ Len(current.ops) \in Nat
           /\ \A k \in DOMAIN current.ops : current.ops[k] \in Idx
           /\ CyclesCompatible => Shareable(PendingOps)
<1>1. current.ops \in Seq(Idx)
  BY DEF TypeOK
<1>2. /\ Len(current.ops) \in Nat /\ DOMAIN current.ops = 1..Len(current.ops)
      /\ \A k \in DOMAIN current.ops : current.ops[k] \in Idx
  BY <1>1
<1>3. \A k \in DOMAIN current.ops : insts[current.ops[k]] \in Block /\ Proper(insts[current.ops[k]])
  BY <1>2, BlockFacts
<1>4. PendingOps \in Seq(Block) /\ Len(PendingOps) = Len(current.ops)
  BY <1>2, <1>3 DEF PendingOps
<1>5. CyclesCompatible => Shareable(PendingOps)
  <2> SUFFICES ASSUME CyclesCompatible, NEW k \in DOMAIN PendingOps, NEW m \in 1..(k - 1)
               PROVE  CanShareCycleAfter(PendingOps[m], PendingOps[k])
    BY DEF Shareable
  <2>1. k \in DOMAIN current.ops /\ m \in DOMAIN current.ops
    BY <1>2 DEF PendingOps
  <2>2. CanShareCycleAfter(insts[current.ops[m]], insts[current.ops[k]])
    BY <2>1 DEF CyclesCompatible, Compatible
  <2> QED BY <2>1, <2>2 DEF PendingOps
<1> QED BY <1>2, <1>3, <1>4, <1>5 DEF ProperBlock, PendingOps

LEMMA InitFaithful == Init => Faithful
<1> SUFFICES ASSUME Init, NEW s \in Inputs PROVE MeaningKept(s) /\ ReturnKept(s)
  BY DEF Faithful
<1>0. TypeOK /\ IsMachine(s)
  BY InitIInv, MachineAssumption DEF IInv
<1>1. cycles = <<>> /\ current.ops = <<>>
  BY DEF Init, EmptyCycle
<1>2. Groups = <<>> /\ PendingOps = <<>> /\ Placed = {} /\ InCycles = {}
  BY <1>1 DEF Groups, PendingOps, Placed, InCycles, InCurrent
<1>3. AfterCycles(s) = s
  BY <1>2, NoCycles DEF AfterCycles
<1>4. AfterPending(s) = s
  <2>1. RunSequentially(<<>>, s) = RunOf(Nat, <<>>, s)
    BY RunAll
  <2>2. RunOf(Nat, <<>>, s) = s
    BY RunNone
  <2> QED BY <1>2, <1>3, <2>1, <2>2 DEF AfterPending
<1>5. RunOf(Idx, insts, s) = RunOf(Nat, insts, s)
  <2> DEFINE N == Len(insts)
  <2>1. N \in Nat /\ Idx = 1..N
    BY <1>0, BlockFacts
  <2>2. PICK h : Trail(h, Idx, insts, s, N)
    BY <2>1, TrailExists
  <2>3. PICK g : Trail(g, Nat, insts, s, N)
    BY <2>1, TrailExists
  <2>4. h[N] = g[N]
    BY <2>1, <2>2, <2>3, TrailsAgree
  <2> QED BY <2>1, <2>2, <2>3, <2>4, RunIs
<1>6. RunSequentially(insts, s) = RunOf(Nat, insts, s)
  BY <1>0, BlockFacts, RunAll
<1>7. Alike(RunSequentially(insts, s), AfterAll(s))
  BY <1>2, <1>4, <1>5, <1>6, AlikeIsEquivalence DEF AfterAll
<1> QED BY <1>0, <1>2, <1>3, <1>7 DEF MeaningKept, ReturnKept

(* Placing the ready instruction i runs it first among those left.         *)
LEMMA RunsNext ==
    ASSUME TypeOK, ReadyIsExact, NEW i \in ready, NEW s, IsMachine(s)
    PROVE  Alike(RunOf(Idx \ Placed, insts, s),
                 RunOf((Idx \ Placed) \ {i}, insts, Execute(insts[i], s)))
<1>1. i \in Idx \ Placed /\ Preds(i) \subseteq Placed
  BY DEF ReadyIsExact
<1>2. ProperBlock(insts) /\ i \in DOMAIN insts
  BY <1>1, BlockFacts DEF Idx
<1>3. \A j \in Idx \ Placed : j \in DOMAIN insts /\ j < i => ~MustOrderBefore(insts[j], insts[i])
  BY <1>1 DEF Preds, PredsIn
<1> QED BY <1>1, <1>2, <1>3, MoveToFront

LEMMA PlaceFaithful ==
    ASSUME IInv, Faithful, NEW i \in Idx, Place(i)
    PROVE  Faithful'
<1>1. TypeOK /\ ReadyIsExact /\ i \in ready
  BY DEF IInv, Place, IsPick, Candidates
<1>2. insts' = insts /\ cycles' = cycles /\ current'.ops = Append(current.ops, i)
  BY DEF Place, Push
<1> DEFINE n == Len(current.ops)
<1>3. /\ n \in Nat /\ DOMAIN current.ops = 1..n /\ DOMAIN current'.ops = 1..(n + 1)
      /\ \A k \in 1..n : current'.ops[k] = current.ops[k]
      /\ current'.ops[n + 1] = i /\ current.ops \in Seq(Idx)
  <2>1. current.ops \in Seq(Idx)
    BY <1>1 DEF TypeOK
  <2> QED BY <1>2, <2>1, AppendFacts
<1>4. Groups' = Groups /\ Idx' = Idx /\ InCycles' = InCycles
  BY <1>2 DEF Groups, Idx, InCycles, InCycle
<1>5. Placed' = Placed \cup {i}
  BY <1>3, <1>4 DEF Placed, InCurrent
<1>6. PendingOps' = Append(PendingOps, insts[i])
  <2>1. /\ PendingOps \in Seq(Block) /\ Len(PendingOps) = n /\ insts[i] \in Block
        /\ DOMAIN PendingOps = 1..n
    BY <1>1, <1>3, PendingFacts, BlockFacts
  <2>2. /\ DOMAIN Append(PendingOps, insts[i]) = 1..(n + 1)
        /\ \A k \in 1..n : Append(PendingOps, insts[i])[k] = PendingOps[k]
        /\ Append(PendingOps, insts[i])[n + 1] = insts[i]
    BY <2>1, AppendFacts
  <2>3. Append(PendingOps, insts[i]) =
          [k \in 1..(n + 1) |-> Append(PendingOps, insts[i])[k]]
    <3>1. Append(PendingOps, insts[i]) \in Seq(Block)
      BY <2>1, AppendFacts
    <3> QED BY <2>2, <3>1
  <2>4. PendingOps' = [k \in 1..(n + 1) |-> insts[current'.ops[k]]]
    BY <1>2, <1>3 DEF PendingOps
  <2>5. \A k \in 1..(n + 1) : insts[current'.ops[k]] = Append(PendingOps, insts[i])[k]
    <3> SUFFICES ASSUME NEW k \in 1..(n + 1)
                 PROVE  insts[current'.ops[k]] = Append(PendingOps, insts[i])[k]
      OBVIOUS
    <3>1. CASE k = n + 1
      BY <1>3, <2>2, <3>1
    <3>2. CASE k \in 1..n
      <4>1. PendingOps[k] = insts[current.ops[k]]
        BY <1>3, <3>2 DEF PendingOps
      <4>2. current'.ops[k] = current.ops[k]
        BY <1>3, <3>2
      <4>3. Append(PendingOps, insts[i])[k] = PendingOps[k]
        BY <2>2, <3>2
      <4> QED BY ONLY <4>1, <4>2, <4>3, Zenon
    <3>3. k = n + 1 \/ k \in 1..n
      BY <1>3
    <3> QED BY ONLY <3>1, <3>2, <3>3, Zenon
  <2> QED BY <2>3, <2>4, <2>5
<1> SUFFICES ASSUME NEW s \in Inputs PROVE MeaningKept(s)' /\ ReturnKept(s)'
  BY DEF Faithful
<1>7. MeaningKept(s) /\ ReturnKept(s)
  BY DEF Faithful
<1>8. AfterCycles(s)' = AfterCycles(s)
  BY <1>4 DEF AfterCycles
<1>9. AfterPending(s)' = Execute(insts[i], AfterPending(s))
  BY <1>1, <1>6, <1>8, PendingFacts, BlockFacts, RunAppend DEF AfterPending
<1>10. AfterAll(s)' = RunOf((Idx \ Placed) \ {i}, insts, Execute(insts[i], AfterPending(s)))
  <2>1. Idx' \ Placed' = (Idx \ Placed) \ {i}
    BY <1>4, <1>5
  <2> QED BY <1>2, <1>9, <2>1 DEF AfterAll
<1>11. IsMachine(AfterPending(s))
  BY <1>1, <1>7, PendingFacts, RunAll, RunMachine DEF AfterPending, MeaningKept
<1>12. Alike(AfterAll(s), AfterAll(s)')
  BY <1>1, <1>10, <1>11, RunsNext DEF AfterAll
<1>13. Alike(RunSequentially(insts, s), AfterAll(s)')
  BY <1>7, <1>12, AlikeIsEquivalence DEF MeaningKept
<1>14. MeaningKept(s)'
  BY <1>2, <1>7, <1>8, <1>13 DEF MeaningKept
<1>15. ReturnKept(s)'
  BY <1>2, <1>4, <1>7, <1>8 DEF ReturnKept
<1> QED BY <1>14, <1>15

(* The cycles after one more has been closed. *)
LEMMA CycleClosed ==
    ASSUME TypeOK, NEW ops \in Seq(Idx), cycles' = Append(cycles, ops), insts' = insts, NEW s
    PROVE  AfterCycles(s)' = Cycle([k \in DOMAIN ops |-> insts[ops[k]]], AfterCycles(s))
<1> DEFINE n == Len(cycles)
           more == [c \in DOMAIN cycles' |-> [k \in DOMAIN cycles'[c] |-> insts[cycles'[c][k]]]]
<1>1. /\ n \in Nat /\ DOMAIN cycles = 1..n /\ DOMAIN cycles' = 1..(n + 1)
      /\ \A c \in 1..n : cycles'[c] = cycles[c]
      /\ cycles'[n + 1] = ops
  BY AppendFacts DEF TypeOK
<1>2. Groups' = more
  BY DEF Groups
<1> HIDE DEF n
<1>3. Len(Groups) = n /\ Len(more) = n + 1
  <2>1. DOMAIN Groups = 1..n /\ DOMAIN more = 1..(n + 1)
    BY <1>1 DEF Groups
  <2>2. Len([c \in 1..n |-> [k \in DOMAIN cycles[c] |-> insts[cycles[c][k]]]]) = n
    BY <1>1
  <2>3. Len([c \in 1..(n + 1) |-> [k \in DOMAIN cycles'[c] |-> insts[cycles'[c][k]]]]) = n + 1
    BY <1>1
  <2> QED BY <1>1, <2>2, <2>3 DEF Groups
<1>4. \A c \in 1..n : more[c] = Groups[c]
  BY <1>1 DEF Groups
<1>5. more[n + 1] = [k \in DOMAIN ops |-> insts[ops[k]]]
  BY <1>1
<1> HIDE DEF more
<1>6. RunCycles(more, s) = Cycle(more[n + 1], RunCycles(Groups, s))
  BY <1>1, <1>3, <1>4, OneMoreCycle
<1> QED BY <1>2, <1>5, <1>6 DEF AfterCycles

(* Nothing in the pending cycle disturbs a return pc that it, or a cycle   *)
(* before it, has loaded: what must precede the load is in place already.  *)
LEMMA PendingKeepsTop ==
    ASSUME IInv, NEW i \in Placed, insts[i].op = "CsLoadPc", NEW k \in DOMAIN current.ops
    PROVE  KeepsTop(PendingOps[k])
<1> DEFINE j == current.ops[k]
           x == insts[j]
<1>1. /\ TypeOK /\ OrderRespected /\ PlacedOnce /\ CyclesCompatible
      /\ PendingOps[k] = x
  BY DEF IInv, PendingOps
<1>2. j \in Idx /\ j \in InCurrent /\ DOMAIN current.ops = 1..Len(current.ops) /\ Len(current.ops) \in Nat
  BY <1>1, PendingFacts DEF InCurrent
<1>3. i \in Idx
  <2>1. CASE i \in InCurrent
    BY <1>1, <2>1, PendingFacts DEF InCurrent
  <2>2. CASE i \in InCycles
    <3>1. PICK c \in DOMAIN cycles : i \in InCycle(c)
      BY <2>2 DEF InCycles
    <3>2. cycles[c] \in Seq(Idx)
      BY <1>1 DEF TypeOK
    <3> QED BY <3>1, <3>2 DEF InCycle
  <2> QED BY <2>1, <2>2 DEF Placed
<1>4. LoadsPcLast(insts) /\ Idx = 1..Len(insts) /\ Len(insts) \in Nat /\ Idx = DOMAIN insts
  BY <1>1, BlockFacts DEF Idx
<1> HIDE DEF j
<1>5. CASE j = i
  BY <1>1, <1>3, <1>4, <1>5 DEF LoadsPcLast, KeepsTop, IsSp, SpOps, IsWrite, WriteOps
<1>6. CASE j > i
  BY <1>1, <1>2, <1>3, <1>4, <1>6 DEF LoadsPcLast, KeepsTop
<1>7. CASE ~EffectConflict(x, insts[i], FALSE)
  <2>1. IsCs(x) => ~CsConflict(x, insts[i])
    BY <1>7 DEF EffectConflict, IsCs, CsPcOps
  <2>2. CsSlot(insts[i]) = 0 /\ CsLanes(insts[i]) = {0, 1}
    BY <1>3, <1>4 DEF LoadsPcLast, CsSlot, CsLanes, CsByteOps
  <2>3. CsLanes(x) \cap {0, 1} # {}
    <3>1. x.at \in Nat
      BY <1>1, <1>2, BlockFacts, Operands
    <3>2. x.at % 2 \in {0, 1}
      BY <3>1
    <3> QED BY <3>2 DEF CsLanes
  <2>4. x.op = "CsLoadPc" => x.at = 0
    BY <1>2, <1>4 DEF LoadsPcLast
  <2> HIDE DEF x
  <2> QED BY <1>1, <2>1, <2>2, <2>3, <2>4 DEF KeepsTop, CsConflict
<1>8. CASE j < i /\ EffectConflict(x, insts[i], FALSE)
  <2>1. EffectConflict(x, insts[i], TRUE)
    BY <1>8 DEF EffectConflict, WriteFirst
  <2>2. j \in Preds(i)
    BY <1>2, <1>3, <1>8, <2>1 DEF Preds, PredsIn, MustOrderBefore, Idx
  <2>3. j \notin InCycles
    BY <1>1, <1>2 DEF PlacedOnce
  <2>4. CASE i \in InCycles
    <3>1. PICK c \in DOMAIN cycles : i \in InCycle(c)
      BY <2>4 DEF InCycles
    <3>2. PICK n \in DOMAIN cycles[c] : i = cycles[c][n]
      BY <3>1 DEF InCycle
    <3>3. \/ \E d \in 1..(c - 1) : j \in InCycle(d)
          \/ \E m \in 1..(n - 1) : cycles[c][m] = j
      BY <1>1, <2>2, <3>2 DEF OrderRespected
    <3>4. /\ DOMAIN cycles = 1..Len(cycles) /\ Len(cycles) \in Nat
          /\ DOMAIN cycles[c] = 1..Len(cycles[c]) /\ Len(cycles[c]) \in Nat
      <4>1. cycles[c] \in Seq(Idx) /\ cycles \in Seq(Seq(Idx))
        BY <1>1 DEF TypeOK
      <4> QED BY <4>1
    <3>5. CASE \E d \in 1..(c - 1) : j \in InCycle(d)
      BY <2>3, <3>4, <3>5 DEF InCycles
    <3>6. CASE \E m \in 1..(n - 1) : cycles[c][m] = j
      BY <2>3, <3>1, <3>2, <3>4, <3>6 DEF InCycles, InCycle
    <3> QED BY <3>3, <3>5, <3>6
  <2>5. CASE i \in InCurrent
    <3>1. PICK p \in DOMAIN current.ops : i = current.ops[p]
      BY <2>5 DEF InCurrent
    <3>2. PICK m \in 1..(p - 1) : current.ops[m] = j
      BY <1>1, <2>2, <2>3, <3>1 DEF OrderRespected
    <3>3. CanShareCycleAfter(insts[current.ops[m]], insts[current.ops[p]])
      BY <1>1, <3>1, <3>2 DEF CyclesCompatible, Compatible
    <3> QED BY <1>8, <3>1, <3>2, <3>3 DEF CanShareCycleAfter
  <2> QED BY <2>4, <2>5 DEF Placed
<1>9. j = i \/ j > i \/ j < i
  BY <1>2, <1>3, <1>4
<1> HIDE DEF x
<1> QED BY <1>5, <1>6, <1>7, <1>8, <1>9, Zenon

LEMMA RetireFaithful ==
    ASSUME IInv, Faithful, Close \/ Flush
    PROVE  Faithful'
<1>1. TypeOK /\ CyclesCompatible /\ current.ops \in Seq(Idx)
  BY DEF IInv, TypeOK
<1>2. /\ cycles' = Append(cycles, current.ops) /\ current' = EmptyCycle
      /\ insts' = insts /\ Idx' = Idx
  BY DEF Close, Flush, Idx
<1>3. InCycles' = InCycles \cup InCurrent
  BY <1>1, <1>2, AppendCycle DEF InCurrent
<1>4. PendingOps' = <<>> /\ InCurrent' = {} /\ Placed' = Placed
  BY <1>2, <1>3 DEF EmptyCycle, PendingOps, InCurrent, Placed
<1> SUFFICES ASSUME NEW s \in Inputs PROVE MeaningKept(s)' /\ ReturnKept(s)'
  BY DEF Faithful
<1>5. MeaningKept(s) /\ ReturnKept(s)
  BY DEF Faithful
<1> DEFINE mid == AfterCycles(s)
           new == Cycle(PendingOps, mid)
<1>6. AfterCycles(s)' = new
  BY <1>1, <1>2, CycleClosed DEF PendingOps
<1>7. ProperBlock(PendingOps) /\ Shareable(PendingOps) /\ IsMachine(mid)
  BY <1>1, <1>5, PendingFacts DEF MeaningKept
<1>8. IsMachine(new) /\ Alike(AfterPending(s), new)
  BY <1>7, CycleIsSequence DEF AfterPending
<1>9. IsMachine(AfterPending(s))
  BY <1>1, <1>7, PendingFacts, RunAll, RunMachine DEF AfterPending
<1>10. AfterPending(s)' = new
  BY <1>4, <1>6, RunAll, RunNone DEF AfterPending
<1>11. AfterAll(s)' = RunOf(Idx \ Placed, insts, new)
  BY <1>2, <1>4, <1>10 DEF AfterAll
<1>12. Alike(AfterAll(s), AfterAll(s)')
  BY <1>1, <1>8, <1>9, <1>11, BlockFacts, RunAlike DEF AfterAll
<1>13. MeaningKept(s)'
  <2>1. Alike(RunSequentially(insts, s), AfterAll(s)')
    BY <1>5, <1>12, AlikeIsEquivalence DEF MeaningKept
  <2> QED BY <1>2, <1>6, <1>8, <2>1 DEF MeaningKept
<1>14. ReturnKept(s)'
  <2> SUFFICES ASSUME NEW i \in InCycles', insts[i].op = "CsLoadPc", ~Failed(new)
               PROVE  AtTop(new)
    BY <1>2, <1>6 DEF ReturnKept
  <2>1. i \in Placed
    BY <1>3 DEF Placed
  <2>2. \A k \in DOMAIN PendingOps : KeepsTop(PendingOps[k])
    BY <2>1, PendingKeepsTop DEF PendingOps
  <2>3. ~Failed(mid)
    BY DEF Cycle
  <2>4. SlotOk(mid.sp) \/ \E k \in DOMAIN PendingOps : PendingOps[k].op = "CsLoadPc"
    <3>1. CASE i \in InCycles
      BY <1>5, <2>3, <3>1 DEF ReturnKept, AtTop
    <3>2. CASE i \in InCurrent
      BY <3>2 DEF InCurrent, PendingOps
    <3> QED BY <1>3, <3>1, <3>2
  <2> HIDE DEF mid
  <2> QED BY <1>7, <2>2, <2>4, CycleKeepsTop
<1> QED BY <1>13, <1>14

LEMMA GetcharFaithful ==
    ASSUME IInv, Faithful, NEW i \in Idx, PlaceGetchar(i)
    PROVE  Faithful'
<1> DEFINE x == insts[i]
           ops == [k \in DOMAIN <<i>> |-> insts[<<i>>[k]]]
<1>1. TypeOK /\ ReadyIsExact /\ i \in ready /\ current.ops = <<>> /\ IsGetchar(x)
  BY DEF IInv, PlaceGetchar, IsPick, Candidates, CanAppend
<1>2. /\ cycles' = Append(cycles, <<i>>) /\ current' = current /\ insts' = insts /\ Idx' = Idx
  BY DEF PlaceGetchar, Idx
<1>3. <<i>> \in Seq(Idx) /\ {<<i>>[k] : k \in DOMAIN <<i>>} = {i}
  OBVIOUS
<1>4. InCycles' = InCycles \cup {i}
  BY <1>1, <1>2, <1>3, AppendCycle
<1>5. PendingOps = <<>> /\ PendingOps' = <<>> /\ InCurrent' = InCurrent /\ Placed' = Placed \cup {i}
  BY <1>1, <1>2, <1>4 DEF PendingOps, InCurrent, Placed
<1>6. ops = <<x>> /\ ops = Append(<<>>, x)
  OBVIOUS
<1>7. Proper(x) /\ x \in Block
  BY <1>1, BlockFacts
<1>8. ProperBlock(ops) /\ Shareable(ops)
  BY <1>6, <1>7 DEF ProperBlock, Shareable
<1>9. \A k \in DOMAIN ops : KeepsTop(ops[k])
  <2>1. KeepsTop(x)
    BY <1>1 DEF KeepsTop, IsGetchar, IsCs, CsByteOps, CsPcOps, SpOps
  <2> QED BY <1>6, <2>1
<1> HIDE DEF x, ops
<1> SUFFICES ASSUME NEW s \in Inputs PROVE MeaningKept(s)' /\ ReturnKept(s)'
  BY DEF Faithful
<1>10. MeaningKept(s) /\ ReturnKept(s)
  BY DEF Faithful
<1> DEFINE mid == AfterCycles(s)
           new == Cycle(ops, mid)
<1>11. AfterCycles(s)' = new
  BY <1>1, <1>2, <1>3, CycleClosed DEF ops
<1>12. IsMachine(mid) /\ AfterPending(s) = mid /\ AfterPending(s)' = new
  BY <1>5, <1>10, <1>11, RunAll, RunNone DEF AfterPending, MeaningKept
<1>13. IsMachine(new) /\ Alike(RunSequentially(ops, mid), new)
  BY <1>8, <1>12, CycleIsSequence
<1>14. RunSequentially(ops, mid) = Execute(x, mid)
  <2>1. RunSequentially(<<>>, mid) = mid
    BY RunAll, RunNone
  <2>2. <<>> \in Seq(Block)
    OBVIOUS
  <2> HIDE DEF mid
  <2>3. RunSequentially(Append(<<>>, x), mid) = Execute(x, RunSequentially(<<>>, mid))
    BY <1>7, <2>2, RunAppend
  <2> QED BY <1>6, <2>1, <2>3
<1>15. IsMachine(Execute(x, mid))
  BY <1>7, <1>12, Operands, ExecuteStays
<1> DEFINE U == (Idx \ Placed) \ {i}
<1>16. AfterAll(s)' = RunOf(U, insts, new)
  <2>1. Idx' \ Placed' = U
    BY <1>2, <1>5
  <2> QED BY <1>2, <1>12, <2>1 DEF AfterAll
<1>17. Alike(AfterAll(s), RunOf(U, insts, Execute(x, mid)))
  BY <1>1, <1>12, RunsNext DEF AfterAll, x
<1>18. Alike(RunOf(U, insts, Execute(x, mid)), AfterAll(s)')
  BY <1>1, <1>13, <1>14, <1>15, <1>16, BlockFacts, RunAlike
<1>19. MeaningKept(s)'
  <2>1. Alike(RunSequentially(insts, s), AfterAll(s)')
    BY <1>10, <1>17, <1>18, AlikeIsEquivalence DEF MeaningKept
  <2> QED BY <1>2, <1>11, <1>13, <2>1 DEF MeaningKept
<1>20. ReturnKept(s)'
  <2> SUFFICES ASSUME NEW j \in InCycles', insts[j].op = "CsLoadPc", ~Failed(new)
               PROVE  AtTop(new)
    BY <1>2, <1>11 DEF ReturnKept
  <2>1. j \in InCycles
    BY <1>1, <1>4 DEF IsGetchar, x
  <2>2. ~Failed(mid)
    BY DEF Cycle
  <2>3. SlotOk(mid.sp)
    BY <1>10, <2>1, <2>2 DEF ReturnKept, AtTop
  <2> HIDE DEF mid
  <2> QED BY <1>8, <1>9, <1>12, <2>3, CycleKeepsTop
<1> QED BY <1>19, <1>20

LEMMA StutterFaithful == Faithful /\ UNCHANGED vars => Faithful'
<1> SUFFICES ASSUME Faithful, UNCHANGED vars PROVE Faithful'
  OBVIOUS
<1>1. insts' = insts /\ current' = current /\ cycles' = cycles
  BY DEF vars
<1>2. /\ Groups' = Groups /\ PendingOps' = PendingOps /\ Idx' = Idx /\ Placed' = Placed
      /\ InCycles' = InCycles
  BY <1>1 DEF Groups, PendingOps, Idx, Placed, InCycles, InCycle, InCurrent
<1>3. \A s : /\ AfterCycles(s)' = AfterCycles(s) /\ AfterPending(s)' = AfterPending(s)
             /\ AfterAll(s)' = AfterAll(s)
  BY <1>1, <1>2 DEF AfterCycles, AfterPending, AfterAll
<1>4. \A s : MeaningKept(s)' = MeaningKept(s) /\ ReturnKept(s)' = ReturnKept(s)
  BY <1>1, <1>2, <1>3 DEF MeaningKept, ReturnKept
<1> QED BY <1>4 DEF Faithful

(* Machines that are the same, and return to the same place, are equal.    *)
LEMMA SameMachines ==
    ASSUME NEW s, NEW t, IsMachine(s), IsMachine(t), ~Failed(s), ~Failed(t), Same(s, t)
    PROVE  /\ [s EXCEPT !.ra = <<>>] = [t EXCEPT !.ra = <<>>]
           /\ s.ra = t.ra => s = t
<1>1. IsShaped(s) /\ IsShaped(t) /\ s.trap = t.trap
  BY DEF IsMachine, IsShaped, Fields, Failed
<1>2. /\ [s EXCEPT !.ra = <<>>]
            = Fields(s.reg, s.mem, s.glob, s.eh, s.cs, s.sp, <<>>, s.keys, s.out, s.trap)
      /\ [t EXCEPT !.ra = <<>>]
            = Fields(t.reg, t.mem, t.glob, t.eh, t.cs, t.sp, <<>>, t.keys, t.out, t.trap)
  BY <1>1, FieldUpdates
<1>3. [s EXCEPT !.ra = <<>>] = [t EXCEPT !.ra = <<>>]
  BY <1>1, <1>2 DEF Same
<1>4. s.ra = t.ra => s = t
  BY <1>1 DEF IsShaped, Same
<1> QED BY <1>3, <1>4

LEMMA FaithfulMeansSame == IInv /\ Faithful => SameMeaning
<1> SUFFICES ASSUME IInv, Faithful, Done, NEW s \in Inputs
             PROVE  LET seq == RunSequentially(insts, s)
                        cyc == RunCycles(Groups, s)
                    IN  /\ Failed(seq) <=> Failed(cyc)
                        /\ ~Failed(seq) => Visible(cyc) = Visible(seq)
  BY DEF SameMeaning
<1> DEFINE seq == RunSequentially(insts, s)
           cyc == RunCycles(Groups, s)
<1>0. TypeOK /\ ReadyIsExact /\ current.ops = <<>>
  BY DEF IInv, Done
<1>1. Placed = Idx /\ PendingOps = <<>> /\ InCycles = Idx
  <2>1. Placed = Idx
    BY <1>0, DonePlacesAll
  <2>2. PendingOps = <<>> /\ InCurrent = {}
    BY <1>0 DEF PendingOps, InCurrent
  <2> QED BY <2>1, <2>2 DEF Placed
<1>2. MeaningKept(s) /\ ReturnKept(s) /\ IsMachine(s) /\ ~Failed(s)
  BY MachineAssumption DEF Faithful
<1>3. ProperBlock(insts) /\ LoadsPcLast(insts) /\ Len(insts) \in Nat
  BY <1>0, BlockFacts
<1>4. AfterPending(s) = cyc
  BY <1>1, RunAll, RunNone DEF AfterPending, AfterCycles
<1>5. AfterAll(s) = cyc
  BY <1>1, <1>3, <1>4, RunNone DEF AfterAll
<1>6. IsMachine(cyc) /\ Alike(seq, cyc)
  BY <1>2, <1>5 DEF MeaningKept, AfterCycles
<1>7. IsMachine(seq)
  BY <1>2, <1>3, RunAll, RunMachine
<1>8. ASSUME ~Failed(seq) PROVE Visible(cyc) = Visible(seq)
  <2>1. ~Failed(cyc) /\ Same(seq, cyc)
    BY <1>6, <1>8 DEF Alike
  <2>2. CASE ~LoadsPc
    <3> HIDE DEF seq, cyc
    <3> QED BY <1>6, <1>7, <1>8, <2>1, <2>2, SameMachines DEF Visible
  <2>3. CASE LoadsPc
    <3>1. PICK i \in Idx : insts[i].op = "CsLoadPc"
      BY <2>3 DEF LoadsPc
    <3>2. AtTop(seq)
      BY <1>2, <1>3, <1>8, <3>1, SequenceKeepsTop DEF Idx
    <3>3. AtTop(cyc)
      BY <1>1, <1>2, <2>1, <3>1 DEF ReturnKept, AfterCycles
    <3> HIDE DEF seq, cyc
    <3>4. seq.ra = cyc.ra
      BY <2>1, <3>2, <3>3 DEF AtTop, Same
    <3> QED BY <1>6, <1>7, <1>8, <2>1, <2>3, <3>4, SameMachines DEF Visible
  <2> QED BY <2>2, <2>3
<1> QED BY <1>6, <1>8 DEF Alike

(***************************************************************************)
(* Whatever block is scheduled, under whatever limits, whatever its pure   *)
(* instructions compute, and from whatever state it starts: the cycles     *)
(* leave what the instructions leave one after the other, and trap exactly *)
(* when they do.                                                           *)
(***************************************************************************)
THEOREM CyclesMeanTheBlock == Spec => []SameMeaning
<1>1. Init => IInv /\ Faithful
  BY InitIInv, InitFaithful
<1>2. IInv /\ Faithful /\ [Next]_vars => IInv' /\ Faithful'
  <2> SUFFICES ASSUME IInv, Faithful, [Next]_vars PROVE IInv' /\ Faithful'
    OBVIOUS
  <2>1. ASSUME NEW i \in Idx, Place(i) PROVE IInv' /\ Faithful'
    BY <2>1, PlacePreserves, PlaceFaithful
  <2>2. ASSUME NEW i \in Idx, PlaceGetchar(i) PROVE IInv' /\ Faithful'
    BY <2>2, GetcharPreserves, GetcharFaithful
  <2>3. CASE Close \/ Flush
    BY <2>3, RetirePreserves, RetireFaithful
  <2>4. CASE UNCHANGED vars
    BY <2>4, StutterPreserves, StutterFaithful
  <2> QED BY <2>1, <2>2, <2>3, <2>4 DEF Next
<1>3. IInv /\ Faithful => SameMeaning
  BY FaithfulMeansSame
<1> QED BY <1>1, <1>2, <1>3, PTL DEF Spec
=============================================================================
