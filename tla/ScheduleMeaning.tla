--------------------------- MODULE ScheduleMeaning --------------------------
(***************************************************************************)
(* The scheduler composed with the machine its cycles run on: packing a    *)
(* block into cycles must not change what the block does.                  *)
(***************************************************************************)
EXTENDS BlockScheduler, CycleExec

CONSTANT Inputs      \* machine states a block may start in

(* An instruction has the operands its op needs (an immediate that is      *)
(* stored, set or printed is a register nobody writes), and names          *)
(* registers and cells that exist.                                         *)
OneOperand  == {"LoadMem", "MemInc32", "Putchar", "GlobalSetByte", "ExcSet", "CsStore"}
TwoOperands == {"StoreMem", "PutcharIf"}
Fits(inst) ==
    /\ Uses(inst) \cup Defs(inst) \subseteq Registers
    /\ inst.op \in OneOperand => Len(inst.src) >= 1
    /\ inst.op \in TwoOperands => Len(inst.src) >= 2
    /\ IsGlobal(inst) => inst.at \in Globals
    /\ IsEh(inst) => inst.at \in ExcCells

(* The return pc is loaded from offset 0, and nothing touches the call     *)
(* stack after that: emit_non_main_return_sequence ends its block.         *)
LoadsPcLast(blk) ==
    \A i, j \in DOMAIN blk :
        blk[i].op = "CsLoadPc" => blk[i].at = 0 /\ (i < j => ~IsCs(blk[j]))

ASSUME MachineAssumption ==
    /\ MemEnd \in Nat /\ CsSlots \in Nat
    /\ \A s \in Inputs : IsMachine(s) /\ ~Failed(s)
    /\ \A blk \in Blocks : LoadsPcLast(blk) /\ \A i \in DOMAIN blk : Fits(blk[i])

Groups == [c \in DOMAIN cycles |-> [k \in DOMAIN cycles[c] |-> insts[cycles[c][k]]]]
LoadsPc == \E i \in Idx : insts[i].op = "CsLoadPc"

(* Where a Return goes is compared only in a block that loads a pc. *)
Visible(s) == IF LoadsPc THEN s ELSE [s EXCEPT !.ra = <<>>]

(* Run from any input, the cycles of schedule_block_ops leave the state    *)
(* the instruction sequence leaves: same registers, memory, globals, call  *)
(* stack, output, keys consumed and return target.  When the sequence      *)
(* traps so do the cycles (what else they did before is not compared: the  *)
(* scheduler does not order a trapping access against other effects).      *)
SameMeaning ==
    Done => \A s \in Inputs :
        LET seq == RunSequentially(insts, s)
            cyc == RunCycles(Groups, s)
        IN  /\ Failed(seq) <=> Failed(cyc)
            /\ ~Failed(seq) => Visible(cyc) = Visible(seq)
=============================================================================
