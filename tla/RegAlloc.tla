------------------------------ MODULE RegAlloc ------------------------------
(***************************************************************************)
(* regalloc (src/regalloc.rs): liveness, live intervals, a linear scan per *)
(* function, a bank of registers per function, and the renumbering of the  *)
(* registers left; once with the blocks in the order of their schedules,   *)
(* and if that takes too many registers again in source order.  A byte     *)
(* register is a number r; its group is r \div 4.  An instruction is what  *)
(* the allocator reads of it:                                              *)
(*    [def, use : sets of registers, copy : is it a Copy].                 *)
(* A block is [insts, use, def, succ], the last three its terminator's; a  *)
(* function is [locals : number of local words, blocks].                   *)
(***************************************************************************)
EXTENDS LinearScan, FiniteSetsExt

CONSTANTS
    Programs,      \* programs as lower8 and opt8 leave them
    Scheduled(_),  \* a program with its instructions in scheduled order
    Starts(_),     \* the position of the first instruction of each block
    MaxPhysRegs    \* the --max-phys-regs limit

VREG_START == 8
GroupOf(r) == r \div 4
Word(g) == {4 * g + lane : lane \in 0..3}

VARIABLES
    source,          \* ir8, kept for the second attempt
    scheduledOrder,  \* whether this is the first attempt
    prog,            \* func_blocks of this attempt
    allocs           \* results of the functions scanned: [phys, max_phys_group]

vars == <<source, scheduledOrder, prog, allocs, scanVars>>

-----------------------------------------------------------------------------
(* What a function reads and writes. *)
BlockRegs(b) ==
    b.use \cup b.def \cup UNION {b.insts[k].use \cup b.insts[k].def : k \in DOMAIN b.insts}
FuncRegs(f) == UNION {BlockRegs(f.blocks[b]) : b \in DOMAIN f.blocks}
ProgRegs(pr) == UNION {FuncRegs(pr[n]) : n \in DOMAIN pr}

(* A cursor moved along a sequence of sizes: f[1] + ... + f[n]. *)
SumTo(f) == LET sum[n \in 0..Len(f)] == IF n = 0 THEN 0 ELSE sum[n - 1] + f[n]
            IN  sum

(* build_owner_info: locals by position, the rest by where they appear.    *)
LocalBytes(pr) == SumTo([n \in DOMAIN pr |-> 4 * pr[n].locals])
LocalsOf(pr, n) ==
    (VREG_START + LocalBytes(pr)[n - 1])..(VREG_START + LocalBytes(pr)[n] - 1)
FreshStart(pr) == VREG_START + LocalBytes(pr)[Len(pr)]
OwnedBy(pr, n) ==
    LocalsOf(pr, n) \cup {r \in FuncRegs(pr[n]) : r >= FreshStart(pr)}

(* Registers are 16 bits wide (Val8).  assign_owner refuses a program in   *)
(* which two functions name the same register that is not a local.         *)
MAX_REG == 65535
Regs == 0..MAX_REG
Inst == {i \in [def : SUBSET Regs, use : SUBSET Regs, copy : BOOLEAN] :
            i.copy => (\A d, e \in i.def : d = e) /\ (\A s, t \in i.use : s = t)}
Block == [insts : Seq(Inst), use : SUBSET Regs, def : SUBSET Regs, succ : SUBSET Nat]
IsProgram(pr) ==
    /\ pr \in Seq([locals : Nat, blocks : Seq(Block)]) /\ pr # <<>>
    /\ \A n \in DOMAIN pr :
         /\ pr[n].blocks # <<>>
         /\ \A b \in DOMAIN pr[n].blocks : pr[n].blocks[b].succ \subseteq DOMAIN pr[n].blocks
    /\ \A m, n \in DOMAIN pr : m # n =>
         \A r \in FuncRegs(pr[m]) \cap FuncRegs(pr[n]) : r < FreshStart(pr)

ASSUME ProgramsAssumption ==
    \A s \in Programs : IsProgram(s) /\ IsProgram(Scheduled(s))
ASSUME StartsAssumption ==
    \A s \in Programs : \A pr \in {s, Scheduled(s)} : \A n \in DOMAIN pr :
        Starts(pr[n].blocks) \in [DOMAIN pr[n].blocks -> Nat]

(* The terminator comes last in its block. *)
Insts(b) == Append(b.insts, [use |-> b.use, def |-> b.def])

(* block_use_def: a use counts only before the block's own definition. *)
Uses(b) == UNION {Insts(b)[k].use \ UNION {Insts(b)[m].def : m \in 1..(k - 1)} :
                    k \in DOMAIN Insts(b)}
Defs(b) == UNION {Insts(b)[k].def : k \in DOMAIN Insts(b)}

(* liveness: the backward data-flow iteration, repeated while something    *)
(* changes, over the pairs <<block, r>> where r is in the block's live_in. *)
LiveRound(blocks, own, live) ==
    {x \in (DOMAIN blocks) \X own :
        \/ x[2] \in Uses(blocks[x[1]])
        \/ /\ x[2] \notin Defs(blocks[x[1]])
           /\ \E c \in blocks[x[1]].succ : <<c, x[2]>> \in live}
LiveRounds(blocks, own) ==
    LET live[n \in Nat] == IF n = 0 THEN {} ELSE LiveRound(blocks, own, live[n - 1])
    IN  live
LiveIns(blocks, own) ==
    LET live == LiveRounds(blocks, own)
    IN  live[CHOOSE n \in 0..Cardinality((DOMAIN blocks) \X own) : live[n + 1] = live[n]]

(* The positions that stretch r's interval: where it is touched, where a   *)
(* block it is live into starts, both ends of a block it is live out of.   *)
(* (Slip: a word live out of a block need not live to its end.)            *)
Points_NoLiveOut(bk, s, liveIn, liveOut, r) ==
    {s + k - 1 : k \in {k \in DOMAIN Insts(bk) : r \in Insts(bk)[k].use \cup Insts(bk)[k].def}}
        \cup {p \in {s} : liveIn}
(* (Slip: a word live into a block is not live from its start.)            *)
Points_NoLiveIn(bk, s, liveIn, liveOut, r) ==
    LET e == s + Len(bk.insts)
    IN  {s + k - 1 : k \in {k \in DOMAIN Insts(bk) : r \in Insts(bk)[k].use \cup Insts(bk)[k].def}}
            \cup {p \in {s, e} : liveOut}

Points(bk, s, liveIn, liveOut, r) ==
    LET e == s + Len(bk.insts)
    IN  {s + k - 1 : k \in {k \in DOMAIN Insts(bk) : r \in Insts(bk)[k].use \cup Insts(bk)[k].def}}
            \cup {p \in {s} : liveIn}
            \cup {p \in {s, e} : liveOut}

Touched(blocks, start, live, r) ==
    UNION {Points(blocks[b], start[b], <<b, r>> \in live,
                  \E c \in blocks[b].succ : <<c, r>> \in live, r) : b \in DOMAIN blocks}

(* group_intervals over build_intervals.  collect_referenced_groups: a     *)
(* group somebody else writes (a parameter its callers fill) has an        *)
(* interval too, the position 0 if nothing here touches it.                *)
Referenced(pr, n) == {GroupOf(r) : r \in OwnedBy(pr, n) \cap ProgRegs(pr)}
Between(pts) == IF pts = {} THEN [start |-> 0, end |-> 0]
                ELSE [start |-> Min(pts), end |-> Max(pts)]
Intervals(pr, n) ==
    LET blocks == pr[n].blocks
        own == OwnedBy(pr, n)
        live == LiveIns(blocks, own)
        start == Starts(blocks)
    IN  [g \in Referenced(pr, n) |->
            Between(UNION {Touched(blocks, start, live, r) : r \in Word(g) \cap own})]

(* collect_copy_partners: groups copied lane to lane. *)
CopiedWith(i, own, g) ==
    LET pairs == IF i.copy /\ i.def \cup i.use \subseteq own
                 THEN (i.def \X i.use) \cup (i.use \X i.def) ELSE {}
    IN  {GroupOf(c[2]) : c \in {c \in pairs :
            c[1] % 4 = c[2] % 4 /\ GroupOf(c[1]) = g /\ GroupOf(c[2]) # g}}
Partners(pr, n, g) ==
    UNION {UNION {{<<b, k, h>> : h \in CopiedWith(pr[n].blocks[b].insts[k], OwnedBy(pr, n), g)} :
                     k \in DOMAIN pr[n].blocks[b].insts} : b \in DOMAIN pr[n].blocks}

InputOf(pr, n) ==
    LET iv == Intervals(pr, n)
    IN  [interval |-> iv, partners |-> [g \in DOMAIN iv |-> Partners(pr, n, g)]]
-----------------------------------------------------------------------------
RAInit ==
    /\ source \in Programs
    /\ scheduledOrder = TRUE
    /\ prog = Scheduled(source)
    /\ allocs = <<>>
    /\ StartScan(InputOf(prog, 1))

ScanStep ==
    /\ Next
    /\ UNCHANGED <<source, scheduledOrder, prog, allocs>>

(* The scan of a function is over: keep its result, go on with the next.   *)
FinishFunction ==
    /\ todo = {}
    /\ Len(allocs) < Len(prog)
    /\ allocs' = Append(allocs, [phys |-> phys, max |-> nextPhys - 1])
    /\ UNCHANGED <<source, scheduledOrder, prog>>
    /\ IF Len(allocs) + 1 < Len(prog)
       THEN Restart(InputOf(prog, Len(allocs) + 2))
       ELSE UNCHANGED scanVars

-----------------------------------------------------------------------------
(* The registers of the allocated program.                                 *)
Allocated == Len(allocs) = Len(prog)

(* (Slip: a bank as large as its highest group counted from 0.)            *)
BankOffset_FromZero(n) == SumTo([m \in DOMAIN allocs |-> allocs[m].max - 1])[n - 1]
(* func_group_offsets: the banks follow one another from group 0 on.       *)
BankOffset(n) == SumTo([m \in DOMAIN allocs |-> allocs[m].max])[n - 1]

(* map_vreg; registers below VREG_START, the RET words, stay themselves.   *)
OwnerOf(r) == CHOOSE n \in DOMAIN prog : r \in OwnedBy(prog, n)
MapVreg(r) ==
    IF r < VREG_START THEN r
    ELSE 4 * (BankOffset(OwnerOf(r)) + allocs[OwnerOf(r)].phys[GroupOf(r)]) + (r % 4)

(* compact_physical_vregs: renumber densely what is at or above VREG_START.*)
ActivePhys == {p \in {MapVreg(r) : r \in ProgRegs(prog)} : p >= VREG_START}
FinalReg(r) ==
    LET p == MapVreg(r)
    IN  IF p < VREG_START THEN p
        ELSE VREG_START + Cardinality({q \in ActivePhys : q < p})
NumVregs == VREG_START + Cardinality(ActivePhys)
LimitExceeded == NumVregs > MaxPhysRegs

(* RegLimitExceeded: once more, in source order. *)
Retry ==
    /\ Allocated /\ LimitExceeded
    /\ scheduledOrder
    /\ scheduledOrder' = FALSE
    /\ prog' = source
    /\ allocs' = <<>>
    /\ Restart(InputOf(source, 1))
    /\ UNCHANGED source

RANext == ScanStep \/ FinishFunction \/ Retry
RASpec == RAInit /\ [][RANext]_vars
-----------------------------------------------------------------------------
(* Liveness again, instruction by instruction and straight from its        *)
(* meaning: r is live at a set of points if a path from one of them        *)
(* reaches a use of r and meets no definition on the way.                  *)
Row(n, b) == {b} \X (1..(Len(prog[n].blocks[b].insts) + 1))
Nodes(n) == UNION {Row(n, b) : b \in DOMAIN prog[n].blocks}
IsTerm(n, v) == v[2] = Len(prog[n].blocks[v[1]].insts) + 1
UsesAt(n, v) == Insts(prog[n].blocks[v[1]])[v[2]].use
DefsAt(n, v) == Insts(prog[n].blocks[v[1]])[v[2]].def
After(n, v) == IF IsTerm(n, v) THEN {<<c, 1>> : c \in prog[n].blocks[v[1]].succ}
                               ELSE {<<v[1], v[2] + 1>>}
ReachRounds(n, from, r) ==
    LET reach[k \in Nat] ==
            IF k = 0 THEN from
            ELSE LET old == reach[k - 1]
                 IN  old \cup UNION {After(n, v) : v \in {v \in old : r \notin DefsAt(n, v)}}
    IN  reach
LiveFrom(n, from, r) ==
    \E v \in ReachRounds(n, from, r)[Cardinality(Nodes(n))] : r \in UsesAt(n, v)

Works == Allocated /\ ~LimitExceeded

(* regalloc's result is sound: where an instruction or terminator writes   *)
(* one virtual register, every other one still needed afterwards sits in a *)
(* different final register, through interval, scan, bank and renumbering. *)
AllocationSound ==
    Works => \A n \in DOMAIN prog : \A v \in Nodes(n) :
        \A d \in DefsAt(n, v) \ 0..(VREG_START - 1) : \A r \in OwnedBy(prog, n) \ {d} :
            LiveFrom(n, After(n, v), r) => FinalReg(r) # FinalReg(d)

(* "assign each function a disjoint physical register-group bank": what    *)
(* one function writes is never a register of another, so that values that *)
(* are not saved around a call survive it.                                 *)
BanksDisjoint ==
    Works => \A m, n \in DOMAIN prog : m # n =>
        {FinalReg(r) : r \in OwnedBy(prog, m) \cap ProgRegs(prog)}
            \cap {FinalReg(r) : r \in OwnedBy(prog, n) \cap ProgRegs(prog)} = {}

(* A call fills the callee's parameters one after the other: those that    *)
(* the callee reads before it writes them are all in registers of their    *)
(* own, so that no argument destroys an earlier one.                       *)
ParametersApart ==
    Works => \A n \in DOMAIN prog :
        LET params == {r \in OwnedBy(prog, n) \cap ProgRegs(prog) : LiveFrom(n, {<<1, 1>>}, r)}
        IN  \A a, b \in params : FinalReg(a) = FinalReg(b) => a = b
=============================================================================
