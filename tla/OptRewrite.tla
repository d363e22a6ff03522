----------------------------- MODULE OptRewrite -----------------------------
(***************************************************************************)
(* What every pass of the IR8 optimiser is built from: counts of           *)
(* definitions and uses, substitutions of operands, liveness               *)
(* (src/opt8/rewrite.rs and the copy passes of src/opt8/mod.rs).           *)
(* A function is a sequence of blocks in layout order; a substitution is a *)
(* function from operands to operands.                                     *)
(***************************************************************************)
EXTENDS ByteIR

AllInsts(blocks) == FlattenSeq([k \in DOMAIN blocks |-> blocks[k].insts])

DefSeq(block) == SelectSeq([k \in DOMAIN block.insts |-> block.insts[k].dst], LAMBDA r : r # NoDst)
                 \o block.term.defs
BlockUses(block) == FlattenSeq([k \in DOMAIN block.insts |-> UseSeq(ReadArgs(block.insts[k]))])
                    \o UseSeq(block.term.args)

(* How often each register of a sequence occurs in it; <<>> @@ makes TLC   *)
(* compute the table once.                                                 *)
Tally(regs) ==
    <<>> @@ [r \in ToSet(regs) |-> Cardinality({k \in DOMAIN regs : regs[k] = r})]
Times(counts, r) == IF r \in DOMAIN counts THEN counts[r] ELSE 0

(* Mutant: the operands of terminators are not counted. *)
collect_use_counts_Insts(blocks) == Tally(FlattenSeq([k \in DOMAIN blocks |-> BlockUses([blocks[k] EXCEPT !.term.args = <<>>])]))

collect_def_counts(blocks) == Tally(FlattenSeq([k \in DOMAIN blocks |-> DefSeq(blocks[k])]))

collect_use_counts(blocks) == Tally(FlattenSeq([k \in DOMAIN blocks |-> BlockUses(blocks[k])]))

(* Registers read at a place that no definition precedes in the layout.    *)
collect_regs_used_before_def(blocks) ==
    LET inst(acc, i)  == [early |-> acc.early \cup (InstUses(i) \ acc.defs),
                          defs  |-> acc.defs \cup ({i.dst} \ {NoDst})]
        block(acc, b) == LET body == FoldLeft(inst, acc, b.insts)
                         IN  [early |-> body.early \cup (TermUses(b.term) \ body.defs),
                              defs  |-> body.defs \cup ToSet(b.term.defs)]
    IN  FoldLeft(block, [early |-> {}, defs |-> {}], blocks).early

-----------------------------------------------------------------------------
(* Substitutions.                                                          *)

(* Where following a substitution ends; a circle is left after a bound. *)
resolve(subst, r) ==
    IF r \notin DOMAIN subst THEN r
    ELSE FoldLeft(LAMBDA x, n : IF x \in DOMAIN subst THEN subst[x] ELSE x, r,
                  [n \in 1..(Cardinality(DOMAIN subst) + 1) |-> n])

rewrite_inst(inst, subst) == [inst EXCEPT !.args = <<>> \o [k \in DOMAIN @ |-> resolve(subst, @[k])]]
rewrite_term(term, subst) == [term EXCEPT !.args = <<>> \o [k \in DOMAIN @ |-> resolve(subst, @[k])]]

rewrite_blocks_with_subst(blocks, subst) ==
    [k \in DOMAIN blocks |->
        [blocks[k] EXCEPT !.insts = [j \in DOMAIN @ |-> rewrite_inst(@[j], subst)],
                          !.term  = rewrite_term(@, subst)]]

MapBlocks(blocks, insts(_)) == [k \in DOMAIN blocks |-> [blocks[k] EXCEPT !.insts = insts(@)]]

IsCopy(inst)   == inst.op = "Copy"
SelfCopy(inst) == IsCopy(inst) /\ inst.args[1] = inst.dst
WithoutSelfCopies(blocks) ==
    MapBlocks(blocks, LAMBDA insts : SelectSeq(insts, LAMBDA i : ~SelfCopy(i)))

(* A copy onto itself, or into a register that nothing reads, is dropped. *)
WithoutDeadCopies(blocks) ==
    LET uses  == collect_use_counts(blocks)
        dead(i) == IsCopy(i) /\ \/ i.args[1] = i.dst
                                \/ i.dst >= VREG_START /\ Times(uses, i.dst) = 0
    IN  MapBlocks(blocks, LAMBDA insts : SelectSeq(insts, LAMBDA i : ~dead(i)))

-----------------------------------------------------------------------------
(* Registers live at the entry and at the exit of each block: the least    *)
(* solution, reached from the last block to the first.                     *)
LiveBefore(inst, live) == (live \ {inst.dst}) \cup InstUses(inst)

RECURSIVE LiveFixpoint(_, _, _)
LiveFixpoint(blocks, written, livein) ==
    LET back(acc, k) ==
            LET b   == blocks[k]
                out == UNION {acc[j] : j \in {j \in DOMAIN blocks : blocks[j].id \in Successors(b.term)}}
            IN  [acc EXCEPT ![k] = FoldRight(LAMBDA i, live : LiveBefore(i, live), b.insts,
                                             (out \ written[k]) \cup TermUses(b.term))]
        next == FoldLeft(back, livein, Reverse([k \in DOMAIN blocks |-> k]))
    IN  IF next = livein THEN livein ELSE LiveFixpoint(blocks, written, next)

Nothing(blocks) == [k \in DOMAIN blocks |-> {}]

(* The code does not count what a call writes as written. *)
LiveIn(blocks)     == LiveFixpoint(blocks, Nothing(blocks), Nothing(blocks))
LiveOut(blocks, k) ==
    UNION {LiveIn(blocks)[j] : j \in {j \in DOMAIN blocks : blocks[j].id \in Successors(blocks[k].term)}}

(* A function the lowering builds: no register is read on a path that does *)
(* not write it.                                                           *)
Defined(blocks) ==
    LiveFixpoint(blocks, [k \in DOMAIN blocks |-> ToSet(blocks[k].term.defs)], Nothing(blocks))[1] = {}
=============================================================================
