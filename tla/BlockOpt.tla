------------------------------ MODULE BlockOpt ------------------------------
(***************************************************************************)
(* The data passes of the IR8 optimiser, in the order of `run`             *)
(* (src/opt8/mod.rs): copies within a block and across blocks, registers   *)
(* that only ever hold one constant, the algebraic passes, the memory      *)
(* passes and dead code; the passes over the control-flow graph that run   *)
(* between them are CodeLayout's.  The sequence is repeated until it       *)
(* changes nothing or a program comes back, and is followed by the passes  *)
(* that run once.                                                          *)
(***************************************************************************)
EXTENDS OptCombine, OptMemory, OptUnroll

CONSTANTS
    Programs,               \* functions to optimise: see InitialProgram
    Envs,                   \* what the functions are run on
    Image,                  \* the initial memory: Ir8Program::init_bytes
    External,               \* blocks entered from other functions
    MAX_OPT_RUN_ITERS,      \* 128
    MAX_COPY_ELIM_FUNC_ITERS    \* 64

PREFERRED_COPY_DST_LIMIT == VREG_START + 4

VARIABLES
    blocks,     \* the function
    meaning,    \* the outcome of the runs of the function the optimiser was given
    at,         \* the pass that comes next
    changed,    \* a pass of this iteration has changed the function
    seen        \* the functions that iterations began with

vars == <<blocks, meaning, at, changed, seen>>

-----------------------------------------------------------------------------
(* Copies within a block.                                                  *)

prefer_copy_dest(dst, src) == ~IsImm(src) /\ dst < PREFERRED_COPY_DST_LIMIT /\ dst < src

compress_subst(subst) ==
    LET moved == {k \in DOMAIN subst : resolve(subst, k) # k}
    IN  <<>> @@ [k \in moved |-> resolve(subst, k)]

(* Mutant: an alias survives the overwriting of the register it stands for. *)
kill_aliases_for_Stale(subst, r) == compress_subst([k \in DOMAIN subst \ {r} |-> subst[k]])

kill_aliases_for(subst, r) ==
    compress_subst([k \in {k \in DOMAIN subst \ {r} : subst[k] # r} |-> subst[k]])

local_copy_propagation_block(b) ==
    LET alias(subst, i) ==
            LET src == i.args[1]
            IN  IF ~IsCopy(i) \/ src = i.dst THEN subst
                ELSE compress_subst((IF prefer_copy_dest(i.dst, src) THEN src :> i.dst ELSE i.dst :> src) @@ subst)
        step(s, i)  == LET new  == rewrite_inst(i, s.subst)
                           live == IF i.dst = NoDst THEN s.subst ELSE kill_aliases_for(s.subst, i.dst)
                       IN  [subst |-> alias(live, new), insts |-> Append(s.insts, new)]
        end         == FoldLeft(step, [subst |-> <<>>, insts |-> <<>>], b.insts)
    IN  [b EXCEPT !.insts = SelectSeq(end.insts, LAMBDA i : ~SelfCopy(i)),
                  !.term  = rewrite_term(@, end.subst)]

local_copy_propagation(bs) == [k \in DOMAIN bs |-> local_copy_propagation_block(bs[k])]

-----------------------------------------------------------------------------
(* Copies across blocks.  A register is replaced by the source of its one  *)
(* copy when the source, too, is written once, before every use of it.     *)
is_stable_source(r, defs) == Times(defs, r) <= 1

eliminate_global_copies(bs) ==
    LET defs  == collect_def_counts(bs)
        early == collect_regs_used_before_def(bs)
        step(subst, i) ==
            LET canon == resolve(subst, i.args[1])
            IN  IF /\ IsCopy(i)
                   /\ i.dst >= VREG_START
                   /\ Times(defs, i.dst) = 1
                   /\ i.dst \notin early
                   /\ canon # i.dst
                   /\ canon \notin early
                   /\ is_stable_source(canon, defs)
                   /\ ~prefer_copy_dest(i.dst, canon)
                THEN (i.dst :> canon) @@ subst
                ELSE subst
    IN  WithoutDeadCopies(rewrite_blocks_with_subst(bs, FoldLeft(step, <<>>, AllInsts(bs))))

RECURSIVE CopyElim(_, _)
CopyElim(bs, n) ==
    LET next == inst_simplify(eliminate_global_copies(bs))
    IN  IF n = 0 \/ next = bs THEN bs ELSE CopyElim(next, n - 1)

copy_elim(bs) == CopyElim(bs, MAX_COPY_ELIM_FUNC_ITERS)

(* A register that is computed for one copy is computed in the copy's      *)
(* destination instead.                                                    *)
back_copy_coalesce(bs) ==
    LET defs  == collect_def_counts(bs)
        uses  == collect_use_counts(bs)
        early == collect_regs_used_before_def(bs)
        scan(insts) ==
            LET def(r) == {k \in DOMAIN insts : insts[k].dst = r}
            IN  {k \in DOMAIN insts :
                   LET dst == insts[k].dst
                       src == insts[k].args[1]
                   IN  /\ IsCopy(insts[k])
                       /\ dst >= VREG_START
                       /\ ~IsImm(src)
                       /\ dst # src
                       /\ Times(defs, dst) = 1
                       /\ dst \notin early
                       /\ Times(uses, src) = 1
                       /\ Times(defs, src) = 1
                       /\ \E d \in def(src) : d < k}
        (* In order; a register takes part in one rewriting. *)
        choose(taken, insts) ==
            FoldLeft(LAMBDA s, k :
                        LET regs == {insts[k].dst, insts[k].args[1]}
                        IN  IF regs \cap s.regs # {} THEN s
                            ELSE [regs |-> s.regs \cup regs, copies |-> s.copies \cup {k}],
                     [regs |-> taken, copies |-> {}], SetToSortSeq(scan(insts), <))
        rewrite(insts, copies) ==
            LET to(r) == LET k == {k \in copies : insts[k].args[1] = r}
                         IN  IF k = {} THEN r ELSE insts[CHOOSE j \in k : TRUE].dst
                kept  == SelectSeq([k \in DOMAIN insts |-> k], LAMBDA k : k \notin copies)
            IN  [j \in DOMAIN kept |-> [insts[kept[j]] EXCEPT !.dst = to(@)]]
        block(s, b) == LET c == choose(s.regs, b.insts)
                       IN  [regs |-> c.regs,
                            bs   |-> Append(s.bs, [b EXCEPT !.insts = rewrite(@, c.copies)])]
    IN  FoldLeft(block, [regs |-> {}, bs |-> <<>>], bs).bs

(* A register whose every definition is a copy of one immediate is that    *)
(* immediate.                                                              *)
multi_def_zero_fold(bs) ==
    LET insts    == {i \in ToSet(AllInsts(bs)) : i.dst >= VREG_START}
        early    == collect_regs_used_before_def(bs)
        byTerm   == UNION {ToSet(bs[k].term.defs) : k \in DOMAIN bs}
        const(r, x) == \A i \in insts : i.dst = r => IsCopy(i) /\ i.args[1] = x
        defOf(r) == CHOOSE i \in insts : i.dst = r
        folded   == {r \in {i.dst : i \in insts} \ (early \cup byTerm) :
                        IsCopy(defOf(r)) /\ IsImm(defOf(r).args[1]) /\ const(r, defOf(r).args[1])}
    IN  IF folded = {} THEN bs
        ELSE WithoutDeadCopies(rewrite_blocks_with_subst(bs, [r \in folded |-> defOf(r).args[1]]))

-----------------------------------------------------------------------------
store_to_load_forwarding(bs)  == MapBlocks(bs, stlf_block)
local_dead_mem_store_elim(bs) == MapBlocks(bs, local_dead_mem_store_elim_block)

(* Instructions without effect whose result nothing reads. *)
dce_function(bs) ==
    LET step(i, s) == IF ~HasSideEffect(i) /\ i.dst \notin s.live THEN s
                      ELSE [live |-> LiveBefore(i, s.live), insts |-> <<i>> \o s.insts]
        swept(k)   == FoldRight(step, bs[k].insts,
                                [live |-> LiveOut(bs, k) \cup TermUses(bs[k].term), insts |-> <<>>]).insts
    IN  [k \in DOMAIN bs |-> [bs[k] EXCEPT !.insts = swept(k)]]

-----------------------------------------------------------------------------
(* The optimiser.                                                          *)

(* The observable outcome of every run.                                    *)
Meaning(bs) ==
    LET regs == ToSet(FlattenSeq([k \in DOMAIN bs |-> DefSeq(bs[k]) \o BlockUses(bs[k])]))
    IN  [e \in Envs |-> Run(bs, e, regs)]

(* What the lowering hands over: every register is written before it is    *)
(* read and Boolean operations have Boolean operands; no run traps or is   *)
(* cut.                                                                    *)
BooleanOperands(bs) ==
    LET facts == build_reg_facts(bs)
    IN  \A i \in ToSet(AllInsts(bs)) :
            i.op \in {"BoolAnd", "BoolOr", "BoolNot"} => \A k \in DOMAIN i.args : is_bool_fact(facts, i.args[k])

Completes(bs) == LET m == Meaning(bs) IN \A e \in Envs : m[e].pc \in {"Return", "Exit", "Trap"}

InitialProgram(bs) == Defined(bs) /\ BooleanOperands(bs) /\ Completes(bs)

Init ==
    /\ blocks \in {bs \in Programs : InitialProgram(bs)}
    /\ meaning = Meaning(blocks)
    /\ at = "local_copy_propagation"
    /\ changed = FALSE
    /\ seen = {blocks}

Pass(name, next, result) ==
    /\ at = name
    /\ at' = next
    /\ blocks' = result
    /\ changed' = (changed \/ result # blocks)
    /\ UNCHANGED <<meaning, seen>>

LocalCopyPropagation == Pass("local_copy_propagation", "copy_elim", local_copy_propagation(blocks))
EliminateCopies      == Pass("copy_elim", "back_copy_coalesce", copy_elim(blocks))
BackCopyCoalesce     == Pass("back_copy_coalesce", "multi_def_zero_fold", back_copy_coalesce(blocks))
MultiDefZeroFold     == Pass("multi_def_zero_fold", "instcombine", multi_def_zero_fold(blocks))
CombineInsts         == Pass("instcombine", "combine_boolean_chains", instcombine(blocks))
CombineChains        == Pass("combine_boolean_chains", "stlf", combine_boolean_chains(blocks))
ForwardStores        == Pass("stlf", "dead_stores", store_to_load_forwarding(blocks))
DropDeadStores       == Pass("dead_stores", "dce", local_dead_mem_store_elim(blocks))
DropDeadCode         == Pass("dce", "again", dce_function(blocks))

(* Another iteration, unless nothing changed or the function is one that   *)
(* an iteration has begun with.                                            *)
Again ==
    /\ at = "again"
    /\ IF changed /\ blocks \notin seen /\ Cardinality(seen) < MAX_OPT_RUN_ITERS
       THEN at' = "local_copy_propagation" /\ seen' = seen \cup {blocks}
       ELSE at' = "unroll_printf_loop" /\ UNCHANGED seen
    /\ changed' = FALSE
    /\ UNCHANGED <<blocks, meaning>>

UnrollPrintLoops  == Pass("unroll_printf_loop", "fuse_mem_inc", unroll_printf_loop(blocks))
FuseIncrements    == Pass("fuse_mem_inc", "drop_initial_stores", fuse_mem_inc(blocks))
DropInitialStores == Pass("drop_initial_stores", "done", drop_initial_stores(blocks, External, Image))

Next ==
    \/ LocalCopyPropagation
    \/ EliminateCopies
    \/ BackCopyCoalesce
    \/ MultiDefZeroFold
    \/ CombineInsts
    \/ CombineChains
    \/ ForwardStores
    \/ DropDeadStores
    \/ DropDeadCode
    \/ Again
    \/ UnrollPrintLoops
    \/ FuseIncrements
    \/ DropInitialStores

Spec == Init /\ [][Next]_vars /\ WF_vars(Next)

-----------------------------------------------------------------------------
(* Whatever the passes have done so far, the function prints, stores and   *)
(* returns on every run what it did before.                                *)
SameMeaning == Meaning(blocks) = meaning

(* No pass leaves a register that some path reads before writing it.       *)
StillDefined == Defined(blocks)

(* The passes do not undo each other: an iteration that changes something  *)
(* reaches a function no iteration has begun with.                         *)
NoCircle == at = "again" /\ changed => blocks \notin seen
=============================================================================
