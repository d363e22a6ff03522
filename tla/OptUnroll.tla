------------------------------ MODULE OptUnroll ------------------------------
(***************************************************************************)
(* The unrolling of printing loops (unroll_printf_loop, src/opt8/mod.rs).  *)
(* A block that loads a byte through a counter, prints it, adds one to the *)
(* counter and branches back to itself comes to load four bytes a turn;    *)
(* the second to fourth are printed under conditions that say whether the  *)
(* loop would still have been running.                                     *)
(***************************************************************************)
EXTENDS OptFacts

CONSTANT MAX_UNROLLS_PER_FUNC       \* 8

Indices(insts, ops) == {k \in DOMAIN insts : insts[k].op \in ops}
Prints == {"Putchar", "PutcharIf"}

(* What a register is taken to be computed by: the last of the block's     *)
(* instructions that write it.                                             *)
LastDefs(insts) ==
    <<>> @@ [r \in {insts[k].dst : k \in DOMAIN insts} |->
                insts[Max({k \in DOMAIN insts : insts[k].dst = r})]]

-----------------------------------------------------------------------------
(* The end of a loop that runs while counter < end, or <<>>.               *)

(* Comparisons of the counter with a word.  A signed comparison orders     *)
(* like an unsigned one below a constant that is not negative.             *)
EndWords(insts, counter) ==
    {k \in Indices(insts, {"CmpLtU", "CmpLtS"}) :
        /\ Lhs(insts[k].args) = counter
        /\ insts[k].op = "CmpLtU" \/ (IsImm(insts[k].args[8]) /\ ImmValue(insts[k].args[8]) < MSB)}

(* Comparisons of one byte of it; the last is taken, none means zero. *)
EndByte(insts, counter, lane) ==
    LET found == {k \in Indices(insts, {"LtU"}) : /\ insts[k].args[1] = counter[lane]
                                                  /\ insts[k].args[2] \notin ToSet(counter)}
    IN  IF found = {} THEN NoDst ELSE insts[Max(found)].args[2]

EndOf(words, bytes, insts) ==
    CASE words # {}        -> Rhs(insts[Min(words)].args)
      [] bytes[1] = NoDst  -> <<>>
      [] OTHER             -> [lane \in 1..4 |-> IF bytes[lane] = NoDst THEN Imm(0) ELSE bytes[lane]]

(* Registers that enter into those of regs, in any number of steps. *)
RECURSIVE Sources(_, _)
Sources(defs, regs) ==
    LET more == regs \cup UNION {InstUses(defs[r]) : r \in regs \cap DOMAIN defs}
    IN  IF more = regs THEN regs ELSE Sources(defs, more)

RestsOnBound(defs, cond, counter) ==
    \E r \in Sources(defs, {cond}) \cap DOMAIN defs :
        defs[r].op \in {"CmpLtU", "CmpLtS", "LtU"} /\ defs[r].args[1] \in ToSet(counter)

detect_bounded_loop(insts, cond, counter) ==
    IF RestsOnBound(LastDefs(insts), cond, counter)
    THEN EndOf(EndWords(insts, counter), [lane \in 1..4 |-> EndByte(insts, counter, lane)], insts)
    ELSE <<>>

-----------------------------------------------------------------------------
(* The loops that are unrolled.  s: where the block loads, prints and adds *)
(* one (PrintLoopShape), as far as it is known.                            *)

(* Whether a register may hold a loaded byte: a copy counts wherever it is. *)
HoldsLoaded(insts, loaded, r) ==
    r \in loaded \/ \E k \in Indices(insts, {"Copy"}) : insts[k].args[1] \in loaded /\ insts[k].dst = r

(* The block loads one address, prints what it loads, adds one to a word   *)
(* in four lanes, and has no other effect.                                 *)
Plausible(insts, s) ==
    /\ \A k \in DOMAIN insts : HasSideEffect(insts[k]) => k \in s.puts
    /\ s.loads # {}
    /\ \A j, k \in s.loads : insts[k].lane = 0 /\ insts[k].base = insts[j].base /\ insts[k].args = insts[j].args
    /\ \E k \in s.puts : HoldsLoaded(insts, {insts[j].dst : j \in s.loads}, insts[k].args[1])
    /\ Cardinality(s.adds) = 4
    /\ \A j, k \in s.adds : Lhs(insts[j].args) = Lhs(insts[k].args)
    /\ {insts[k].lane : k \in s.adds} = 0..3

(* The address has the counter in it: a byte of it, or what is computed    *)
(* from one in a single step.                                              *)
DependsOnCounter(defs, addr, counter) ==
    \E r \in addr : r \in counter \/ (r \in DOMAIN defs /\ InstUses(defs[r]) \cap counter # {})

(* The instructions that depend on a loaded byte and are not rewritten     *)
(* themselves: they are repeated for every slot.                           *)
Dependents(insts, s) ==
    FoldLeft(LAMBDA d, k :
                IF k \in s.loads \cup s.puts \cup s.adds \/ InstUses(insts[k]) \cap d.regs = {} THEN d
                ELSE [regs |-> d.regs \cup ({insts[k].dst} \ {NoDst}), idxs |-> Append(d.idxs, k)],
             [regs |-> {insts[k].dst : k \in s.loads}, idxs |-> <<>>], [k \in DOMAIN insts |-> k]).idxs

(* The loop ends where its string ends: its condition is that the loaded   *)
(* byte is not zero.                                                       *)
IsNulTest(insts, s, cond) ==
    \E k \in Indices(insts, {"Ne"}) :
        /\ insts[k].dst = cond
        /\ insts[k].args[2] = Imm(0)
        /\ HoldsLoaded(insts, {insts[j].dst : j \in s.loads}, insts[k].args[1])

(* A print before the load shows the byte that the turn before has left in *)
(* its register, by a copy.                                                *)
Updates(insts, s) ==
    {k \in Indices(insts, {"Copy"}) : /\ insts[k].args[1] = insts[Min(s.loads)].dst
                                      /\ insts[k].dst = insts[Min(s.puts)].args[1]}
PutBeforeLoad(s) == Min(s.puts) < Min(s.loads)

(* That copy is the one print's, and lies between the load and the sums. *)
CarriesOver(insts, s, updates) ==
    /\ Cardinality(s.puts) = 1
    /\ \A k \in s.puts : insts[k].op = "Putchar"
    /\ updates # {}
    /\ Min(updates) > Min(s.loads)
    /\ \A k \in s.adds : insts[k].lane = 0 => Min(updates) < k

Rewritable(b, s, counter) ==
    /\ DependsOnCounter(LastDefs(b.insts), ToSet(b.insts[Min(s.loads)].args), ToSet(counter))
    /\ s.end # <<>> \/ IsNulTest(b.insts, s, b.term.args[1])
    /\ PutBeforeLoad(s) => s.end = <<>> /\ CarriesOver(b.insts, s, Updates(b.insts, s))

(* The shape with what follows from the counter, or nothing. *)
WithCounter(b, s, counter) ==
    LET shape == [loads |-> s.loads, puts |-> s.puts, adds |-> s.adds, counter |-> counter,
                  end |-> detect_bounded_loop(b.insts, b.term.args[1], counter)]
    IN  {x \in {shape} : Rewritable(b, x, counter)}

Parts(insts) ==
    [loads |-> Indices(insts, {"Load"}), puts |-> Indices(insts, Prints),
     adds |-> {k \in Indices(insts, {"Add32"}) : Rhs(insts[k].args) = WordOf(1)}]

(* The shape of a loop that can be unrolled, in a set of its own. *)
analyze_print_loop(b) ==
    UNION {WithCounter(b, s, Lhs(b.insts[Min(s.adds)].args)) :
              s \in {s \in {Parts(b.insts)} : b.term.op = "Branch" /\ b.term.to[1] = b.id /\ Plausible(b.insts, s)}}

-----------------------------------------------------------------------------
(* The unrolled loop.  Slots 0 to 3 stand for four turns.                  *)

(* Fresh registers of a function whose registers are below n. *)
SlotByte(n, slot)  == n + slot
Alive(n, slot)     == n + 4 + slot
Scratch(n, k)      == n + 8 + k
Gate(n, slot, k)   == n + 40 + 4 * k + slot
Clone(n, slot, k)  == n + 200 + 4 * k + slot

mk_and(dst, vals) == make_bool_kind(Inst("BoolAnd", dst, <<>>), "BoolAnd", vals)

(* Which slots are printed in a loop over a string: those whose bytes, and *)
(* all before, are not zero.                                               *)
emit_alive_null_term(n, bytes, nonzero) ==
    [k \in 1..4 |-> Inst("Ne", nonzero[k], <<bytes[k], Imm(0)>>)]
    \o [s \in 1..3 |-> mk_and(Alive(n, s), SubSeq(nonzero, 1, s + 1))]

(* In a loop with a bound: those for which the distance to the end, a      *)
(* number of two bytes, is large enough.                                   *)
emit_alive_slot(n, slot) ==
    <<Inst("LtU", Scratch(n, 2 * slot + 1), <<Scratch(n, 0), Imm(slot + 1)>>),
      Inst("Eq", Scratch(n, 2 * slot + 2), <<Scratch(n, 2 * slot + 1), Imm(0)>>),
      Inst("BoolOr", Alive(n, slot), <<Scratch(n, 2), Scratch(n, 2 * slot + 2)>>)>>
emit_alive_bounded(n, counter, end) ==
    <<Lane("Sub32", Scratch(n, 0), end, counter, 0), Lane("Sub32", Scratch(n, 1), end, counter, 1),
      Inst("Ne", Scratch(n, 2), <<Scratch(n, 1), Imm(0)>>)>>
    \o FlattenSeq([slot \in 1..3 |-> emit_alive_slot(n, slot)])
    \o <<Inst("Copy", Alive(n, 0), <<Imm(1)>>)>>

(* What is repeated for a slot, and the names its values have there; slot  *)
(* 0 keeps the instructions of the loop.                                   *)
Slot(insts, deps, n, slot, names) ==
    FoldLeft(LAMBDA s, k :
                [insts |-> Append(s.insts, [rewrite_inst(insts[deps[k]], s.names) EXCEPT !.dst = Clone(n, slot, k)]),
                 names |-> (insts[deps[k]].dst :> Clone(n, slot, k)) @@ s.names],
             [insts |-> <<>>, names |-> names], [k \in 1..(IF slot = 0 THEN 0 ELSE Len(deps)) |-> k])

(* A print of a slot: as it is in slot 0, else if the slot is alive. *)
PrintIn(i, n, slot, k, names) ==
    CASE slot = 0           -> <<[i EXCEPT !.args[1] = resolve(names, @)]>>
      [] i.op = "Putchar"   -> <<Inst("PutcharIf", NoDst, <<resolve(names, i.args[1]), Alive(n, slot)>>)>>
      [] i.op = "PutcharIf" -> <<mk_and(Gate(n, slot, k), <<Alive(n, slot), resolve(names, i.args[2])>>),
                                 Inst("PutcharIf", NoDst, <<resolve(names, i.args[1]), Gate(n, slot, k)>>)>>
PrintSlot(insts, puts, n, slot, s) ==
    s.insts \o FlattenSeq([k \in DOMAIN puts |-> PrintIn(insts[puts[k]], n, slot, k, s.names)])

emit_putchar_group(insts, s, n, deps, bytes) ==
    FlattenSeq([j \in 1..4 |->
        PrintSlot(insts, SelectSeq([k \in DOMAIN insts |-> k], LAMBDA k : k \in s.puts), n, j - 1,
                  Slot(insts, deps, n, j - 1, <<>> @@ [r \in {insts[k].dst : k \in s.loads} |-> bytes[j]]))])

(* What the load becomes: four loads, what is alive, and the prints of a   *)
(* loop that prints before it loads, but for the last.                     *)
emit_loads(load, s, n, bytes) ==
    [k \in 1..4 |-> [load EXCEPT !.dst = bytes[k], !.base = @ + k - 1]]
    \o (IF s.end = <<>> THEN emit_alive_null_term(n, bytes, <<Alive(n, 0), Scratch(n, 2), Scratch(n, 3), Scratch(n, 4)>>)
                        ELSE emit_alive_bounded(n, s.counter, s.end))
    \o (IF PutBeforeLoad(s)
        THEN [k \in 1..3 |-> Inst("PutcharIf", NoDst, <<bytes[k], Alive(n, k - 1)>>)] ELSE <<>>)

(* What the k-th instruction becomes. *)
Rewritten(insts, s, n, k, bytes, update) ==
    CASE k = Min(s.loads)     -> emit_loads(insts[k], s, n, bytes)
      [] k = update           -> <<[insts[k] EXCEPT !.args = <<bytes[4]>>]>>
      [] k = Min(s.puts)      -> IF PutBeforeLoad(s) THEN <<insts[k]>>
                                 ELSE emit_putchar_group(insts, s, n, Dependents(insts, s), bytes)
      [] k \in s.adds         -> <<Lane("Add32", insts[k].dst, s.counter, WordOf(4), insts[k].lane)>>
      [] k \in (s.loads \cup s.puts) \ {Min(s.loads), Min(s.puts)} -> <<>>
      [] OTHER                -> <<insts[k]>>

RewriteFrom(b, s, n, bytes) ==
    LET update == IF PutBeforeLoad(s) THEN Min(Updates(b.insts, s)) ELSE 0
    IN  FlattenSeq([k \in DOMAIN b.insts |-> Rewritten(b.insts, s, n, k, bytes, update)])

(* A loop over a string goes on only if all its four bytes are not zero. *)
rewrite_print_loop(b, s, n) ==
    LET insts == RewriteFrom(b, s, n, <<b.insts[Min(s.loads)].dst, SlotByte(n, 1), SlotByte(n, 2), SlotByte(n, 3)>>)
    IN  IF s.end # <<>> THEN [b EXCEPT !.insts = insts]
        ELSE [b EXCEPT !.insts = Append(insts, mk_and(Scratch(n, 9), <<b.term.args[1], Alive(n, 3)>>)),
                       !.term.args = <<Scratch(n, 9)>>]

(* Fresh registers begin above all that the function has. *)
NextVreg(blocks) ==
    Max(UNION {ToSet(DefSeq(blocks[k]) \o BlockUses(blocks[k])) : k \in DOMAIN blocks} \cup {VREG_START - 1}) + 1

(* The first loops of a function, as many as the limit allows. *)
unroll_printf_loop(blocks) ==
    FoldLeft(LAMBDA acc, k :
                LET shape == analyze_print_loop(blocks[k])
                IN  IF shape = {} \/ acc.count >= MAX_UNROLLS_PER_FUNC THEN acc
                    ELSE [count  |-> acc.count + 1,
                          blocks |-> [acc.blocks EXCEPT ![k] =
                                        rewrite_print_loop(@, CHOOSE s \in shape : TRUE, NextVreg(acc.blocks))]],
             [count |-> 0, blocks |-> blocks], [k \in DOMAIN blocks |-> k]).blocks
=============================================================================
