----------------------------- MODULE CodeLayout -----------------------------
(***************************************************************************)
(* From the blocks of a module's functions to the cycles of the page: the  *)
(* labels of lower8, the passes of opt8 that change control flow, the      *)
(* numbering and linking of src/schedule.rs, the relabelling of            *)
(* src/dirty/randomize.rs and the entry that src/emit/mod.rs picks.        *)
(*                                                                         *)
(* A source program is a sequence of functions, a function a sequence of   *)
(* blocks [ops, term] in which a target is the index of a block of the     *)
(* same function (from 0), a callee the index of a function (from 0); an   *)
(* imported function has no blocks.  Functions and blocks are counted from *)
(* 0 in labels, as in the code, and from 1 as positions of the sequences.  *)
(* How a block is cut into cycles is BlockScheduler's business: here any   *)
(* width of a cycle may be used for a block.                               *)
(***************************************************************************)
EXTENDS ControlFlow

CONSTANTS Programs,       \* the source programs
          PC_STRIDE,      \* labels per function
          MaxPc,          \* u16::MAX
          MAX_OPT_RUN_ITERS,
          Widths,         \* how many ops a block may give each of its cycles
          Shuffles(_),    \* for n cycles, some permutations of 1..n
          Sparse(_),      \* for n cycles, some n distinct labels in 1..MaxPc
          Oracles,
          Fuel            \* blocks a run of the source may take

(* What the stages before ensure of a source program: targets are blocks   *)
(* of the function, callees functions with blocks (a call of an imported   *)
(* one has become an instruction), and the only pc a block stores is the   *)
(* continuation of the call that ends it, which begins with the CsFree of  *)
(* emit_cs_restore.  A tail call has no target yet.                        *)
IsSequence(s) == Len(s) \in Nat /\ s = [k \in 1..Len(s) |-> s[k]]

IsOps(ops) == IsSequence(ops) /\ \A m \in DOMAIN ops : ops[m] = Op(ops[m].op, ops[m].val)
IsTerm(t) ==
    /\ t = [op |-> t.op, targets |-> t.targets, cond |-> t.cond, callee |-> t.callee]
    /\ IsSequence(t.targets) /\ IsSequence(t.callee)
    /\ t.op \in {"Goto", "Branch"} => 1 \in DOMAIN t.targets /\ t.callee = <<>>
    /\ t.op = "Goto" => t.targets = <<t.targets[1]>>

Frees(b) == \E m \in DOMAIN b.ops : b.ops[m].op = "Free"

IsSource(src) ==
    /\ IsSequence(src.funcs) /\ src.entry \in DOMAIN src.funcs /\ src.funcs[src.entry] # <<>>
    /\ \A f \in DOMAIN src.funcs :
          /\ IsSequence(src.funcs[f])
          /\ \A k \in DOMAIN src.funcs[f] :
                LET b == src.funcs[f][k]
                IN  /\ IsOps(b.ops) /\ IsTerm(b.term)
                    /\ Successors(b) \subseteq 0..(Len(src.funcs[f]) - 1)
                    /\ \A c \in ToSet(b.term.callee) :
                          c + 1 \in DOMAIN src.funcs /\ src.funcs[c + 1] # <<>>
                    /\ \A c \in StoredPcs(b) :
                          b.term.op = "Call" /\ b.term.targets = <<c>> /\ Frees(src.funcs[f][c + 1])

ASSUME LayoutAssumption ==
    /\ PC_STRIDE \in Nat \ {0} /\ MaxPc \in Nat /\ MAX_OPT_RUN_ITERS \in Nat \ {0}
    /\ Fuel \in Nat /\ Widths \subseteq Nat \ {0}
    /\ \A n \in 0..MaxPc : Shuffles(n) \cup Sparse(n) \subseteq [1..n -> 0..MaxPc]
ASSUME SourceAssumption == \A src \in Programs : IsSource(src)

VARIABLES source,   \* [funcs, entry]: the program and the index of _start
          phase, blocks, entries,
          pass, changed, rounds, seen,      \* opt8::run
          laid,                             \* the blocks schedule() has numbered
          cycles, start                     \* the page

optVars == <<pass, changed, rounds, seen>>
vars == <<source, phase, blocks, entries, pass, changed, rounds, seen, laid, cycles, start>>

Funcs == DOMAIN source.funcs

-----------------------------------------------------------------------------
(* Slip: stored return addresses keep their old pc. *)
RenamedOps_NotStored(ops, map) == ops

(* rewrite_inst_pcs and rewrite_term_pcs: map is a function on ids.        *)
RenamedOps(ops, map) ==
    [m \in DOMAIN ops |-> IF ops[m].op = "StorePc" THEN Op("StorePc", <<map[ops[m].val[1]]>>)
                                                   ELSE ops[m]]

(* The elements of s in the order of the ranks their positions are given.  *)
Ranked(s, rank) ==
    [n \in 1..Cardinality(DOMAIN rank) |-> s[CHOOSE k \in DOMAIN rank : rank[k] = n]]
(* Those at the positions D, in their order.                               *)
Kept(s, D) == Ranked(s, [k \in D |-> Cardinality({j \in D : j <= k})])

RenamedTerm(t, map) ==
    [t EXCEPT !.targets = [m \in DOMAIN @ |-> map[@[m]]],
              !.callee  = [m \in DOMAIN @ |-> map[@[m]]]]

-----------------------------------------------------------------------------
(* Lowering. *)

LabelAt(stride, f, k) == (f - 1) * stride + k
Label(f, k) == LabelAt(PC_STRIDE, f, k)

Slots == (MaxPc \div PC_STRIDE) + 1

(* Block k of function f with that many labels per function.  A tail call  *)
(* names the callee's entry as its continuation too.                       *)
Lowered(stride, f, k) ==
    LET b        == source.funcs[f][k]
        own      == [m \in 0..(Len(source.funcs[f]) - 1) |-> LabelAt(stride, f, m)]
        callee   == [m \in DOMAIN b.term.callee |-> LabelAt(stride, b.term.callee[m] + 1, 0)]
        tailCall == b.term.op = "Call" /\ b.term.targets = <<>>
    IN  [id   |-> own[k - 1],
         ops  |-> RenamedOps(b.ops, own),
         term |-> [RenamedTerm([b.term EXCEPT !.callee = <<>>], own) EXCEPT
                     !.callee  = callee,
                     !.targets = IF tailCall THEN callee ELSE @]]

(* alloc_block asserts that the label fits 16 bits, and no more. *)
LabelsFit ==
    /\ Len(source.funcs) <= Slots
    /\ \A f \in Funcs : \A k \in DOMAIN source.funcs[f] : Label(f, k - 1) <= MaxPc

Init ==
    /\ source \in Programs
    /\ phase = "lower"
    /\ blocks = <<>> /\ entries = <<>>
    /\ pass = 0 /\ changed = FALSE /\ rounds = 0 /\ seen = {}
    /\ laid = <<>> /\ cycles = <<>> /\ start = 0

Lower ==
    /\ phase = "lower" /\ LabelsFit
    /\ blocks' = [f \in Funcs |-> [k \in DOMAIN source.funcs[f] |-> Lowered(PC_STRIDE, f, k)]]
    /\ entries' = [f \in Funcs |-> IF source.funcs[f] = <<>> THEN 0 ELSE Label(f, 0)]
    /\ phase' = "opt"
    /\ UNCHANGED <<source, optVars, laid, cycles, start>>

LowerRefused ==
    /\ phase = "lower" /\ ~LabelsFit
    /\ phase' = "refused"
    /\ UNCHANGED <<source, blocks, entries, optVars, laid, cycles, start>>

-----------------------------------------------------------------------------
(* The passes of opt8::run, each on the blocks of one function.            *)

Index(bs, i) == {k \in DOMAIN bs : bs[k].id = i}

(* Slip: of the targets of a terminator only the first counts. *)
PredCount_First(bs, i) ==
    Cardinality({k \in DOMAIN bs : bs[k].term.targets # <<>> /\ bs[k].term.targets[1] = i})

(* How many edges of terminators lead to block i. *)
PredCount(bs, i) ==
    LET edges(k) == {m \in DOMAIN bs[k].term.targets : bs[k].term.targets[m] = i}
    IN  Cardinality(UNION {{k} \X edges(k) : k \in DOMAIN bs})

(* instsimplify: a branch on a constant, or to one place, is a jump. *)
SimplifyTerm(t) ==
    IF t.op = "Branch" /\ (t.cond = 0 \/ \A m \in DOMAIN t.targets : t.targets[m] = t.targets[1])
    THEN Goto(t.targets[1]) ELSE t

SimplifyTerms(bs, entry) == [k \in DOMAIN bs |-> [bs[k] EXCEPT !.term = SimplifyTerm(@)]]

(* predicate_branch_putchar: arm a of block i only prints and joins the    *)
(* other arm, and nothing else leads to it.                                *)
PutArm(bs, i, a) ==
    LET t == bs[i].term
    IN  /\ t.op = "Branch" /\ Len(t.targets) = 2
        /\ PredCount(bs, t.targets[a]) = 1
        /\ \A k \in DOMAIN bs : t.targets[a] \notin StoredPcs(bs[k])
        /\ \E j \in Index(bs, t.targets[a]) \ {i} :
              /\ bs[j].term = Goto(t.targets[3 - a])
              /\ Len(bs[j].ops) = 1 /\ bs[j].ops[1].op = "Put"

(* Slip: the condition is not negated for the second arm. *)
HoistPut_NotNegated(bs, i, a) ==
    LET t   == bs[i].term
        arm == bs[Max(Index(bs, t.targets[a]))]
    IN  [bs EXCEPT ![i].ops  = Append(@, Op("PutIf", <<arm.ops[1].val[1], t.cond, 1>>)),
                   ![i].term = Goto(t.targets[3 - a])]

HoistPut(bs, i, a) ==
    LET t   == bs[i].term
        arm == bs[Max(Index(bs, t.targets[a]))]
    IN  [bs EXCEPT ![i].ops  = Append(@, Op("PutIf", <<arm.ops[1].val[1], t.cond, a>>)),
                   ![i].term = Goto(t.targets[3 - a])]

PredicateOnce(bs) ==
    LET at == {i \in DOMAIN bs : \E a \in 1..2 : PutArm(bs, i, a)}
    IN  IF at = {} THEN bs
        ELSE LET i == Min(at)
             IN  HoistPut(bs, i, Min({a \in 1..2 : PutArm(bs, i, a)}))

(* Once per block at most, since each time a branch becomes a jump.        *)
PredicatePutchars(bs, entry) ==
    LET after[n \in 0..Len(bs)] == IF n = 0 THEN bs ELSE PredicateOnce(after[n - 1])
    IN  after[Len(bs)]

(* Slip: a block that only frees its frame counts as empty. *)
IsForwarder_Frees(b, entry) ==
    /\ \A m \in DOMAIN b.ops : b.ops[m].op = "Free"
    /\ b.term.op = "Goto" /\ b.id # entry /\ b.id # b.term.targets[1]

(* thread_empty_gotos: where a jump to id ends up, a cycle of empty blocks *)
(* ending at the block it meets twice.                                     *)
IsForwarder(b, entry) ==
    b.ops = <<>> /\ b.term.op = "Goto" /\ b.id # entry /\ b.id # b.term.targets[1]

(* Slip: one hop only. *)
Resolve_OneHop(bs, entry, id) ==
    LET next == {k \in Index(bs, id) : IsForwarder(bs[k], entry)}
    IN  IF next = {} THEN id ELSE bs[Max(next)].term.targets[1]

Resolve(bs, entry, id) ==
    LET step(r) ==
            LET next == {k \in Index(bs, r.at) : IsForwarder(bs[k], entry)}
            IN  IF next = {} \/ r.at \in r.met THEN r
                ELSE [at |-> bs[Max(next)].term.targets[1], met |-> r.met \cup {r.at}]
        hop[n \in 0..Len(bs)] == IF n = 0 THEN [at |-> id, met |-> {}] ELSE step(hop[n - 1])
    IN  hop[Len(bs)].at

ThreadGotos(bs, entry) ==
    [k \in DOMAIN bs |->
        [bs[k] EXCEPT !.term.targets = [m \in DOMAIN @ |-> Resolve(bs, entry, @[m])],
                      !.term.callee  = [m \in DOMAIN @ |-> Resolve(bs, entry, @[m])]]]

(* dead_code_elim. *)
DropDead(bs, entry) ==
    [k \in DOMAIN bs |-> [bs[k] EXCEPT !.ops = Kept(@, {m \in DOMAIN @ : @[m].op # "Dead"})]]

(* remove_unreachable_blocks. *)
Reachable(bs, entry) ==
    LET reached[n \in 0..Len(bs)] ==
            IF n = 0 THEN {entry}
            ELSE LET old == reached[n - 1]
                 IN  old \cup UNION {Successors(bs[k]) : k \in {k \in DOMAIN bs : bs[k].id \in old}}
    IN  reached[Len(bs)]

DropUnreachable(bs, entry) ==
    IF Index(bs, entry) = {} THEN bs
    ELSE LET R == Reachable(bs, entry) IN Kept(bs, {k \in DOMAIN bs : bs[k].id \in R})

(* coalesce_linear_blocks: a jump to a block that nothing else jumps to. *)
MergesAt(bs, entry, i) ==
    /\ bs[i].term.op = "Goto"
    /\ LET to == bs[i].term.targets[1]
       IN  to # entry /\ PredCount(bs, to) = 1 /\ Index(bs, to) \ {i} # {}

CoalesceOnce(bs, entry) ==
    LET at == {i \in DOMAIN bs : MergesAt(bs, entry, i)}
    IN  IF at = {} THEN bs
        ELSE LET i == Min(at)
                 j == Max(Index(bs, bs[i].term.targets[1]))
             IN  RemoveAt([bs EXCEPT ![i].ops = @ \o bs[j].ops, ![i].term = bs[j].term], j)

Coalesce(bs, entry) ==
    LET after[n \in 0..Len(bs)] == IF n = 0 THEN bs ELSE CoalesceOnce(after[n - 1], entry)
    IN  after[Len(bs)]

-----------------------------------------------------------------------------
(* opt8::run. *)

PASSES == 6

BeginRound ==
    /\ phase = "opt" /\ pass = 0
    /\ IF rounds < MAX_OPT_RUN_ITERS /\ blocks \notin seen
       THEN /\ seen' = seen \cup {blocks} /\ rounds' = rounds + 1
            /\ pass' = 1 /\ changed' = FALSE
            /\ UNCHANGED phase
       ELSE phase' = "layout" /\ UNCHANGED optVars
    /\ UNCHANGED <<source, blocks, entries, laid, cycles, start>>

Pass(n, new) ==
    /\ phase = "opt" /\ pass = n
    /\ blocks' = new
    /\ changed' = (changed \/ new # blocks)
    /\ pass' = n + 1
    /\ UNCHANGED <<source, phase, entries, rounds, seen, laid, cycles, start>>

EndRound ==
    /\ phase = "opt" /\ pass = PASSES + 1
    /\ IF changed THEN pass' = 0 /\ UNCHANGED phase
                  ELSE phase' = "layout" /\ UNCHANGED pass
    /\ UNCHANGED <<source, blocks, entries, changed, rounds, seen, laid, cycles, start>>

Optimise ==
    \/ BeginRound
    \/ Pass(1, [f \in DOMAIN blocks |-> SimplifyTerms(blocks[f], entries[f])])
    \/ Pass(2, [f \in DOMAIN blocks |-> PredicatePutchars(blocks[f], entries[f])])
    \/ Pass(3, [f \in DOMAIN blocks |-> ThreadGotos(blocks[f], entries[f])])
    \/ Pass(4, [f \in DOMAIN blocks |-> DropDead(blocks[f], entries[f])])
    \/ Pass(5, [f \in DOMAIN blocks |-> DropUnreachable(blocks[f], entries[f])])
    \/ Pass(6, [f \in DOMAIN blocks |-> Coalesce(blocks[f], entries[f])])
    \/ EndRound

-----------------------------------------------------------------------------
(* schedule(): cutting, numbering and linking.                             *)

Cut(ops, w) ==
    IF ops = <<>> THEN << <<>> >>
    ELSE [g \in 1..((Len(ops) + w - 1) \div w) |->
             SubSeq(ops, (g - 1) * w + 1, Min({g * w, Len(ops)}))]

Order == FlattenSeq([f \in DOMAIN blocks |->
             [k \in DOMAIN blocks[f] |-> [fn |-> f, block |-> blocks[f][k]]]])

Used(f) ==
    LET used[n \in 0..Len(laid)] ==
            IF n = 0 THEN 0
            ELSE used[n - 1] + (IF laid[n].fn = f THEN Len(laid[n].cut) ELSE 0)
    IN  used[Len(laid)]

(* Slip: functions counted from one. *)
CyclePc_FromOne(f, n) == f * PC_STRIDE + n

(* u16 arithmetic: a release build wraps. *)
CyclePc(f, n) == Label(f, n) % (MaxPc + 1)

LayBlock ==
    /\ phase = "layout" /\ Len(laid) < Len(Order)
    /\ \E w \in Widths :
          LET next == Order[Len(laid) + 1]
              cut  == Cut(next.block.ops, w)
          IN  IF Used(next.fn) + Len(cut) > PC_STRIDE
              THEN phase' = "refused" /\ UNCHANGED laid
              ELSE /\ laid' = Append(laid, [fn |-> next.fn, block |-> next.block, cut |-> cut,
                                 pcs |-> [g \in DOMAIN cut |-> CyclePc(next.fn, Used(next.fn) + g - 1)]])
                   /\ UNCHANGED phase
    /\ UNCHANGED <<source, blocks, entries, optVars, cycles, start>>

(* first_pc_map: one map for all functions, the last block of a label wins. *)
Labels == {laid[n].block.id : n \in DOMAIN laid}

FirstPcMap ==
    [id \in Labels |-> laid[Max({n \in DOMAIN laid : laid[n].block.id = id})].pcs[1]]

Linkable == \A n \in DOMAIN laid : Named(laid[n].block) \subseteq Labels

Linked(l) ==
    [g \in DOMAIN l.cut |->
        [id   |-> l.pcs[g],
         ops  |-> RenamedOps(l.cut[g], FirstPcMap),
         term |-> IF g < Len(l.cut) THEN Goto(l.pcs[g + 1])
                                    ELSE RenamedTerm(l.block.term, FirstPcMap)]]

Remapped(map) == [f \in DOMAIN entries |-> IF entries[f] \in DOMAIN map THEN map[entries[f]]
                                                                        ELSE entries[f]]

Link ==
    /\ phase = "layout" /\ Len(laid) = Len(Order)
    /\ IF Linkable
       THEN /\ phase' = "linked"
            /\ cycles' = FlattenSeq([n \in DOMAIN laid |-> Linked(laid[n])])
            /\ entries' = Remapped(FirstPcMap)
       ELSE phase' = "refused" /\ UNCHANGED <<cycles, entries>>
    /\ UNCHANGED <<source, blocks, optVars, laid, start>>

-----------------------------------------------------------------------------
(* randomize_pcs and sparsify_pcs: cycle k of the page becomes labels[k],  *)
(* and the cycles are sorted by their labels.  With more cycles than there *)
(* are labels both fail.                                                   *)
UpTo(cs, k) ==
    {j \in DOMAIN cs : cs[j].id < cs[k].id \/ (cs[j].id = cs[k].id /\ j <= k)}
ByPc(cs) == Ranked(cs, [k \in DOMAIN cs |-> Cardinality(UpTo(cs, k))])

Relabel(labels) ==
    LET remap == [pc \in {cycles[k].id : k \in DOMAIN cycles} |->
                     labels[Max({k \in DOMAIN cycles : cycles[k].id = pc})]]
    IN  /\ Len(cycles) <= MaxPc
        /\ cycles' = ByPc([k \in DOMAIN cycles |->
                              [id   |-> remap[cycles[k].id],
                               ops  |-> RenamedOps(cycles[k].ops, remap),
                               term |-> RenamedTerm(cycles[k].term, remap)]])
        /\ entries' = Remapped(remap)
        /\ UNCHANGED <<source, blocks, optVars, laid, start>>

RandomizePcs ==
    /\ phase = "linked"
    /\ \E labels \in Shuffles(Len(cycles)) : Relabel(labels)
    /\ phase' = "randomized"

SparsifyPcs ==
    /\ phase \in {"linked", "randomized"}
    /\ \E labels \in Sparse(Len(cycles)) : Relabel(labels)
    /\ phase' = "sparse"

-----------------------------------------------------------------------------
(* Emitter::new: an entry that nothing returns to and that only writes     *)
(* initial values before it jumps is left out.                             *)

Entry == entries[source.entry]

EntryRunsOnce == \A k \in DOMAIN cycles : Entry \notin Named(cycles[k])

TrivialEntry(c) == c.term.op = "Goto" /\ \A m \in DOMAIN c.ops : c.ops[m].op = "Zero"

EntryCycle == cycles[Min({k \in DOMAIN cycles : cycles[k].id = Entry})]

Emit ==
    /\ phase \in {"linked", "randomized", "sparse"}
    /\ phase' = "page"
    /\ IF EntryRunsOnce /\ TrivialEntry(EntryCycle)
       THEN /\ start' = EntryCycle.term.targets[1]
            /\ cycles' = Kept(cycles, {k \in DOMAIN cycles : cycles[k].id # Entry})
       ELSE start' = Entry /\ UNCHANGED cycles
    /\ UNCHANGED <<source, blocks, entries, optVars, laid>>

Next ==
    \/ Lower \/ LowerRefused
    \/ Optimise
    \/ LayBlock \/ Link
    \/ RandomizePcs \/ SparsifyPcs
    \/ Emit

Spec == Init /\ [][Next]_vars

-----------------------------------------------------------------------------
(* Properties.                                                             *)

Phases == {"lower", "opt", "layout", "linked", "randomized", "sparse", "page", "refused"}

(* Every pc on the page is a u16, and so is every label before it.         *)
TypeOK ==
    /\ phase \in Phases /\ pass \in 0..(PASSES + 1) /\ changed \in BOOLEAN
    /\ rounds \in 0..MAX_OPT_RUN_ITERS
    /\ \A f \in DOMAIN blocks : \A k \in DOMAIN blocks[f] :
          blocks[f][k].id \in 0..MaxPc /\ Named(blocks[f][k]) \subseteq 0..MaxPc
    /\ \A k \in DOMAIN cycles : cycles[k].id \in 0..MaxPc
    /\ start \in 0..MaxPc

Paged == phase \in {"linked", "randomized", "sparse", "page"}

(* Whatever the labels went through, every jump, call, stored return       *)
(* address and the entry lead to a cycle of the page.                      *)
TargetsExist ==
    Paged => LET ids == {cycles[k].id : k \in DOMAIN cycles}
             IN  /\ \A k \in DOMAIN cycles : Named(cycles[k]) \subseteq ids
                 /\ IF phase = "page" THEN start \in ids ELSE Entry \in ids

(* No pass takes away a block that something still names: whatever the     *)
(* passes did, and in between, every jump, call, continuation and stored   *)
(* return address is the label of a block that is there to be scheduled.   *)
NothingDangles ==
    phase \in {"opt", "layout"} =>
        LET ids == UNION {{blocks[f][k].id : k \in DOMAIN blocks[f]} : f \in Funcs}
        IN  \A f \in Funcs : \A k \in DOMAIN blocks[f] : Named(blocks[f][k]) \subseteq ids

(* A return goes to the continuation its call names: the pc a call stores  *)
(* (which opt8 does not rewrite) is the target of that call (which it      *)
(* does), and the two stay in one block.                                   *)
StoredIsContinuation ==
    \A f \in DOMAIN blocks : \A k \in DOMAIN blocks[f] :
       LET b == blocks[f][k]
       IN  StoredPcs(b) # {} => b.term.op = "Call" /\ StoredPcs(b) = Successors(b)

(* opt8::run stops because nothing changes any more, not because it met a  *)
(* state again or ran out of rounds: no pass has anything left to do.      *)
Settled(bs, entry) ==
    /\ SimplifyTerms(bs, entry) = bs /\ PredicatePutchars(bs, entry) = bs
    /\ ThreadGotos(bs, entry) = bs   /\ DropDead(bs, entry) = bs
    /\ DropUnreachable(bs, entry) = bs /\ Coalesce(bs, entry) = bs

OptSettles == phase = "layout" => \A f \in DOMAIN blocks : Settled(blocks[f], entries[f])

(* The source as one set of blocks whose labels cannot collide, and the    *)
(* page as another: for every outcome of the conditions the page prints    *)
(* what the source prints and ends as it ends.                             *)
Apart == Fuel + 1
SourceCode == UNION {{Lowered(Apart, f, k) : k \in DOMAIN source.funcs[f]} : f \in Funcs}

SameTrace ==
    phase = "page" =>
       \A oracle \in Oracles :
          Follows(Run(ToSet(cycles), start, oracle, 4 * Fuel),
                  Run(SourceCode, LabelAt(Apart, source.entry, 0), oracle, Fuel))
=============================================================================
