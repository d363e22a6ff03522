# A TLA+ model of wss

wss compiles a WebAssembly module into an HTML page whose CSS alone executes the
program: registers, memory cells and call stack slots are custom properties, and
one animation period of the page is one *cycle* of a machine whose program
counter selects the declarations that apply. This directory holds TLA+ modules
for the parts of the compiler, and of the machine it generates, whose
correctness is a matter of state and order; TLC configurations that check them
on small instances; and TLAPS proofs for every value of the constants. Paths
below are relative to the repository's `src/`.

## 1. Inventory

The pipeline of `main.rs`: decode, validate, parse, `lower_module`,
`lower8_module`, `opt8::run`, `regalloc`, `schedule`, optional relabelling,
`emit_program`, minification. Everything is sequential; what is hard is that
each stage replaces a program by another one that must mean the same, and that
the machine which finally runs has unusual rules (one static register bank per
function, writes that show only a cycle later, a cycle repeated while it waits
for a key).

| Part | State it keeps | Operations | What makes it correct |
|---|---|---|---|
| `module/`, `validate/`, `parse/` | operand stack, control frames | one per WebAssembly operator | the tree means what the operators mean |
| `lower.rs` (`ir.rs`) | current block, label stack, handlers | one per tree node, `remove_empty_blocks`, `remove_dead_blocks`, `maybe_fuse_tail_call` | the graph runs what structured control prescribes; exceptions reach the nearest handler with tag and payload |
| `lower8/` | register counter, block labels, word map | one per IR instruction, `emit_cs_save`, `emit_cs_restore`, calls, tail calls, `call_indirect` dispatch | words survive calls; arithmetic by bytes is arithmetic mod 2^32 and 2^64 |
| `opt8/` | the program, seen signatures | thirteen passes to a fixpoint, then `unroll_printf_loop`, `fuse_mem_inc`, `drop_initial_stores` | each pass preserves meaning; the loop stops |
| `regalloc.rs` | intervals, active list, free pool, banks | liveness, `build_intervals`, `linear_scan`, `map_vreg`, `compact_physical_vregs` | words needed together sit in different registers |
| `schedule.rs` | dependence counts, ready list, pending cycle, pc map | `schedule_block_ops`, pc assignment, target rewriting | cycles compute what the block computes; every target is renamed |
| `dirty/randomize.rs` | label map | `apply_pc_relabel` | every label is renamed, stored return addresses too |
| `emit/` | slots per column, stack size, usage scan | one arm per op, `emit_terminator`, `static_callstack_depth`, merging and inlining of columns | the text means what the cycle means; the stack is large enough |
| `emit/base.html` (run time) | two generations of properties, frame requests, keys | CSS clock, JS clock (`animate`, `tickSingleInstruction`, coprocessor) | a tick is atomic; one run loop at a time |
| `css/`, `dirty/minify.rs`, `page.rs` | text | folds, renaming | text keeps its value |
| `main.rs`, `print.rs`, `tests/` | none | driver, printers, harness | - |

The parts interact by handing over a program; there is no shared state and no
concurrency in the compiler. At run time the interaction that matters is between
caller and callee (registers, stack slots, `RET`), between the ops of one cycle
(what an op sees of the ones before it), and between the machine and the user
(a key is down, or it is not).

The hazards each part is exposed to are listed in `PROJECT.json`, at the line
where they bite, with the property that would notice.

## 2. Plan

Order: what every generated program depends on first.

1. **Scheduling and the meaning of a cycle** (done): `Inst8`, `BlockScheduler`,
   `CycleExec`, `ScheduleMeaning`, `BlockScheduler_proofs`, `ScheduleMeaning_proofs`.
2. **Register allocation** (done): `LinearScan`, `LinearScan_proofs`, `RegAlloc`,
   `RegAlloc_proofs`.
3. **Calls** (done): `CallPrograms`, `Activations` (the promise), `CallProtocol`
   (the machine, shown and proved to implement it), `CallDepth`, `CallProtocol_proofs`.
4. **Control flow from blocks to the page** (done): `ControlFlow`, `CodeLayout`,
   `CodeLayout_proofs`.
5. **Structured control and exceptions to the graph** (done): `StructuredCode`
   (what a tree means, what blocks mean), `Lowering`.
6. **The run-time clock** (done): `PageMachine` (the promise: whole cycles),
   `PageClock` (shown and proved to implement it), `PageClock_proofs`.
7. **The optimiser's data passes** (done): `ByteIR`, `OptRewrite`, `OptFacts`,
   `OptCombine`, `OptMemory`, `OptUnroll`, `BlockOpt`.
8. **Operators to trees** (done): `WasmCode`, `Parse`.
9. **Numbers by bytes** (done): `ByteCalc`, `ByteArith`.
10. Left: the folds of `css/`; proofs of the lemmas on words that `ByteCalc` rests on.

## 3. Modules

### Scheduling

`Inst8` translates instructions (`ir8.rs`) to records `[op, dst, src, at]`
and the dependence tests of `schedule.rs`. The pure byte operations are grouped
by their cost, since the scheduler cannot tell them apart otherwise; an address
expression is the register that stands for its `Addr`. `RandomByte` is a pure
operation without sources; that its value differs from cycle to cycle is left out.

`BlockScheduler` is `schedule_block_ops`: variables are its locals (`indeg`,
`ready`, `current`, `cycles`, `height`), each step one iteration of the `while`
loop (`Place`, `PlaceGetchar`, `Close`) or the flush after it. `succs` is not
stored but derived from the block.

`CycleExec` is what the arms of `emit_logic` do with a cycle: `reg_now` makes an
op see the registers as earlier ops of its cycle left them, everything else is
read from the snapshot (`var(--_1...)`) and becomes visible afterwards. It covers
bounds checks and traps, the shared address columns of `assign_addr_slot` (an
address that several ops of a cycle use is computed where the first of them stands:
`ComputedAt`), paired byte lanes of stack slots, and the two ways a `Return` finds
its target. What a pure operation makes of its operands is a constant (`Compute`); TLC
gets a function that tells operands and their order apart. An immediate that is
stored, set or printed is a register that nobody writes. Run with one instruction per
cycle the same operators give the sequential meaning (`RunSequentially`).
`ScheduleMeaning` composes this with the scheduler, for blocks whose instructions have
the operands their op needs (`Fits`) and which load a return pc, if they do, as
`emit_non_main_return_sequence` does (`LoadsPcLast`).

### Register allocation

`LinearScan` is `linear_scan` with its `FreePool`, one step per interval, for any
intervals and any copy partners (`StartScan`, `Restart`). `RegAlloc` puts it in
`regalloc_with`: `LiveIns` (the backward data flow, repeated until nothing
changes), `Points`, `Touched` and `Intervals` (`build_intervals`,
`group_intervals`, the entry for referenced groups), `CopiedWith`, one scan per
function (`ScanStep`, `FinishFunction`), `BankOffset`, `MapVreg`, and the
renumbering `FinalReg` with the register limit. The first attempt works on
`Scheduled(source)`, the blocks with their instructions in the order of their
schedules; when its result exceeds the limit, `Retry` starts again in source
order. Two constants stand for what the allocation must not depend on: the
schedule, and the numbering of the blocks (`Starts`). `BlockOrder` has the
numbering the code uses, reverse postorder, for TLC. The invariants do not trust
the allocator's liveness: `LiveFrom` computes it again, point by point, from what
liveness means.

### Calls

`CallPrograms` fixes a small language: words of a function, and instructions that
set, move, print, jump, read a key, call, tail call and return, and the table that
indirect calls and indirect tail calls go through: an index names a function of the
program, a host function (`putchar`, `getchar`) or nothing. `Activations` is
the promise: each activation has words of its own, and a call may fail for want
of stack. `CallProtocol` is what the generated code does: one register bank per
function, a flat array of 16-bit slots, the words live after the call (by the
code's own liveness) and the return pc saved by the caller, arguments copied one
after the other, `CsFree(1)`/`CsLoadPc(0)` in the callee, the restore in the
continuation. The number of slots is a constant there (`SlotsFor`): with too few of
them a call traps, and the promise holds all the same. `CallDepth` gives it the
value it has in `Emitter::new`, by a translation of `static_callstack_depth`, which
walks every function of the table at an indirect call. An indirect call is the blocks the code makes of it
(`HighBytes`, `Case`): the high bytes of the index are tested, the low byte
selects a case, a case is a call, a tail call or a host function that answers in
`RET`, the cases join, and an index outside the table is the trap
"unreachable". The refinement mapping reads the waiting
activations off the slots alone (`Waiting`), top down, from the return pcs.

Of a program (`IsProgram`) the module assumes what validation and lowering ensure:
every jump stays in its function, a call passes as many words as its callee takes,
no word is read before it is written, and the entry makes no tail call
(`lower_terminator` refuses one). One thing more is assumed that nothing in the code
enforces: that no function calls the entry. The return of a called `_start` would
end the program, since `Exit` is chosen by the function and not by its caller.

### Labels and layout

`ControlFlow` gives labelled blocks a meaning: what they print, with an oracle
for the conditions, a stack of return addresses and one byte variable that tells
whether initial values were written again. `CodeLayout` follows a program from
its functions to the page. `Lower` assigns labels as `alloc_block` does;
`Optimise` is the loop of `opt8::run` with the six of its passes that change
control flow or empty blocks, in their order (the others rewrite data and are
invisible here: what they leave behind is a `Dead` op or a constant condition);
`LayBlock` and `Link` are `schedule()`, with any width for the cycles of a block;
`RandomizePcs` and `SparsifyPcs` relabel; `Emit` decides whether the entry cycle
is left out. Each pass is an operator on the blocks of one function. Label
arithmetic is that of a release build (modulo `MaxPc + 1`). Sorting by pc is stable
(`UpTo`, `ByPc`), and relabelling fails with more cycles than `MaxPc`, which here
leaves the page as it was linked. `IsSource` says what a source program is: targets
within the function, callees with blocks, and as the only stored pc the
continuation of the call that ends the block, which begins by freeing the frame.

A page whose targets exist could still come from blocks that lost one on the way
and were refused (`Linkable`), so `NothingDangles` asks it of the blocks, at every
point of every round.

### Structured control and exceptions

`StructuredCode` gives the parser's trees a meaning of their own, that of
WebAssembly (`RunTree`: branches count labels, an exception looks for the nearest
catch), and the blocks of `ir.rs` theirs (`RunBlocks`: operands are numbers of
instructions counted over the blocks, `ref_base`; one exception state for all
functions). `Lowering` is `lower.rs`: a builder, one operator per arm of
`lower_node` (`LowerBlock`, `LowerLoop`, `LowerTry`, ...), the tail-call fusion,
the check after a call, and as actions `Lower` and the four passes of
`lower_function`. Straight-line instructions are represented by six, with one
local, one input and one output; calls pass at most one word. A module without
tags has no handlers, as in the code.

### The clock of the page

`PageMachine` says what a page promises: its state goes from one cycle's result to
the next in one piece. `PageClock` is how `base.html` and `support.rs` keep that
promise with three copies of every register (`--x` computed live, `--_0x` captured
at `--clk` 3, `--_2x` captured at `--clk` 1 and read as `--_1x`). One action per
handler and browser step: `Frame`, `TickPhase` and `EndFrame` are `animate` with
`runInstructionBatch` and `tickSingleInstruction`; `RunClick`, `StepClick`,
`SetSpeed`, `KeyDown` are the debugger's listeners; `ClockAt` is a keyframe of
`anim-play` in a build without a script, any phase after any other, because a
browser may drop frames; `Type` changes the keyboard or an rng value; `Resample`
is a style update between frames. The browser is external: whether it resolves
the keyframes of a running animation again between two frames is a constant of the
build (`resamples`), and whether the freeze rule sees a terminal pc at the moment
of a copy is a choice. The script runs to completion. The program is a constant:
any function from a state, an input and a coprocessor answer to the next state.

Seen in the model and allowed by it: a Step click followed by Run before the
frame leaves the page paused (the frame sets `paused`); `halted` is judged on the
live pc, which an input may still change back; a sticky key is cleared while
`--clk` is still 3, so that a browser which resamples may capture the cycle
again without it; and under resampling the coprocessor's answer may belong to
another sample of the input than the rest of the cycle (the `j` of `PageMachine`).

### The IR8 optimiser

`ByteIR` gives `ir8.rs` a meaning: bytes of `BITS` bits, words of four, one
function, inputs that come from keys and what random bytes are, memory, and the
global, call-stack and exception cells as one kind of cell. `OptRewrite` holds
operand substitution, `OptFacts` what is known about a register (definitions,
constants, booleans, the boolean result of a word), `OptCombine` `instcombine` and
`combine_boolean_chains` arm by arm, `OptMemory` forwarding, dead stores, fused
increments and initial stores, `OptUnroll` the unrolling of printing loops: which
loops it takes for one (`analyze_print_loop`, `detect_bounded_loop`) and the four
slots it writes. `BlockOpt` is the sequence: `local_copy_propagation`,
`copy_elim` with its own fixpoint, `back_copy_coalesce`, `multi_def_zero_fold`,
`instcombine`, `combine_boolean_chains`, `stlf`, `dead_stores`, `dce`, again, and
the three passes that run once. What the function does on every run when it is given
to the optimiser is kept in `meaning`. A pass's "changed" is whether the function changed;
the hash set of seen programs is the set of the programs. The passes over the
control-flow graph between them are those of `CodeLayout`.
Dead code elimination drops a load whose value is unused, and with it the trap of
an address out of bounds; the instances hold no program that traps.

### Parsing

`WasmCode` gives the operators of a body their meaning on an operand stack, and the
trees of `ast.rs` theirs, by positions. `Parse` is `parse_function`: one action per
group of operators, the stack of frames, the operand stack of positions in the
innermost frame, spilling before a construct, result locals set by branches,
constants for operands missing in dead code, and the expansion of `memory.fill`
and `memory.copy` to loads, stores and, for a variable length, loops. Functions
called are hosts whose calls are seen and answered. `RunOps` is the reference, that
of WebAssembly, and not a translation.

What the parser refuses, or does differently from WebAssembly, and what the
instances therefore leave out: `drop` and the operands of a call in dead code when
they are not on the stack (an error); a branch to a loop that has a result pops a
value; a branch to the function's own label (refused by `lower.rs:306`); blocks
with several results. An empty fill or copy beyond the end of memory does not
trap, and one that runs out of bounds has written a part before it traps: where
the operators trap, the memory is not compared.

### Numbers by bytes

`ByteCalc` has the number that each expression of `emit/logic.rs` computes (CSS
knows no bytes: what is not reduced stays as it is), the staged built-in
functions for shifts, counts and division, and the coprocessor of `base.html`.
`ByteArith` is the lowering of one numeric or memory instruction by
`lower8/mod.rs` and `lower8/ops.rs` to a sequence of byte instructions, and their
execution, one by one, by those expressions. What comes out is compared with
WebAssembly's integers, and every instruction on the way with what `ByteIR` says
it computes: the same `Eval` that `BlockOpt` uses to say what a pass preserves.

Documented differences taken over from the code: `i32::MIN / -1` is `i32::MIN`
(`ir8.rs`) where WebAssembly traps; an address is the low 16 bits of its word; a
load or store at a literal address skips the bounds check at run time. Not
modelled: 64-bit multiplication, division, shifts and signed comparison, which
the code refuses; double precision and the six digits a registered property keeps;
the precedence of operators in the text.

## 4. Runs

| Run | Instance | Shows |
|---|---|---|
| `MCScheduleMeaning` | all blocks of up to 4 instructions from three pools (memory, I/O and globals, call stack), with and without a return sequence, and the shapes of a call site, a continuation and a word copy; 3 ops, cost 7, 1 store per cycle; 4 start states | bookkeeping exact, order kept, nothing lost, no incompatible cycle, the loop stops, and the cycles compute what the block computes |
| `MCRegAlloc` | a callee of two blocks (all bodies of up to 2 and 1 instructions, three terminators), a loop with a diamond, a recursive function; a caller; a schedule that exchanges the first two instructions where it may; 16 registers, so that some programs exceed the limit once and some twice | groups live together are apart in every scan; no value needed later is overwritten; banks are disjoint; parameters that are read are apart; the copy bias never fires |
| `MCCallProtocol` | every function body of up to 3 instructions and a terminator from a pool of direct and indirect calls, recursion, tail calls, jumps and key reads; a recursion that prints after it returns, a loop of calls; 12 slots; keys 0 and 2; at most 4 characters printed | refinement of `Activations`, parameters start with the values of their arguments, empty stack at the exit, stack large enough when its depth is known (`SlotsFor` is `StaticSlots`) |
| `MCCodeLayout` | every function of three blocks over 3 x 3 bodies and all jumps and branches among them; functions of six blocks with diamonds, dead code, constant branches and back edges; calls, recursion, tail calls back into the entry, an imported function; a program with too many functions and one with too many cycles; cycles of 1 or 3 ops; 8 labels per function, 5-bit pcs | the page prints what the source prints for every oracle; no target is lost, on the page or at any point of a round; a stored return address is its call's continuation; the optimiser stops at a fixpoint |
| `MCLowering` | 912 modules of three functions: every nesting of two of block, loop, if, delegate, try with two catches, try with catch_all, and code inside catches, around branches, `br_table`, calls, returns, throws, rethrows; the nest in `_start` or in a function called within a try; tail calls, direct and indirect; 5 inputs | after lowering and after every pass: the blocks print what the tree prints and end as it ends; operands name earlier values; a closed block is closed once; the exception flag is up only while an exception is pending |
| `MCPageClock` | all six builds (three clocks, resampling or not), a program of four cycles that waits for a key, loads and stores in one cycle, asks the coprocessor, loops or exits; speeds of half, one and two instructions per frame; two Step clicks ahead | the state changes by whole cycles; one run loop; a page that has something to run has a frame requested, and goes on; every Step click is one instruction and is served; a sticky key is gone after a batch |
| `MCBlockOpt` | fourteen families of functions, one for what each pass does and for what it must refuse: copies among three registers, every byte and word operation over keys, conditions and constants, trees of conditions, stores and loads through two addresses that may coincide, increments, diamonds, loops, switches, calls, initial stores, loops over a string and over a buffer; 4 environments | after every pass the function prints, stores and returns what it did, reads no register unwritten, and the sequence never returns to a program it has seen |
| `MCParse` | a construct in a construct around a leaf (8 constructs, 13 leaves, with and without values), each over an operand that must survive; straight-line and dead code; every fill and copy of a memory of 8 bytes; 4 environments | at every operator each operand names a value of its type in its own list; the tree does what the operators do |
| `MCByteArith` | every numeric instruction at 16 words (4 halves for 64 bits) where carries, signs and bytes meet, operands in registers, literal or of one byte, with and without coprocessor; every load and store at 10 addresses and 11 offsets around the ends of a byte, of memory and of the address space | the number, the trap and the bytes stored are WebAssembly's; every expression computes what its instruction is defined to, and a byte |
| `MCCallProtocolSwap`, `MCLoweringLoop`, `MCBlockOptRenewed` | one program each | the three findings below |

Why the bounds are enough. The scheduler's limits are cut from 64, 64 and 32 to
3, 7 and 1 so that blocks of four instructions reach each of them; dependence is
pairwise and the longest chain of the bookkeeping (an instruction waiting for two
others in different cycles) needs three instructions. `Radix` is 4 with 6 memory
cells, so that addresses alias, differ and fall out of bounds. For calls, depth 12
allows three nested frames with one saved word each, and recursion that overflows.
Three blocks are what a pass looks at (a block, its target, the target's target or
the other arm), six let two passes meet. A run of the source is followed for
`Fuel` = 12 blocks, several times round the loops of a small graph, and the page
for four times as many cycles, since a block is cut into at most three.
For lowering, two nested constructs around a leaf put every construct directly
inside every other, which is as far as the label, handler and catch stacks of one
arm reach into another; a third level appears where a rethrow needs it. A loop of
the tree is followed for `Fuel` = 3 turns, within which the inputs (period at most
3) have let it go on and stop; `BlockFuel` = 60 blocks per activation and
`MaxCalls` = 4 open calls are never what ends a run that the tree completes.
The page needs speeds below, at and above one instruction per frame (`Scale` = 2,
`Speeds` 1, 2, 4), and two pending clicks (`MaxPending`) so that a click can meet
a frame that serves another. The optimiser's bytes have two bits, so that a word
has 256 values and every byte operation is met at zero, one, all ones and between;
`MemEnd` = 16 and `Fuel` = 12 blocks let every program of the families finish
(`Completes`); `BOOL_NARY_MAX_INPUTS` is 3 instead of 8 so that four conditions exceed it,
`MaxDelta` = 20 stands for the largest increment. For the
arithmetic, four bits are the smallest byte in which the stages of the shift
functions (1, 2, 4, 8) act within a byte and across bytes; `MemEnd` = 20 lies
between two page-sized byte values, so that bounds checks fail with and without a
carry out of the low byte. A count of bits is at most 16 there and no four-bit byte,
where it is at most 32 in the program: `ExpressionsExact` leaves that one out.

`CHECK_DEADLOCK FALSE` everywhere but in `MCPageClock`: each of those
computations ends.

Fairness. `BlockScheduler` states `WF_vars(Next)`, because the loop is sequential
code that nothing suspends, and `Terminates` needs no more. `PageClock` states that
the browser runs a frame that was requested, that a script which was started
finishes, and that the clock's animation shows every phase again and again, which
is what requestAnimationFrame, run-to-completion and an infinite CSS animation
give; clicks, keys and style updates need not happen. The other
modules are checked for safety only; the machine may wait for a key for ever.

## 5. Findings

Each has a run that TLC ends with the counterexample.

* **Arguments are copied one after the other** (`emit/logic.rs:1131`,
  `ArgumentsParallel`), while `ir8.rs:708` says "parallel": a recursive call that
  exchanges its parameters passes one value twice.
* **A loop that falls off its end goes round again** (`lower.rs:559`,
  `SameMeaning`), if its last block holds instructions. Compilers end loops in a
  branch, so that the last block is empty; a loop with a result always sets a
  local at its end, and so always has this form when control falls through.
* **A condition is inverted after its operand has changed**
  (`opt8/instcombine.rs:178`, `SameMeaning` of `BlockOpt`): the negation of a
  comparison becomes the opposite comparison where the negation stands, though
  the compared local may have been set in between.

Met while modelling and described here only, because no line of the repository
states the opposite, or because the run would repeat a simple calculation:

* A parameter that is written before it is read has the interval of its own
  accesses, not of the entry where the caller fills it (`regalloc.rs:118`), and may
  receive the register of a parameter that is read; the caller's copies are
  sequential. `ParametersApart` speaks of parameters read at the entry.
* A stalled key read repeats its terminator (`emit/logic.rs:669`): only the pc
  waits, a tail call's copies run in every tick.
* `static_callstack_depth` takes a tail call for a call that returns
  (`emit/mod.rs:838`): programs that end functions in tail calls may need more
  slots than the page has. `SlotsSuffice` leaves them out.
* `maybe_fuse_tail_call` takes a call back out of the block but not out of
  `next_ref` (`lower.rs:884`); in code lowered after it every operand is one too
  high.
* `RET_HI` is handed out (`regalloc.rs:516`): physical groups are numbered from 1
  and banks from 0, so the first function's first group is registers 4-7; a
  continuation that restores a local into it loses the high word of an i64 result.
* `alloc_block` checks a label against `u16::MAX` and not against the function's
  1000 (`lower8/builder.rs:111`): block 1000 has the label of the next function's
  entry, and jumps to it go there if the optimiser leaves at most 1000 cycles.
* Function 65, the last one admitted, has 536 pcs but may number 1000 cycles; the
  rest wrap round to function 0 (`schedule.rs:97`).
* A rethrow restores the tag and not the payload (`lower.rs:659`): if another
  exception was raised since, its payload is rethrown.
* A branch to the label of the function body is refused (`lower.rs:304`).
* `unroll_printf_loop` (`opt8/mod.rs:732`) takes loops for print loops that do more
  than print. `MCBlockOpt` names a program for each (`Changed`); given to the passes
  they violate `SameMeaning` at that step. A loop that prints the zero ending its
  string does not print it in the second to fourth slot, although the comment at
  line 892 has each slot depend on the bytes *before* it (`Zero`). A loop that
  loads its byte twice and tests the second load reads a register that is no longer
  written (`Alias`). The counter ends up to three too high, and whether it is
  read afterwards is not asked (`Count`). What a turn computes for the next, a sum of the
  bytes, is computed once per four (`Sum`). All prints move to the first print,
  before what they depend on (`Order`). A comparison byte by byte with a constant
  end whose upper bytes have been folded away yields a wrong end, and the bytes
  loaded ahead may lie beyond the end of memory, where the load traps.
* A `br_table` looks at the low byte of its index only (`lower8/mod.rs:780`): index
  256 takes target 0 and not the default. An indirect call checks the high bytes.

The passing runs of the same modules stay off these cases by their programs, not
by their actions: `MCCallProtocol` holds no program that copies a parameter over
one still to be copied (`ArgumentsApart`), and the
programs of `MCCodeLayout` fit their slots. The loops of `MCLowering` end in a
branch, its tail calls come last, its branches stay within a construct, and
nothing is raised between a catch and its rethrow. The conditions of `MCBlockOpt`
have operands written once (`SteadyConditions`); its printing loops carry nothing but
their counter, which nobody reads after them, are entered below their end, do not
print the zero, and print after everything is computed.

## 6. Proofs

`BlockScheduler_proofs`, for every set of blocks and all limits:

* `SchedulerSafe`: `Spec => [](TypeOK /\ ReadyIsExact /\ OrderRespected /\
  PlacedOnce /\ CyclesCompatible)`. `ReadyIsExact` carries the induction: a count
  is the number of unplaced predecessors, so what is ready has all it depends on
  in `Placed`, and releasing an instruction changes exactly its successors' counts.
  `CyclesCompatible` uses that `CanAppend` compares with every op of the cycle.
* `SchedulerComplete`: `Spec => []ScheduleComplete`. If something is unplaced, the
  first unplaced index has all predecessors placed, so it is in `ready`.

* `ReadySetExact` and `CyclesSound` state two of its parts by themselves.

`ScheduleMeaning_proofs`, for every set of blocks, all limits, every size of a byte, of
memory and of the call stack, whatever the pure instructions compute and whatever
machine states a block may start in (`MachineAssumption`: they are machines that
have not trapped; the blocks are as described in section 3):

* `CyclesMeanTheBlock`: `Spec => []SameMeaning`. The invariant (`Faithful`) says at every
  step of the loop what the unfinished schedule means: run the finished cycles, then
  the pending one op by op, then the unplaced instructions in block order
  (`AfterAll`), and the state is `Alike` the block's: trapped if it has trapped, and
  otherwise the same but for `ra`. Three lemmas carry it. `Exchange`: two instructions that
  `MustOrderBefore` does not order leave alike machines in either order, traps
  included; so (`MoveToFront`) an instruction whose predecessors are all placed may be
  run first among the unplaced ones, which is a placing step. `CycleIsSequence`:
  a cycle in which every earlier op `CanShareCycleAfter` with every later one does what its ops do
  one by one. By `LeavesReads` an op leaves alone all that a later op of its cycle reads
  (`Undisturbed`), hence reading the snapshot, or an address computed at its first use,
  is reading the present. That closes a cycle.
  Finally `ReturnKept`: once a cycle has loaded the return pc, no op of it or of a later
  cycle moves the stack pointer or writes that slot, so the `Return` that reads the top
  again finds the same pc; this needs the order of the schedule (`PendingKeepsTop`).
  Each op is first put into the form of ten fields computed separately (`Outcome`).

`LinearScan_proofs`, for every input `x` that is well formed (`ValidInput(x)`:
finitely many groups, intervals that do not end before they start):

* `ScanSound`: `ScanSpec(x) => [](TypeOK /\ NoSharing /\ PoolExact /\ NoWaste)`. The
  invariant adds `InOrder` (what is allocated precedes what is not) and `Retired`
  (what is allocated and not active ended before everything still to come), which
  is what makes an expired group's register safe to hand out.
* `CopyBiasIsDead`: if copy partners are live at a common position
  (`PartnersOverlap(x)`), then `ScanSpec(x) => []BiasNeverFires`. The comment at
  `regalloc.rs:532` expects copies to
  collapse; a register expires only strictly before the next interval starts, so
  a partner's register is never free at the copy, and the branch is dead code.

`RegAlloc_proofs`, for every program, every schedule of it, every numbering of its
blocks and every register limit. Of a program it is assumed what the types and
`assign_owner` guarantee (`ProgramsAssumption`: registers of 16 bits, targets that
exist, no register outside the locals named by two functions, at least one block
per function, a copy with one source and one target), of a numbering that it is one
(`StartsAssumption`); nothing relates the schedule to the source.

* `ScansSound`: `RASpec => [](NoSharing /\ BiasNeverFires)`: what the allocator
  builds is a valid input whose copy partners overlap, so the scan's theorems hold
  of every scan it runs.
* `AllocationIsSound`: `RASpec => []AllocationSound`. The
  argument has four parts. The liveness iteration stops within as many rounds as
  there are pairs, at a set closed under a round (`LiveClosed`); a register that
  some path reaches a use of is then live, for the allocator, before the first
  point of the path (`LiveMeansNeeded`). A register live before a point is touched
  at or before it and at or after it (`NeededSpans`), so the interval of its group
  covers the point, whatever the numbering (`SpanFacts`), and so does that of
  a register written there. Groups that overlap have different physical groups by
  the scan; banks are laid end to end (`SumToGrows`, `BankFacts`), so a physical group
  says which function it belongs to; and renumbering counts the registers below,
  which keeps different ones different (`FinalApart`).
* `CallsPreserve`, `ArgumentsKept`: `[]BanksDisjoint`, `[]ParametersApart`, from the
  same facts; a parameter read before it is written is live into the first block.

The inductive invariant `RAInv` says that the attempt works on the program in the
order it claims, that the scan under way is that of the next function, with the
scan's own invariant, and that each finished scan gave overlapping groups different
registers.

`CallProtocol_proofs`, for every table, every size of a byte and of the stack, and
every set of programs (`ProgramsAssumption`: `IsProgram`, and a page has at least
one slot and at most the cap):

* `LiveIsNeeded`: at every instruction, the words live by the code's data flow are
  those that some path reads before writing them. The two are computed by
  different recursions, backward over pairs and forward along paths; both stop
  within the rounds they are given.
* `CallTypes`, `CallsBalance`: `Spec => []TypeOK`, `Spec => []StackBalanced`.
* `CallsImplementActivations`: `Spec => ImplementsActivations`, through direct and
  indirect calls, recursion, tail calls, host calls, key reads that stall, returns,
  and a stack that is exhausted. `CopiesAreParallel`: `Spec => ArgumentsParallel`.

The last two are for programs with `ArgumentsApart`: no function that may call
itself hands one of its parameters over as another. This is the hypothesis the code
fails without, as the first finding shows (`MCCallProtocolSwap`); compilers emit such
calls, so it is stated with the theorem and not assumed of programs.

The inductive invariant `CallInv` is `Typed` (the banks hold numbers, a stage after a
call is at a call), `Nested` and `WordsHeld` (what the running activation has still to
restore is in the slots above `Bottom`). `Nested` says that the stack is cut into
frames: there is a set of slots, with 0 and `Bottom` in it, such that a frame ends at
each of them but 0, has its base in the set, and is the entry's exactly when its
base is 0. Nothing else about the stack is carried: `WaitingSame` shows
that the activations waiting below a slot depend on the slots below it only, so
that a push, a pop or a restore changes none but the topmost. Then each step is a
step of `Activations` or a stutter (`CallImplements`, `TailCallImplements`,
`ReturnImplements`, ...). A call keeps of its caller what the promise asks for:
the words needed after it, which by `LiveIsNeeded` are those saved. The case that
needed most care is the stalled key read before a tail call, whose copies run
in every tick: `StallFacts` shows that they leave the words still needed alone.

`NatLemmas` has the induction those proofs need. The library states induction for an
operator parameter, which no installed prover can instantiate; here it is stated
for a set that contains 0 and is closed under successor, proved from the
well-foundedness of `<`, and recursion for functions from it: from the value
before (`NatRecursion`, up to a bound `BoundedRecursion`), or from any lower one
(`BelowRecursion`, for the frames of a stack). That a growing sequence of subsets of
a finite set stops (`GrowthStops`) is what makes the data-flow iterations provable.

`CodeLayout_proofs`, for every set of source programs (`IsSource`), every number of
labels per function and width of a pc, every cutting of a block into cycles, and all
relabellings that give `n` cycles `n` labels (`LayoutAssumption`; that the labels differ
is not needed):

* `TargetsKept`: `Spec => []TargetsExist`. `LayoutTypes`, `ContinuationsStored`:
  `[]TypeOK`, `[]StoredIsContinuation`.
* `NamesKept`: `Spec => []NothingDangles`, if no function has more blocks than
  labels (`BlocksFit`). `alloc_block` does not check this: beyond it a block of the
  caller may have the label of the callee's entry, threading may then lead the call
  past that block, and what it leads to is kept only if something else in the caller
  goes there. `Link` refuses what dangles, so `TargetsExist` needs no such hypothesis.

The inductive invariant `LayoutInv` has one part for each stage. `FunctionSound`, of the
blocks of a function: its entry is there, ids differ, and what a block stores is the
target of the call that ends it and the id of a block of the same function that frees a
frame. The last is what ties the passes together: `thread_empty_gotos` skips only empty
blocks, a continuation is not empty, so it is never skipped, and the stored
address needs no rewriting; `coalesce_linear_blocks` may append to it but not take it
away, since a call is no jump. `LaidSound`: what has been numbered is the beginning
of the blocks in order, each cut by some width. `PageSound`: every cycle is
well formed and names cycles, and so does the entry. For `NamesKept` the invariant adds
`FunctionClosed`: a block names blocks of its function or entries, and no
block of a function but its entry has the label of an entry. Each pass has a lemma that
it `Keeps` both; those that repeat (`PredicatePutchars`, `Resolve`,
`Reachable`, `Coalesce`) are recursive functions, and their lemmas are inductions over the
number of steps (`StepsKeep`, `ResolveFacts`, `ReachableFacts`). That
the blocks kept by `remove_unreachable_blocks` are closed needs the iteration to have
stopped, which it does within as many rounds as there are blocks (`NothingToAdd`).

`PageClock_proofs`, for every program (`Exec`, `Cop`), every set of speeds and
inputs and all three builds (`ClockAssumption`):

* `Refinement`: `Spec => AtomicCycles`, the page implements `PageMachine`. The
  invariant behind it has three parts. `Phases` relates the script's clock to the
  style's; `Answers` says that the coprocessor's answer is that of the state shown,
  for the input of the cycle being captured; `Copies` says that the execute copy is
  either the machine state itself or one whole cycle ahead of it (`Ahead`). The store
  phase copies the one to the other and is the only step that changes the state
  shown. In the build without a script phases may be skipped or come in any order,
  which is why `Copies` speaks of what the copies are and not of which phase came
  before.
* `OneRunLoop`, `FrameRequested`, `StepsPaid`, `StickyKey`, `TypeCorrect`: the
  bookkeeping of the script. `Loop` joins the flag, the number of requested
  frames and the batch under way; `Steps` adds the clicks not yet served, and
  `Phases` relates the script's clock to the style's.

Model-checked only: `Terminates`, `KeepsRunning` and `StepsServed`
(liveness), `SameMeaning` of `BlockOpt`, `Lowering` and `Parse` (executions by folds or
recursion), `SameTrace` (executions of programs of any length by a fold), `OptSettles` (it holds of the
instances; a proof would need a measure that every pass decreases), `SlotsSuffice`,
whose depth walk is recursive, `BlockOpt`, whose passes are folds, `Lowering` and `Parse`,
which are recursive over trees, and `ByteArith`, whose results are recursive sums
over bytes.

## 7. Not modelled

* Text: CSS generation, merging and inlining of columns, `css/`, minification,
  templates, printers, the command line. What the text computes is in `CycleExec`
  and `ByteCalc`; how it is put together has no state.
* `validate/` and the section reader of `module/`: filters over the input.
* In the allocator, functions without blocks (imports, which are skipped) and
  `dce_self_copies`, which deletes copies of a register to itself.
* The memory and globals layout of `lower8`, and the constants of a `br_table`.
* The debugger's labels and cycle list, and the rng sliders.
