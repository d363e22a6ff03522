---------------------------- MODULE CallProtocol ----------------------------
(***************************************************************************)
(* Calls as the generated machine makes them.  Every function has one      *)
(* static bank of registers, whatever the depth of recursion, and there is *)
(* one flat array of 16-bit call stack slots.  The caller saves what is    *)
(* live after the call and the return pc (emit_cs_save), CallSetup copies  *)
(* the arguments into the callee's registers and jumps, the callee pops    *)
(* the pc and jumps back (emit_non_main_return_sequence, Return), and the  *)
(* continuation reloads what was saved and fetches RET (emit_cs_restore,   *)
(* copy_ret_to_value).  The number of slots is CallDepth's.                *)
(***************************************************************************)
EXTENDS CallPrograms

CONSTANTS
    Programs,      \* programs to run
    SlotsCap,      \* --callstack-slots
    SlotsFor(_),   \* slots of the page of a program (Emitter::new: CallDepth)
    Keys,          \* the keys that may be pressed
    MaxOut         \* bound: characters a run may print

ASSUME ProgramsAssumption ==
    /\ SlotsCap \in Nat \ {0}
    /\ \A pr \in Programs : IsProgram(pr) /\ SlotsFor(pr) \in 1..SlotsCap
ASSUME KeysAssumption == Keys \subseteq Nat /\ Keys # {}

VARIABLES
    prog,
    slots,     \* cs_names: slots the page has
    pc,        \* [fn, at, stage]: before the instruction, in the continuation
               \* of its call, or where the cases of an indirect call join
    reg,       \* fn -> word -> value: the register banks
    ret,       \* the RET word
    cs, sp,    \* call stack slots and cs_sp
    out, status

vars == <<prog, slots, pc, reg, ret, cs, sp, out, status>>

-----------------------------------------------------------------------------
(* Liveness as lower8/analysis.rs computes it, and the saved words.        *)
LiveRounds(fn) ==
    LET live[n \in Nat] ==
            IF n = 0 THEN {}
            ELSE LET old == live[n - 1]
                 IN  {c \in (DOMAIN fn.code) \X WordsOf(fn) :
                        \/ c[2] \in Reads(fn.code[c[1]])
                        \/ /\ c[2] \notin Writes(fn.code[c[1]])
                           /\ \E s \in Successors(fn.code[c[1]], c[1]) : <<s, c[2]>> \in old}
    IN  live
LiveIn(fn) == LiveRounds(fn)[Len(fn.code)]
LiveAfter(fn, k) ==
    {w \in WordsOf(fn) : \E s \in Successors(fn.code[k], k) : <<s, w>> \in LiveIn(fn)}

(* (Slip: a word handed over as an argument is not saved.)                 *)
Saved_NoArguments(fn, k) == SetToSeq(LiveAfter(fn, k) \ ({fn.code[k].dst} \cup Reads(fn.code[k])))
(* The live words a call site saves, in a fixed order; its own result is   *)
(* not among them (collect_spill_words finds no value for it yet).         *)
Saved(fn, k) == SetToSeq(LiveAfter(fn, k) \ {fn.code[k].dst})

WORD_SLOTS == 2
SlotOf(words, w) == WORD_SLOTS * ((CHOOSE j \in DOMAIN words : words[j] = w) - 1)
RaSlot(fn, k) == WORD_SLOTS * Len(Saved(fn, k))
FrameSlots(fn, k) == RaSlot(fn, k) + 1

-----------------------------------------------------------------------------
(* Where the machine is in an instruction: before it, in the continuation  *)
(* of its call, or where the cases of an indirect call join.               *)
Stages     == {"at", "cont", "join"}
At(f, k)   == [fn |-> f, at |-> k, stage |-> "at"]
Cont(f, k) == [fn |-> f, at |-> k, stage |-> "cont"]
Join(f, k) == [fn |-> f, at |-> k, stage |-> "join"]

-----------------------------------------------------------------------------
Fn == prog[pc.fn]
Current == Fn.code[pc.at]
Running == status = "run" /\ pc.stage = "at"

(* The target of a call, and what the Switch of an indirect one dispatches  *)
(* on: the low byte of the index, once the others are seen to be zero.      *)
HighBytes(v) == v \div BYTE # 0
Case(v, n)   == IF v % BYTE < Len(Table) THEN Resolve(prog, Table[(v % BYTE) + 1], n) ELSE Trap
Callee ==
    IF ~Indirect(Current) THEN Entry("fn", Current.arg)
    ELSE LET v == reg[pc.fn][Last(Current.src)]
         IN  IF HighBytes(v) THEN Trap ELSE Case(v, Current.arg)
Enters(kinds) == (IsCall(Current) \/ IsTail(Current)) /\ Callee.kind \in kinds

Init ==
    /\ prog \in Programs
    /\ slots = SlotsFor(prog)
    /\ pc = At(1, 1)
    /\ reg = [f \in DOMAIN prog |-> [w \in WordsOf(prog[f]) |-> 0]]
    /\ ret = 0
    /\ cs = [s \in 0..(SlotsCap - 1) |-> 0] /\ sp = 0
    /\ out = <<>> /\ status = "run"

Step ==
    /\ Running /\ IsLocalStep(Current)
    /\ Current.op = "Put" => Len(out) < MaxOut
    /\ reg' = [reg EXCEPT ![pc.fn] = Compute(Current, @)]
    /\ out' = IF Current.op = "Put" THEN Append(out, reg[pc.fn][Current.src[1]]) ELSE out
    /\ pc' = At(pc.fn, Goes(Current, pc.at, reg[pc.fn]))
    /\ UNCHANGED <<prog, slots, ret, cs, sp, status>>

(* emit_terminator, CallSetup: one argument word after the other, each     *)
(* read through reg_now, that is after the copies before it.               *)
CopyArgs(g, src) ==
    LET copied[k \in 0..Len(src)] ==
            IF k = 0 THEN reg
            ELSE LET old == copied[k - 1]
                 IN  [old EXCEPT ![g][prog[g].params[k]] = old[pc.fn][src[k]]]
    IN  copied[Len(src)]

Push(words, ra) ==
    [s \in DOMAIN cs |->
        IF s \in sp..(sp + WORD_SLOTS * Len(words) - 1)
        THEN reg[pc.fn][words[((s - sp) \div WORD_SLOTS) + 1]]
        ELSE IF s = sp + WORD_SLOTS * Len(words) THEN ra ELSE cs[s]]
Fits_OneOver == sp + FrameSlots(Fn, pc.at) <= slots + 1      \* slip
Fits == sp + FrameSlots(Fn, pc.at) <= slots

CallSite ==
    /\ Running /\ IsCall(Current) /\ Enters({"fn"})
    /\ Fits
    /\ cs' = Push(Saved(Fn, pc.at), Cont(pc.fn, pc.at))
    /\ sp' = sp + FrameSlots(Fn, pc.at)
    /\ reg' = CopyArgs(Callee.fn, Args(Current))
    /\ pc' = At(Callee.fn, 1)
    /\ UNCHANGED <<prog, slots, ret, out, status>>

(* A store or CsAlloc past the last slot traps with TrapCode::CallstackOverflow. *)
Overflow ==
    /\ Running /\ IsCall(Current) /\ Enters({"fn"})
    /\ ~Fits
    /\ status' = "overflow"
    /\ UNCHANGED <<prog, slots, pc, reg, ret, cs, sp, out>>

TailCall ==
    /\ Running /\ IsTail(Current) /\ Enters({"fn"})
    /\ reg' = CopyArgs(Callee.fn, Args(Current))
    /\ pc' = At(Callee.fn, 1)
    /\ UNCHANGED <<prog, slots, ret, cs, sp, out, status>>

(* The case of a host function: its answer goes to RET; a tail call then   *)
(* returns, any other goes on where the cases join.                        *)
Answered(value) ==
    /\ ret' = value
    /\ IF IsTail(Current) THEN sp' = sp - 1 /\ pc' = cs[sp - 1]
                          ELSE pc' = Join(pc.fn, pc.at) /\ UNCHANGED sp
    /\ UNCHANGED <<prog, slots, reg, cs, status>>

Putchar ==
    /\ Running /\ Enters({"putchar"}) /\ Len(out) < MaxOut
    /\ LET byte == reg[pc.fn][Current.src[1]] % BYTE
       IN  out' = Append(out, byte) /\ Answered(byte)

Getchar ==
    /\ Running /\ Enters({"getchar"})
    /\ \E key \in Keys : Answered(key)
    /\ UNCHANGED out

Unreachable ==
    /\ Running /\ Enters({"null"})
    /\ status' = "unreachable"
    /\ UNCHANGED <<prog, slots, pc, reg, ret, cs, sp, out>>

(* A blocking Getchar has a cycle of its own, re-executed until a key is   *)
(* down.  The tick a key is read goes on; until then only the pc is held.  *)
ReadKey ==
    /\ Running /\ Current.op = "Key"
    /\ \E key \in Keys : reg' = [reg EXCEPT ![pc.fn][Current.dst] = key]
    /\ pc' = At(pc.fn, pc.at + 1)
    /\ UNCHANGED <<prog, slots, ret, cs, sp, out, status>>

(* When that cycle is the last of its block it carries the terminator, and *)
(* the argument copies of a tail call are executed in every stalled tick.  *)
(* (Before a call the cycle of CsAlloc comes last.)                        *)
StalledTail ==
    /\ Running /\ Current.op = "Key" /\ Fn.code[pc.at + 1].op = "Tail"
    /\ reg' = CopyArgs(Fn.code[pc.at + 1].arg, Fn.code[pc.at + 1].src)
    /\ UNCHANGED <<prog, slots, pc, ret, cs, sp, out, status>>

Return ==
    /\ Running /\ Current.op = "Ret" /\ pc.fn # 1
    /\ sp' = sp - 1
    /\ pc' = cs[sp - 1]
    /\ ret' = reg[pc.fn][Current.src[1]]
    /\ UNCHANGED <<prog, slots, reg, cs, out, status>>

Restored(words, base) ==
    [w \in DOMAIN reg[pc.fn] |->
        IF w \in ToSet(words) THEN cs[base + SlotOf(words, w)] ELSE reg[pc.fn][w]]
(* (Slip: the words are reloaded and stay on the stack.)                   *)
Restore_NotPopped ==
    /\ status = "run" /\ pc.stage = "cont"
    /\ reg' = [reg EXCEPT ![pc.fn] = Restored(Saved(Fn, pc.at), sp - RaSlot(Fn, pc.at))]
    /\ pc' = Join(pc.fn, pc.at)
    /\ UNCHANGED <<prog, slots, ret, cs, sp, out, status>>

Restore ==
    /\ status = "run" /\ pc.stage = "cont"
    /\ sp' = sp - RaSlot(Fn, pc.at)
    /\ reg' = [reg EXCEPT ![pc.fn] = Restored(Saved(Fn, pc.at), sp')]
    /\ pc' = Join(pc.fn, pc.at)
    /\ UNCHANGED <<prog, slots, ret, cs, out, status>>

(* copy_ret_to_value, after the cases of an indirect call have joined.     *)
TakeResult ==
    /\ status = "run" /\ pc.stage = "join"
    /\ reg' = [reg EXCEPT ![pc.fn][Current.dst] = ret]
    /\ pc' = At(pc.fn, pc.at + 1)
    /\ UNCHANGED <<prog, slots, ret, cs, sp, out, status>>

Exit ==
    /\ Running /\ Current.op = "Ret" /\ pc.fn = 1
    /\ status' = "exit"
    /\ ret' = reg[1][Current.src[1]]
    /\ UNCHANGED <<prog, slots, pc, reg, cs, sp, out>>

Next == Step \/ CallSite \/ Overflow \/ TailCall \/ Putchar \/ Getchar \/ Unreachable
          \/ ReadKey \/ StalledTail \/ Return \/ Restore \/ TakeResult \/ Exit
Spec == Init /\ [][Next]_vars
-----------------------------------------------------------------------------
(* The activations that wait below slot n of a stack, read off the slots   *)
(* alone: each ends with its return pc, which says how many words lie      *)
(* under it.                                                               *)
IsReturnPc(pr, ra) ==
    /\ ra.fn \in DOMAIN pr /\ ra.at \in DOMAIN pr[ra.fn].code /\ ra = Cont(ra.fn, ra.at)
    /\ IsCall(pr[ra.fn].code[ra.at])
EndsFrame(pr, stack, n) ==
    /\ n > 0 /\ IsReturnPc(pr, stack[n - 1])
    /\ FrameSlots(pr[stack[n - 1].fn], stack[n - 1].at) <= n
FrameBase(pr, stack, n) == n - FrameSlots(pr[stack[n - 1].fn], stack[n - 1].at)
FrameAt(pr, stack, n) ==
    LET ra    == stack[n - 1]
        words == Saved(pr[ra.fn], ra.at)
    IN  [fn |-> ra.fn, at |-> ra.at,
         env |-> [w \in ToSet(words) |-> stack[FrameBase(pr, stack, n) + SlotOf(words, w)]]]
Waiting(pr, stack) ==
    LET waiting[n \in 0..SlotsCap] ==
            IF EndsFrame(pr, stack, n)
            THEN Append(waiting[FrameBase(pr, stack, n)], FrameAt(pr, stack, n)) ELSE <<>>
    IN  waiting

(* The running activation; between Return and TakeResult it is the caller, *)
(* its words still in the slots at first, and its result in RET.           *)
Now ==
    CASE pc.stage = "at"   -> reg[pc.fn]
      [] pc.stage = "join" -> [reg[pc.fn] EXCEPT ![Current.dst] = ret]
      [] pc.stage = "cont" -> [Restored(Saved(Fn, pc.at), sp - RaSlot(Fn, pc.at)) EXCEPT ![Current.dst] = ret]
Running1 ==
    LET at == IF pc.stage = "at" THEN pc.at ELSE pc.at + 1
    IN  [fn |-> pc.fn, at |-> at, env |-> [w \in Needed(Fn, at) |-> Now[w]]]
Bottom == IF pc.stage = "cont" THEN sp - RaSlot(Fn, pc.at) ELSE sp
Frames == IF status # "run" THEN <<>> ELSE Append(Waiting(prog, cs)[Bottom], Running1)

Abstract == INSTANCE Activations WITH frames <- Frames

TypeOK ==
    /\ prog \in Programs
    /\ slots \in 1..SlotsCap /\ sp \in 0..slots
    /\ pc.fn \in DOMAIN prog /\ pc.at \in DOMAIN Fn.code /\ pc.stage \in Stages
    /\ \A f \in DOMAIN prog : DOMAIN reg[f] = WordsOf(prog[f])
    /\ status \in {"run", "exit", "overflow", "unreachable"}

(* Registers are static and the stack is flat, and yet calls, recursion,   *)
(* tail calls and returns behave as if every activation had its own words. *)
ImplementsActivations == Abstract!ActInit(Programs) /\ [][Abstract!ActNext]_(Abstract!vars)

(* What was pushed is popped: the entry function ends on an empty stack.   *)
StackBalanced == status = "exit" => sp = 0

(* ir8.rs on CallSetup: "Copy args -> callee_arg_vregs (parallel ...)":     *)
(* every parameter starts with the value its argument had at the call.     *)
ArgumentsParallel ==
    [][CallSite \/ TailCall =>
          \A k \in DOMAIN Args(Current) :
              reg'[Callee.fn][prog[Callee.fn].params[k]] = reg[pc.fn][Args(Current)[k]]]_vars
=============================================================================
