----------------------------- MODULE PageClock ------------------------------
(***************************************************************************)
(* How the emitted page runs (src/emit/base.html, src/emit/support.rs).    *)
(* The machine is kept three times: --x is the live next state, a function *)
(* of the stage-1 state and the input that the browser recomputes on every *)
(* style update; --_0x is what the execute animation last captured of it;  *)
(* --_2x is what the store animation last copied from --_0x, and --_1x     *)
(* reads --_2x.  Execute runs while --clk is 3, store while it is 1, so no *)
(* update both reads and writes the same copy.                             *)
(*                                                                         *)
(* Three builds.  "css": the clock is the anim-play animation, which may   *)
(* skip phases when the browser drops frames.  "js": a script advances     *)
(* --clk four phases per instruction, one instruction per frame.           *)
(* "debugger": the same script with Run, Step, speed and a sticky key.     *)
(* The script runs to completion: while js = "batch" nothing else happens. *)
(***************************************************************************)
EXTENDS Integers

CONSTANTS
    Regs, Mems,       \* register files (the pc among them), memories
    Inputs,           \* what --kb and --rng0..3 may be
    NoInput,          \* the input while no key is held (--kb: -1)
    Cops, NoCop,      \* coprocessor answers, and --cop_o before the first
    Exec, Cop,        \* see PageMachine
    Start, Unset,     \* the initial state, and a copy never written
    TerminalRegs,     \* registers whose pc is one of terminalPcs
    Builds,           \* the builds the page may have
    Scale, Speeds,    \* speeds in 1/Scale instructions per frame
    MaxPending        \* bound: Step clicks waiting for one frame

States == [r : Regs, m : Mems]
Modes == {"css", "js", "debugger"}

ASSUME ClockAssumption ==
    /\ Exec \in [Regs \X Mems \X Mems \X Inputs \X Cops -> States]
    /\ Cop \in [Regs \X Mems \X Inputs -> Cops]
    /\ NoCop \in Cops /\ NoInput \in Inputs
    /\ Start \in States /\ Unset \notin States
    /\ Builds \subseteq [mode : Modes, resamples : BOOLEAN]
    /\ Scale \in Nat \ {0} /\ Speeds \subseteq Nat \ {0} /\ Scale \in Speeds
    /\ MaxPending \in Nat

VARIABLES
    build,            \* which clock, and when the browser resamples
    two, zero,        \* --_2x and --_0x
    clk,              \* --clk as the style has it
    copOut,           \* --cop_o0..3
    typed,            \* the input the user and the rng animation give
    \* the script's variables
    clock, halted, animationPending,
    paused, pendingStepCount, speedMultiplier, speedCarry, debugStickyKey,
    stepDisabled,     \* the Step button's disabled attribute
    \* the browser
    frames,           \* animation frame callbacks requested and not yet run
    \* the call of animate under way
    js, left, ran, stepBatch,
    owed              \* Step clicks whose instruction has not run yet

machine == <<two, zero, clk, copOut>>
debugger == <<paused, pendingStepCount, speedMultiplier, speedCarry, debugStickyKey, stepDisabled>>
script == <<clock, halted, animationPending, frames>>
batch == <<js, left, ran, stepBatch>>
vars == <<build, machine, typed, debugger, script, batch, owed>>

-----------------------------------------------------------------------------
(* The live state. *)

(* --_1x: var(--_2x, init): the store copy, or the initial state before it. *)
One == IF two = Unset THEN Start ELSE two

(* The memory that loads read and that the merge starts from: the store    *)
(* copy, not the execute copy, which this cycle's stores may already be in. *)
ReadMem_Execute == IF zero = Unset THEN Start.m ELSE zero.m

ReadMem == One.m

(* An inline --kb of the sticky key overrides the keyboard's. *)
Input == IF debugStickyKey # NoInput THEN debugStickyKey ELSE typed

Live == Exec[One.r, ReadMem, One.m, Input, copOut]
Terminal == Live.r \in TerminalRegs

(* runCoprocessor: what it writes to --cop_o for the cycle the style shows. *)
RunCoprocessor == Cop[One.r, One.m, Input]

(* A style update at phase p.  The rule that pauses both animations on a   *)
(* terminal pc asks .terminal's container for --pc, so it may or may not   *)
(* see the live one: on a terminal pc the copy may be skipped.             *)
Store(p)   == IF p = 1 THEN zero ELSE two
Execute(p) == IF p = 3 THEN Live ELSE zero
Sample(p) ==
    \/ two' = Store(p) /\ zero' = Execute(p)
    \/ Terminal /\ UNCHANGED <<two, zero>>

-----------------------------------------------------------------------------
(* The script. *)

(* scheduleAnimation, called with the values these two have by then. *)
Schedule_Unguarded(pend, halt) ==
    IF halt THEN animationPending' = pend /\ UNCHANGED frames
            ELSE animationPending' = TRUE /\ frames' = frames + 1

Schedule(pend, halt) ==
    IF pend \/ halt
    THEN animationPending' = pend /\ UNCHANGED frames
    ELSE animationPending' = TRUE /\ frames' = frames + 1

(* refreshDebuggerLabels, after paused and halted got their new values. *)
RefreshLabels(h, p) == stepDisabled' = (h \/ ~p)

(* How many instructions a frame runs: the Step clicks first, else what    *)
(* the speed gives.                                                        *)
StepFrame_Running == build.mode = "debugger" /\ pendingStepCount > 0 /\ ~paused

StepFrame == build.mode = "debugger" /\ pendingStepCount > 0

FreeFrame == build.mode = "debugger" /\ pendingStepCount = 0 /\ ~paused
FrameSize_OneStep ==
    IF build.mode = "js" THEN 1
    ELSE IF StepFrame THEN 1
    ELSE IF FreeFrame THEN (speedCarry + speedMultiplier) \div Scale
    ELSE 0

FrameSize ==
    IF build.mode = "js" THEN 1
    ELSE IF StepFrame THEN pendingStepCount
    ELSE IF FreeFrame THEN (speedCarry + speedMultiplier) \div Scale
    ELSE 0

(* Speeds below one instruction per frame add up. *)
CarryAfter_Kept == IF FreeFrame THEN speedCarry + speedMultiplier ELSE speedCarry

CarryAfter_Dropped == IF FreeFrame THEN 0 ELSE speedCarry

CarryAfter == IF FreeFrame THEN (speedCarry + speedMultiplier) % Scale ELSE speedCarry

(* A frame callback clears the flag before anything else. *)
EnterAnimate_KeepPending == frames' = frames - 1 /\ UNCHANGED animationPending

EnterAnimate == frames' = frames - 1 /\ animationPending' = FALSE

(* The browser runs animate, up to the batch. *)
Frame ==
    /\ js = "idle" /\ frames > 0
    /\ EnterAnimate
    /\ IF halted
       THEN UNCHANGED <<batch, debugger>>
       ELSE /\ js' = "batch" /\ left' = FrameSize /\ ran' = (FrameSize > 0)
            /\ stepBatch' = StepFrame
            /\ pendingStepCount' = IF StepFrame THEN 0 ELSE pendingStepCount
            /\ paused' = (paused \/ StepFrame)
            /\ speedCarry' = CarryAfter
            /\ UNCHANGED <<speedMultiplier, debugStickyKey, stepDisabled>>
    /\ UNCHANGED <<build, machine, typed, clock, halted, owed>>

(* One phase of tickSingleInstruction; after the fourth, runInstructionBatch *)
(* leaves the loop on a terminal pc.                                         *)
TickPhase ==
    /\ js = "batch" /\ left > 0
    /\ clk' = clock /\ clock' = (clock + 1) % 4
    /\ copOut' = IF clock = 2 THEN RunCoprocessor ELSE copOut
    /\ Sample(clock)
    /\ left' = IF clock # 3 THEN left ELSE IF Terminal THEN 0 ELSE left - 1
    /\ owed' = IF clock # 3 \/ ~stepBatch THEN owed ELSE IF Terminal THEN 0 ELSE owed - 1
    /\ UNCHANGED <<build, typed, debugger, halted, animationPending, frames, js, ran, stepBatch>>

(* The rest of animate: halt, consume the sticky key, schedule the next. *)
EndFrame ==
    /\ js = "batch" /\ left = 0
    /\ js' = "idle" /\ halted' = Terminal
    /\ debugStickyKey' = IF ran /\ build.mode = "debugger" THEN NoInput ELSE debugStickyKey
    /\ paused' = (paused \/ (build.mode = "debugger" /\ Terminal))
    /\ RefreshLabels(Terminal, paused')
    /\ IF build.mode = "debugger" /\ paused' /\ pendingStepCount = 0
       THEN UNCHANGED <<animationPending, frames>>
       ELSE Schedule(animationPending, Terminal)
    /\ UNCHANGED <<build, machine, typed, clock, pendingStepCount, speedMultiplier, speedCarry,
                   left, ran, stepBatch, owed>>

Idle(mode) == js = "idle" /\ build.mode = mode

(* The Run button: running freely drops the sticky key. *)
KeyOnRun_Kept(p) == debugStickyKey

KeyOnRun(p) == IF p THEN debugStickyKey ELSE NoInput

RunClick ==
    /\ Idle("debugger") /\ ~halted
    /\ paused' = ~paused
    /\ debugStickyKey' = KeyOnRun(paused')
    /\ RefreshLabels(halted, paused')
    /\ IF paused' THEN UNCHANGED <<animationPending, frames>>
                  ELSE Schedule(animationPending, halted)
    /\ UNCHANGED <<build, machine, typed, clock, halted, pendingStepCount, speedMultiplier,
                   speedCarry, batch, owed>>

(* The Step button: a disabled button is not clicked. *)
StepClick ==
    /\ Idle("debugger") /\ ~stepDisabled /\ ~halted
    /\ pendingStepCount < MaxPending
    /\ paused' = TRUE
    /\ pendingStepCount' = pendingStepCount + 1
    /\ owed' = owed + 1
    /\ RefreshLabels(halted, TRUE)
    /\ Schedule(animationPending, halted)
    /\ UNCHANGED <<build, machine, typed, clock, halted, speedMultiplier, speedCarry,
                   debugStickyKey, batch>>

(* The speed slider. *)
SetSpeed ==
    /\ Idle("debugger")
    /\ \E v \in Speeds : speedMultiplier' = v
    /\ IF paused \/ halted THEN UNCHANGED <<animationPending, frames>>
                           ELSE Schedule(animationPending, halted)
    /\ UNCHANGED <<build, machine, typed, clock, halted, paused, pendingStepCount, speedCarry,
                   debugStickyKey, stepDisabled, batch, owed>>

(* pointerdown on a key of the page's keyboard. *)
KeyDown ==
    /\ Idle("debugger") /\ ~halted /\ paused
    /\ \E k \in Inputs \ {NoInput} : debugStickyKey' = k
    /\ UNCHANGED <<build, machine, typed, paused, pendingStepCount, speedMultiplier, speedCarry,
                   stepDisabled, script, batch, owed>>

-----------------------------------------------------------------------------
(* The browser and the user. *)

(* A key is pressed or released, the rng animation moves on. *)
Type ==
    /\ js = "idle"
    /\ \E k \in Inputs : typed' = k
    /\ UNCHANGED <<build, machine, debugger, script, batch, owed>>

(* A style update between two frames, which resolves the running animation *)
(* again.                                                                  *)
Resample ==
    /\ js = "idle" /\ build.resamples
    /\ Sample(clk)
    /\ UNCHANGED <<build, clk, copOut, typed, debugger, script, batch, owed>>

(* The anim-play animation reaches phase p; phases may be skipped. *)
ClockAt(p) ==
    /\ Idle("css") /\ p # clk
    /\ clk' = p
    /\ Sample(p)
    /\ UNCHANGED <<build, copOut, typed, debugger, script, batch, owed>>

Init ==
    /\ build \in Builds
    /\ two = Unset /\ zero = Unset /\ clk = 0 /\ copOut = NoCop
    /\ typed = NoInput
    /\ clock = 0 /\ halted = FALSE
    /\ paused = (build.mode = "debugger")
    /\ pendingStepCount = 0 /\ speedMultiplier = Scale /\ speedCarry = 0
    /\ debugStickyKey = NoInput /\ stepDisabled = (build.mode # "debugger")
    /\ animationPending = (build.mode # "css")
    /\ frames = IF build.mode = "css" THEN 0 ELSE 1
    /\ js = "idle" /\ left = 0 /\ ran = FALSE /\ stepBatch = FALSE /\ owed = 0

Next ==
    \/ Frame \/ TickPhase \/ EndFrame
    \/ RunClick \/ StepClick \/ SetSpeed \/ KeyDown
    \/ Type \/ Resample
    \/ \E p \in 0..3 : ClockAt(p)

(* The browser runs a requested frame, a script finishes, and the clock's  *)
(* animation shows every phase again and again.                            *)
Fairness ==
    /\ WF_vars(Frame) /\ WF_vars(TickPhase) /\ WF_vars(EndFrame)
    /\ \A p \in 0..3 : WF_vars(ClockAt(p))

Spec == Init /\ [][Next]_vars /\ Fairness

-----------------------------------------------------------------------------
TypeOK ==
    /\ build \in Builds
    /\ two \in States \cup {Unset} /\ zero \in States \cup {Unset}
    /\ clk \in 0..3 /\ clock \in 0..3 /\ copOut \in Cops
    /\ typed \in Inputs /\ debugStickyKey \in Inputs
    /\ halted \in BOOLEAN /\ animationPending \in BOOLEAN /\ paused \in BOOLEAN
    /\ stepDisabled \in BOOLEAN /\ ran \in BOOLEAN /\ stepBatch \in BOOLEAN
    /\ pendingStepCount \in 0..MaxPending /\ speedMultiplier \in Speeds
    /\ speedCarry \in 0..(Scale - 1)
    /\ frames \in Nat /\ js \in {"idle", "batch"} /\ left \in Nat /\ owed \in Int

(* Stage 2 is the machine state of PageMachine. *)
Machine == INSTANCE PageMachine WITH state <- One

(* Whatever the order of phases, frames, keys and clicks, and whatever     *)
(* phases the CSS clock skips, the stage-1 state every rule reads only     *)
(* changes by whole cycles.                                                *)
AtomicCycles == Machine!Spec

(* Only one run loop exists: a frame is requested exactly while            *)
(* animationPending says so, so no interleaving of clicks and frames makes *)
(* two callbacks that would each tick the machine and reschedule.          *)
OneLoop == /\ frames <= 1
           /\ animationPending <=> frames = 1

(* Between handlers a page that has something to run has its next frame    *)
(* requested: a Run or Step click cannot be swallowed by the frame under   *)
(* way or by the guard of scheduleAnimation.                               *)
Wants == /\ ~halted
         /\ \/ build.mode = "js"
            \/ build.mode = "debugger" /\ (~paused \/ pendingStepCount > 0)
NeverStuck == js = "idle" /\ Wants => frames = 1

(* Every Step click runs exactly one instruction, however clicks, Run      *)
(* toggles and frames interleave; only halting forgives the rest.          *)
StepsExact ==
    \/ halted \/ (js = "batch" /\ left = 0 /\ Terminal)
    \/ owed = pendingStepCount + (IF js = "batch" /\ stepBatch THEN left ELSE 0)

(* A sticky key is only held while the program is stepped: it is never     *)
(* still held when the program runs freely, nor over two batches.          *)
StickyStepped ==
    /\ debugStickyKey # NoInput => paused
    /\ js = "batch" /\ ran /\ ~stepBatch => debugStickyKey = NoInput

(* A program set running goes on ticking until it halts or is paused. *)
KeepsRunning == Wants ~> (~Wants \/ (js = "batch" /\ left > 0))

(* Every Step click is served. *)
StepsServed == owed > 0 ~> (owed = 0 \/ halted)
=============================================================================
