-------------------------- MODULE PageClock_proofs --------------------------
(***************************************************************************)
(* Proofs about the page's clock, for every program, input, speed and      *)
(* number of clicks.  The inductive invariant joins three arguments: the   *)
(* script's handlers leave a frame requested exactly while something waits *)
(* to run (Loop, NeverStuck), steps are paid one by one (Steps, Sticky),   *)
(* and the two copies of the machine state are never more than one cycle   *)
(* apart (Phases, Copies).                                                 *)
(***************************************************************************)
EXTENDS PageClock, TLAPS

(* The frame bookkeeping, with what it needs of the handler under way. *)
Loop ==
    /\ OneLoop
    /\ js = "batch" => frames = 0 /\ ~halted
    /\ build.mode = "css" => frames = 0 /\ js = "idle"
    /\ paused => build.mode = "debugger"
    /\ NeverStuck

(* Step batches run in the debugger, paused, and take all pending clicks. *)
Steps ==
    /\ js = "batch" => pendingStepCount = 0
    /\ js = "batch" /\ stepBatch => paused
    /\ pendingStepCount > 0 => build.mode = "debugger"
    /\ js = "idle" /\ ~halted => owed = pendingStepCount
    /\ js = "batch" /\ ~(left = 0 /\ Terminal) => owed = IF stepBatch THEN left ELSE 0

(* Where the script's clock stands. *)
Phases ==
    build.mode # "css" =>
        /\ clock = 0 => clk \in {0, 3}
        /\ clock > 0 => clk = clock - 1 /\ js = "batch" /\ left > 0

(* The coprocessor's answer is the one for the cycle being captured. *)
Answers ==
    IF build.mode = "css" THEN copOut = NoCop
    ELSE /\ clock = 3 => copOut = Cop[One.r, One.m, Input]
         /\ clk = 3 => \E j \in Inputs : copOut = Cop[One.r, One.m, j]

(* The execute copy is the machine state or the next one. *)
Ahead == \E i, j \in Inputs : /\ ~build.resamples => i = j
                              /\ zero = Machine!Result(build, One, i, j)
Copies == zero = two \/ Ahead

IInv == TypeOK /\ Loop /\ StickyStepped /\ Steps /\ Phases /\ Answers /\ Copies

-----------------------------------------------------------------------------
(* Facts every step rests on: a build's fields, and that a cycle's result  *)
(* is a machine state.                                                     *)
LEMMA Facts ==
    ASSUME TypeOK
    PROVE  /\ build.mode \in Modes /\ build.resamples \in BOOLEAN
           /\ One \in States /\ Input \in Inputs
           /\ Live \in States
           /\ \A i, j \in Inputs : Machine!Result(build, One, i, j) \in States
           /\ \A j \in Inputs : Cop[One.r, One.m, j] \in Cops
<1> USE ClockAssumption
<1>1. build.mode \in Modes /\ build.resamples \in BOOLEAN
  BY DEF TypeOK
<1>2. One \in States /\ Input \in Inputs
  BY DEF TypeOK, One, Input
<1>3. One.r \in Regs /\ One.m \in Mems
  BY <1>2 DEF States
<1>4. Live \in States
  BY <1>2, <1>3 DEF Live, ReadMem, TypeOK
<1>5. ASSUME NEW j \in Inputs PROVE Cop[One.r, One.m, j] \in Cops
  BY <1>3
<1>6. ASSUME NEW i \in Inputs, NEW j \in Inputs
      PROVE  Machine!Result(build, One, i, j) \in States
  <2>1. Machine!Answer(build, One, j) \in Cops
    BY <1>5 DEF Machine!Answer, Machine!HasCop
  <2> QED BY <2>1, <1>3 DEF Machine!Result
<1> QED BY <1>1, <1>2, <1>4, <1>5, <1>6

LEMMA Division ==
    ASSUME NEW a \in Nat, NEW b \in Nat, b > 0
    PROVE  a \div b \in Nat /\ a % b \in 0..(b - 1)
  OBVIOUS

(* A frame runs a natural number of instructions and carries a proper      *)
(* fraction of one.                                                        *)
LEMMA FrameSizeNat ==
    ASSUME TypeOK
    PROVE  FrameSize \in Nat /\ CarryAfter \in 0..(Scale - 1)
<1> DEFINE total == speedCarry + speedMultiplier
<1>1. total \in Nat /\ Scale \in Nat /\ Scale > 0
  BY ClockAssumption DEF TypeOK
<1>2. pendingStepCount \in Nat /\ speedCarry \in 0..(Scale - 1)
  BY ClockAssumption DEF TypeOK
<1> DEFINE quot == total \div Scale
           rest == total % Scale
<1> HIDE DEF total
<1>3. quot \in Nat /\ rest \in 0..(Scale - 1)
  BY <1>1, Division
<1> HIDE DEF quot, rest
<1>4. /\ FrameSize = IF build.mode = "js" THEN 1
                     ELSE IF StepFrame THEN pendingStepCount
                     ELSE IF FreeFrame THEN quot ELSE 0
      /\ CarryAfter = IF FreeFrame THEN rest ELSE speedCarry
  BY Zenon DEF FrameSize, CarryAfter, quot, rest, total
<1> QED BY <1>2, <1>3, <1>4, SMT

(* scheduleAnimation requests at most one frame, and none that the flag or *)
(* the halt forbids.                                                       *)
LEMMA Scheduled ==
    ASSUME NEW pend \in BOOLEAN, NEW halt \in BOOLEAN, frames \in Nat, Schedule(pend, halt)
    PROVE  /\ frames' \in Nat /\ animationPending' \in BOOLEAN
           /\ pend \/ halt => animationPending' = pend /\ frames' = frames
           /\ ~pend /\ ~halt => animationPending' = TRUE /\ frames' = frames + 1
<1>1. CASE pend \/ halt
  <2>1. animationPending' = pend /\ frames' = frames
    BY <1>1 DEF Schedule
  <2> QED BY <1>1, <2>1
<1>2. CASE ~(pend \/ halt)
  <2>1. animationPending' = TRUE /\ frames' = frames + 1
    BY <1>2 DEF Schedule
  <2>2. frames' \in Nat
    BY <2>1
  <2> QED BY <1>2, <2>1, <2>2
<1> QED BY <1>1, <1>2

(* With one loop, a call that nothing forbids leaves one frame requested.  *)
LEMMA Requested ==
    ASSUME NEW halt \in BOOLEAN, ~halt, frames \in Nat, animationPending \in BOOLEAN, OneLoop,
           Schedule(animationPending, halt)
    PROVE  frames' = 1 /\ animationPending' = TRUE
<1>1. CASE animationPending
  <2>1. frames = 1
    BY <1>1 DEF OneLoop
  <2>2. frames' = frames
    BY <1>1, Scheduled
  <2>3. animationPending' = animationPending
    BY <1>1, Scheduled
  <2>4. animationPending' = TRUE
    BY <1>1, <2>3
  <2> QED BY <2>1, <2>2, <2>4
<1>2. CASE ~animationPending
  <2>1. frames = 0
    BY <1>2 DEF OneLoop
  <2>2. frames' = frames + 1
    BY <1>2, Scheduled
  <2>3. animationPending' = TRUE
    BY <1>2, Scheduled
  <2> QED BY <2>1, <2>2, <2>3
<1> QED BY <1>1, <1>2

LEMMA TypeStep == ASSUME TypeOK, [Next]_vars PROVE TypeOK'
<1> USE ClockAssumption DEF TypeOK
<1>f. Live \in States /\ RunCoprocessor \in Cops
  BY Facts DEF RunCoprocessor
<1>b. Terminal \in BOOLEAN /\ StepFrame \in BOOLEAN /\ FreeFrame \in BOOLEAN
  BY DEF Terminal, StepFrame, FreeFrame
<1>s. ASSUME NEW p \in 0..3, Sample(p)
      PROVE  two' \in States \cup {Unset} /\ zero' \in States \cup {Unset}
  BY <1>s, <1>f DEF Sample, Store, Execute
<1>1. CASE Frame
  <2>1. FrameSize \in Nat
    BY FrameSizeNat
  <2>2. CarryAfter \in 0..(Scale - 1)
    BY FrameSizeNat
  <2>3. frames' \in Nat /\ animationPending' \in BOOLEAN
    <3>1. frames \in Nat /\ frames > 0 /\ frames' = frames - 1
      BY <1>1 DEF Frame, EnterAnimate
    <3>2. animationPending' = FALSE
      BY <1>1 DEF Frame, EnterAnimate
    <3>3. frames' \in Nat
      BY <3>1
    <3> QED BY <3>2, <3>3
  <2>4. CASE halted
    BY <1>1, <2>3, <2>4 DEF Frame, machine, debugger, batch
  <2>5. CASE ~halted
    <3>1. /\ js' = "batch" /\ left' \in Nat /\ ran' \in BOOLEAN
          /\ speedCarry' \in 0..(Scale - 1)
      BY <1>1, <2>5, <2>1, <2>2 DEF Frame
    <3>2. stepBatch' = StepFrame /\ paused' = (paused \/ StepFrame)
      BY <1>1, <2>5 DEF Frame
    <3>3. stepBatch' \in BOOLEAN /\ paused' \in BOOLEAN
      BY <3>2, <1>b
    <3>4. pendingStepCount' \in 0..MaxPending
      BY <1>1, <2>5 DEF Frame
    <3> QED BY <1>1, <2>5, <2>3, <3>1, <3>3, <3>4 DEF Frame, machine
  <2> QED BY <2>4, <2>5
<1>2. CASE TickPhase
  <2>1. owed' \in Int /\ left' \in Nat
    BY <1>2 DEF TickPhase
  <2> QED BY <1>2, <2>1, <1>s, <1>f DEF TickPhase, debugger
<1>3. CASE EndFrame
  <2>1. halted' \in BOOLEAN /\ paused' \in BOOLEAN /\ stepDisabled' \in BOOLEAN
    BY <1>3, <1>b DEF EndFrame, RefreshLabels
  <2>2. frames' \in Nat /\ animationPending' \in BOOLEAN
    BY <1>3, <1>b, Scheduled DEF EndFrame
  <2> QED BY <1>3, <2>1, <2>2 DEF EndFrame, machine
<1>4. CASE RunClick
  <2>1. paused' \in BOOLEAN /\ stepDisabled' \in BOOLEAN
    BY <1>4 DEF RunClick, RefreshLabels
  <2>2. frames' \in Nat /\ animationPending' \in BOOLEAN
    BY <1>4, Scheduled DEF RunClick
  <2> QED BY <1>4, <2>1, <2>2 DEF RunClick, KeyOnRun, machine, batch
<1>5. CASE StepClick
  <2>1. paused' \in BOOLEAN /\ stepDisabled' \in BOOLEAN
    BY <1>5 DEF StepClick, RefreshLabels
  <2>2. frames' \in Nat /\ animationPending' \in BOOLEAN
    BY <1>5, Scheduled DEF StepClick
  <2> QED BY <1>5, <2>1, <2>2 DEF StepClick, machine, batch
<1>6. CASE SetSpeed
  <2>1. frames' \in Nat /\ animationPending' \in BOOLEAN
    BY <1>6, Scheduled DEF SetSpeed
  <2> QED BY <1>6, <2>1 DEF SetSpeed, machine, batch
<1>7. CASE KeyDown
  BY <1>7 DEF KeyDown, Idle, machine, script, batch
<1>8. CASE Type
  BY <1>8 DEF Type, machine, debugger, script, batch
<1>9. CASE Resample
  BY <1>9, <1>s DEF Resample, debugger, script, batch
<1>10. ASSUME NEW p \in 0..3, ClockAt(p) PROVE TypeOK'
  BY <1>10, <1>s DEF ClockAt, Idle, debugger, script, batch
<1>11. CASE UNCHANGED vars
  BY <1>11 DEF vars, machine, debugger, script, batch
<1> QED BY <1>1, <1>2, <1>3, <1>4, <1>5, <1>6, <1>7, <1>8, <1>9, <1>10, <1>11 DEF Next

(* The handlers leave a frame requested exactly while something waits.     *)
LEMMA LoopStep == ASSUME TypeOK, Loop, Steps, [Next]_vars PROVE Loop'
<1> USE DEF Loop, OneLoop, NeverStuck, Wants
<1>t. /\ frames \in Nat /\ pendingStepCount \in Nat
  BY DEF TypeOK
<1>b. /\ Terminal \in BOOLEAN /\ StepFrame \in BOOLEAN /\ animationPending \in BOOLEAN
      /\ halted \in BOOLEAN /\ paused \in BOOLEAN
  BY DEF Terminal, StepFrame, TypeOK
<1>1. CASE Frame
  <2>1. /\ js = "idle" /\ frames = 1 /\ frames' = 0 /\ animationPending' = FALSE
        /\ build' = build /\ halted' = halted
    BY <1>1, <1>t DEF Frame, EnterAnimate
  <2>2. CASE halted
    <3>1. js' = js /\ paused' = paused /\ halted' /\ pendingStepCount' = pendingStepCount
      BY <1>1, <2>2 DEF Frame, batch, debugger
    <3> QED BY <2>1, <3>1
  <2>3. CASE ~halted
    <3>1. js' = "batch" /\ paused' = (paused \/ StepFrame)
      BY <1>1, <2>3 DEF Frame
    <3>2. StepFrame => build.mode = "debugger"
      BY DEF StepFrame
    <3>3. ~halted'
      BY <2>1, <2>3
    <3>4. paused' => build'.mode = "debugger"
      BY <2>1, <3>1, <3>2
    <3>5. build'.mode # "css"
      BY <2>1
    <3> QED BY <2>1, <3>1, <3>3, <3>4, <3>5
  <2> QED BY <2>2, <2>3
<1>2. CASE TickPhase
  BY <1>2 DEF TickPhase, debugger
<1>3. CASE EndFrame
  <2>1. /\ js = "batch" /\ frames = 0 /\ js' = "idle" /\ build' = build
        /\ pendingStepCount = 0 /\ pendingStepCount' = 0 /\ build.mode # "css"
        /\ ~animationPending
    BY <1>3 DEF EndFrame, Steps
  <2>2. halted' = Terminal /\ paused' = (paused \/ (build.mode = "debugger" /\ Terminal))
    BY <1>3 DEF EndFrame
  <2>3. CASE build.mode = "debugger" /\ paused'
    <3>1. frames' = frames /\ animationPending' = animationPending
      BY <1>3, <2>1, <2>3 DEF EndFrame
    <3> QED BY <2>1, <2>2, <2>3, <3>1
  <2>4. CASE ~(build.mode = "debugger" /\ paused')
    <3>1. Schedule(animationPending, Terminal)
      BY <1>3, <2>4 DEF EndFrame
    <3>2. CASE Terminal
      <4>1. frames' = frames /\ animationPending' = animationPending
        BY <3>1, <3>2, <1>t, <1>b, Scheduled
      <4> QED BY <2>1, <2>2, <3>2, <4>1
    <3>3. CASE ~Terminal
      <4>1. frames' = 1 /\ animationPending' = TRUE
        BY <3>1, <3>3, <1>t, <1>b, Requested
      <4>2. OneLoop'
        BY <4>1
      <4>3. paused' => build'.mode = "debugger"
        BY <2>1, <2>2
      <4> QED BY <2>1, <4>1, <4>2, <4>3
    <3> QED BY <3>2, <3>3
  <2> QED BY <2>3, <2>4
<1>4. CASE RunClick
  <2>1. /\ js = "idle" /\ js' = "idle" /\ build' = build /\ build.mode = "debugger" /\ ~halted
        /\ halted' = halted /\ pendingStepCount' = pendingStepCount /\ paused' = ~paused
    BY <1>4 DEF RunClick, Idle, batch
  <2>2. CASE paused'
    BY <1>4, <2>1, <2>2 DEF RunClick
  <2>3. CASE ~paused'
    <3>1. Schedule(animationPending, halted)
      BY <1>4, <2>3 DEF RunClick
    <3>2. frames' = 1 /\ animationPending' = TRUE
      BY <2>1, <3>1, <1>t, <1>b, Requested
    <3> QED BY <2>1, <3>2, <2>3
  <2> QED BY <2>2, <2>3
<1>5. CASE StepClick
  <2>1. /\ js = "idle" /\ js' = "idle" /\ build' = build /\ build.mode = "debugger" /\ ~halted
        /\ halted' = halted
    BY <1>5 DEF StepClick, Idle, batch
  <2>2. Schedule(animationPending, halted)
    BY <1>5 DEF StepClick
  <2>3. frames' = 1 /\ animationPending' = TRUE
    BY <2>1, <2>1, <2>2, <1>t, <1>b, Requested
  <2> QED BY <2>1, <2>3
<1>6. CASE SetSpeed
  <2>1. /\ js = "idle" /\ js' = "idle" /\ build' = build /\ build.mode = "debugger"
        /\ halted' = halted /\ paused' = paused /\ pendingStepCount' = pendingStepCount
    BY <1>6 DEF SetSpeed, Idle, batch
  <2>2. CASE paused \/ halted
    BY <1>6, <2>1, <2>2 DEF SetSpeed
  <2>3. CASE ~(paused \/ halted)
    <3>1. Schedule(animationPending, halted)
      BY <1>6, <2>3 DEF SetSpeed
    <3>2. frames' = 1 /\ animationPending' = TRUE
      BY <2>1, <2>3, <3>1, <1>t, <1>b, Requested
    <3> QED BY <2>1, <3>2
  <2> QED BY <2>2, <2>3
<1>7. CASE KeyDown
  BY <1>7 DEF KeyDown, Idle, machine, script, batch
<1>8. CASE Type
  BY <1>8 DEF Type, machine, debugger, script, batch
<1>9. CASE Resample
  BY <1>9 DEF Resample, debugger, script, batch
<1>10. ASSUME NEW p \in 0..3, ClockAt(p) PROVE Loop'
  BY <1>10 DEF ClockAt, Idle, debugger, script, batch
<1>11. CASE UNCHANGED vars
  BY <1>11 DEF vars, machine, debugger, script, batch
<1> QED BY <1>1, <1>2, <1>3, <1>4, <1>5, <1>6, <1>7, <1>8, <1>9, <1>10, <1>11 DEF Next

(* Steps are paid one by one, and only while the program is stepped is a   *)
(* key held.                                                               *)
LEMMA StepsStep ==
    ASSUME TypeOK, Loop, Steps, StickyStepped, [Next]_vars
    PROVE  Steps' /\ StickyStepped'
<1> USE DEF Steps, StickyStepped
<1>t. /\ pendingStepCount \in Nat /\ left \in Nat /\ owed \in Int
  BY DEF TypeOK
<1>b. /\ Terminal \in BOOLEAN /\ StepFrame \in BOOLEAN /\ stepBatch \in BOOLEAN
      /\ halted \in BOOLEAN /\ paused \in BOOLEAN
  BY DEF Terminal, StepFrame, TypeOK
<1>1. CASE Frame
  <2>1. /\ js = "idle" /\ build' = build /\ owed' = owed /\ halted' = halted
    BY <1>1 DEF Frame
  <2>2. CASE halted
    BY <1>1, <2>1, <2>2 DEF Frame, batch, debugger
  <2>3. CASE ~halted /\ StepFrame
    <3>1. build.mode = "debugger" /\ FrameSize = pendingStepCount
      BY <2>3 DEF StepFrame, FrameSize
    <3>2. js' = "batch" /\ left' = FrameSize /\ pendingStepCount' = 0
      BY <1>1, <2>3 DEF Frame
    <3>3. stepBatch' = StepFrame /\ paused' = (paused \/ StepFrame)
      BY <1>1, <2>3 DEF Frame
    <3>4. stepBatch' /\ paused'
      BY <2>3, <3>3
    <3>5. owed' = left'
      BY <2>1, <2>3, <3>1, <3>2
    <3> QED BY <2>1, <2>3, <3>2, <3>4, <3>5
  <2>4. CASE ~halted /\ ~StepFrame
    <3>1. pendingStepCount = 0
      BY <1>t, <2>4 DEF StepFrame
    <3>2. /\ js' = "batch" /\ ran' = (FrameSize > 0) /\ pendingStepCount' = pendingStepCount
          /\ debugStickyKey' = debugStickyKey
      BY <1>1, <2>4 DEF Frame
    <3>3. stepBatch' = StepFrame /\ paused' = (paused \/ StepFrame)
      BY <1>1, <2>4 DEF Frame
    <3>4. ~stepBatch' /\ (paused' <=> paused)
      BY <2>4, <3>3
    <3>5. owed' = 0
      BY <2>1, <2>4, <3>1
    <3>6. CASE paused
      <4>1. build.mode = "debugger" /\ ~FreeFrame
        BY <3>6 DEF Loop, FreeFrame
      <4>2. FrameSize = 0
        BY <2>4, <4>1 DEF FrameSize
      <4>3. ~(FrameSize > 0)
        BY <4>2
      <4>4. ~ran'
        BY <3>2, <4>3, Zenon
      <4> QED BY <3>1, <3>2, <3>4, <3>5, <3>6, <4>4
    <3>7. CASE ~paused
      BY <3>1, <3>2, <3>4, <3>5, <3>7
    <3> QED BY <3>6, <3>7
  <2> QED BY <2>2, <2>3, <2>4
<1>2. CASE TickPhase
  <2>1. /\ js = "batch" /\ left > 0 /\ js' = js /\ ran' = ran /\ stepBatch' = stepBatch
        /\ build' = build /\ paused' = paused /\ pendingStepCount' = pendingStepCount
        /\ debugStickyKey' = debugStickyKey
    BY <1>2 DEF TickPhase, debugger
  <2>2. owed = IF stepBatch THEN left ELSE 0
    BY <2>1, <1>t
  <2>3. owed' = IF stepBatch THEN left' ELSE 0
    BY <1>2, <2>2 DEF TickPhase
  <2> QED BY <2>1, <2>3
<1>3. CASE EndFrame
  <2>1. /\ js = "batch" /\ left = 0 /\ js' = "idle" /\ build' = build /\ owed' = owed
        /\ pendingStepCount' = pendingStepCount
        /\ debugStickyKey' = IF ran /\ build.mode = "debugger" THEN NoInput ELSE debugStickyKey
    BY <1>3 DEF EndFrame
  <2>2. halted' = Terminal /\ paused' = (paused \/ (build.mode = "debugger" /\ Terminal))
    BY <1>3 DEF EndFrame
  <2>3. ~halted' => owed' = pendingStepCount'
    BY <2>1, <2>2
  <2>4. debugStickyKey' # NoInput => paused'
    BY <2>1, <2>2
  <2> QED BY <2>1, <2>3, <2>4
<1>4. CASE RunClick
  <2>1. /\ js = "idle" /\ js' = "idle" /\ build' = build /\ build.mode = "debugger"
        /\ halted' = halted /\ pendingStepCount' = pendingStepCount /\ owed' = owed
        /\ debugStickyKey' = IF paused' THEN debugStickyKey ELSE NoInput
    BY <1>4 DEF RunClick, Idle, batch, KeyOnRun
  <2>2. CASE paused'
    BY <2>1, <2>2
  <2>3. CASE ~paused'
    BY <2>1, <2>3
  <2> QED BY <2>2, <2>3
<1>5. CASE StepClick
  <2>1. /\ js = "idle" /\ js' = "idle" /\ build' = build /\ build.mode = "debugger"
        /\ halted' = halted /\ pendingStepCount' = pendingStepCount + 1 /\ owed' = owed + 1
        /\ paused' = TRUE
    BY <1>5 DEF StepClick, Idle, batch
  <2>2. owed' = pendingStepCount' \/ halted'
    BY <2>1
  <2> QED BY <2>1, <2>2
<1>6. CASE SetSpeed
  BY <1>6 DEF SetSpeed, Idle, batch, machine
<1>7. CASE KeyDown
  BY <1>7 DEF KeyDown, Idle, machine, script, batch
<1>8. CASE Type
  BY <1>8 DEF Type, machine, debugger, script, batch
<1>9. CASE Resample
  BY <1>9 DEF Resample, debugger, script, batch
<1>10. ASSUME NEW p \in 0..3, ClockAt(p) PROVE Steps' /\ StickyStepped'
  BY <1>10 DEF ClockAt, Idle, debugger, script, batch
<1>11. CASE UNCHANGED vars
  <2>1. UNCHANGED <<build, js, left, ran, stepBatch, owed, halted, paused, pendingStepCount,
                    debugStickyKey>>
    BY <1>11 DEF vars, machine, debugger, script, batch
  <2>2. Terminal' = Terminal
    <3>1. UNCHANGED <<two, copOut, typed, debugStickyKey>>
      BY <1>11 DEF vars, machine, debugger
    <3>2. One' = One /\ Input' = Input
      BY <3>1 DEF One, Input
    <3>3. ReadMem' = ReadMem
      BY <3>2 DEF ReadMem
    <3> QED BY <3>1, <3>2, <3>3 DEF Terminal, Live
  <2>3. CASE js = "idle"
    BY <2>1, <2>3
  <2>4. CASE js = "batch"
    BY <2>1, <2>2, <2>4
  <2>5. js \in {"idle", "batch"}
    BY DEF TypeOK
  <2> QED BY <2>3, <2>4, <2>5
<1> QED BY <1>1, <1>2, <1>3, <1>4, <1>5, <1>6, <1>7, <1>8, <1>9, <1>10, <1>11 DEF Next

(* What the browser would capture now is the result of one cycle.          *)
LiveIsResult == \E i, j \in Inputs : /\ ~build.resamples => i = j
                                     /\ Live = Machine!Result(build, One, i, j)

Commits == [Machine!Next]_<<One, build>>

(* A style update moves the machine by a whole cycle or not at all.        *)
LEMMA SampleStep ==
    ASSUME TypeOK, Copies, NEW p \in 0..3, Sample(p), p = 3 => LiveIsResult, build' = build
    PROVE  /\ Copies' /\ Commits
           /\ p # 1 => One' = One
<1>1. CASE two' = two /\ zero' = zero
  <2>1. One' = One
    BY <1>1 DEF One
  <2> QED BY <1>1, <2>1 DEF Copies, Ahead, Commits
<1>2. CASE p = 1 /\ two' = zero /\ zero' = zero
  <2>1. Copies'
    BY <1>2 DEF Copies
  <2>2. CASE zero = two
    <3>1. One' = One
      BY <1>2, <2>2 DEF One
    <3> QED BY <1>2, <2>1, <3>1 DEF Commits
  <2>3. CASE Ahead
    <3>1. PICK i \in Inputs, j \in Inputs :
             (~build.resamples => i = j) /\ zero = Machine!Result(build, One, i, j)
      BY <2>3 DEF Ahead
    <3>2. zero \in States
      BY <3>1, Facts
    <3>3. One' = zero
      BY <1>2, <3>2, ClockAssumption DEF One
    <3>4. Machine!Next
      BY <3>1, <3>3 DEF Machine!Next
    <3> QED BY <1>2, <2>1, <3>4 DEF Commits
  <2> QED BY <2>2, <2>3 DEF Copies
<1>3. CASE p = 3 /\ two' = two /\ zero' = Live
  <2>1. One' = One
    BY <1>3 DEF One
  <2>2. Ahead'
    BY <1>3, <2>1 DEF LiveIsResult, Ahead
  <2> QED BY <2>1, <2>2 DEF Copies, Commits
<1> QED BY <1>1, <1>2, <1>3 DEF Sample, Store, Execute

(* Without a coprocessor the live state is the result for the live input.  *)
LEMMA LiveWithoutCop ==
    ASSUME TypeOK, Answers, build.mode = "css"
    PROVE  LiveIsResult
<1>1. Live = Machine!Result(build, One, Input, Input)
  BY DEF Live, ReadMem, Answers, Machine!Result, Machine!Answer, Machine!HasCop
<1>2. Input \in Inputs
  BY Facts
<1> QED BY <1>1, <1>2 DEF LiveIsResult

LEMMA LiveWithCop ==
    ASSUME TypeOK, build.mode # "css",
           NEW j \in Inputs, copOut = Cop[One.r, One.m, j], ~build.resamples => j = Input
    PROVE  LiveIsResult
<1>1. Live = Machine!Result(build, One, Input, j)
  BY DEF Live, ReadMem, Machine!Result, Machine!Answer, Machine!HasCop
<1>2. Input \in Inputs
  BY Facts
<1> QED BY <1>1, <1>2 DEF LiveIsResult

(* A step that leaves the machine alone.                                   *)
LEMMA Still ==
    ASSUME Copies, Answers, UNCHANGED <<build, two, zero, copOut, clk, clock>>,
           clock # 3 \/ Input' = Input
    PROVE  Copies' /\ Commits /\ Answers'
<1>1. One' = One
  BY DEF One
<1>2. Copies'
  BY <1>1 DEF Copies, Ahead
<1>3. Answers'
  BY <1>1 DEF Answers
<1> QED BY <1>1, <1>2, <1>3 DEF Commits

(* Every step keeps the copies at most a cycle apart, and commits whole    *)
(* cycles.                                                                 *)
LEMMA CopyStep ==
    ASSUME TypeOK, Loop, Phases, Answers, Copies, [Next]_vars
    PROVE  Phases' /\ Answers' /\ Copies' /\ Commits
<1>t. clock \in 0..3 /\ clk \in 0..3 /\ left \in Nat /\ js \in {"idle", "batch"}
  BY DEF TypeOK
<1>i. js = "idle" /\ build.mode # "css" => clock = 0
  BY <1>t DEF Phases
<1>c. ASSUME UNCHANGED <<build, machine, clock>>, build.mode # "css", clock = 0
      PROVE  Phases' /\ Answers' /\ Copies' /\ Commits
  BY <1>c, Still DEF machine, Phases
<1>1. CASE Frame
  BY <1>1, <1>c, <1>i DEF Frame, Loop
<1>2. CASE TickPhase
  <2>1. /\ clk' = clock /\ clock' = (clock + 1) % 4 /\ build' = build /\ js' = js
        /\ js = "batch" /\ left > 0 /\ Sample(clock)
        /\ left' = IF clock # 3 THEN left ELSE IF Terminal THEN 0 ELSE left - 1
        /\ copOut' = IF clock = 2 THEN RunCoprocessor ELSE copOut
        /\ typed' = typed /\ debugStickyKey' = debugStickyKey
    BY <1>2 DEF TickPhase, debugger
  <2>2. build.mode # "css"
    BY <2>1 DEF Loop
  <2>3. clock = 3 => LiveIsResult
    BY <2>2, LiveWithCop, Facts DEF Answers
  <2>4. Copies' /\ Commits /\ (clock # 1 => One' = One)
    BY <1>t, <2>1, <2>3, SampleStep
  <2>5. Phases'
    <3>1. CASE clock = 3
      BY <2>1, <2>2, <3>1 DEF Phases
    <3>2. CASE clock # 3
      <4>1. clock' = clock + 1
        BY <1>t, <2>1, <3>2
      <4> QED BY <1>t, <2>1, <2>2, <3>2, <4>1 DEF Phases
    <3> QED BY <3>1, <3>2
  <2>6. Answers'
    <3>1. CASE clock = 3
      <4>1. clock' = 0 /\ copOut' = copOut /\ One' = One
        BY <2>1, <2>4, <3>1
      <4>2. Input \in Inputs /\ copOut = Cop[One.r, One.m, Input]
        BY <2>2, <3>1, Facts DEF Answers
      <4>3. clock' # 3 /\ build'.mode # "css"
        BY <2>1, <2>2, <4>1
      <4> QED BY <4>1, <4>2, <4>3, Zenon DEF Answers
    <3>2. CASE clock = 2
      <4>1. clk' = 2 /\ copOut' = RunCoprocessor /\ One' = One /\ Input' = Input
        BY <2>1, <2>4, <3>2 DEF Input
      <4>2. clk' # 3 /\ build'.mode # "css"
        BY <2>1, <2>2, <4>1
      <4> QED BY <4>1, <4>2, Zenon DEF Answers, RunCoprocessor
    <3>3. CASE clock < 2
      <4>1. clock' # 3 /\ clk' # 3 /\ build'.mode # "css"
        BY <1>t, <2>1, <2>2, <3>3
      <4> QED BY <4>1, Zenon DEF Answers
    <3> QED BY <1>t, <3>1, <3>2, <3>3
  <2> QED BY <2>4, <2>5, <2>6
<1>3. CASE EndFrame
  <2>1. clock = 0
    BY <1>3, <1>t DEF EndFrame, Phases, Loop
  <2> QED BY <1>3, <1>c, <2>1 DEF EndFrame, Loop
<1>4. CASE RunClick
  BY <1>4, <1>c, <1>i DEF RunClick, Idle
<1>5. CASE StepClick
  BY <1>5, <1>c, <1>i DEF StepClick, Idle
<1>6. CASE SetSpeed
  BY <1>6, <1>c, <1>i DEF SetSpeed, Idle
<1>7. CASE KeyDown
  BY <1>7, <1>c, <1>i DEF KeyDown, Idle, script
<1>8. CASE Type
  <2>1. CASE build.mode = "css"
    <3>1. /\ UNCHANGED <<build, two, zero, copOut, clk, clock>>
      BY <1>8 DEF Type, machine, script
    <3>2. Phases' /\ Answers'
      BY <2>1, <3>1 DEF Phases, Answers
    <3>3. One' = One
      BY <3>1 DEF One
    <3>4. Copies' /\ Commits
      BY <3>1, <3>3 DEF Copies, Ahead, Commits
    <3> QED BY <3>2, <3>4
  <2>2. CASE build.mode # "css"
    BY <1>8, <1>c, <1>i, <2>2 DEF Type, script
  <2> QED BY <2>1, <2>2
<1>9. CASE Resample
  <2>1. /\ js = "idle" /\ build.resamples /\ Sample(clk) /\ build' = build /\ clk' = clk
        /\ copOut' = copOut /\ clock' = clock
    BY <1>9 DEF Resample, script
  <2>2. clk = 3 => LiveIsResult
    <3>1. CASE build.mode = "css"
      BY <3>1, LiveWithoutCop
    <3>2. CASE build.mode # "css"
      BY <2>1, <3>2, LiveWithCop DEF Answers
    <3> QED BY <3>1, <3>2
  <2>3. Copies' /\ Commits /\ (clk # 1 => One' = One)
    BY <1>t, <2>1, <2>2, SampleStep
  <2>4. Phases' /\ Answers'
    <3>1. CASE build.mode = "css"
      BY <2>1, <3>1 DEF Phases, Answers
    <3>2. CASE build.mode # "css"
      <4>1. clock = 0 /\ clk \in {0, 3}
        BY <1>i, <2>1, <3>2 DEF Phases
      <4>2. One' = One
        BY <2>3, <4>1
      <4>3. Phases'
        BY <2>1, <4>1 DEF Phases
      <4>4. clock' # 3 /\ build'.mode # "css"
        BY <2>1, <3>2, <4>1
      <4>5. Answers'
        BY <2>1, <3>2, <4>2, <4>4, Zenon DEF Answers
      <4> QED BY <4>3, <4>5
    <3> QED BY <3>1, <3>2
  <2> QED BY <2>3, <2>4
<1>10. ASSUME NEW p \in 0..3, ClockAt(p) PROVE Phases' /\ Answers' /\ Copies' /\ Commits
  <2>1. build.mode = "css" /\ build' = build /\ copOut' = copOut /\ Sample(p)
    BY <1>10 DEF ClockAt, Idle
  <2>2. Copies' /\ Commits
    BY <2>1, LiveWithoutCop, SampleStep
  <2>3. Phases' /\ Answers'
    BY <2>1 DEF Phases, Answers
  <2> QED BY <2>2, <2>3
<1>11. CASE UNCHANGED vars
  <2>1. UNCHANGED <<build, two, zero, copOut, clk, clock, typed, debugStickyKey, js, left>>
    BY <1>11 DEF vars, machine, debugger, script, batch
  <2>2. Input' = Input
    BY <2>1 DEF Input
  <2>3. Phases'
    BY <2>1 DEF Phases
  <2> QED BY <2>1, <2>2, <2>3, Still
<1> QED BY <1>1, <1>2, <1>3, <1>4, <1>5, <1>6, <1>7, <1>8, <1>9, <1>10, <1>11 DEF Next

(* The page as loaded. *)
LEMMA InitIInv == Init => IInv
<1> SUFFICES ASSUME Init PROVE IInv
  OBVIOUS
<1>m. build.mode \in Modes
  BY ClockAssumption DEF Init
<1>1. TypeOK
  <2>1. paused \in BOOLEAN /\ stepDisabled \in BOOLEAN /\ animationPending \in BOOLEAN
    BY DEF Init
  <2>2. speedCarry \in 0..(Scale - 1) /\ speedMultiplier \in Speeds
    BY ClockAssumption DEF Init
  <2>3. frames \in Nat /\ pendingStepCount \in 0..MaxPending
    BY ClockAssumption DEF Init
  <2>4. halted \in BOOLEAN /\ ran \in BOOLEAN /\ stepBatch \in BOOLEAN
    BY DEF Init
  <2> QED BY <2>1, <2>2, <2>3, <2>4, ClockAssumption DEF Init, TypeOK
<1>2. Loop
  <2>1. OneLoop
    <3>1. CASE build.mode = "css"
      <4>1. frames = 0 /\ ~animationPending
        BY <3>1 DEF Init
      <4> QED BY <4>1 DEF OneLoop
    <3>2. CASE build.mode # "css"
      <4>1. frames = 1 /\ animationPending
        BY <3>2 DEF Init
      <4> QED BY <4>1 DEF OneLoop
    <3> QED BY <3>1, <3>2
  <2>2. paused => build.mode = "debugger"
    BY DEF Init
  <2>3. NeverStuck
    BY DEF Init, NeverStuck, Wants
  <2> QED BY <2>1, <2>2, <2>3 DEF Init, Loop
<1>3. StickyStepped /\ Steps
  BY DEF Init, StickyStepped, Steps
<1>4. Phases /\ Copies
  BY DEF Init, Phases, Copies
<1>5. Answers
  <2>1. clock # 3 /\ clk # 3 /\ copOut = NoCop
    BY DEF Init
  <2> QED BY <2>1, Zenon DEF Answers
<1> QED BY <1>1, <1>2, <1>3, <1>4, <1>5 DEF IInv

LEMMA NextIInv == IInv /\ [Next]_vars => IInv' /\ Commits
  BY TypeStep, LoopStep, StepsStep, CopyStep DEF IInv

THEOREM Invariance == Spec => []IInv
<1>1. IInv /\ [Next]_vars => IInv'
  BY NextIInv
<1> QED BY InitIInv, <1>1, PTL DEF Spec

(* Every variable keeps its kind: the carry stays a proper fraction of one *)
(* instruction and a copy is a machine state or has never been written.    *)
THEOREM TypeCorrect == Spec => []TypeOK
<1>1. IInv => TypeOK
  BY DEF IInv
<1> QED BY Invariance, <1>1, PTL

(* scheduleAnimation's flag and the requested frames agree, so there is    *)
(* one run loop.                                                           *)
THEOREM OneRunLoop == Spec => []OneLoop
<1>1. IInv => OneLoop
  BY DEF IInv, Loop
<1> QED BY Invariance, <1>1, PTL

(* No click is lost between handlers: what has something to run has a      *)
(* frame.                                                                  *)
THEOREM FrameRequested == Spec => []NeverStuck
<1>1. IInv => NeverStuck
  BY DEF IInv, Loop
<1> QED BY Invariance, <1>1, PTL

(* Each Step click runs one instruction unless the program halts.          *)
THEOREM StepsPaid == Spec => []StepsExact
<1>1. IInv => StepsExact
  <2> SUFFICES ASSUME IInv PROVE StepsExact
    OBVIOUS
  <2>1. js \in {"idle", "batch"} /\ pendingStepCount \in Nat /\ left \in Nat
    BY DEF IInv, TypeOK
  <2>2. CASE js = "idle"
    BY <2>1, <2>2 DEF IInv, Steps, StepsExact
  <2>3. CASE js = "batch"
    BY <2>1, <2>3 DEF IInv, Steps, StepsExact
  <2> QED BY <2>1, <2>2, <2>3
<1> QED BY Invariance, <1>1, PTL

(* A held key never survives into a free run or a second batch.            *)
THEOREM StickyKey == Spec => []StickyStepped
<1>1. IInv => StickyStepped
  BY DEF IInv
<1> QED BY Invariance, <1>1, PTL

(* The page implements the machine that changes by whole cycles.           *)
THEOREM Refinement == Spec => AtomicCycles
<1>1. Init => Machine!Init
  BY DEF Init, Machine!Init, One
<1>2. IInv /\ [Next]_vars => [Machine!Next]_<<One, build>>
  BY NextIInv DEF Commits
<1> QED BY Invariance, <1>1, <1>2, PTL DEF Spec, AtomicCycles, Machine!Spec
=============================================================================
