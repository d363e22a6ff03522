----------------------------- MODULE Activations -----------------------------
(***************************************************************************)
(* What calls promise: each activation of a function has words of its own. *)
(* A stack of activations, each [fn, at, env] where env holds the words    *)
(* that can still be read; what a dead word holds is nobody's business.    *)
(* The stack may be exhausted at any call.                                 *)
(***************************************************************************)
EXTENDS CallPrograms

CONSTANTS
    Keys,        \* the keys that may be pressed
    MaxOut       \* bound: characters a run may print

VARIABLES prog, frames, out, status

vars == <<prog, frames, out, status>>

Top == frames[Len(frames)]
Code(fn) == prog[fn].code
Current == Code(Top.fn)[Top.at]

(* An activation holds what is needed from its next instruction on. *)
Activation(fn, at, env) ==
    [fn |-> fn, at |-> at, env |-> [w \in Needed(prog[fn], at) |-> env[w]]]
Below == SubSeq(frames, 1, Len(frames) - 1)

(* env with every word of fn: those not in it hold 0 (they are not read).  *)
Full(fn, env) == [w \in WordsOf(prog[fn]) |-> IF w \in DOMAIN env THEN env[w] ELSE 0]
Passed(fn, values) ==
    [w \in WordsOf(prog[fn]) |->
        IF \E k \in DOMAIN prog[fn].params : prog[fn].params[k] = w
        THEN values[CHOOSE k \in DOMAIN prog[fn].params : prog[fn].params[k] = w] ELSE 0]

(* What a call enters, by the words at hand: nothing where the index names *)
(* no entry, or one of another type.                                       *)
Target(i, env) ==
    IF ~Indirect(i) THEN Entry("fn", i.arg)
    ELSE LET index == env[Last(i.src)]
         IN  IF index < Len(Table) THEN Resolve(prog, Table[index + 1], i.arg) ELSE Trap
Values(i, env) == [k \in DOMAIN Args(i) |-> env[Args(i)[k]]]
Enters(kind)   == Target(Current, Top.env).kind = kind

ActInit(programs) ==
    /\ prog \in programs
    /\ frames = <<Activation(1, 1, Full(1, <<>>))>>
    /\ out = <<>>
    /\ status = "run"

Step ==
    /\ status = "run" /\ IsLocalStep(Current)
    /\ Current.op = "Put" => Len(out) < MaxOut
    /\ LET env == Full(Top.fn, Top.env)
       IN  /\ frames' = Append(Below, Activation(Top.fn, Goes(Current, Top.at, env), Compute(Current, env)))
           /\ out' = IF Current.op = "Put" THEN Append(out, env[Current.src[1]]) ELSE out
    /\ UNCHANGED <<prog, status>>

ReadKey ==
    /\ status = "run" /\ Current.op = "Key"
    /\ \E key \in Keys :
          frames' = Append(Below, Activation(Top.fn, Top.at + 1,
                                      [Full(Top.fn, Top.env) EXCEPT ![Current.dst] = key]))
    /\ UNCHANGED <<prog, out, status>>

Entered ==
    LET fn == Target(Current, Top.env).fn
    IN  Activation(fn, 1, Passed(fn, Values(Current, Top.env)))

(* The caller keeps what it needs after the call, except the result. *)
Waiting(a) ==
    LET i == Code(a.fn)[a.at]
    IN  [a EXCEPT !.env = [w \in Needed(prog[a.fn], a.at + 1) \ {i.dst} |-> a.env[w]]]
Call ==
    /\ status = "run" /\ IsCall(Current) /\ Enters("fn")
    /\ frames' = Below \o <<Waiting(Top), Entered>>
    /\ UNCHANGED <<prog, out, status>>

TailCall ==
    /\ status = "run" /\ IsTail(Current) /\ Enters("fn")
    /\ frames' = Append(Below, Entered)
    /\ UNCHANGED <<prog, out, status>>

(* The last of some activations goes on with the result of its call. *)
Resumed(waiting, value) ==
    LET caller == Last(waiting)
        i      == Code(caller.fn)[caller.at]
        env    == [Full(caller.fn, caller.env) EXCEPT ![i.dst] = value]
    IN  Append(Front(waiting), Activation(caller.fn, caller.at + 1, env))

Return ==
    /\ status = "run" /\ Current.op = "Ret" /\ Len(frames) > 1
    /\ frames' = Resumed(Below, Top.env[Current.src[1]])
    /\ UNCHANGED <<prog, out, status>>

(* A host prints a byte, which is its answer too, or reads a key. *)
AskHost(key) ==
    LET value == IF Enters("putchar") THEN Values(Current, Top.env)[1] % BYTE ELSE key
    IN  /\ status = "run"
        /\ \/ Enters("putchar") /\ Len(out) < MaxOut /\ out' = Append(out, value)
           \/ Enters("getchar") /\ UNCHANGED out
        /\ frames' = Resumed(IF IsCall(Current) THEN frames ELSE Below, value)
        /\ UNCHANGED <<prog, status>>

Host == status = "run" /\ (IsCall(Current) \/ IsTail(Current)) /\ \E key \in Keys : AskHost(key)

(* No entry, or one of another type. *)
Unreachable ==
    /\ status = "run" /\ Indirect(Current) /\ Enters("null")
    /\ status' = "unreachable"
    /\ frames' = <<>>
    /\ UNCHANGED <<prog, out>>

Exit ==
    /\ status = "run" /\ Current.op = "Ret" /\ Len(frames) = 1
    /\ status' = "exit"
    /\ frames' = <<>>
    /\ UNCHANGED <<prog, out>>

Exhausted ==
    /\ status = "run" /\ IsCall(Current) /\ Enters("fn")
    /\ status' = "overflow"
    /\ frames' = <<>>
    /\ UNCHANGED <<prog, out>>

ActNext == Step \/ ReadKey \/ Call \/ TailCall \/ Return \/ Host \/ Unreachable
               \/ Exit \/ Exhausted
=============================================================================
