---------------------------- MODULE PageMachine -----------------------------
(***************************************************************************)
(* What the page's clock promises, whichever clock drives it: the machine  *)
(* goes from one state to the next in one piece.  Every register and every *)
(* memory cell of the next state is computed from the same state, with the *)
(* input sampled once, loads seeing the memory the cycle began with, and   *)
(* the coprocessor's answer to this cycle's question.                      *)
(***************************************************************************)
CONSTANTS
    Exec,       \* Exec[r, loads, m, input, cop]: the cycle's next state
    Cop,        \* Cop[r, m, input]: the coprocessor's answer to the cycle
    NoCop,      \* --cop_o while no coprocessor runs
    Inputs,     \* what --kb and --rng0..3 may be
    Start       \* the state the page is loaded in

VARIABLES
    state,      \* the machine state: [r |-> registers, m |-> memory]
    build       \* the page's build, fixed when it is loaded

(* A build: which clock drives it, and whether the browser resolves the    *)
(* keyframes of a running animation again between two frames.              *)
HasCop(b) == b.mode # "css"
Answer(b, s, j) == IF HasCop(b) THEN Cop[s.r, s.m, j] ELSE NoCop
Result(b, s, i, j) == Exec[s.r, s.m, s.m, i, Answer(b, s, j)]

Init == state = Start

(* One cycle.  The coprocessor answers for the input of the cycle, unless  *)
(* the browser samples the input again after the answer (j).               *)
Next ==
    /\ \E i, j \in Inputs : /\ ~build.resamples => i = j
                            /\ state' = Result(build, state, i, j)
    /\ UNCHANGED build

Spec == Init /\ [][Next]_<<state, build>>
=============================================================================
