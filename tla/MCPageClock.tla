----------------------------- MODULE MCPageClock ----------------------------
(* A program of four cycles: wait for a key; load a byte and store to it in *)
(* the same cycle; ask the coprocessor; leave or start again.               *)
EXTENDS PageClock, TLC

MCInputs == 0..2            \* 2: no key
MCCops == 0..2
MCMems == 0..1
Exit == 4
MCRegs == [pc : 0..Exit, acc : 0..1]
At(pc, acc) == [pc |-> pc, acc |-> acc]

(* Outside its arms every column keeps its value, so a terminal pc holds.  *)
MCExec == [x \in MCRegs \X MCMems \X MCMems \X MCInputs \X MCCops |->
    LET r == x[1]  loads == x[2]  m == x[3]  i == x[4]  cop == x[5]
    IN  CASE r.pc = 0 -> IF i = 2 THEN [r |-> r, m |-> m]
                                  ELSE [r |-> At(1, i), m |-> m]
          [] r.pc = 1 -> [r |-> At(2, loads), m |-> r.acc]
          [] r.pc = 2 -> [r |-> At(IF cop = 0 THEN 0 ELSE 3, cop % 2), m |-> (m + i) % 2]
          [] r.pc = 3 -> [r |-> At(IF r.acc = 1 THEN Exit ELSE 0, r.acc), m |-> m]
          [] OTHER -> [r |-> r, m |-> m]]

(* cop_op is 0, and the answer 0, where the cycle asks nothing. *)
MCCop == [x \in MCRegs \X MCMems \X MCInputs |->
    IF x[1].pc = 2 THEN 1 + ((x[1].acc + x[3]) % 2) ELSE 0]

MCStart == [r |-> At(0, 0), m |-> 1]
MCTerminal == {r \in MCRegs : r.pc = Exit}
MCBuilds == [mode : Modes, resamples : BOOLEAN]
=============================================================================
