--------------------------- MODULE BlockScheduler ---------------------------
(***************************************************************************)
(* schedule_block_ops (src/schedule.rs): the greedy list scheduler that    *)
(* packs the instructions of one basic block into cycles.  One step of     *)
(* Next is one iteration of its while loop, the last one the flush after   *)
(* it.  Instructions are named by their index in the block.                *)
(***************************************************************************)
EXTENDS Inst8, FiniteSetsExt

CONSTANTS
    Blocks,          \* the instruction sequences a block may hold
    MaxOps,          \* SCHEDULE_MAX_OPS_PER_CYCLE
    MaxComplexity,   \* SCHEDULE_MAX_COMPLEXITY_PER_CYCLE
    MaxStores        \* SCHEDULE_MAX_STORE_MEM_PER_CYCLE

Block == [op : Ops, dst : STRING, src : Seq(STRING), at : Nat]

ASSUME BlocksAssumption == Blocks \subseteq Seq(Block)
ASSUME LimitsAssumption ==
    /\ MaxOps \in Nat \ {0}
    /\ MaxComplexity \in Nat \ {0}
    /\ MaxStores \in Nat \ {0}

VARIABLES
    insts,      \* the block's instructions
    height,     \* length of the longest dependence chain an index starts
    indeg,      \* number of predecessors not yet placed
    ready,      \* indices that may be placed now
    current,    \* the PendingCycle: [ops, complexity, memStoreCount]
    cycles      \* the finished cycles

vars == <<insts, height, indeg, ready, current, cycles>>

Idx == DOMAIN insts
SuccsIn(blk, i) == {j \in DOMAIN blk : i < j /\ MustOrderBefore(blk[i], blk[j])}
PredsIn(blk, j) == {i \in DOMAIN blk : i < j /\ MustOrderBefore(blk[i], blk[j])}
Succs(i) == SuccsIn(insts, i)
Preds(j) == PredsIn(insts, j)

Heights(blk) ==
    LET h[i \in DOMAIN blk] == Max({1} \cup {1 + h[s] : s \in SuccsIn(blk, i)})
    IN  h

EmptyCycle == [ops |-> <<>>, complexity |-> 0, memStoreCount |-> 0]

(* Slip: compare only with the last op of the cycle. *)
CanAppend_LastOnly(i) ==
    /\ current.ops # <<>>
    /\ ~IsGetchar(insts[i])
    /\ IsStoreMem(insts[i]) => current.memStoreCount < MaxStores
    /\ Len(current.ops) < MaxOps
    /\ current.complexity + InstComplexity(insts[i]) <= MaxComplexity
    /\ CanShareCycleAfter(insts[current.ops[Len(current.ops)]], insts[i])

CanAppend(i) ==
    /\ current.ops # <<>>
    /\ ~IsGetchar(insts[i])
    /\ IsStoreMem(insts[i]) => current.memStoreCount < MaxStores
    /\ Len(current.ops) < MaxOps
    /\ current.complexity + InstComplexity(insts[i]) <= MaxComplexity
    /\ \A k \in DOMAIN current.ops :
           CanShareCycleAfter(insts[current.ops[k]], insts[i])

Push(i) ==
    [ops           |-> Append(current.ops, i),
     complexity    |-> current.complexity + InstComplexity(insts[i]),
     memStoreCount |-> current.memStoreCount
                          + (IF IsStoreMem(insts[i]) THEN 1 ELSE 0)]

(* The tallest index of S, the first of them in block order. *)
IsPick(i, S) ==
    /\ i \in S
    /\ \A j \in S : height[i] > height[j] \/ (height[i] = height[j] /\ i <= j)

Candidates == IF current.ops = <<>> THEN ready ELSE {i \in ready : CanAppend(i)}

(* Slips: forget to take i out of ready; release a successor at its first  *)
(* predecessor; count no edge of i.                                        *)
Release_StaysReady(i) ==
    LET left == [j \in Idx |-> IF j \in Succs(i) THEN indeg[j] - 1 ELSE indeg[j]]
    IN  /\ indeg' = left
        /\ ready' = ready \cup {j \in Succs(i) : left[j] = 0}
Release_FirstEdge(i) ==
    LET left == [j \in Idx |-> IF j \in Succs(i) THEN indeg[j] - 1 ELSE indeg[j]]
    IN  /\ indeg' = left
        /\ ready' = (ready \ {i}) \cup {j \in Succs(i) : left[j] <= 1}
Release_MissesZero(i) ==
    LET left == [j \in Idx |-> IF j \in Succs(i) THEN indeg[j] - 1 ELSE indeg[j]]
    IN  /\ indeg' = left
        /\ ready' = (ready \ {i}) \cup {j \in Succs(i) : indeg[j] = 0}

(* Retire i from the dependence graph; what it alone held back is ready. *)
Release(i) ==
    LET left == [j \in Idx |-> IF j \in Succs(i) THEN indeg[j] - 1 ELSE indeg[j]]
    IN  /\ indeg' = left
        /\ ready' = (ready \ {i}) \cup {j \in Succs(i) : left[j] = 0}

-----------------------------------------------------------------------------
Init ==
    /\ insts \in Blocks
    /\ height = Heights(insts)
    /\ indeg = [j \in Idx |-> Cardinality(Preds(j))]
    /\ ready = {j \in Idx : indeg[j] = 0}
    /\ current = EmptyCycle
    /\ cycles = <<>>

(* An ordinary instruction joins the pending cycle (or opens it). *)
Place(i) ==
    /\ IsPick(i, Candidates)
    /\ ~IsGetchar(insts[i])
    /\ current' = Push(i)
    /\ Release(i)
    /\ UNCHANGED <<insts, height, cycles>>

(* A blocking Getchar becomes a cycle of its own at once. *)
PlaceGetchar(i) ==
    /\ IsPick(i, Candidates)
    /\ IsGetchar(insts[i])
    /\ cycles' = Append(cycles, <<i>>)
    /\ Release(i)
    /\ UNCHANGED <<insts, height, current>>

(* Nothing that is ready fits: close the pending cycle. *)
Close ==
    /\ ready # {}
    /\ Candidates = {}
    /\ cycles' = Append(cycles, current.ops)
    /\ current' = EmptyCycle
    /\ UNCHANGED <<insts, height, indeg, ready>>

(* Slip: only a full cycle is flushed. *)
Flush_FullOnly ==
    /\ ready = {}
    /\ Len(current.ops) = MaxOps
    /\ cycles' = Append(cycles, current.ops)
    /\ current' = EmptyCycle
    /\ UNCHANGED <<insts, height, indeg, ready>>

Flush ==
    /\ ready = {}
    /\ current.ops # <<>>
    /\ cycles' = Append(cycles, current.ops)
    /\ current' = EmptyCycle
    /\ UNCHANGED <<insts, height, indeg, ready>>

Next ==
    \/ \E i \in Idx : Place(i) \/ PlaceGetchar(i)
    \/ Close
    \/ Flush

Spec == Init /\ [][Next]_vars /\ WF_vars(Next)
-----------------------------------------------------------------------------
(* What has been placed so far, and where. *)
InCycle(c) == {cycles[c][k] : k \in DOMAIN cycles[c]}
InCycles   == UNION {InCycle(c) : c \in DOMAIN cycles}
InCurrent  == {current.ops[k] : k \in DOMAIN current.ops}
Placed     == InCycles \cup InCurrent
Done       == ready = {} /\ current.ops = <<>>

(* The variables of the loop stay in range: in particular no dependence    *)
(* count is decremented below zero.                                        *)
TypeOK ==
    /\ insts \in Blocks
    /\ indeg \in [Idx -> Nat]
    /\ ready \subseteq Idx
    /\ current \in [ops : Seq(Idx), complexity : Nat, memStoreCount : Nat]
    /\ cycles \in Seq(Seq(Idx))

(* indeg counts the predecessors still waiting, and ready is exactly the   *)
(* set of unplaced instructions that wait for nothing: the incremental     *)
(* bookkeeping of the loop never drifts from the dependence graph.         *)
ReadyIsExact ==
    /\ \A j \in Idx : indeg[j] = Cardinality(Preds(j) \ Placed)
    /\ ready = {j \in Idx \ Placed : Preds(j) \subseteq Placed}

(* Every instruction placed so far comes after all it depends on: in an    *)
(* earlier cycle, or earlier in the same one.                              *)
OrderRespected ==
    /\ \A c \in DOMAIN cycles : \A k \in DOMAIN cycles[c] :
         \A i \in Preds(cycles[c][k]) :
           \/ \E d \in 1..(c - 1) : i \in InCycle(d)
           \/ \E m \in 1..(k - 1) : cycles[c][m] = i
    /\ \A k \in DOMAIN current.ops : \A i \in Preds(current.ops[k]) :
         i \in InCycles \/ \E m \in 1..(k - 1) : current.ops[m] = i

(* No instruction is placed twice. *)
PlacedOnce ==
    /\ \A c, d \in DOMAIN cycles : \A k \in DOMAIN cycles[c] : \A m \in DOMAIN cycles[d] :
         cycles[c][k] = cycles[d][m] => c = d /\ k = m
    /\ \A k, m \in DOMAIN current.ops : current.ops[k] = current.ops[m] => k = m
    /\ InCycles \cap InCurrent = {}

(* No cycle holds a pair that may not share one in that order, and a       *)
(* blocking Getchar, whose cycle is re-executed until a key comes, is      *)
(* alone in its own.                                                       *)
Compatible(ops) ==
    /\ \A k \in DOMAIN ops : \A m \in 1..(k - 1) :
         CanShareCycleAfter(insts[ops[m]], insts[ops[k]])
    /\ \A k \in DOMAIN ops : IsGetchar(insts[ops[k]]) => Len(ops) = 1
CyclesCompatible ==
    /\ \A c \in DOMAIN cycles : cycles[c] # <<>> /\ Compatible(cycles[c])
    /\ Compatible(current.ops)

(* The loop stops for want of ready instructions only when the whole block *)
(* is placed: nothing is lost in a count that never reaches zero.          *)
ScheduleComplete == Done => Placed = Idx

(* The loop stops: closing a cycle always lets something ready be placed.  *)
Terminates == <>[]Done
=============================================================================
