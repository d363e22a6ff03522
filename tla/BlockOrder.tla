----------------------------- MODULE BlockOrder -----------------------------
(***************************************************************************)
(* rpo_indices and the numbering of build_intervals (src/regalloc.rs): the *)
(* order in which the allocator lays the blocks of a function end to end.  *)
(***************************************************************************)
EXTENDS Naturals, Sequences, SequencesExt, FiniteSetsExt

(* Reverse postorder from block 1, then from what it missed.  successors() *)
(* lists the targets in the order of the terminator's fields; here they    *)
(* are taken in block order.                                               *)
RECURSIVE Dfs(_, _, _)
Dfs(blocks, st, b) ==
    IF b \in st.vis THEN st
    ELSE LET deep == FoldLeft(LAMBDA s, c : Dfs(blocks, s, c),
                              [st EXCEPT !.vis = @ \cup {b}],
                              SetToSortSeq(blocks[b].succ, <))
         IN  [deep EXCEPT !.post = Append(@, b)]
Rpo(blocks) ==
    Reverse(FoldLeft(LAMBDA s, b : Dfs(blocks, s, b), [vis |-> {}, post |-> <<>>],
                     [b \in 1..Len(blocks) |-> b]).post)

(* Instructions and terminators are numbered in that order. *)
BlockStarts(blocks) ==
    LET order == Rpo(blocks)
        len(k) == Len(blocks[order[k]].insts) + 1
    IN  [b \in DOMAIN blocks |->
            MapThenSumSet(len, 1..((CHOOSE k \in DOMAIN order : order[k] = b) - 1))]
=============================================================================
