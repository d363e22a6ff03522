----------------------------- MODULE LinearScan -----------------------------
(***************************************************************************)
(* linear_scan (src/regalloc.rs): one function's register groups (words of *)
(* four byte registers), each live over an interval of positions, receive  *)
(* physical groups.  One step of Next is one iteration of its loop over    *)
(* the intervals.  Groups and positions are u16 and u32 in the code; a     *)
(* program has fewer than 2^14 groups, so neither reaches its limit.       *)
(***************************************************************************)
EXTENDS Naturals, Sequences, FiniteSets

(* What a scan is given: for each group its interval, and its copies from  *)
(* and to other groups, as <<block, instruction, the other group>>.        *)
Interval == [start : Nat, end : Nat]

ValidInput(x) ==
    LET G == DOMAIN x.interval
    IN  /\ IsFiniteSet(G) /\ G \subseteq Nat
        /\ \A g \in G : x.interval[g] \in Interval
                        /\ x.interval[g].start <= x.interval[g].end
        /\ x.partners \in [G -> SUBSET (Nat \X Nat \X G)]

VARIABLES
    input,      \* group_intervals and copy_partners
    todo,       \* groups the loop has not reached
    active,     \* groups whose register is in use
    phys,       \* group_to_phys, defined on the groups allocated so far
    freedAt,    \* FreePool: free physical group -> when it was freed
    nextPhys    \* the next physical group never used

scanVars == <<input, todo, active, phys, freedAt, nextPhys>>

Groups   == DOMAIN input.interval
Start(g) == input.interval[g].start
End(g)   == input.interval[g].end

(* The sort key (start, end, group). *)
Precedes(g, h) ==
    \/ Start(g) < Start(h)
    \/ Start(g) = Start(h) /\ End(g) < End(h)
    \/ Start(g) = Start(h) /\ End(g) = End(h) /\ g < h
IsNextGroup(g) == g \in todo /\ \A h \in todo \ {g} : Precedes(g, h)

(* Slip: a group ends where the next one starts. *)
Expired_AtStart(g) == {h \in active : End(h) <= Start(g)}
Expired(g) == {h \in active : End(h) < Start(g)}

(* The pool once the groups that end before g have returned theirs. *)
Pool(g) ==
    LET back == {phys[h] : h \in Expired(g)}
    IN  [p \in DOMAIN freedAt \cup back |->
            IF p \in back THEN End(CHOOSE h \in Expired(g) : phys[h] = p)
                          ELSE freedAt[p]]

(* The first copy partner whose register is free offers it. *)
Earlier(c, e) == c[1] < e[1] \/ (c[1] = e[1] /\ c[2] < e[2])
Offers(g, c, p) == c[3] \in DOMAIN phys /\ phys[c[3]] = p /\ p \in DOMAIN Pool(g)
Biased(g, p) ==
    \E c \in input.partners[g] :
        /\ Offers(g, c, p)
        /\ \A e \in input.partners[g] :
             Earlier(e, c) => \A q \in DOMAIN Pool(g) : ~Offers(g, e, q)

(* pop_oldest: freed first, the smaller number first among equals. *)
Oldest(pool, p) ==
    /\ p \in DOMAIN pool
    /\ \A q \in DOMAIN pool : pool[p] < pool[q] \/ (pool[p] = pool[q] /\ p <= q)

IsChoice(g, p) ==
    \/ Biased(g, p)
    \/ /\ \A q \in DOMAIN Pool(g) : ~Biased(g, q)
       /\ IF DOMAIN Pool(g) # {} THEN Oldest(Pool(g), p) ELSE p = nextPhys

StartScan(x) ==
    /\ input = x
    /\ todo = DOMAIN x.interval
    /\ active = {}
    /\ phys = <<>>
    /\ freedAt = <<>>
    /\ nextPhys = 1

Restart(x) ==
    /\ input' = x
    /\ todo' = DOMAIN x.interval
    /\ active' = {}
    /\ phys' = <<>>
    /\ freedAt' = <<>>
    /\ nextPhys' = 1

Assign(g, p) ==
    /\ IsNextGroup(g)
    /\ IsChoice(g, p)
    /\ phys' = [h \in DOMAIN phys \cup {g} |-> IF h = g THEN p ELSE phys[h]]
    /\ active' = (active \ Expired(g)) \cup {g}
    /\ freedAt' = [q \in DOMAIN Pool(g) \ {p} |-> Pool(g)[q]]
    /\ nextPhys' = IF p = nextPhys THEN nextPhys + 1 ELSE nextPhys
    /\ todo' = todo \ {g}
    /\ UNCHANGED input

Next == \E g \in todo, p \in 1..nextPhys : Assign(g, p)

ScanSpec(x) == StartScan(x) /\ [][Next]_scanVars
-----------------------------------------------------------------------------
Overlap(g, h) == Start(g) <= End(h) /\ Start(h) <= End(g)

TypeOK ==
    /\ ValidInput(input)
    /\ todo \subseteq Groups
    /\ DOMAIN phys = Groups \ todo
    /\ active \subseteq DOMAIN phys
    /\ nextPhys \in Nat \ {0}
    /\ phys \in [DOMAIN phys -> 1..(nextPhys - 1)]
    /\ freedAt \in [DOMAIN freedAt -> Nat]

(* Two groups that are live at a common position never share a register.   *)
NoSharing ==
    \A g, h \in DOMAIN phys : g # h /\ Overlap(g, h) => phys[g] # phys[h]

(* A physical group is free, or held by exactly one active group: none is  *)
(* leaked, handed out while in use, or returned to the pool twice.         *)
PoolExact ==
    /\ \A g, h \in active : phys[g] = phys[h] => g = h
    /\ DOMAIN freedAt \cap {phys[g] : g \in active} = {}
    /\ DOMAIN freedAt \cup {phys[g] : g \in active} = 1..(nextPhys - 1)

(* No register more than needed: at some position every physical group     *)
(* handed out so far is live.                                              *)
LiveAt(t) == {g \in DOMAIN phys : Start(g) <= t /\ t <= End(g)}
NoWaste ==
    nextPhys > 1 =>
        \E h \in DOMAIN phys : {phys[g] : g \in LiveAt(Start(h))} = 1..(nextPhys - 1)

(* The copy bias never fires when copy partners are live together, as they *)
(* are at the copy between them: the partner's register is never free when *)
(* the group's turn comes.                                                 *)
BiasNeverFires ==
    \A g \in todo : IsNextGroup(g) => \A p \in DOMAIN Pool(g) : ~Biased(g, p)
=============================================================================
