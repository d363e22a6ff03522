----------------------------- MODULE OptMemory ------------------------------
(***************************************************************************)
(* The memory passes of the IR8 optimiser: store-to-load forwarding and    *)
(* dead stores within a block (src/opt8/mod.rs), the fusion of an          *)
(* increment of four bytes (src/opt8/meminc.rs), and stores of the initial *)
(* value (src/opt8/initstore.rs).                                          *)
(*                                                                         *)
(* Two accesses may alias whenever their address registers differ, so the  *)
(* block passes follow one address at a time and forget it at the first    *)
(* instruction that might move it.                                         *)
(***************************************************************************)
EXTENDS OptRewrite

CONSTANT MaxDelta       \* the largest increment a registered property holds: 999_999

NoAddr == <<>>
Addr(inst)   == SubSeq(inst.args, 1, 2)
Offset(inst) == inst.base + inst.lane

(* The bytes stored through the followed address, with the operand stored. *)
Forget(s, dst) ==
    IF dst = NoDst \/ s.addr = NoAddr THEN s
    ELSE IF AddrUsesReg(s.addr, dst) THEN [s EXCEPT !.addr = NoAddr, !.fwd = <<>>]
    ELSE LET kept == {o \in DOMAIN s.fwd : s.fwd[o] # dst}
         IN  [s EXCEPT !.fwd  = [o \in kept |-> s.fwd[o]],
                       !.addr = IF kept = {} THEN NoAddr ELSE @]

stlf_block(insts) ==
    LET load(s, i)  == IF s.addr = Addr(i) /\ Offset(i) \in DOMAIN s.fwd
                       THEN Inst("Copy", i.dst, <<s.fwd[Offset(i)]>>)
                       ELSE i
        store(s, i) == [s EXCEPT !.addr = Addr(i),
                                 !.fwd  = (Offset(i) :> i.args[3]) @@
                                          (IF s.addr \notin {NoAddr, Addr(i)} THEN <<>> ELSE @)]
        step(s, i)  == LET j    == IF i.op = "Load" THEN load(s, i) ELSE i
                           seen == IF i.op = "Store" THEN store(s, i) ELSE s
                       IN  Forget([seen EXCEPT !.insts = Append(@, j)], i.dst)
    IN  FoldLeft(step, [addr |-> NoAddr, fwd |-> <<>>, insts |-> <<>>], insts).insts

(* Backward: the bytes that are stored again before anything may read them. *)
local_dead_mem_store_elim_block(insts) ==
    LET same(s, i)  == s.addr = Addr(i)
        store(i, s) == [addr  |-> Addr(i),
                        again |-> (IF same(s, i) THEN s.again ELSE {}) \cup {Offset(i)},
                        insts |-> IF same(s, i) /\ Offset(i) \in s.again THEN s.insts
                                                                         ELSE <<i>> \o s.insts]
        load(i, s)  == LET again == IF same(s, i) THEN s.again \ {Offset(i)} ELSE {}
                       IN  [addr  |-> IF again = {} THEN NoAddr ELSE s.addr,
                            again |-> again,
                            insts |-> <<i>> \o s.insts]
        step(i, s)  == LET seen == CASE i.op = "Store" -> store(i, s)
                                     [] i.op = "Load"  -> load(i, s)
                                     [] OTHER          -> [s EXCEPT !.insts = <<i>> \o @]
                       IN  IF i.dst # NoDst /\ AddrUsesReg(seen.addr, i.dst)
                           THEN [seen EXCEPT !.addr = NoAddr, !.again = {}]
                           ELSE seen
    IN  FoldRight(step, insts, [addr |-> NoAddr, again |-> {}, insts |-> <<>>]).insts

-----------------------------------------------------------------------------
(* Fusing `load32; add32; store32` of the same four bytes.                 *)

(* The base field and the lane of byte j (0..3) of the word at base. *)
byte_pos(base, j) == <<base + 2 * (j \div 2), j % 2>>

FirstOf(insts, test(_)) ==
    LET at == {k \in DOMAIN insts : test(insts[k])} IN IF at = {} THEN 0 ELSE Min(at)

(* The bytes up to a lane as one number, or -1 if one is not immediate. *)
imm_prefix(word, lane) ==
    IF \A k \in 1..(lane + 1) : IsImm(word[k])
    THEN LE([k \in 1..(lane + 1) |-> ImmValue(word[k])], lane + 1)
    ELSE -1

(* The word that an addition or subtraction bumps, and by how much. *)
Bumps(inst, lane) ==
    LET l   == Lhs(inst.args)
        r   == Rhs(inst.args)
        minus == imm_prefix(r, lane)
    IN  CASE inst.lane # lane -> {}
          [] inst.op = "Add32" /\ imm_prefix(r, lane) # -1 -> {[word |-> l, delta |-> imm_prefix(r, lane)]}
          [] inst.op = "Add32" /\ imm_prefix(l, lane) # -1 -> {[word |-> r, delta |-> imm_prefix(l, lane)]}
          [] inst.op = "Sub32" /\ minus # -1 -> {[word |-> l, delta |-> (-minus) % WORD]}
          [] OTHER -> {}

(* The only definition of r, when it is in the block. *)
DefIn(insts, defs, r) == IF Times(defs, r) = 1 THEN FirstOf(insts, LAMBDA i : i.dst = r) ELSE 0

(* The place of the store, sum or load of each of the four bytes. *)
ByteStores(insts, addr, base) ==
    [j \in 0..3 |-> FirstOf(insts, LAMBDA i :
        i.op = "Store" /\ Addr(i) = addr /\ <<i.base, i.lane>> = byte_pos(base, j))]
ByteSums(insts, store, defs)   == [j \in 0..3 |-> DefIn(insts, defs, insts[store[j]].args[3])]
ByteLoads(insts, loaded, defs) == [j \in 0..3 |-> DefIn(insts, defs, loaded[j + 1])]

(* Loads read the old value, and nothing within may touch the memory or    *)
(* move the address.                                                       *)
Undisturbed(insts, addr, load, store, all) ==
    /\ Cardinality(all) = 12
    /\ \A k \in Min(all)..Max(all) \ all : /\ insts[k].op \notin {"Load", "Store", "MemInc"}
                                          /\ ~AddrUsesReg(addr, insts[k].dst)
    /\ \A j, k \in 0..3 : load[j] <= store[k]

(* A sum of lane j knows the low j + 1 bytes of the word and the increment. *)
SameBump(bump, word, delta) ==
    /\ \A j \in 0..3 : \A k \in 1..(j + 1) : bump[j].word[k] = word[k]
    /\ \A j \in 0..2 : (bump[j].delta - delta) % (BASE ^ (j + 1)) = 0
    /\ AbsInt(Signed(delta)) <= MaxDelta

LoadsWord(insts, addr, base, load) ==
    \A j \in 0..3 : /\ load[j] # 0
                    /\ insts[load[j]].op = "Load"
                    /\ Addr(insts[load[j]]) = addr
                    /\ <<insts[load[j]].base, insts[load[j]].lane>> = byte_pos(base, j)

(* The group as the set of its places, that of its first store, and the    *)
(* instruction put there; no group when one of the conditions fails.       *)
Fused(addr, base, delta, all, store) ==
    [all |-> all, at |-> Min({store[j] : j \in 0..3}),
     inst |-> [Inst("MemInc", NoDst, addr) EXCEPT !.base = base, !.imm = delta]]

Scattered(store, sum, load) == UNION {{store[j], sum[j], load[j]} : j \in 0..3}

WithWord(insts, first, store, sum, load, word, delta, uses) ==
    IF /\ \A j \in 0..3 : Times(uses, word[j + 1]) = 4 - j
       /\ LoadsWord(insts, Addr(first), first.base, load)
       /\ Undisturbed(insts, Addr(first), load, store, Scattered(store, sum, load))
    THEN {Fused(Addr(first), first.base, delta, Scattered(store, sum, load), store)}
    ELSE {}

WithBumps(insts, first, store, sum, bump, uses, defs) ==
    IF SameBump(bump, bump[3].word, bump[3].delta)
    THEN WithWord(insts, first, store, sum, ByteLoads(insts, bump[3].word, defs),
                  bump[3].word, bump[3].delta, uses)
    ELSE {}

WithSums(insts, first, store, sum, uses, defs) ==
    IF \A j \in 0..3 : sum[j] # 0 /\ Bumps(insts[sum[j]], j) # {}
    THEN WithBumps(insts, first, store, sum,
                   [j \in 0..3 |-> CHOOSE b \in Bumps(insts[sum[j]], j) : TRUE], uses, defs)
    ELSE {}

WithStores(insts, first, store, uses, defs) ==
    IF \A j \in 0..3 : store[j] # 0 /\ Times(uses, insts[store[j]].args[3]) = 1
    THEN WithSums(insts, first, store, ByteSums(insts, store, defs), uses, defs)
    ELSE {}

(* The group that begins with the given store. *)
match_at(insts, first, uses, defs) ==
    IF first.op = "Store" /\ first.lane = 0
    THEN WithStores(insts, first, ByteStores(insts, Addr(first), first.base), uses, defs)
    ELSE {}

Places(insts) == [k \in DOMAIN insts |-> k]
ReplaceGroup(insts, m) ==
    LET keep == SelectSeq(Places(insts), LAMBDA k : k \notin m.all \/ k = m.at)
    IN  [k \in DOMAIN keep |-> IF keep[k] = m.at THEN m.inst ELSE insts[keep[k]]]

(* The counts are those of the function: a fused group's registers are used *)
(* inside the group only, so no other group's counts change.  After a group *)
(* the search begins again.                                                 *)
RECURSIVE FuseBlock(_, _, _, _)
FuseBlock(insts, from, uses, defs) ==
    IF from > Len(insts) THEN insts
    ELSE LET found == match_at(insts, insts[from], uses, defs)
         IN  IF found = {} THEN FuseBlock(insts, from + 1, uses, defs)
             ELSE FuseBlock(ReplaceGroup(insts, CHOOSE m \in found : TRUE), 1, uses, defs)

fuse_mem_inc(blocks) ==
    LET uses == collect_use_counts(blocks)
        defs == collect_def_counts(blocks)
    IN  MapBlocks(blocks, LAMBDA insts : FuseBlock(insts, 1, uses, defs))

-----------------------------------------------------------------------------
(* Stores of the initial image.  A block's state is the set of bytes that  *)
(* may differ from the image; Everything when any may.                     *)
Everything == 0..(MemEnd - 1)

ConstAddr(inst) == IsImm(inst.args[1]) /\ IsImm(inst.args[2])
Place(inst)     == ImmValue(inst.args[1]) + BASE * ImmValue(inst.args[2]) + Offset(inst)

(* A store that writes what is there anyway. *)
Redundant(inst, modified, image) ==
    /\ inst.op = "Store"
    /\ ConstAddr(inst)
    /\ Place(inst) < MemEnd
    /\ Place(inst) \notin modified
    /\ inst.args[3] = Imm(image[Place(inst)])

Transfer(inst, modified, image) ==
    CASE inst.op \notin {"Store", "MemInc"}      -> modified
      [] ~ConstAddr(inst)                        -> Everything
      [] inst.op = "MemInc"                      -> modified \cup Place(inst)..(Place(inst) + 3)
      [] Redundant(inst, modified, image)        -> modified
      [] OTHER                                   -> modified \cup {Place(inst)}

AfterBlock(block, modified, image) ==
    IF block.term.op = "CallSetup" THEN Everything
    ELSE FoldLeft(LAMBDA m, i : Transfer(i, m, image), modified, block.insts)

(* What may be modified when a reached block begins: external names the    *)
(* blocks entered from elsewhere, which begin with unknown memory.         *)
RECURSIVE ModifiedAt(_, _, _)
ModifiedAt(blocks, image, state) ==
    LET index(id) == CHOOSE k \in DOMAIN blocks : blocks[k].id = id
        into(id)  == {k \in DOMAIN blocks : blocks[k].id \in DOMAIN state /\ id \in Successors(blocks[k].term)}
        reached   == DOMAIN state \cup UNION {Successors(blocks[index(id)].term) : id \in DOMAIN state}
        old(id)   == IF id \in DOMAIN state THEN state[id] ELSE {}
        next      == <<>> @@ [id \in reached |->
                        old(id) \cup UNION {AfterBlock(blocks[k], state[blocks[k].id], image) : k \in into(id)}]
    IN  IF next = state THEN state ELSE ModifiedAt(blocks, image, next)

drop_initial_stores(blocks, external, image) ==
    LET entry == blocks[1].id
        own   == {blocks[k].id : k \in DOMAIN blocks}
        seed  == (entry :> {}) @@ [id \in external \cap own |-> Everything]
        state == ModifiedAt(blocks, image, seed)
        scan(m0, insts) == FoldLeft(LAMBDA s, i :
                              [insts |-> IF Redundant(i, s.m, image) THEN s.insts ELSE Append(s.insts, i),
                               m     |-> Transfer(i, s.m, image)],
                              [insts |-> <<>>, m |-> m0], insts).insts
    IN  IF entry \in external THEN blocks
        ELSE [k \in DOMAIN blocks |->
                IF blocks[k].id \in DOMAIN state
                THEN [blocks[k] EXCEPT !.insts = scan(state[blocks[k].id], @)]
                ELSE blocks[k]]
=============================================================================
