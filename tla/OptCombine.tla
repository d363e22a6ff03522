----------------------------- MODULE OptCombine -----------------------------
(***************************************************************************)
(* Passes that look through the definition of an operand: src/opt8/        *)
(* instcombine.rs, which folds an instruction with the single definition   *)
(* of what it reads, and src/opt8/bool.rs, which flattens trees of         *)
(* conditions.  Both put the operands of one instruction into another,     *)
(* possibly far below.                                                     *)
(***************************************************************************)
EXTENDS OptFacts

(* The instruction that defines a register, where there is only one. *)
build_unique_defs(blocks) ==
    LET counts == collect_def_counts(blocks)
        single == {i \in ToSet(AllInsts(blocks)) : i.dst # NoDst /\ Times(counts, i.dst) = 1}
    IN  <<>> @@ [r \in {i.dst : i \in single} |-> CHOOSE i \in single : i.dst = r]

word_prefix_is_zero(word, lane, facts) == \A k \in 1..(lane + 1) : HasValue(facts, word[k], 0)

(* A condition seen through copies, negations and comparisons with 0 or 1: *)
(* the register it comes from, and whether it is inverted.                 *)
RECURSIVE BoolView(_, _, _, _, _)
BoolView(x, inverted, seen, facts, defs) ==
    LET d         == defs[x]
        bool(y)   == is_bool_fact(facts, y)
        stop      == [of |-> x, inverted |-> inverted]
        on(y, flip) == IF y \in seen \cup {x}
                       THEN [of |-> y, inverted |-> inverted # flip]
                       ELSE BoolView(y, inverted # flip, seen \cup {x}, facts, defs)
        ne(a, b)  == IF ~bool(a) THEN {}
                     ELSE {[of |-> a, flip |-> v = 1] : v \in {v \in 0..1 : HasValue(facts, b, v)}}
        inner     == IF ne(d.args[1], d.args[2]) # {} THEN ne(d.args[1], d.args[2])
                                                      ELSE ne(d.args[2], d.args[1])
    IN  CASE x \notin DOMAIN defs                         -> stop
          [] d.op = "Copy" /\ bool(d.args[1])             -> on(d.args[1], FALSE)
          [] d.op = "BoolNot" /\ bool(d.args[1])          -> on(d.args[1], TRUE)
          [] d.op = "Ne" -> IF inner = {} THEN stop
                            ELSE LET i == CHOOSE i \in inner : TRUE IN on(i.of, i.flip)
          [] OTHER -> stop

resolve_bool_view(x, facts, defs) == BoolView(x, FALSE, {}, facts, defs)

combine_sel(inst, facts, defs) ==
    LET view == resolve_bool_view(inst.args[1], facts, defs)
        c    == view.of
        t    == inst.args[IF view.inverted THEN 3 ELSE 2]
        f    == inst.args[IF view.inverted THEN 2 ELSE 3]
        is(x, v) == HasValue(facts, x, v)
    IN  CASE ~is_bool_fact(facts, inst.args[1])       -> inst
          [] (c = t /\ is(f, 0)) \/ (c = f /\ is(t, 1)) -> AsCopy(inst, c)
          [] c = f /\ is(t, 0)                        -> AsConst(inst, 0)
          [] c = t /\ is(f, 1)                        -> AsConst(inst, 1)
          [] OTHER                                    -> As(inst, "Sel", <<c, t, f>>)

(* The negation of a condition that is defined once becomes the opposite   *)
(* comparison of the same operands.                                        *)
combine_not(inst, defs) ==
    LET x        == inst.args[1]
        opposite == [Eq |-> "Ne", Ne |-> "Eq", LtU |-> "GeU", GeU |-> "LtU"]
    IN  CASE x \notin DOMAIN defs                -> inst
          [] defs[x].op = "BoolNot"              -> AsCopy(inst, defs[x].args[1])
          [] defs[x].op \in DOMAIN opposite      -> As(inst, opposite[defs[x].op], defs[x].args)
          [] OTHER                               -> inst

(* Identities of arithmetic with an operand that is 0 or 1 or the other. *)
combine_arith(inst, facts) ==
    LET l     == inst.args[1]
        r     == inst.args[2]
        is(x, v) == HasValue(facts, x, v)
        lword == Lhs(inst.args)
        rword == Rhs(inst.args)
        zero(w, lane) == word_prefix_is_zero(w, lane, facts)
        bool(x)  == is_bool_fact(facts, x)
        mine(w)  == w[inst.lane + 1]
    IN  CASE inst.op = "Add32" /\ zero(rword, inst.lane)   -> AsCopy(inst, mine(lword))
          [] inst.op = "Add32" /\ zero(lword, inst.lane)   -> AsCopy(inst, mine(rword))
          [] inst.op = "Sub32" /\ lword = rword            -> AsConst(inst, 0)
          [] inst.op = "Sub32" /\ zero(rword, inst.lane)   -> AsCopy(inst, mine(lword))
          [] inst.op = "Borrow32" /\ (lword = rword \/ zero(rword, 3)) -> AsConst(inst, 0)
          [] inst.op = "Sub" /\ is(r, 0)                   -> AsCopy(inst, l)
          [] inst.op = "Sub" /\ l = r                      -> AsConst(inst, 0)
          [] inst.op = "MulLo" /\ (is(l, 0) \/ is(r, 0))   -> AsConst(inst, 0)
          [] inst.op = "MulLo" /\ is(l, 1)                 -> AsCopy(inst, r)
          [] inst.op = "MulLo" /\ is(r, 1)                 -> AsCopy(inst, l)
          [] inst.op = "MulHi" /\ (\E v \in 0..1 : is(l, v) \/ is(r, v)) -> AsConst(inst, 0)
          [] inst.op \in {"And8", "Or8"} /\ l = r          -> AsCopy(inst, l)
          [] inst.op = "Xor8" /\ is(l, 0)                  -> AsCopy(inst, r)
          [] inst.op = "Xor8" /\ is(r, 0)                  -> AsCopy(inst, l)
          [] inst.op = "Xor8" /\ is(l, 1) /\ bool(r)       -> As(inst, "BoolNot", <<r>>)
          [] inst.op = "Xor8" /\ is(r, 1) /\ bool(l)       -> As(inst, "BoolNot", <<l>>)
          [] inst.op = "Xor8" /\ l = r                     -> AsConst(inst, 0)
          [] OTHER                                         -> inst

Arithmetic == {"Add32", "Sub32", "Borrow32", "Sub", "MulLo", "MulHi", "And8", "Or8", "Xor8"}

combine_kind(inst, facts, defs) ==
    CASE inst.op = "BoolNot"      -> combine_not(inst, defs)
      [] inst.op = "Sel"          -> combine_sel(inst, facts, defs)
      [] inst.op \in Arithmetic   -> combine_arith(inst, facts)
      [] OTHER                    -> inst

(* Mutant: the targets of a branch on a condition are exchanged every time. *)
combine_term_Swap(term, facts, defs) ==
    IF term.op # "Branch" \/ ~is_bool_fact(facts, term.args[1]) THEN term
    ELSE [term EXCEPT !.to = <<@[2], @[1]>>]

combine_term(term, facts, defs) ==
    IF term.op # "Branch" \/ ~is_bool_fact(facts, term.args[1]) THEN term
    ELSE LET view == resolve_bool_view(term.args[1], facts, defs)
         IN  [term EXCEPT !.args = <<view.of>>, !.to = IF view.inverted THEN <<@[2], @[1]>> ELSE @]

instcombine(blocks) ==
    LET facts == build_reg_facts(blocks)
        defs  == build_unique_defs(blocks)
    IN  WithoutSelfCopies(
            [k \in DOMAIN blocks |->
                [blocks[k] EXCEPT !.insts = [j \in DOMAIN @ |-> combine_kind(@[j], facts, defs)],
                                  !.term  = combine_term(@, facts, defs)]])

-----------------------------------------------------------------------------
(* Trees of one kind of condition.  A condition defined once and used once *)
(* is replaced by its operands, in depth-first order.                      *)
RECURSIVE collect_bool_leaves(_, _, _, _, _, _)
collect_bool_leaves(acc, x, op, root, defs, uses) ==
    LET opened == /\ x \notin acc.seen
                  /\ x \in DOMAIN defs
                  /\ x # root
                  /\ Times(uses, x) = 1
                  /\ defs[x].op = op
        met    == [acc EXCEPT !.seen = @ \cup {x}]
    IN  IF opened
        THEN FoldLeft(LAMBDA a, y : collect_bool_leaves(a, y, op, root, defs, uses),
                      [met EXCEPT !.consumed = @ \cup {x}], defs[x].args)
        ELSE [met EXCEPT !.leaves = Append(@, x)]

combine_boolean_chains(blocks) ==
    LET uses  == collect_use_counts(blocks)
        all   == build_unique_defs(blocks)
        defs  == <<>> @@ [r \in {r \in DOMAIN all : all[r].op \in {"BoolAnd", "BoolOr"}} |-> all[r]]
        tree(i) == FoldLeft(LAMBDA a, y : collect_bool_leaves(a, y, i.op, i.dst, defs, uses),
                            [seen |-> {}, leaves |-> <<>>, consumed |-> {}], i.args)
        fits(i) == Len(tree(i).leaves) \in 1..BOOL_NARY_MAX_INPUTS
        roots   == {i \in ToSet(AllInsts(blocks)) : i.op \in {"BoolAnd", "BoolOr"} /\ fits(i)}
        flat(i) == IF i \in roots THEN make_bool_kind(i, i.op, tree(i).leaves) ELSE i
        dropped == UNION {tree(i).consumed : i \in {i \in roots : flat(i) # i}}
    IN  MapBlocks(blocks, LAMBDA insts :
            SelectSeq([j \in DOMAIN insts |-> flat(insts[j])], LAMBDA i : i.dst \notin dropped))
=============================================================================
