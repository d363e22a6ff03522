------------------------------ MODULE OptFacts ------------------------------
(***************************************************************************)
(* The algebraic simplification of the IR8 optimiser: what is known of     *)
(* registers (src/opt8/facts.rs) and what follows for the instructions     *)
(* that read them (src/opt8/instsimplify.rs).                              *)
(***************************************************************************)
EXTENDS OptRewrite

CONSTANT BOOL_NARY_MAX_INPUTS       \* operands of one condition: 16 in the program

(* A fact is the value of a constant register, or IsBool. *)
IsBool == -1

const_fact(facts, x) ==
    IF IsImm(x) THEN ImmValue(x) ELSE IF x \in DOMAIN facts THEN facts[x] ELSE IsBool
IsConst(facts, x)     == const_fact(facts, x) # IsBool
HasValue(facts, x, v) == const_fact(facts, x) = v
is_bool_fact(facts, x) ==
    IF IsImm(x) THEN ImmValue(x) <= 1 ELSE x \in DOMAIN facts /\ facts[x] <= 1

(* Facts of the registers with one definition and no earlier use, grown    *)
(* until nothing follows any more.                                         *)
RECURSIVE GrowFacts(_, _, _)
GrowFacts(insts, early, facts) ==
    LET bool(x) == is_bool_fact(facts, x)
        follows(i) == \/ /\ i.op = "Copy"
                         /\ i.args[1] \in DOMAIN facts
                         /\ i.args[1] \notin early
                      \/ i.op = "And8" /\ (bool(i.args[1]) \/ bool(i.args[2]))
                      \/ i.op \in {"Or8", "Xor8"} /\ bool(i.args[1]) /\ bool(i.args[2])
                      \/ i.op = "Sel" /\ bool(i.args[2]) /\ bool(i.args[3])
        new   == {i \in insts : i.dst \notin DOMAIN facts /\ follows(i)}
        def(r) == CHOOSE i \in new : i.dst = r
        fact(i) == IF i.op = "Copy" THEN facts[i.args[1]] ELSE IsBool
    IN  IF new = {} THEN facts
        ELSE GrowFacts(insts, early, facts @@ [r \in {i.dst : i \in new} |-> fact(def(r))])

build_reg_facts(blocks) ==
    LET defs   == collect_def_counts(blocks)
        early  == collect_regs_used_before_def(blocks)
        single == {i \in ToSet(AllInsts(blocks)) :
                      i.dst # NoDst /\ Times(defs, i.dst) = 1 /\ i.dst \notin early}
        known  == {i \in single : i.op \in BoolOps \/ (IsCopy(i) /\ IsImm(i.args[1]))}
        def(r) == CHOOSE i \in known : i.dst = r
    IN  GrowFacts(single, early,
                  <<>> @@ [r \in {i.dst : i \in known} |->
                              IF IsCopy(def(r)) THEN ImmValue(def(r).args[1]) ELSE IsBool])

-----------------------------------------------------------------------------
As(inst, op, args)  == [inst EXCEPT !.op = op, !.args = args, !.lane = 0]
AsCopy(inst, x)     == As(inst, "Copy", <<x>>)
AsConst(inst, v)    == AsCopy(inst, Imm(v))
AsBit(inst, b)      == AsConst(inst, Bit(b))

(* One condition over several operands; over one, a copy. *)
make_bool_kind(inst, op, vals) ==
    IF Len(vals) = 1 THEN AsCopy(inst, vals[1]) ELSE As(inst, op, vals)

Distinct(vals) == FoldLeft(LAMBDA acc, v : IF v \in ToSet(acc) THEN acc ELSE Append(acc, v), <<>>, vals)

simplify_bool_nary(inst, facts) ==
    LET vals    == inst.args
        falsum  == \E k \in DOMAIN vals : HasValue(facts, vals[k], 0)
        verum   == \E k \in DOMAIN vals : IsConst(facts, vals[k]) /\ ~HasValue(facts, vals[k], 0)
        kept    == Distinct(SelectSeq(vals, LAMBDA x : ~IsConst(facts, x)))
    IN  CASE inst.op = "BoolAnd" /\ falsum -> AsConst(inst, 0)
          [] inst.op = "BoolOr" /\ verum   -> AsConst(inst, 1)
          [] kept = <<>>                   -> AsBit(inst, inst.op = "BoolAnd")
          [] OTHER                         -> make_bool_kind(inst, inst.op, kept)

(* The bytes up to a lane as one number, or IsBool if one is not constant. *)
const_word_prefix(word, lane, facts) ==
    IF \A k \in 1..(lane + 1) : IsConst(facts, word[k])
    THEN LE([k \in 1..(lane + 1) |-> const_fact(facts, word[k])], lane + 1)
    ELSE IsBool

(* Instructions over two words.  A comparison of two bytes that were       *)
(* extended with zeros becomes a comparison of bytes.                      *)
simplify_word(inst, facts) ==
    LET lane   == IF inst.op \in LaneOps THEN inst.lane ELSE 3
        a      == const_word_prefix(Lhs(inst.args), lane, facts)
        b      == const_word_prefix(Rhs(inst.args), lane, facts)
        both   == a # IsBool /\ b # IsBool
        narrow(w) == \A k \in 2..4 : HasValue(facts, w[k], 0)
        bytewise  == [CmpEq |-> "Eq", CmpNe |-> "Ne", CmpLtU |-> "LtU", CmpLtS |-> "LtU",
                      CmpGeU |-> "GeU", CmpGeS |-> "GeU"]
        folded == AsConst(inst, Eval(inst.op, [k \in 1..8 |->
                      IF IsConst(facts, inst.args[k]) THEN const_fact(facts, inst.args[k]) ELSE 0], inst.lane))
    IN  CASE inst.op \in CmpOps /\ narrow(Lhs(inst.args)) /\ narrow(Rhs(inst.args))
                                         -> As(inst, bytewise[inst.op], <<inst.args[1], inst.args[5]>>)
          [] both /\ inst.op \in DivOps /\ b = 0 -> inst
          [] both                        -> folded
          [] inst.op = "Mul32" /\ (a = 0 \/ b = 0) -> AsConst(inst, 0)
          [] inst.op \in DivOps /\ a = 0 -> AsConst(inst, 0)
          [] OTHER                       -> inst

Commutes == {"MulLo", "MulHi", "And8", "Or8", "Xor8", "Eq", "Ne"}

(* An immediate goes to the right of a commutative operation. *)
canon_comm(inst) ==
    IF inst.op \in Commutes /\ IsImm(inst.args[1]) /\ ~IsImm(inst.args[2])
    THEN [inst EXCEPT !.args = <<@[2], @[1]>>]
    ELSE inst

(* Instructions over two bytes. *)
simplify_byte(given, facts) ==
    LET inst == canon_comm(given)
        op   == inst.op
        l    == inst.args[1]
        r    == inst.args[2]
        right(v) == HasValue(facts, r, v)
        left(v)  == HasValue(facts, l, v)
        bool     == is_bool_fact(facts, l)
    IN  CASE op \in {"Eq", "GeU"} /\ l = r -> AsConst(inst, 1)
          [] op \in {"Ne", "LtU"} /\ l = r -> AsConst(inst, 0)
          [] IsConst(facts, l) /\ IsConst(facts, r) ->
                 AsConst(inst, Eval(op, <<const_fact(facts, l), const_fact(facts, r)>>, 0))
          [] op = "Or8"  /\ right(0)        -> AsCopy(inst, l)
          [] op = "Or8"  /\ right(BASE - 1) -> AsConst(inst, BASE - 1)
          [] op = "And8" /\ right(0)        -> AsConst(inst, 0)
          [] op = "And8" /\ right(BASE - 1) -> AsCopy(inst, l)
          [] op = "Eq"   /\ right(0) /\ bool -> As(inst, "BoolNot", <<l>>)
          [] op = "Eq"   /\ right(1) /\ bool -> AsCopy(inst, l)
          [] op = "Ne"   /\ right(0) /\ bool -> AsCopy(inst, l)
          [] op = "Ne"   /\ right(1) /\ bool -> As(inst, "BoolNot", <<l>>)
          [] op = "LtU"  /\ right(0)        -> AsConst(inst, 0)
          [] op = "LtU"  /\ right(1)        -> As(inst, "Eq", <<l, Imm(0)>>)
          [] op = "LtU"  /\ left(0)         -> As(inst, "Ne", <<r, Imm(0)>>)
          [] op = "GeU"  /\ right(0)        -> AsConst(inst, 1)
          [] op = "GeU"  /\ right(1)        -> As(inst, "Ne", <<l, Imm(0)>>)
          [] op = "GeU"  /\ left(0)         -> As(inst, "Eq", <<r, Imm(0)>>)
          [] OTHER                          -> inst

simplify_sel(inst, facts) ==
    LET c == inst.args[1]
        t == inst.args[2]
        f == inst.args[3]
        yields(x, y) == HasValue(facts, t, x) /\ HasValue(facts, f, y) /\ is_bool_fact(facts, c)
    IN  CASE HasValue(facts, c, 0)         -> AsCopy(inst, f)
          [] IsConst(facts, c) \/ t = f    -> AsCopy(inst, t)
          [] yields(1, 0)                  -> AsCopy(inst, c)
          [] yields(0, 1)                  -> As(inst, "BoolNot", <<c>>)
          [] OTHER                         -> inst

simplify_kind(inst, facts) ==
    CASE inst.op \in LaneOps \cup DivOps \cup CmpOps \cup {"Borrow32"} -> simplify_word(inst, facts)
      [] inst.op \in Commutes \cup {"Sub", "LtU", "GeU"} -> simplify_byte(inst, facts)
      [] inst.op \in {"BoolAnd", "BoolOr"}               -> simplify_bool_nary(inst, facts)
      [] inst.op = "BoolNot" /\ IsConst(facts, inst.args[1]) -> AsBit(inst, HasValue(facts, inst.args[1], 0))
      [] inst.op = "Sel"                                 -> simplify_sel(inst, facts)
      [] inst.op = "PutcharIf" /\ IsConst(facts, inst.args[2]) /\ ~HasValue(facts, inst.args[2], 0)
                                                         -> As(inst, "Putchar", <<inst.args[1]>>)
      [] OTHER                                           -> inst

(* A branch or a switch whose operand is known, or whose targets agree. *)
simplify_term(term, facts) ==
    LET v        == const_fact(facts, term.args[1])
        goto(pc) == Term("Goto", <<>>, <<pc>>)
        last     == Len(term.to)
    IN  CASE term.op \notin {"Branch", "Switch"} -> term
          [] term.op = "Branch" /\ term.to[1] = term.to[2] -> goto(term.to[1])
          [] term.op = "Branch" /\ v # IsBool -> goto(term.to[IF v # 0 THEN 1 ELSE 2])
          [] term.op = "Switch" /\ v # IsBool -> goto(term.to[IF v + 1 < last THEN v + 1 ELSE last])
          [] term.op = "Switch" /\ Cardinality(ToSet(term.to)) = 1 -> goto(term.to[1])
          [] OTHER -> term

inst_simplify(blocks) ==
    LET facts == build_reg_facts(blocks)
    IN  WithoutSelfCopies(
            [k \in DOMAIN blocks |->
                [blocks[k] EXCEPT !.insts = [j \in DOMAIN @ |-> simplify_kind(@[j], facts)],
                                  !.term  = simplify_term(@, facts)]])
=============================================================================
