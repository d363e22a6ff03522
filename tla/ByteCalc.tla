------------------------------ MODULE ByteCalc ------------------------------
(***************************************************************************)
(* The CSS expressions that src/emit/logic.rs writes for the instructions  *)
(* of ByteIR and for its built-in functions, by the number each computes,  *)
(* and what the coprocessor of the page answers instead.                   *)
(*                                                                         *)
(* CSS computes with numbers, not with bytes: round(down, x / n) is        *)
(* x \div n, mod(x, n) is x % n, round(to-zero, ...) and rem are TruncDiv  *)
(* and TruncRem; a result that is no byte stays what it is.  Where the     *)
(* code tells literal operands apart, so do the operators below, by the    *)
(* operands of the instruction.                                            *)
(***************************************************************************)
EXTENDS ByteIR, FiniteSetsExt

ASSUME BitsAssumption == BITS \in {2, 4, 8}

SignOf(x) == IF x > 0 THEN 1 ELSE IF x < 0 THEN -1 ELSE 0

-----------------------------------------------------------------------------
(* Words.  l and r are four bytes each.                                    *)

le_bytes_expr(b) == LE(b, Len(b))

byte_bit_expr(b, k) == (b \div 2 ^ k) % 2

(* The top byte of a negative word counts BASE less. *)
word_value_expr(w, signed) ==
    LET top == IF signed THEN w[4] - BASE * byte_bit_expr(w[4], BITS - 1) ELSE w[4]
    IN  le_bytes_expr([w EXCEPT ![4] = top])

(* A carry out of one byte that is not a literal, nothing added, is 0. *)
LoneByte(lits, v, lane) ==
    LET low == (1..lane) \cup (5..(4 + lane))
    IN  /\ Cardinality({k \in low : ~lits[k]}) = 1
        /\ \A k \in low : lits[k] => v[k] = 0

add32_carry_in_expr(lits, v, lane) ==
    IF lane = 0 \/ LoneByte(lits, v, lane) THEN 0
    ELSE (LE(Lhs(v), lane) + LE(Rhs(v), lane)) \div BASE ^ lane

add32_byte_expr(lits, v, lane) ==
    (v[lane + 1] + v[lane + 5] + add32_carry_in_expr(lits, v, lane)) % BASE

(* Slip: equal prefixes borrow. *)
sub32_borrow_in_expr_OrEqual(v, lane) ==
    IF lane = 0 THEN 0
    ELSE (BASE ^ lane - LE(Lhs(v), lane) + LE(Rhs(v), lane)) \div BASE ^ lane

sub32_borrow_in_expr(v, lane) ==
    IF lane = 0 THEN 0
    ELSE (BASE ^ lane - 1 - LE(Lhs(v), lane) + LE(Rhs(v), lane)) \div BASE ^ lane

sub32_byte_expr(v, lane) == (v[lane + 1] - v[lane + 5] - sub32_borrow_in_expr(v, lane)) % BASE

cmp32_expr(op, v) ==
    LET signed == op \in {"CmpLtS", "CmpGeS"}
        a == word_value_expr(Lhs(v), signed)
        b == word_value_expr(Rhs(v), signed)
    IN  CASE op = "CmpEq"                -> 1 - AbsInt(SignOf(a - b))
          [] op = "CmpNe"                -> AbsInt(SignOf(a - b))
          [] op \in {"CmpLtU", "CmpLtS"} -> Max({0, SignOf(b - a)})
          [] op \in {"CmpGeU", "CmpGeS"} -> Min({1, SignOf(a - b) + 1})

(* The top byte takes the cross products of the halves apart. *)
mul32_byte_expr(v, lane) ==
    LET a == Lhs(v)
        b == Rhs(v)
        prefix(w) == LE(w, lane + 1)
        half(w, k) == w[k] + BASE * w[k + 1]
        cross == (half(a, 1) * half(b, 3)) % BASE ^ 2
        total == le_bytes_expr(a) * half(b, 1) + cross * BASE ^ 2
    IN  IF lane < 3
        THEN ((prefix(a) * prefix(b)) % BASE ^ (lane + 1)) \div BASE ^ lane
        ELSE (total % WORD) \div BASE ^ 3

-----------------------------------------------------------------------------
(* Division.                                                               *)

fold_mod_if(x, wrap) == IF wrap THEN x % BASE ELSE x

(* The largest result, as an unsigned word. *)
divrem32_const_max(op, d) ==
    CASE op \in {"DivS32", "RemS32"} -> WORD - 1
      [] op = "RemU32" -> d - 1
      [] op = "DivU32" -> (WORD - 1) \div d

divrem32_const_byte_expr(op, v, lane) ==
    LET signed == op \in {"DivS32", "RemS32"}
        n    == word_value_expr(Lhs(v), signed)
        d    == le_bytes_expr(Rhs(v))
        by   == AbsInt(Signed(d))
        over == divrem32_const_max(op, d) \div BASE ^ lane > BASE - 1
        value == CASE op = "RemS32" -> TruncRem(n, by)
                   [] op = "DivS32" -> TruncDiv(IF Signed(d) < 0 THEN 0 - n ELSE n, by)
                   [] op = "RemU32" -> n % d
    IN  IF op = "DivU32" THEN fold_mod_if(n \div (d * BASE ^ lane), over)
        ELSE fold_mod_if(value \div BASE ^ lane, over \/ signed)

divrem32_byte_expr(op, v, lane) ==
    LET signed == op \in {"DivS32", "RemS32"}
        n == word_value_expr(Lhs(v), signed)
        d == word_value_expr(Rhs(v), signed)
        value == CASE op = "RemU32" -> n % d
                   [] op = "DivS32" -> TruncDiv(n, d)
                   [] op = "RemS32" -> TruncRem(n, d)
    IN  IF op = "DivU32" THEN fold_mod_if(n \div (d * BASE ^ lane), lane < 3)
        ELSE fold_mod_if(value \div BASE ^ lane, signed \/ lane < 3)

-----------------------------------------------------------------------------
(* Bits of a byte.                                                         *)

(* Runs of set bits of c, each from its first bit to the one after it. *)
Runs(c) ==
    LET set(k) == k \in 0..(BITS - 1) /\ byte_bit_expr(c, k) = 1
    IN  {run \in (0..(BITS - 1)) \X (1..BITS) :
            /\ run[1] < run[2]
            /\ \A k \in run[1]..(run[2] - 1) : set(k)
            /\ ~set(run[1] - 1) /\ ~set(run[2])}

and_mask_expr(x, c) ==
    LET term(run) ==
            CASE run = <<0, BITS>>  -> x
              [] run[1] = 0 /\ run[2] < BITS -> x % 2 ^ run[2]
              [] run[1] > 0 /\ run[2] = BITS -> x - (x % 2 ^ run[1])
              [] OTHER              -> ((x \div 2 ^ run[1]) % 2 ^ (run[2] - run[1])) * 2 ^ run[1]
    IN  SumSet({term(run) : run \in Runs(c)})

(* Two variables: AND bit by bit, the others from it.  One literal: a mask. *)
bitwise_expr(op, lits, v) ==
    LET x == IF lits[1] THEN v[2] ELSE v[1]
        c == IF lits[1] THEN v[1] ELSE v[2]
        both == FoldLeft(LAMBDA acc, k : acc + byte_bit_expr(v[1], k - 1) * byte_bit_expr(v[2], k - 1) * 2 ^ (k - 1),
                         0, [k \in 1..BITS |-> k])
        masked == and_mask_expr(x, c)
    IN  CASE lits[1] /\ lits[2] -> (CASE op = "And8" -> v[1] & v[2]
                                      [] op = "Or8"  -> v[1] | v[2]
                                      [] op = "Xor8" -> v[1] ^^ v[2])
          [] ~lits[1] /\ ~lits[2] -> (CASE op = "And8" -> both
                                        [] op = "Or8"  -> v[1] + v[2] - both
                                        [] op = "Xor8" -> v[1] + v[2] - 2 * both)
          [] OTHER -> (CASE op = "And8" -> masked
                         [] op = "Or8"  -> and_mask_expr(x, BASE - 1 - c) + c
                         [] op = "Xor8" -> IF c = 0 THEN x ELSE x + c - 2 * masked)

bool_nary_expr(v, and) ==
    LET sum     == FoldLeft(LAMBDA acc, x : acc + x, 0, v)
        product == FoldLeft(LAMBDA acc, x : acc * x, 1, v)
    IN  CASE Len(v) = 0 -> IF and THEN 1 ELSE 0
          [] Len(v) = 1 -> v[1]
          [] OTHER      -> IF and THEN product ELSE Min({1, sum})

-----------------------------------------------------------------------------
(* What the expression of an instruction computes from the values v of its *)
(* operands.                                                               *)
Expression(inst, v) ==
    LET op   == inst.op
        lits == [k \in DOMAIN v |-> IsImm(inst.args[k])]
        const == \A k \in 5..8 : lits[k]
    IN  CASE op = "Add32"    -> add32_byte_expr(lits, v, inst.lane)
          [] op = "Sub32"    -> sub32_byte_expr(v, inst.lane)
          [] op = "Mul32"    -> mul32_byte_expr(v, inst.lane)
          [] op = "Borrow32" -> sub32_borrow_in_expr(v, 4)
          [] op \in CmpOps   -> cmp32_expr(op, v)
          [] op \in DivOps   -> IF const THEN divrem32_const_byte_expr(op, v, inst.lane)
                                ELSE divrem32_byte_expr(op, v, inst.lane)
          [] op \in {"And8", "Or8", "Xor8"} -> bitwise_expr(op, lits, v)
          [] op = "Copy"     -> v[1]
          [] op = "Sub"      -> IF lits[1] /\ lits[2] THEN (v[1] - v[2]) % BASE
                                ELSE (v[1] - v[2] + BASE) % BASE
          [] op = "MulLo"    -> (v[1] * v[2]) % BASE
          [] op = "MulHi"    -> (v[1] * v[2]) \div BASE
          [] op = "GeU"      -> Bit(v[1] >= v[2])
          [] op = "BoolAnd"  -> bool_nary_expr(v, TRUE)
          [] op = "BoolOr"   -> bool_nary_expr(v, FALSE)
          [] op = "BoolNot"  -> 1 - v[1]
          [] op = "Sel"      -> IF v[1] = 0 THEN v[3] ELSE v[2]

-----------------------------------------------------------------------------
(* Built-in functions: shifts go through stages, one for each bit of the   *)
(* amount, each taken or not.                                              *)

ShiftOps == {"Shl32", "ShrU32", "ShrS32", "Rotl32", "Rotr32"}
CountOps == {"Clz32", "Ctz32", "Popcnt32"}
Builtins == ShiftOps \cup CountOps \cup DivOps

Zero4     == <<0, 0, 0, 0>>
InByte    == IF BITS = 2 THEN <<1>> ELSE IF BITS = 4 THEN <<1, 2>> ELSE <<1, 2, 4>>
Stages    == InByte \o <<BITS, 2 * BITS>>

shl_stage_expr(w, amount) ==
    LET p == 2 ^ amount
        q == 2 ^ (BITS - amount)
        lo(x) == (x * p) % BASE
        carry(x) == x \div q
    IN  CASE amount = BITS     -> <<0, w[1], w[2], w[3]>>
          [] amount = 2 * BITS -> <<0, 0, w[1], w[2]>>
          [] OTHER -> <<lo(w[1]), (lo(w[2]) + carry(w[1])) % BASE,
                        (lo(w[3]) + carry(w[2])) % BASE, (lo(w[4]) + carry(w[3])) % BASE>>

shr_byte_expr(b, carry, p) == ((b + BASE * carry) \div p) % BASE

shr_u_stage_expr(w, amount) ==
    LET p == 2 ^ amount
    IN  CASE amount = BITS     -> <<w[2], w[3], w[4], 0>>
          [] amount = 2 * BITS -> <<w[3], w[4], 0, 0>>
          [] OTHER -> <<shr_byte_expr(w[1], w[2] % p, p), shr_byte_expr(w[2], w[3] % p, p),
                        shr_byte_expr(w[3], w[4] % p, p), w[4] \div p>>

shr_s_stage_expr(w, amount) ==
    LET p    == 2 ^ amount
        sign == byte_bit_expr(w[4], BITS - 1)
        fill == IF sign = 0 THEN 0 ELSE BASE - 1
    IN  CASE amount = BITS     -> <<w[2], w[3], w[4], fill>>
          [] amount = 2 * BITS -> <<w[3], w[4], fill, fill>>
          [] OTHER -> <<shr_byte_expr(w[1], w[2] % p, p), shr_byte_expr(w[2], w[3] % p, p),
                        shr_byte_expr(w[3], w[4] % p, p), shr_byte_expr(w[4], sign * (p - 1), p)>>

rotl_stage_expr(w, amount) ==
    LET p == 2 ^ amount
        q == 2 ^ (BITS - amount)
        turn(x, below) == (((x * p) % BASE) + below \div q) % BASE
    IN  CASE amount = BITS     -> <<w[4], w[1], w[2], w[3]>>
          [] amount = 2 * BITS -> <<w[3], w[4], w[1], w[2]>>
          [] OTHER -> <<turn(w[1], w[4]), turn(w[2], w[1]), turn(w[3], w[2]), turn(w[4], w[3])>>

rotr_stage_expr(w, amount) ==
    LET p == 2 ^ amount
        q == 2 ^ (BITS - amount)
        turn(x, above) == (x \div p + (above % p) * q) % BASE
    IN  CASE amount = BITS     -> <<w[2], w[3], w[4], w[1]>>
          [] amount = 2 * BITS -> <<w[3], w[4], w[1], w[2]>>
          [] OTHER -> <<turn(w[1], w[2]), turn(w[2], w[3]), turn(w[3], w[4]), turn(w[4], w[1])>>

Stage(op, w, amount) ==
    CASE op = "Shl32"  -> shl_stage_expr(w, amount)
      [] op = "ShrU32" -> shr_u_stage_expr(w, amount)
      [] op = "ShrS32" -> shr_s_stage_expr(w, amount)
      [] op = "Rotl32" -> rotl_stage_expr(w, amount)
      [] op = "Rotr32" -> rotr_stage_expr(w, amount)

(* One selection inside another is written out as a sum of products. *)
word_sel_expr(bit, w, other) == [k \in 1..4 |-> bit * w[k] + (1 - bit) * other[k]]

byte_clz(b) == IF b = 0 THEN BITS ELSE Min({k \in 0..(BITS - 1) : byte_bit_expr(b, BITS - 1 - k) = 1})
byte_ctz(b) == IF b = 0 THEN BITS ELSE Min({k \in 0..(BITS - 1) : byte_bit_expr(b, k) = 1})
popcnt_byte_expr(b) == Cardinality({k \in 0..(BITS - 1) : byte_bit_expr(b, k) = 1})

(* w: the bytes in the order they are counted in, n: the count of each. *)
count_zeros_expr(w, n) ==
    LET nz(k) == Bit(w[k] # 0)
        z(k)  == 1 - nz(k)
    IN    nz(1) * n[1]
        + z(1) * nz(2) * (BITS + n[2])
        + z(1) * z(2) * nz(3) * (2 * BITS + n[3])
        + z(1) * z(2) * z(3) * (3 * BITS + n[4])

eval_builtin(op, lhs, rhs) ==
    LET stage(w, k) == word_sel_expr(byte_bit_expr(rhs[1], k - 1), Stage(op, w, Stages[k]), w)
        narrow(n)   == <<n, 0, 0, 0>>
        down        == Reverse(lhs)
    IN  CASE op \in ShiftOps  -> FoldLeft(stage, lhs, [k \in DOMAIN Stages |-> k])
          [] op = "Clz32"     -> narrow(count_zeros_expr(down, [k \in 1..4 |-> byte_clz(down[k])]))
          [] op = "Ctz32"     -> narrow(count_zeros_expr(lhs, [k \in 1..4 |-> byte_ctz(lhs[k])]))
          [] op = "Popcnt32"  -> narrow(FoldLeft(LAMBDA acc, b : acc + popcnt_byte_expr(b), 0, lhs))
          [] op \in DivOps    -> Zero4

(* base.html computes with JavaScript's numbers; << and | wrap to a word,  *)
(* and so does |0 after a signed division.  A division by 0 answers -1.    *)
WordBits == 4 * BITS
ClzWord(n) == IF n = 0 THEN WordBits ELSE Min({k \in 0..(WordBits - 1) : (n \div 2 ^ (WordBits - 1 - k)) % 2 = 1})

writeCopOutputWord(n) == [k \in 1..4 |-> AtLane(n, k - 1)]

runCoprocessor(op, lhs, rhs) ==
    LET a == LE(lhs, 4)
        b == LE(rhs, 4)
        shift   == b % WordBits
        back    == (WordBits - shift) % WordBits
        left(k) == (a * 2 ^ k) % WORD
        right(k) == a \div 2 ^ k
        lowest  == a & ((WORD - a) % WORD)
        word    ==
          CASE op = "DivU32"   -> a \div b
          [] op = "RemU32"   -> a % b
          [] op = "DivS32"   -> TruncDiv(Signed(a), Signed(b)) % WORD
          [] op = "RemS32"   -> TruncRem(Signed(a), Signed(b)) % WORD
          [] op = "Shl32"    -> left(shift)
          [] op = "ShrU32"   -> right(shift)
          [] op = "ShrS32"   -> (Signed(a) \div 2 ^ shift) % WORD
          [] op = "Rotl32"   -> left(shift) | right(back)
          [] op = "Rotr32"   -> right(shift) | left(back)
          [] op = "Clz32"    -> ClzWord(a)
          [] op = "Ctz32"    -> IF a = 0 THEN WordBits ELSE WordBits - 1 - ClzWord(lowest)
          [] op = "Popcnt32" -> Cardinality({k \in 0..(WordBits - 1) : (a \div 2 ^ k) % 2 = 1})
    IN  IF op \in DivOps /\ b = 0 THEN <<-1, 0, 0, 0>> ELSE writeCopOutputWord(word)

coprocessor_trap_expr(op, out) == op \in DivOps /\ out[1] < 0
=============================================================================
