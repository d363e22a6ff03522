------------------------------ MODULE ByteArith ------------------------------
(***************************************************************************)
(* Lowering one WebAssembly number or memory instruction to bytes, and     *)
(* running what comes out: src/lower8/mod.rs and src/lower8/ops.rs, with   *)
(* the expressions of ByteCalc.                                            *)
(*                                                                         *)
(* A value is its operands, four for an i32 and eight for an i64, the low  *)
(* byte first.  A builder holds the code so far, the next free register    *)
(* and the operands the last step left (got).  The instruction is refined  *)
(* by the integers it stands for: Answer.                                  *)
(***************************************************************************)
EXTENDS ByteCalc

CONSTANTS
    Tasks   \* families of instructions to lower: see Task

VARIABLES
    task,   \* the instruction, its operands and their values
    code,   \* what it was lowered to
    result, \* the operands that hold its result
    at,     \* the next step of the code
    reg,    \* the registers written so far
    mem,    \* the bytes of linear memory
    status  \* "lower", "run", "done", or the trap that ended the run

vars == <<task, code, result, at, reg, mem, status>>

(* in: the values; ops: the operands that hold them; js: --js-coprocessor. *)
Task(kind, op, ty, in, ops, js) ==
    [kind |-> kind, op |-> op, ty |-> ty, in |-> in, ops |-> ops, js |-> js,
     width |-> 0, signed |-> FALSE, offset |-> 0]

-----------------------------------------------------------------------------
(* The builder.                                                            *)

Fresh(b)        == [b EXCEPT !.got = <<>>]
Got(b, ops)     == [b EXCEPT !.got = ops]
NoDstInst(b, i) == [b EXCEPT !.code = Append(@, i)]

Emit(b, i) == [code |-> Append(b.code, [i EXCEPT !.dst = b.next]),
               next |-> b.next + 1, got |-> Append(b.got, b.next)]

EmitOp(b, op, args) == Emit(Fresh(b), Inst(op, NoDst, args))

Lo(x) == SubSeq(x, 1, 4)
Hi(x) == SubSeq(x, 5, 8)
Zero  == WordOf(0)

imm_prefix(w)       == \A k \in 1..4 : IsImm(w[k])
ImmWord(w)          == LE([k \in 1..4 |-> ImmValue(w[k])], 4)
with_fill(b0, fill) == <<b0, fill, fill, fill>>

lower_word_lane32_op(b, op, l, r) ==
    FoldLeft(LAMBDA s, lane : Emit(s, Lane(op, NoDst, l, r, lane)), Fresh(b), <<0, 1, 2, 3>>)

lower_word_bytewise_op(b, op, l, r) ==
    FoldLeft(LAMBDA s, k : Emit(s, Inst(op, NoDst, <<l[k], r[k]>>)), Fresh(b), [k \in DOMAIN l |-> k])

lower_sub32_with_borrow(b, l, r) ==
    Emit(lower_word_lane32_op(b, "Sub32", l, r), Inst("Borrow32", NoDst, l \o r))

cmp32_bit(b, op, l, r) == EmitOp(b, op, l \o r)

select_value(b, cond, yes, no) ==
    FoldLeft(LAMBDA s, k : Emit(s, Inst("Sel", NoDst, <<cond, yes[k], no[k]>>)),
             Fresh(b), [k \in DOMAIN yes |-> k])

bool32(b, w)   == cmp32_bit(b, "CmpNe", w, Zero)
bool_not(b)    == EmitOp(b, "BoolNot", b.got)
bool_word(b)   == Got(b, Narrow(b.got[1]))
negate_word(b, w) == lower_word_lane32_op(b, "Sub32", Zero, w)

(* The sign bit of a byte, spread over a byte. *)
lower_load_fill_byte(b, src, signed) ==
    IF signed
    THEN LET is_neg == EmitOp(b, "GeU", <<src, Imm(MSB)>>)
         IN  EmitOp(is_neg, "Sub", <<Imm(0), is_neg.got[1]>>)
    ELSE Got(b, <<Imm(0)>>)

-----------------------------------------------------------------------------
(* Values of two words.                                                    *)

(* Slip: the carry is taken from the high words. *)
lower_add64_CarryOfHighs(b, l, r) ==
    LET lo    == lower_word_lane32_op(b, "Add32", Lo(l), Lo(r))
        sum   == lower_word_lane32_op(lo, "Add32", Hi(l), Hi(r))
        carry == cmp32_bit(sum, "CmpLtU", sum.got, Hi(l))
        hi    == lower_word_lane32_op(carry, "Add32", sum.got, Narrow(carry.got[1]))
    IN  Got(hi, lo.got \o hi.got)

(* The low words carry when their sum is below one of them. *)
lower_add64(b, l, r) ==
    LET lo    == lower_word_lane32_op(b, "Add32", Lo(l), Lo(r))
        carry == cmp32_bit(lo, "CmpLtU", lo.got, Lo(l))
        sum   == lower_word_lane32_op(carry, "Add32", Hi(l), Hi(r))
        hi    == lower_word_lane32_op(sum, "Add32", sum.got, Narrow(carry.got[1]))
    IN  Got(hi, lo.got \o hi.got)

lower_sub64_with_borrow(b, l, r) ==
    LET lo   == lower_sub32_with_borrow(b, Lo(l), Lo(r))
        tmp  == lower_sub32_with_borrow(lo, Hi(l), Hi(r))
        hi   == lower_sub32_with_borrow(tmp, Lo(tmp.got), Narrow(lo.got[5]))
        last == EmitOp(hi, "BoolOr", <<tmp.got[5], hi.got[5]>>)
    IN  Got(last, Lo(lo.got) \o Lo(hi.got))

lower_eq64_bit(b, l, r) ==
    LET lo == cmp32_bit(b, "CmpEq", Lo(l), Lo(r))
        hi == cmp32_bit(lo, "CmpEq", Hi(l), Hi(r))
    IN  EmitOp(hi, "BoolAnd", lo.got \o hi.got)

lower_ltu64_bit(b, l, r) ==
    LET hi_lt == cmp32_bit(b, "CmpLtU", Hi(l), Hi(r))
        hi_eq == cmp32_bit(hi_lt, "CmpEq", Hi(l), Hi(r))
        lo_lt == cmp32_bit(hi_eq, "CmpLtU", Lo(l), Lo(r))
        both  == EmitOp(lo_lt, "BoolAnd", hi_eq.got \o lo_lt.got)
    IN  EmitOp(both, "BoolOr", hi_lt.got \o both.got)

lower_extend_i32_to_i64(b, w, signed) ==
    LET fill == lower_load_fill_byte(b, w[4], signed)
    IN  Got(fill, w \o with_fill(fill.got[1], fill.got[1]))

lower_sign_extend64_from_byte(b, x, check_byte) ==
    LET fill == lower_load_fill_byte(b, x[check_byte + 1], TRUE)
    IN  Got(fill, [k \in 1..8 |-> IF k <= check_byte + 1 THEN x[k] ELSE fill.got[1]])

lower_sign_extend(b, w, check_byte) ==
    LET fill == lower_load_fill_byte(b, w[check_byte + 1], TRUE)
        src(k) == IF k <= check_byte + 1 THEN w[k] ELSE fill.got[1]
    IN  FoldLeft(LAMBDA s, k : Emit(s, Inst("Copy", NoDst, <<src(k)>>)), Fresh(fill), <<1, 2, 3, 4>>)

-----------------------------------------------------------------------------
(* Shifts by a literal amount.                                             *)

shift_left_byte_const(b, src, shift) ==
    CASE shift = 0  -> Got(b, <<src>>)
      [] IsImm(src) -> Got(b, <<Imm((ImmValue(src) * 2 ^ shift) % BASE)>>)
      [] OTHER      -> EmitOp(b, "MulLo", <<src, Imm(2 ^ shift)>>)

shift_right_u_byte_const(b, src, shift) ==
    CASE shift = 0  -> Got(b, <<src>>)
      [] IsImm(src) -> Got(b, <<Imm(ImmValue(src) \div 2 ^ shift)>>)
      [] OTHER      -> EmitOp(b, "MulHi", <<src, Imm(2 ^ (BITS - shift))>>)

or_bytes_const_fold(b, l, r) ==
    CASE IsImm(l) /\ IsImm(r) -> Got(b, <<Imm(ImmValue(l) | ImmValue(r))>>)
      [] l = Imm(0) -> Got(b, <<r>>)
      [] r = Imm(0) -> Got(b, <<l>>)
      [] OTHER -> EmitOp(b, "Or8", <<l, r>>)

CopyInto(b, s) == Emit(Got(b, s.got), Inst("Copy", NoDst, b.got))

ByteAt(w, k, fill) == IF k \in 1..4 THEN w[k] ELSE fill

lower_shl_const_u32(b, w, amount) ==
    LET shift == amount % WordBits
        bytes == shift \div BITS
        bits  == shift % BITS
        lane(s, k) ==
            LET low     == ByteAt(w, k - bytes, Imm(0))
                shifted == shift_left_byte_const(s, low, bits)
                carry   == shift_right_u_byte_const(shifted, ByteAt(w, k - bytes - 1, Imm(0)), BITS - bits)
            IN  IF bits = 0 THEN CopyInto(Got(s, <<low>>), s)
                ELSE CopyInto(or_bytes_const_fold(carry, shifted.got[1], carry.got[1]), s)
    IN  IF shift = 0 THEN Got(b, w) ELSE FoldLeft(lane, Fresh(b), <<1, 2, 3, 4>>)

lower_shr_const_u32_with_fill(b, w, shift, fill) ==
    LET bytes == shift \div BITS
        bits  == shift % BITS
        lane(s, k) ==
            LET low     == ByteAt(w, k + bytes, fill)
                shifted == shift_right_u_byte_const(s, low, bits)
                carry   == shift_left_byte_const(shifted, ByteAt(w, k + bytes + 1, fill), BITS - bits)
            IN  IF bits = 0 THEN CopyInto(Got(s, <<low>>), s)
                ELSE CopyInto(or_bytes_const_fold(carry, shifted.got[1], carry.got[1]), s)
    IN  IF shift = 0 THEN Got(b, w) ELSE FoldLeft(lane, Fresh(b), <<1, 2, 3, 4>>)

lower_shr_u_const_u32(b, w, amount) == lower_shr_const_u32_with_fill(b, w, amount % WordBits, Imm(0))

lower_shr_s_const_u32(b, w, amount) ==
    LET fill == lower_load_fill_byte(b, w[4], TRUE)
    IN  IF amount % WordBits = 0 THEN Got(b, w)
        ELSE lower_shr_const_u32_with_fill(fill, w, amount % WordBits, fill.got[1])

lower_rotl_const_u32(b, w, amount) ==
    LET shift == amount % WordBits
        left  == lower_shl_const_u32(b, w, shift)
        right == lower_shr_u_const_u32(left, w, WordBits - shift)
    IN  IF shift = 0 THEN Got(b, w) ELSE lower_word_bytewise_op(right, "Or8", left.got, right.got)

lower_rotr_const_u32(b, w, amount) ==
    LET shift == amount % WordBits
        right == lower_shr_u_const_u32(b, w, shift)
        left  == lower_shl_const_u32(right, w, WordBits - shift)
    IN  IF shift = 0 THEN Got(b, w) ELSE lower_word_bytewise_op(left, "Or8", left.got, right.got)

lower_const_shift_or_rotate(b, op, w, amount) ==
    CASE op = "Shl32"  -> lower_shl_const_u32(b, w, amount)
      [] op = "ShrU32" -> lower_shr_u_const_u32(b, w, amount)
      [] op = "ShrS32" -> lower_shr_s_const_u32(b, w, amount)
      [] op = "Rotl32" -> lower_rotl_const_u32(b, w, amount)
      [] op = "Rotr32" -> lower_rotr_const_u32(b, w, amount)

-----------------------------------------------------------------------------
(* Division, and the built-in functions.                                   *)

lower_builtin_call(b, op, args) ==
    LET call == NoDstInst(b, [callee |-> op] @@ Inst("CallSetup", NoDst, args))
    IN  FoldLeft(LAMBDA s, r : Emit(s, Inst("Copy", NoDst, <<r>>)), Fresh(call), <<0, 1, 2, 3>>)

emit_zero_check_trap(b, denom) ==
    LET zero == cmp32_bit(b, "CmpEq", denom, Zero)
    IN  NoDstInst(zero, Inst("Check", NoDst, zero.got))

(* A remainder has no byte above the divisor's last one that may not be 0. *)
lower_divrem_var(b, op, numer, denom) ==
    LET rem_lanes  == Max({0} \cup {k \in 1..4 : denom[k] # Imm(0)})
        inst(lane) == IF op = "RemU32" /\ lane >= rem_lanes
                      THEN Inst("Copy", NoDst, <<Imm(0)>>)
                      ELSE Lane(op, NoDst, numer, denom, lane)
    IN  FoldLeft(LAMBDA s, lane : Emit(s, inst(lane)),
                 Fresh(emit_zero_check_trap(b, denom)), <<0, 1, 2, 3>>)

lower_divrem_const_bytes(b, op, numer, d) ==
    LET inst(lane) == IF divrem32_const_max(op, d) \div BASE ^ lane = 0
                      THEN Inst("Copy", NoDst, <<Imm(0)>>)
                      ELSE Lane(op, NoDst, numer, WordOf(d), lane)
    IN  FoldLeft(LAMBDA s, lane : Emit(s, inst(lane)), Fresh(b), <<0, 1, 2, 3>>)

lower_divrem_const_u32(b, op, numer, d) ==
    LET power == {k \in 0..(WordBits - 1) : d = 2 ^ k}
        rem   == op = "RemU32"
    IN  CASE d = 1      -> Got(b, IF rem THEN Zero ELSE numer)
          [] d # 1 /\ power # {} /\ rem  -> lower_word_bytewise_op(b, "And8", numer, WordOf(d - 1))
          [] d # 1 /\ power # {} /\ ~rem -> lower_shr_u_const_u32(b, numer, Max(power))
          [] OTHER      -> lower_divrem_const_bytes(b, op, numer, d)

lower_divrem_const_s32(b, op, numer, d) ==
    LET rem == op = "RemS32"
    IN  CASE d = 1        -> Got(b, IF rem THEN Zero ELSE numer)
          [] d = WORD - 1 -> IF rem THEN Got(b, Zero) ELSE negate_word(b, numer)
          [] OTHER        -> lower_divrem_const_bytes(b, op, numer, d)

(* A literal divisor of 0 is left to the code that traps. *)
lower_divrem(b, op, numer, denom, js) ==
    CASE imm_prefix(denom) /\ ImmWord(denom) # 0 ->
             IF op \in {"DivU32", "RemU32"} THEN lower_divrem_const_u32(b, op, numer, ImmWord(denom))
                                            ELSE lower_divrem_const_s32(b, op, numer, ImmWord(denom))
      [] OTHER -> IF js THEN lower_builtin_call(b, op, numer \o denom)
                        ELSE lower_divrem_var(b, op, numer, denom)

-----------------------------------------------------------------------------
(* The instructions.                                                       *)
LaneOf == [Add |-> "Add32", Sub |-> "Sub32", Mul |-> "Mul32"]
ByteOf == [And |-> "And8", Or |-> "Or8", Xor |-> "Xor8"]

lower_binary(b, op, l, r, js) ==
    CASE op \in DOMAIN LaneOf -> lower_word_lane32_op(b, LaneOf[op], l, r)
      [] op \in DOMAIN ByteOf -> lower_word_bytewise_op(b, ByteOf[op], l, r)
      [] op \in DivOps        -> lower_divrem(b, op, l, r, js)
      [] op \in ShiftOps      -> IF imm_prefix(r) THEN lower_const_shift_or_rotate(b, op, l, ImmWord(r))
                                 ELSE lower_builtin_call(b, op, l \o r)

(* The comparison of each relation, and whether the operands change places. *)
Relation ==
    [Eq  |-> <<"CmpEq", FALSE>>,  Ne  |-> <<"CmpNe", FALSE>>,
     LtU |-> <<"CmpLtU", FALSE>>, GtU |-> <<"CmpLtU", TRUE>>, LeU |-> <<"CmpGeU", TRUE>>,
     GeU |-> <<"CmpGeU", FALSE>>, LtS |-> <<"CmpLtS", FALSE>>, GtS |-> <<"CmpLtS", TRUE>>,
     LeS |-> <<"CmpGeS", TRUE>>,  GeS |-> <<"CmpGeS", FALSE>>]

lower_compare(b, op, l, r) ==
    bool_word(IF Relation[op][2] THEN cmp32_bit(b, Relation[op][1], r, l)
                                 ELSE cmp32_bit(b, Relation[op][1], l, r))

lower_unary(b, op, w) ==
    CASE op = "Eqz"        -> bool_word(cmp32_bit(b, "CmpEq", w, Zero))
      [] op = "Extend8S"   -> lower_sign_extend(b, w, 0)
      [] op = "Extend16S"  -> lower_sign_extend(b, w, 1)
      [] op = "ExtendI32S" -> lower_extend_i32_to_i64(b, w, TRUE)
      [] op = "ExtendI32U" -> lower_extend_i32_to_i64(b, w, FALSE)
      [] op \in CountOps   -> lower_builtin_call(b, op, w)

lower_unary64(b, op, x) ==
    CASE op = "Eqz"       -> bool_word(lower_eq64_bit(b, x, Zero \o Zero))
      [] op = "WrapI64"   -> Got(b, Lo(x))
      [] op = "Extend8S"  -> lower_sign_extend64_from_byte(b, x, 0)
      [] op = "Extend16S" -> lower_sign_extend64_from_byte(b, x, 1)
      [] op = "Extend32S" -> lower_extend_i32_to_i64(b, Lo(x), TRUE)

lower_binary64(b, op, l, r) ==
    CASE op = "Add" -> lower_add64(b, l, r)
      [] op = "Sub" -> lower_sub64_with_borrow(b, l, r)
      [] op \in DOMAIN ByteOf -> lower_word_bytewise_op(b, ByteOf[op], l, r)

lower_compare64(b, op, l, r) ==
    bool_word(CASE op = "Eq"  -> lower_eq64_bit(b, l, r)
                [] op = "Ne"  -> bool_not(lower_eq64_bit(b, l, r))
                [] op = "LtU" -> lower_ltu64_bit(b, l, r)
                [] op = "LeU" -> bool_not(lower_ltu64_bit(b, r, l))
                [] op = "GtU" -> lower_ltu64_bit(b, r, l)
                [] op = "GeU" -> bool_not(lower_ltu64_bit(b, l, r)))

lower_select(b, cond, yes, no) ==
    LET bit == bool32(b, cond) IN select_value(bit, bit.got[1], yes, no)

(* The last byte of an access has to have an address. *)
lower_mem_base(offset, width) == offset <= BASE ^ 2 - 1 - (width - 1)

lo16(w) == <<w[1], w[2]>>

(* Two bytes share a base. *)
lower_load(b, t, addr) ==
    LET size  == IF t.ty = "i64" THEN 8 ELSE 4
        bytes == FoldLeft(LAMBDA s, k : Emit(s, Load(NoDst, t.offset + 2 * (k \div 2), lo16(addr), k % 2)),
                          Fresh(b), [k \in 1..t.width |-> k - 1])
        fill  == lower_load_fill_byte(bytes, bytes.got[t.width], t.signed)
    IN  IF t.width = size THEN bytes
        ELSE Got(fill, bytes.got \o [k \in 1..(size - t.width) |-> fill.got[1]])

lower_store(b, t, addr, val) ==
    Fresh(FoldLeft(LAMBDA s, k : NoDstInst(s, Store(t.offset + 2 * (k \div 2), lo16(addr), k % 2, val[k + 1])),
                   b, [k \in 1..t.width |-> k - 1]))

lower_inst(b, t) ==
    LET x == t.ops
    IN  CASE t.kind = "Unary"   -> IF t.ty = "i32" THEN lower_unary(b, t.op, x[1]) ELSE lower_unary64(b, t.op, x[1])
          [] t.kind = "Binary"  -> IF t.ty = "i32" THEN lower_binary(b, t.op, x[1], x[2], t.js)
                                   ELSE lower_binary64(b, t.op, x[1], x[2])
          [] t.kind = "Compare" -> IF t.ty = "i32" THEN lower_compare(b, t.op, x[1], x[2])
                                   ELSE lower_compare64(b, t.op, x[1], x[2])
          [] t.kind = "Select"  -> lower_select(b, x[1], x[2], x[3])
          [] t.kind = "Load"    -> lower_load(b, t, x[1])
          [] t.kind = "Store"   -> lower_store(b, t, x[1], x[2])

-----------------------------------------------------------------------------
(* Running the code.                                                       *)

(* The registers of the n-th operand come first, then those of the code. *)
OperandReg(n, k) == VREG_START + 8 * (n - 1) + k - 1
FirstTemp        == OperandReg(4, 1)

Init ==
    /\ \E n \in DOMAIN Tasks : task \in Tasks[n]
    /\ code = <<>> /\ result = <<>> /\ at = 1 /\ status = "lower"
    /\ reg = [r \in {x \in UNION {ToSet(task.ops[n]) : n \in DOMAIN task.ops} : ~IsImm(x)} |->
                  task.in[((r - VREG_START) \div 8) + 1][((r - VREG_START) % 8) + 1]]
    /\ mem = [a \in 0..(MemEnd - 1) |-> (7 * a + 5) % BASE]

LowerTask ==
    /\ status = "lower"
    /\ IF task.kind \in {"Load", "Store"} => lower_mem_base(task.offset, task.width)
       THEN LET b == lower_inst([code |-> <<>>, next |-> FirstTemp, got |-> <<>>], task)
            IN  code' = b.code /\ result' = b.got /\ status' = "run"
       ELSE code' = code /\ result' = result /\ status' = "refused"
    /\ UNCHANGED <<task, at, reg, mem>>

Running   == status = "run" /\ at <= Len(code)
Here      == code[at]
Val(x)    == IF IsImm(x) THEN ImmValue(x) ELSE reg[x]
Values    == [k \in DOMAIN Here.args |-> Val(Here.args[k])]
NoExpression == {"CallSetup", "Check", "Load", "Store"}

ExecuteInst ==
    /\ Running /\ Here.op \notin NoExpression
    /\ reg' = (Here.dst :> Expression(Here, Values)) @@ reg
    /\ at' = at + 1
    /\ UNCHANGED <<task, code, result, mem, status>>

BuiltinReturn(op, v) ==
    IF task.js THEN runCoprocessor(op, Lhs(v), IF Len(v) = 8 THEN Rhs(v) ELSE Zero4)
    ELSE eval_builtin(op, Lhs(v), IF Len(v) = 8 THEN Rhs(v) ELSE Zero4)

BuiltinTrap(op, v) == IF task.js THEN coprocessor_trap_expr(op, BuiltinReturn(op, v)) ELSE op \in DivOps

Invoke ==
    /\ Running /\ Here.op = "CallSetup"
    /\ reg' = [r \in 0..3 |-> BuiltinReturn(Here.callee, Values)[r + 1]] @@ reg
    /\ status' = IF BuiltinTrap(Here.callee, Values) THEN "DivisionByZero" ELSE status
    /\ at' = at + 1
    /\ UNCHANGED <<task, code, result, mem>>

Check ==
    /\ Running /\ Here.op = "Check"
    /\ status' = IF Values[1] # 0 THEN "DivisionByZero" ELSE status
    /\ at' = at + 1
    /\ UNCHANGED <<task, code, result, reg, mem>>

Address == Here.base + Here.lane + Values[1] + BASE * Values[2]

(* Whole pages of addresses are told by the high byte alone. *)
mem_addr_bounds ==
    LET room == MemEnd - (Here.base + Here.lane)
    IN  IF room >= 0 /\ room % BASE = 0 THEN Values[2] < room \div BASE ELSE Address < MemEnd

Access ==
    /\ Running /\ Here.op \in {"Load", "Store"}
    /\ status' = IF mem_addr_bounds THEN status ELSE "OutOfBounds"
    /\ reg' = IF Here.op = "Load" /\ mem_addr_bounds THEN (Here.dst :> mem[Address]) @@ reg ELSE reg
    /\ mem' = IF Here.op = "Store" /\ mem_addr_bounds THEN [mem EXCEPT ![Address] = Values[3]] ELSE mem
    /\ at' = at + 1
    /\ UNCHANGED <<task, code, result>>

Finish ==
    /\ status = "run" /\ at > Len(code)
    /\ status' = "done"
    /\ UNCHANGED <<task, code, result, at, reg, mem>>

Next == LowerTask \/ ExecuteInst \/ Invoke \/ Check \/ Access \/ Finish

Spec == Init /\ [][Next]_vars

-----------------------------------------------------------------------------
(* The integers that the instructions stand for.                           *)

BuiltinAnswer(op, a, b) ==
    LET s    == b % WordBits
        back == (WordBits - s) % WordBits
        set  == {k \in 0..(WordBits - 1) : (a \div 2 ^ k) % 2 = 1}
    IN  CASE op \in DivOps    -> DivRem(op, a, b)
          [] op = "Shl32"     -> (a * 2 ^ s) % WORD
          [] op = "ShrU32"    -> a \div 2 ^ s
          [] op = "ShrS32"    -> (Signed(a) \div 2 ^ s) % WORD
          [] op = "Rotl32"    -> (IF s = 0 THEN 0 ELSE a \div 2 ^ back) + ((a * 2 ^ s) % WORD)
          [] op = "Rotr32"    -> (IF s = 0 THEN 0 ELSE (a * 2 ^ back) % WORD) + a \div 2 ^ s
          [] op = "Clz32"     -> IF a = 0 THEN WordBits ELSE WordBits - 1 - Max(set)
          [] op = "Ctz32"     -> IF a = 0 THEN WordBits ELSE Min(set)
          [] op = "Popcnt32"  -> Cardinality(set)

Related(op, a, b) ==
    CASE op = "Eq"  -> a = b
      [] op = "Ne"  -> a # b
      [] op = "LtU" -> a < b
      [] op = "GtU" -> a > b
      [] op = "LeU" -> a <= b
      [] op = "GeU" -> a >= b
      [] op = "LtS" -> Signed(a) < Signed(b)
      [] op = "GtS" -> Signed(a) > Signed(b)
      [] op = "LeS" -> Signed(a) <= Signed(b)
      [] op = "GeS" -> Signed(a) >= Signed(b)

(* Two words by their order: high words first. *)
Related64(op, l, h, m, i) ==
    LET lt == h < i \/ (h = i /\ l < m)
        gt == h > i \/ (h = i /\ l > m)
    IN  CASE op = "Eq"  -> ~lt /\ ~gt
          [] op = "Ne"  -> lt \/ gt
          [] op = "LtU" -> lt
          [] op = "GtU" -> gt
          [] op = "LeU" -> ~gt
          [] op = "GeU" -> ~lt

BitwiseAnswer(op, a, b) == CASE op = "And" -> a & b [] op = "Or" -> a | b [] op = "Xor" -> a ^^ b

(* The number w of bits bits, taken as signed, as one word and as the next. *)
Extended(w, bits) == LET n == w % 2 ^ bits IN (IF n >= 2 ^ (bits - 1) THEN n - 2 ^ bits ELSE n) % WORD
Above(w)          == IF w >= WORD \div 2 THEN WORD - 1 ELSE 0

WordsOf(v) == [k \in 1..(Len(v) \div 4) |-> LE(SubSeq(v, 4 * k - 3, 4 * k), 4)]

UnaryAnswer(op, ty, w) ==
    CASE op = "Eqz"          -> <<Bit(\A k \in DOMAIN w : w[k] = 0)>>
      [] op = "WrapI64"      -> <<w[1]>>
      [] op = "ExtendI32U"   -> <<w[1], 0>>
      [] op = "ExtendI32S"   -> <<w[1], Above(w[1])>>
      [] op = "Extend32S"    -> <<w[1], Above(w[1])>>
      [] op \in CountOps     -> <<BuiltinAnswer(op, w[1], 0)>>
      [] op \in {"Extend8S", "Extend16S"} ->
             LET n == Extended(w[1], IF op = "Extend8S" THEN BITS ELSE 2 * BITS)
             IN  IF ty = "i32" THEN <<n>> ELSE <<n, Above(n)>>

BinaryAnswer(op, ty, l, r) ==
    CASE op \in DOMAIN ByteOf -> [k \in DOMAIN l |-> BitwiseAnswer(op, l[k], r[k])]
      [] op \in Builtins      -> <<BuiltinAnswer(op, l[1], r[1])>>
      [] op = "Mul"           -> <<WordProduct(l[1], r[1])>>
      [] op = "Add"           -> IF ty = "i32" THEN <<(l[1] + r[1]) % WORD>>
                                 ELSE <<(l[1] + r[1]) % WORD, (l[2] + r[2] + (l[1] + r[1]) \div WORD) % WORD>>
      [] op = "Sub"           -> IF ty = "i32" THEN <<(l[1] - r[1]) % WORD>>
                                 ELSE <<(l[1] - r[1]) % WORD, (l[2] - r[2] - Bit(l[1] < r[1])) % WORD>>

Start(t) == t.offset + LE(Lo(t.in[1]), 2)

LoadAnswer(t) ==
    LET byte(k) == (7 * (Start(t) + k) + 5) % BASE
        low     == LE([k \in 1..Min({t.width, 4}) |-> byte(k - 1)], Min({t.width, 4}))
        n       == IF t.signed /\ t.width < 4 THEN Extended(low, t.width * BITS) ELSE low
        high    == CASE t.width = 8 -> LE([k \in 1..4 |-> byte(k + 3)], 4)
                     [] t.width < 8 /\ t.signed -> Above(n)
                     [] OTHER -> 0
    IN  IF t.ty = "i32" THEN <<n>> ELSE <<n, high>>

Answer(t) ==
    LET w == [k \in DOMAIN t.in |-> WordsOf(t.in[k])]
    IN  CASE t.kind = "Unary"   -> UnaryAnswer(t.op, t.ty, w[1])
          [] t.kind = "Binary"  -> BinaryAnswer(t.op, t.ty, w[1], w[2])
          [] t.kind = "Compare" -> <<Bit(IF t.ty = "i32" THEN Related(t.op, w[1][1], w[2][1])
                                         ELSE Related64(t.op, w[1][1], w[1][2], w[2][1], w[2][2]))>>
          [] t.kind = "Select"  -> IF w[1][1] # 0 THEN w[2] ELSE w[3]
          [] t.kind = "Load"    -> LoadAnswer(t)
          [] t.kind = "Store"   -> <<>>

Outcome(t) ==
    CASE t.kind \in {"Load", "Store"} ->
             (CASE t.offset + t.width > BASE ^ 2 -> "refused"
                [] t.offset + t.width <= BASE ^ 2 /\ Start(t) + t.width > MemEnd -> "OutOfBounds"
                [] OTHER -> "done")
      [] t.op \in DivOps -> IF LE(t.in[2], 4) = 0 THEN "DivisionByZero" ELSE "done"
      [] OTHER -> "done"

(***************************************************************************)
(* An instruction lowered to bytes leaves the number that it stands for,   *)
(* whichever of its operands are literals or known to be one byte and      *)
(* whether or not the page has a coprocessor; it traps when it has to, and *)
(* a store changes its own bytes of memory alone.  What -2^31 / -1 gives is *)
(* -2^31 here as in the code, where WebAssembly traps.                     *)
(***************************************************************************)
SameNumbers ==
    status \notin {"lower", "run"} =>
        /\ status = Outcome(task)
        /\ status = "done" =>
             /\ WordsOf([k \in DOMAIN result |-> Val(result[k])]) = Answer(task)
             /\ mem = [a \in 0..(MemEnd - 1) |->
                          IF task.kind = "Store" /\ a - Start(task) \in 0..(task.width - 1)
                          THEN task.in[2][a - Start(task) + 1] ELSE (7 * a + 5) % BASE]

(***************************************************************************)
(* The expression of an instruction of IR8 gives what the instruction is   *)
(* defined to compute, and a byte: no carry, sign or wrap is left in it.   *)
(* A built-in function returns the bytes of its number, by its stages or   *)
(* from the coprocessor; a count of bits is at most 4 * BITS, a byte when  *)
(* a byte has eight bits.                                                  *)
(***************************************************************************)
ExpressionsExact ==
    /\ Running /\ Here.op \notin NoExpression =>
          /\ Expression(Here, Values) = Eval(Here.op, Values, Here.lane)
          /\ Here.op # "Copy" => Expression(Here, Values) \in Byte
    /\ Running /\ Here.op = "CallSetup" /\ ~BuiltinTrap(Here.callee, Values) =>
          LET ret == BuiltinReturn(Here.callee, Values)
          IN  /\ LE(ret, 4) = BuiltinAnswer(Here.callee, LE(Lhs(Values), 4),
                                            IF Len(Values) = 8 THEN LE(Rhs(Values), 4) ELSE 0)
              /\ Here.callee \notin CountOps => ToSet(ret) \subseteq Byte
=============================================================================
