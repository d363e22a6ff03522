----------------------------- MODULE MCByteArith -----------------------------
(***************************************************************************)
(* Instances of ByteArith: bytes of four bits, so that words have sixteen, *)
(* at the values where carries, signs and bytes meet.                      *)
(***************************************************************************)
EXTENDS ByteArith

CONSTANTS
    Words,      \* the numbers of an i32
    FewWords,   \* the halves of an i64
    Amounts,    \* shift amounts
    Offsets,    \* of memory accesses
    Addresses

NoCallee(v) == 0

Bytes(n) == <<>> \o writeCopOutputWord(n)

(* The n-th operand of an instruction: in registers, literal, or one byte. *)
Held(form, v, n) ==
    <<>> \o [k \in DOMAIN v |-> IF form = "imm" \/ (form = "narrow" /\ k > 1) THEN Imm(v[k])
                               ELSE OperandReg(n, k)]

W    == {Bytes(n) : n \in Words}
Thin == {w \in W : Tail(w) = <<0, 0, 0>>}
W64  == {Bytes(n) \o Bytes(m) : n \in FewWords, m \in FewWords}

(* A task over two values for each way of holding them, the narrow ones of *)
(* one byte only.                                                          *)
Two(kind, ops, ty, as, bs, forms, js) ==
    {Task(kind, op, ty, <<a, b>>, <<Held(f[1], a, 1), Held(f[2], b, 2)>>, j) :
        op \in ops, a \in as, b \in bs, f \in forms, j \in js}

One(ops, ty, as, js) ==
    {Task("Unary", op, ty, <<a>>, <<Held(f, a, 1)>>, j) : op \in ops, a \in as, f \in {"reg", "imm"}, j \in js}

Mixed == {<<"reg", "reg">>, <<"reg", "imm">>, <<"imm", "reg">>}
Plain == (DOMAIN LaneOf) \cup (DOMAIN ByteOf)
Off   == {FALSE}

Binaries ==
    <<Two("Binary", Plain, "i32", W, W, Mixed, Off),
      Two("Binary", Plain, "i32", Thin, W, {<<"narrow", "reg">>, <<"imm", "imm">>}, Off),
      Two("Binary", Plain, "i32", Thin, Thin, {<<"narrow", "narrow">>}, Off),
      Two("Binary", DivOps, "i32", W, W, Mixed, Off),
      Two("Binary", DivOps, "i32", W, W, {<<"reg", "reg">>}, {TRUE}),
      Two("Binary", DivOps, "i32", W, Thin, {<<"reg", "narrow">>, <<"reg", "imm">>}, BOOLEAN),
      Two("Binary", ShiftOps, "i32", W, {Bytes(n) : n \in Amounts}, {<<"reg", "reg">>}, BOOLEAN),
      Two("Binary", ShiftOps, "i32", W, {Bytes(n) : n \in Amounts}, {<<"reg", "imm">>, <<"imm", "reg">>}, Off),
      Two("Binary", ShiftOps, "i32", Thin, {Bytes(n) : n \in Amounts}, {<<"narrow", "imm">>}, Off)>>

Compares ==
    <<Two("Compare", DOMAIN Relation, "i32", W, W, Mixed, Off)>>

Unaries ==
    <<One(CountOps, "i32", W, BOOLEAN),
      One({"Eqz", "Extend8S", "Extend16S", "ExtendI32S", "ExtendI32U"}, "i32", W, Off),
      One({"Eqz", "WrapI64", "Extend8S", "Extend16S", "Extend32S"}, "i64", W64, Off)>>

Wide ==
    <<Two("Binary", {"Add", "Sub", "And", "Or", "Xor"}, "i64", W64, W64, {<<"reg", "reg">>, <<"reg", "imm">>}, Off),
      Two("Compare", {"Eq", "Ne", "LtU", "GtU", "LeU", "GeU"}, "i64", W64, W64, {<<"reg", "reg">>}, Off)>>

Selects ==
    <<{Task("Select", "Select", "i32", <<c, x, y>>, <<Held("reg", c, 1), Held("reg", x, 2), Held(f, y, 3)>>, FALSE) :
        c \in W, x \in Thin, y \in Thin, f \in {"reg", "imm"}},
      {Task("Select", "Select", "i64", <<c, x, y>>, <<Held("reg", c, 1), Held("reg", x, 2), Held("imm", y, 3)>>, FALSE) :
        c \in Thin, x \in W64, y \in W64}>>

Accesses ==
    <<{[Task("Load", "Load", p[1], <<Bytes(a)>>, <<Held(f, Bytes(a), 1)>>, FALSE)
        EXCEPT !.width = p[2], !.signed = s, !.offset = o] :
        p \in {<<"i32", 1>>, <<"i32", 2>>, <<"i32", 4>>, <<"i64", 1>>, <<"i64", 2>>, <<"i64", 4>>, <<"i64", 8>>},
        a \in Addresses, f \in {"reg", "imm"}, s \in BOOLEAN, o \in Offsets},
      {[Task("Store", "Store", p[1], <<Bytes(a), v>>, <<Held("reg", Bytes(a), 1), Held(f, v, 2)>>, FALSE)
        EXCEPT !.width = p[2], !.offset = o] :
        p \in {<<"i64", 1>>, <<"i64", 2>>, <<"i64", 4>>, <<"i64", 8>>},
        a \in Addresses, v \in {Bytes(23127) \o Bytes(36540)}, f \in {"reg", "imm"}, o \in Offsets},
      {[Task("Store", "Store", "i32", <<Bytes(a), v>>, <<Held("reg", Bytes(a), 1), Held("reg", v, 2)>>, FALSE)
        EXCEPT !.width = w, !.offset = o] :
        w \in {1, 2, 4}, a \in Addresses, v \in {Bytes(36540)}, o \in Offsets}>>

MCTasks == Binaries \o Compares \o Unaries \o Wide \o Selects \o Accesses
==============================================================================
