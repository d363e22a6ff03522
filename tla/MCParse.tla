------------------------------ MODULE MCParse ------------------------------
(***************************************************************************)
(* Functions for Parse: a construct in a construct around a leaf, each     *)
(* over an operand that must survive it, with every mix of types; straight *)
(* code with the other operators; and every fill and copy of a memory of   *)
(* eight bytes.  All of them are valid WebAssembly.  Left out, and stated  *)
(* in README.md: drops and calls in dead code whose operands are not there *)
(* and branches to a typed loop over a value of another type, which are    *)
(* refused; branches to the function's own label, which lowering refuses;  *)
(* empty fills and copies beyond the end of memory.                        *)
(***************************************************************************)
EXTENDS Parse

Op(op, val)      == <<Operator(op, val, "i32", <<>>)>>
Op64(op, val)    == <<Operator(op, val, "i64", <<>>)>>
Nest(op, val, ty, bodies) == <<Operator(op, val, ty, bodies)>>
I32(v)   == Op("Const", <<v>>)
I64(v)  == Op64("Const", <<v>>)
Show    == Op("Call", <<1>>)
Ask      == Op("Call", <<2>>)
Mix      == Op("Call", <<3>>)
ShowLong  == Op("Call", <<4>>)

MCSignatures == <<[params |-> <<"i32">>, result |-> "void"],
                  [params |-> <<>>, result |-> "i32"],
                  [params |-> <<"i32", "i64">>, result |-> "i64"],
                  [params |-> <<"i64">>, result |-> "void"]>>

MCEnvs == {[mem |-> [a \in 0..(MemEnd - 1) |-> (a * a + 1) % BASE], answers |-> s] :
              s \in {<<0, 1>>, <<1, 0>>, <<0, 0, 1>>, <<1, 1, 0, 2>>}}

Types == {"void", "i32"}

(* Code that leaves a value of the type, or prints one; and what makes one *)
(* type of another, in dead code too.                                      *)
Some(ty, v)  == IF ty = "void" THEN I32(v) \o Show ELSE I32(v)
From(a, b)   == CASE a = b -> <<>> [] a = "i32" /\ b = "void" -> Op("GlobalSet", <<>>) [] OTHER -> I32(1)

(* Leaves of type ty under two labels that take l0 and l1. *)
Leaves(ty, l0, l1) ==
    LET brif(d, l) == Some(l, 3) \o Ask \o Op("BrIf", <<d>>) \o From(l, ty)
        dead(x)    == I32(5) \o I32(6) \o x \o From("i32", ty)
        inner      == Nest("Block", <<>>, "i32", <<I32(2) \o Op("Br", <<0>>)>>)
    IN  {Some(ty, 3),
         Some(l0, 4) \o Op("Br", <<0>>), Some(l1, 4) \o Op("Br", <<1>>),
         I32(8) \o Some(l0, 4) \o Op("Br", <<0>>) \o dead(Op("Sub", <<>>)),
         Some(l1, 4) \o Op("Br", <<1>>) \o dead(inner \o Op("Sub", <<>>)),
         brif(0, l0), brif(1, l1),
         I32(9) \o Some(l0, 3) \o Ask \o Op("BrIf", <<0>>) \o From(l0, "i32") \o Op("Sub", <<>>) \o From("i32", ty),
         I32(8) \o Op("Return", <<>>), Ask \o Op("Unreachable", <<>>) \o dead(Op("Sub", <<>>)),
         I32(6) \o Op("Throw", <<1>>), Op("Throw", <<2>>),
         Ask \o Op("Tee", <<1>>) \o I32(2) \o Op("Set", <<1>>) \o Op("Get", <<1>>) \o Op("Sub", <<>>) \o From("i32", ty)}
        \cup (IF l0 = l1 THEN {Some(l0, 3) \o Ask \o Op("BrTable", <<0, 1>>)} ELSE {})

Wraps == {"Block", "Loop", "If", "IfOnly", "Try", "TryAll", "Catch", "Delegate"}

Takes(w, ty) == IF w = "Loop" THEN "void" ELSE ty

Construct(w, ty, x) ==
    CASE w = "Block"    -> Nest("Block", <<>>, ty, <<x>>)
      [] w = "Loop"     -> Nest("Loop", <<>>, ty, <<Ask \o Op("BrIf", <<0>>) \o x>>)
      [] w = "If"       -> Ask \o Nest("If", <<>>, ty, <<x, Some(ty, 2)>>)
      [] w = "IfOnly"   -> Ask \o Nest("If", <<>>, "void", <<x \o From(ty, "void")>>) \o From("void", ty)
      [] w = "Try"      -> Nest("Try", <<1>>, ty, <<x, From("i32", ty)>>)
      [] w = "TryAll"   -> Nest("Try", <<2, 0>>, ty, <<x, Some(ty, 2), Some(ty, 5)>>)
      [] w = "Catch"    -> Nest("Try", <<1, 2>>, ty,
                                <<I32(6) \o Op("Throw", <<1>>), Show \o x, Op("Rethrow", <<0>>)>>)
      [] w = "Delegate" -> Nest("Delegate", <<0>>, ty, <<x>>)

(* A construct over an operand. *)
Wrap(w, ty, x) == I32(7) \o Construct(w, ty, x) \o (IF ty = "i32" THEN Op("Sub", <<>>) ELSE Show)

Label(w, ty) == IF w = "IfOnly" THEN "void" ELSE Takes(w, ty)

Function(body) == [params |-> <<"i32">>, locals |-> <<"i64">>, result |-> "i32", body |-> body]
Procedure(body) == [params |-> <<"i32">>, locals |-> <<"i64">>, result |-> "void", body |-> body]

Nested ==
    UNION {LET inner == UNION {{Wrap(w2, t2, x) \o From(t2, t1) : x \in Leaves(t2, Label(w2, t2), Label(w1, t1))} :
                                   w2 \in Wraps, t2 \in Types}
           IN  {Function(Op64("Get", <<2>>) \o Wrap(w1, t1, y) \o From(t1, "i32")
                            \o Op("Set", <<1>>) \o Op64("Drop", <<>>) \o Op("Get", <<1>>)) : y \in inner} :
              w1 \in Wraps, t1 \in Types}

Straight ==
    {Procedure(Op("MemorySize", <<>>) \o Op("TableSize", <<>>) \o Op("GlobalSet", <<>>) \o Op("Eqz", <<>>)
                 \o Show \o Op("GlobalGet", <<>>) \o Show \o Op("Nop", <<>>)),
     Procedure(Ask \o I64(3) \o Mix \o I64(4) \o Ask \o Nest("Select", <<>>, "any", <<>>) \o ShowLong),
     Procedure(I32(1) \o I32(2) \o Ask \o Nest("Select", <<>>, "i32", <<>>) \o Show
                 \o Ask \o Ask \o Op("GtU", <<>>) \o Show \o Ask \o Ask \o Op("LtU", <<>>) \o Show),
     Procedure(I32(2) \o I32(77) \o Op("Store", <<4>>) \o I32(3) \o Op("Load", <<2>>) \o Op("Load", <<1>>) \o Show),
     Procedure(I32(5) \o I32(77) \o Op("Store", <<4>>)),
     Procedure(Ask \o I32(9) \o Op("Mul", <<>>) \o I32(6) \o Op("Add", <<>>) \o I32(14) \o Op("And", <<>>) \o Show),
     Procedure(I32(5) \o I32(1) \o Op("CallIndirect", <<1>>) \o Ask \o Op("ReturnCall", <<1>>) \o I32(3) \o Show),
     Function(I32(5) \o Op("ReturnCallIndirect", <<2>>)),
     Procedure(Op("Unreachable", <<>>) \o I64(1) \o Op("Add", <<>>) \o Nest("Select", <<>>, "any", <<>>)
                 \o Op("Set", <<1>>) \o Op("Return", <<>>) \o Op("Eqz", <<>>) \o Op("Set", <<1>>))}

Regions == {r \in (0..MemEnd) \X (0..MemEnd) : r[1] + r[2] <= MemEnd} \cup {<<MemEnd - 1, 2>>}

Bulk ==
    {Procedure(I32(r[1]) \o I32(6) \o I32(r[2]) \o Op("MemoryFill", <<>>)) : r \in Regions}
    \cup {Procedure(I32(r[1]) \o I32(src) \o I32(r[2]) \o Op("MemoryCopy", <<>>)) :
             r \in Regions, src \in 0..MemEnd}

MCFunctions == Nested \cup Straight \cup Bulk
=============================================================================
