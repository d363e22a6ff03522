--------------------------- MODULE MCCallProtocol ---------------------------
(* An entry that calls function 2 (every body of up to MaxLen instructions  *)
(* from the pool), which may call itself and function 3.                    *)
EXTENDS CallDepth

CONSTANT MaxLen

(* By index: the leaf, putchar, getchar, the function itself, no function. *)
MCTable == <<Entry("fn", 3), Entry("putchar", 0), Entry("getchar", 0), Entry("fn", 2), Entry("null", 0)>>

SeqsUpTo(S, n) == UNION {[1..k -> S] : k \in 0..n}
Fun(params, code) == [params |-> params, code |-> code]

Start == Fun(<<>>, <<Ins("Set", "t", <<>>, 2), Ins("Set", "u", <<>>, 1),
                     Ins("Call", "u", <<"t", "u">>, 2), Ins("Put", NoWord, <<"t">>, 0),
                     Ins("Put", NoWord, <<"u">>, 0), Ins("Ret", NoWord, <<"u">>, 0)>>)
Leaf == Fun(<<"p">>, <<Ins("Dec", "p", <<"p">>, 0), Ins("Ret", NoWord, <<"p">>, 0)>>)

Pool == {Ins("Set", "t", <<>>, 1), Ins("Dec", "p", <<"p">>, 0), Ins("Put", NoWord, <<"q">>, 0),
         Ins("Key", "t", <<>>, 0), Ins("Br", NoWord, <<"p">>, 1), Ins("Br", NoWord, <<"q">>, 3),
         Ins("Call", "t", <<"q">>, 3), Ins("Call", "q", <<"p", "t">>, 2),
         Ins("Call", "t", <<"p", "q">>, 2)}
Ends == {Ins("Ret", NoWord, <<"p">>, 0), Ins("Ret", NoWord, <<"t">>, 0),
         Ins("Tail", NoWord, <<"q">>, 3), Ins("Tail", NoWord, <<"p", "t">>, 2)}

(* The same through the table, in shorter bodies. *)
IndirectPool == Pool \cup {Ins("CallIndirect", "t", <<"q", "p">>, 1), Ins("CallIndirect", "q", <<"p">>, 0)}
IndirectEnds == Ends \cup {Ins("TailIndirect", NoWord, <<"p", "q">>, 1)}

(* No word is read undefined, no jump leaves the code, and a call to itself *)
(* copies no parameter that it overwrites (see SwapPrograms).               *)
Usable(f, n) ==
    /\ \A k \in DOMAIN f.code : f.code[k].op = "Br" => f.code[k].arg \in DOMAIN f.code
    /\ \A k \in DOMAIN f.code :
          f.code[k].op \in {"Call", "Tail"} /\ f.code[k].arg = n => ~Clobbers(f.params, f.code[k].src)
    /\ Needed(f, 1) \subseteq ToSet(f.params)
Over(pool, ends, n) ==
    {f \in {Fun(<<"p", "q">>, Append(s, e)) : s \in SeqsUpTo(pool, n), e \in ends} : Usable(f, 2)}
Calls(f) == \E k \in DOMAIN f.code : IsCall(f.code[k]) \/ IsTail(f.code[k])
Bodies == {f \in Over(Pool, Ends, MaxLen) : Calls(f)} \cup Over(IndirectPool, IndirectEnds, MaxLen - 1)

(* f(p, q) = if q then (print p, q after a recursive call) else p: every    *)
(* activation's words are read after the recursion has reused them all.     *)
Recursive == Fun(<<"p", "q">>,
    <<Ins("Br", NoWord, <<"q">>, 3), Ins("Ret", NoWord, <<"p">>, 0),
      Ins("Move", "t", <<"q">>, 0), Ins("Dec", "q", <<"q">>, 0), Ins("Dec", "p", <<"p">>, 0),
      Ins("Call", "u", <<"p", "q">>, 2), Ins("Put", NoWord, <<"t">>, 0),
      Ins("Put", NoWord, <<"p">>, 0), Ins("Ret", NoWord, <<"u">>, 0)>>)
(* A loop of calls, and the frame of an outer call kept across all of them. *)
Looping == Fun(<<"p", "q">>,
    <<Ins("Call", "t", <<"p">>, 3), Ins("Put", NoWord, <<"t">>, 0), Ins("Dec", "p", <<"p">>, 0),
      Ins("Br", NoWord, <<"p">>, 1), Ins("Tail", NoWord, <<"q">>, 3)>>)

(* A chain of calls through the table: the function itself, which prints    *)
(* what it kept, then what a key asks for, any entry or none.               *)
Through == Fun(<<"p", "q">>,
    <<Ins("Br", NoWord, <<"q">>, 3), Ins("Ret", NoWord, <<"p">>, 0),
      Ins("Set", "i", <<>>, 3), Ins("Dec", "q", <<"q">>, 0),
      Ins("CallIndirect", "u", <<"p", "q", "i">>, 2), Ins("Put", NoWord, <<"q">>, 0),
      Ins("Key", "i", <<>>, 0), Ins("CallIndirect", "t", <<"u", "i">>, 1),
      Ins("Put", NoWord, <<"p">>, 0), Ins("TailIndirect", NoWord, <<"t", "i">>, 1)>>)
(* The low byte of the index names putchar, the index no entry.            *)
Beyond == Fun(<<"p", "q">>,
    <<Ins("Set", "i", <<>>, BYTE + 1), Ins("CallIndirect", "t", <<"p", "i">>, 1),
      Ins("Ret", NoWord, <<"t">>, 0)>>)
(* A function of the program that is of another type, and no function.     *)
Else(n) == Fun(<<"p", "q">>,
    <<Ins("Set", "i", <<>>, n), Ins("TailIndirect", NoWord, <<"p", "i">>, 1)>>)

MCPrograms == {<<Start, f, Leaf>> :
                  f \in Bodies \cup {Recursive, Looping, Through, Beyond} \cup {Else(n) : n \in 1..7}}

(* f(p, q) = if p then f(q, p - 1) else print(q): swaps its parameters.     *)
Swap == Fun(<<"p", "q">>,
    <<Ins("Br", NoWord, <<"p">>, 3), Ins("Ret", NoWord, <<"q">>, 0), Ins("Dec", "p", <<"p">>, 0),
      Ins("Call", "t", <<"q", "p">>, 2), Ins("Ret", NoWord, <<"t">>, 0)>>)
SwapPrograms == {<<Start, Swap, Leaf>>}
=============================================================================
