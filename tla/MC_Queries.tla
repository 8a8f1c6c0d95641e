----------------------------- MODULE MC_Queries -----------------------------
(***************************************************************************)
(* Queries on the graphs of straight-line bodies of up to MaxInstrs       *)
(* instructions: parameters _1 and _2, a temporary _3, the return value   *)
(* _0.  Every statement writes a local later in the order _1, _2, _3, _0  *)
(* than the ones it reads, so no graph has a cycle (the traversal's       *)
(* precondition); locals are still written more than once.               *)
(***************************************************************************)
EXTENDS GraphQueries

MC_n_locals == 4
MC_argc == 2
MC_MaxInstrs == 3

P(l) == Place(l, <<>>)
Copy(p) == Operand("Copy", p)
Move(p) == Operand("Move", p)
NoPlace == P(0)

MC_Statements == {
  \* _3 = copy _1 ; _3 = Add(copy _1, copy _2) ; _3 = &_2
  Assign(P(3), Rvalue("Use", <<Copy(P(1))>>, NoPlace, "")),
  Assign(P(3), Rvalue("BinaryOp", <<Copy(P(1)), Copy(P(2))>>, NoPlace, "")),
  Assign(P(3), Rvalue("Ref", <<>>, P(2), "Shared")),
  \* _0 = move _3 ; _0 = copy (*_3) ; _0 = const 0 ; _0 = (copy _1, move _3)
  Assign(P(0), Rvalue("Use", <<Move(P(3))>>, NoPlace, "")),
  Assign(P(0), Rvalue("Use", <<Copy(Place(3, <<Elem("Deref", 0)>>))>>, NoPlace, "")),
  Assign(P(0), Rvalue("Use", <<ConstOperand>>, NoPlace, "")),
  Assign(P(0), Rvalue("Aggregate", <<Copy(P(1)), Move(P(3))>>, NoPlace, "Tuple")),
  \* (*_1) = copy _2 ; _0 = copy (*_1)        (_1: a &mut parameter)
  Assign(Place(1, <<Elem("Deref", 0)>>), Rvalue("Use", <<Copy(P(2))>>, NoPlace, "")),
  Assign(P(0), Rvalue("Use", <<Copy(Place(1, <<Elem("Deref", 0)>>))>>, NoPlace, "")) }

MC_Terminators == {
  \* _3 = f(copy _2) ; _0 = move _3(copy _1)
  Call("FnDef", NoPlace, <<Copy(P(2))>>, P(3)),
  Call("Move", P(3), <<Copy(P(1))>>, P(0)) }

MC_Queries ==
    {IsConnectedQuery(a, b) : a, b \in Locals}
    \cup {CollectQuery(l) : l \in Locals}
    \cup {DepsQuery}

=============================================================================
