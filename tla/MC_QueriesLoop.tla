--------------------------- MODULE MC_QueriesLoop ---------------------------
(***************************************************************************)
(* Queries on the graph of a loop body: `i += 1` on a parameter is the    *)
(* MIR statement _1 = Add(copy _1, const 1), whose operand edge goes from *)
(* _1 back into _1; and `_0 = copy _1` returns it.                       *)
(***************************************************************************)
EXTENDS GraphQueries

MC_n_locals == 2
MC_argc == 1
MC_MaxInstrs == 2

P(l) == Place(l, <<>>)

MC_Statements == {
  Assign(P(1), Rvalue("BinaryOp", <<Operand("Copy", P(1)), ConstOperand>>, P(0), "")),
  Assign(P(0), Rvalue("Use", <<Operand("Copy", P(1))>>, P(0), "")) }

MC_Terminators == {}

MC_Queries == {DepsQuery}

=============================================================================
