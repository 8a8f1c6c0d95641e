-------------------------- MODULE MC_RefinesLegacy --------------------------
(***************************************************************************)
(* Bodies over _0 .. _2 (one parameter) from the constructs both builders *)
(* handle, read and written through projections too, plus one statement  *)
(* and one terminator both abort on.  Every instruction adds at least    *)
(* one operand edge.                                                      *)
(***************************************************************************)
EXTENDS RapxRefinesLegacy

MC_n_locals == 3
MC_argc == 1
MC_MaxInstrs == 4

P(l) == Place(l, <<>>)
Copy(p) == Operand("Copy", p)
Move(p) == Operand("Move", p)
NoPlace == P(0)

MC_Statements == {
  \* _2 = copy _1 ; _0 = move _2 ; _1 = const
  Assign(P(2), Rvalue("Use", <<Copy(P(1))>>, NoPlace, "")),
  Assign(P(0), Rvalue("Use", <<Move(P(2))>>, NoPlace, "")),
  Assign(P(1), Rvalue("Use", <<ConstOperand>>, NoPlace, "")),
  \* _2 = Add(copy _1, const 1) ; _0 = Add(copy _2, copy _1)
  Assign(P(2), Rvalue("BinaryOp", <<Copy(P(1)), ConstOperand>>, NoPlace, "")),
  Assign(P(0), Rvalue("BinaryOp", <<Copy(P(2)), Copy(P(1))>>, NoPlace, "")),
  \* _0 = (move _2, const 0, copy _1)
  Assign(P(0), Rvalue("Aggregate", <<Move(P(2)), ConstOperand, Copy(P(1))>>,
                      NoPlace, "Tuple")),
  \* _0 = copy (*_1) ; (*_1) = move _2 ; _2 = copy ((_1 as Some).0)[_0]
  Assign(P(0), Rvalue("Use", <<Copy(Place(1, <<Elem("Deref", 0)>>))>>, NoPlace, "")),
  Assign(Place(1, <<Elem("Deref", 0)>>), Rvalue("Use", <<Move(P(2))>>, NoPlace, "")),
  Assign(P(2), Rvalue("Use", <<Copy(Place(1, <<Elem("Downcast", 1), Elem("Field", 0),
                                              Elem("Index", 0)>>))>>, NoPlace, "")),
  \* (_0.0) = Add(copy _1[1 of 2], const 1)
  Assign(Place(0, <<Elem("Field", 0)>>),
         Rvalue("BinaryOp", <<Copy(Place(1, <<Elem("ConstantIndex", 0)>>)), ConstOperand>>,
                NoPlace, "")),
  \* _2 = &raw const _1: both abort
  Assign(P(2), Rvalue("RawPtr", <<>>, P(1), "")),
  \* StorageDead(_2)
  [kind |-> "Other", place |-> NoPlace, rvalue |-> Rvalue("Nop", <<>>, NoPlace, "")] }

MC_Terminators == {
  \* _0 = f(copy _1, const 1) ; _1 = g(move _2)
  Call("FnDef", NoPlace, <<Copy(P(1)), ConstOperand>>, P(0)),
  Call("FnDef", NoPlace, <<Move(P(2))>>, P(1)),
  \* _0 = copy _1(const 1): both abort
  Call("Copy", P(1), <<ConstOperand>>, P(0)),
  \* return
  [kind |-> "Other", func |-> [kind |-> "FnDef", place |-> NoPlace],
   args |-> <<>>, dest |-> NoPlace] }

=============================================================================
