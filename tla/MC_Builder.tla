----------------------------- MODULE MC_Builder -----------------------------
(***************************************************************************)
(* A body with locals _0 (return), _1 (the one parameter) and _2, whose   *)
(* statements and terminators cover every Rvalue, PlaceElem, BorrowKind   *)
(* and callee shape add_statm_to_graph / add_terminator_to_graph handle,  *)
(* and one of each construct they abort on.                               *)
(***************************************************************************)
EXTENDS DataflowGraph

MC_n_locals == 3
MC_argc == 1
MC_MaxInstrs == 3

P(l) == Place(l, <<>>)
Deref == Elem("Deref", 0)
Field == Elem("Field", 0)
DowncastSome == Elem("Downcast", 1)
DowncastNone == Elem("Downcast", 0)
Copy(p) == Operand("Copy", p)
Move(p) == Operand("Move", p)
NoOps == <<>>
NoPlace == P(0)
Nothing == [kind |-> "Other", place |-> NoPlace,
            rvalue |-> Rvalue("Nop", NoOps, NoPlace, "")]

MC_Statements == {
  \* _2 = copy _1 ; _0 = move _2
  Assign(P(2), Rvalue("Use", <<Copy(P(1))>>, NoPlace, "")),
  Assign(P(0), Rvalue("Use", <<Move(P(2))>>, NoPlace, "")),
  \* _2 = Add(copy _1, const 1) ; _1 = Add(copy _1, copy _2)
  Assign(P(2), Rvalue("BinaryOp", <<Copy(P(1)), ConstOperand>>, NoPlace, "")),
  Assign(P(1), Rvalue("BinaryOp", <<Copy(P(1)), Copy(P(2))>>, NoPlace, "")),
  \* _0 = &(*_1) ; _2 = &mut _1 ; _2 = &fake _1
  Assign(P(0), Rvalue("Ref", NoOps, Place(1, <<Deref>>), "Shared")),
  Assign(P(2), Rvalue("Ref", NoOps, P(1), "Mut")),
  Assign(P(2), Rvalue("Ref", NoOps, P(1), "Fake")),
  \* _0 = (copy _1, move _2) ; _2 = [copy _1; N] ; _0 = copy _2 as T ; _2 = Neg(copy _1)
  Assign(P(0), Rvalue("Aggregate", <<Copy(P(1)), Move(P(2))>>, NoPlace, "Tuple")),
  Assign(P(2), Rvalue("Repeat", <<Copy(P(1))>>, NoPlace, "")),
  Assign(P(0), Rvalue("Cast", <<Copy(P(2))>>, NoPlace, "")),
  Assign(P(2), Rvalue("UnaryOp", <<Copy(P(1))>>, NoPlace, "")),
  \* _2 = SizeOf(T) ; _2 = discriminant(_1) ; _2 = CopyForDeref(_1) ; _2 = Len(_1)
  Assign(P(2), Rvalue("NullaryOp", NoOps, NoPlace, "")),
  Assign(P(2), Rvalue("Discriminant", NoOps, P(1), "")),
  Assign(P(2), Rvalue("CopyForDeref", NoOps, P(1), "")),
  Assign(P(2), Rvalue("Len", NoOps, P(1), "")),
  \* _0 = ShallowInitBox(move _2)
  Assign(P(0), Rvalue("ShallowInitBox", <<Move(P(2))>>, NoPlace, "")),
  \* _0 = copy ((_1 as Some).0) ; _0 = copy (*_1)[_2] ; _2 = copy _1[1 of 2] ; _2 = copy _1[1..]
  Assign(P(0), Rvalue("Use", <<Copy(Place(1, <<DowncastSome, Field>>))>>, NoPlace, "")),
  Assign(P(0), Rvalue("Use", <<Copy(Place(1, <<Deref, Elem("Index", 2)>>))>>, NoPlace, "")),
  Assign(P(2), Rvalue("Use", <<Copy(Place(1, <<Elem("ConstantIndex", 0)>>))>>, NoPlace, "")),
  Assign(P(2), Rvalue("Use", <<Copy(Place(1, <<Elem("Subslice", 0)>>))>>, NoPlace, "")),
  \* (*_1) = const 0
  Assign(Place(1, <<Deref>>), Rvalue("Use", <<ConstOperand>>, NoPlace, "")),
  \* unsupported: a Downcast without symbol, OpaqueCast, ThreadLocalRef,
  \* RawPtr, a coroutine aggregate
  Assign(P(2), Rvalue("Use", <<Copy(Place(1, <<DowncastNone>>))>>, NoPlace, "")),
  Assign(P(2), Rvalue("Use", <<Copy(Place(1, <<Elem("OpaqueCast", 0)>>))>>, NoPlace, "")),
  Assign(P(2), Rvalue("ThreadLocalRef", NoOps, NoPlace, "")),
  Assign(P(2), Rvalue("RawPtr", NoOps, P(1), "")),
  Assign(P(2), Rvalue("Aggregate", <<Copy(P(1))>>, NoPlace, "Coroutine")),
  \* StorageLive(_2)
  Nothing }

NoTerm == [kind |-> "Other", func |-> [kind |-> "FnDef", place |-> NoPlace],
           args |-> NoOps, dest |-> NoPlace]

MC_Terminators == {
  \* _0 = f(copy _1) ; _2 = f(move _2, const 1)
  Call("FnDef", NoPlace, <<Copy(P(1))>>, P(0)),
  Call("FnDef", NoPlace, <<Move(P(2)), ConstOperand>>, P(2)),
  \* (*_2) = f(copy _1)               (a projected destination)
  Call("FnDef", NoPlace, <<Copy(P(1))>>, Place(2, <<Deref>>)),
  \* _0 = move _1(copy _2)            (_1: a fn pointer / closure)
  Call("Move", P(1), <<Copy(P(2))>>, P(0)),
  \* _0 = CONST_FN_PTR(copy _1)       (a constant whose type is not FnDef)
  Call("ConstOther", NoPlace, <<Copy(P(1))>>, P(0)),
  \* _0 = copy _1(const 1)            (unsupported: todo!())
  Call("Copy", P(1), <<ConstOperand>>, P(0)),
  \* goto / return
  NoTerm }

=============================================================================
