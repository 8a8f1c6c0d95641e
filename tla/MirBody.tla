------------------------------ MODULE MirBody ------------------------------
(***************************************************************************)
(* The MIR body both dataflow builders read (rustc_middle::mir::Body as    *)
(* build_graph sees it): the local count, the argument count, and the      *)
(* statements and terminators a body may contain, as records built by the  *)
(* constructors below.  Spans, DefIds, field indices, variant names and    *)
(* constant texts are dropped: no property reads them.                     *)
(***************************************************************************)
EXTENDS Naturals, Sequences

CONSTANTS
    n_locals,     \* body.local_decls.len(): locals _0 .. _(n_locals-1)
    argc,         \* body.arg_count: the parameters are _1 .. _argc
    Statements,   \* the MIR statements a body may contain
    Terminators,  \* the MIR terminators a body may contain
    MaxInstrs     \* bound on the statements + terminators of one body

ASSUME /\ n_locals \in Nat \ {0}
       /\ argc \in Nat /\ argc < n_locals
       /\ MaxInstrs \in Nat

Locals == 0 .. n_locals - 1

-----------------------------------------------------------------------------
(* The MIR input, as records built by these constructors.                  *)

\* PlaceElem: kind is the variant; arg is the index local of Index and, for
\* Downcast, 1 when the variant symbol is Some and 0 when it is None.
Elem(kind, arg) == [kind |-> kind, arg |-> arg]
Place(local, proj) == [local |-> local, proj |-> proj]
Operand(kind, place) == [kind |-> kind, place |-> place]
ConstOperand == Operand("Constant", Place(0, <<>>))
\* Rvalue: ops are its operands, place its place operand, sub the BorrowKind
\* of Ref or the AggregateKind of Aggregate.
Rvalue(kind, ops, place, sub) ==
    [kind |-> kind, ops |-> ops, place |-> place, sub |-> sub]
Assign(place, rv) == [kind |-> "Assign", place |-> place, rvalue |-> rv]
\* func.kind: "FnDef" (Const::Val of a FnDef type), "ConstOther" (any other
\* constant), "Move" or "Copy" (a place operand).
Call(fkind, fplace, args, dest) ==
    [kind |-> "Call", func |-> [kind |-> fkind, place |-> fplace],
     args |-> args, dest |-> dest]

=============================================================================
