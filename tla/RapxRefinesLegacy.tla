------------------------- MODULE RapxRefinesLegacy -------------------------
(***************************************************************************)
(* The rapx builder (DataflowGraph) implements the legacy rap builder     *)
(* (LegacyDataflowGraph) on the bodies both handle: Use / BinaryOp /      *)
(* Aggregate right-hand sides and FnDef calls, over places with or        *)
(* without projections.  The refinement mapping forgets what rapx adds:   *)
(*   - the seq counters of nodes and edges;                               *)
(*   - the projection chains: the legacy builder reads and writes every   *)
(*     place as its base local (dataflow.rs, place.local), so a marker    *)
(*     node stands for its base local and the Deref / Field / Index ...   *)
(*     edges of the chain are dropped, the remaining edges renumbered;   *)
(*   - the constant nodes: an edge out of a constant node is the legacy   *)
(*     ConstEdge into the same destination;                               *)
(*   - the rustc version: rapx's Rvalue::BinaryOp is the older           *)
(*     Rvalue::CheckedBinaryOp the legacy code matches on (checked        *)
(*     arithmetic only: an unchecked BinaryOp of the older rustc panics  *)
(*     in the legacy builder).                                           *)
(* A panic step of rapx is a legacy panic step when the legacy body also *)
(* has an unsupported construct; Panic does not say which one aborted.   *)
(* The adjacency lists must agree entry by entry: rapx adds the operand   *)
(* edges of an instruction in the legacy order.                           *)
(***************************************************************************)
EXTENDS DataflowGraph

\* The statement or terminator as the older rustc spells it.
LegacyInstr(i) ==
    IF i.kind = "Assign" /\ i.rvalue.kind = "BinaryOp"
    THEN [i EXCEPT !.rvalue.kind = "CheckedBinaryOp"]
    ELSE i

\* The edges parse_place adds while it resolves a projection chain; the
\* legacy builder resolves no projection and has none of them.
ChainOps == {ElemEdgeOp[k] : k \in DOMAIN ElemEdgeOp}
Kept(k) == edges[k].op \notin ChainOps

\* The local a node stands for in the legacy graph: a marker node of a
\* projection chain stands for the base local of the place (its first
\* in-edge comes from the previous step); locals and constant nodes (no
\* in-edge) stand for themselves.
RECURSIVE Base(_)
Base(n) ==
    IF n \in Locals \/ nodes[n + 1].in_edges = <<>> THEN n
    ELSE Base(edges[nodes[n + 1].in_edges[1] + 1].src)

\* Kept edges in order; the legacy id of edge k is its position among them.
KeptIds == SelectSeq([k \in DOMAIN edges |-> k], Kept)
LegacyId(k) == Cardinality({j \in 1 .. k - 1 : Kept(j)})
LegacyList(P(_)) == [j \in 1 .. Len(SelectSeq(KeptIds, P)) |->
                       LegacyId(SelectSeq(KeptIds, P)[j])]

\* The visit that last wrote node n: the latest origin of a kept edge into
\* it (every instruction of the bodies adds an operand edge).
LastWrite(n) == Max({0} \cup {origin[k] : k \in {k \in DOMAIN edges :
                                  Kept(k) /\ edges[k].dst = n}})
\* A local's NodeOp is that of the node of its class written last (a write
\* through `*_1` sets the marker node's NodeOp in rapx, _1's in legacy).
LegacyOp(l) ==
    LET W == {n \in Nodes : Base(n) = l /\ LastWrite(n) > 0}
    IN IF W = {} THEN nodes[l + 1].op
       ELSE nodes[(CHOOSE n \in W : \A m \in W : LastWrite(m) <= LastWrite(n)) + 1].op

LegacyNodes ==
    [i \in 1 .. n_locals |->
       [op |-> LegacyOp(i - 1),
        in_edges |-> LegacyList(LAMBDA k : Base(edges[k].dst) = i - 1),
        out_edges |-> LegacyList(LAMBDA k : Base(edges[k].src) = i - 1)]]

LegacyEdges ==
    [j \in 1 .. Len(KeptIds) |->
       LET e == edges[KeptIds[j]]
       IN IF Base(e.src) \in Locals
          THEN [kind |-> "NodeEdge", src |-> Base(e.src), dst |-> Base(e.dst),
                op |-> e.op]
          ELSE [kind |-> "ConstEdge", dst |-> Base(e.dst), op |-> e.op]]

Legacy == INSTANCE LegacyDataflowGraph WITH
    Statements <- {LegacyInstr(s) : s \in Statements},
    nodes <- LegacyNodes,
    edges <- LegacyEdges,
    trace <- [k \in DOMAIN trace |-> LegacyInstr(trace[k])],
    phase <- phase

\* Every behaviour of rapx's build_graph on a body of the common subset is a
\* behaviour of the legacy build_graph: the same edges in the same order,
\* the same adjacency lists and NodeOps; and rapx aborts only on a body
\* on which the legacy code can abort too.
RefinesLegacy == Legacy!Spec

=============================================================================
