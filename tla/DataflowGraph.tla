--------------------------- MODULE DataflowGraph ---------------------------
(***************************************************************************)
(* The per-procedure dataflow graph of rapx and its builder               *)
(* (src/rapx/src/analysis/core/dataflow/graph.rs, impl Graph).            *)
(*                                                                         *)
(* The graph is a pair of append-only arenas: `nodes`, indexed by Local   *)
(* (0-based; the first n_locals entries are the MIR locals, later ones    *)
(* are synthetic projection nodes and constant nodes), and `edges`,       *)
(* indexed by EdgeIdx (0-based).  The builder visits the MIR statements   *)
(* and terminators one at a time; every visit is one atomic action that   *)
(* performs the whole handler (add_statm_to_graph or                      *)
(* add_terminator_to_graph) including the trailing `seq += 1`.            *)
(*                                                                         *)
(* Data is abstracted: spans, DefIds, field indices, variant names and    *)
(* constant texts are dropped (no property reads them); NodeOp and EdgeOp *)
(* keep their variant as a string tag.  A `todo!()` reached on an         *)
(* unsupported construct aborts the process: it is the action Panic.      *)
(***************************************************************************)
EXTENDS MirBody, SequencesExt

-----------------------------------------------------------------------------
VARIABLES
    nodes,   \* GraphNodes: Seq of [op, seq, in_edges, out_edges]
    edges,   \* GraphEdges: Seq of [src, dst, op, seq]
    trace,   \* history: the statements and terminators visited so far
    origin,  \* history: origin[e+1] is the position in trace of edge e's visit
    phase    \* "build" while visiting the body, "aborted" after a todo!()

graph_vars == <<nodes, edges, trace, origin>>

NodeOps == {"Nop", "Const", "Use", "Repeat", "Ref", "Len", "Cast",
            "CheckedBinaryOp", "NullaryOp", "UnaryOp", "Discriminant",
            "Aggregate", "ShallowInitBox", "CopyForDeref", "Call", "CallOperand"}
EdgeOps == {"Nop", "Move", "Copy", "Const", "Immut", "Mut", "Deref", "Field",
            "Downcast", "Index", "ConstIndex", "SubSlice"}

\* A graph value G = [nodes, edges]; Local and EdgeIdx are 0-based.
Node(G, n) == G.nodes[n + 1]
NodeIds(G) == 0 .. Len(G.nodes) - 1
EdgeIds(G) == 0 .. Len(G.edges) - 1

\* GraphNode::new()
new_node == [op |-> "Nop", seq |-> 0, in_edges |-> <<>>, out_edges |-> <<>>]

\* Graph::new(): one fresh node per local, no edges.
new_graph == [nodes |-> [i \in 1 .. n_locals |-> new_node], edges |-> <<>>]

\* Fault: the edge is not registered in dst's in_edges.
add_node_edge_no_in_edge(G, src, dst, op) ==
    LET e == Len(G.edges)
    IN [nodes |-> [G.nodes EXCEPT ![src + 1].out_edges = Append(@, e)],
        edges |-> Append(G.edges,
                    [src |-> src, dst |-> dst, op |-> op,
                     seq |-> G.nodes[dst + 1].seq])]

\* Graph::add_node_edge: the edge is stamped with dst's current seq and
\* registered in dst's in_edges and src's out_edges.
add_node_edge(G, src, dst, op) ==
    LET e == Len(G.edges)
        ns == [G.nodes EXCEPT ![dst + 1].in_edges = Append(@, e)]
    IN [nodes |-> [ns EXCEPT ![src + 1].out_edges = Append(@, e)],
        edges |-> Append(G.edges,
                    [src |-> src, dst |-> dst, op |-> op,
                     seq |-> Node(G, dst).seq])]

\* Fault: the edge's src is one past the pushed constant node.
add_const_edge_wrong_src(G, dst, op) ==
    LET e == Len(G.edges)
        ns == Append(G.nodes, [new_node EXCEPT !.op = "Const"])
    IN [nodes |-> [ns EXCEPT ![dst + 1].in_edges = Append(@, e)],
        edges |-> Append(G.edges,
                    [src |-> Len(G.nodes) + 1, dst |-> dst, op |-> op,
                     seq |-> G.nodes[dst + 1].seq])]

\* Graph::add_const_edge: pushes a Const node and an edge from it to dst;
\* the edge is registered in dst's in_edges only.
add_const_edge(G, dst, op) ==
    LET e == Len(G.edges)
        c == Len(G.nodes)
        ns == Append(G.nodes, [new_node EXCEPT !.op = "Const"])
    IN [nodes |-> [ns EXCEPT ![dst + 1].in_edges = Append(@, e)],
        edges |-> Append(G.edges,
                    [src |-> c, dst |-> dst, op |-> op,
                     seq |-> Node(G, dst).seq])]

\* The EdgeOp that parse_one_step gives each supported PlaceElem.
ElemEdgeOp == [Deref |-> "Deref", Field |-> "Field", Downcast |-> "Downcast",
               Index |-> "Index", ConstantIndex |-> "ConstIndex",
               Subslice |-> "SubSlice"]

\* parse_one_step: a new marker node, and an edge from src to it (Index
\* adds a second edge, from the index local, with the same EdgeOp).
\* The result is the pair [g, local] of the new graph and the new node.
parse_one_step(acc, elem) ==
    LET dst == Len(acc.g.nodes)
        G1 == [acc.g EXCEPT !.nodes = Append(@, new_node)]
        G2 == add_node_edge(G1, acc.local, dst, ElemEdgeOp[elem.kind])
    IN [g |-> IF elem.kind = "Index"
                THEN add_node_edge(G2, elem.arg, dst, "Index")
                ELSE G2,
        local |-> dst]

\* Graph::parse_place: one parse_one_step per projection element.
parse_place(G, place) ==
    FoldLeft(parse_one_step, [g |-> G, local |-> place.local], place.proj)

\* Graph::add_operand: a Copy/Move edge from the resolved place, or a
\* Const edge from a fresh constant node.
add_operand(G, operand, dst) ==
    IF operand.kind = "Constant"
    THEN add_const_edge(G, dst, "Const")
    ELSE LET r == parse_place(G, operand.place)
         IN add_node_edge(r.g, r.local, dst, operand.kind)

\* Fault: the operands are added last first.
add_operands_reversed(G, ops, dst) ==
    FoldRight(LAMBDA o, g : add_operand(g, o, dst), ops, G)

\* The operands of one Rvalue or call, in order.
add_operands(G, ops, dst) ==
    FoldLeft(LAMBDA g, o : add_operand(g, o, dst), G, ops)

set_op(G, n, op) == [G EXCEPT !.nodes[n + 1].op = op]
bump_seq(G, n) == [G EXCEPT !.nodes[n + 1].seq = @ + 1]

\* The EdgeOp of a Ref by its BorrowKind (Fake degrades to Nop).
BorrowEdgeOp == [Shared |-> "Immut", Mut |-> "Mut", Fake |-> "Nop"]

\* The Rvalues whose operands become edges, and the NodeOp each gives its
\* destination (BinaryOp is tagged CheckedBinaryOp).
OperandRvalueOp == [Use |-> "Use", Repeat |-> "Repeat", Cast |-> "Cast",
                    BinaryOp |-> "CheckedBinaryOp", Aggregate |-> "Aggregate",
                    UnaryOp |-> "UnaryOp", ShallowInitBox |-> "ShallowInitBox"]
\* The Rvalues that read one place through a single edge.
PlaceRvalues == {"Ref", "Len", "Discriminant", "CopyForDeref"}
SupportedAggregates == {"Array", "Tuple", "Adt", "Closure"}

\* The constructs the code reaches a todo!() on: an unsupported PlaceElem
\* (or a Downcast whose symbol is None: symbol.unwrap()), an unsupported
\* Rvalue or AggregateKind, a Copy operand as the callee.
SupportedElem(el) ==
    \/ el.kind \in {"Deref", "Field", "Index", "ConstantIndex", "Subslice"}
    \/ el.kind = "Downcast" /\ el.arg = 1
SupportedPlace(p) == \A i \in DOMAIN p.proj : SupportedElem(p.proj[i])
SupportedOperands(ops) ==
    \A i \in DOMAIN ops : ops[i].kind # "Constant" => SupportedPlace(ops[i].place)

SupportedStatement(s) ==
    s.kind = "Assign" =>
      /\ SupportedPlace(s.place)
      /\ \/ /\ s.rvalue.kind \in DOMAIN OperandRvalueOp
            /\ SupportedOperands(s.rvalue.ops)
            /\ s.rvalue.kind = "Aggregate" => s.rvalue.sub \in SupportedAggregates
         \/ /\ s.rvalue.kind \in PlaceRvalues
            /\ SupportedPlace(s.rvalue.place)
         \/ s.rvalue.kind = "NullaryOp"

SupportedTerminator(t) ==
    t.kind = "Call" =>
      /\ t.func.kind # "Copy"
      /\ t.func.kind = "Move" => SupportedPlace(t.func.place)
      /\ t.func.kind \in {"FnDef", "Move"} => SupportedOperands(t.args)

\* Graph::add_statm_to_graph for an Assign: resolve the destination place,
\* add the edges of the Rvalue, set the destination's NodeOp, then seq += 1.
\* Result: [g, dst] (dst = the resolved destination node).
add_statm_to_graph(G, s) ==
    LET d == parse_place(G, s.place)
        dst == d.local
        rv == s.rvalue
        G2 == CASE rv.kind \in DOMAIN OperandRvalueOp ->
                     set_op(add_operands(d.g, rv.ops, dst), dst,
                            OperandRvalueOp[rv.kind])
                [] rv.kind \in PlaceRvalues ->
                     LET r == parse_place(d.g, rv.place)
                         op == IF rv.kind = "Ref" THEN BorrowEdgeOp[rv.sub]
                                                  ELSE "Nop"
                     IN set_op(add_node_edge(r.g, r.local, dst, op), dst, rv.kind)
                [] rv.kind = "NullaryOp" ->
                     set_op(add_const_edge(d.g, dst, "Nop"), dst, "NullaryOp")
    IN [g |-> bump_seq(G2, dst), dst |-> dst]

\* Fault: the terminator handler forgets `self.nodes[dst].seq += 1`.
add_terminator_no_seq_bump(G, t) ==
    LET dst == t.dest.local
        G1 == CASE t.func.kind = "FnDef" ->
                     set_op(add_operands(G, t.args, dst), dst, "Call")
                [] t.func.kind = "Move" ->
                     set_op(add_operands(add_operand(G, Operand("Move", t.func.place), dst),
                                         t.args, dst),
                            dst, "CallOperand")
                [] t.func.kind = "ConstOther" -> G
    IN [g |-> G1, dst |-> dst]

\* Graph::add_terminator_to_graph for a Call: the destination is
\* destination.local (its projection is not resolved).  A FnDef callee adds
\* the arguments and tags Call; a moved callee adds the callee operand first,
\* then the arguments, and tags CallOperand; any other constant callee adds
\* nothing.  In every case seq += 1.
add_terminator_to_graph(G, t) ==
    LET dst == t.dest.local
        G1 == CASE t.func.kind = "FnDef" ->
                     set_op(add_operands(G, t.args, dst), dst, "Call")
                [] t.func.kind = "Move" ->
                     set_op(add_operands(add_operand(G, Operand("Move", t.func.place), dst),
                                         t.args, dst),
                            dst, "CallOperand")
                [] t.func.kind = "ConstOther" -> G
    IN [g |-> bump_seq(G1, dst), dst |-> dst]

-----------------------------------------------------------------------------
Current == [nodes |-> nodes, edges |-> edges]

\* Install the graph G produced by visiting instruction i.
Install(G, i) ==
    /\ nodes' = G.nodes
    /\ edges' = G.edges
    /\ trace' = Append(trace, i)
    /\ origin' = origin \o [k \in 1 .. Len(G.edges) - Len(edges) |-> Len(trace) + 1]

InitGraph ==
    /\ nodes = new_graph.nodes
    /\ edges = new_graph.edges
    /\ trace = <<>>
    /\ origin = <<>>
    /\ phase = "build"

\* build_graph visits one statement (add_statm_to_graph); statements other
\* than Assign leave the graph as it is.
VisitStatement(s) ==
    /\ phase = "build"
    /\ Len(trace) < MaxInstrs
    /\ SupportedStatement(s)
    /\ IF s.kind = "Assign"
       THEN Install(add_statm_to_graph(Current, s).g, s)
       ELSE Install(Current, s)
    /\ UNCHANGED phase

\* build_graph visits one terminator (add_terminator_to_graph); terminators
\* other than Call leave the graph as it is.
VisitTerminator(t) ==
    /\ phase = "build"
    /\ Len(trace) < MaxInstrs
    /\ SupportedTerminator(t)
    /\ IF t.kind = "Call"
       THEN Install(add_terminator_to_graph(Current, t).g, t)
       ELSE Install(Current, t)
    /\ UNCHANGED phase

\* A todo!() on an unsupported construct aborts the whole analysis.
Panic ==
    /\ phase = "build"
    /\ Len(trace) < MaxInstrs
    /\ \/ \E s \in Statements : ~SupportedStatement(s)
       \/ \E t \in Terminators : ~SupportedTerminator(t)
    /\ phase' = "aborted"
    /\ UNCHANGED graph_vars

BuildNext ==
    \/ \E s \in Statements : VisitStatement(s)
    \/ \E t \in Terminators : VisitTerminator(t)
    \/ Panic

BuildSpec == InitGraph /\ [][BuildNext]_<<graph_vars, phase>>

-----------------------------------------------------------------------------
(* Properties of the graph under construction.                             *)

Edge(e) == edges[e + 1]
Edges == EdgeIds(Current)
Nodes == NodeIds(Current)
InEdges(n) == nodes[n + 1].in_edges
OutEdges(n) == nodes[n + 1].out_edges

\* Graph::get_upside_idx: the source of the order-th in-edge, if any.
get_upside_idx(n, order) ==
    IF order < Len(InEdges(n)) THEN {Edge(InEdges(n)[order + 1]).src} ELSE {}

TypeOK ==
    /\ phase \in {"build", "aborted"}
    /\ \A n \in Nodes :
         /\ nodes[n + 1].op \in NodeOps
         /\ nodes[n + 1].seq \in Nat
         /\ InEdges(n) \in Seq(Edges)
         /\ OutEdges(n) \in Seq(Edges)
    /\ \A e \in Edges :
         /\ Edge(e).src \in Nodes /\ Edge(e).dst \in Nodes
         /\ Edge(e).op \in EdgeOps /\ Edge(e).seq \in Nat
    /\ origin \in Seq(1 .. Len(trace)) /\ Len(origin) = Len(edges)

\* The adjacency lists every traversal walks agree with the edge arena:
\* in_edges of a node lists, once each, exactly the edges into it, and
\* out_edges lists, once each, only edges out of it (add_node_edge,
\* add_const_edge, parse_one_step's second Index edge, self-loops).
EdgeListsConsistent ==
    \A n \in Nodes :
       /\ ToSet(InEdges(n)) = {e \in Edges : Edge(e).dst = n}
       /\ Len(InEdges(n)) = Cardinality(ToSet(InEdges(n)))
       /\ \A e \in ToSet(OutEdges(n)) : Edge(e).src = n
       /\ Len(OutEdges(n)) = Cardinality(ToSet(OutEdges(n)))

\* Edges into one node that carry the same seq were added by one visit of
\* a statement or terminator: the batch a consumer reads back through seq
\* is one instruction, across writes of the same local by many visits
\* (add_node_edge's stamp and the seq += 1 of both handlers).
BatchesAreInstructions ==
    \A e1, e2 \in Edges :
       Edge(e1).dst = Edge(e2).dst /\ Edge(e1).seq = Edge(e2).seq
         => origin[e1 + 1] = origin[e2 + 1]

IsMovedCall(i) == i.kind = "Call" /\ i.func.kind = "Move"

\* The NodeOp comment "CallOperand, // the first in_edge is the func":
\* for a node tagged CallOperand, get_upside_idx(n, 0) is the edge of the
\* callee operand added by the indirect call that set the tag.
CallOperandFirstInEdgeIsFunc ==
    \A n \in Locals :
      nodes[n + 1].op = "CallOperand" =>
        LET k == Max({j \in DOMAIN trace :
                        IsMovedCall(trace[j]) /\ trace[j].dest.local = n})
            callee == Min({e \in Edges : origin[e + 1] = k /\ Edge(e).dst = n})
        IN InEdges(n)[1] = callee

\* A visited Call records a dependence of its destination on every argument
\* (or the analysis stops on an unsupported callee).
CallRecordsArguments ==
    \A k \in DOMAIN trace :
      trace[k].kind = "Call" =>
        Cardinality({e \in Edges : origin[e + 1] = k
                                   /\ Edge(e).dst = trace[k].dest.local})
          >= Len(trace[k].args)

\* A call writing through a projection, like (*_2) = f(..) (how MIR
\* writes a call result into a Box), records the result in the place it
\* writes, as add_statm_to_graph does for an assignment through
\* parse_place, never in the base local (_2, the pointer), which
\* add_terminator_to_graph takes as destination.local.
CallWritesDestinationPlace ==
    \A k \in DOMAIN trace :
      trace[k].kind = "Call" /\ trace[k].dest.proj # <<>> =>
        \A e \in Edges : origin[e + 1] = k => Edge(e).dst \notin Locals

=============================================================================
