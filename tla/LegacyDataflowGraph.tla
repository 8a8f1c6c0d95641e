------------------------ MODULE LegacyDataflowGraph ------------------------
(***************************************************************************)
(* The older dataflow graph of the rap crate                              *)
(* (src/rap/src/analysis/core/dataflow.rs) and its driver build_graph.    *)
(*                                                                         *)
(* It has one node per local and no synthetic nodes: places are read by   *)
(* their base local only (projections are dropped), a constant operand is *)
(* a ConstEdge whose source is the constant's text rather than a node,   *)
(* and there is no seq.  Only Use, CheckedBinaryOp and Aggregate          *)
(* right-hand sides and calls of a FnDef constant are handled; anything  *)
(* else reaches panic!(), the action Panic.                                *)
(*                                                                         *)
(* It reads the same MirBody as DataflowGraph, written for the older      *)
(* rustc whose checked arithmetic is Rvalue::CheckedBinaryOp.             *)
(***************************************************************************)
EXTENDS MirBody

VARIABLES
    nodes,   \* GraphNodes: Seq of [op, in_edges, out_edges]
    edges,   \* GraphEdges: Seq of NodeEdge [src, dst, op] or ConstEdge [dst, op]
    trace,   \* history: the statements and terminators visited so far
    phase    \* "build" while visiting the body, "aborted" after a panic!()

vars == <<nodes, edges, trace, phase>>

\* GraphNode::new()
new_node == [op |-> "Nop", in_edges |-> <<>>, out_edges |-> <<>>]

\* GraphEdge::NodeEdge and GraphEdge::ConstEdge (the constant's text is
\* abstracted away).
NodeEdge(src, dst, op) == [kind |-> "NodeEdge", src |-> src, dst |-> dst, op |-> op]
ConstEdge(dst, op) == [kind |-> "ConstEdge", dst |-> dst, op |-> op]

\* Graph::add_node_edge / add_const_edge on a graph value G = [nodes, edges].
add_node_edge(G, src, dst, op) ==
    LET e == Len(G.edges)
        ns == [G.nodes EXCEPT ![dst + 1].in_edges = Append(@, e)]
    IN [nodes |-> [ns EXCEPT ![src + 1].out_edges = Append(@, e)],
        edges |-> Append(G.edges, NodeEdge(src, dst, op))]

add_const_edge(G, dst, op) ==
    [nodes |-> [G.nodes EXCEPT ![dst + 1].in_edges = Append(@, Len(G.edges))],
     edges |-> Append(G.edges, ConstEdge(dst, op))]

\* Graph::add_operand: Copy and Move read place.local; projections are lost.
add_operand(G, operand, dst) ==
    IF operand.kind = "Constant"
    THEN add_const_edge(G, dst, "Const")
    ELSE add_node_edge(G, operand.place.local, dst, operand.kind)

RECURSIVE add_operands(_, _, _)
add_operands(G, ops, dst) ==
    IF ops = <<>> THEN G
    ELSE add_operands(add_operand(G, Head(ops), dst), Tail(ops), dst)

\* The right-hand sides add_statm_to_graph handles, and the NodeOp of each.
RvalueOp == [Use |-> "Use", CheckedBinaryOp |-> "CheckedBinaryOp",
             Aggregate |-> "Aggregate"]

\* panic!("Unimplemented Rvalue!") and the panic! of add_terminator_to_graph.
SupportedStatement(s) == s.kind = "Assign" => s.rvalue.kind \in DOMAIN RvalueOp
SupportedTerminator(t) == t.kind = "Call" => t.func.kind = "FnDef"

\* Graph::add_statm_to_graph for an Assign: dst = place.local, the operands
\* in order, then the NodeOp.
add_statm_to_graph(G, s) ==
    LET dst == s.place.local
        G1 == add_operands(G, s.rvalue.ops, dst)
    IN [G1 EXCEPT !.nodes[dst + 1].op = RvalueOp[s.rvalue.kind]]

\* Graph::add_terminator_to_graph for a Call of a FnDef: the arguments into
\* destination.local, tagged Call.
add_terminator_to_graph(G, t) ==
    LET dst == t.dest.local
        G1 == add_operands(G, t.args, dst)
    IN [G1 EXCEPT !.nodes[dst + 1].op = "Call"]

-----------------------------------------------------------------------------
Current == [nodes |-> nodes, edges |-> edges]

Install(G, i) ==
    /\ nodes' = G.nodes
    /\ edges' = G.edges
    /\ trace' = Append(trace, i)
    /\ UNCHANGED phase

\* build_graph: Graph::new(def_id, arg_count, local_decls.len()).
Init ==
    /\ nodes = [i \in 1 .. n_locals |-> new_node]
    /\ edges = <<>>
    /\ trace = <<>>
    /\ phase = "build"

\* build_graph visits a statement; one that is not an Assign changes nothing.
VisitStatement(s) ==
    /\ phase = "build"
    /\ Len(trace) < MaxInstrs
    /\ SupportedStatement(s)
    /\ Install(IF s.kind = "Assign" THEN add_statm_to_graph(Current, s)
                                    ELSE Current, s)

\* build_graph visits a terminator; one that is not a Call changes nothing.
VisitTerminator(t) ==
    /\ phase = "build"
    /\ Len(trace) < MaxInstrs
    /\ SupportedTerminator(t)
    /\ Install(IF t.kind = "Call" THEN add_terminator_to_graph(Current, t)
                                  ELSE Current, t)

\* A panic!() on an unsupported construct aborts the analysis.
Panic ==
    /\ phase = "build"
    /\ Len(trace) < MaxInstrs
    /\ \/ \E s \in Statements : ~SupportedStatement(s)
       \/ \E t \in Terminators : ~SupportedTerminator(t)
    /\ phase' = "aborted"
    /\ UNCHANGED <<nodes, edges, trace>>

Next ==
    \/ \E s \in Statements : VisitStatement(s)
    \/ \E t \in Terminators : VisitTerminator(t)
    \/ Panic

Spec == Init /\ [][Next]_vars

=============================================================================
