-------------------------- MODULE CallGraphVisitor --------------------------
(***************************************************************************)
(* The call-graph visitor of the rap crate                                *)
(* (src/rap/src/analysis/core/call_graph/call_graph_visitor.rs): a driver *)
(* runs CallGraphVisitor::visit once per function body, all visits        *)
(* sharing one CallGraphInfo.                                             *)
(*                                                                         *)
(* CallGraphInfo (call_graph_helper) is not in this source tree; its      *)
(* interface is modelled as the visitor uses it: `functions` holds the    *)
(* def paths of the nodes in insertion order (node id = position, from    *)
(* 0), get_noed_by_path finds the id of a path, add_node adds a path not  *)
(* present yet, and function_calls is the set of [caller id, callee id]   *)
(* edges.  A function is named by its DefId; def_path_str is taken to be  *)
(* injective, so a DefId stands for its path.                             *)
(***************************************************************************)
EXTENDS Naturals, Sequences, SequencesExt

CONSTANTS
    Functions,  \* the DefIds whose bodies the driver visits
    Indirect,   \* a call terminator whose callee is not a FnDef constant
    MaxCalls    \* bound on the Call terminators of one body

ASSUME /\ Indirect \notin Functions
       /\ MaxCalls \in Nat

\* The bodies a function may have: the callees of its Call terminators,
\* block by block.
Bodies == [Functions -> BoundedSeq(Functions \cup {Indirect}, MaxCalls)]

VARIABLES
    functions,       \* CallGraphInfo's nodes: Seq of def paths
    function_calls,  \* CallGraphInfo's edges: set of <<caller id, callee id>>
    visited,         \* history: the functions visit() has run on
    Body             \* Body[f]: the MIR bodies of the crate (fixed)

vars == <<functions, function_calls, visited, Body>>

\* A CallGraphInfo value C = [functions, function_calls].
\* get_noed_by_path: the ids whose path is p (empty for None).
get_noed_by_path(C, p) == {i - 1 : i \in {i \in DOMAIN C.functions : C.functions[i] = p}}

\* CallGraphInfo::add_node (spec of the helper): a path gets one node.
add_node(C, p) ==
    IF get_noed_by_path(C, p) = {} THEN [C EXCEPT !.functions = Append(@, p)]
    ELSE C

\* Fault: an edge recorded by the 1-based position instead of the id.
add_funciton_call_edge_off_by_one(C, a, b) ==
    [C EXCEPT !.function_calls = @ \cup {<<a + 1, b + 1>>}]

\* CallGraphInfo::add_funciton_call_edge: the edge joins the set.
add_funciton_call_edge(C, a, b) == [C EXCEPT !.function_calls = @ \cup {<<a, b>>}]

\* Fault: a callee seen for the first time gets its node but no edge.
add_in_call_graph_no_relookup(C, caller, callee) ==
    IF get_noed_by_path(C, caller) = {} THEN C
    ELSE IF get_noed_by_path(C, callee) # {}
         THEN add_funciton_call_edge(C, CHOOSE a \in get_noed_by_path(C, caller) : TRUE,
                                        CHOOSE b \in get_noed_by_path(C, callee) : TRUE)
         ELSE add_node(C, callee)

\* CallGraphVisitor::add_in_call_graph: nothing unless the caller has a
\* node; a callee without a node gets one, is looked up again, and the
\* edge is added.
add_in_call_graph(C, caller, callee) ==
    LET a == CHOOSE x \in get_noed_by_path(C, caller) : TRUE
    IN IF get_noed_by_path(C, caller) = {} THEN C
       ELSE IF get_noed_by_path(C, callee) # {}
            THEN add_funciton_call_edge(C, a, CHOOSE b \in get_noed_by_path(C, callee) : TRUE)
            ELSE LET C1 == add_node(C, callee)
                 IN IF get_noed_by_path(C1, callee) # {}
                    THEN add_funciton_call_edge(C1, a,
                            CHOOSE b \in get_noed_by_path(C1, callee) : TRUE)
                    ELSE C1

\* visit_terminator: only a Call whose func is a constant of FnDef type is
\* added (add_to_call_graph; the recursion warning is a println).
visit_terminator(C, caller, callee) ==
    IF callee = Indirect THEN C ELSE add_in_call_graph(C, caller, callee)

\* CallGraphVisitor::visit: the caller's node, then the terminator of every
\* basic block in order.
visit(C, f) ==
    FoldLeft(LAMBDA c, callee : visit_terminator(c, f, callee), add_node(C, f), Body[f])

Init ==
    /\ functions = <<>>
    /\ function_calls = {}
    /\ visited = {}
    /\ Body \in Bodies

\* The driver runs a visitor on the body of a function not visited yet.
Visit(f) ==
    /\ f \notin visited
    /\ LET C == visit([functions |-> functions, function_calls |-> function_calls], f)
       IN /\ functions' = C.functions
          /\ function_calls' = C.function_calls
    /\ visited' = visited \cup {f}
    /\ UNCHANGED Body

Next == \E f \in Functions : Visit(f)

Spec == Init /\ [][Next]_vars

-----------------------------------------------------------------------------
Ids == 0 .. Len(functions) - 1
Callees(f) == {Body[f][k] : k \in DOMAIN Body[f]} \ {Indirect}

\* The edges of the call graph join node ids.
TypeOK ==
    /\ functions \in Seq(Functions)
    /\ function_calls \subseteq Ids \X Ids
    /\ visited \subseteq Functions
    /\ Body \in Bodies

\* The call graph is exactly the direct calls of the visited bodies: an
\* edge f -> g for every FnDef call of g in f, g's node created on the way
\* when it has none, and no other edge.
CallGraphExact ==
    {<<functions[e[1] + 1], functions[e[2] + 1]>> : e \in function_calls}
      = {<<f, g>> \in visited \X Functions : g \in Callees(f)}

=============================================================================
