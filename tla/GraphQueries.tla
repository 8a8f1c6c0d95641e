---------------------------- MODULE GraphQueries ----------------------------
(***************************************************************************)
(* The traversal engine and query layer of rapx's dataflow graph         *)
(* (graph.rs: Graph::dfs, collect_equivalent_locals, is_connected,        *)
(* param_return_deps), run on a graph the builder of DataflowGraph has    *)
(* built.  build_graph returns the finished graph, then one query runs.  *)
(*                                                                         *)
(* Graph::dfs is recursive; here its call stack is explicit.  A frame is  *)
(* [now, todo]: the node whose edges are being walked and the (edge,      *)
(* neighbour) pairs not walked yet, in the order of the in_edges /        *)
(* out_edges lists (in_edges first for Direction::Both).  `pending` is a  *)
(* recursive call about to run its node operator, `ret` the DFSStatus a   *)
(* finished call returned to its caller.  The closures the queries pass   *)
(* to dfs are named by string and their captured state lives in `acc`:   *)
(* the Cell `find` of is_connected, `root` and `set` of                   *)
(* collect_equivalent_locals.                                             *)
(***************************************************************************)
EXTENDS DataflowGraph

CONSTANTS
    Queries   \* the queries a consumer may ask of the finished graph

NoNode == -1

VARIABLES
    query,    \* the query being answered
    stage,    \* which dfs of the query runs: "down", "up", "root", "collect"
    conn,     \* arguments [a, b] of the current is_connected call
    qi,       \* param_return_deps: the parameter index being checked
    deps,     \* param_return_deps: the booleans collected so far
    acc,      \* state captured by the closures: [find, root, set]
    dfs,      \* arguments of the running dfs: [dir, node_op, edge_val, all]
    stack,    \* the frames of the recursive dfs calls in progress
    pending,  \* the node a dfs call is about to visit, or NoNode
    ret,      \* "Continue" / "Stop" returned by the last finished call, or "none"
    result    \* the answer of the query

query_vars == <<query, stage, conn, qi, deps, acc, dfs, stack, pending, ret, result>>
vars == <<graph_vars, phase, query_vars>>

\* Queries, as records.
IsConnectedQuery(a, b) == [kind |-> "is_connected", a |-> a, b |-> b]
CollectQuery(l) == [kind |-> "collect_equivalent_locals", a |-> l, b |-> l]
DepsQuery == [kind |-> "param_return_deps", a |-> 0, b |-> 0]

-----------------------------------------------------------------------------
\* Fault: the equivalence validator also admits Deref edges.
edge_validator_admits_deref(kind, e) ==
    kind = "always_true" \/ Edge(e).op \in {"Copy", "Move", "Mut", "Immut", "Deref"}

\* Graph::equivalent_edge_validator and Graph::always_true_edge_validator.
EquivalentEdgeOps == {"Copy", "Move", "Mut", "Immut"}
edge_validator(kind, e) ==
    kind = "always_true" \/ Edge(e).op \in EquivalentEdgeOps

\* The NodeOps both closures of collect_equivalent_locals accept.
EquivalentNodeOps == {"Nop", "Use", "Ref"}

\* The closures passed as node_operator: the DFSStatus they return and the
\* captured state after the call.
\*   find_target       (is_connected):  find.set(idx == target)
\*   find_root         (collect_equivalent_locals): root = idx
\*   find_equivalent   (collect_equivalent_locals): set.insert(idx)
node_operator(kind, idx) ==
    LET ok == nodes[idx + 1].op \in EquivalentNodeOps
    IN CASE kind = "find_target" ->
              [status |-> IF idx = conn.b THEN "Stop" ELSE "Continue",
               acc |-> [acc EXCEPT !.find = (idx = conn.b)]]
         [] kind = "find_root" ->
              [status |-> IF ok THEN "Continue" ELSE "Stop",
               acc |-> IF ok THEN [acc EXCEPT !.root = idx] ELSE acc]
         [] kind = "find_equivalent" ->
              [status |-> IF idx \notin acc.set /\ ok THEN "Continue" ELSE "Stop",
               acc |-> IF idx \notin acc.set /\ ok
                       THEN [acc EXCEPT !.set = @ \cup {idx}] ELSE acc]

\* The (edge, neighbour) pairs dfs walks from n, in list order.
neighbours(n, dir) ==
    LET up == [k \in DOMAIN InEdges(n) |->
                 [e |-> InEdges(n)[k], next |-> Edge(InEdges(n)[k]).src]]
        down == [k \in DOMAIN OutEdges(n) |->
                   [e |-> OutEdges(n)[k], next |-> Edge(OutEdges(n)[k]).dst]]
    IN CASE dir = "Upside" -> up
         [] dir = "Downside" -> down
         [] dir = "Both" -> up \o down

\* A top-level call of Graph::dfs.
start_dfs(start, dir, node_op, edge_val, all) ==
    /\ dfs' = [dir |-> dir, node_op |-> node_op, edge_val |-> edge_val, all |-> all]
    /\ stack' = <<>>
    /\ pending' = start
    /\ ret' = "none"

-----------------------------------------------------------------------------
(* Graph::dfs, one step of the recursion at a time.                        *)

\* A call dfs(now = pending, ...) runs node_operator; on Continue it starts
\* walking now's edges, on Stop it returns Stop at once.
DfsVisit ==
    /\ phase = "query"
    /\ pending # NoNode
    /\ LET r == node_operator(dfs.node_op, pending)
       IN /\ acc' = r.acc
          /\ IF r.status = "Continue"
             THEN /\ stack' = Append(stack, [now |-> pending,
                                            todo |-> neighbours(pending, dfs.dir)])
                  /\ ret' = "none"
             ELSE /\ ret' = "Stop"
                  /\ UNCHANGED stack
    /\ pending' = NoNode
    /\ UNCHANGED <<graph_vars, phase, query, stage, conn, qi, deps, dfs, result>>

\* The traverse! loop takes the next edge; if edge_validator admits it, it
\* recurses into the neighbour.
DfsNextEdge ==
    /\ phase = "query"
    /\ pending = NoNode
    /\ ret = "none"
    /\ stack # <<>>
    /\ Last(stack).todo # <<>>
    /\ LET h == Head(Last(stack).todo)
       IN /\ stack' = [stack EXCEPT ![Len(stack)].todo = Tail(@)]
          /\ pending' = IF edge_validator(dfs.edge_val, h.e) THEN h.next ELSE NoNode
    /\ UNCHANGED <<graph_vars, phase, query, stage, conn, qi, deps, acc, dfs, ret, result>>

DfsChildReturned ==
    /\ phase = "query"
    /\ ret # "none"
    /\ stack # <<>>
    /\ IF ret = "Stop" /\ ~dfs.all
       THEN /\ stack' = Front(stack)
            /\ UNCHANGED ret
       ELSE /\ ret' = "none"
            /\ UNCHANGED stack
    /\ UNCHANGED <<graph_vars, phase, query, stage, conn, qi, deps, acc, dfs, pending, result>>

\* All edges of the frame walked: the call returns Continue.
DfsReturn ==
    /\ phase = "query"
    /\ pending = NoNode
    /\ ret = "none"
    /\ stack # <<>>
    /\ Last(stack).todo = <<>>
    /\ stack' = Front(stack)
    /\ ret' = "Continue"
    /\ UNCHANGED <<graph_vars, phase, query, stage, conn, qi, deps, acc, dfs, pending, result>>

\* The top-level call of dfs has returned.
DfsDone == phase = "query" /\ stack = <<>> /\ pending = NoNode /\ ret # "none"

-----------------------------------------------------------------------------
(* The queries.                                                            *)

\* is_connected(a, b): a fresh Cell find, then dfs downside from a.
call_is_connected(a, b) ==
    /\ conn' = [a |-> a, b |-> b]
    /\ acc' = [acc EXCEPT !.find = FALSE]
    /\ stage' = "down"
    /\ start_dfs(a, "Downside", "find_target", "always_true", FALSE)

\* build_graph returns the finished graph and a consumer asks one query.
\* collect_equivalent_locals(l) starts with root = l and an upside dfs;
\* param_return_deps calls is_connected(_i, _0) for i in 0..argc.
StartQuery(q) ==
    /\ phase = "build"
    /\ phase' = "query"
    /\ query' = q
    /\ CASE q.kind = "is_connected" ->
              /\ call_is_connected(q.a, q.b)
              /\ UNCHANGED <<qi, deps>>
         [] q.kind = "collect_equivalent_locals" ->
              /\ acc' = [find |-> FALSE, root |-> q.a, set |-> {}]
              /\ stage' = "root"
              /\ start_dfs(q.a, "Upside", "find_root", "equivalent", TRUE)
              /\ UNCHANGED <<conn, qi, deps>>
         [] q.kind = "param_return_deps" ->
              /\ qi' = 0
              /\ deps' = <<>>
              /\ call_is_connected(0, 0)
    /\ UNCHANGED <<graph_vars, result>>

\* Faults of the range of param_return_deps: 0..argc instead of
\* 0..argc+1 (stops one parameter early), and 0..argc+2 (one too far).
connected_returns_stops_early(b) ==
    IF query.kind = "is_connected"
    THEN /\ result' = b
         /\ phase' = "done"
         /\ UNCHANGED <<stage, conn, qi, deps, acc, dfs, stack, pending, ret>>
    ELSE IF qi + 1 < argc
         THEN /\ deps' = Append(deps, b)
              /\ qi' = qi + 1
              /\ call_is_connected(qi + 1, 0)
              /\ UNCHANGED <<phase, result>>
         ELSE /\ deps' = Append(deps, b)
              /\ result' = Append(deps, b)
              /\ phase' = "done"
              /\ UNCHANGED <<stage, conn, qi, acc, dfs, stack, pending, ret>>
connected_returns_overruns(b) ==
    IF query.kind = "is_connected"
    THEN /\ result' = b
         /\ phase' = "done"
         /\ UNCHANGED <<stage, conn, qi, deps, acc, dfs, stack, pending, ret>>
    ELSE IF qi <= argc
         THEN /\ deps' = Append(deps, b)
              /\ qi' = qi + 1
              /\ call_is_connected(qi + 1, 0)
              /\ UNCHANGED <<phase, result>>
         ELSE /\ deps' = Append(deps, b)
              /\ result' = Append(deps, b)
              /\ phase' = "done"
              /\ UNCHANGED <<stage, conn, qi, acc, dfs, stack, pending, ret>>

\* is_connected returns b: to the consumer, or to the loop of
\* param_return_deps, which collects it and moves to the next parameter.
connected_returns(b) ==
    IF query.kind = "is_connected"
    THEN /\ result' = b
         /\ phase' = "done"
         /\ UNCHANGED <<stage, conn, qi, deps, acc, dfs, stack, pending, ret>>
    ELSE IF qi < argc
         THEN /\ deps' = Append(deps, b)
              /\ qi' = qi + 1
              /\ call_is_connected(qi + 1, 0)
              /\ UNCHANGED <<phase, result>>
         ELSE /\ deps' = Append(deps, b)
              /\ result' = Append(deps, b)
              /\ phase' = "done"
              /\ UNCHANGED <<stage, conn, qi, acc, dfs, stack, pending, ret>>

\* is_connected: when the downside search did not find b, search upside.
AfterDownside ==
    /\ DfsDone
    /\ stage = "down"
    /\ IF acc.find
       THEN connected_returns(TRUE)
       ELSE /\ stage' = "up"
            /\ start_dfs(conn.a, "Upside", "find_target", "always_true", FALSE)
            /\ UNCHANGED <<phase, conn, qi, deps, acc, result>>
    /\ UNCHANGED <<graph_vars, query>>

AfterUpside ==
    /\ DfsDone
    /\ stage = "up"
    /\ connected_returns(acc.find)
    /\ UNCHANGED <<graph_vars, query>>

\* collect_equivalent_locals: from the root, collect downside.
AfterRoot ==
    /\ DfsDone
    /\ stage = "root"
    /\ stage' = "collect"
    /\ start_dfs(acc.root, "Downside", "find_equivalent", "equivalent", TRUE)
    /\ UNCHANGED <<graph_vars, phase, query, conn, qi, deps, acc, result>>

AfterCollect ==
    /\ DfsDone
    /\ stage = "collect"
    /\ result' = acc.set
    /\ phase' = "done"
    /\ UNCHANGED <<graph_vars, query, stage, conn, qi, deps, acc, dfs, stack, pending, ret>>

-----------------------------------------------------------------------------
Init ==
    /\ InitGraph
    /\ query = DepsQuery
    /\ stage = "none"
    /\ conn = [a |-> 0, b |-> 0]
    /\ qi = 0
    /\ deps = <<>>
    /\ acc = [find |-> FALSE, root |-> 0, set |-> {}]
    /\ dfs = [dir |-> "Downside", node_op |-> "find_target",
              edge_val |-> "always_true", all |-> FALSE]
    /\ stack = <<>>
    /\ pending = NoNode
    /\ ret = "none"
    /\ result = FALSE

Next ==
    \/ BuildNext /\ UNCHANGED query_vars
    \/ \E q \in Queries : StartQuery(q)
    \/ DfsVisit
    \/ DfsNextEdge
    \/ DfsChildReturned
    \/ DfsReturn
    \/ AfterDownside
    \/ AfterUpside
    \/ AfterRoot
    \/ AfterCollect

\* One thread runs the builder and then the query to completion: every
\* step that is enabled is eventually taken.
Spec == Init /\ [][Next]_vars /\ WF_vars(Next)

-----------------------------------------------------------------------------
(* Reference definitions the answers are checked against.                  *)

\* Descendants(S, R): the nodes a non-empty path of links R[x] leads to
\* from a node of S.
RECURSIVE Descendants(_, _, _)
Descendants(S, R(_), seen) ==
    LET next == UNION {R(x) : x \in S} \ seen
    IN IF next = {} THEN seen ELSE Descendants(next, R, seen \cup next)

\* Reach(x, y): a non-empty path of edges of the arena leads from x to y.
Successors(x) == {Edge(e).dst : e \in {e \in Edges : Edge(e).src = x}}
Reach(x, y) == y \in Descendants({x}, Successors, {})
\* Two nodes are connected when one reaches the other (or they are equal).
Connected(a, b) == a = b \/ Reach(a, b) \/ Reach(b, a)

\* The value-preserving relation of the spec: nodes tagged no-op, use or
\* reference, joined (either way) by a copy, move or borrow edge.
ValueNode(n) == nodes[n + 1].op \in {"Nop", "Use", "Ref"}
ValueLinks(x) ==
    {y \in Nodes : /\ ValueNode(x) /\ ValueNode(y)
                   /\ \E e \in Edges :
                        /\ Edge(e).op \in {"Copy", "Move", "Mut", "Immut"}
                        /\ {Edge(e).src, Edge(e).dst} = {x, y}}
ValueClass(l) == {l} \cup Descendants({l}, ValueLinks, {})

Done(kind) == phase = "done" /\ query.kind = kind

-----------------------------------------------------------------------------
(* Properties.                                                             *)

QueryTypeOK ==
    /\ phase \in {"build", "aborted", "query", "done"}
    /\ query \in Queries \cup {DepsQuery}
    /\ stage \in {"none", "down", "up", "root", "collect"}
    /\ pending \in Nodes \cup {NoNode}
    /\ ret \in {"none", "Continue", "Stop"}
    /\ \A k \in DOMAIN stack : stack[k].now \in Nodes
    /\ acc.find \in BOOLEAN /\ acc.root \in Nodes /\ acc.set \subseteq Nodes
    /\ deps \in Seq(BOOLEAN) /\ qi \in 0 .. argc

ParamReturnDepsCorrect ==
    Done("param_return_deps") =>
        result = [i \in 1 .. argc + 1 |-> Connected(i - 1, 0)]

\* collect_equivalent_locals(l), for l tagged no-op/use/reference, returns
\* a set that contains l and only nodes of l's value-preserving class: the
\* root the upside search leaves in `root` is in that class, and the
\* downside search from it, with its visited-set stop, reaches l again.
EquivalentLocalsSound ==
    Done("collect_equivalent_locals") /\ ValueNode(query.a) =>
        /\ query.a \in result
        /\ result \subseteq ValueClass(query.a)

\* The spec: the set collect_equivalent_locals returns "always contains at
\* least the root".
EquivalentLocalsContainRoot ==
    Done("collect_equivalent_locals") => acc.root \in result

\* An edge added by a plain use or a borrow (Rvalue::Use / Rvalue::Ref) of
\* the visit that made it, as opposed to an operand edge of a computation.
ValueEdge(e) ==
    LET i == trace[origin[e + 1]]
    IN /\ i.kind = "Assign"
       /\ i.rvalue.kind \in {"Use", "Ref"}
       /\ Edge(e).op \in {"Copy", "Move", "Mut", "Immut"}
ValueEdgeLinks(x) ==
    {y \in Nodes : \E e \in Edges : ValueEdge(e) /\ {Edge(e).src, Edge(e).dst} = {x, y}}

\* The spec: collect_equivalent_locals follows "value-preserving
\* relationships only", "stopping at slots introduced by any computation":
\* every local it returns is joined to l by edges of uses and borrows.
EquivalentLocalsValuePreserving ==
    Done("collect_equivalent_locals") =>
        result \subseteq {query.a} \cup Descendants({query.a}, ValueEdgeLinks, {})

\* The nodes the upside search of collect_equivalent_locals admits from x:
\* sources of copy/move/borrow edges into x, x and they tagged no-op, use
\* or reference.
ValueSources(x) ==
    {Edge(e).src : e \in {e \in Edges : /\ Edge(e).dst = x
                                       /\ Edge(e).op \in EquivalentEdgeOps
                                       /\ ValueNode(x) /\ ValueNode(Edge(e).src)}}

\* The spec: collect_equivalent_locals(l) "finds all slots that denote the
\* same value as slot"; in particular every slot its own upside search
\* accepts, of which the root is only the last one visited.  A local
\* written twice (two copy/borrow in-edges) has two such roots.
EquivalentLocalsComplete ==
    Done("collect_equivalent_locals") /\ ValueNode(query.a) =>
        {query.a} \cup Descendants({query.a}, ValueSources, {}) \subseteq result

\* A reference semantics of which parameters a local's value may come
\* from, run over the visited instructions.  A location is a local l
\* (val[l]) or the cell *l a parameter points to (cell[l]); a write of
\* a whole local or of *l replaces what was there.  It claims a flow only
\* where one really happens in some run: a borrow, a call result and a
\* constant carry no parameter, and *l is read as l and what was stored
\* through *l (enough while l is never reassigned, PointersFixed).
Params == 1 .. argc
IsDeref(p) == p.proj # <<>> /\ p.proj[1].kind = "Deref"
FlowInit == [val |-> [l \in Locals |-> IF l \in Params THEN {l} ELSE {}],
             cell |-> [l \in Locals |-> {}]]
ReadFlow(m, p) == m.val[p.local] \cup (IF IsDeref(p) THEN m.cell[p.local] ELSE {})
OperandFlow(m, o) == IF o.kind = "Constant" THEN {} ELSE ReadFlow(m, o.place)
RvalueFlow(m, rv) ==
    CASE rv.kind \in DOMAIN OperandRvalueOp ->
           UNION {OperandFlow(m, rv.ops[k]) : k \in DOMAIN rv.ops}
      [] rv.kind = "CopyForDeref" -> ReadFlow(m, rv.place)
      [] OTHER -> {}
WriteFlow(m, p, v) ==
    CASE p.proj = <<>> -> [m EXCEPT !.val[p.local] = v]
      [] IsDeref(p) -> [m EXCEPT !.cell[p.local] = v]
      [] OTHER -> m
FlowStep(m, i) ==
    CASE i.kind = "Assign" -> WriteFlow(m, i.place, RvalueFlow(m, i.rvalue))
      [] i.kind = "Call" -> WriteFlow(m, i.dest, {})
      [] OTHER -> m
Flow == FoldLeft(FlowStep, FlowInit, trace)

\* No local the body writes through (*l = ..) is itself assigned.
PointersFixed ==
    \A j, k \in DOMAIN trace :
       trace[j].kind = "Assign" /\ IsDeref(trace[j].place) =>
         LET w == IF trace[k].kind = "Call" THEN trace[k].dest ELSE trace[k].place
         IN ~(w.local = trace[j].place.local /\ w.proj = <<>>
              /\ trace[k].kind \in {"Assign", "Call"})

\* The spec: param_return_deps tells "which parameters influence the
\* return value".  A parameter whose value reaches _0 in a run of the body
\* (e.g. stored through a pointer and read back: `(*_1) = copy _2;
\* _0 = copy (*_1)`) is reported.  parse_place makes a fresh node for
\* every resolution of *_1, so the write and the read meet at no node.
ParamReturnDepsComplete ==
    Done("param_return_deps") /\ PointersFixed =>
        \A i \in Params : i \in Flow.val[0] => result[i + 1]

\* The recursion of dfs never nests deeper than there are nodes: a deeper
\* stack repeats a node on one path, and with closures whose state does not
\* change along it (is_connected's find stays FALSE) the recursion repeats
\* forever.
RecursionBounded == Len(stack) <= Len(nodes)


=============================================================================
