-------------------------------- MODULE Dag --------------------------------
(***************************************************************************)
(* com::dag_scheduler::DAG: one graph, the member functions that change,   *)
(* clone, move or compare it, and the calls of dag_topological_sort and    *)
(* process_dag on it.  Calls that only read are operators; where one can   *)
(* kill the process, that is an action.                                    *)
(*                                                                         *)
(* A client holds no shared_ptr to a vertex across calls, so a removed     *)
(* vertex is destroyed.  Vertices are made by clients without edges; their *)
(* label does not change.                                                  *)
(***************************************************************************)
EXTENDS DagAlgorithms

CONSTANTS
    Labels, LabelOf    \* labels, and the label of each vertex

ASSUME LabelAssumption == LabelOf \in [Vertices -> Labels]

VARIABLES
    dag,            \* the graph
    json_config_,   \* whether the pointer to the configuration is not null
    fate            \* what became of the process

vars == <<dag, json_config_, fate>>

Alive == fate = "alive"
Contains(v) == v \in VerticesOf(dag)
WithLabel(l) == Keep(dag.graph_, {v \in Vertices : LabelOf[v] = l})

\* The copy constructor dereferences every connection and the configuration.
Cloneable == json_config_ /\ ~HasDanglingEdge(dag)

TypeOK ==
    /\ dag.graph_ \in Seq(Vertices)
    /\ \A v \in Vertices : dag.edges_[v] \in Seq(Vertices \cup {Expired})
    /\ dag.incomming \in [Vertices -> 0..(SizeModulus - 1)]
    /\ json_config_ \in BOOLEAN
    /\ fate \in {"alive", "segfault", "terminated"}

Init ==
    /\ dag = EmptyGraph
    /\ json_config_ = TRUE
    /\ fate = "alive"

-----------------------------------------------------------------------------
\* add_vertex: a vertex whose uuid is present already is not added.
Added(g, v) ==
    IF v \in VerticesOf(g) THEN g ELSE [g EXCEPT !.graph_ = Append(@, v)]

\* Mutant of Connected: the edge is made before the check and stays.
ConnectedFirst(g, v1, v2) ==
    [g |-> VertexConnect(g, v1, v2), thrown |-> connection_would_make_cyclic(g, v1, v2)]

\* connect on a graph without dangling edges: either the edge is there
\* afterwards, or DAGException is thrown and the graph unchanged.
Connected(g, v1, v2) ==
    IF connection_would_make_cyclic(g, v1, v2)
    THEN [g |-> g, thrown |-> TRUE]
    ELSE [g |-> VertexConnect(g, v1, v2), thrown |-> FALSE]

\* The loops of connect_all_by_label stop at the first exception and leave
\* the connections made before it.
ConnectedAll(g, from, to) ==
    LET one(st, v1, v2) == IF st.thrown THEN st ELSE Connected(st.g, v1, v2)
        row(st, v1) == FoldSeq(LAMBDA r, v2 : one(r, v1, v2), st, to)
    IN  FoldSeq(row, [g |-> g, thrown |-> FALSE], from)

\* The process dies of a null dereference.
Crash == fate' = "segfault" /\ UNCHANGED <<dag, json_config_>>

\* The graph changes to g.
Become(g) == dag' = g /\ UNCHANGED <<json_config_, fate>>

add_vertex(v) == Alive /\ Become(Added(dag, v))

\* connect returns false if a vertex is missing; otherwise the check clones
\* the graph, which a dangling edge anywhere, or an earlier move, makes fatal.
connect(v1, v2) ==
    /\ Alive
    /\ Contains(v1) /\ Contains(v2)
    /\ IF ~Cloneable THEN Crash ELSE Become(Connected(dag, v1, v2).g)

\* connect_by_uuid dereferences the result of the search.
connect_by_uuid(u1, u2) ==
    \/ connect(u1, u2)
    \/ /\ Alive
       /\ ~Contains(u1) \/ ~Contains(u2)
       /\ Crash

connect_all_by_label(l1, l2) ==
    LET from == WithLabel(l1)
        to == WithLabel(l2)
    IN  /\ Alive
        /\ from # <<>> /\ to # <<>>
        /\ IF ~Cloneable THEN Crash
           ELSE Become(ConnectedAll(dag, from, to).g)

\* The vertices stay in the graph when the connection throws.
add_and_connect(v1, v2) ==
    /\ Alive
    /\ IF ~Cloneable THEN Crash
       ELSE Become(Connected(Added(Added(dag, v1), v2), v1, v2).g)

\* A query that changes nothing unless it crashes: on a graph that cannot be
\* cloned, or for a vertex that is not in the graph (its clone is found no more
\* after it was moved into the cloned graph).
CyclicQuery(v1, v2) ==
    /\ Alive
    /\ ~Cloneable \/ ~Contains(v1) \/ ~Contains(v2)
    /\ Crash

\* remove_vertex compares whole vertices, edge counts included.  A copy of a
\* vertex has no edges and the count 0, so it only finds an isolated one.
remove_vertex(v, isCopy) ==
    /\ Alive
    /\ Contains(v)
    /\ isCopy => dag.edges_[v] = <<>> /\ dag.incomming[v] = 0
    /\ Become(RemoveVertices(dag, {v}))

remove_vertex_by_uuid(v) ==
    /\ Alive
    /\ Contains(v)
    /\ Become(RemoveVertices(dag, {v}))

remove_all_vertex_with_label(l) ==
    /\ Alive
    /\ WithLabel(l) # <<>>
    /\ Become(RemoveVertices(dag, Elements(WithLabel(l))))

reset == Alive /\ Become(EmptyGraph)

\* dag_topological_sort(g, ...) takes the graph itself apart.
SortInPlace ==
    LET r == dag_topological_sort(dag)
    IN  /\ Alive
        /\ dag' = r.after
        /\ fate' = IF r.aborts THEN "terminated" ELSE fate
        /\ UNCHANGED json_config_

\* process_dag works on clones and leaves the graph alone; ProcessDag.tla has
\* what it does.  As clone() itself it dies of a graph that cannot be cloned.
ProcessDag == Alive /\ ~Cloneable /\ Crash

-----------------------------------------------------------------------------
\* Moves, comparison and the other queries.

\* The graph and the configuration go to another DAG: what stays behind is an
\* empty graph that can be filled again, and a null pointer.
MoveAway ==
    /\ Alive
    /\ dag' = EmptyGraph
    /\ json_config_' = FALSE
    /\ UNCHANGED fate

\* A DAG that was just constructed is moved into this one.
MoveInto ==
    /\ Alive
    /\ dag' = EmptyGraph
    /\ json_config_' = TRUE
    /\ UNCHANGED fate

\* json_config() dereferences the pointer; json_config_str() tests it.
json_config == Alive /\ ~json_config_ /\ Crash

\* Both look the vertex up and dereference what they found.
are_connected_by_uuid(v) == Alive /\ ~Contains(v) /\ Crash
override_initial_input_for_vertex_task(v) == Alive /\ ~Contains(v) /\ Crash

\* The vertices at one index: label and uuid, number of edges, and counter.
SameVertex(lhs, rhs, i) ==
    LET u == lhs.graph_[i]
        v == rhs.graph_[i]
    IN  u = v /\ Len(lhs.edges_[u]) = Len(rhs.edges_[v]) /\ lhs.incomming[u] = rhs.incomming[v]

\* operator== of two graphs that can be cloned: the sorted clones are not used,
\* the vertices are compared in the order of insertion and their edges counted.
Equal(lhs, rhs) ==
    /\ Len(lhs.graph_) = Len(rhs.graph_)
    /\ \A i \in DOMAIN lhs.graph_ : SameVertex(lhs, rhs, i)

\* Comparison with a DAG that has no vertices: the loop looks at the first
\* vertex of the other side before it looks at the sizes.
CompareWithEmpty == Alive /\ (~Cloneable \/ dag.graph_ # <<>>) /\ Crash

\* all_are_connected_by_label, in graph g.
all_are_connected_by_label(g, from, to) ==
    /\ from # <<>> /\ to # <<>>
    /\ \A v1 \in Elements(from), v2 \in Elements(to) : v2 \in Targets(g, v1)

-----------------------------------------------------------------------------
Next ==
    \/ \E v \in Vertices :
        \/ add_vertex(v)
        \/ are_connected_by_uuid(v)
        \/ override_initial_input_for_vertex_task(v)
        \/ remove_vertex_by_uuid(v)
        \/ \E isCopy \in BOOLEAN : remove_vertex(v, isCopy)
    \/ \E v1, v2 \in Vertices :
        \/ connect_by_uuid(v1, v2)
        \/ add_and_connect(v1, v2)
        \/ CyclicQuery(v1, v2)
    \/ \E l1, l2 \in Labels : connect_all_by_label(l1, l2)
    \/ \E l \in Labels : remove_all_vertex_with_label(l)
    \/ reset
    \/ SortInPlace
    \/ ProcessDag
    \/ MoveAway
    \/ MoveInto
    \/ json_config
    \/ CompareWithEmpty

Spec == Init /\ [][Next]_vars

-----------------------------------------------------------------------------
\* "Every connection checks to preserve that acyclic portion of the graph"
\* (include/dag_scheduler/dag.h:41): no sequence of additions, connections
\* (single, by label, failing half-way), removals and sorts makes a cycle.
StaysAcyclic == ~HasCycle(dag)

\* The cached counter of a vertex is the number of edges that point to it, so
\* it never wraps below zero, and no vertex is entered or connected twice.
\* (With the types of the state.)
CountersExact ==
    /\ TypeOK
    /\ \A v \in VerticesOf(dag) :
        dag.incomming[v] = Cardinality(Sources(dag, v))
    /\ \A i, j \in DOMAIN dag.graph_ : dag.graph_[i] = dag.graph_[j] => i = j
    /\ \A v \in VerticesOf(dag) : \A i, j \in DOMAIN dag.edges_[v] :
        dag.edges_[v][i] = dag.edges_[v][j] /\ dag.edges_[v][i] # Expired => i = j

\* The cycle check by sorting a clone agrees with its meaning in terms of
\* paths: the connection closes a cycle exactly if there was one already, or
\* v1 can be reached from v2.
CycleCheckExact ==
    ~HasDanglingEdge(dag) =>
        \A v1, v2 \in VerticesOf(dag) :
            connection_would_make_cyclic(dag, v1, v2) <=>
                HasCycle(dag) \/ v1 = v2 \/ v1 \in Reachable(dag, {v2})

\* clone() "makes an identical copy" (include/dag_scheduler/dag.h:149): what the
\* two loops of the copy constructor build from a reachable graph is that
\* graph, down to the order of the edges and the counters, and operator==
\* says so.
CloneIdentical ==
    ~HasDanglingEdge(dag) => clone(dag) = dag /\ Clone(dag) = dag /\ Equal(dag, clone(dag))

\* Mutant of connection_would_make_cyclic_by_label: as the name says.
CyclicByLabelStraight(l1, l2) ==
    \E v1 \in Elements(WithLabel(l1)), v2 \in Elements(WithLabel(l2)) :
        connection_would_make_cyclic(dag, v1, v2)

\* The loops of connection_would_make_cyclic_by_label.
connection_would_make_cyclic_by_label(l1, l2) ==
    \A v1 \in Elements(WithLabel(l1)), v2 \in Elements(WithLabel(l2)) :
        ~connection_would_make_cyclic(dag, v1, v2)

\* The check by label, made pair by pair beforehand, tells whether
\* connect_all_by_label, which connects as it goes, will throw; but it answers
\* the other way round: true says that it will not (dag.cxx:217).  When
\* nothing is thrown all pairs are connected afterwards.
LabelCheckInverted ==
    ~HasDanglingEdge(dag) =>
        \A l1, l2 \in {LabelOf[v] : v \in VerticesOf(dag)} :
            LET from == WithLabel(l1)
                to == WithLabel(l2)
                done == ConnectedAll(dag, from, to)
            IN  /\ connection_would_make_cyclic_by_label(l1, l2) <=> ~done.thrown
                /\ ~done.thrown => all_are_connected_by_label(done.g, from, to)

-----------------------------------------------------------------------------
\* What the documentation says and the code does not do.

\* remove_vertex removes "a DAGVertex v and all its DAGEdge from an instance of
\* dag" (include/dag_scheduler/dag.h:490-491): no edge to it is left.
NoDanglingEdge == ~HasDanglingEdge(dag)
=============================================================================
