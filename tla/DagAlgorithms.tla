---------------------------- MODULE DagAlgorithms ----------------------------
(***************************************************************************)
(* The graph that DAG, DAGVertex and DAGEdge form together, and the        *)
(* algorithms of dag_algorithms.cxx on it.                                 *)
(*                                                                         *)
(* A vertex is identified by its uuid.  A graph is a record of the vector  *)
(* graph_ of the DAG, the vector edges_ of every vertex and its counter    *)
(* incomming_edge_count_.  An edge is the vertex its weak_ptr points to,   *)
(* or Expired when that vertex was destroyed or the edge was disconnected. *)
(* The counter is a std::size_t: it wraps below zero.                      *)
(***************************************************************************)
EXTENDS Naturals, Sequences, FiniteSets

CONSTANTS
    Vertices,     \* uuids of vertices
    Expired,      \* the weak_ptr that points nowhere
    SizeModulus   \* number of values of std::size_t

ASSUME ExpiredAssumption == Expired \notin Vertices
ASSUME SizeModulusAssumption == SizeModulus \in Nat /\ SizeModulus > 1

\* All vertices are in memory at once: a std::size_t counts them.
ASSUME VerticesAssumption ==
    IsFiniteSet(Vertices) /\ Cardinality(Vertices) < SizeModulus

EmptyGraph ==
    [graph_ |-> <<>>,
     edges_ |-> [v \in Vertices |-> <<>>],
     incomming |-> [v \in Vertices |-> 0]]

Elements(s) == {s[i] : i \in DOMAIN s}
VerticesOf(g) == Elements(g.graph_)
Targets(g, v) == Elements(g.edges_[v]) \ {Expired}
Sources(g, v) == {u \in VerticesOf(g) : v \in Targets(g, u)}
HasDanglingEdge(g) == \E v \in VerticesOf(g) : Expired \in Elements(g.edges_[v])

\* Loops, as recursive functions of the number of turns: n applications of F
\* to x, Op along a sequence, and the entries of a sequence that are in S.
Iterate(F(_), x, n) ==
    LET it[i \in 0..n] == IF i = 0 THEN x ELSE F(it[i - 1]) IN it[n]

FoldSeq(Op(_, _), x, s) ==
    LET it[i \in 0..Len(s)] == IF i = 0 THEN x ELSE Op(it[i - 1], s[i])
    IN  it[Len(s)]

Keep(s, S) ==
    LET it[i \in 0..Len(s)] ==
            IF i = 0 THEN <<>>
            ELSE IF s[i] \in S THEN Append(it[i - 1], s[i]) ELSE it[i - 1]
    IN  it[Len(s)]

\* The counter after k calls of sub_incomming_edge.
Sub(count, k) == (count + (SizeModulus - 1) * k) % SizeModulus

\* DAGVertex::connect: an edge to other, unless there is one already.
VertexConnect(g, v, other) ==
    IF other \in Targets(g, v) THEN g
    ELSE [g EXCEPT !.edges_[v] = Append(@, other),
                   !.incomming[other] = (@ + 1) % SizeModulus]

\* Mutant of ClonedVertices: a cloned vertex keeps its counter.
ClonedVerticesCounted(g) ==
    [EmptyGraph EXCEPT !.graph_ = g.graph_, !.incomming = g.incomming]

\* The copy constructor of DAGVertex takes neither the edges nor the counter.
ClonedVertices(g) == [EmptyGraph EXCEPT !.graph_ = g.graph_]

\* DAG::DAG(const DAG &): the vertices are cloned, and then connected again
\* edge by edge.  Only for graphs without a dangling edge: cloning one
\* dereferences a null pointer.
clone(g) ==
    LET connected(h, v) == FoldSeq(LAMBDA k, w : VertexConnect(k, v, w), h, g.edges_[v])
    IN  FoldSeq(connected, ClonedVertices(g), g.graph_)

\* The same in closed form, for graphs whose vertices are connected once.
Clone(g) ==
    [g EXCEPT !.incomming =
        [v \in Vertices |-> Cardinality(Sources(g, v)) % SizeModulus]]

\* Mutant of RemoveVertices: the counters of the targets are not decremented.
RemoveVerticesNoSub(g, S) ==
    [graph_ |-> Keep(g.graph_, Vertices \ S),
     edges_ |-> [v \in Vertices |->
        IF v \in S THEN <<>>
        ELSE [i \in DOMAIN g.edges_[v] |->
                IF g.edges_[v][i] \in S THEN Expired ELSE g.edges_[v][i]]],
     incomming |-> [v \in Vertices |-> IF v \in S THEN 0 ELSE g.incomming[v]]]

\* The removal of a set of vertices, one after the other: the counters of
\* their targets go down, their edges are cleared, and they are destroyed.
\* Edges that point to them stay where they are, expired.
RemoveVertices(g, S) ==
    LET lost(v) == Cardinality(Sources(g, v) \cap S)
    IN  [graph_ |-> Keep(g.graph_, Vertices \ S),
         edges_ |-> [v \in Vertices |->
            IF v \in S THEN <<>>
            ELSE [i \in DOMAIN g.edges_[v] |->
                    IF g.edges_[v][i] \in S THEN Expired ELSE g.edges_[v][i]]],
         incomming |-> [v \in Vertices |->
            IF v \in S THEN 0 ELSE Sub(g.incomming[v], lost(v))]]

dag_vertices_with_no_incomming_edges(g) ==
    Keep(g.graph_, {v \in Vertices : g.incomming[v] = 0})

-----------------------------------------------------------------------------
\* dag_topological_sort

\* Mutant of SortStep: every target is queued, whatever its counter says.
SortStepEager(st) ==
    IF st.Q = <<>> THEN st
    ELSE LET curr == Head(st.Q)
             out == Targets(st.g, curr)
         IN  [Q |-> Tail(st.Q) \o Keep(st.g.edges_[curr], Vertices),
              L |-> Append(st.L, curr),
              g |-> [st.g EXCEPT
                        !.edges_[curr] = [i \in DOMAIN @ |-> Expired],
                        !.incomming = [v \in Vertices |->
                            IF v \in out THEN Sub(@[v], 1) ELSE @[v]]]]

\* One turn of the loop: the front of Q goes to L, its edges are disconnected
\* in order, and a target left without incoming edges is queued.
SortStep(st) ==
    IF st.Q = <<>> THEN st
    ELSE LET curr == Head(st.Q)
             out == Targets(st.g, curr)
             freed == Keep(st.g.edges_[curr],
                           {m \in Vertices : Sub(st.g.incomming[m], 1) = 0})
         IN  [Q |-> Tail(st.Q) \o freed,
              L |-> Append(st.L, curr),
              g |-> [st.g EXCEPT
                        !.edges_[curr] = [i \in DOMAIN @ |-> Expired],
                        !.incomming = [v \in Vertices |->
                            IF v \in out THEN Sub(@[v], 1) ELSE @[v]]]]

\* Every vertex enters Q at most once, so the loop has ended after as many
\* turns as there are vertices.
SortLoop(g) ==
    Iterate(SortStep,
            [Q |-> dag_vertices_with_no_incomming_edges(g), L |-> <<>>, g |-> g],
            Cardinality(Vertices))

\* The list of sorted vertices, the returned bool (true: not all could be
\* sorted), the graph afterwards (its sorted part has lost its connections)
\* and whether the assertion on a disconnected edge's target failed.
dag_topological_sort(g) ==
    LET end == SortLoop(g)
    IN  [sorted |-> end.L,
         ret |-> Len(end.L) # Len(g.graph_),
         after |-> end.g,
         aborts |-> \E v \in Elements(end.L) : Expired \in Elements(g.edges_[v])]

\* Mutant of connection_would_make_cyclic: the vertices are swapped.
CyclicSwapped(g, v1, v2) ==
    dag_topological_sort(VertexConnect(Clone(g), v2, v1)).ret

\* DAG::connection_would_make_cyclic, for two vertices of a graph without
\* dangling edges: sort a clone that has the connection.
connection_would_make_cyclic(g, v1, v2) ==
    dag_topological_sort(VertexConnect(Clone(g), v1, v2)).ret

-----------------------------------------------------------------------------
\* Reference definitions, in terms of paths.

Edge(g) == {e \in VerticesOf(g) \X VerticesOf(g) : e[2] \in Targets(g, e[1])}

\* The targets of a set of vertices, and all that is reachable from it.
Successors(g, S) == {v \in VerticesOf(g) : \E u \in S : <<u, v>> \in Edge(g)}
Reachable(g, S) ==
    LET grow(R) == R \cup Successors(g, R)
    IN  Iterate(grow, Successors(g, S), Cardinality(Vertices))

HasCycle(g) == \E v \in VerticesOf(g) : v \in Reachable(g, {v})

PositionOf(s, x) == CHOOSE i \in DOMAIN s : s[i] = x
=============================================================================
