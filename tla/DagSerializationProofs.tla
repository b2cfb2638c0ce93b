----------------------- MODULE DagSerializationProofs -----------------------
(***************************************************************************)
(* Theorems about the deserializer and the registry of dynamic libraries,  *)
(* for any libraries, uuids and lengths of documents.                      *)
(***************************************************************************)
EXTENDS DagSerialization, TLAPS

\* The parts of LoadedWhileUsed: what the client keeps, the vertex under
\* construction and the graph under construction came from the registry.
AllRegistered ==
    /\ kept \subseteq registery_
    /\ vertex.uses \subseteq registery_
    /\ \A i \in DOMAIN graph : graph[i].uses \subseteq registery_

\* Inside make_task there is a vertex under construction.
VertexPresent == at \in {"stages", "settings", "callback"} => vertex \in Vertices

\* The inductive invariant.
DInv == TypeOK /\ HandlesBalanced /\ AllRegistered /\ VertexPresent

-----------------------------------------------------------------------------
(* The helpers of the actions.                                             *)

\* One call of register_dynamic_library leaves exactly one handle of the
\* library open, whether it was registered before or not.
LEMMA RegisterBalanced ==
    ASSUME DInv, NEW l, register_dynamic_library(l)
    PROVE  /\ registery_ \subseteq registery_' /\ l \in registery_'
           /\ registery_' \subseteq Loadable
           /\ handles' \in [Libraries -> Nat]
           /\ HandlesBalanced'
<1>1. l \in Libraries /\ l \in Loadable /\ registery_' = registery_ \cup {l}
  BY LibraryAssumption DEF register_dynamic_library
<1>2. registery_ \subseteq Loadable /\ handles \in [Libraries -> Nat]
  BY DEF DInv, TypeOK
<1>3. handles[l] = IF l \in registery_ THEN 1 ELSE 0
  BY <1>1 DEF DInv, HandlesBalanced
<1>4. handles' = [handles EXCEPT ![l] = 1]
  BY <1>1, <1>2, <1>3 DEF register_dynamic_library, RegistryAfter
<1>5. ASSUME NEW k \in Libraries
      PROVE  handles'[k] = IF k \in registery_' THEN 1 ELSE 0
  <2>1. CASE k = l
    BY <2>1, <1>1, <1>2, <1>4
  <2>2. CASE k # l
    BY <2>2, <1>1, <1>2, <1>4 DEF DInv, HandlesBalanced
  <2> QED BY <2>1, <2>2
<1> QED BY <1>1, <1>2, <1>4, <1>5 DEF HandlesBalanced

\* A step that leaves the libraries alone keeps the handles balanced.
LEMMA LibrariesUnchanged ==
    ASSUME DInv, UNCHANGED libVars
    PROVE  /\ registery_' = registery_ /\ registery_' \subseteq Loadable
           /\ handles' \in [Libraries -> Nat] /\ HandlesBalanced'
  BY DEF DInv, TypeOK, HandlesBalanced, libVars

\* What every step does to the registry: it grows, and stays balanced.
Grows ==
    /\ registery_ \subseteq registery_'
    /\ registery_' \subseteq Loadable
    /\ handles' \in [Libraries -> Nat]
    /\ HandlesBalanced'

\* An exception leaves nothing behind that could miss its library.
LEMMA ThrowPreserves ==
    ASSUME DInv, Grows, NEW e \in Errors, Throw(e)
    PROVE  DInv'
<1>1. /\ at' = "returned" /\ vertex' = NoVertex /\ nodes' = 0
      /\ graph' = <<>> /\ error' = e /\ kept' = kept
  BY DEF Throw
<1>2. kept \subseteq Libraries /\ kept \subseteq registery_
  BY DEF DInv, TypeOK, AllRegistered
<1>3. TypeOK'
  BY <1>1, <1>2, BoundAssumption DEF TypeOK, Grows
<1>4. AllRegistered'
  BY <1>1, <1>2 DEF AllRegistered, Grows, NoVertex
<1>5. VertexPresent'
  BY <1>1 DEF VertexPresent
<1> QED BY <1>3, <1>4, <1>5 DEF DInv, Grows

\* A finished vertex whose libraries are registered joins the graph, or is
\* dropped because its uuid is present.
LEMMA AddVertexPreserves ==
    ASSUME DInv, Grows, NEW v \in Vertices, v.uses \subseteq registery_',
           AddVertex(v), nodes' \in 0..MaxVertices, UNCHANGED <<kept, error>>
    PROVE  DInv'
<1>1. /\ graph' = graph \/ graph' = Append(graph, v)
      /\ at' = "vertices" /\ vertex' = NoVertex
      /\ kept' = kept /\ error' = error
  BY DEF AddVertex
<1>2. /\ kept \subseteq Libraries /\ kept \subseteq registery_
      /\ graph \in Seq(Vertices) /\ error \in Errors
      /\ \A i \in DOMAIN graph : graph[i].uses \subseteq registery_
  BY DEF DInv, TypeOK, AllRegistered
<1>3. graph' \in Seq(Vertices)
  BY <1>1, <1>2
<1>4. \A i \in DOMAIN graph' : graph'[i].uses \subseteq registery_'
  <2>1. CASE graph' = graph
    BY <2>1, <1>2 DEF Grows
  <2>2. CASE graph' = Append(graph, v)
    <3>1. SUFFICES ASSUME NEW i \in DOMAIN graph'
                   PROVE  graph'[i].uses \subseteq registery_'
      OBVIOUS
    <3>2. i \in DOMAIN graph \/ graph'[i] = v
      BY <2>2, <3>1, <1>2
    <3>3. CASE i \in DOMAIN graph
      <4>1. graph'[i] = graph[i]
        BY <2>2, <3>3, <1>2
      <4> QED BY <4>1, <3>3, <1>2 DEF Grows
    <3> QED BY <3>2, <3>3
  <2> QED BY <1>1, <2>1, <2>2
<1>5. TypeOK'
  BY <1>1, <1>2, <1>3 DEF TypeOK, Grows
<1>6. AllRegistered'
  BY <1>1, <1>2, <1>4 DEF AllRegistered, Grows, NoVertex
<1>7. VertexPresent'
  BY <1>1 DEF VertexPresent
<1> QED BY <1>5, <1>6, <1>7 DEF DInv, Grows

\* A step inside make_task that neither throws nor adds the vertex.
LEMMA BuildPreserves ==
    ASSUME DInv, Grows, at' \in {"stages", "settings", "callback"},
           vertex' \in Vertices, vertex'.uses \subseteq registery_',
           nodes' \in 0..MaxVertices, UNCHANGED <<graph, kept, error>>
    PROVE  DInv'
<1>1. TypeOK'
  BY DEF DInv, TypeOK, Grows
<1>2. AllRegistered'
  BY DEF DInv, AllRegistered, Grows
<1> QED BY <1>1, <1>2 DEF DInv, Grows, VertexPresent

\* The vertex under construction and one more library it came from.
LEMMA UsesGrow ==
    ASSUME DInv, Grows, vertex \in Vertices, NEW l \in Libraries, l \in registery_'
    PROVE  /\ [vertex EXCEPT !.uses = @ \cup {l}] \in Vertices
           /\ [vertex EXCEPT !.uses = @ \cup {l}].uses \subseteq registery_'
<1>1. [vertex EXCEPT !.uses = @ \cup {l}].uses = vertex.uses \cup {l}
  BY DEF Vertices
<1>2. [vertex EXCEPT !.uses = @ \cup {l}] \in Vertices
  BY DEF Vertices
<1> QED BY <1>1, <1>2 DEF DInv, AllRegistered, Grows

-----------------------------------------------------------------------------
(* The invariant is inductive: one lemma per action that does more than    *)
(* throw.                                                                  *)

LEMMA make_dagPreserves ==
    ASSUME DInv, make_dag PROVE DInv'
<1>1. Grows
  BY LibrariesUnchanged DEF make_dag, Grows
<1>2. /\ at' = "vertices" /\ error' = "none" /\ vertex' = vertex
      /\ nodes' = nodes /\ graph' = graph /\ kept' = kept
  BY DEF make_dag
<1>3. TypeOK'
  BY <1>1, <1>2 DEF DInv, TypeOK, Grows, Errors
<1>4. AllRegistered' /\ VertexPresent'
  BY <1>1, <1>2 DEF DInv, AllRegistered, VertexPresent, Grows
<1> QED BY <1>1, <1>3, <1>4 DEF DInv, Grows

LEMMA ReturnDagPreserves ==
    ASSUME DInv, ReturnDag PROVE DInv'
<1>1. Grows
  BY LibrariesUnchanged DEF ReturnDag, Grows
<1>2. /\ at' = "returned" /\ error' = error /\ vertex' = vertex
      /\ nodes' = 0 /\ graph' = <<>>
      /\ kept' = kept \cup UNION {v.uses : v \in Entries(graph)}
  BY DEF ReturnDag
<1>3. UNION {v.uses : v \in Entries(graph)} \subseteq registery_
  BY DEF DInv, AllRegistered, Entries
<1>4. registery_ \subseteq Libraries /\ kept \subseteq registery_
  BY LibraryAssumption DEF DInv, TypeOK, AllRegistered
<1>5. kept' \subseteq registery_ /\ kept' \subseteq Libraries
  BY <1>2, <1>3, <1>4
<1>6. TypeOK'
  BY <1>1, <1>2, <1>5, BoundAssumption DEF DInv, TypeOK, Grows
<1>7. AllRegistered' /\ VertexPresent'
  BY <1>1, <1>2, <1>5 DEF DInv, AllRegistered, VertexPresent, Grows
<1> QED BY <1>1, <1>6, <1>7 DEF DInv, Grows

LEMMA DestroyDagsPreserves ==
    ASSUME DInv, DestroyDags PROVE DInv'
<1>1. Grows
  BY LibrariesUnchanged DEF DestroyDags, Grows
<1>2. /\ kept' = {} /\ at' = at /\ vertex' = vertex /\ nodes' = nodes
      /\ graph' = graph /\ error' = error
  BY DEF DestroyDags
<1>3. TypeOK'
  BY <1>1, <1>2 DEF DInv, TypeOK, Grows
<1>4. AllRegistered' /\ VertexPresent'
  BY <1>1, <1>2 DEF DInv, AllRegistered, VertexPresent, Grows
<1> QED BY <1>1, <1>3, <1>4 DEF DInv, Grows

LEMMA BeginVertexPreserves ==
    ASSUME DInv, NEW u \in Uuids, BeginVertex(u) PROVE DInv'
<1> DEFINE v == [uuid |-> u, uses |-> {}]
<1>1. Grows
  BY LibrariesUnchanged DEF BeginVertex, Grows
<1>2. v \in Vertices /\ v.uses \subseteq registery_'
  BY DEF Vertices
<1>3. nodes' \in 0..MaxVertices
  BY BoundAssumption DEF BeginVertex, DInv, TypeOK
<1>4. UNCHANGED <<kept, error>>
  BY DEF BeginVertex
<1>5. CASE AddVertex(v)
  BY <1>1, <1>2, <1>3, <1>4, <1>5, AddVertexPreserves
<1>6. CASE at' \in {"stages", "settings"} /\ vertex' = v /\ UNCHANGED graph
  BY <1>1, <1>2, <1>3, <1>4, <1>6, BuildPreserves
<1> QED BY <1>5, <1>6 DEF BeginVertex

LEMMA EndStagesPreserves ==
    ASSUME DInv, EndStages PROVE DInv'
<1>1. Grows
  BY LibrariesUnchanged DEF EndStages, Grows
<1>2. vertex' \in Vertices /\ vertex'.uses \subseteq registery_'
  BY <1>1 DEF EndStages, DInv, VertexPresent, AllRegistered, Grows
<1>3. nodes' \in 0..MaxVertices
  BY DEF EndStages, DInv, TypeOK
<1> QED BY <1>1, <1>2, <1>3, BuildPreserves DEF EndStages

LEMMA make_taskPreserves ==
    ASSUME DInv, make_task PROVE DInv'
<1>1. Grows
  BY LibrariesUnchanged DEF make_task, Grows
<1>2. vertex \in Vertices /\ vertex.uses \subseteq registery_'
  BY <1>1 DEF make_task, DInv, VertexPresent, AllRegistered, Grows
<1>3. CASE Throw("YAMLDagDeserializerError")
  BY <1>1, <1>3, ThrowPreserves DEF Errors
<1>4. CASE AddVertex(vertex) /\ UNCHANGED <<nodes, kept, error>>
  <2>1. nodes' \in 0..MaxVertices
    BY <1>4 DEF DInv, TypeOK
  <2> QED BY <1>1, <1>2, <1>4, <2>1, AddVertexPreserves
<1>5. CASE at' = "callback" /\ UNCHANGED <<vertex, nodes, graph, kept, error>>
  <2>1. nodes' \in 0..MaxVertices
    BY <1>5 DEF DInv, TypeOK
  <2> QED BY <1>1, <1>2, <1>5, <2>1, BuildPreserves
<1> QED BY <1>3, <1>4, <1>5 DEF make_task

LEMMA load_stagePreserves ==
    ASSUME DInv, NEW s \in StageNodes, load_stage(s) PROVE DInv'
<1>1. ASSUME UNCHANGED libVars, NEW e \in Errors, Throw(e) PROVE DInv'
  BY <1>1, LibrariesUnchanged, ThrowPreserves DEF Grows
<1>2. CASE StageKeyError(s) # "none" /\ Throw(StageKeyError(s)) /\ UNCHANGED libVars
  <2>1. StageKeyError(s) \in Errors
    BY DEF StageKeyError, Errors
  <2> QED BY <1>1, <1>2, <2>1
<1>3. CASE Throw("runtime_error") /\ UNCHANGED libVars
  BY <1>1, <1>3 DEF Errors
<1>4. CASE /\ register_dynamic_library(s.library)
           /\ IF s.symbol = "missing"
              THEN Throw("YAMLDagDeserializerError")
              ELSE /\ vertex' = [vertex EXCEPT !.uses = @ \cup {s.library}]
                   /\ UNCHANGED <<at, nodes, graph, kept, error>>
  <2>1. Grows /\ s.library \in registery_'
    BY <1>4, RegisterBalanced DEF Grows
  <2>2. s.library \in Libraries
    BY <2>1, LibraryAssumption DEF Grows
  <2>3. CASE Throw("YAMLDagDeserializerError")
    BY <2>1, <2>3, ThrowPreserves DEF Errors
  <2>4. CASE /\ vertex' = [vertex EXCEPT !.uses = @ \cup {s.library}]
             /\ UNCHANGED <<at, nodes, graph, kept, error>>
    <3>1. vertex \in Vertices /\ at = "stages"
      BY DEF load_stage, DInv, VertexPresent
    <3>2. vertex' \in Vertices /\ vertex'.uses \subseteq registery_'
      BY <2>1, <2>2, <2>4, <3>1, UsesGrow
    <3>3. nodes' \in 0..MaxVertices
      BY <2>4 DEF DInv, TypeOK
    <3> QED BY <2>1, <2>4, <3>1, <3>2, <3>3, BuildPreserves
  <2> QED BY <1>4, <2>3, <2>4
<1> QED BY <1>2, <1>3, <1>4 DEF load_stage

LEMMA make_task_callbackPreserves ==
    ASSUME DInv, NEW cb \in CallbackNodes, make_task_callback(cb) PROVE DInv'
<1>1. CASE UNCHANGED libVars /\ \E e \in {"InvalidNode", "YAMLDagDeserializerError"} : Throw(e)
  BY <1>1, LibrariesUnchanged, ThrowPreserves DEF Grows, Errors
<1>2. CASE /\ register_dynamic_library(cb.library)
           /\ IF CallbackError(cb) # "none"
              THEN Throw(CallbackError(cb))
              ELSE /\ AddVertex([vertex EXCEPT !.uses = @ \cup {cb.library}])
                   /\ UNCHANGED <<nodes, kept, error>>
  <2>1. Grows /\ cb.library \in registery_'
    BY <1>2, RegisterBalanced DEF Grows
  <2>2. cb.library \in Libraries
    BY <2>1, LibraryAssumption DEF Grows
  <2>3. CASE Throw(CallbackError(cb))
    <3>1. CallbackError(cb) \in Errors
      BY DEF CallbackError, Errors
    <3> QED BY <2>1, <2>3, <3>1, ThrowPreserves
  <2>4. CASE /\ AddVertex([vertex EXCEPT !.uses = @ \cup {cb.library}])
             /\ UNCHANGED <<nodes, kept, error>>
    <3>1. vertex \in Vertices
      BY DEF make_task_callback, DInv, VertexPresent
    <3>2. /\ [vertex EXCEPT !.uses = @ \cup {cb.library}] \in Vertices
          /\ [vertex EXCEPT !.uses = @ \cup {cb.library}].uses \subseteq registery_'
      BY <2>1, <2>2, <3>1, UsesGrow
    <3>3. nodes' \in 0..MaxVertices
      BY <2>4 DEF DInv, TypeOK
    <3> QED BY <2>1, <2>4, <3>2, <3>3, AddVertexPreserves
  <2> QED BY <1>2, <2>3, <2>4
<1> QED BY <1>1, <1>2 DEF make_task_callback

LEMMA RejectsPreserve ==
    ASSUME DInv, RejectDocument \/ RejectVertex \/ RejectStages PROVE DInv'
<1>1. UNCHANGED libVars
  BY DEF RejectDocument, RejectVertex, RejectStages
<1>2. \E e \in Errors : Throw(e)
  BY DEF RejectDocument, RejectVertex, RejectStages, Errors
<1> QED BY <1>1, <1>2, LibrariesUnchanged, ThrowPreserves DEF Grows

LEMMA InitialDInv == Init => DInv
<1>1. SUFFICES ASSUME Init PROVE DInv
  OBVIOUS
<1>2. TypeOK
  BY <1>1, BoundAssumption DEF Init, TypeOK, Errors
<1>3. HandlesBalanced
  BY <1>1 DEF Init, HandlesBalanced
<1>4. AllRegistered /\ VertexPresent
  BY <1>1 DEF Init, AllRegistered, VertexPresent, NoVertex
<1> QED BY <1>2, <1>3, <1>4 DEF DInv

LEMMA NextDInv == DInv /\ [Next]_vars => DInv'
<1>1. SUFFICES ASSUME DInv, [Next]_vars PROVE DInv'
  OBVIOUS
<1>2. CASE UNCHANGED vars
  BY <1>1, <1>2 DEF DInv, TypeOK, HandlesBalanced, AllRegistered, VertexPresent,
                    vars, libVars
<1>3. CASE RejectDocument \/ RejectVertex \/ RejectStages
  BY <1>1, <1>3, RejectsPreserve
<1>4. CASE make_dag
  BY <1>1, <1>4, make_dagPreserves
<1>5. CASE ReturnDag
  BY <1>1, <1>5, ReturnDagPreserves
<1>6. CASE DestroyDags
  BY <1>1, <1>6, DestroyDagsPreserves
<1>7. CASE EndStages
  BY <1>1, <1>7, EndStagesPreserves
<1>8. CASE make_task
  BY <1>1, <1>8, make_taskPreserves
<1>9. CASE \E u \in Uuids : BeginVertex(u)
  BY <1>1, <1>9, BeginVertexPreserves
<1>10. CASE \E s \in StageNodes : load_stage(s)
  BY <1>1, <1>10, load_stagePreserves
<1>11. CASE \E cb \in CallbackNodes : make_task_callback(cb)
  BY <1>1, <1>11, make_task_callbackPreserves
<1> QED
  BY <1>1, <1>2, <1>3, <1>4, <1>5, <1>6, <1>7, <1>8, <1>9, <1>10, <1>11 DEF Next

\* The inductive invariant holds in every behaviour of the deserializer.
THEOREM RegistryInvariant == Spec => []DInv
  BY InitialDInv, NextDInv, PTL DEF Spec

LEMMA DInvLoaded == DInv => LoadedWhileUsed
<1>1. SUFFICES ASSUME DInv, NEW l \in InUse PROVE l \in registery_ /\ handles[l] > 0
  BY DEF LoadedWhileUsed, DInv
<1>2. l \in registery_
  BY <1>1 DEF DInv, AllRegistered, InUse, Entries
<1>3. l \in Libraries
  BY <1>1, <1>2, LibraryAssumption DEF DInv, TypeOK
<1>4. handles[l] = 1
  BY <1>1, <1>2, <1>3 DEF DInv, HandlesBalanced
<1> QED BY <1>2, <1>4

\* However many documents are deserialized, and wherever they fail, a library
\* from which a stage or callback of a DAG came stays loaded.
THEOREM LibrariesLoaded == Spec => []LoadedWhileUsed
  BY RegistryInvariant, DInvLoaded, PTL

\* After any number of documents, failing or not, a registered library has
\* exactly one open handle and the others have none.
THEOREM HandlesExact == Spec => []HandlesBalanced
<1>1. DInv => HandlesBalanced
  BY DEF DInv
<1> QED BY <1>1, RegistryInvariant, PTL

=============================================================================
