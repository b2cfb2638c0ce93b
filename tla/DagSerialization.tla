-------------------------- MODULE DagSerialization --------------------------
(***************************************************************************)
(* YAMLDagDeserializer::make_dag and the DynamicLibraryRegistry it fills.  *)
(* The document is revealed as it is read: a step that looks at a node     *)
(* chooses what it holds.  Any step may throw; the DAG under construction  *)
(* is then lost, while the static registry stays as it is.  Which stages   *)
(* a task has is abstracted to the libraries they came from.               *)
(***************************************************************************)
EXTENDS Integers, Sequences

CONSTANTS
    Libraries,     \* library names that occur in documents
    Loadable,      \* those that the operating system can load
    Uuids,         \* uuids of vertices
    Absent,        \* a key that is not in the node
    MaxVertices    \* bound: vertex nodes of a document

ASSUME LibraryAssumption == Loadable \subseteq Libraries /\ Absent \notin Libraries
ASSUME UuidAssumption == Absent \notin Uuids
ASSUME BoundAssumption == MaxVertices \in Nat

VARIABLES
    registery_,    \* names in the static registry
    handles,       \* open handles of each library (its reference count)
    at,            \* what make_dag reads next, or "returned"
    vertex,        \* the vertex under construction: uuid and libraries used
    nodes,         \* vertex nodes read from the document
    graph,         \* vertices of the DAG under construction, in order
    kept,          \* libraries that the DAGs the client keeps came from
    error          \* exception that ended the last make_dag, or "none"

libVars == <<registery_, handles>>
vars == <<libVars, at, vertex, nodes, graph, kept, error>>

Vertices == [uuid : Uuids, uses : SUBSET Libraries]
NoVertex == [uuid |-> Absent, uses |-> {}]
Errors == {"none", "YAMLDagDeserializerError", "YAMLDagWrongTypeError",
           "NonSupportedCallbackType", "runtime_error", "InvalidNode",
           "BadConversion"}

TypeOK ==
    /\ registery_ \subseteq Loadable
    /\ handles \in [Libraries -> Nat]
    /\ at \in {"returned", "vertices", "stages", "settings", "callback"}
    /\ vertex \in Vertices \cup {NoVertex}
    /\ nodes \in 0..MaxVertices
    /\ graph \in Seq(Vertices)
    /\ kept \subseteq Libraries
    /\ error \in Errors

Init ==
    /\ registery_ = {}
    /\ handles = [l \in Libraries |-> 0]
    /\ at = "returned"
    /\ vertex = NoVertex
    /\ nodes = 0
    /\ graph = <<>>
    /\ kept = {}
    /\ error = "none"

-----------------------------------------------------------------------------
Entries(s) == {s[i] : i \in DOMAIN s}

\* An exception leaves make_dag: vertex and graph are destroyed with the stack.
Throw(e) ==
    /\ at' = "returned"
    /\ vertex' = NoVertex
    /\ nodes' = 0
    /\ graph' = <<>>
    /\ error' = e
    /\ UNCHANGED kept

\* Mutant of RegistryAfter: the copy in the registry shares the handle that
\* the destructor of the local item closes.
RegistryAfterShared(l) ==
    [handles EXCEPT ![l] = IF l \in registery_ THEN @ - 1 ELSE 0]

\* Mutant of RegistryAfter: the local item is not unloaded.
RegistryAfterLeaking(l) ==
    [handles EXCEPT ![l] = IF l \in registery_ THEN @ + 1 ELSE @ + 2]

\* The local item opens the library, a first registration copies the item,
\* which opens it once more, and the destructor of the local one closes it.
RegistryAfter(l) ==
    LET opened == handles[l] + 1
        copied == IF l \in registery_ THEN opened ELSE opened + 1
    IN [handles EXCEPT ![l] = copied - 1]

register_dynamic_library(l) ==
    /\ l \in Loadable
    /\ handles' = RegistryAfter(l)
    /\ registery_' = registery_ \cup {l}

\* DAG::add_vertex drops a vertex whose uuid is present; its result is ignored.
AddVertex(v) ==
    /\ graph' = IF \E w \in Entries(graph) : w.uuid = v.uuid
                THEN graph ELSE Append(graph, v)
    /\ at' = "vertices"
    /\ vertex' = NoVertex

-----------------------------------------------------------------------------
(* make_dag and make_vertices.                                             *)

\* No DAG key, a DAG that is no map, a bad Configuration, Vertices that are no
\* sequence: all before the first vertex.
RejectDocument ==
    /\ at = "returned"
    /\ \E e \in {"YAMLDagDeserializerError", "YAMLDagWrongTypeError"} : Throw(e)
    /\ UNCHANGED libVars

make_dag ==
    /\ at = "returned"
    /\ at' = "vertices"
    /\ error' = "none"
    /\ UNCHANGED <<libVars, vertex, nodes, graph, kept>>

\* After the last vertex node, or without any, the DAG is the client's.
ReturnDag ==
    /\ at = "vertices"
    /\ at' = "returned"
    /\ kept' = kept \cup UNION {v.uses : v \in Entries(graph)}
    /\ graph' = <<>>
    /\ nodes' = 0
    /\ UNCHANGED <<libVars, vertex, error>>

\* The client destroys its DAGs.
DestroyDags ==
    /\ kept # {}
    /\ kept' = {}
    /\ UNCHANGED <<libVars, at, vertex, nodes, graph, error>>

\* A missing UUID is an invalid node, an ill-formed one a runtime_error.
RejectVertex ==
    /\ at = "vertices" /\ nodes < MaxVertices
    /\ \E e \in {"InvalidNode", "runtime_error"} : Throw(e)
    /\ UNCHANGED libVars

BeginVertex(u) ==
    /\ at = "vertices" /\ nodes < MaxVertices
    /\ nodes' = nodes + 1
    /\ LET v == [uuid |-> u, uses |-> {}] IN
        \/ AddVertex(v)                            \* no Task
        \/ \E next \in {"stages", "settings"} :    \* Task, with Stages or not
            at' = next /\ vertex' = v /\ UNCHANGED graph
    /\ UNCHANGED <<libVars, kept, error>>

-----------------------------------------------------------------------------
(* make_task and load_stages.                                              *)

StageNodes == [name : BOOLEAN, library : Libraries \cup {Absent},
               symbol : {"exported", "missing", Absent}]

\* The test that should ask for LibraryName asks for Name.
StageKeyError(s) ==
    IF ~s.name THEN "YAMLDagDeserializerError"
    ELSE IF s.library = Absent THEN "InvalidNode"
    ELSE IF s.symbol = Absent THEN "YAMLDagDeserializerError"
    ELSE "none"

\* Stages that are no sequence cannot be converted.
RejectStages ==
    /\ at = "stages" /\ vertex.uses = {}
    /\ Throw("BadConversion")
    /\ UNCHANGED libVars

\* A library that cannot be loaded is a runtime_error, which load_stages does
\* not catch.  A symbol that is missing, cannot be looked up or creates nothing
\* leaves the library registered.
load_stage(s) ==
    /\ at = "stages"
    /\ \/ /\ StageKeyError(s) # "none"
          /\ Throw(StageKeyError(s))
          /\ UNCHANGED libVars
       \/ /\ StageKeyError(s) = "none"
          /\ s.library \notin Loadable
          /\ Throw("runtime_error")
          /\ UNCHANGED libVars
       \/ /\ StageKeyError(s) = "none"
          /\ register_dynamic_library(s.library)
          /\ IF s.symbol = "missing"
             THEN Throw("YAMLDagDeserializerError")
             ELSE /\ vertex' = [vertex EXCEPT !.uses = @ \cup {s.library}]
                  /\ UNCHANGED <<at, nodes, graph, kept, error>>

\* The last stage was read.
EndStages ==
    /\ at = "stages"
    /\ at' = "settings"
    /\ UNCHANGED <<libVars, vertex, nodes, graph, kept, error>>

\* Configuration and InitialInputs, then the Callback if there is one.
make_task ==
    /\ at = "settings"
    /\ \/ Throw("YAMLDagDeserializerError")
       \/ /\ AddVertex(vertex)
          /\ UNCHANGED <<nodes, kept, error>>
       \/ /\ at' = "callback"
          /\ UNCHANGED <<vertex, nodes, graph, kept, error>>
    /\ UNCHANGED libVars

-----------------------------------------------------------------------------
(* make_task_callback.                                                     *)

CallbackNodes == [library : Libraries \cup {Absent},
                  type : {"function", "plugin", "other", Absent},
                  symbol : {"exported", "missing", Absent}]

\* Errors after the library was registered.  A missing SymbolName is an invalid
\* node, which is a runtime_error and is caught and rethrown.
CallbackError(cb) ==
    IF cb.type = "other" THEN "NonSupportedCallbackType"
    ELSE IF cb.type = Absent \/ cb.symbol # "exported"
         THEN "YAMLDagDeserializerError"
         ELSE "none"

make_task_callback(cb) ==
    /\ at = "callback"
    /\ \/ /\ cb.library = Absent
          /\ Throw("InvalidNode")
          /\ UNCHANGED libVars
       \/ /\ cb.library \in Libraries \ Loadable
          /\ Throw("YAMLDagDeserializerError")
          /\ UNCHANGED libVars
       \/ /\ register_dynamic_library(cb.library)
          /\ IF CallbackError(cb) # "none"
             THEN Throw(CallbackError(cb))
             ELSE /\ AddVertex([vertex EXCEPT !.uses = @ \cup {cb.library}])
                  /\ UNCHANGED <<nodes, kept, error>>

-----------------------------------------------------------------------------
Next ==
    \/ RejectDocument \/ make_dag \/ ReturnDag \/ DestroyDags
    \/ RejectVertex \/ RejectStages \/ EndStages \/ make_task
    \/ \E u \in Uuids : BeginVertex(u)
    \/ \E s \in StageNodes : load_stage(s)
    \/ \E cb \in CallbackNodes : make_task_callback(cb)

Spec == Init /\ [][Next]_vars

-----------------------------------------------------------------------------
InUse == kept \cup vertex.uses \cup UNION {v.uses : v \in Entries(graph)}

\* Every library from which a stage or callback of a DAG came, finished or
\* under construction, stays loaded: through later documents that name it
\* again, through failed ones, and although every handle that loading a stage
\* opened on the way is closed again.  (With the types of the state.)
LoadedWhileUsed == TypeOK /\ \A l \in InUse : l \in registery_ /\ handles[l] > 0

\* Deserializing any number of documents, failing or not, leaves one handle
\* per registered library and none of the others.
HandlesBalanced ==
    \A l \in Libraries : handles[l] = IF l \in registery_ THEN 1 ELSE 0

=============================================================================
