-------------------------------- MODULE Task --------------------------------
(***************************************************************************)
(* com::dag_scheduler::Task: objects that one thread, their owner, makes,  *)
(* clones, moves and destroys, while any thread iterates their stages,     *)
(* kills or completes them.  A loop over the stages keeps the iterators it *)
(* took at its start: it goes on over the same vector when the vector is   *)
(* moved to another Task.                                                  *)
(*                                                                         *)
(* A Task is constructed at most once at each place in Tasks, which names  *)
(* also its uuid and its vector of stages.  A clone and a moved Task have  *)
(* the uuid of the original.                                               *)
(***************************************************************************)
EXTENDS Naturals, FiniteSets

CONSTANTS
    Tasks,       \* places for Task objects
    Threads,     \* threads that use them
    Owner,       \* the thread that makes, moves and destroys them
    None,        \* no vector, no callback, no object
    StagesOf,    \* how many stages a Task constructed at a place is given
    GivenTo      \* the callback it is given, if any: a function, a plugin that
                 \* overrides clone, or a plain one that does not

ASSUME OwnerAssumption == Owner \in Threads
ASSUME NoneAssumption == None \notin Tasks
ASSUME StagesAssumption == StagesOf \in [Tasks -> Nat]
ASSUME GivenAssumption == GivenTo \in [Tasks -> {"function", "plugin", "plain", None}]

VARIABLES
    obj,      \* the members of every Task
    len,      \* number of stages of every vector
    freed,    \* vectors that were destroyed
    pc,       \* where each thread is in a member function
    raced,    \* history: iterations of the Task overlap, or it was assigned
    moved,    \* history: the Task, or what it was cloned from, was moved
    origin,   \* history: the constructors every Task comes from
    fate      \* what became of the process

vars == <<obj, len, freed, pc, raced, moved, origin, fate>>

\* A callback: how it is called and the uuid of the Task it was given for.
Callbacks == [kind : {"function", "plugin", "plain", "base"}, of : Tasks]

ASSUME CallbackAssumption == None \notin {"function", "plugin", "plain"} \cup Callbacks

Object ==
    [made : BOOLEAN, iterating_ : BOOLEAN, kill_ : BOOLEAN,
     stages_ : Tasks \cup {None}, callback : Callbacks \cup {None},
     uuid_ : Tasks \cup {None}, json_config_ : BOOLEAN]

NoObject ==
    [made |-> FALSE, iterating_ |-> FALSE, kill_ |-> FALSE, stages_ |-> None,
     callback |-> None, uuid_ |-> None, json_config_ |-> FALSE]

\* The callback the user gives to the constructor of the Task with uuid u.
Given(u) == IF GivenTo[u] = None THEN None ELSE [kind |-> GivenTo[u], of |-> u]

\* The Task that was constructed first, the last constructor but for clones of a
\* moved Task, and whether it, or what it was made from, was assigned to.
Origins ==
    [of : Tasks \cup {None}, by : {"constructor", "clone", "move"}, assigned : BOOLEAN]

NoOrigin == [of |-> None, by |-> "constructor", assigned |-> FALSE]

\* A thread: its location, the Task it is called on, the source of a move,
\* the vector it loops over, the stages it has run and the result so far.
Frame ==
    [at : {"idle", "tested", "entered", "running", "leaving",
           "asserted", "stored", "constructed"},
     task : Tasks \cup {None}, from : Tasks \cup {None},
     over : Tasks \cup {None}, ran : Nat, ran_all : BOOLEAN]

Idle == [at |-> "idle", task |-> None, from |-> None, over |-> None,
         ran |-> 0, ran_all |-> FALSE]

TypeOK ==
    /\ obj \in [Tasks -> Object]
    /\ \A t \in Tasks : obj[t].made => obj[t].uuid_ \in Tasks
    /\ len \in [Tasks -> Nat]
    /\ freed \subseteq Tasks
    /\ pc \in [Threads -> Frame]
    /\ raced \in [Tasks -> BOOLEAN] /\ moved \in [Tasks -> BOOLEAN]
    /\ origin \in [Tasks -> Origins]
    /\ fate \in {"alive", "terminated", "segfault"}

Init ==
    /\ obj = [t \in Tasks |-> NoObject]
    /\ len = [t \in Tasks |-> 0]
    /\ freed = {}
    /\ pc = [th \in Threads |-> Idle]
    /\ raced = [t \in Tasks |-> FALSE] /\ moved = [t \in Tasks |-> FALSE]
    /\ origin = [t \in Tasks |-> NoOrigin]
    /\ fate = "alive"

Alive == fate = "alive"
At(th, loc) == Alive /\ pc[th].at = loc
Live(t) == obj[t].made
Unused(t) == ~obj[t].made /\ obj[t].uuid_ = None

\* Threads that have set iterating_ of t and not cleared it yet.
Iterating(t) ==
    {th \in Threads : pc[th].task = t /\ pc[th].at \in {"entered", "running", "leaving"}}

Length(v) == IF v = None THEN 0 ELSE len[v]
Go(th, loc) == pc' = [pc EXCEPT ![th].at = loc]
Return(th) == pc' = [pc EXCEPT ![th] = Idle]
Die(how) == fate' = how /\ UNCHANGED <<obj, len, freed, pc, raced, moved, origin>>

-----------------------------------------------------------------------------
\* Construction, clones and moves, by the owner.

\* Each of the constructors takes the stages away from the caller's vector,
\* keeps the callback it is given, if any, and makes the two documents.
Constructed(t, callback) ==
    [made |-> TRUE, iterating_ |-> FALSE, kill_ |-> FALSE, stages_ |-> t,
     callback |-> callback, uuid_ |-> t, json_config_ |-> TRUE]

Construct(t) ==
    /\ At(Owner, "idle") /\ Unused(t)
    /\ obj' = [obj EXCEPT ![t] = Constructed(t, Given(t))]
    /\ len' = [len EXCEPT ![t] = StagesOf[t]]
    /\ origin' = [origin EXCEPT ![t] = [NoOrigin EXCEPT !.of = t]]
    /\ UNCHANGED <<freed, pc, raced, moved, fate>>

\* Mutant of ClonedCallback: only a plugin is taken over.
ClonedCallbackPluginOnly(callback) ==
    IF callback # None /\ callback.kind = "function" THEN None ELSE callback

\* A function is copied.  A plugin is cloned: one that does not override
\* TaskCallbackPlugin::clone becomes the base plugin, which only logs.
ClonedCallback(callback) ==
    IF callback # None /\ callback.kind = "plain"
    THEN [callback EXCEPT !.kind = "base"]
    ELSE callback

\* clone() of src: cloned stages, the same uuid, never a null document.  The
\* flags of the original are not copied.
clone(t, src) ==
    /\ At(Owner, "idle") /\ Unused(t) /\ Live(src)
    /\ obj' = [obj EXCEPT ![t] =
            [Constructed(t, ClonedCallback(obj[src].callback)) EXCEPT !.uuid_ = obj[src].uuid_]]
    /\ len' = [len EXCEPT ![t] = Length(obj[src].stages_)]
    /\ moved' = [moved EXCEPT ![t] = moved[src]]
    /\ origin' = [origin EXCEPT ![t] =
            [origin[src] EXCEPT !.by = IF @ = "move" THEN "move" ELSE "clone"]]
    /\ UNCHANGED <<freed, pc, raced, fate>>

\* What a Task that was moved from is left with.
MovedFrom(o) == [o EXCEPT !.stages_ = None, !.json_config_ = FALSE]

\* Task(Task &&): the members are moved first, the callbacks are not among
\* them; then the assertion looks at the source.
MoveConstruct(t, src) ==
    /\ At(Owner, "idle") /\ Unused(t) /\ Live(src)
    /\ obj' = [obj EXCEPT
            ![t] = [obj[src] EXCEPT !.made = FALSE, !.iterating_ = FALSE,
                                    !.kill_ = FALSE, !.callback = None],
            ![src] = MovedFrom(obj[src])]
    /\ moved' = [moved EXCEPT ![t] = TRUE, ![src] = TRUE]
    /\ origin' = [origin EXCEPT ![t] = [origin[src] EXCEPT !.by = "move"]]
    /\ pc' = [pc EXCEPT ![Owner] = [Idle EXCEPT !.at = "constructed", !.task = t, !.from = src]]
    /\ UNCHANGED <<len, freed, raced, fate>>

ConstructAssert ==
    /\ At(Owner, "constructed")
    /\ IF obj[pc[Owner].from].iterating_ THEN Die("terminated")
       ELSE /\ obj' = [obj EXCEPT ![pc[Owner].task].made = TRUE]
            /\ Return(Owner)
            /\ UNCHANGED <<len, freed, raced, moved, origin, fate>>

\* operator=(Task &&): the assertion on the source, the stores into the flags
\* of the target, whoever uses it, and then the moves.  The callback stays.
AssignAssert(t, src) ==
    /\ At(Owner, "idle") /\ Live(t) /\ Live(src) /\ t # src
    /\ IF obj[src].iterating_ THEN Die("terminated")
       ELSE /\ pc' = [pc EXCEPT ![Owner] =
                        [Idle EXCEPT !.at = "asserted", !.task = t, !.from = src]]
            /\ UNCHANGED <<obj, len, freed, raced, moved, origin, fate>>

AssignStore ==
    LET t == pc[Owner].task
    IN  /\ At(Owner, "asserted")
        /\ obj' = [obj EXCEPT ![t].iterating_ = FALSE, ![t].kill_ = FALSE]
        /\ raced' = [raced EXCEPT ![t] = Iterating(t) # {}]
        /\ Go(Owner, "stored")
        /\ UNCHANGED <<len, freed, moved, origin, fate>>

AssignMove ==
    LET t == pc[Owner].task
        src == pc[Owner].from
    IN  /\ At(Owner, "stored")
        /\ obj' = [obj EXCEPT
                ![t].stages_ = obj[src].stages_, ![t].uuid_ = obj[src].uuid_,
                ![t].json_config_ = obj[src].json_config_,
                ![src] = MovedFrom(obj[src])]
        /\ freed' = freed \cup ({obj[t].stages_} \ {None})
        /\ moved' = [moved EXCEPT ![t] = TRUE, ![src] = TRUE]
        /\ origin' = [origin EXCEPT ![t].assigned = TRUE]
        /\ Return(Owner)
        /\ UNCHANGED <<len, raced, fate>>

\* ~Task: the owner waits for every call on it to return.
Destroy(t) ==
    /\ At(Owner, "idle") /\ Live(t)
    /\ \A th \in Threads : pc[th].task # t
    /\ obj' = [obj EXCEPT ![t] = [NoObject EXCEPT !.uuid_ = obj[t].uuid_]]
    /\ freed' = freed \cup ({obj[t].stages_} \ {None})
    /\ UNCHANGED <<len, pc, raced, moved, origin, fate>>

-----------------------------------------------------------------------------
\* iterate_stages, by any thread.

\* iterating_.load(): a caller that finds it set returns false at once.
Test(th, t) ==
    /\ At(th, "idle") /\ Live(t)
    /\ ~obj[t].iterating_
    /\ pc' = [pc EXCEPT ![th] = [Idle EXCEPT !.at = "tested", !.task = t]]
    /\ UNCHANGED <<obj, len, freed, raced, moved, origin, fate>>

\* Mutant of Store: iterating_ is not set.
StoreMissing(th) ==
    /\ At(th, "tested")
    /\ raced' = [raced EXCEPT ![pc[th].task] = Iterating(pc[th].task) # {}]
    /\ Go(th, "entered")
    /\ UNCHANGED <<obj, len, freed, moved, origin, fate>>

\* iterating_.store(true), a step of its own: another thread may have
\* passed the test in the meantime.
Store(th) ==
    LET t == pc[th].task
    IN  /\ At(th, "tested")
        /\ obj' = [obj EXCEPT ![t].iterating_ = TRUE]
        /\ raced' = [raced EXCEPT ![t] = Iterating(t) # {}]
        /\ Go(th, "entered")
        /\ UNCHANGED <<len, freed, moved, origin, fate>>

\* The iterators are taken; all_of over no stage is true.
Begin(th) ==
    LET v == obj[pc[th].task].stages_
    IN  /\ At(th, "entered")
        /\ pc' = [pc EXCEPT ![th].over = v, ![th].ran_all = Length(v) = 0,
                            ![th].at = IF Length(v) = 0 THEN "leaving" ELSE "running"]
        /\ UNCHANGED <<obj, len, freed, raced, moved, origin, fate>>

\* Mutant of RunStage: the loop ends before the last stage.
RunStageShort(th, ok) ==
    LET f == pc[th]
        go == ok /\ ~obj[f.task].kill_
        last == f.ran + 2 >= Length(f.over)
    IN  /\ At(th, "running")
        /\ IF f.over \in freed THEN Die("segfault")
           ELSE /\ pc' = [pc EXCEPT ![th].ran = @ + 1, ![th].ran_all = go /\ last,
                            ![th].at = IF go /\ ~last THEN "running" ELSE "leaving"]
                /\ UNCHANGED <<obj, len, freed, raced, moved, origin, fate>>

\* The iterators are read while the owner moves the vector: begin and end need
\* not belong together.
TornBegin(th) ==
    LET t == pc[th].task
        o == pc[Owner]
    IN  /\ At(th, "entered") /\ th # Owner
        /\ \/ o.at = "stored" /\ t \in {o.task, o.from}
           \/ o.at = "idle" /\ \E p \in Tasks : Unused(p)
        /\ moved' = [moved EXCEPT ![t] = TRUE]
        /\ fate' = "segfault"
        /\ UNCHANGED <<obj, len, freed, pc, raced, origin>>

\* One stage: run, cleanup, end and the look at kill_.  ok stands for what run
\* and end return.  The stages of a destroyed vector are gone.
RunStage(th, ok) ==
    LET f == pc[th]
        go == ok /\ ~obj[f.task].kill_
        last == f.ran + 1 = Length(f.over)
    IN  /\ At(th, "running")
        /\ IF f.over \in freed THEN Die("segfault")
           ELSE /\ pc' = [pc EXCEPT ![th].ran = @ + 1, ![th].ran_all = go /\ last,
                            ![th].at = IF go /\ ~last THEN "running" ELSE "leaving"]
                /\ UNCHANGED <<obj, len, freed, raced, moved, origin, fate>>

\* iterating_.store(false), whoever else is iterating.
Leave(th) ==
    LET t == pc[th].task
    IN  /\ At(th, "leaving")
        /\ obj' = [obj EXCEPT ![t].iterating_ = FALSE]
        /\ raced' = [raced EXCEPT ![t] = @ /\ Iterating(t) # {th}]
        /\ Return(th)
        /\ UNCHANGED <<len, freed, moved, origin, fate>>

-----------------------------------------------------------------------------
kill(th, t) ==
    /\ At(th, "idle") /\ Live(t)
    /\ obj' = [obj EXCEPT ![t].kill_ = TRUE]
    /\ UNCHANGED <<len, freed, pc, raced, moved, origin, fate>>

\* complete(): what it calls, the function or the plugin or nothing.  It leaves
\* the Task as it is.
complete(t) == obj[t].callback

\* json_config dereferences the pointer; the functions that print it do not.
json_config(th, t) ==
    /\ At(th, "idle") /\ Live(t)
    /\ ~obj[t].json_config_
    /\ Die("segfault")

-----------------------------------------------------------------------------
Iterate(th) ==
    \/ \E t \in Tasks : Test(th, t)
    \/ Store(th)
    \/ Begin(th)
    \/ TornBegin(th)
    \/ \E ok \in BOOLEAN : RunStage(th, ok)
    \/ Leave(th)

Own ==
    \/ \E t, src \in Tasks : clone(t, src) \/ MoveConstruct(t, src) \/ AssignAssert(t, src)
    \/ ConstructAssert
    \/ AssignStore
    \/ AssignMove
    \/ \E t \in Tasks : Construct(t) \/ Destroy(t)

Next ==
    \/ Own
    \/ \E th \in Threads :
        \/ Iterate(th)
        \/ \E t \in Tasks : kill(th, t) \/ json_config(th, t)

Spec == Init /\ [][Next]_vars

-----------------------------------------------------------------------------
\* iterating_ covers every iteration, for as long as no two iterations of the
\* Task overlap and it is not assigned to (task.cxx:207-222): what the
\* assertions of the moves and the next caller rely on.  (With the types of
\* the state.)
FlagCoversIteration ==
    TypeOK /\ \A t \in Tasks : Iterating(t) # {} /\ ~obj[t].iterating_ => raced[t]

\* iterate_stages returns true only after the thread itself has run every
\* stage the Task was made with, whoever else kills or iterates it, unless the
\* stages were moved away (task.cxx:211-219).
SuccessIsComplete ==
    \A th \in Threads :
        pc[th].ran_all => moved[pc[th].task] \/ pc[th].ran = len[pc[th].task]

\* What is left for complete() to call of the callback that the user gave to
\* the first Task of this origin.
LeftOf(o) ==
    CASE o.by = "constructor" -> Given(o.of)
      [] o.by = "clone" /\ GivenTo[o.of] = "plain" -> [kind |-> "base", of |-> o.of]
      [] o.by = "clone" /\ GivenTo[o.of] # "plain" -> Given(o.of)
      [] o.by = "move" -> None

ReportsTo(t) ==
    /\ complete(t) = LeftOf(origin[t])
    /\ origin[t].assigned \/ obj[t].uuid_ = origin[t].of

\* complete() calls the very callback the user gave, through any number of
\* clones, except that clones of a plugin without a clone of its own only log;
\* a Task constructed by a move, and all its clones, calls nothing.  Being moved
\* from or assigned to changes nothing in this, so that a Task reports under
\* another uuid than its callback was given for only after an assignment
\* (task.cxx:172-176, 191-195, 232-244, 311-323).
CallbackFollowsOrigin == \A t \in Tasks : Live(t) => ReportsTo(t)

=============================================================================
