------------------------------ MODULE Logging ------------------------------
(***************************************************************************)
(* com::dag_scheduler::Logging and LoggedClass: the registry of one sink   *)
(* per tag, filled and cleared under loggers_mutex_, and the records that  *)
(* threads write without it.  The core of Boost.Log, which has the sinks   *)
(* and hands each record to those whose filter lets it pass, is external.  *)
(*                                                                         *)
(* A tag is the text that find_sink and the filters compare.  The tag of a *)
(* LoggedClass is its type and its address: a later object at the address  *)
(* has the same one.                                                       *)
(***************************************************************************)
EXTENDS Naturals, Sequences, FiniteSets

CONSTANTS
    Tags,         \* tags that clients make themselves
    ClassTags,    \* tags of instances of LoggedClass
    Threads,      \* threads that log
    Streams,      \* targets of the add functions: cout, cerr, clog, files
    Levels,       \* severity levels, in order
    Error,        \* the level at which LoggedClass adds std::cerr
    None          \* nothing registered, nothing written

ASSUME TagAssumption == Tags \cap ClassTags = {}
ASSUME LevelAssumption == Levels \subseteq Nat /\ Error \in Levels
ASSUME StreamAssumption == {"cout", "cerr"} \subseteq Streams

VARIABLES
    loggers_,     \* what is registered for every tag
    core,         \* the sinks of the core
    attributes,   \* whether the core has the common attributes
    init_,        \* whether a thread has stored that it has
    pc,           \* the call each thread is in
    last,         \* the last record: its tag and level, where it went
    cleared       \* history: threads that saw a clear_all between the two calls of
                  \* the constructor of LoggedClass they are in, or were in last

vars == <<loggers_, core, attributes, init_, pc, last, cleared>>

AllTags == Tags \cup ClassTags
Logger == [stream : Streams, level : Levels]

ASSUME NoneAssumption == None \notin Streams \cup Logger

Sink == [tag : AllTags, stream : Streams, level : Levels, filtered : BOOLEAN]

\* Where a thread is, and the tag, stream and level it was called with.
Frame ==
    [at : {"idle", "calling", "added", "clearing", "initializing", "attributed", "ready"},
     tag : AllTags \cup {None}, stream : Streams \cup {None}, level : Levels \cup {None}]

Idle == [at |-> "idle", tag |-> None, stream |-> None, level |-> None]

TypeOK ==
    /\ loggers_ \in [AllTags -> Logger \cup {None}]
    /\ core \in Seq(Sink)
    /\ attributes \in BOOLEAN /\ init_ \in BOOLEAN /\ cleared \subseteq Threads
    /\ pc \in [Threads -> Frame]

Init ==
    /\ loggers_ = [t \in AllTags |-> None]
    /\ core = <<>>
    /\ attributes = FALSE /\ init_ = FALSE /\ cleared = {}
    /\ pc = [th \in Threads |-> Idle]
    /\ last = None

At(th, loc) == pc[th].at = loc
Go(th, loc) == pc' = [pc EXCEPT ![th].at = loc]
Registered(t) == loggers_[t] # None

\* loggers_mutex_ is free.
MutexFree == \A th \in Threads : pc[th].at \notin {"added", "clearing"}

-----------------------------------------------------------------------------
\* add_std_cout_logger, add_std_cerr_logger, add_std_log_logger,
\* add_file_logger and the constructor of LoggedClass.

Call(th, t, stream, level) ==
    pc' = [pc EXCEPT ![th] = [at |-> "calling", tag |-> t, stream |-> stream, level |-> level]]

add_logger(th, t, stream, level) ==
    /\ At(th, "idle")
    /\ Call(th, t, stream, level)
    /\ UNCHANGED <<loggers_, core, attributes, init_, last, cleared>>

\* Mutant of LoggedClass: the logger for std::cerr comes first.
LoggedClassCerrFirst(th, t, cout_level) ==
    /\ At(th, "idle")
    /\ Call(th, t, "cerr", Error)
    /\ cleared' = cleared \ {th}
    /\ UNCHANGED <<loggers_, core, attributes, init_, last>>

\* The constructor adds a logger to std::cout, and when that call has returned
\* one to std::cerr for the same tag.
LoggedClass(th, t, cout_level) ==
    /\ At(th, "idle")
    /\ Call(th, t, "cout", cout_level)
    /\ cleared' = cleared \ {th}
    /\ UNCHANGED <<loggers_, core, attributes, init_, last>>

\* What follows on the return from an add function.
Returned(th) ==
    IF pc[th].tag \in ClassTags /\ pc[th].stream = "cout"
    THEN [pc EXCEPT ![th].at = "calling", ![th].stream = "cerr", ![th].level = Error]
    ELSE [pc EXCEPT ![th] = Idle]

\* The sink a thread adds, before and after its filter is set.
NewSink(th) ==
    [tag |-> pc[th].tag, stream |-> pc[th].stream, level |-> pc[th].level, filtered |-> FALSE]

FilteredSink(th) ==
    [tag |-> pc[th].tag, stream |-> pc[th].stream, level |-> pc[th].level, filtered |-> TRUE]

\* The mutex is locked.  A registered tag is refused; otherwise configure_sink
\* gives the core a new sink that has no filter yet.
Enter(th) ==
    /\ At(th, "calling") /\ MutexFree
    /\ IF Registered(pc[th].tag)
       THEN pc' = Returned(th) /\ UNCHANGED core
       ELSE /\ core' = Append(core, NewSink(th))
            /\ Go(th, "added")
    /\ UNCHANGED <<loggers_, attributes, init_, last, cleared>>

\* Mutant of Register: the filter is never set.
RegisterUnfiltered(th) ==
    /\ At(th, "added")
    /\ loggers_' = [loggers_ EXCEPT
            ![pc[th].tag] = [stream |-> pc[th].stream, level |-> pc[th].level]]
    /\ pc' = Returned(th)
    /\ UNCHANGED <<core, attributes, init_, last, cleared>>

\* The filter is set, the tag registered and the mutex unlocked.
Register(th) ==
    /\ At(th, "added")
    /\ core' = [core EXCEPT ![Len(core)] = FilteredSink(th)]
    /\ loggers_' = [loggers_ EXCEPT
            ![pc[th].tag] = [stream |-> pc[th].stream, level |-> pc[th].level]]
    /\ pc' = Returned(th)
    /\ UNCHANGED <<attributes, init_, last, cleared>>

-----------------------------------------------------------------------------
\* clear_all

\* The thread has returned from the first call of the constructor of LoggedClass
\* and has not entered the second.
Between(th) == At(th, "calling") /\ pc[th].tag \in ClassTags /\ pc[th].stream = "cerr"

ClearEnter(th) ==
    /\ At(th, "idle") /\ MutexFree
    /\ Go(th, "clearing")
    /\ cleared' = cleared \cup {u \in Threads : Between(u)}
    /\ UNCHANGED <<loggers_, core, attributes, init_, last>>

\* One registered sink is removed from the core.
RemoveSink(th, t) ==
    /\ At(th, "clearing") /\ Registered(t)
    /\ \E i \in DOMAIN core :
        /\ core[i].tag = t
        /\ core' = SubSeq(core, 1, i - 1) \o SubSeq(core, i + 1, Len(core))
    /\ loggers_' = [loggers_ EXCEPT ![t] = None]
    /\ UNCHANGED <<attributes, init_, pc, last, cleared>>

ClearEnd(th) ==
    /\ At(th, "clearing") /\ \A t \in AllTags : ~Registered(t)
    /\ core' = <<>>
    /\ pc' = [pc EXCEPT ![th] = Idle]
    /\ UNCHANGED <<loggers_, attributes, init_, last, cleared>>

-----------------------------------------------------------------------------
\* trace, debug, info, warn, error and fatal: write_severity_log.

\* The call, and init() looks at init_.
Log(th, t, level) ==
    /\ At(th, "idle")
    /\ pc' = [pc EXCEPT ![th] = [at |-> IF init_ THEN "ready" ELSE "initializing",
                                 tag |-> t, stream |-> None, level |-> level]]
    /\ UNCHANGED <<loggers_, core, attributes, init_, last, cleared>>

AddCommonAttributes(th) ==
    /\ At(th, "initializing")
    /\ attributes' = TRUE
    /\ Go(th, "attributed")
    /\ UNCHANGED <<loggers_, core, init_, last, cleared>>

StoreInit(th) ==
    /\ At(th, "attributed")
    /\ init_' = TRUE
    /\ Go(th, "ready")
    /\ UNCHANGED <<loggers_, core, attributes, last, cleared>>

\* Mutant of Passes: the sink's own level is left out.
PassesAbove(sink, t, level) == sink.filtered => sink.tag = t /\ level > sink.level

\* The filter of a sink; one that has none lets everything pass.
Passes(sink, t, level) == sink.filtered => sink.tag = t /\ level >= sink.level

\* The sinks a record reaches.  When the core has none at all, the record goes
\* to its default sink.
Reached(t, level) == {i \in DOMAIN core : Passes(core[i], t, level)}

Emit(th) ==
    /\ At(th, "ready")
    /\ last' = [attributes |-> attributes, default |-> core = <<>>,
                to |-> {core[i].stream : i \in Reached(pc[th].tag, pc[th].level)}]
    /\ pc' = [pc EXCEPT ![th] = Idle]
    /\ UNCHANGED <<loggers_, core, attributes, init_, cleared>>

-----------------------------------------------------------------------------
Write(th) == AddCommonAttributes(th) \/ StoreInit(th) \/ Emit(th)

Next ==
    \E th \in Threads :
        \/ \E t \in Tags, stream \in Streams, level \in Levels : add_logger(th, t, stream, level)
        \/ \E t \in ClassTags, level \in Levels : LoggedClass(th, t, level)
        \/ Enter(th)
        \/ Register(th)
        \/ ClearEnter(th)
        \/ \E t \in AllTags : RemoveSink(th, t)
        \/ ClearEnd(th)
        \/ \E t \in AllTags, level \in Levels : Log(th, t, level)
        \/ Write(th)

Spec == Init /\ [][Next]_vars

-----------------------------------------------------------------------------
\* Whenever the mutex is free the core has exactly one sink for every
\* registered tag, with the stream, level and filter it was registered for,
\* and no other: no record is written twice, and clear_all can find them all.
\* (With the types of the state.)
RegistryIsCore ==
    TypeOK /\ (MutexFree =>
        /\ {core[i] : i \in DOMAIN core} =
            {[tag |-> t, stream |-> loggers_[t].stream, level |-> loggers_[t].level,
              filtered |-> TRUE] : t \in {u \in AllTags : Registered(u)}}
        /\ Len(core) = Cardinality({t \in AllTags : Registered(t)}))

\* The streams of sinks that are in the core without a filter.
BeingAdded == {pc[th].stream : th \in {u \in Threads : At(u, "added")}}

\* The stream a record of thread th has to reach, if any.
OwnStream(th) ==
    LET logger == loggers_[pc[th].tag]
    IN  IF logger # None /\ pc[th].level >= logger.level THEN {logger.stream} ELSE {}

\* The record that thread th emits in this step goes where it has to.
Delivers(th) ==
    /\ OwnStream(th) \subseteq last'.to
    /\ last'.to \subseteq OwnStream(th) \cup BeingAdded
    /\ last'.attributes
    /\ last'.default => OwnStream(th) = {} /\ BeingAdded = {}

\* A record reaches the stream registered for its tag, if its level is high
\* enough, and no other, except those of sinks that are being added at that
\* moment: these take the records of all tags and levels (logging.cxx:71-75).
\* It is lost to the default sink only if no sink exists, and it carries the
\* common attributes, also when the first records of several threads race.
DeliveredExactly ==
    [][\A th \in Threads : At(th, "ready") /\ ~At(th, "ready")' => Delivers(th)]_vars

\* A LoggedClass gets a logger to std::cerr only if clear_all came between the
\* two calls of that very constructor: both are for one tag, so the second
\* is refused, however often the registry was cleared before, and whoever else
\* constructs an object with the same tag (logged_class.hpp:32-33).
CerrNeedsClear ==
    [][\A t \in ClassTags :
        loggers_'[t] # loggers_[t] /\ loggers_'[t] # None /\ loggers_'[t].stream = "cerr" =>
            \E th \in cleared : At(th, "added") /\ pc[th].tag = t]_vars

=============================================================================
