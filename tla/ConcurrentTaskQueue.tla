------------------------ MODULE ConcurrentTaskQueue ------------------------
(***************************************************************************)
(* com::dag_scheduler::ConcurrentTaskQueue: a deque of unique_ptr<Task>    *)
(* behind one mutex and one condition variable.                            *)
(*                                                                         *)
(* Every member function holds mutex_ from its first statement to its      *)
(* last, so each critical section is one action.  Only the two waiting     *)
(* pops release the mutex in the middle: they are split at the wait.       *)
(*                                                                         *)
(* A task object is owned by exactly one unique_ptr.  The model follows    *)
(* the objects, not their contents: a client makes them (fresh), the       *)
(* queue or the unique_ptr of a consumer owns them, and destroyed holds    *)
(* the ones whose owner was reset, reassigned or went out of scope.        *)
(* A null unique_ptr can be queued as well (process_dag queues the task of *)
(* every vertex, also of a vertex that has none); it is the entry NoTask.  *)
(***************************************************************************)
EXTENDS Naturals, Sequences, FiniteSets

CONSTANTS
    Tasks,        \* task objects
    UUIDs,        \* values of Task::get_uuid().as_string()
    UuidOf,       \* uuid of each object; clones of a task share it
    Consumers,    \* threads that pop or remove
    NoTask,       \* the null unique_ptr
    MaxLength     \* bound: clients do not push onto a longer queue

ASSUME NoTaskAssumption == NoTask \notin Tasks
ASSUME UuidAssumption == UuidOf \in [Tasks -> UUIDs]
ASSUME MaxLengthAssumption == MaxLength \in Nat

VARIABLES
    queue_,       \* the deque
    call,         \* where a consumer is in wait_and_pop or wait_for_and_pop
    timed,        \* the consumer's call is wait_for_and_pop
    expired,      \* its wait_duration has elapsed
    held,         \* the unique_ptr the consumer pops or removes into
    fresh,        \* tasks made by a client and not yet queued
    destroyed,    \* tasks whose destructor ran
    fate          \* what became of the process

vars == <<queue_, call, timed, expired, held, fresh, destroyed, fate>>
waitVars == <<call, timed, expired>>

Pointers == Tasks \cup {NoTask}
Entries(s) == {s[i] : i \in DOMAIN s}
Alive == fate = "alive"

TypeOK ==
    /\ queue_ \in Seq(Pointers)
    /\ call \in [Consumers -> {"idle", "waiting", "woken"}]
    /\ timed \in [Consumers -> BOOLEAN]
    /\ expired \in [Consumers -> BOOLEAN]
    /\ held \in [Consumers -> Pointers]
    /\ fresh \subseteq Tasks
    /\ destroyed \subseteq Tasks
    /\ fate \in {"alive", "segfault", "terminated"}

Init ==
    /\ queue_ = <<>>
    /\ call = [c \in Consumers |-> "idle"]
    /\ timed = [c \in Consumers |-> FALSE]
    /\ expired = [c \in Consumers |-> FALSE]
    /\ held = [c \in Consumers |-> NoTask]
    /\ fresh = Tasks
    /\ destroyed = {}
    /\ fate = "alive"

-----------------------------------------------------------------------------
\* condition_variable_.notify_all(): every thread in the wait is released.
NotifyAll ==
    call' = [c \in Consumers |->
                IF call[c] = "waiting" THEN "woken" ELSE call[c]]

\* Mutant of push: nobody is notified.
pushWithoutNotify(t) ==
    /\ Alive
    /\ t \in fresh \cup {NoTask}
    /\ Len(queue_) < MaxLength
    /\ queue_' = Append(queue_, t)
    /\ fresh' = fresh \ {t}
    /\ UNCHANGED <<call, timed, expired, held, destroyed, fate>>

\* Mutant of push: one waiter is notified, and only when the deque was empty.
pushNotifyOnce(t) ==
    /\ Alive
    /\ t \in fresh \cup {NoTask}
    /\ Len(queue_) < MaxLength
    /\ queue_' = Append(queue_, t)
    /\ fresh' = fresh \ {t}
    /\ \/ \E c \in Consumers :
            /\ queue_ = <<>> /\ call[c] = "waiting"
            /\ call' = [call EXCEPT ![c] = "woken"]
       \/ /\ queue_ = <<>> => \A c \in Consumers : call[c] # "waiting"
          /\ UNCHANGED call
    /\ UNCHANGED <<timed, expired, held, destroyed, fate>>

\* Mutant of push: push_front.
pushFront(t) ==
    /\ Alive
    /\ t \in fresh \cup {NoTask}
    /\ Len(queue_) < MaxLength
    /\ queue_' = <<t>> \o queue_
    /\ fresh' = fresh \ {t}
    /\ NotifyAll
    /\ UNCHANGED <<timed, expired, held, destroyed, fate>>

push(t) ==
    /\ Alive
    /\ t \in fresh \cup {NoTask}
    /\ Len(queue_) < MaxLength
    /\ queue_' = Append(queue_, t)
    /\ fresh' = fresh \ {t}
    /\ NotifyAll
    /\ UNCHANGED <<timed, expired, held, destroyed, fate>>

clear ==
    /\ Alive
    /\ queue_' = <<>>
    /\ destroyed' = destroyed \cup (Entries(queue_) \ {NoTask})
    /\ NotifyAll
    /\ UNCHANGED <<timed, expired, held, fresh, fate>>

\* popped_value = std::move(queue_.front()); queue_.pop_front(), where the
\* assignment destroys whatever popped_value owned before.
PopInto(c) ==
    /\ queue_ # <<>>
    /\ held' = [held EXCEPT ![c] = Head(queue_)]
    /\ destroyed' = destroyed \cup ({held[c]} \ {NoTask})
    /\ queue_' = Tail(queue_)
    /\ UNCHANGED <<fresh, fate>>

\* On an empty queue try_pop returns false and changes nothing.
try_pop(c) ==
    /\ Alive
    /\ call[c] = "idle"
    /\ PopInto(c)
    /\ UNCHANGED waitVars

\* A waiting pop: the predicate holds at once, or the thread joins the waiters
\* of condition_variable_ and releases mutex_.
StartWait(c, isTimed) ==
    /\ Alive
    /\ call[c] = "idle"
    /\ \/ PopInto(c) /\ UNCHANGED waitVars
       \/ /\ queue_ = <<>>
          /\ call' = [call EXCEPT ![c] = "waiting"]
          /\ timed' = [timed EXCEPT ![c] = isTimed]
          /\ expired' = [expired EXCEPT ![c] = FALSE]
          /\ UNCHANGED <<queue_, held, fresh, destroyed, fate>>

wait_and_pop(c) == StartWait(c, FALSE)

wait_for_and_pop(c) == StartWait(c, TRUE)

\* The deadline of wait_for passes, whether the thread sleeps or is on its way
\* back to the mutex.
Expire(c) ==
    /\ Alive
    /\ call[c] # "idle" /\ timed[c] /\ ~expired[c]
    /\ expired' = [expired EXCEPT ![c] = TRUE]
    /\ call' = [call EXCEPT ![c] = "woken"]
    /\ UNCHANGED <<queue_, timed, held, fresh, destroyed, fate>>

\* A condition variable may release a waiter that nobody notified.
SpuriousWakeup(c) ==
    /\ Alive
    /\ call[c] = "waiting"
    /\ call' = [call EXCEPT ![c] = "woken"]
    /\ UNCHANGED <<queue_, timed, expired, held, fresh, destroyed, fate>>

\* Mutant of Recheck: wait_for in a loop of its own, which starts the full
\* wait_duration again while the deque is empty.
RecheckRestarted(c) ==
    /\ Alive
    /\ call[c] = "woken"
    /\ \/ /\ PopInto(c)
          /\ call' = [call EXCEPT ![c] = "idle"]
          /\ UNCHANGED expired
       \/ /\ queue_ = <<>>
          /\ call' = [call EXCEPT ![c] = "waiting"]
          /\ expired' = [expired EXCEPT ![c] = FALSE]
          /\ UNCHANGED <<queue_, held, fresh, destroyed, fate>>
    /\ UNCHANGED timed

\* A released waiter has mutex_ again and evaluates queue_not_empty: also
\* after its deadline it takes an entry that has arrived meanwhile.
Recheck(c) ==
    /\ Alive
    /\ call[c] = "woken"
    /\ \/ /\ PopInto(c)
          /\ call' = [call EXCEPT ![c] = "idle"]
       \/ /\ queue_ = <<>>
          /\ call' = [call EXCEPT ![c] = IF expired[c] THEN "idle" ELSE "waiting"]
          /\ UNCHANGED <<queue_, held, fresh, destroyed, fate>>
    /\ UNCHANGED <<timed, expired>>

\* The positions remove_if keeps, and the deque it leaves: the kept entries
\* in their old order.
Kept(u) == {i \in DOMAIN queue_ : UuidOf[queue_[i]] # u}
Matches(u) == {i \in DOMAIN queue_ : UuidOf[queue_[i]] = u}

KeepOnly(u) ==
    \E n \in 0..Len(queue_) : \E pos \in [1..n -> Kept(u)] :
        /\ \A i, j \in 1..n : i < j => pos[i] < pos[j]
        /\ \A k \in Kept(u) : \E i \in 1..n : pos[i] = k
        /\ queue_' = [i \in 1..n |-> queue_[pos[i]]]

\* Mutant of MoveMatches: the earlier matches are released, not destroyed.
MoveMatchesLeaking(u, c) ==
    IF Matches(u) = {}
    THEN UNCHANGED <<held, destroyed>>
    ELSE \E last \in Matches(u) :
            /\ \A i \in Matches(u) : i <= last
            /\ held' = [held EXCEPT ![c] = queue_[last]]
            /\ destroyed' = destroyed \cup ({held[c]} \ {NoTask})

\* Each match is moved into ret_ptr, so the last one is returned and the
\* earlier ones are destroyed, with what ret_ptr owned before.
MoveMatches(u, c) ==
    IF Matches(u) = {}
    THEN UNCHANGED <<held, destroyed>>
    ELSE \E last \in Matches(u) :
            /\ \A i \in Matches(u) : i <= last
            /\ held' = [held EXCEPT ![c] = queue_[last]]
            /\ destroyed' = destroyed
                  \cup ({queue_[i] : i \in Matches(u) \ {last}})
                  \cup ({held[c]} \ {NoTask})

\* The predicate dereferences every entry: a null one is a null dereference.
remove_task_from_queue(u, c) ==
    /\ Alive
    /\ call[c] = "idle"
    /\ \/ /\ NoTask \in Entries(queue_)
          /\ fate' = "segfault"
          /\ UNCHANGED <<queue_, held, destroyed>>
       \/ /\ NoTask \notin Entries(queue_)
          /\ KeepOnly(u)
          /\ MoveMatches(u, c)
          /\ UNCHANGED fate
    /\ UNCHANGED <<waitVars, fresh>>

\* The consumer's unique_ptr goes out of scope.
Release(c) ==
    /\ Alive
    /\ call[c] = "idle" /\ held[c] # NoTask
    /\ held' = [held EXCEPT ![c] = NoTask]
    /\ destroyed' = destroyed \cup {held[c]}
    /\ UNCHANGED <<queue_, waitVars, fresh, fate>>

-----------------------------------------------------------------------------
Next ==
    \/ \E t \in Pointers : push(t)
    \/ clear
    \/ \E c \in Consumers :
        \/ try_pop(c)
        \/ wait_and_pop(c)
        \/ wait_for_and_pop(c)
        \/ Expire(c)
        \/ SpuriousWakeup(c)
        \/ Recheck(c)
        \/ Release(c)
        \/ \E u \in UUIDs : remove_task_from_queue(u, c)

Spec == Init /\ [][Next]_vars

\* A released waiter eventually gets the mutex (each critical section is
\* finite) and a deadline eventually passes.  Nothing obliges a client to
\* push, pop or remove, nor a condition variable to wake up spuriously.
Fairness == \A c \in Consumers : WF_vars(Recheck(c)) /\ WF_vars(Expire(c))

-----------------------------------------------------------------------------
\* No consumer sleeps on the condition variable while the deque has entries:
\* push notifies under the mutex, and every release re-tests the predicate.
NoLostWakeup == (\E c \in Consumers : call[c] = "waiting") => queue_ = <<>>

QueueHasNoDuplicate ==
    \A i, j \in DOMAIN queue_ :
        queue_[i] = queue_[j] /\ queue_[i] # NoTask => i = j

HeldOnce ==
    \A c, d \in Consumers : held[c] = held[d] /\ held[c] # NoTask => c = d

OwnersDisjoint ==
    /\ fresh \cap destroyed = {}
    /\ \A i \in DOMAIN queue_ :
        queue_[i] # NoTask =>
            /\ queue_[i] \notin fresh \cup destroyed
            /\ \A c \in Consumers : held[c] # queue_[i]
    /\ \A c \in Consumers : held[c] \notin fresh \cup destroyed

NoLeak ==
    \A t \in Tasks :
        \/ t \in fresh \cup destroyed
        \/ \E i \in DOMAIN queue_ : queue_[i] = t
        \/ \E c \in Consumers : held[c] = t

\* Every task has exactly one owner: it is fresh, in one place of the deque,
\* in the unique_ptr of one consumer, or destroyed.  A clone shares its uuid,
\* so a removal may have to dispose of several objects at once.
UniqueOwner == QueueHasNoDuplicate /\ HeldOnce /\ OwnersDisjoint /\ NoLeak

\* A wait_for_and_pop returns, however often it is notified for entries that
\* other consumers or clear take first: its deadline is not restarted.
TimedWaitReturns ==
    \A c \in Consumers :
        (call[c] # "idle" /\ timed[c]) ~> (call[c] = "idle" \/ ~Alive)

\* A blocked consumer is served, or finds that others emptied the deque: it
\* never keeps sleeping beside entries.
WaiterServed ==
    \A c \in Consumers :
        (call[c] # "idle" /\ queue_ # <<>>)
            ~> (call[c] = "idle" \/ queue_ = <<>> \/ ~Alive)
=============================================================================
