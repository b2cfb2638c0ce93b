---------------------- MODULE ConcurrentTaskQueueProofs ----------------------
(***************************************************************************)
(* The queue is type correct, never leaves a consumer asleep beside        *)
(* entries, keeps exactly one owner for every task, and implements         *)
(* TaskFifo: for any number of tasks, consumers and entries.               *)
(***************************************************************************)
EXTENDS ConcurrentTaskQueueFifo, TLAPS

USE NoTaskAssumption, UuidAssumption, MaxLengthAssumption

-----------------------------------------------------------------------------
\* The deque that remove_if leaves is again a sequence of pointers.
LEMMA KeepOnlyType ==
    ASSUME TypeOK, NEW u \in UUIDs, KeepOnly(u)
    PROVE  queue_' \in Seq(Pointers)
<1>0. PICK n \in 0..Len(queue_) : \E pos \in [1..n -> Kept(u)] :
        queue_' = [i \in 1..n |-> queue_[pos[i]]]
  BY DEF KeepOnly
<1>1. PICK pos \in [1..n -> Kept(u)] : queue_' = [i \in 1..n |-> queue_[pos[i]]]
  BY <1>0
<1>2. \A i \in 1..n : queue_[pos[i]] \in Pointers
  BY DEF TypeOK, Kept
<1>3. n \in Nat
  BY DEF TypeOK
<1> QED
  BY <1>1, <1>2, <1>3

\* Only one entry leaves the deque, or the whole tail stays, in a pop.
LEMMA PopIntoType ==
    ASSUME TypeOK, NEW c \in Consumers, PopInto(c)
    PROVE  /\ queue_' \in Seq(Pointers)
           /\ held' \in [Consumers -> Pointers]
           /\ fresh' \subseteq Tasks
           /\ destroyed' \subseteq Tasks
           /\ fate' \in {"alive", "segfault", "terminated"}
<1>1. queue_ # <<>> /\ queue_ \in Seq(Pointers)
  BY DEF PopInto, TypeOK
<1>2. Head(queue_) \in Pointers /\ Tail(queue_) \in Seq(Pointers)
  BY <1>1
<1> QED
  BY <1>2 DEF PopInto, TypeOK, Pointers

LEMMA MoveMatchesType ==
    ASSUME TypeOK, NEW u \in UUIDs, NEW c \in Consumers, MoveMatches(u, c),
           NoTask \notin Entries(queue_)
    PROVE  /\ held' \in [Consumers -> Pointers]
           /\ destroyed' \subseteq Tasks
<1>1. \A i \in DOMAIN queue_ : queue_[i] \in Tasks
  BY DEF TypeOK, Entries, Pointers
<1>2. Matches(u) \subseteq DOMAIN queue_
  BY DEF Matches
<1> QED
  BY <1>1, <1>2 DEF MoveMatches, TypeOK, Pointers

LEMMA TypeStep == TypeOK /\ [Next]_vars => TypeOK'
<1> SUFFICES ASSUME TypeOK, [Next]_vars PROVE TypeOK'
  OBVIOUS
<1>1. ASSUME NEW t \in Pointers, push(t) PROVE TypeOK'
  BY <1>1 DEF push, NotifyAll, TypeOK, Pointers
<1>2. CASE clear
  <2>1. Entries(queue_) \subseteq Pointers
    BY DEF TypeOK, Entries
  <2> QED
    BY <1>2, <2>1 DEF clear, NotifyAll, TypeOK, Pointers
<1>3. ASSUME NEW c \in Consumers, try_pop(c) PROVE TypeOK'
  BY <1>3, PopIntoType DEF try_pop, waitVars, TypeOK
<1>4. ASSUME NEW c \in Consumers, NEW b \in BOOLEAN, StartWait(c, b) PROVE TypeOK'
  <2>1. CASE PopInto(c) /\ UNCHANGED waitVars
    BY <2>1, PopIntoType DEF waitVars, TypeOK
  <2>2. CASE queue_ = <<>> /\ ~(PopInto(c) /\ UNCHANGED waitVars)
    BY <1>4, <2>2 DEF StartWait, TypeOK
  <2> QED
    BY <1>4, <2>1, <2>2 DEF StartWait
<1>5. ASSUME NEW c \in Consumers, Expire(c) PROVE TypeOK'
  BY <1>5 DEF Expire, TypeOK
<1>6. ASSUME NEW c \in Consumers, SpuriousWakeup(c) PROVE TypeOK'
  BY <1>6 DEF SpuriousWakeup, TypeOK
<1>7. ASSUME NEW c \in Consumers, Recheck(c) PROVE TypeOK'
  <2>1. CASE PopInto(c) /\ call' = [call EXCEPT ![c] = "idle"]
    BY <1>7, <2>1, PopIntoType DEF Recheck, TypeOK
  <2>2. CASE queue_ = <<>>
    BY <1>7, <2>2 DEF Recheck, PopInto, TypeOK
  <2> QED
    BY <1>7, <2>1, <2>2 DEF Recheck
<1>8. ASSUME NEW c \in Consumers, Release(c) PROVE TypeOK'
  BY <1>8 DEF Release, waitVars, TypeOK, Pointers
<1>9. ASSUME NEW c \in Consumers, NEW u \in UUIDs, remove_task_from_queue(u, c)
      PROVE  TypeOK'
  <2>1. CASE NoTask \in Entries(queue_)
    BY <1>9, <2>1 DEF remove_task_from_queue, waitVars, TypeOK
  <2>2. CASE NoTask \notin Entries(queue_)
    BY <1>9, <2>2, KeepOnlyType, MoveMatchesType
       DEF remove_task_from_queue, waitVars, TypeOK
  <2> QED
    BY <2>1, <2>2
<1>10. CASE UNCHANGED vars
  BY <1>10 DEF vars, TypeOK
<1> QED
  BY <1>1, <1>2, <1>3, <1>4, <1>5, <1>6, <1>7, <1>8, <1>9, <1>10
     DEF Next, wait_and_pop, wait_for_and_pop

\* Whatever sequence of calls clients make, every variable of the queue keeps
\* its type.
THEOREM TypeCorrect == Spec => []TypeOK
<1>1. Init => TypeOK
  BY DEF Init, TypeOK, Pointers
<1> QED
  BY <1>1, TypeStep, PTL DEF Spec

-----------------------------------------------------------------------------
LEMMA WakeupStep == TypeOK /\ NoLostWakeup /\ [Next]_vars => NoLostWakeup'
<1> SUFFICES ASSUME TypeOK, NoLostWakeup, [Next]_vars,
                    NEW d \in Consumers, call'[d] = "waiting"
             PROVE  queue_' = <<>>
  BY DEF NoLostWakeup
<1>1. ASSUME NEW t \in Pointers, push(t) PROVE FALSE
  BY <1>1 DEF push, NotifyAll, TypeOK
<1>2. CASE clear
  BY <1>2 DEF clear
<1>3. ASSUME NEW c \in Consumers, PopInto(c), call' = call PROVE FALSE
  BY <1>3 DEF PopInto, NoLostWakeup
<1>4. ASSUME NEW c \in Consumers, try_pop(c) PROVE FALSE
  BY <1>3, <1>4 DEF try_pop, waitVars
<1>5. ASSUME NEW c \in Consumers, NEW b \in BOOLEAN, StartWait(c, b)
      PROVE  queue_' = <<>>
  BY <1>3, <1>5 DEF StartWait, waitVars
<1>6. ASSUME NEW c \in Consumers, Expire(c) PROVE queue_' = <<>>
  BY <1>6 DEF Expire, NoLostWakeup, TypeOK
<1>7. ASSUME NEW c \in Consumers, SpuriousWakeup(c) PROVE queue_' = <<>>
  BY <1>7 DEF SpuriousWakeup, NoLostWakeup, TypeOK
<1>8. ASSUME NEW c \in Consumers, Recheck(c) PROVE queue_' = <<>>
  <2>1. CASE PopInto(c) /\ call' = [call EXCEPT ![c] = "idle"]
    BY <2>1 DEF PopInto, NoLostWakeup, TypeOK
  <2> QED
    BY <1>8, <2>1 DEF Recheck
<1>9. ASSUME NEW c \in Consumers, Release(c) PROVE queue_' = <<>>
  BY <1>9 DEF Release, waitVars, NoLostWakeup
<1>10. ASSUME NEW c \in Consumers, NEW u \in UUIDs, remove_task_from_queue(u, c)
       PROVE  queue_' = <<>>
  <2>1. call' = call
    BY <1>10 DEF remove_task_from_queue, waitVars
  <2>2. queue_ = <<>>
    BY <2>1 DEF NoLostWakeup
  <2>3. CASE KeepOnly(u)
    <3>1. PICK n \in 0..Len(queue_) : \E pos \in [1..n -> Kept(u)] :
            queue_' = [i \in 1..n |-> queue_[pos[i]]]
      BY <2>3 DEF KeepOnly
    <3>2. n = 0
      BY <2>2, <3>1
    <3> QED
      BY <3>1, <3>2
  <2> QED
    BY <1>10, <2>2, <2>3 DEF remove_task_from_queue
<1>11. CASE UNCHANGED vars
  BY <1>11 DEF vars, NoLostWakeup
<1> QED
  BY <1>1, <1>2, <1>4, <1>5, <1>6, <1>7, <1>8, <1>9, <1>10, <1>11
     DEF Next, wait_and_pop, wait_for_and_pop

\* A consumer that sleeps on the condition variable sleeps beside an empty
\* deque: push notifies and every release re-tests the predicate under mutex_.
THEOREM WakeupsNotLost == Spec => []NoLostWakeup
<1>1. Init => NoLostWakeup
  BY DEF Init, NoLostWakeup
<1> QED
  BY <1>1, TypeCorrect, WakeupStep, PTL DEF Spec

-----------------------------------------------------------------------------
\* Ownership.  UniqueOwner is inductive together with the type invariant.

LEMMA TailFacts ==
    ASSUME NEW P, NEW q \in Seq(P), q # <<>>
    PROVE  /\ Head(q) = q[1] /\ 1 \in DOMAIN q
           /\ \A i \in DOMAIN Tail(q) : i + 1 \in DOMAIN q /\ Tail(q)[i] = q[i + 1]
           /\ \A i \in DOMAIN q : i # 1 => i - 1 \in DOMAIN Tail(q)
           /\ DOMAIN q \subseteq Nat \ {0} /\ DOMAIN Tail(q) \subseteq Nat \ {0}
  OBVIOUS

LEMMA AppendFacts ==
    ASSUME NEW P, NEW q \in Seq(P), NEW x \in P
    PROVE  /\ DOMAIN Append(q, x) = DOMAIN q \cup {Len(q) + 1}
           /\ \A i \in DOMAIN q : Append(q, x)[i] = q[i]
           /\ Append(q, x)[Len(q) + 1] = x
           /\ Len(q) + 1 \notin DOMAIN q
  OBVIOUS

\* A pop moves the first entry from the deque to the consumer and destroys
\* what the consumer held.
LEMMA PopIntoOwner ==
    ASSUME TypeOK, UniqueOwner, NEW c \in Consumers, PopInto(c)
    PROVE  UniqueOwner'
<1> DEFINE h == Head(queue_)
<1>1. /\ queue_ \in Seq(Pointers) /\ queue_ # <<>>
      /\ queue_' = Tail(queue_) /\ fresh' = fresh
      /\ destroyed' = destroyed \cup ({held[c]} \ {NoTask})
      /\ held' = [held EXCEPT ![c] = h]
  BY DEF PopInto, TypeOK
<1>2. /\ h = queue_[1] /\ 1 \in DOMAIN queue_
      /\ \A i \in DOMAIN queue_' : i + 1 \in DOMAIN queue_ /\ queue_'[i] = queue_[i + 1]
      /\ \A i \in DOMAIN queue_ : i # 1 => i - 1 \in DOMAIN queue_'
      /\ DOMAIN queue_ \subseteq Nat \ {0} /\ DOMAIN queue_' \subseteq Nat \ {0}
  BY <1>1, TailFacts
<1>3. \A d \in Consumers : held'[d] = IF d = c THEN h ELSE held[d]
  BY <1>1 DEF TypeOK
<1>4. QueueHasNoDuplicate'
  BY <1>2 DEF QueueHasNoDuplicate, UniqueOwner
<1>5. HeldOnce'
  BY <1>2, <1>3 DEF HeldOnce, OwnersDisjoint, UniqueOwner
<1>6. OwnersDisjoint'
  <2>1. fresh' \cap destroyed' = {}
    BY <1>1 DEF OwnersDisjoint, UniqueOwner
  <2>2. ASSUME NEW i \in DOMAIN queue_', queue_'[i] # NoTask
        PROVE  /\ queue_'[i] \notin fresh' \cup destroyed'
               /\ \A d \in Consumers : held'[d] # queue_'[i]
    <3>1. /\ i + 1 \in DOMAIN queue_ /\ queue_'[i] = queue_[i + 1]
          /\ i + 1 # 1
      BY <1>2, <2>2
    <3>2. h # queue_[i + 1]
      BY <1>2, <2>2, <3>1 DEF QueueHasNoDuplicate, UniqueOwner
    <3> QED
      BY <1>1, <1>3, <2>2, <3>1, <3>2 DEF OwnersDisjoint, UniqueOwner
  <2>3. ASSUME NEW d \in Consumers PROVE held'[d] \notin fresh' \cup destroyed'
    <3>1. CASE d = c
      <4>1. h = NoTask => h \notin fresh \cup destroyed
        BY DEF TypeOK
      <4>2. h # NoTask => h \notin fresh \cup destroyed /\ held[c] # h
        BY <1>2 DEF OwnersDisjoint, UniqueOwner
      <4> QED
        BY <1>1, <1>3, <3>1, <4>1, <4>2
    <3>2. CASE d # c
      BY <1>1, <1>3, <3>2 DEF OwnersDisjoint, HeldOnce, UniqueOwner
    <3> QED
      BY <3>1, <3>2
  <2> QED
    BY <2>1, <2>2, <2>3 DEF OwnersDisjoint
<1>7. NoLeak'
  <2> SUFFICES ASSUME NEW t \in Tasks, t \notin fresh', t \notin destroyed',
                      \A d \in Consumers : held'[d] # t
               PROVE  \E i \in DOMAIN queue_' : queue_'[i] = t
    BY DEF NoLeak
  <2>1. \A d \in Consumers : held[d] # t
    BY <1>1, <1>3
  <2>2. PICK i \in DOMAIN queue_ : queue_[i] = t
    BY <1>1, <2>1 DEF NoLeak, UniqueOwner
  <2>3. i # 1
    BY <1>2, <1>3, <2>2
  <2> QED
    BY <1>2, <2>2, <2>3
<1> QED
  BY <1>4, <1>5, <1>6, <1>7 DEF UniqueOwner

\* A removal moves the last match to the consumer and destroys the others: no
\* object of the same uuid stays in the deque or is lost.
LEMMA RemoveOwner ==
    ASSUME TypeOK, UniqueOwner, NEW c \in Consumers, NEW u \in UUIDs,
           NoTask \notin Entries(queue_), KeepOnly(u), MoveMatches(u, c),
           fresh' = fresh
    PROVE  UniqueOwner'
<1>1. PICK n \in 0..Len(queue_) : \E pos \in [1..n -> Kept(u)] :
        /\ \A i, j \in 1..n : i < j => pos[i] < pos[j]
        /\ \A k \in Kept(u) : \E i \in 1..n : pos[i] = k
        /\ queue_' = [i \in 1..n |-> queue_[pos[i]]]
  BY DEF KeepOnly
<1>2. PICK pos \in [1..n -> Kept(u)] :
        /\ \A i, j \in 1..n : i < j => pos[i] < pos[j]
        /\ \A k \in Kept(u) : \E i \in 1..n : pos[i] = k
        /\ queue_' = [i \in 1..n |-> queue_[pos[i]]]
  BY <1>1
<1>3. /\ n \in Nat /\ DOMAIN queue_' = 1..n /\ DOMAIN queue_ = 1..Len(queue_)
      /\ Len(queue_) \in Nat
      /\ Kept(u) \subseteq DOMAIN queue_
      /\ Matches(u) \subseteq DOMAIN queue_
      /\ \A i \in DOMAIN queue_ : i \in Kept(u) \/ i \in Matches(u)
      /\ \A i \in Kept(u) : i \notin Matches(u)
  BY <1>2 DEF TypeOK, Kept, Matches
<1>4. \A i \in 1..n : pos[i] \in Kept(u) /\ queue_'[i] = queue_[pos[i]]
  BY <1>2
<1>5. \A i \in DOMAIN queue_ : queue_[i] \in Tasks
  BY DEF TypeOK, Entries, Pointers
<1>6. \A i, j \in DOMAIN queue_ : queue_[i] = queue_[j] => i = j
  BY <1>5 DEF QueueHasNoDuplicate, UniqueOwner
<1>7. \A i, j \in 1..n : pos[i] = pos[j] => i = j
  BY <1>2, <1>3
<1>8. QueueHasNoDuplicate'
  <2>1. \A i, j \in 1..n : queue_'[i] = queue_'[j] => i = j
    BY <1>3, <1>4, <1>6, <1>7
  <2> QED
    BY <1>3, <2>1 DEF QueueHasNoDuplicate
<1>9. \A i \in Kept(u) : \E j \in DOMAIN queue_' : queue_'[j] = queue_[i]
  BY <1>2, <1>3, <1>4
<1>10. \A i \in DOMAIN queue_' : \E k \in Kept(u) : queue_'[i] = queue_[k]
  BY <1>3, <1>4
<1>11. CASE Matches(u) = {}
  <2>1. held' = held /\ destroyed' = destroyed
    BY <1>11 DEF MoveMatches
  <2>2. HeldOnce'
    BY <2>1 DEF HeldOnce, UniqueOwner
  <2>3. OwnersDisjoint'
    BY <1>3, <1>10, <2>1 DEF OwnersDisjoint, UniqueOwner
  <2>4. NoLeak'
    BY <1>3, <1>9, <1>11, <2>1 DEF NoLeak, UniqueOwner
  <2> QED
    BY <1>8, <2>2, <2>3, <2>4 DEF UniqueOwner
<1>12. CASE Matches(u) # {}
  <2>1. PICK last \in Matches(u) :
          /\ held' = [held EXCEPT ![c] = queue_[last]]
          /\ destroyed' = destroyed
                \cup ({queue_[i] : i \in Matches(u) \ {last}})
                \cup ({held[c]} \ {NoTask})
    BY <1>12 DEF MoveMatches
  <2> DEFINE h == queue_[last]
  <2>2. \A d \in Consumers : held'[d] = IF d = c THEN h ELSE held[d]
    BY <2>1 DEF TypeOK
  <2>3. /\ last \in DOMAIN queue_ /\ h \in Tasks
        /\ h \notin fresh \cup destroyed
        /\ \A d \in Consumers : held[d] # h
    BY <1>3, <1>5 DEF OwnersDisjoint, UniqueOwner
  <2>4. HeldOnce'
    BY <2>2, <2>3 DEF HeldOnce, UniqueOwner
  <2>5. OwnersDisjoint'
    <3>1. fresh' \cap destroyed' = {}
      BY <1>3, <1>5, <2>1 DEF OwnersDisjoint, UniqueOwner
    <3>2. ASSUME NEW k \in Kept(u)
          PROVE  /\ queue_[k] \notin fresh' \cup destroyed'
                 /\ \A d \in Consumers : held'[d] # queue_[k]
      <4>1. \A i \in Matches(u) : queue_[i] # queue_[k]
        BY <1>3, <1>6
      <4>2. /\ queue_[k] \notin fresh \cup destroyed
            /\ \A d \in Consumers : held[d] # queue_[k]
        BY <1>3, <1>5 DEF OwnersDisjoint, UniqueOwner
      <4> QED
        BY <2>1, <2>2, <4>1, <4>2
    <3>3. ASSUME NEW d \in Consumers PROVE held'[d] \notin fresh' \cup destroyed'
      <4>1. CASE d = c
        <5>1. \A i \in Matches(u) \ {last} : queue_[i] # h
          BY <1>3, <1>6
        <5> QED
          BY <2>1, <2>2, <2>3, <4>1, <5>1
      <4>2. CASE d # c
        <5>1. \A i \in Matches(u) : queue_[i] # held[d]
          BY <1>3, <1>5 DEF OwnersDisjoint, UniqueOwner
        <5>2. held[d] = NoTask \/ held[d] # held[c]
          BY <4>2 DEF HeldOnce, UniqueOwner
        <5>3. held[d] \notin fresh \cup destroyed
          BY DEF OwnersDisjoint, UniqueOwner
        <5> QED
          BY <2>1, <2>2, <4>2, <5>1, <5>2, <5>3
      <4> QED
        BY <4>1, <4>2
    <3> QED
      BY <1>10, <3>1, <3>2, <3>3 DEF OwnersDisjoint
  <2>6. NoLeak'
    <3> SUFFICES ASSUME NEW t \in Tasks, t \notin fresh', t \notin destroyed',
                        \A d \in Consumers : held'[d] # t
                 PROVE  \E i \in DOMAIN queue_' : queue_'[i] = t
      BY DEF NoLeak
    <3>1. \A d \in Consumers : held[d] # t
      BY <2>1, <2>2
    <3>2. PICK i \in DOMAIN queue_ : queue_[i] = t
      BY <2>1, <3>1 DEF NoLeak, UniqueOwner
    <3>3. i \notin Matches(u)
      BY <2>1, <2>2, <3>2
    <3> QED
      BY <1>3, <1>9, <3>2, <3>3
  <2> QED
    BY <1>8, <2>4, <2>5, <2>6 DEF UniqueOwner
<1> QED
  BY <1>11, <1>12

LEMMA PushOwner ==
    ASSUME TypeOK, UniqueOwner, NEW t \in Pointers, push(t)
    PROVE  UniqueOwner'
<1>1. /\ queue_ \in Seq(Pointers) /\ queue_' = Append(queue_, t)
      /\ fresh' = fresh \ {t} /\ t \in fresh \cup {NoTask}
      /\ held' = held /\ destroyed' = destroyed
  BY DEF push, TypeOK
<1> DEFINE m == Len(queue_) + 1
<1>2. /\ DOMAIN queue_' = DOMAIN queue_ \cup {m} /\ m \notin DOMAIN queue_
      /\ \A i \in DOMAIN queue_ : queue_'[i] = queue_[i]
      /\ queue_'[m] = t
  BY <1>1, AppendFacts
<1> HIDE DEF m
<1>3. t # NoTask => /\ t \notin destroyed
                    /\ \A i \in DOMAIN queue_ : queue_[i] # t
                    /\ \A d \in Consumers : held[d] # t
  BY <1>1 DEF OwnersDisjoint, UniqueOwner
<1>4. QueueHasNoDuplicate'
  BY <1>2, <1>3 DEF QueueHasNoDuplicate, UniqueOwner
<1>5. HeldOnce'
  BY <1>1 DEF HeldOnce, UniqueOwner
<1>6. OwnersDisjoint'
  BY <1>1, <1>2, <1>3 DEF OwnersDisjoint, UniqueOwner
<1>7. NoLeak'
  BY <1>1, <1>2 DEF NoLeak, UniqueOwner
<1> QED
  BY <1>4, <1>5, <1>6, <1>7 DEF UniqueOwner

LEMMA OwnerStep == TypeOK /\ UniqueOwner /\ [Next]_vars => UniqueOwner'
<1> SUFFICES ASSUME TypeOK, UniqueOwner, [Next]_vars PROVE UniqueOwner'
  OBVIOUS
<1> USE DEF UniqueOwner, QueueHasNoDuplicate, HeldOnce, OwnersDisjoint, NoLeak
<1>1. ASSUME UNCHANGED <<queue_, held, fresh, destroyed>> PROVE UniqueOwner'
  BY <1>1
<1>2. CASE clear
  <2>1. /\ queue_' = <<>> /\ held' = held /\ fresh' = fresh
        /\ destroyed' = destroyed \cup (Entries(queue_) \ {NoTask})
    BY <1>2 DEF clear
  <2>2. \A t \in Tasks : t \in Entries(queue_) <=>
            \E i \in DOMAIN queue_ : queue_[i] = t
    BY DEF Entries
  <2>3. DOMAIN queue_' = {}
    BY <2>1
  <2>4. fresh' \cap destroyed' = {}
    BY <2>1 DEF Entries
  <2>5. \A c \in Consumers : held'[c] \notin fresh' \cup destroyed'
    BY <2>1 DEF Entries
  <2>6. NoLeak'
    BY <2>1, <2>2
  <2> QED
    BY <2>1, <2>3, <2>4, <2>5, <2>6
<1>3. ASSUME NEW c \in Consumers, NEW b \in BOOLEAN, StartWait(c, b)
      PROVE  UniqueOwner'
  BY <1>1, <1>3, PopIntoOwner DEF StartWait
<1>4. ASSUME NEW c \in Consumers, Recheck(c) PROVE UniqueOwner'
  BY <1>1, <1>4, PopIntoOwner DEF Recheck
<1>5. ASSUME NEW c \in Consumers, try_pop(c) PROVE UniqueOwner'
  BY <1>5, PopIntoOwner DEF try_pop
<1>6. ASSUME NEW c \in Consumers, Expire(c) \/ SpuriousWakeup(c) PROVE UniqueOwner'
  BY <1>1, <1>6 DEF Expire, SpuriousWakeup
<1>7. ASSUME NEW c \in Consumers, Release(c) PROVE UniqueOwner'
  <2>1. /\ queue_' = queue_ /\ fresh' = fresh /\ held[c] # NoTask
        /\ destroyed' = destroyed \cup {held[c]}
        /\ \A d \in Consumers : held'[d] = IF d = c THEN NoTask ELSE held[d]
        /\ NoTask \notin fresh \cup destroyed
    BY <1>7 DEF Release, TypeOK
  <2>2. OwnersDisjoint'
    BY <2>1
  <2>3. NoLeak'
    BY <2>1
  <2> QED
    BY <2>1, <2>2, <2>3
<1>8. ASSUME NEW c \in Consumers, NEW u \in UUIDs, remove_task_from_queue(u, c)
      PROVE  UniqueOwner'
  BY <1>1, <1>8, RemoveOwner DEF remove_task_from_queue
<1>9. CASE UNCHANGED vars
  BY <1>1, <1>9 DEF vars
<1> HIDE DEF UniqueOwner
<1> QED
  BY <1>2, <1>3, <1>4, <1>5, <1>6, <1>7, <1>8, <1>9, PushOwner
     DEF Next, wait_and_pop, wait_for_and_pop

\* No interleaving of pushes, pops, removals, clears and releases lets two
\* unique_ptrs own one task, or a task disappear without being destroyed.
THEOREM OwnersUnique == Spec => []UniqueOwner
<1>1. Init => UniqueOwner
  BY DEF Init, UniqueOwner, QueueHasNoDuplicate, HeldOnce, OwnersDisjoint, NoLeak
<1> QED
  BY <1>1, TypeCorrect, OwnerStep, PTL DEF Spec

-----------------------------------------------------------------------------
(* The queue implements TaskFifo.                                          *)

\* The tasks that have arrived are those that left their client.
ArrivalsExact ==
    /\ arrived \in Seq(Tasks)
    /\ popped \subseteq Tasks
    /\ \A i, j \in DOMAIN arrived : arrived[i] = arrived[j] => i = j
    /\ \A t \in Tasks : t \in fresh <=> \A i \in DOMAIN arrived : arrived[i] # t

\* The deque is ordered as the tasks in it arrived.
OrderKept ==
    \A i, j \in DOMAIN queue_ : \A a, b \in DOMAIN arrived :
        i < j /\ arrived[a] = queue_[i] /\ arrived[b] = queue_[j] => a < b

\* A task that was popped is neither with its client nor in the deque.
PoppedGone ==
    \A t \in popped : t \notin fresh /\ \A i \in DOMAIN queue_ : queue_[i] # t

\* The inductive invariant; TypeOK and UniqueOwner are the queue's.
HInv == TypeOK /\ UniqueOwner /\ ArrivalsExact /\ OrderKept /\ PoppedGone

-----------------------------------------------------------------------------
\* Without the history the steps are those of the queue.
LEMMA HistoryAdded == [HNext]_<<vars, histVars>> => [Next]_vars
  BY DEF HNext, HPush, HPop, HOther, Pop, Next, vars, histVars

\* The position of a task in a sequence without duplicates.
LEMMA PositionUnique ==
    ASSUME NEW s, \A i, j \in DOMAIN s : s[i] = s[j] => i = j, NEW k \in DOMAIN s
    PROVE  (CHOOSE i \in DOMAIN s : s[i] = s[k]) = k
  OBVIOUS

LEMMA TicketIs ==
    ASSUME ArrivalsExact, NEW i \in DOMAIN arrived
    PROVE  TicketOf(arrived[i]) = i
<1>1. arrived[i] \in Entries(arrived)
  BY DEF Entries
<1>2. (CHOOSE k \in DOMAIN arrived : arrived[k] = arrived[i]) = i
  BY PositionUnique DEF ArrivalsExact
<1> QED BY <1>1, <1>2 DEF TicketOf

LEMMA TicketIsNext ==
    ASSUME ArrivalsExact', NEW i \in DOMAIN arrived', NEW CONSTANT t, arrived'[i] = t
    PROVE  TicketOf(t)' = i
<1>1. t \in Entries(arrived)'
  BY DEF Entries
<1>2. (CHOOSE k \in DOMAIN arrived' : arrived'[k] = arrived'[i]) = i
  BY PositionUnique DEF ArrivalsExact
<1> QED BY <1>1, <1>2 DEF TicketOf

\* A pop either leaves the deque alone or takes its head into held[c].
LEMMA PopCases ==
    ASSUME NEW c \in Consumers, HPop(c), TypeOK
    PROVE  \/ UNCHANGED <<queue_, fresh, arrived, popped>>
           \/ /\ queue_ # <<>> /\ queue_' = Tail(queue_)
              /\ popped' = popped \cup ({Head(queue_)} \ {NoTask})
              /\ UNCHANGED <<fresh, arrived>>
<1>1. CASE PopInto(c)
  <2>1. queue_ # <<>> /\ queue_ \in Seq(Pointers) /\ held'[c] = Head(queue_)
    BY <1>1 DEF PopInto, TypeOK
  <2>2. Tail(queue_) # queue_
    BY <2>1
  <2> QED BY <1>1, <2>1, <2>2 DEF PopInto, HPop
<1>2. CASE UNCHANGED <<queue_, fresh>>
  BY <1>2 DEF HPop
<1> QED BY <1>1, <1>2 DEF HPop, Pop, try_pop, wait_and_pop, wait_for_and_pop,
           StartWait, Recheck

\* What remove_task_from_queue leaves: entries of the deque in their order,
\* and every one that does not match.
LEMMA KeepOnlyFacts ==
    ASSUME TypeOK, NEW u \in UUIDs, KeepOnly(u)
    PROVE  \E pos \in [DOMAIN queue_' -> Kept(u)] :
              /\ \A i \in DOMAIN queue_' : queue_'[i] = queue_[pos[i]]
              /\ \A i, j \in DOMAIN queue_' : i < j => pos[i] < pos[j]
              /\ \A k \in Kept(u) : \E i \in DOMAIN queue_' : pos[i] = k
<1>1. PICK n \in 0..Len(queue_) : \E pos \in [1..n -> Kept(u)] :
        /\ \A i, j \in 1..n : i < j => pos[i] < pos[j]
        /\ \A k \in Kept(u) : \E i \in 1..n : pos[i] = k
        /\ queue_' = [i \in 1..n |-> queue_[pos[i]]]
  BY DEF KeepOnly
<1>2. PICK pos \in [1..n -> Kept(u)] :
        /\ \A i, j \in 1..n : i < j => pos[i] < pos[j]
        /\ \A k \in Kept(u) : \E i \in 1..n : pos[i] = k
        /\ queue_' = [i \in 1..n |-> queue_[pos[i]]]
  BY <1>1
<1>3. DOMAIN queue_' = 1..n
  BY <1>2
<1> QED BY <1>2, <1>3

-----------------------------------------------------------------------------
(* The invariant is inductive.                                             *)

\* A step after which the deque holds some of its entries, in their order.
LEMMA SubsequenceKeeps ==
    ASSUME HInv, UNCHANGED <<fresh, arrived, popped>>,
           NEW pos \in [DOMAIN queue_' -> DOMAIN queue_],
           \A i \in DOMAIN queue_' : queue_'[i] = queue_[pos[i]],
           \A i, j \in DOMAIN queue_' : i < j => pos[i] < pos[j]
    PROVE  ArrivalsExact' /\ OrderKept' /\ PoppedGone'
<1>1. ArrivalsExact'
  BY DEF HInv, ArrivalsExact
<1>2. OrderKept'
  BY DEF HInv, OrderKept
<1>3. PoppedGone'
  BY DEF HInv, PoppedGone
<1> QED BY <1>1, <1>2, <1>3

LEMMA HPushKeeps ==
    ASSUME HInv, NEW t \in Pointers, HPush(t)
    PROVE  ArrivalsExact' /\ OrderKept' /\ PoppedGone'
<1>1. /\ queue_ \in Seq(Pointers) /\ queue_' = Append(queue_, t)
      /\ fresh' = fresh \ {t} /\ popped' = popped /\ t \in fresh \cup {NoTask}
      /\ arrived \in Seq(Tasks) /\ fresh \subseteq Tasks
  BY DEF HPush, push, HInv, TypeOK, ArrivalsExact
<1>2. CASE t = NoTask
  <2>1. arrived' = arrived /\ fresh' = fresh
    BY <1>1, <1>2, NoTaskAssumption DEF HPush
  <2>2. ArrivalsExact'
    BY <1>1, <2>1 DEF HInv, ArrivalsExact
  <2>3. \A a \in DOMAIN arrived : arrived[a] # NoTask
    BY <1>1, NoTaskAssumption
  <2>4. OrderKept'
    BY <1>1, <1>2, <2>1, <2>3 DEF HInv, OrderKept
  <2>5. NoTask \notin popped
    BY NoTaskAssumption DEF HInv, ArrivalsExact
  <2>6. PoppedGone'
    BY <1>1, <1>2, <2>1, <2>5 DEF HInv, PoppedGone
  <2> QED BY <2>2, <2>4, <2>6
<1>3. CASE t # NoTask
  <2>1. t \in fresh /\ t \in Tasks /\ arrived' = Append(arrived, t)
    BY <1>1, <1>3 DEF HPush
  <2>2. \A a \in DOMAIN arrived : arrived[a] # t
    BY <2>1 DEF HInv, ArrivalsExact
  <2>3. /\ arrived' \in Seq(Tasks) /\ Len(arrived') = Len(arrived) + 1
        /\ arrived'[Len(arrived) + 1] = t
        /\ \A a \in DOMAIN arrived : arrived'[a] = arrived[a]
        /\ DOMAIN arrived = 1..Len(arrived)
        /\ DOMAIN arrived' = 1..(Len(arrived) + 1)
        /\ Len(arrived) \in Nat
    BY <1>1, <2>1
  <2>4. \A i, j \in DOMAIN arrived' : arrived'[i] = arrived'[j] => i = j
    BY <2>2, <2>3 DEF HInv, ArrivalsExact
  <2>5. ASSUME NEW x \in Tasks
        PROVE  x \in fresh' <=> \A i \in DOMAIN arrived' : arrived'[i] # x
    <3>1. x \in fresh <=> \A i \in DOMAIN arrived : arrived[i] # x
      BY DEF HInv, ArrivalsExact
    <3>2. CASE x = t
      BY <1>1, <2>3, <3>2
    <3>3. CASE x # t
      <4>1. \A i \in DOMAIN arrived' : i \in DOMAIN arrived \/ arrived'[i] = t
        BY <2>3
      <4>2. DOMAIN arrived \subseteq DOMAIN arrived'
        BY <2>3
      <4> QED BY <1>1, <2>3, <3>1, <3>3, <4>1, <4>2
    <3> QED BY <3>2, <3>3
  <2>6. ArrivalsExact'
    BY <1>1, <2>3, <2>4, <2>5 DEF HInv, ArrivalsExact
  <2>7. \A i \in DOMAIN queue_ : queue_[i] # t
    BY <1>3, <2>1 DEF HInv, UniqueOwner, OwnersDisjoint
  <2>8. /\ DOMAIN queue_ = 1..Len(queue_) /\ DOMAIN queue_' = 1..(Len(queue_) + 1)
        /\ \A i \in DOMAIN queue_ : queue_'[i] = queue_[i]
        /\ queue_'[Len(queue_) + 1] = t /\ Len(queue_) \in Nat
    BY <1>1
  <2>9. OrderKept'
    <3>1. SUFFICES ASSUME NEW i \in DOMAIN queue_', NEW j \in DOMAIN queue_', i < j,
                          NEW a \in DOMAIN arrived', NEW b \in DOMAIN arrived',
                          arrived'[a] = queue_'[i], arrived'[b] = queue_'[j]
                   PROVE  a < b
      BY DEF OrderKept
    <3>2. i \in DOMAIN queue_ /\ queue_'[i] = queue_[i] /\ queue_[i] # t
      BY <2>7, <2>8, <3>1
    <3>3. a \in DOMAIN arrived /\ arrived[a] = queue_[i]
      BY <2>3, <3>1, <3>2
    <3>4. CASE j \in DOMAIN queue_
      <4>1. b \in DOMAIN arrived /\ arrived[b] = queue_[j]
        BY <2>3, <2>7, <2>8, <3>1, <3>4
      <4> QED BY <3>1, <3>2, <3>3, <3>4, <4>1 DEF HInv, OrderKept
    <3>5. CASE j \notin DOMAIN queue_
      <4>1. queue_'[j] = t
        BY <2>8, <3>1, <3>5
      <4>2. b \notin DOMAIN arrived
        BY <2>2, <2>3, <3>1, <4>1
      <4> QED BY <2>3, <3>1, <3>3, <4>2
    <3> QED BY <3>4, <3>5
  <2>10. PoppedGone'
    BY <1>1, <2>1, <2>8 DEF HInv, PoppedGone
  <2> QED BY <2>6, <2>9, <2>10
<1> QED BY <1>2, <1>3

LEMMA HPopKeeps ==
    ASSUME HInv, NEW c \in Consumers, HPop(c)
    PROVE  ArrivalsExact' /\ OrderKept' /\ PoppedGone'
<1>1. TypeOK
  BY DEF HInv
<1>2. CASE UNCHANGED <<queue_, fresh, arrived, popped>>
  BY <1>2 DEF HInv, ArrivalsExact, OrderKept, PoppedGone
<1>3. CASE /\ queue_ # <<>> /\ queue_' = Tail(queue_)
           /\ popped' = popped \cup ({Head(queue_)} \ {NoTask})
           /\ UNCHANGED <<fresh, arrived>>
  <2>1. queue_ \in Seq(Pointers)
    BY <1>1 DEF TypeOK
  <2>2. /\ DOMAIN queue_ = 1..Len(queue_) /\ DOMAIN queue_' = 1..(Len(queue_) - 1)
        /\ \A i \in DOMAIN queue_' : queue_'[i] = queue_[i + 1]
        /\ Head(queue_) = queue_[1] /\ Len(queue_) \in Nat \ {0}
    BY <1>3, <2>1
  <2>3. ArrivalsExact'
    BY <1>3, <2>1, <2>2 DEF HInv, ArrivalsExact, Pointers
  <2>4. OrderKept'
    <3>1. \A i \in DOMAIN queue_' : i + 1 \in DOMAIN queue_
      BY <2>2
    <3> QED BY <1>3, <2>2, <3>1 DEF HInv, OrderKept
  <2>5. PoppedGone'
    <3>1. SUFFICES ASSUME NEW t \in popped'
                   PROVE  t \notin fresh /\ \A i \in DOMAIN queue_' : queue_'[i] # t
      BY <1>3 DEF PoppedGone
    <3>2. CASE t \in popped
      BY <2>2, <3>2 DEF HInv, PoppedGone
    <3>3. CASE t = queue_[1] /\ t # NoTask
      <4>1. t \notin fresh
        BY <2>2, <3>3 DEF HInv, UniqueOwner, OwnersDisjoint
      <4>2. \A i \in DOMAIN queue_ : i # 1 => queue_[i] # t
        BY <2>2, <3>3 DEF HInv, UniqueOwner, QueueHasNoDuplicate
      <4> QED BY <2>2, <4>1, <4>2
    <3> QED BY <1>3, <2>2, <3>1, <3>2, <3>3
  <2> QED BY <2>3, <2>4, <2>5
<1> QED BY <1>1, <1>2, <1>3, PopCases

\* The other steps: the deque is unchanged, emptied, or loses the matches.
LEMMA OthersKeep ==
    ASSUME HInv, \/ clear /\ UNCHANGED histVars
                 \/ \E c \in Consumers : HOther(c)
                 \/ UNCHANGED <<vars, histVars>>
    PROVE  ArrivalsExact' /\ OrderKept' /\ PoppedGone'
<1>1. UNCHANGED <<fresh, arrived, popped>>
  BY DEF clear, HOther, Expire, SpuriousWakeup, Release, remove_task_from_queue,
     vars, histVars
<1>2. CASE queue_' = queue_
  BY <1>1, <1>2 DEF HInv, ArrivalsExact, OrderKept, PoppedGone
<1>3. CASE queue_' = <<>>
  BY <1>1, <1>3 DEF HInv, ArrivalsExact, OrderKept, PoppedGone
<1>4. ASSUME NEW u \in UUIDs, KeepOnly(u)
      PROVE  ArrivalsExact' /\ OrderKept' /\ PoppedGone'
  <2>1. PICK pos \in [DOMAIN queue_' -> Kept(u)] :
              /\ \A i \in DOMAIN queue_' : queue_'[i] = queue_[pos[i]]
              /\ \A i, j \in DOMAIN queue_' : i < j => pos[i] < pos[j]
    BY <1>4, KeepOnlyFacts DEF HInv
  <2>2. pos \in [DOMAIN queue_' -> DOMAIN queue_]
    BY <2>1 DEF Kept
  <2> QED BY <1>1, <2>1, <2>2, SubsequenceKeeps
<1> QED BY <1>2, <1>3, <1>4 DEF clear, HOther, Expire, SpuriousWakeup, Release,
           remove_task_from_queue, vars

\* The history agrees with the deque in every behaviour.
THEOREM HistoryInvariant == HSpec => []HInv
<1>1. HInit => HInv
  <2>1. HInit => TypeOK /\ UniqueOwner
    BY NoTaskAssumption DEF HInit, Init, TypeOK, Pointers, UniqueOwner,
       QueueHasNoDuplicate, HeldOnce, OwnersDisjoint, NoLeak
  <2>2. HInit => ArrivalsExact /\ OrderKept /\ PoppedGone
    BY DEF HInit, Init, ArrivalsExact, OrderKept, PoppedGone
  <2> QED BY <2>1, <2>2 DEF HInv
<1>2. HInv /\ [HNext]_<<vars, histVars>> => HInv'
  <2>1. SUFFICES ASSUME HInv, [HNext]_<<vars, histVars>> PROVE HInv'
    OBVIOUS
  <2>2. TypeOK' /\ UniqueOwner'
    BY <2>1, HistoryAdded, TypeStep, OwnerStep DEF HInv
  <2>3. ArrivalsExact' /\ OrderKept' /\ PoppedGone'
    BY <2>1, HPushKeeps, HPopKeeps, OthersKeep DEF HNext
  <2> QED BY <2>2, <2>3 DEF HInv
<1> QED BY <1>1, <1>2, PTL DEF HSpec

-----------------------------------------------------------------------------
(* Every step is a step of the abstract queue or stutters.                 *)

\* A task that has arrived has its position as ticket, the others have 0.
LEMMA Tickets ==
    ASSUME ArrivalsExact, NEW CONSTANT t \in Tasks
    PROVE  /\ t \in fresh => TicketOf(t) = 0
           /\ t \notin fresh => \E i \in DOMAIN arrived : arrived[i] = t /\ TicketOf(t) = i
<1>1. CASE t \in fresh
  BY <1>1 DEF ArrivalsExact, TicketOf, Entries
<1>2. CASE t \notin fresh
  <2>1. PICK i \in DOMAIN arrived : arrived[i] = t
    BY <1>2 DEF ArrivalsExact
  <2> QED BY <1>2, <2>1, TicketIs
<1> QED BY <1>1, <1>2

\* A step that keeps the tasks of the deque maps to a stutter.
LEMMA Stutter ==
    ASSUME UNCHANGED <<fresh, arrived, popped>>,
           \A t \in Tasks : t \in Entries(queue_) <=> t \in Entries(queue_)'
    PROVE  UNCHANGED <<[t \in Tasks |-> StageOf(t)], [t \in Tasks |-> TicketOf(t)]>>
<1>1. ASSUME NEW t \in Tasks PROVE StageOf(t)' = StageOf(t) /\ TicketOf(t)' = TicketOf(t)
  BY DEF StageOf, TicketOf, Entries
<1> QED BY <1>1

\* A task pushed by its client arrives with the next number.
LEMMA PushArrives ==
    ASSUME HInv, ArrivalsExact', NEW CONSTANT t \in Tasks, HPush(t)
    PROVE  Fifo!Arrive(t)
<1>1. /\ t \in fresh /\ fresh' = fresh \ {t} /\ queue_' = Append(queue_, t)
      /\ arrived' = Append(arrived, t) /\ popped' = popped
      /\ queue_ \in Seq(Pointers) /\ arrived \in Seq(Tasks)
  BY NoTaskAssumption DEF HPush, push, HInv, TypeOK, ArrivalsExact
<1>2. \A x \in Tasks : x \in Entries(queue_)' <=> x = t \/ x \in Entries(queue_)
  <2>1. /\ DOMAIN queue_ \subseteq DOMAIN queue_' /\ Len(queue_) + 1 \in DOMAIN queue_'
        /\ \A i \in DOMAIN queue_' : i \in DOMAIN queue_ \/ queue_'[i] = t
        /\ \A i \in DOMAIN queue_ : queue_'[i] = queue_[i]
        /\ queue_'[Len(queue_) + 1] = t
    BY <1>1 DEF Pointers
  <2> QED BY <2>1 DEF Entries
<1>3. ASSUME NEW x \in Tasks
      PROVE  StageOf(x)' = IF x = t THEN "pending" ELSE StageOf(x)
  BY <1>1, <1>2 DEF StageOf
<1>4. StageOf(t) = "new"
  BY <1>1 DEF StageOf
<1>5. /\ Len(arrived) \in Nat /\ DOMAIN arrived = 1..Len(arrived)
      /\ DOMAIN arrived' = 1..(Len(arrived) + 1)
      /\ arrived'[Len(arrived) + 1] = t
      /\ \A i \in DOMAIN arrived : arrived'[i] = arrived[i] /\ i \in DOMAIN arrived'
  BY <1>1
<1>6. TicketOf(t)' = Len(arrived) + 1
  BY <1>5, TicketIsNext
<1>7. ASSUME NEW x \in Tasks, x # t PROVE TicketOf(x)' = TicketOf(x)
  <2>1. CASE x \in fresh
    <3>1. x \notin Entries(arrived)'
      BY <1>1, <1>7, <2>1 DEF ArrivalsExact, Entries
    <3>2. TicketOf(x) = 0
      BY <2>1, Tickets DEF HInv
    <3> QED BY <3>1, <3>2 DEF TicketOf
  <2>2. CASE x \notin fresh
    <3>1. PICK i \in DOMAIN arrived : arrived[i] = x /\ TicketOf(x) = i
      BY <2>2, Tickets DEF HInv
    <3>2. i \in DOMAIN arrived' /\ arrived'[i] = x
      BY <1>5, <3>1
    <3> QED BY <3>1, <3>2, TicketIsNext
  <2> QED BY <2>1, <2>2
<1>8. \A x \in Tasks : TicketOf(x) < Len(arrived) + 1
  BY <1>5, Tickets DEF HInv
<1>9. \E x \in Tasks : Len(arrived) + 1 = 1 + TicketOf(x)
  <2>1. CASE Len(arrived) = 0
    BY <1>1, <2>1, Tickets DEF HInv
  <2>2. CASE Len(arrived) # 0
    <3>1. Len(arrived) \in DOMAIN arrived /\ arrived[Len(arrived)] \in Tasks
      BY <1>1, <1>5, <2>2
    <3>2. TicketOf(arrived[Len(arrived)]) = Len(arrived)
      BY <3>1, TicketIs DEF HInv
    <3> QED BY <1>5, <3>1, <3>2
  <2> QED BY <2>1, <2>2
<1>10. [x \in Tasks |-> StageOf(x)]' =
          [[x \in Tasks |-> StageOf(x)] EXCEPT ![t] = "pending"]
  BY <1>3
<1>11. [x \in Tasks |-> TicketOf(x)]' =
          [[x \in Tasks |-> TicketOf(x)] EXCEPT ![t] = Len(arrived) + 1]
  BY <1>6, <1>7
<1>12. Len(arrived) + 1 \in {1 + [x \in Tasks |-> TicketOf(x)][y] : y \in Tasks}
  BY <1>9
<1>13. \A y \in Tasks : [x \in Tasks |-> TicketOf(x)][y] < Len(arrived) + 1
  BY <1>8
<1>14. [x \in Tasks |-> StageOf(x)][t] = "new"
  BY <1>4
<1> QED BY <1>10, <1>11, <1>12, <1>13, <1>14 DEF Fifo!Arrive

\* A pop delivers the task that has waited longest.
LEMMA PopDelivers ==
    ASSUME HInv, NEW CONSTANT t \in Tasks, queue_ # <<>>, Head(queue_) = t,
           queue_' = Tail(queue_), popped' = popped \cup {t},
           UNCHANGED <<fresh, arrived>>
    PROVE  Fifo!Deliver(t)
<1>1. /\ queue_ \in Seq(Pointers) /\ queue_[1] = t /\ 1 \in DOMAIN queue_
      /\ DOMAIN queue_ = 1..Len(queue_) /\ DOMAIN queue_' = 1..(Len(queue_) - 1)
      /\ \A i \in DOMAIN queue_' : queue_'[i] = queue_[i + 1] /\ i + 1 \in DOMAIN queue_
      /\ \A i \in DOMAIN queue_ : i # 1 => i - 1 \in DOMAIN queue_' /\ queue_'[i - 1] = queue_[i]
  BY DEF HInv, TypeOK
<1>2. t # NoTask
  BY NoTaskAssumption
<1>3. t \notin fresh /\ t \in Entries(queue_) /\ t \notin Entries(queue_)'
  <2>1. t \notin fresh
    BY <1>1, <1>2 DEF HInv, UniqueOwner, OwnersDisjoint
  <2>2. \A i \in DOMAIN queue_ : queue_[i] = t => i = 1
    BY <1>1, <1>2 DEF HInv, UniqueOwner, QueueHasNoDuplicate
  <2>3. \A i \in DOMAIN queue_' : queue_'[i] # t
    BY <1>1, <2>2
  <2> QED BY <1>1, <2>1, <2>3 DEF Entries
<1>4. ASSUME NEW x \in Tasks, x # t
      PROVE  x \in Entries(queue_)' <=> x \in Entries(queue_)
  <2>1. ASSUME x \in Entries(queue_)' PROVE x \in Entries(queue_)
    <3>1. PICK i \in DOMAIN queue_' : x = queue_'[i]
      BY <2>1 DEF Entries
    <3> QED BY <1>1, <3>1 DEF Entries
  <2>2. ASSUME x \in Entries(queue_) PROVE x \in Entries(queue_)'
    <3>1. PICK i \in DOMAIN queue_ : x = queue_[i]
      BY <2>2 DEF Entries
    <3>2. i # 1
      BY <1>1, <1>4, <3>1
    <3> QED BY <1>1, <3>1, <3>2 DEF Entries
  <2> QED BY <2>1, <2>2
<1>5. ASSUME NEW x \in Tasks
      PROVE  StageOf(x)' = IF x = t THEN "delivered" ELSE StageOf(x)
  BY <1>3, <1>4 DEF StageOf
<1>6. ASSUME NEW x \in Tasks PROVE TicketOf(x)' = TicketOf(x)
  BY DEF TicketOf, Entries
<1>7. StageOf(t) = "pending"
  BY <1>3 DEF StageOf
<1>8. ASSUME NEW x \in Tasks, StageOf(x) = "pending" PROVE TicketOf(t) <= TicketOf(x)
  <2>1. x \notin fresh /\ x \in Entries(queue_)
    BY <1>8 DEF StageOf
  <2>2. PICK j \in DOMAIN queue_ : queue_[j] = x
    BY <2>1 DEF Entries
  <2>3. PICK b \in DOMAIN arrived : arrived[b] = x /\ TicketOf(x) = b
    BY <2>1, Tickets DEF HInv
  <2>4. PICK a \in DOMAIN arrived : arrived[a] = t /\ TicketOf(t) = a
    BY <1>3, Tickets DEF HInv
  <2>5. a \in Nat /\ b \in Nat
    BY <2>3, <2>4 DEF HInv, ArrivalsExact
  <2>6. CASE j = 1
    BY <1>1, <2>2, <2>3, <2>4, <2>5, <2>6
  <2>7. CASE j # 1
    <3>1. 1 < j
      BY <1>1, <2>2, <2>7
    <3>2. a < b
      BY <1>1, <2>2, <2>3, <2>4, <3>1 DEF HInv, OrderKept
    <3> QED BY <2>3, <2>4, <2>5, <3>2
  <2> QED BY <2>6, <2>7
<1>9. [x \in Tasks |-> StageOf(x)]' =
          [[x \in Tasks |-> StageOf(x)] EXCEPT ![t] = "delivered"]
  BY <1>5
<1>10. [x \in Tasks |-> TicketOf(x)]' = [x \in Tasks |-> TicketOf(x)]
  BY <1>6
<1> QED BY <1>7, <1>8, <1>9, <1>10 DEF Fifo!Deliver, Fifo!Pending

\* Tasks that leave the deque without a pop are withdrawn.
LEMMA RemovalWithdraws ==
    ASSUME HInv, UNCHANGED <<fresh, arrived, popped>>,
           \A x \in Tasks : x \in Entries(queue_)' => x \in Entries(queue_)
    PROVE  \E S \in SUBSET Tasks : Fifo!Withdraw(S)
<1> DEFINE S == {x \in Tasks : x \in Entries(queue_) /\ x \notin Entries(queue_)'}
<1>1. \A x \in Tasks : x \in Entries(queue_) => x \notin fresh /\ x \notin popped
  BY NoTaskAssumption
  DEF HInv, UniqueOwner, OwnersDisjoint, PoppedGone, Entries
<1>2. ASSUME NEW x \in Tasks
      PROVE  StageOf(x)' = IF x \in S THEN "withdrawn" ELSE StageOf(x)
  BY <1>1 DEF StageOf
<1>3. ASSUME NEW x \in S PROVE StageOf(x) = "pending"
  BY <1>1 DEF StageOf
<1>4. ASSUME NEW x \in Tasks PROVE TicketOf(x)' = TicketOf(x)
  BY DEF TicketOf, Entries
<1> HIDE DEF S
<1>5. S \in SUBSET Tasks
  BY DEF S
<1>6. Fifo!Withdraw(S)
  <2>1. [x \in Tasks |-> StageOf(x)]' =
          [x \in Tasks |-> IF x \in S THEN "withdrawn" ELSE [y \in Tasks |-> StageOf(y)][x]]
    BY <1>2
  <2>2. [x \in Tasks |-> TicketOf(x)]' = [x \in Tasks |-> TicketOf(x)]
    BY <1>4
  <2>3. S \subseteq {x \in Tasks : [y \in Tasks |-> StageOf(y)][x] = "pending"}
    BY <1>3, <1>5
  <2> QED BY <2>1, <2>2, <2>3 DEF Fifo!Withdraw, Fifo!Pending
<1> QED BY <1>5, <1>6

LEMMA StepRefines ==
    ASSUME HInv, HInv', [HNext]_<<vars, histVars>>
    PROVE  [Fifo!FifoNext]_<<[t \in Tasks |-> StageOf(t)], [t \in Tasks |-> TicketOf(t)]>>
<1>1. ASSUME NEW t \in Tasks, HPush(t) PROVE Fifo!FifoNext
  BY <1>1, PushArrives DEF HInv, Fifo!FifoNext
<1>2. ASSUME HPush(NoTask)
      PROVE  UNCHANGED <<[t \in Tasks |-> StageOf(t)], [t \in Tasks |-> TicketOf(t)]>>
  <2>1. /\ queue_ \in Seq(Pointers) /\ queue_' = Append(queue_, NoTask)
        /\ UNCHANGED <<fresh, arrived, popped>>
    BY <1>2, NoTaskAssumption DEF HPush, push, HInv, TypeOK
  <2>2. /\ DOMAIN queue_ \subseteq DOMAIN queue_'
        /\ \A i \in DOMAIN queue_' : i \in DOMAIN queue_ \/ queue_'[i] = NoTask
        /\ \A i \in DOMAIN queue_ : queue_'[i] = queue_[i]
    BY <2>1 DEF Pointers
  <2>3. \A t \in Tasks : t \in Entries(queue_) <=> t \in Entries(queue_)'
    BY <2>2, NoTaskAssumption DEF Entries
  <2> QED BY <2>1, <2>3, Stutter
<1>3. ASSUME NEW c \in Consumers, HPop(c)
      PROVE  [Fifo!FifoNext]_<<[t \in Tasks |-> StageOf(t)], [t \in Tasks |-> TicketOf(t)]>>
  <2>1. CASE UNCHANGED <<queue_, fresh, arrived, popped>>
    BY <2>1, Stutter DEF Entries
  <2>2. CASE /\ queue_ # <<>> /\ queue_' = Tail(queue_)
             /\ popped' = popped \cup ({Head(queue_)} \ {NoTask})
             /\ UNCHANGED <<fresh, arrived>>
    <3>1. queue_ \in Seq(Pointers) /\ Head(queue_) \in Pointers
      BY <2>2 DEF HInv, TypeOK
    <3>2. CASE Head(queue_) = NoTask
      <4>1. /\ queue_[1] = NoTask
            /\ \A i \in DOMAIN queue_' : queue_'[i] = queue_[i + 1] /\ i + 1 \in DOMAIN queue_
            /\ \A i \in DOMAIN queue_ : i # 1 => i - 1 \in DOMAIN queue_' /\ queue_'[i - 1] = queue_[i]
        BY <2>2, <3>1, <3>2
      <4>2. ASSUME NEW t \in Tasks PROVE t \in Entries(queue_) <=> t \in Entries(queue_)'
        <5>1. ASSUME NEW i \in DOMAIN queue_, t = queue_[i] PROVE t \in Entries(queue_)'
          <6>1. i # 1
            BY <4>1, <5>1, NoTaskAssumption
          <6> QED BY <4>1, <5>1, <6>1 DEF Entries
        <5>2. ASSUME NEW i \in DOMAIN queue_', t = queue_'[i] PROVE t \in Entries(queue_)
          BY <4>1, <5>2 DEF Entries
        <5> QED BY <5>1, <5>2 DEF Entries
      <4>3. popped' = popped
        BY <2>2, <3>2
      <4> QED BY <2>2, <4>2, <4>3, Stutter
    <3>3. CASE Head(queue_) # NoTask
      <4>1. PICK t \in Tasks : t = Head(queue_)
        BY <3>1, <3>3 DEF Pointers
      <4>2. popped' = popped \cup {t}
        BY <2>2, <3>3, <4>1
      <4>3. Fifo!Deliver(t)
        BY <2>2, <4>1, <4>2, PopDelivers
      <4> QED BY <4>3 DEF Fifo!FifoNext
    <3> QED BY <3>2, <3>3
  <2> QED BY <1>3, <2>1, <2>2, PopCases DEF HInv
<1>4. ASSUME \/ clear /\ UNCHANGED histVars
             \/ \E c \in Consumers : HOther(c)
             \/ UNCHANGED <<vars, histVars>>
      PROVE  Fifo!FifoNext
  <2>1. UNCHANGED <<fresh, arrived, popped>>
    BY <1>4 DEF clear, HOther, Expire, SpuriousWakeup, Release,
       remove_task_from_queue, vars, histVars
  <2>2. ASSUME NEW u \in UUIDs, KeepOnly(u), NEW x \in Entries(queue_)'
        PROVE  x \in Entries(queue_)
    <3>1. PICK pos \in [DOMAIN queue_' -> Kept(u)] :
              \A i \in DOMAIN queue_' : queue_'[i] = queue_[pos[i]]
      BY <2>2, KeepOnlyFacts DEF HInv
    <3> QED BY <2>2, <3>1 DEF Entries, Kept
  <2>3. \/ queue_' = queue_ \/ queue_' = <<>>
        \/ \E u \in UUIDs : KeepOnly(u)
    BY <1>4 DEF clear, HOther, Expire, SpuriousWakeup, Release,
       remove_task_from_queue, vars
  <2>4. \A x \in Tasks : x \in Entries(queue_)' => x \in Entries(queue_)
    <3>1. CASE queue_' = queue_ \/ queue_' = <<>>
      BY <3>1 DEF Entries
    <3>2. CASE \E u \in UUIDs : KeepOnly(u)
      BY <2>2, <3>2
    <3> QED BY <2>3, <3>1, <3>2
  <2> QED BY <2>1, <2>4, RemovalWithdraws DEF Fifo!FifoNext
<1> QED BY <1>1, <1>2, <1>3, <1>4 DEF HNext, Pointers

\* The deque behind mutex and condition variable behaves as the documented
\* FIFO: arrivals are numbered, every pop delivers the longest-waiting task, and
\* clear and remove_task_from_queue take tasks out without disturbing the order.
THEOREM QueueIsFifo == HSpec => ImplementsFifo
<1>1. HInit => Fifo!FifoInit
  <2>1. SUFFICES ASSUME HInit PROVE Fifo!FifoInit
    OBVIOUS
  <2>2. ASSUME NEW t \in Tasks PROVE StageOf(t) = "new" /\ TicketOf(t) = 0
    BY <2>1 DEF HInit, Init, StageOf, TicketOf, Entries
  <2> QED BY <2>2 DEF Fifo!FifoInit
<1>2. HInv /\ HInv' /\ [HNext]_<<vars, histVars>> =>
        [Fifo!FifoNext]_<<[t \in Tasks |-> StageOf(t)], [t \in Tasks |-> TicketOf(t)]>>
  BY StepRefines
<1> QED BY <1>1, <1>2, HistoryInvariant, PTL DEF HSpec, ImplementsFifo, Fifo!FifoSpec

=============================================================================
