----------------------------- MODULE TaskProofs -----------------------------
(***************************************************************************)
(* Theorems about Task, for any number of Tasks, threads and stages:       *)
(* iterating_ covers every iteration that nothing overlaps, a successful   *)
(* iteration has run every stage, and callbacks follow clones but not moves.*)
(***************************************************************************)
EXTENDS Task, TLAPS

\* Inside iterate_stages between the two stores.
Busy == {"entered", "running", "leaving"}

\* What the location of a thread says about the Tasks it works on.
Frames ==
    \A th \in Threads :
        /\ pc[th].at \in Busy \cup {"tested"} => pc[th].task \in Tasks /\ Live(pc[th].task)
        /\ pc[th].at \in {"tested", "entered"} => pc[th].ran = 0
        /\ pc[th].at \in {"asserted", "stored", "constructed"} =>
            /\ th = Owner
            /\ pc[th].task \in Tasks /\ obj[pc[th].task].uuid_ \in Tasks
            /\ pc[th].from \in Tasks /\ Live(pc[th].from)
        /\ pc[th].at \in {"asserted", "stored"} => Live(pc[th].task)
        /\ pc[th].at = "constructed" => moved[pc[th].task]

\* Without a race one thread at most is inside, and the flag tells.
Flags ==
    \A t \in Tasks :
        ~raced[t] =>
            \A th, u \in Threads :
                th \in Iterating(t) /\ u \in Iterating(t) => th = u /\ obj[t].iterating_

\* The owner has filled the members of t and not yet returned from Task(Task &&).
Making(t) == pc[Owner].at = "constructed" /\ pc[Owner].task = t

\* Every Task has the callback its origin leaves it, and one that was not moved
\* the stages it was made with.
Kept ==
    \A t \in Tasks :
        /\ Live(t) \/ Making(t) => ReportsTo(t) /\ origin[t].of \in Tasks
        /\ Live(t) /\ ~moved[t] => obj[t].stages_ = t

\* How far an iteration of such a Task is.
Progress ==
    \A th \in Threads :
        /\ pc[th].at = "running" /\ ~moved[pc[th].task] =>
            pc[th].over = pc[th].task /\ pc[th].ran < len[pc[th].task]
        /\ pc[th].ran_all =>
            /\ pc[th].at = "leaving"
            /\ moved[pc[th].task] \/ pc[th].ran = len[pc[th].task]

TInv == TypeOK /\ Frames /\ Flags /\ Kept /\ Progress

-----------------------------------------------------------------------------
LEMMA IdleFrame ==
    /\ Idle \in Frame /\ Idle.at = "idle" /\ Idle.task = None /\ Idle.ran = 0
    /\ ~Idle.ran_all
BY DEF Idle, Frame

LEMMA InitInv == Init => TInv
<1>. SUFFICES ASSUME Init PROVE TInv
  OBVIOUS
<1>1. \A th \in Threads : pc[th] = Idle
  BY DEF Init
<1>2. NoObject \in Object /\ ~NoObject.made
  BY DEF NoObject, Object
<1>3. \A t \in Tasks : obj[t] = NoObject /\ ~obj[t].made
  BY <1>2 DEF Init
<1>4. TypeOK
  <2>1. NoOrigin \in Origins
    BY DEF NoOrigin, Origins
  <2>. QED
    BY <1>2, <1>3, <2>1, IdleFrame DEF Init, TypeOK
<1>5. Frames /\ Flags
  BY <1>1, IdleFrame DEF Frames, Flags, Iterating, Busy
<1>6. Kept /\ Progress
  BY <1>1, <1>3, IdleFrame, OwnerAssumption DEF Kept, Making, Progress, Live
<1>. QED
  BY <1>4, <1>5, <1>6 DEF TInv

\* A step that neither makes, moves nor destroys a Task.
LEMMA KeptStep ==
    ASSUME TInv, UNCHANGED origin, \A u \in Tasks : moved[u] => moved'[u],
           pc'[Owner].at = "constructed" =>
                pc[Owner].at = "constructed" /\ pc'[Owner].task = pc[Owner].task,
           \A u \in Tasks : /\ obj'[u].made = obj[u].made /\ obj'[u].uuid_ = obj[u].uuid_
                            /\ obj'[u].stages_ = obj[u].stages_
                            /\ obj'[u].callback = obj[u].callback
    PROVE  Kept'
<1>. SUFFICES ASSUME NEW t \in Tasks
              PROVE  /\ Live(t)' \/ Making(t)' => ReportsTo(t)' /\ origin'[t].of \in Tasks
                     /\ Live(t)' /\ ~moved'[t] => obj'[t].stages_ = t
  BY DEF Kept
<1>1. (Live(t)' <=> Live(t)) /\ (Making(t)' => Making(t))
  BY DEF Live, Making
<1>2. ReportsTo(t) => ReportsTo(t)'
  BY DEF ReportsTo, complete, LeftOf, Given
<1>. QED
  BY <1>1, <1>2 DEF TInv, Kept

\* A step that changes where one thread is and leaves the Tasks alone.
LEMMA FrameStep ==
    ASSUME TInv, NEW th \in Threads, NEW f \in Frame, pc' = [pc EXCEPT ![th] = f],
           UNCHANGED <<obj, len, freed, raced, moved, origin, fate>>,
           f.at \in Busy => pc[th].at \in Busy /\ f.task = pc[th].task,
           f.at = "tested" => f.task \in Tasks /\ Live(f.task),
           f.at \in {"tested", "entered"} => f.ran = 0,
           f.at \in {"stored", "constructed"} => FALSE,
           f.at = "asserted" =>
                /\ th = Owner /\ f.task \in Tasks /\ f.from \in Tasks
                /\ Live(f.task) /\ Live(f.from),
           f.at = "running" /\ ~moved[f.task] => f.over = f.task /\ f.ran < len[f.task],
           f.ran_all => f.at = "leaving" /\ (moved[f.task] \/ f.ran = len[f.task])
    PROVE  TInv'
<1>0. \A u \in Threads : pc'[u] = IF u = th THEN f ELSE pc[u]
  BY DEF TInv, TypeOK
<1>1. TypeOK'
  BY DEF TInv, TypeOK
<1>2. Frames'
  BY <1>0 DEF TInv, TypeOK, Frames, Live, Busy
<1>3. \A t \in Tasks : Iterating(t)' \subseteq Iterating(t)
  BY <1>0 DEF Iterating, Busy
<1>4. Flags'
  BY <1>3 DEF TInv, Flags
<1>5. Kept'
  BY <1>0, KeptStep, OwnerAssumption
<1>6. Progress'
  BY <1>0 DEF TInv, Progress
<1>. QED
  BY <1>1, <1>2, <1>4, <1>5, <1>6 DEF TInv

-----------------------------------------------------------------------------
\* iterate_stages

LEMMA TestStep ==
    ASSUME TInv, NEW th \in Threads, NEW t \in Tasks, Test(th, t)
    PROVE  TInv'
<1>. PICK f : f = [Idle EXCEPT !.at = "tested", !.task = t]
  OBVIOUS
<1>1. f \in Frame /\ f.at = "tested" /\ f.task = t /\ f.ran = 0 /\ ~f.ran_all
  BY DEF Idle, Frame
<1>. QED
  BY <1>1, FrameStep DEF Test, Busy

LEMMA StoreStep ==
    ASSUME TInv, NEW th \in Threads, Store(th)
    PROVE  TInv'
<1>t. PICK t : t = pc[th].task
  OBVIOUS
<1>0. /\ obj \in [Tasks -> Object] /\ pc \in [Threads -> Frame] /\ raced \in [Tasks -> BOOLEAN]
      /\ pc[th].at = "tested" /\ t \in Tasks /\ Live(t) /\ pc[th].ran = 0
  BY <1>t DEF TInv, TypeOK, Store, At, Frames
<1>1. /\ obj' = [obj EXCEPT ![t].iterating_ = TRUE] /\ pc' = [pc EXCEPT ![th].at = "entered"]
      /\ raced' = [raced EXCEPT ![t] = (Iterating(t) # {})]
      /\ UNCHANGED <<len, freed, moved, origin, fate>>
  BY <1>t DEF Store, Go
<1>2. /\ pc' \in [Threads -> Frame] /\ \A u \in Threads : u # th => pc'[u] = pc[u]
      /\ pc'[th].at = "entered" /\ pc'[th].task = t /\ pc'[th].ran = 0
      /\ pc'[th].ran_all = pc[th].ran_all
  BY <1>0, <1>1, <1>t DEF Frame
<1>3. /\ obj' \in [Tasks -> Object] /\ obj'[t].iterating_
      /\ \A u \in Tasks : /\ obj'[u].made = obj[u].made /\ obj'[u].uuid_ = obj[u].uuid_
                          /\ obj'[u].stages_ = obj[u].stages_
                          /\ obj'[u].callback = obj[u].callback
                          /\ u # t => obj'[u] = obj[u]
  BY <1>0, <1>1 DEF Object
<1>4. raced' \in [Tasks -> BOOLEAN] /\ \A u \in Tasks : u # t => raced'[u] = raced[u]
  BY <1>0, <1>1
<1>5. TypeOK'
  BY <1>1, <1>2, <1>3, <1>4 DEF TInv, TypeOK
<1>6. Frames'
  BY <1>0, <1>1, <1>2, <1>3 DEF TInv, Frames, Live, Busy
<1>7. Flags'
  <2>. SUFFICES ASSUME NEW x \in Tasks, ~raced'[x], NEW a \in Threads, NEW b \in Threads,
                       a \in Iterating(x)', b \in Iterating(x)'
                PROVE  a = b /\ obj'[x].iterating_
    BY DEF Flags
  <2>1. CASE x = t
    <3>1. Iterating(t) = {}
      BY <1>0, <1>1, <2>1
    <3>2. a = th /\ b = th
      BY <1>2, <2>1, <3>1 DEF Iterating
    <3>. QED
      BY <1>3, <2>1, <3>2
  <2>2. CASE x # t
    <3>1. a \in Iterating(x) /\ b \in Iterating(x)
      BY <1>2, <2>2 DEF Iterating
    <3>. QED
      BY <1>3, <1>4, <2>2, <3>1 DEF TInv, Flags
  <2>. QED
    BY <2>1, <2>2
<1>8. Kept'
  BY <1>1, <1>2, <1>3, KeptStep, OwnerAssumption
<1>9. Progress'
  BY <1>0, <1>1, <1>2 DEF TInv, Progress
<1>. QED
  BY <1>5, <1>6, <1>7, <1>8, <1>9 DEF TInv

LEMMA BeginStep ==
    ASSUME TInv, NEW th \in Threads, Begin(th)
    PROVE  TInv'
<1>v. PICK v : v = obj[pc[th].task].stages_
  OBVIOUS
<1>f. PICK f : f = [pc[th] EXCEPT !.over = v, !.ran_all = (Length(v) = 0),
                        !.at = IF Length(v) = 0 THEN "leaving" ELSE "running"]
  OBVIOUS
<1>0. /\ pc \in [Threads -> Frame] /\ pc[th].at = "entered" /\ pc[th].task \in Tasks
      /\ Live(pc[th].task) /\ pc[th].ran = 0 /\ v \in Tasks \cup {None}
      /\ len \in [Tasks -> Nat]
  BY <1>v DEF TInv, TypeOK, Begin, At, Frames, Busy, Object
<1>1. /\ f \in Frame /\ f.task = pc[th].task /\ f.ran = 0 /\ f.over = v
      /\ f.ran_all = (Length(v) = 0)
      /\ f.at = IF Length(v) = 0 THEN "leaving" ELSE "running"
  BY <1>0, <1>f DEF Frame
<1>2. pc' = [pc EXCEPT ![th] = f] /\ UNCHANGED <<obj, len, freed, raced, moved, origin, fate>>
  BY <1>0, <1>v, <1>f DEF Begin
<1>3. ~moved[pc[th].task] => v = pc[th].task /\ Length(v) = len[pc[th].task]
  BY <1>0, <1>v, NoneAssumption DEF TInv, Kept, Length
<1>4. Length(v) \in Nat
  BY <1>0 DEF Length
<1>5. CASE Length(v) = 0
  <2>1. f.at = "leaving" /\ (moved[f.task] \/ f.ran = len[f.task])
    BY <1>1, <1>3, <1>5
  <2>. QED
    BY <1>0, <1>1, <1>2, <2>1, FrameStep DEF Busy
<1>6. CASE Length(v) # 0
  <2>1. f.at = "running" /\ ~f.ran_all
    BY <1>1, <1>6
  <2>2. ~moved[f.task] => f.over = f.task /\ f.ran < len[f.task]
    BY <1>0, <1>1, <1>3, <1>4, <1>6
  <2>. QED
    BY <1>0, <1>1, <1>2, <2>1, <2>2, FrameStep DEF Busy
<1>. QED
  BY <1>5, <1>6

LEMMA DieStep ==
    ASSUME TInv, NEW how \in {"terminated", "segfault"}, Die(how)
    PROVE  TInv'
<1>1. Kept'
  BY KeptStep DEF Die
<1>. QED
  BY <1>1 DEF Die, TInv, TypeOK, Frames, Flags, Progress, Live, Iterating

LEMMA RunStageStep ==
    ASSUME TInv, NEW th \in Threads, NEW ok \in BOOLEAN, RunStage(th, ok)
    PROVE  TInv'
<1>1. CASE pc[th].over \in freed
  BY <1>1, DieStep DEF RunStage
<1>2. CASE pc[th].over \notin freed
  <2>g. PICK go \in BOOLEAN : go <=> (ok /\ ~obj[pc[th].task].kill_)
    OBVIOUS
  <2>l. PICK last \in BOOLEAN : last <=> (pc[th].ran + 1 = Length(pc[th].over))
    OBVIOUS
  <2>a. PICK all \in BOOLEAN : all = (go /\ last)
    OBVIOUS
  <2>p. PICK loc \in {"running", "leaving"} : loc = IF go /\ ~last THEN "running" ELSE "leaving"
    OBVIOUS
  <2>f. PICK f : f = [pc[th] EXCEPT !.ran = pc[th].ran + 1, !.ran_all = all, !.at = loc]
    OBVIOUS
  <2>0. /\ pc \in [Threads -> Frame] /\ pc[th].at = "running" /\ pc[th].task \in Tasks
        /\ pc[th].ran \in Nat /\ len \in [Tasks -> Nat]
    BY DEF TInv, TypeOK, RunStage, At, Frames, Busy, Frame
  <2>1. /\ f \in Frame /\ f.task = pc[th].task /\ f.ran = pc[th].ran + 1
        /\ f.over = pc[th].over /\ f.ran_all = all /\ f.at = loc
    <3>1. pc[th] \in Frame /\ pc[th].ran + 1 \in Nat
      BY <2>0
    <3>2. f \in Frame
      BY <2>f, <3>1 DEF Frame
    <3>3. f.ran_all = all
      BY <2>f, <3>1 DEF Frame
    <3>4. f.task = pc[th].task /\ f.ran = pc[th].ran + 1 /\ f.over = pc[th].over /\ f.at = loc
      BY <2>f, <3>1 DEF Frame
    <3>. QED
      BY <3>2, <3>3, <3>4
  <2>2. pc' = [pc EXCEPT ![th] = f] /\ UNCHANGED <<obj, len, freed, raced, moved, origin, fate>>
    BY <1>2, <2>0, <2>f, <2>g, <2>l, <2>a, <2>p DEF RunStage
  <2>3. ~moved[pc[th].task] =>
            /\ pc[th].over = pc[th].task /\ pc[th].ran < len[pc[th].task]
            /\ Length(pc[th].over) = len[pc[th].task]
    BY <2>0, NoneAssumption DEF TInv, Progress, Length
  <2>4. ~moved[f.task] => /\ f.over = f.task
                          /\ last => f.ran = len[f.task]
                          /\ ~last => f.ran < len[f.task]
    BY <2>0, <2>1, <2>3, <2>l
  <2>. QED
    BY <2>0, <2>1, <2>2, <2>4, <2>a, <2>p, FrameStep DEF Busy
<1>. QED
  BY <1>1, <1>2

LEMMA LeaveStep ==
    ASSUME TInv, NEW th \in Threads, Leave(th)
    PROVE  TInv'
<1>t. PICK t : t = pc[th].task
  OBVIOUS
<1>0. /\ obj \in [Tasks -> Object] /\ pc \in [Threads -> Frame] /\ raced \in [Tasks -> BOOLEAN]
      /\ pc[th].at = "leaving" /\ t \in Tasks
  BY <1>t DEF TInv, TypeOK, Leave, At, Frames, Busy
<1>1. /\ obj' = [obj EXCEPT ![t].iterating_ = FALSE] /\ pc' = [pc EXCEPT ![th] = Idle]
      /\ raced' = [raced EXCEPT ![t] = (raced[t] /\ Iterating(t) # {th})]
      /\ UNCHANGED <<len, freed, moved, origin, fate>>
  BY <1>t, <1>0 DEF Leave, Return
<1>2. /\ pc' \in [Threads -> Frame] /\ \A u \in Threads : u # th => pc'[u] = pc[u]
      /\ pc'[th] = Idle /\ pc'[th].at = "idle" /\ ~pc'[th].ran_all
  BY <1>0, <1>1, IdleFrame
<1>3. /\ obj' \in [Tasks -> Object]
      /\ \A u \in Tasks : /\ obj'[u].made = obj[u].made /\ obj'[u].uuid_ = obj[u].uuid_
                          /\ obj'[u].stages_ = obj[u].stages_
                          /\ obj'[u].callback = obj[u].callback
                          /\ u # t => obj'[u] = obj[u]
  BY <1>0, <1>1 DEF Object
<1>4. /\ raced' \in [Tasks -> BOOLEAN] /\ \A u \in Tasks : u # t => raced'[u] = raced[u]
      /\ raced'[t] <=> raced[t] /\ Iterating(t) # {th}
  BY <1>0, <1>1
<1>5. TypeOK'
  BY <1>1, <1>2, <1>3, <1>4 DEF TInv, TypeOK
<1>6. Frames'
  BY <1>0, <1>1, <1>2, <1>3 DEF TInv, Frames, Live, Busy
<1>7. Flags'
  <2>. SUFFICES ASSUME NEW x \in Tasks, ~raced'[x], NEW a \in Threads, NEW b \in Threads,
                       a \in Iterating(x)', b \in Iterating(x)'
                PROVE  a = b /\ obj'[x].iterating_
    BY DEF Flags
  <2>0. a \in Iterating(x) /\ b \in Iterating(x) /\ a # th
    BY <1>2 DEF Iterating
  <2>1. CASE x = t
    <3>1. th \in Iterating(t) /\ Iterating(t) # {th}
      BY <1>0, <1>t, <2>0, <2>1 DEF Iterating
    <3>2. ~raced[t]
      BY <1>4, <2>1, <3>1
    <3>. QED
      BY <1>0, <2>0, <2>1, <3>1, <3>2 DEF TInv, Flags
  <2>2. CASE x # t
    BY <1>3, <1>4, <2>0, <2>2 DEF TInv, Flags
  <2>. QED
    BY <2>1, <2>2
<1>8. Kept'
  BY <1>1, <1>2, <1>3, KeptStep, OwnerAssumption
<1>9. Progress'
  BY <1>1, <1>2 DEF TInv, Progress
<1>. QED
  BY <1>5, <1>6, <1>7, <1>8, <1>9 DEF TInv

LEMMA KillStep ==
    ASSUME TInv, NEW th \in Threads, NEW t \in Tasks, kill(th, t)
    PROVE  TInv'
<1>0. /\ obj \in [Tasks -> Object] /\ obj' = [obj EXCEPT ![t].kill_ = TRUE]
      /\ UNCHANGED <<len, freed, pc, raced, moved, origin, fate>>
  BY DEF TInv, TypeOK, kill
<1>1. /\ obj' \in [Tasks -> Object]
      /\ \A u \in Tasks : /\ obj'[u].made = obj[u].made /\ obj'[u].uuid_ = obj[u].uuid_
                          /\ obj'[u].stages_ = obj[u].stages_
                          /\ obj'[u].callback = obj[u].callback
                          /\ obj'[u].iterating_ = obj[u].iterating_
  BY <1>0 DEF Object
<1>2. TypeOK'
  BY <1>0, <1>1 DEF TInv, TypeOK
<1>3. Frames'
  BY <1>0, <1>1 DEF TInv, Frames, Live, Busy
<1>4. Flags'
  BY <1>0, <1>1 DEF TInv, Flags, Iterating
<1>5. Kept'
  BY <1>0, <1>1, KeptStep
<1>6. Progress'
  BY <1>0 DEF TInv, Progress
<1>. QED
  BY <1>2, <1>3, <1>4, <1>5, <1>6 DEF TInv

LEMMA TornBeginStep ==
    ASSUME TInv, NEW th \in Threads, TornBegin(th)
    PROVE  TInv'
<1>0. /\ moved \in [Tasks -> BOOLEAN] /\ fate' = "segfault" /\ pc[th].task \in Tasks
      /\ moved' = [moved EXCEPT ![pc[th].task] = TRUE]
      /\ UNCHANGED <<obj, len, freed, pc, raced, origin>>
  BY DEF TInv, TypeOK, TornBegin, At, Frames, Busy
<1>1. moved' \in [Tasks -> BOOLEAN] /\ \A t \in Tasks : moved[t] => moved'[t]
  BY <1>0
<1>2. \A u \in Threads : pc[u].at \in Busy \cup {"constructed"} => pc[u].task \in Tasks
  BY DEF TInv, Frames
<1>3. TypeOK' /\ Flags'
  BY <1>0, <1>1 DEF TInv, TypeOK, Flags, Iterating
<1>4. Frames'
  BY <1>0, <1>1, <1>2 DEF TInv, Frames, Live
<1>5. Kept'
  BY <1>0, <1>1, KeptStep
<1>6. Progress'
  BY <1>0, <1>1, <1>2 DEF TInv, Progress, Busy
<1>. QED
  BY <1>3, <1>4, <1>5, <1>6 DEF TInv

-----------------------------------------------------------------------------
\* The owner.

\* No thread works on a place without a Task while the owner is idle.
LEMMA NobodyThere ==
    ASSUME TInv, At(Owner, "idle"), NEW t \in Tasks, ~Live(t)
    PROVE  /\ \A th \in Threads :
                pc[th].at \in Busy \cup {"tested"} => pc[th].task \in Tasks /\ pc[th].task # t
           /\ \A th \in Threads : pc[th].at \notin {"asserted", "stored", "constructed"}
           /\ Iterating(t) = {}
BY DEF TInv, Frames, At, Iterating, Busy

\* A Task is made at a place that had none.
LEMMA MadeStep ==
    ASSUME TInv, At(Owner, "idle"), NEW t \in Tasks, Unused(t),
           NEW o \in Object, o.made, o.uuid_ \in Tasks, o.stages_ = t,
           NEW n \in Nat, NEW m \in BOOLEAN, NEW g \in Origins, o.callback = LeftOf(g),
           g.of \in Tasks, g.assigned \/ o.uuid_ = g.of,
           obj' = [obj EXCEPT ![t] = o], len' = [len EXCEPT ![t] = n],
           moved' = [moved EXCEPT ![t] = m], origin' = [origin EXCEPT ![t] = g],
           UNCHANGED <<freed, pc, raced, fate>>
    PROVE  TInv'
<1>0. /\ \A th \in Threads :
                pc[th].at \in Busy \cup {"tested"} => pc[th].task \in Tasks /\ pc[th].task # t
      /\ \A th \in Threads : pc[th].at \notin {"asserted", "stored", "constructed"}
      /\ Iterating(t) = {}
  BY NobodyThere DEF Unused, Live
<1>1. /\ obj' \in [Tasks -> Object] /\ len' \in [Tasks -> Nat] /\ moved' \in [Tasks -> BOOLEAN]
      /\ obj'[t] = o /\ (moved'[t] <=> m) /\ origin' \in [Tasks -> Origins] /\ origin'[t] = g
      /\ \A u \in Tasks : u # t =>
            /\ obj'[u] = obj[u] /\ len'[u] = len[u] /\ moved'[u] = moved[u]
            /\ origin'[u] = origin[u]
  BY DEF TInv, TypeOK
<1>2. TypeOK'
  BY <1>1 DEF TInv, TypeOK
<1>3. Frames'
  BY <1>0, <1>1 DEF TInv, Frames, Live, Busy
<1>4. \A x \in Tasks : Iterating(x)' = Iterating(x)
  BY DEF Iterating
<1>5. Flags'
  <2>. SUFFICES ASSUME NEW x \in Tasks, ~raced'[x], NEW a \in Threads, NEW b \in Threads,
                       a \in Iterating(x)', b \in Iterating(x)'
                PROVE  a = b /\ obj'[x].iterating_
    BY DEF Flags
  <2>1. x # t /\ a \in Iterating(x) /\ b \in Iterating(x) /\ ~raced[x]
    BY <1>0, <1>4
  <2>. QED
    BY <1>1, <2>1 DEF TInv, Flags
<1>6. Kept'
  <2>1. ReportsTo(t)' /\ obj'[t].stages_ = t
    BY <1>1 DEF ReportsTo, complete, LeftOf, Given
  <2>2. ASSUME NEW u \in Tasks, u # t
        PROVE  /\ ReportsTo(u) => ReportsTo(u)'
               /\ (Live(u)' <=> Live(u)) /\ ~Making(u)'
    BY <1>0, <1>1, <2>2, OwnerAssumption DEF ReportsTo, complete, LeftOf, Given, Live, Making
  <2>. QED
    BY <1>1, <2>1, <2>2 DEF TInv, Kept
<1>7. Progress'
  BY <1>0, <1>1 DEF TInv, Progress, Busy
<1>. QED
  BY <1>2, <1>3, <1>5, <1>6, <1>7 DEF TInv

LEMMA ConstructedObject ==
    ASSUME NEW t \in Tasks, NEW callback \in Callbacks \cup {None}
    PROVE  /\ Constructed(t, callback) \in Object /\ Constructed(t, callback).made
           /\ Constructed(t, callback).uuid_ = t /\ Constructed(t, callback).stages_ = t
           /\ Constructed(t, callback).callback = callback
BY DEF Constructed, Object

LEMMA GivenCallback == \A u \in Tasks : Given(u) \in Callbacks \cup {None}
BY GivenAssumption DEF Given, Callbacks

LEMMA ConstructStep ==
    ASSUME TInv, NEW t \in Tasks, Construct(t)
    PROVE  TInv'
<1>c. PICK c : c = Given(t)
  OBVIOUS
<1>o. PICK o : o = Constructed(t, c)
  OBVIOUS
<1>g. PICK g : g = [NoOrigin EXCEPT !.of = t]
  OBVIOUS
<1>1. o \in Object /\ o.made /\ o.uuid_ = t /\ o.stages_ = t /\ o.callback = Given(t)
  BY <1>c, <1>o, GivenCallback, ConstructedObject
<1>2. /\ obj' = [obj EXCEPT ![t] = o] /\ len' = [len EXCEPT ![t] = StagesOf[t]]
      /\ origin' = [origin EXCEPT ![t] = g]
      /\ UNCHANGED <<freed, pc, raced, moved, fate>> /\ At(Owner, "idle") /\ Unused(t)
      /\ StagesOf[t] \in Nat
  BY <1>c, <1>o, <1>g, StagesAssumption DEF Construct
<1>3. PICK m \in BOOLEAN : m = moved[t] /\ moved' = [moved EXCEPT ![t] = m]
  BY <1>2 DEF TInv, TypeOK
<1>4. g \in Origins /\ g.of = t /\ LeftOf(g) = Given(t)
  BY <1>g DEF NoOrigin, Origins, LeftOf
<1>. QED
  BY <1>1, <1>2, <1>3, <1>4, MadeStep

\* What clone() makes of the callback of a Task is what the origin of the clone
\* leaves: further clones change nothing.
LEMMA ClonedLeft ==
    ASSUME NEW o \in Origins, NEW g \in Origins, g.of = o.of, o.of \in Tasks,
           g.by = IF o.by = "move" THEN "move" ELSE "clone"
    PROVE  ClonedCallback(LeftOf(o)) = LeftOf(g)
<1>1. CASE o.by = "move"
  BY <1>1 DEF LeftOf, ClonedCallback
<1>2. CASE o.by \in {"constructor", "clone"} /\ GivenTo[o.of] = "plain"
  <2>1. Given(o.of) = [kind |-> "plain", of |-> o.of] /\ Given(o.of) # None
    BY <1>2, CallbackAssumption DEF Given, Callbacks
  <2>2. LeftOf(o) = [kind |-> IF o.by = "clone" THEN "base" ELSE "plain", of |-> o.of]
    BY <1>2, <2>1 DEF LeftOf
  <2>3. LeftOf(g) = [kind |-> "base", of |-> o.of]
    BY <1>2 DEF LeftOf
  <2>4. CASE o.by = "clone"
    BY <2>2, <2>3, <2>4 DEF ClonedCallback
  <2>5. CASE o.by = "constructor"
    <3>1. LeftOf(o) = [kind |-> "plain", of |-> o.of] /\ LeftOf(o) # None
      BY <2>1, <2>5 DEF LeftOf
    <3>. QED
      BY <2>3, <3>1 DEF ClonedCallback
  <2>. QED
    BY <1>2, <2>4, <2>5
<1>3. CASE o.by \in {"constructor", "clone"} /\ GivenTo[o.of] # "plain"
  <2>1. LeftOf(o) = Given(o.of) /\ LeftOf(g) = Given(o.of)
    BY <1>3 DEF LeftOf
  <2>. QED
    BY <1>3, <2>1 DEF ClonedCallback, Given
<1>. QED
  BY <1>1, <1>2, <1>3 DEF Origins

LEMMA CloneStep ==
    ASSUME TInv, NEW t \in Tasks, NEW src \in Tasks, clone(t, src)
    PROVE  TInv'
<1>0. /\ At(Owner, "idle") /\ Unused(t) /\ Live(src) /\ obj \in [Tasks -> Object]
      /\ obj[src].uuid_ \in Tasks /\ obj[src].callback \in Callbacks \cup {None}
      /\ len \in [Tasks -> Nat] /\ obj[src].stages_ \in Tasks \cup {None}
      /\ origin[src] \in Origins
  BY DEF TInv, TypeOK, clone, Live, Object
<1>c. PICK c : c = ClonedCallback(obj[src].callback)
  OBVIOUS
<1>2. c \in Callbacks \cup {None}
  BY <1>0, <1>c DEF ClonedCallback, Callbacks
<1>o. PICK o : o = [Constructed(t, c) EXCEPT !.uuid_ = obj[src].uuid_]
  OBVIOUS
<1>g. PICK g : g = [origin[src] EXCEPT !.by = IF @ = "move" THEN "move" ELSE "clone"]
  OBVIOUS
<1>3. /\ o \in Object /\ o.made /\ o.uuid_ = obj[src].uuid_ /\ o.stages_ = t
      /\ o.callback = c
  BY <1>0, <1>2, <1>o, ConstructedObject DEF Object
<1>4. /\ len' = [len EXCEPT ![t] = Length(obj[src].stages_)] /\ Length(obj[src].stages_) \in Nat
      /\ obj' = [obj EXCEPT ![t] = o] /\ origin' = [origin EXCEPT ![t] = g]
      /\ UNCHANGED <<freed, pc, raced, fate>>
  BY <1>0, <1>c, <1>o, <1>g DEF clone, Length
<1>5. PICK m \in BOOLEAN : m = moved[src] /\ moved' = [moved EXCEPT ![t] = m]
  BY DEF TInv, TypeOK, clone
<1>6. /\ g \in Origins /\ g.of = origin[src].of /\ g.assigned = origin[src].assigned
      /\ g.by = IF origin[src].by = "move" THEN "move" ELSE "clone"
  BY <1>0, <1>g DEF Origins
<1>7. /\ obj[src].callback = LeftOf(origin[src]) /\ origin[src].of \in Tasks
      /\ origin[src].assigned \/ obj[src].uuid_ = origin[src].of
  BY <1>0 DEF TInv, Kept, ReportsTo, complete
<1>8. o.callback = LeftOf(g) /\ (g.assigned \/ o.uuid_ = g.of)
  BY <1>0, <1>c, <1>3, <1>6, <1>7, ClonedLeft
<1>. QED
  BY <1>0, <1>3, <1>4, <1>5, <1>6, <1>7, <1>8, MadeStep

LEMMA MoveConstructStep ==
    ASSUME TInv, NEW t \in Tasks, NEW src \in Tasks, MoveConstruct(t, src)
    PROVE  TInv'
<1>o. PICK o : o = [obj[src] EXCEPT !.made = FALSE, !.iterating_ = FALSE,
                                    !.kill_ = FALSE, !.callback = None]
  OBVIOUS
<1>r. PICK r : r = MovedFrom(obj[src])
  OBVIOUS
<1>f. PICK f : f = [Idle EXCEPT !.at = "constructed", !.task = t, !.from = src]
  OBVIOUS
<1>g. PICK g : g = [origin[src] EXCEPT !.by = "move"]
  OBVIOUS
<1>0. /\ obj \in [Tasks -> Object] /\ pc \in [Threads -> Frame] /\ moved \in [Tasks -> BOOLEAN]
      /\ origin \in [Tasks -> Origins] /\ At(Owner, "idle") /\ ~Live(t) /\ Live(src) /\ t # src /\ obj[src].uuid_ \in Tasks
  BY DEF TInv, TypeOK, MoveConstruct, Unused, Live
<1>1. /\ obj' = [obj EXCEPT ![t] = o, ![src] = r] /\ pc' = [pc EXCEPT ![Owner] = f]
      /\ moved' = [moved EXCEPT ![t] = TRUE, ![src] = TRUE]
      /\ origin' = [origin EXCEPT ![t] = g]
      /\ UNCHANGED <<len, freed, raced, fate>>
  BY <1>o, <1>r, <1>f, <1>g DEF MoveConstruct
<1>2. o \in Object /\ o.uuid_ = obj[src].uuid_ /\ ~o.made /\ o.callback = None
  <2>1. obj[src] \in Object
    BY <1>0
  <2>2. o \in Object
    BY <1>o, <2>1 DEF Object
  <2>3. ~o.made
    BY <1>o, <2>1 DEF Object
  <2>4. o.uuid_ = obj[src].uuid_
    BY <1>o, <2>1 DEF Object
  <2>5. o.callback = None
    BY <1>o, <2>1 DEF Object
  <2>. QED
    BY <2>2, <2>3, <2>4, <2>5
<1>3. /\ r \in Object /\ r.made = obj[src].made /\ r.uuid_ = obj[src].uuid_
      /\ r.iterating_ = obj[src].iterating_ /\ r.callback = obj[src].callback
  BY <1>0, <1>r DEF Object, MovedFrom
<1>a. /\ g \in Origins /\ g.by = "move" /\ g.of = origin[src].of
      /\ g.assigned = origin[src].assigned
  BY <1>0, <1>g DEF Origins
<1>b. /\ origin' \in [Tasks -> Origins] /\ origin'[t] = g
      /\ \A u \in Tasks : u # t => origin'[u] = origin[u]
  BY <1>0, <1>1, <1>a
<1>4. /\ f \in Frame /\ f.at = "constructed" /\ f.task = t /\ f.from = src /\ ~f.ran_all
  BY <1>f DEF Frame, Idle
<1>5. /\ obj' \in [Tasks -> Object] /\ obj'[t] = o /\ obj'[src] = r
      /\ moved' \in [Tasks -> BOOLEAN] /\ moved'[t] /\ moved'[src]
      /\ \A u \in Tasks : u # t /\ u # src => obj'[u] = obj[u] /\ moved'[u] = moved[u]
  BY <1>0, <1>1, <1>2, <1>3
<1>6. /\ pc' \in [Threads -> Frame] /\ pc'[Owner] = f
      /\ \A u \in Threads : u # Owner => pc'[u] = pc[u]
  BY <1>0, <1>1, <1>4, OwnerAssumption
<1>7. /\ \A th \in Threads :
                pc[th].at \in Busy \cup {"tested"} => pc[th].task \in Tasks /\ pc[th].task # t
      /\ \A th \in Threads : pc[th].at \notin {"asserted", "stored", "constructed"}
      /\ Iterating(t) = {}
  BY <1>0, NobodyThere
<1>8. TypeOK'
  <2>1. \A u \in Tasks : obj'[u].made => obj'[u].uuid_ \in Tasks
    BY <1>0, <1>2, <1>3, <1>5 DEF TInv, TypeOK
  <2>. QED
    BY <1>1, <1>5, <1>6, <1>b, <2>1 DEF TInv, TypeOK
<1>9. Frames'
  <2>1. \A u \in Tasks : u # t => obj'[u].made = obj[u].made
    BY <1>3, <1>5
  <2>2. ASSUME NEW th \in Threads, th # Owner
        PROVE  /\ pc'[th] = pc[th]
               /\ pc[th].at \in Busy \cup {"tested"} =>
                    pc[th].task \in Tasks /\ obj'[pc[th].task].made
    BY <1>6, <1>7, <2>1, <2>2 DEF TInv, Frames, Live
  <2>3. ASSUME NEW th \in Threads, th # Owner, pc[th].at \in {"tested", "entered"}
        PROVE  pc[th].ran = 0
    BY <2>3 DEF TInv, Frames
  <2>4. obj'[t].uuid_ \in Tasks /\ obj'[src].made
    BY <1>0, <1>2, <1>3, <1>5 DEF Live
  <2>. QED
    BY <1>4, <1>5, <1>6, <1>7, <2>2, <2>3, <2>4 DEF Frames, Live, Busy
<1>10. Flags'
  <2>. SUFFICES ASSUME NEW x \in Tasks, ~raced'[x], NEW a \in Threads, NEW b \in Threads,
                       a \in Iterating(x)', b \in Iterating(x)'
                PROVE  a = b /\ obj'[x].iterating_
    BY DEF Flags
  <2>1. a \in Iterating(x) /\ b \in Iterating(x) /\ ~raced[x] /\ x # t
    BY <1>1, <1>4, <1>6, <1>7 DEF Iterating
  <2>2. obj'[x].iterating_ = obj[x].iterating_
    BY <1>3, <1>5, <2>1
  <2>. QED
    BY <2>1, <2>2 DEF TInv, Flags
<1>11. Kept'
  <2>1. ReportsTo(src) /\ origin[src].of \in Tasks
    BY <1>0 DEF TInv, Kept
  <2>2. ReportsTo(t)'
    BY <1>2, <1>5, <1>a, <1>b, <2>1 DEF ReportsTo, complete, LeftOf
  <2>3. ReportsTo(src)'
    BY <1>0, <1>3, <1>5, <1>b, <2>1 DEF ReportsTo, complete, LeftOf, Given
  <2>4. ASSUME NEW u \in Tasks, u # t, u # src
        PROVE  /\ ReportsTo(u) => ReportsTo(u)'
               /\ (Live(u)' <=> Live(u)) /\ ~Making(u)'
    BY <1>4, <1>5, <1>6, <1>b, <2>4 DEF ReportsTo, complete, LeftOf, Given, Live, Making
  <2>. QED
    BY <1>5, <1>a, <1>b, <2>1, <2>2, <2>3, <2>4 DEF TInv, Kept
<1>12. Progress'
  BY <1>1, <1>4, <1>5, <1>6, <1>7 DEF TInv, Progress, Busy
<1>. QED
  BY <1>8, <1>9, <1>10, <1>11, <1>12 DEF TInv

LEMMA ConstructAssertStep ==
    ASSUME TInv, ConstructAssert
    PROVE  TInv'
<1>1. CASE obj[pc[Owner].from].iterating_
  BY <1>1, DieStep DEF ConstructAssert
<1>2. CASE ~obj[pc[Owner].from].iterating_
  <2>t. PICK t : t = pc[Owner].task
    OBVIOUS
  <2>0. /\ obj \in [Tasks -> Object] /\ pc \in [Threads -> Frame] /\ t \in Tasks /\ moved[t]
        /\ obj[t].uuid_ \in Tasks
    BY <2>t, OwnerAssumption DEF TInv, TypeOK, ConstructAssert, At, Frames
  <2>1. /\ obj' = [obj EXCEPT ![t].made = TRUE] /\ pc' = [pc EXCEPT ![Owner] = Idle]
        /\ UNCHANGED <<len, freed, raced, moved, origin, fate>>
    BY <1>2, <2>t DEF ConstructAssert, Return
  <2>2. /\ obj' \in [Tasks -> Object] /\ \A u \in Tasks : u # t => obj'[u] = obj[u]
        /\ obj'[t].made /\ obj'[t].uuid_ = obj[t].uuid_
        /\ obj'[t].iterating_ = obj[t].iterating_ /\ obj'[t].callback = obj[t].callback
    <3>o. PICK o : o = [obj[t] EXCEPT !.made = TRUE]
      OBVIOUS
    <3>1. o \in Object /\ o.made
      BY <2>0, <3>o DEF Object
    <3>2. /\ o.uuid_ = obj[t].uuid_ /\ o.iterating_ = obj[t].iterating_
          /\ o.callback = obj[t].callback
      BY <2>0, <3>o DEF Object
    <3>3. obj' = [obj EXCEPT ![t] = o]
      BY <2>0, <2>1, <3>o
    <3>. QED
      BY <2>0, <3>1, <3>2, <3>3
  <2>3. /\ pc' \in [Threads -> Frame] /\ pc'[Owner] = Idle
        /\ \A u \in Threads : u # Owner => pc'[u] = pc[u]
    BY <2>0, <2>1, IdleFrame, OwnerAssumption
  <2>4. TypeOK'
    BY <2>0, <2>1, <2>2, <2>3 DEF TInv, TypeOK
  <2>5. Frames'
    BY <2>1, <2>2, <2>3, IdleFrame DEF TInv, Frames, Live, Busy
  <2>6. Flags'
    <3>1. \A x \in Tasks : Iterating(x)' \subseteq Iterating(x)
      BY <2>3, IdleFrame DEF Iterating
    <3>2. \A x \in Tasks : obj'[x].iterating_ = obj[x].iterating_
      BY <2>2
    <3>. QED
      BY <2>1, <3>1, <3>2 DEF TInv, Flags
  <2>7. Kept'
    <3>1. ReportsTo(t) /\ origin[t].of \in Tasks
      BY <2>t, <2>0 DEF TInv, Kept, Making, ConstructAssert, At
    <3>2. ASSUME NEW u \in Tasks
          PROVE  /\ ReportsTo(u) => ReportsTo(u)'
                 /\ u # t => (Live(u)' <=> Live(u))
                 /\ ~Making(u)'
      BY <2>1, <2>2, <2>3, IdleFrame DEF ReportsTo, complete, LeftOf, Given, Live, Making
    <3>. QED
      BY <2>0, <2>1, <2>2, <3>1, <3>2 DEF TInv, Kept
  <2>8. Progress'
    BY <2>1, <2>3, IdleFrame DEF TInv, Progress
  <2>. QED
    BY <2>4, <2>5, <2>6, <2>7, <2>8 DEF TInv
<1>. QED
  BY <1>1, <1>2

LEMMA AssignAssertStep ==
    ASSUME TInv, NEW t \in Tasks, NEW src \in Tasks, AssignAssert(t, src)
    PROVE  TInv'
<1>1. CASE obj[src].iterating_
  BY <1>1, DieStep DEF AssignAssert
<1>2. CASE ~obj[src].iterating_
  <2>. PICK f : f = [Idle EXCEPT !.at = "asserted", !.task = t, !.from = src]
    OBVIOUS
  <2>1. f \in Frame /\ f.at = "asserted" /\ f.task = t /\ f.from = src /\ ~f.ran_all
    BY DEF Idle, Frame
  <2>2. /\ pc' = [pc EXCEPT ![Owner] = f] /\ Live(t) /\ Live(src)
        /\ UNCHANGED <<obj, len, freed, raced, moved, origin, fate>>
    BY <1>2 DEF AssignAssert
  <2>. QED
    BY <2>1, <2>2, FrameStep, OwnerAssumption DEF Busy
<1>. QED
  BY <1>1, <1>2

LEMMA AssignStoreStep ==
    ASSUME TInv, AssignStore
    PROVE  TInv'
<1>t. PICK t : t = pc[Owner].task
  OBVIOUS
<1>0. /\ obj \in [Tasks -> Object] /\ pc \in [Threads -> Frame] /\ raced \in [Tasks -> BOOLEAN]
      /\ pc[Owner].at = "asserted" /\ t \in Tasks
  BY <1>t, OwnerAssumption DEF TInv, TypeOK, AssignStore, At, Frames
<1>1. /\ obj' = [obj EXCEPT ![t].iterating_ = FALSE, ![t].kill_ = FALSE]
      /\ raced' = [raced EXCEPT ![t] = (Iterating(t) # {})]
      /\ pc' = [pc EXCEPT ![Owner].at = "stored"]
      /\ UNCHANGED <<len, freed, moved, origin, fate>>
  BY <1>t DEF AssignStore, Go
<1>2. /\ obj' \in [Tasks -> Object]
      /\ \A u \in Tasks : /\ obj'[u].made = obj[u].made /\ obj'[u].uuid_ = obj[u].uuid_
                          /\ obj'[u].stages_ = obj[u].stages_
                          /\ obj'[u].callback = obj[u].callback
                          /\ u # t => obj'[u] = obj[u]
  BY <1>0, <1>1 DEF Object
<1>3. /\ raced' \in [Tasks -> BOOLEAN] /\ \A u \in Tasks : u # t => raced'[u] = raced[u]
      /\ raced'[t] <=> Iterating(t) # {}
  BY <1>0, <1>1
<1>4. /\ pc' \in [Threads -> Frame] /\ \A u \in Threads : u # Owner => pc'[u] = pc[u]
      /\ pc'[Owner].at = "stored" /\ pc'[Owner].task = pc[Owner].task
      /\ pc'[Owner].from = pc[Owner].from /\ pc'[Owner].ran_all = pc[Owner].ran_all
  BY <1>0, <1>1, OwnerAssumption DEF Frame
<1>5. TypeOK'
  BY <1>1, <1>2, <1>3, <1>4 DEF TInv, TypeOK
<1>6. Frames'
  BY <1>0, <1>1, <1>2, <1>4, OwnerAssumption DEF TInv, Frames, Live, Busy
<1>7. Flags'
  <2>1. \A x \in Tasks : Iterating(x)' \subseteq Iterating(x)
    BY <1>4 DEF Iterating
  <2>2. ASSUME NEW x \in Tasks, ~raced'[x], x = t
        PROVE  Iterating(x)' = {}
    BY <1>3, <2>1, <2>2
  <2>. QED
    BY <1>2, <1>3, <2>1, <2>2 DEF TInv, Flags
<1>8. Kept'
  BY <1>1, <1>2, <1>4, KeptStep
<1>9. Progress'
  BY <1>0, <1>1, <1>4, OwnerAssumption DEF TInv, Progress
<1>. QED
  BY <1>5, <1>6, <1>7, <1>8, <1>9 DEF TInv

LEMMA AssignMoveStep ==
    ASSUME TInv, AssignMove
    PROVE  TInv'
<1>t. PICK t : t = pc[Owner].task
  OBVIOUS
<1>s. PICK src : src = pc[Owner].from
  OBVIOUS
<1>0. /\ obj \in [Tasks -> Object] /\ pc \in [Threads -> Frame] /\ moved \in [Tasks -> BOOLEAN]
      /\ origin \in [Tasks -> Origins] /\ pc[Owner].at = "stored" /\ t \in Tasks /\ src \in Tasks /\ Live(src)
      /\ obj[src].uuid_ \in Tasks /\ freed \subseteq Tasks
  BY <1>t, <1>s, OwnerAssumption DEF TInv, TypeOK, AssignMove, At, Frames, Live
<1>1. /\ obj' = [obj EXCEPT
            ![t].stages_ = obj[src].stages_, ![t].uuid_ = obj[src].uuid_,
            ![t].json_config_ = obj[src].json_config_, ![src] = MovedFrom(obj[src])]
      /\ freed' = freed \cup ({obj[t].stages_} \ {None})
      /\ moved' = [moved EXCEPT ![t] = TRUE, ![src] = TRUE]
      /\ origin' = [origin EXCEPT ![t].assigned = TRUE]
      /\ pc' = [pc EXCEPT ![Owner] = Idle]
      /\ UNCHANGED <<len, raced, fate>>
  BY <1>t, <1>s DEF AssignMove, Return
<1>o. PICK o : o = [obj[t] EXCEPT !.stages_ = obj[src].stages_, !.uuid_ = obj[src].uuid_,
                                  !.json_config_ = obj[src].json_config_]
  OBVIOUS
<1>r. PICK r : r = MovedFrom(obj[src])
  OBVIOUS
<1>2. /\ o \in Object /\ o.made = obj[t].made /\ o.uuid_ = obj[src].uuid_
      /\ o.iterating_ = obj[t].iterating_ /\ o.callback = obj[t].callback
  <2>1. obj[t] \in Object /\ obj[src] \in Object
    BY <1>0
  <2>2. o \in Object
    BY <1>o, <2>1 DEF Object
  <2>3. o.made = obj[t].made
    BY <1>o, <2>1 DEF Object
  <2>4. o.uuid_ = obj[src].uuid_
    BY <1>o, <2>1 DEF Object
  <2>5. o.iterating_ = obj[t].iterating_ /\ o.callback = obj[t].callback
    BY <1>o, <2>1 DEF Object
  <2>. QED
    BY <2>2, <2>3, <2>4, <2>5
<1>3. /\ r \in Object /\ r.made = obj[src].made /\ r.uuid_ = obj[src].uuid_
      /\ r.iterating_ = obj[src].iterating_ /\ r.callback = obj[src].callback
  BY <1>0, <1>r DEF Object, MovedFrom
<1>4. obj' = [obj EXCEPT ![t] = o, ![src] = r]
  BY <1>0, <1>1, <1>o, <1>r
<1>5. /\ obj' \in [Tasks -> Object]
      /\ \A u \in Tasks : /\ obj'[u].made = obj[u].made
                          /\ obj'[u].iterating_ = obj[u].iterating_
                          /\ obj'[u].callback = obj[u].callback
                          /\ u \in {t, src} => obj'[u].uuid_ \in Tasks
                          /\ u # t => obj'[u].uuid_ = obj[u].uuid_
                          /\ u \notin {t, src} => obj'[u] = obj[u]
  BY <1>0, <1>2, <1>3, <1>4
<1>6. /\ moved' \in [Tasks -> BOOLEAN] /\ moved'[t] /\ moved'[src]
      /\ \A u \in Tasks : u \notin {t, src} => moved'[u] = moved[u]
  BY <1>0, <1>1
<1>7. /\ pc' \in [Threads -> Frame] /\ pc'[Owner] = Idle
      /\ \A u \in Threads : u # Owner => pc'[u] = pc[u]
  BY <1>0, <1>1, IdleFrame, OwnerAssumption
<1>g. /\ origin' \in [Tasks -> Origins] /\ origin'[t].assigned
      /\ origin'[t].of = origin[t].of /\ origin'[t].by = origin[t].by
      /\ \A u \in Tasks : u # t => origin'[u] = origin[u]
  BY <1>0, <1>1 DEF Origins
<1>8. \A u \in Threads : u # Owner =>
            /\ pc[u].at \notin {"asserted", "stored", "constructed"}
            /\ pc[u].at \in Busy \cup {"tested"} => pc[u].task \in Tasks
  BY DEF TInv, Frames
<1>9. TypeOK'
  <2>1. freed' \subseteq Tasks
    BY <1>0, <1>1 DEF Object
  <2>2. \A u \in Tasks : obj'[u].made => obj'[u].uuid_ \in Tasks
    BY <1>5 DEF TInv, TypeOK
  <2>. QED
    BY <1>1, <1>5, <1>6, <1>7, <1>g, <2>1, <2>2 DEF TInv, TypeOK
<1>10. Frames'
  BY <1>5, <1>7, <1>8, IdleFrame DEF TInv, Frames, Live, Busy
<1>11. Flags'
  <2>1. \A x \in Tasks : Iterating(x)' \subseteq Iterating(x)
    BY <1>7, IdleFrame DEF Iterating
  <2>. QED
    BY <1>1, <1>5, <2>1 DEF TInv, Flags
<1>12. Kept'
  <2>1. ASSUME NEW u \in Tasks, ReportsTo(u)
        PROVE  ReportsTo(u)'
    <3>1. LeftOf(origin'[u]) = LeftOf(origin[u])
      BY <1>g DEF LeftOf
    <3>2. obj'[u].callback = LeftOf(origin'[u])
      BY <1>5, <2>1, <3>1 DEF ReportsTo, complete
    <3>3. origin'[u].assigned \/ obj'[u].uuid_ = origin'[u].of
      BY <1>5, <1>g, <2>1 DEF ReportsTo
    <3>. QED
      BY <3>2, <3>3 DEF ReportsTo, complete, LeftOf, Given
  <2>2. \A u \in Tasks : (Live(u)' <=> Live(u)) /\ ~Making(u)'
    BY <1>5, <1>7, IdleFrame DEF Live, Making
  <2>. QED
    BY <1>5, <1>6, <1>g, <2>1, <2>2 DEF TInv, Kept
<1>13. Progress'
  <2>1. \A u \in Tasks : moved[u] => moved'[u]
    BY <1>6
  <2>. QED
    BY <1>1, <1>7, <1>8, <2>1, IdleFrame DEF TInv, Progress, Busy
<1>. QED
  BY <1>9, <1>10, <1>11, <1>12, <1>13 DEF TInv

LEMMA DestroyStep ==
    ASSUME TInv, NEW t \in Tasks, Destroy(t)
    PROVE  TInv'
<1>o. PICK o : o = [NoObject EXCEPT !.uuid_ = obj[t].uuid_]
  OBVIOUS
<1>0. /\ obj \in [Tasks -> Object] /\ obj' = [obj EXCEPT ![t] = o] /\ freed \subseteq Tasks
      /\ freed' = freed \cup ({obj[t].stages_} \ {None})
      /\ UNCHANGED <<len, pc, raced, moved, origin, fate>>
      /\ \A th \in Threads : pc[th].task # t
      /\ \A th \in Threads : pc[th].at \notin {"asserted", "stored", "constructed"}
  BY <1>o DEF TInv, TypeOK, Destroy, Frames, At
<1>1. NoObject \in Object /\ ~NoObject.made
  BY DEF NoObject, Object
<1>2. o \in Object /\ ~o.made
  BY <1>0, <1>1, <1>o DEF Object
<1>3. obj' \in [Tasks -> Object] /\ obj'[t] = o /\ \A u \in Tasks : u # t => obj'[u] = obj[u]
  BY <1>0, <1>2
<1>4. freed' \subseteq Tasks
  BY <1>0 DEF Object
<1>5. TypeOK'
  BY <1>0, <1>2, <1>3, <1>4 DEF TInv, TypeOK
<1>6. Frames'
  BY <1>0, <1>3 DEF TInv, Frames, Live
<1>7. Flags'
  <2>1. Iterating(t)' = {} /\ \A x \in Tasks : Iterating(x)' = Iterating(x)
    BY <1>0 DEF Iterating
  <2>. QED
    BY <1>0, <1>3, <2>1 DEF TInv, Flags
<1>8. Kept'
  <2>1. ASSUME NEW u \in Tasks
        PROVE  /\ u # t => (ReportsTo(u) => ReportsTo(u)')
               /\ ~Making(u)' /\ (Live(u)' <=> u # t /\ Live(u))
    BY <1>0, <1>2, <1>3, OwnerAssumption
    DEF ReportsTo, complete, LeftOf, Given, Live, Making
  <2>. QED
    BY <1>0, <1>3, <2>1 DEF TInv, Kept
<1>9. Progress'
  BY <1>0 DEF TInv, Progress
<1>. QED
  BY <1>5, <1>6, <1>7, <1>8, <1>9 DEF TInv

-----------------------------------------------------------------------------
LEMMA StutterStep == ASSUME TInv, UNCHANGED vars PROVE TInv'
<1>1. Kept'
  BY KeptStep DEF vars
<1>. QED
  BY <1>1 DEF vars, TInv, TypeOK, Frames, Flags, Progress, Live, Iterating

LEMMA NextStep == ASSUME TInv, [Next]_vars PROVE TInv'
<1>1. CASE UNCHANGED vars
  BY <1>1, StutterStep
<1>2. CASE Own
  BY <1>2, CloneStep, MoveConstructStep, AssignAssertStep, ConstructAssertStep,
     AssignStoreStep, AssignMoveStep, ConstructStep, DestroyStep DEF Own
<1>3. ASSUME NEW th \in Threads, Iterate(th) PROVE TInv'
  BY <1>3, TestStep, StoreStep, BeginStep, TornBeginStep, RunStageStep, LeaveStep DEF Iterate
<1>4. ASSUME NEW th \in Threads, NEW t \in Tasks, kill(th, t) \/ json_config(th, t)
      PROVE  TInv'
  BY <1>4, KillStep, DieStep DEF json_config
<1>. QED
  BY <1>1, <1>2, <1>3, <1>4 DEF Next

\* The inductive invariant: where each thread is, who is inside a Task that
\* nobody raced for, what an unmoved Task still has, and how far its
\* iterations are.
THEOREM TaskInvariant == Spec => []TInv
BY InitInv, NextStep, PTL DEF Spec

\* iterating_ covers every iteration that no other one, and no assignment to
\* the Task, has raced with.
THEOREM FlagCovers == Spec => []FlagCoversIteration
<1>1. TInv => FlagCoversIteration
  <2>. SUFFICES ASSUME TInv, NEW t \in Tasks, Iterating(t) # {}, ~obj[t].iterating_
                PROVE  raced[t]
    BY DEF FlagCoversIteration, TInv
  <2>1. PICK th \in Threads : th \in Iterating(t)
    BY DEF Iterating
  <2>. QED
    BY <2>1 DEF TInv, Flags
<1>. QED
  BY <1>1, TaskInvariant, PTL

\* A thread that is about to return true from iterate_stages has itself run
\* every stage of the Task, unless the stages were moved.
THEOREM SuccessComplete == Spec => []SuccessIsComplete
<1>1. TInv => SuccessIsComplete
  BY DEF TInv, Progress, SuccessIsComplete
<1>. QED
  BY <1>1, TaskInvariant, PTL

\* complete() calls the callback its user gave through every chain of clones
\* (for a plugin that does not override clone, the base plugin), nothing in a
\* Task constructed by a move and its clones, and no assignment changes it.
THEOREM CallbackByOrigin == Spec => []CallbackFollowsOrigin
<1>1. TInv => CallbackFollowsOrigin
  BY DEF TInv, Kept, CallbackFollowsOrigin
<1>. QED
  BY <1>1, TaskInvariant, PTL
=============================================================================
