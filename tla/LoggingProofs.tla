--------------------------- MODULE LoggingProofs ---------------------------
(***************************************************************************)
(* Theorems about Logging, for any set of tags, threads, streams and       *)
(* levels: the core has exactly the registered sinks, records reach the    *)
(* stream of their tag and only that, and the second logger of a           *)
(* LoggedClass is refused.                                                 *)
(***************************************************************************)
EXTENDS Logging, SequenceTheorems, FunctionTheorems, FiniteSetTheorems, TLAPS

\* The sink of a registered tag.
SinkOf(t) ==
    [tag |-> t, stream |-> loggers_[t].stream, level |-> loggers_[t].level, filtered |-> TRUE]

\* The arguments of the call a thread is in.
Arguments ==
    \A th \in Threads :
        /\ pc[th].at \in {"calling", "added"} =>
            pc[th].tag \in AllTags /\ pc[th].stream \in Streams /\ pc[th].level \in Levels
        /\ pc[th].at \in {"initializing", "attributed", "ready"} =>
            pc[th].tag \in AllTags /\ pc[th].level \in Levels

\* loggers_mutex_ excludes.
Exclusion ==
    \A th, u \in Threads :
        pc[th].at \in {"added", "clearing"} /\ pc[u].at \in {"added", "clearing"} => th = u

\* A thread between add_sink and the registration has added the last sink.
Adding ==
    \A th \in Threads :
        At(th, "added") =>
            /\ ~Registered(pc[th].tag)
            /\ Len(core) \in DOMAIN core
            /\ core[Len(core)] = NewSink(th)

\* Every other sink is that of a registered tag; no tag has two.
Sinks ==
    /\ \A i \in DOMAIN core :
        \/ Registered(core[i].tag) /\ core[i] = SinkOf(core[i].tag)
        \/ i = Len(core) /\ \E th \in Threads : At(th, "added")
    /\ \A t \in AllTags : Registered(t) => \E i \in DOMAIN core : core[i] = SinkOf(t)
    /\ \A i, j \in DOMAIN core : core[i].tag = core[j].tag => i = j

\* The attributes come before the flag that says so, and before any record.
Attributes ==
    /\ init_ => attributes
    /\ \A th \in Threads : pc[th].at \in {"attributed", "ready"} => attributes

\* A LoggedClass whose second call can find its tag free has seen a clear_all
\* since the first.
Cerr ==
    \A th \in Threads :
        /\ Between(th) => Registered(pc[th].tag) \/ th \in cleared
        /\ At(th, "added") /\ pc[th].tag \in ClassTags /\ pc[th].stream = "cerr" =>
            th \in cleared
        /\ At(th, "clearing") => \A u \in Threads : Between(u) => u \in cleared

LInv == TypeOK /\ Arguments /\ Exclusion /\ Adding /\ Sinks /\ Attributes /\ Cerr

-----------------------------------------------------------------------------
LEMMA InitInv == Init => LInv
<1>. SUFFICES ASSUME Init PROVE LInv
  OBVIOUS
<1>0. Idle \in Frame /\ Idle.at = "idle"
  BY DEF Idle, Frame
<1>a. \A th \in Threads : pc[th].at = "idle"
  BY <1>0 DEF Init
<1>b. core \in Seq(Sink) /\ DOMAIN core = {}
  BY DEF Init
<1>1. TypeOK
  BY <1>0, <1>b DEF Init, TypeOK
<1>2. Arguments /\ Exclusion /\ Adding
  BY <1>a DEF Arguments, Exclusion, Adding, At
<1>3. Sinks
  BY <1>b DEF Init, Sinks, Registered
<1>4. Attributes /\ Cerr
  BY <1>a DEF Init, Attributes, Cerr, Between, At
<1>. QED
  BY <1>1, <1>2, <1>3, <1>4 DEF LInv

\* A step of the pc of one thread outside the mutex.
LEMMA QuietStep ==
    ASSUME LInv, NEW th \in Threads, NEW f \in Frame,
           pc' = [pc EXCEPT ![th] = f],
           pc[th].at \notin {"added", "clearing"}, f.at \notin {"added", "clearing"},
           f.at = "calling" =>
                f.tag \in AllTags /\ f.stream \in Streams /\ f.level \in Levels,
           f.at \in {"initializing", "attributed", "ready"} =>
                f.tag \in AllTags /\ f.level \in Levels,
           f.at \in {"attributed", "ready"} => attributes',
           f.at = "calling" /\ f.tag \in ClassTags /\ f.stream = "cerr" =>
                Registered(f.tag) /\ MutexFree,
           attributes \in BOOLEAN => attributes' \in BOOLEAN, attributes => attributes',
           init_ \in BOOLEAN => init_' \in BOOLEAN, init_' => attributes',
           cleared' \subseteq Threads,
           \A u \in Threads : u # th /\ u \in cleared => u \in cleared',
           UNCHANGED <<loggers_, core>>
    PROVE  LInv'
<1>0. \A u \in Threads : pc'[u] = IF u = th THEN f ELSE pc[u]
  BY DEF LInv, TypeOK
<1>1. TypeOK'
  BY DEF LInv, TypeOK
<1>2. Arguments'
  BY <1>0 DEF LInv, Arguments
<1>3. Exclusion'
  BY <1>0 DEF LInv, Exclusion
<1>4. Adding'
  BY <1>0 DEF LInv, Adding, At, Registered, NewSink
<1>5. Sinks'
  BY <1>0 DEF LInv, Sinks, At, Registered, SinkOf
<1>6. Attributes'
  BY <1>0 DEF LInv, Attributes
<1>7. Cerr'
  BY <1>0 DEF LInv, Cerr, Between, MutexFree, At, Registered
<1>. QED
  BY <1>1, <1>2, <1>3, <1>4, <1>5, <1>6, <1>7 DEF LInv

\* What a thread goes on with after an add function.
LEMMA ReturnedFrame ==
    ASSUME LInv, NEW th \in Threads, pc[th].at \in {"calling", "added"}
    PROVE  \E f \in Frame :
            /\ Returned(th) = [pc EXCEPT ![th] = f]
            /\ \/ f.at = "idle"
               \/ /\ f.at = "calling" /\ f.tag = pc[th].tag
                  /\ f.tag \in AllTags /\ f.stream \in Streams /\ f.level \in Levels
<1>. pc \in [Threads -> Frame]
  BY DEF LInv, TypeOK
<1>1. CASE pc[th].tag \in ClassTags /\ pc[th].stream = "cout"
  <2>. DEFINE f == [pc[th] EXCEPT !.at = "calling", !.stream = "cerr", !.level = Error]
  <2>1. f \in Frame /\ f.stream \in Streams /\ f.level \in Levels
    BY LevelAssumption, StreamAssumption DEF Frame
  <2>2. f.at = "calling" /\ f.tag = pc[th].tag /\ f.tag \in AllTags
    BY <1>1 DEF Frame, AllTags
  <2>3. Returned(th) = [pc EXCEPT ![th] = f]
    BY <1>1 DEF Returned, Frame
  <2>. QED
    BY <2>1, <2>2, <2>3
<1>2. CASE ~(pc[th].tag \in ClassTags /\ pc[th].stream = "cout")
  <2>1. Idle \in Frame /\ Idle.at = "idle"
    BY DEF Idle, Frame
  <2>2. Returned(th) = [pc EXCEPT ![th] = Idle]
    BY <1>2 DEF Returned
  <2>. QED
    BY <2>1, <2>2
<1>. QED
  BY <1>1, <1>2

LEMMA CallStep ==
    ASSUME LInv, NEW th \in Threads, NEW t \in AllTags, NEW stream \in Streams,
           NEW level \in Levels, At(th, "idle"), Call(th, t, stream, level),
           t \in ClassTags => stream = "cout",
           cleared' \in {cleared, cleared \ {th}},
           UNCHANGED <<loggers_, core, attributes, init_, last>>
    PROVE  LInv'
<1>. DEFINE f == [at |-> "calling", tag |-> t, stream |-> stream, level |-> level]
<1>1. f \in Frame /\ f.at = "calling" /\ f.tag = t /\ f.stream = stream /\ f.level = level
  BY DEF Frame
<1>2. pc' = [pc EXCEPT ![th] = f]
  BY DEF Call
<1>. HIDE DEF f
<1>3. init_ => attributes
  BY DEF LInv, Attributes
<1>4. cleared' \subseteq Threads /\ \A u \in Threads : u # th /\ u \in cleared => u \in cleared'
  BY DEF LInv, TypeOK
<1>. QED
  BY <1>1, <1>2, <1>3, <1>4, QuietStep DEF At

LEMMA EnterStep ==
    ASSUME LInv, NEW th \in Threads, Enter(th)
    PROVE  LInv'
<1>. pc \in [Threads -> Frame] /\ core \in Seq(Sink) /\ At(th, "calling")
  BY DEF LInv, TypeOK, Enter
<1>1. CASE Registered(pc[th].tag)
  <2>1. PICK f \in Frame :
            /\ Returned(th) = [pc EXCEPT ![th] = f]
            /\ \/ f.at = "idle"
               \/ /\ f.at = "calling" /\ f.tag = pc[th].tag
                  /\ f.tag \in AllTags /\ f.stream \in Streams /\ f.level \in Levels
    BY ReturnedFrame DEF At
  <2>2. pc' = [pc EXCEPT ![th] = f] /\ UNCHANGED <<loggers_, core, attributes, init_, cleared>>
    BY <1>1, <2>1 DEF Enter
  <2>3. (init_ => attributes) /\ cleared \subseteq Threads /\ MutexFree
    BY DEF LInv, TypeOK, Attributes, Enter
  <2>. QED
    BY <1>1, <2>1, <2>2, <2>3, QuietStep DEF At
<1>2. CASE ~Registered(pc[th].tag)
  <2>0. /\ pc' = [pc EXCEPT ![th].at = "added"] /\ core' = Append(core, NewSink(th))
        /\ UNCHANGED <<loggers_, attributes, init_, cleared>>
        /\ \A u \in Threads : pc[u].at \notin {"added", "clearing"}
    BY <1>2 DEF Enter, Go, NewSink, MutexFree
  <2>1. /\ pc[th].tag \in AllTags /\ pc[th].stream \in Streams /\ pc[th].level \in Levels
        /\ NewSink(th) \in Sink /\ NewSink(th).tag = pc[th].tag
    BY DEF LInv, Arguments, NewSink, Sink, At
  <2>2. /\ \A u \in Threads : u # th => pc'[u] = pc[u]
        /\ pc'[th].at = "added" /\ pc'[th].tag = pc[th].tag
        /\ pc'[th].stream = pc[th].stream /\ pc'[th].level = pc[th].level
        /\ pc' \in [Threads -> Frame]
    BY <2>0 DEF Frame
  <2>3. /\ core' \in Seq(Sink) /\ Len(core') = Len(core) + 1 /\ Len(core) \in Nat
        /\ DOMAIN core' = 1 .. (Len(core) + 1) /\ DOMAIN core = 1 .. Len(core)
        /\ \A i \in DOMAIN core : core'[i] = core[i]
        /\ core'[Len(core) + 1] = NewSink(th)
    BY <2>0, <2>1
  <2>4. TypeOK'
    BY <2>0, <2>2, <2>3 DEF LInv, TypeOK
  <2>5. Arguments'
    BY <2>1, <2>2 DEF LInv, Arguments
  <2>6. Exclusion'
    BY <2>0, <2>2 DEF Exclusion
  <2>7. Adding'
    <3>1. NewSink(th)' = NewSink(th)
      BY <2>2 DEF NewSink
    <3>2. ~Registered(pc[th].tag)' /\ Len(core') \in DOMAIN core'
      BY <1>2, <2>0, <2>2, <2>3 DEF Registered
    <3>. QED
      BY <2>0, <2>2, <2>3, <3>1, <3>2 DEF Adding, At
  <2>8. Sinks'
    <3>1. \A i \in DOMAIN core : Registered(core[i].tag) /\ core[i] = SinkOf(core[i].tag)
      BY <2>0 DEF LInv, Sinks, At
    <3>a. \A t : SinkOf(t)' = SinkOf(t) /\ Registered(t)' = Registered(t)
      BY <2>0 DEF Registered, SinkOf
    <3>2. ASSUME NEW i \in DOMAIN core'
          PROVE  \/ Registered(core[i].tag)' /\ core'[i] = SinkOf(core[i].tag)'
                 \/ i = Len(core') /\ \E u \in Threads : At(u, "added")'
      <4>1. CASE i \in DOMAIN core
        <5>1. core'[i] = core[i] /\ core[i] = SinkOf(core[i].tag) /\ Registered(core[i].tag)
          BY <2>3, <3>1, <4>1
        <5>. QED
          BY <3>a, <5>1 DEF SinkOf, Registered
      <4>2. CASE i \notin DOMAIN core
        BY <2>2, <2>3, <4>2 DEF At
      <4>. QED
        BY <4>1, <4>2
    <3>3. ASSUME NEW t \in AllTags, Registered(t)'
          PROVE  \E i \in DOMAIN core' : core'[i] = SinkOf(t)'
      <4>1. PICK i \in DOMAIN core : core[i] = SinkOf(t)
        BY <3>3, <3>a DEF LInv, Sinks
      <4>2. i \in DOMAIN core' /\ core'[i] = SinkOf(t)'
        BY <2>3, <3>a, <4>1
      <4>. QED
        BY <4>2
    <3>4. ASSUME NEW i \in DOMAIN core', NEW j \in DOMAIN core',
                 core'[i].tag = core'[j].tag
          PROVE  i = j
      <4>1. \A k \in DOMAIN core : core[k].tag # NewSink(th).tag
        BY <1>2, <2>1, <3>1
      <4>2. \A k, l \in DOMAIN core : core[k].tag = core[l].tag => k = l
        BY DEF LInv, Sinks
      <4>. QED
        BY <2>3, <3>4, <4>1, <4>2
    <3>. QED
      BY <3>2, <3>3, <3>4 DEF Sinks
  <2>9. Attributes'
    BY <2>0, <2>2 DEF LInv, Attributes
  <2>10. Cerr'
    BY <1>2, <2>0, <2>2 DEF LInv, Cerr, Between, At, Registered
  <2>. QED
    BY <2>4, <2>5, <2>6, <2>7, <2>8, <2>9, <2>10 DEF LInv
<1>. QED
  BY <1>1, <1>2

LEMMA RegisterStep ==
    ASSUME LInv, NEW th \in Threads, Register(th)
    PROVE  LInv'
<1>n. PICK n : n = Len(core)
  OBVIOUS
<1>t. PICK t : t = pc[th].tag
  OBVIOUS
<1>r. PICK r : r = [stream |-> pc[th].stream, level |-> pc[th].level]
  OBVIOUS
<1>0. /\ pc \in [Threads -> Frame] /\ core \in Seq(Sink) /\ pc[th].at = "added"
      /\ loggers_ \in [AllTags -> Logger \cup {None}]
      /\ pc' = Returned(th) /\ UNCHANGED <<attributes, init_, cleared>>
      /\ core' = [core EXCEPT ![n] = FilteredSink(th)] /\ loggers_' = [loggers_ EXCEPT ![t] = r]
  BY <1>n, <1>t, <1>r DEF LInv, TypeOK, Register, At
<1>1. t \in AllTags /\ pc[th].stream \in Streams /\ pc[th].level \in Levels
  BY <1>0, <1>t DEF LInv, Arguments
<1>2. n \in DOMAIN core /\ core[n] = NewSink(th) /\ ~Registered(t)
  BY <1>0, <1>n, <1>t DEF LInv, Adding, At
<1>3. r \in Logger /\ r # None /\ r.stream = pc[th].stream /\ r.level = pc[th].level
  BY <1>1, <1>r, NoneAssumption DEF Logger
<1>4. PICK f \in Frame :
        /\ Returned(th) = [pc EXCEPT ![th] = f]
        /\ \/ f.at = "idle"
           \/ /\ f.at = "calling" /\ f.tag = pc[th].tag
              /\ f.tag \in AllTags /\ f.stream \in Streams /\ f.level \in Levels
  BY <1>0, ReturnedFrame
<1>5. /\ pc' \in [Threads -> Frame] /\ pc'[th] = f /\ f.at \notin {"added", "clearing"}
      /\ \A u \in Threads : u # th => pc'[u] = pc[u] /\ pc'[u].at \notin {"added", "clearing"}
  BY <1>0, <1>4 DEF LInv, Exclusion
<1>6. /\ loggers_' \in [AllTags -> Logger \cup {None}] /\ loggers_'[t] = r
      /\ \A u \in AllTags : u # t => loggers_'[u] = loggers_[u]
  BY <1>0, <1>1, <1>3
<1>7. /\ core' \in Seq(Sink) /\ DOMAIN core' = DOMAIN core /\ Len(core') = n
      /\ core'[n] = [tag |-> t, stream |-> r.stream, level |-> r.level, filtered |-> TRUE]
      /\ \A i \in DOMAIN core : i # n => core'[i] = core[i]
  <2>1. FilteredSink(th) =
            [tag |-> t, stream |-> r.stream, level |-> r.level, filtered |-> TRUE]
    BY <1>3, <1>t DEF FilteredSink
  <2>2. FilteredSink(th) \in Sink
    BY <1>1, <1>3, <2>1 DEF Sink
  <2>. QED
    BY <1>0, <1>2, <1>n, <2>1, <2>2
<1>8. /\ Registered(t)' /\ SinkOf(t)' = core'[n] /\ core'[n].tag = t /\ core[n].tag = t
      /\ \A u \in AllTags : u # t => Registered(u)' = Registered(u) /\ SinkOf(u)' = SinkOf(u)
  <2>1. Registered(t)' /\ core'[n].tag = t
    BY <1>3, <1>6, <1>7 DEF Registered
  <2>3. SinkOf(t)' = core'[n]
    BY <1>6, <1>7 DEF SinkOf
  <2>2. core[n].tag = t
    BY <1>2, <1>t DEF NewSink
  <2>. QED
    BY <1>6, <2>1, <2>2, <2>3 DEF Registered, SinkOf
<1>9. TypeOK'
  BY <1>0, <1>5, <1>6, <1>7 DEF LInv, TypeOK
<1>10. Arguments'
  BY <1>4, <1>5 DEF LInv, Arguments
<1>11. Exclusion' /\ Adding'
  BY <1>5 DEF Exclusion, Adding, At
<1>12. Sinks'
  <2>0. \A i \in DOMAIN core : core[i] \in Sink /\ core[i].tag \in AllTags
    <3>1. \A i \in DOMAIN core : core[i] \in Sink
      BY <1>0
    <3>. QED
      BY <3>1 DEF Sink
  <2>1. \A i, j \in DOMAIN core : core[i].tag = core[j].tag => i = j
    BY DEF LInv, Sinks
  <2>2. \A i \in DOMAIN core : core'[i].tag = core[i].tag
    BY <1>7, <1>8
  <2>3. ASSUME NEW i \in DOMAIN core'
        PROVE  Registered(core[i].tag)' /\ core'[i] = SinkOf(core[i].tag)'
    <3>1. CASE i = n
      <4>1. core'[i] = SinkOf(t)' /\ core'[i].tag = t /\ Registered(t)'
        BY <1>8, <3>1
      <4>. QED
        BY <4>1 DEF SinkOf, Registered
    <3>2. CASE i # n
      <4>1. Registered(core[i].tag) /\ core[i] = SinkOf(core[i].tag)
        BY <1>7, <1>n, <3>2 DEF LInv, Sinks
      <4>2. core[i].tag # t /\ core[i].tag \in AllTags
        BY <1>2, <1>7, <1>8, <2>0, <2>1, <3>2
      <4>3. /\ loggers_'[core[i].tag] = loggers_[core[i].tag] /\ core'[i] = core[i]
        BY <1>6, <1>7, <3>2, <4>2
      <4>. QED
        BY <4>1, <4>3 DEF SinkOf, Registered
    <3>. QED
      BY <3>1, <3>2
  <2>4. ASSUME NEW u \in AllTags, Registered(u)'
        PROVE  \E i \in DOMAIN core' : core'[i] = SinkOf(u)'
    <3>1. CASE u = t
      BY <1>2, <1>7, <1>8, <3>1
    <3>2. CASE u # t
      <4>1. PICK i \in DOMAIN core : core[i] = SinkOf(u)
        BY <1>8, <2>4, <3>2 DEF LInv, Sinks
      <4>2. core[i].tag = u
        BY <4>1 DEF SinkOf
      <4>3. i # n
        BY <1>8, <3>2, <4>2
      <4>4. i \in DOMAIN core' /\ core'[i] = SinkOf(u)'
        BY <1>7, <1>8, <3>2, <4>1, <4>3
      <4>. QED
        BY <4>4
    <3>. QED
      BY <3>1, <3>2
  <2>. QED
    BY <1>7, <2>1, <2>2, <2>3, <2>4 DEF Sinks
<1>13. Attributes'
  BY <1>0, <1>4, <1>5 DEF LInv, Attributes
<1>14. Cerr'
  <2>1. f.at = "calling" => f.tag = t
    BY <1>4, <1>t
  <2>2. ASSUME NEW u \in Threads, Between(u)'
        PROVE  Registered(pc[u].tag)' \/ u \in cleared'
    <3>1. CASE u = th
      BY <1>5, <1>8, <2>1, <2>2, <3>1 DEF Between, At, Registered
    <3>2. CASE u # th
      <4>1. Registered(pc[u].tag) \/ u \in cleared
        BY <1>5, <2>2, <3>2 DEF LInv, Cerr, Between, At
      <4>2. pc'[u].tag = pc[u].tag /\ pc[u].tag \in AllTags
        BY <1>5, <2>2, <3>2 DEF Between, AllTags
      <4>. QED
        BY <1>0, <1>3, <1>6, <4>1, <4>2 DEF Registered
    <3>. QED
      BY <3>1, <3>2
  <2>. QED
    BY <1>5, <2>2 DEF Cerr, At
<1>. QED
  BY <1>9, <1>10, <1>11, <1>12, <1>13, <1>14 DEF LInv

LEMMA ClearEnterStep ==
    ASSUME LInv, NEW th \in Threads, ClearEnter(th)
    PROVE  LInv'
<1>0. /\ pc \in [Threads -> Frame] /\ pc' = [pc EXCEPT ![th].at = "clearing"]
      /\ cleared' = cleared \cup {u \in Threads : Between(u)}
      /\ UNCHANGED <<loggers_, core, attributes, init_>>
      /\ \A u \in Threads : pc[u].at \notin {"added", "clearing"}
  BY DEF LInv, TypeOK, ClearEnter, Go, MutexFree
<1>1. /\ pc' \in [Threads -> Frame] /\ pc'[th].at = "clearing"
      /\ \A u \in Threads : u # th => pc'[u] = pc[u]
  BY <1>0 DEF Frame
<1>2. TypeOK' /\ Arguments'
  BY <1>0, <1>1 DEF LInv, TypeOK, Arguments
<1>3. Exclusion' /\ Adding'
  BY <1>0, <1>1 DEF Exclusion, Adding, At
<1>4. Sinks'
  BY <1>0 DEF LInv, Sinks, SinkOf, Registered, At
<1>5. Attributes'
  BY <1>0, <1>1 DEF LInv, Attributes
<1>6. Cerr'
  <2>1. \A u \in Threads : (Between(u)' => Between(u)) /\ (Between(u) => u \in cleared')
    BY <1>0, <1>1 DEF Between, At
  <2>. QED
    BY <1>0, <1>1, <2>1 DEF Cerr, At
<1>. QED
  BY <1>2, <1>3, <1>4, <1>5, <1>6 DEF LInv

\* The sequence without its entry at i: where each of the others goes.
LEMMA Removal ==
    ASSUME NEW S, NEW s \in Seq(S), NEW i \in DOMAIN s
    PROVE  LET r == SubSeq(s, 1, i - 1) \o SubSeq(s, i + 1, Len(s))
           IN  /\ r \in Seq(S) /\ DOMAIN r = 1 .. (Len(s) - 1)
               /\ \A k \in 1 .. (Len(s) - 1) : r[k] = IF k < i THEN s[k] ELSE s[k + 1]
               /\ Len(s) \in Nat /\ DOMAIN s = 1 .. Len(s)
<1>. DEFINE a == SubSeq(s, 1, i - 1)
            b == SubSeq(s, i + 1, Len(s))
            r == a \o b
<1>1. /\ Len(s) \in Nat /\ DOMAIN s = 1 .. Len(s) /\ i \in 1 .. Len(s)
      /\ \A k \in 1 .. Len(s) : s[k] \in S
  BY LenProperties, ElementOfSeq
<1>2. a \in Seq(S) /\ Len(a) = i - 1 /\ \A k \in 1 .. (i - 1) : a[k] = s[k]
  <2>1. \A k \in 1 .. (i - 1) : s[k] \in S
    BY <1>1
  <2>2. /\ a \in Seq(S) /\ Len(a) = (IF 1 <= i - 1 THEN (i - 1) - 1 + 1 ELSE 0)
        /\ \A k \in 1 .. ((i - 1) - 1 + 1) : a[k] = s[1 + k - 1]
    BY <1>1, <2>1, SubSeqProperties
  <2>. QED
    BY <1>1, <2>2
<1>3. b \in Seq(S) /\ Len(b) = Len(s) - i /\ \A k \in 1 .. (Len(s) - i) : b[k] = s[k + i]
  <2>1. \A k \in (i + 1) .. Len(s) : s[k] \in S
    BY <1>1
  <2>2. /\ b \in Seq(S) /\ Len(b) = (IF i + 1 <= Len(s) THEN Len(s) - (i + 1) + 1 ELSE 0)
        /\ \A k \in 1 .. (Len(s) - (i + 1) + 1) : b[k] = s[(i + 1) + k - 1]
    BY <1>1, <2>1, SubSeqProperties
  <2>3. \A k \in 1 .. (Len(s) - i) : (i + 1) + k - 1 = k + i
    BY <1>1
  <2>. QED
    BY <1>1, <2>2, <2>3
<1>. HIDE DEF a, b
<1>4. /\ r \in Seq(S) /\ Len(r) = Len(a) + Len(b)
      /\ \A k \in 1 .. (Len(a) + Len(b)) : r[k] = IF k <= Len(a) THEN a[k] ELSE b[k - Len(a)]
  BY <1>2, <1>3, ConcatProperties
<1>. HIDE DEF r
<1>5. DOMAIN r = 1 .. Len(r) /\ Len(r) = Len(s) - 1
  BY <1>1, <1>2, <1>3, <1>4, LenProperties
<1>6. ASSUME NEW k \in 1 .. (Len(s) - 1)
      PROVE  r[k] = IF k < i THEN s[k] ELSE s[k + 1]
  <2>1. CASE k < i
    BY <1>1, <1>2, <1>3, <1>4, <2>1
  <2>2. CASE ~(k < i)
    <3>1. r[k] = b[k - (i - 1)] /\ k - (i - 1) \in 1 .. (Len(s) - i)
      BY <1>1, <1>2, <1>3, <1>4, <2>2
    <3>2. (k - (i - 1)) + i = k + 1
      BY <1>1
    <3>. QED
      BY <1>3, <2>2, <3>1, <3>2
  <2>. QED
    BY <2>1, <2>2
<1>. QED
  BY <1>1, <1>4, <1>5, <1>6 DEF r, a, b

LEMMA RemoveSinkStep ==
    ASSUME LInv, NEW th \in Threads, NEW t \in AllTags, RemoveSink(th, t)
    PROVE  LInv'
<1>0. /\ core \in Seq(Sink) /\ loggers_ \in [AllTags -> Logger \cup {None}]
      /\ loggers_' = [loggers_ EXCEPT ![t] = None] /\ UNCHANGED <<attributes, init_, pc, cleared>>
      /\ pc[th].at = "clearing"
  BY DEF LInv, TypeOK, RemoveSink, At
<1>1. PICK i \in DOMAIN core :
        core[i].tag = t /\ core' = SubSeq(core, 1, i - 1) \o SubSeq(core, i + 1, Len(core))
  BY DEF RemoveSink
<1>2. /\ core' \in Seq(Sink) /\ DOMAIN core' = 1 .. (Len(core) - 1)
      /\ \A k \in 1 .. (Len(core) - 1) : core'[k] = IF k < i THEN core[k] ELSE core[k + 1]
      /\ Len(core) \in Nat /\ DOMAIN core = 1 .. Len(core)
  BY <1>0, <1>1, Removal
<1>3. \A u \in Threads : pc[u].at # "added"
  BY <1>0 DEF LInv, Exclusion
<1>4. /\ loggers_' \in [AllTags -> Logger \cup {None}] /\ loggers_'[t] = None
      /\ \A u \in AllTags : u # t => loggers_'[u] = loggers_[u]
  BY <1>0
<1>5. \A j \in DOMAIN core :
        core[j].tag \in AllTags /\ Registered(core[j].tag) /\ core[j] = SinkOf(core[j].tag)
  <2>1. \A j \in DOMAIN core : core[j] \in Sink
    BY <1>0
  <2>. QED
    BY <1>3, <2>1 DEF LInv, Sinks, At, Sink
<1>6. \A j, k \in DOMAIN core : core[j].tag = core[k].tag => j = k
  BY DEF LInv, Sinks
<1>7. TypeOK' /\ Arguments' /\ Exclusion' /\ Adding' /\ Attributes'
  BY <1>0, <1>2, <1>3, <1>4 DEF LInv, TypeOK, Arguments, Exclusion, Adding, Attributes, At
<1>8. Sinks'
  <2>1. \A k \in DOMAIN core' : \E j \in DOMAIN core : j # i /\ core'[k] = core[j]
    <3>. SUFFICES ASSUME NEW k \in DOMAIN core'
                  PROVE  \E j \in DOMAIN core : j # i /\ core'[k] = core[j]
      OBVIOUS
    <3>1. k \in DOMAIN core /\ k + 1 \in DOMAIN core
      BY <1>2
    <3>2. CASE k < i
      BY <1>2, <3>1, <3>2
    <3>3. CASE ~(k < i)
      <4>0. i \in 1 .. Len(core) /\ k \in 1 .. (Len(core) - 1)
        BY <1>2
      <4>1. k + 1 # i /\ core'[k] = core[k + 1]
        BY <1>2, <3>3, <4>0
      <4>. QED
        BY <3>1, <4>1
    <3>. QED
      BY <3>2, <3>3
  <2>2. ASSUME NEW k \in DOMAIN core'
        PROVE  Registered(core[k].tag)' /\ core'[k] = SinkOf(core[k].tag)'
    <3>1. PICK j \in DOMAIN core : j # i /\ core'[k] = core[j]
      BY <2>1
    <3>2. core[j].tag # t
      BY <1>1, <1>6, <3>1
    <3>3. loggers_'[core[j].tag] = loggers_[core[j].tag]
      BY <1>4, <1>5, <3>2
    <3>. QED
      BY <1>5, <3>1, <3>3 DEF Registered, SinkOf
  <2>3. ASSUME NEW u \in AllTags, Registered(u)'
        PROVE  \E k \in DOMAIN core' : core'[k] = SinkOf(u)'
    <3>1. u # t /\ Registered(u) /\ SinkOf(u)' = SinkOf(u)
      BY <1>4, <2>3 DEF Registered, SinkOf
    <3>2. PICK j \in DOMAIN core : core[j] = SinkOf(u)
      BY <3>1 DEF LInv, Sinks
    <3>3. j # i
      BY <1>1, <3>1, <3>2 DEF SinkOf
    <3>4. CASE j < i
      <4>0. i \in 1 .. Len(core) /\ j \in 1 .. Len(core)
        BY <1>2
      <4>1. j \in DOMAIN core' /\ core'[j] = core[j]
        BY <1>2, <3>4, <4>0
      <4>. QED
        BY <3>1, <3>2, <4>1
    <3>5. CASE j > i
      <4>1. j - 1 \in DOMAIN core' /\ ~(j - 1 < i) /\ (j - 1) + 1 = j
        BY <1>1, <1>2, <3>5
      <4>2. core'[j - 1] = core[j]
        BY <1>2, <4>1
      <4>. QED
        BY <3>1, <3>2, <4>1, <4>2
    <3>. QED
      BY <1>2, <3>3, <3>4, <3>5
  <2>4. ASSUME NEW k \in DOMAIN core', NEW l \in DOMAIN core', core'[k].tag = core'[l].tag
        PROVE  k = l
    <3>. DEFINE at(x) == IF x < i THEN x ELSE x + 1
    <3>1. /\ at(k) \in DOMAIN core /\ core'[k] = core[at(k)]
          /\ at(l) \in DOMAIN core /\ core'[l] = core[at(l)]
      BY <1>2
    <3>2. at(k) = at(l)
      BY <1>6, <2>4, <3>1
    <3>. QED
      BY <1>1, <1>2, <3>2
  <2>. QED
    BY <2>2, <2>3, <2>4 DEF Sinks
<1>9. Cerr'
  <2>1. \A u \in Threads : Between(u) => u \in cleared
    BY <1>0 DEF LInv, Cerr, At
  <2>. QED
    BY <1>0, <1>3, <2>1 DEF Cerr, Between, At
<1>. QED
  BY <1>7, <1>8, <1>9 DEF LInv

LEMMA ClearEndStep ==
    ASSUME LInv, NEW th \in Threads, ClearEnd(th)
    PROVE  LInv'
<1>0. /\ pc \in [Threads -> Frame] /\ pc' = [pc EXCEPT ![th] = Idle] /\ core' = <<>>
      /\ UNCHANGED <<loggers_, attributes, init_, cleared>> /\ pc[th].at = "clearing"
      /\ \A t \in AllTags : ~Registered(t)
  BY DEF LInv, TypeOK, ClearEnd, At
<1>1. /\ Idle \in Frame /\ Idle.at = "idle" /\ pc' \in [Threads -> Frame]
      /\ pc'[th].at = "idle" /\ \A u \in Threads : u # th => pc'[u] = pc[u]
  BY <1>0 DEF Idle, Frame
<1>2. \A u \in Threads : pc'[u].at \notin {"added", "clearing"}
  BY <1>0, <1>1 DEF LInv, Exclusion
<1>3. core' \in Seq(Sink) /\ DOMAIN core' = {}
  BY <1>0
<1>4. TypeOK' /\ Arguments'
  BY <1>0, <1>1, <1>3 DEF LInv, TypeOK, Arguments
<1>5. Exclusion' /\ Adding'
  BY <1>2 DEF Exclusion, Adding, At
<1>6. Sinks'
  BY <1>0, <1>3 DEF Sinks, Registered
<1>7. Attributes'
  BY <1>0, <1>1 DEF LInv, Attributes
<1>8. Cerr'
  <2>1. \A u \in Threads : Between(u)' => u \in cleared
    BY <1>0, <1>1 DEF LInv, Cerr, Between, At
  <2>. QED
    BY <1>0, <1>2, <2>1 DEF Cerr, At
<1>. QED
  BY <1>4, <1>5, <1>6, <1>7, <1>8 DEF LInv

LEMMA LogStep ==
    ASSUME LInv, NEW th \in Threads, NEW t \in AllTags, NEW level \in Levels,
           Log(th, t, level)
    PROVE  LInv'
<1>. PICK loc : loc = IF init_ THEN "ready" ELSE "initializing"
  OBVIOUS
<1>. PICK f : f = [at |-> loc, tag |-> t, stream |-> None, level |-> level]
  OBVIOUS
<1>1. /\ f \in Frame /\ f.at = loc /\ f.at \in {"ready", "initializing"}
      /\ f.tag = t /\ f.level = level /\ (f.at = "ready" => init_)
  BY DEF Frame
<1>2. /\ pc' = [pc EXCEPT ![th] = f] /\ pc[th].at = "idle"
      /\ UNCHANGED <<loggers_, core, attributes, init_, cleared>>
  BY DEF Log, At
<1>3. (init_ => attributes) /\ cleared \subseteq Threads
  BY DEF LInv, TypeOK, Attributes
<1>. QED
  BY <1>1, <1>2, <1>3, QuietStep

LEMMA WriteStep ==
    ASSUME LInv, NEW th \in Threads, Write(th)
    PROVE  LInv'
<1>. pc \in [Threads -> Frame] /\ cleared \subseteq Threads /\ (init_ => attributes)
  BY DEF LInv, TypeOK, Attributes
<1>1. CASE AddCommonAttributes(th)
  <2>. PICK f : f = [pc[th] EXCEPT !.at = "attributed"]
    OBVIOUS
  <2>1. f \in Frame /\ f.at = "attributed" /\ f.tag = pc[th].tag /\ f.level = pc[th].level
    BY DEF Frame
  <2>2. /\ pc' = [pc EXCEPT ![th] = f] /\ pc[th].at = "initializing" /\ attributes' = TRUE
        /\ UNCHANGED <<loggers_, core, init_, cleared>>
    BY <1>1 DEF AddCommonAttributes, At, Go
  <2>3. f.tag \in AllTags /\ f.level \in Levels
    BY <2>1, <2>2 DEF LInv, Arguments
  <2>. QED
    BY <2>1, <2>2, <2>3, QuietStep
<1>2. CASE StoreInit(th)
  <2>. PICK f : f = [pc[th] EXCEPT !.at = "ready"]
    OBVIOUS
  <2>1. f \in Frame /\ f.at = "ready" /\ f.tag = pc[th].tag /\ f.level = pc[th].level
    BY DEF Frame
  <2>2. /\ pc' = [pc EXCEPT ![th] = f] /\ pc[th].at = "attributed" /\ init_' = TRUE
        /\ UNCHANGED <<loggers_, core, attributes, cleared>>
    BY <1>2 DEF StoreInit, At, Go
  <2>3. f.tag \in AllTags /\ f.level \in Levels
    BY <2>1, <2>2 DEF LInv, Arguments
  <2>4. attributes
    BY <2>2 DEF LInv, Attributes
  <2>. QED
    BY <2>1, <2>2, <2>3, <2>4, QuietStep
<1>3. CASE Emit(th)
  <2>1. Idle \in Frame /\ Idle.at = "idle"
    BY DEF Idle, Frame
  <2>2. /\ pc' = [pc EXCEPT ![th] = Idle] /\ pc[th].at = "ready"
        /\ UNCHANGED <<loggers_, core, attributes, init_, cleared>>
    BY <1>3 DEF Emit, At
  <2>. QED
    BY <2>1, <2>2, QuietStep
<1>. QED
  BY <1>1, <1>2, <1>3 DEF Write

LEMMA StutterStep == ASSUME LInv, UNCHANGED vars PROVE LInv'
BY DEF LInv, vars, TypeOK, Arguments, Exclusion, Adding, Sinks, Attributes, Cerr,
       Between, At, Registered, SinkOf, NewSink

LEMMA NextStep == ASSUME LInv, [Next]_vars PROVE LInv'
<1>1. CASE UNCHANGED vars
  BY <1>1, StutterStep
<1>2. ASSUME NEW th \in Threads, NEW t \in Tags, NEW stream \in Streams, NEW level \in Levels,
             add_logger(th, t, stream, level)
      PROVE  LInv'
  <2>1. t \in AllTags /\ t \notin ClassTags
    BY TagAssumption DEF AllTags
  <2>. QED
    BY <1>2, <2>1, CallStep DEF add_logger
<1>3. ASSUME NEW th \in Threads, NEW t \in ClassTags, NEW level \in Levels,
             LoggedClass(th, t, level)
      PROVE  LInv'
  <2>1. t \in AllTags /\ "cout" \in Streams
    BY StreamAssumption DEF AllTags
  <2>. QED
    BY <1>3, <2>1, CallStep DEF LoggedClass
<1>4. ASSUME NEW th \in Threads, NEW t \in AllTags, NEW level \in Levels,
             Log(th, t, level) \/ RemoveSink(th, t)
      PROVE  LInv'
  BY <1>4, LogStep, RemoveSinkStep
<1>5. ASSUME NEW th \in Threads, Enter(th) \/ Register(th) \/ ClearEnter(th) \/ ClearEnd(th)
                                    \/ Write(th)
      PROVE  LInv'
  BY <1>5, EnterStep, RegisterStep, ClearEnterStep, ClearEndStep, WriteStep
<1>6. Levels # {}
  BY LevelAssumption
<1>. QED
  BY <1>1, <1>2, <1>3, <1>4, <1>5, <1>6 DEF Next

\* The inductive invariant: loggers_mutex_ excludes, the thread that holds it in
\* an add function has put the last sink into the core, and every other sink
\* is the one registered for its tag.
THEOREM LoggingInvariant == Spec => []LInv
BY InitInv, NextStep, PTL DEF Spec

-----------------------------------------------------------------------------
LEMMA CoreCounted == ASSUME LInv PROVE RegistryIsCore
<1>. SUFFICES ASSUME MutexFree
              PROVE  /\ {core[i] : i \in DOMAIN core} =
                            {SinkOf(t) : t \in {u \in AllTags : Registered(u)}}
                     /\ Len(core) = Cardinality({t \in AllTags : Registered(t)})
  BY DEF LInv, RegistryIsCore, SinkOf
<1>. DEFINE R == {t \in AllTags : Registered(t)}
            tags == [i \in 1 .. Len(core) |-> core[i].tag]
<1>0. core \in Seq(Sink) /\ DOMAIN core = 1 .. Len(core) /\ Len(core) \in Nat
  BY LenProperties DEF LInv, TypeOK
<1>1. \A i \in DOMAIN core :
        core[i].tag \in AllTags /\ Registered(core[i].tag) /\ core[i] = SinkOf(core[i].tag)
  <2>1. \A i \in DOMAIN core : core[i] \in Sink
    BY <1>0
  <2>. QED
    BY <2>1 DEF LInv, Sinks, MutexFree, At, Sink
<1>2. \A t \in R : \E i \in DOMAIN core : core[i] = SinkOf(t)
  BY DEF LInv, Sinks
<1>3. \A i, j \in DOMAIN core : core[i].tag = core[j].tag => i = j
  BY DEF LInv, Sinks
<1>4. {core[i] : i \in DOMAIN core} = {SinkOf(t) : t \in R}
  <2>1. ASSUME NEW i \in DOMAIN core PROVE core[i] \in {SinkOf(t) : t \in R}
    BY <1>1
  <2>2. ASSUME NEW t \in R PROVE SinkOf(t) \in {core[i] : i \in DOMAIN core}
    <3>1. PICK i \in DOMAIN core : core[i] = SinkOf(t)
      BY <1>2
    <3>. QED
      BY <3>1
  <2>. QED
    BY <2>1, <2>2
<1>5. tags \in Bijection(1 .. Len(core), R)
  <2>1. tags \in [1 .. Len(core) -> R]
    BY <1>0, <1>1
  <2>2. \A i, j \in 1 .. Len(core) : tags[i] = tags[j] => i = j
    BY <1>0, <1>3
  <2>3. \A t \in R : \E i \in 1 .. Len(core) : tags[i] = t
    <3>. SUFFICES ASSUME NEW t \in R PROVE \E i \in 1 .. Len(core) : tags[i] = t
      OBVIOUS
    <3>1. PICK i \in DOMAIN core : core[i] = SinkOf(t)
      BY <1>2
    <3>2. i \in 1 .. Len(core) /\ tags[i] = t
      BY <1>0, <3>1 DEF SinkOf
    <3>. QED
      BY <3>2
  <2>. HIDE DEF tags, R
  <2>. QED
    BY <2>1, <2>2, <2>3, Fun_IsBij
<1>6. ExistsBijection(1 .. Len(core), R)
  BY <1>5 DEF ExistsBijection
<1>7. Cardinality(R) = Len(core)
  BY <1>0, <1>6, FS_CountingElements
<1>. QED
  BY <1>4, <1>7

\* Whenever loggers_mutex_ is free, the core has exactly one sink for every
\* registered tag, and no other.
THEOREM RegistryMatchesCore == Spec => []RegistryIsCore
BY LoggingInvariant, CoreCounted, PTL

\* Nothing but a registration adds to loggers_, and only for the tag of its call.
LEMMA OnlyRegister ==
    ASSUME LInv, [Next]_vars, NEW t \in AllTags, loggers_'[t] # loggers_[t], loggers_'[t] # None
    PROVE  \E th \in Threads :
            Register(th) /\ pc[th].tag = t /\ loggers_'[t].stream = pc[th].stream
<1>. loggers_ \in [AllTags -> Logger \cup {None}]
  BY DEF LInv, TypeOK
<1>1. PICK u \in Threads : Register(u) \/ \E s \in AllTags : RemoveSink(u, s)
  BY DEF Next, vars, add_logger, LoggedClass, Enter, ClearEnter, ClearEnd, Log, Write,
         AddCommonAttributes, StoreInit, Emit
<1>2. CASE \E s \in AllTags : RemoveSink(u, s)
  BY <1>2 DEF RemoveSink
<1>3. CASE Register(u)
  BY <1>3 DEF Register
<1>. QED
  BY <1>1, <1>2, <1>3

\* The second logger of a LoggedClass is refused, unless clear_all came since the
\* first call of the same constructor.
THEOREM CerrRefused == Spec => CerrNeedsClear
<1>1. ASSUME LInv, [Next]_vars, NEW t \in ClassTags, loggers_'[t] # loggers_[t],
             loggers_'[t] # None, loggers_'[t].stream = "cerr"
      PROVE  \E th \in cleared : At(th, "added") /\ pc[th].tag = t
  <2>1. PICK th \in Threads :
            Register(th) /\ pc[th].tag = t /\ loggers_'[t].stream = pc[th].stream
    BY <1>1, OnlyRegister DEF AllTags
  <2>2. At(th, "added") /\ pc[th].tag \in ClassTags /\ pc[th].stream = "cerr"
    BY <1>1, <2>1 DEF Register
  <2>. QED
    BY <1>1, <2>1, <2>2 DEF LInv, Cerr
<1>2. LInv /\ [Next]_vars =>
        [\A t \in ClassTags :
            loggers_'[t] # loggers_[t] /\ loggers_'[t] # None /\ loggers_'[t].stream = "cerr" =>
                \E th \in cleared : At(th, "added") /\ pc[th].tag = t]_vars
  BY <1>1
<1>. QED
  BY <1>2, LoggingInvariant, PTL DEF Spec, CerrNeedsClear

-----------------------------------------------------------------------------
\* Nobody but the thread itself writes its record.
LEMMA OnlyEmit ==
    ASSUME LInv, [Next]_vars, NEW th \in Threads, At(th, "ready"), ~At(th, "ready")'
    PROVE  Emit(th)
<1>. pc \in [Threads -> Frame] /\ pc[th].at = "ready" /\ pc'[th].at # "ready"
  BY DEF LInv, TypeOK, At
<1>1. PICK u \in Threads :
        \/ \E t \in Tags, stream \in Streams, level \in Levels : add_logger(u, t, stream, level)
        \/ \E t \in ClassTags, level \in Levels : LoggedClass(u, t, level)
        \/ Enter(u) \/ Register(u) \/ ClearEnter(u) \/ ClearEnd(u)
        \/ \E t \in AllTags : RemoveSink(u, t)
        \/ \E t \in AllTags, level \in Levels : Log(u, t, level)
        \/ Write(u)
  BY DEF Next, vars
<1>2. CASE u = th
  BY <1>1, <1>2 DEF add_logger, LoggedClass, Enter, Register, ClearEnter, ClearEnd,
              RemoveSink, Log, Write, AddCommonAttributes, StoreInit, At
<1>3. CASE u # th
  <2>1. pc'[th] = pc[th]
    BY <1>1, <1>3 DEF add_logger, LoggedClass, Call, Enter, Register, Returned, ClearEnter,
              ClearEnd, RemoveSink, Log, Write, AddCommonAttributes, StoreInit, Emit, Go
  <2>. QED
    BY <2>1
<1>. QED
  BY <1>2, <1>3

LEMMA EmitDelivers ==
    ASSUME LInv, NEW th \in Threads, Emit(th)
    PROVE  Delivers(th)
<1>0. /\ core \in Seq(Sink) /\ pc[th].at = "ready" /\ pc[th].tag \in AllTags
  BY DEF LInv, TypeOK, Emit, At, Arguments
<1>1. /\ last'.to = {core[i].stream : i \in Reached(pc[th].tag, pc[th].level)}
      /\ last'.attributes = attributes /\ last'.default = (core = <<>>)
  BY DEF Emit
<1>2. ASSUME OwnStream(th) # {}
      PROVE  /\ Registered(pc[th].tag) /\ pc[th].level >= loggers_[pc[th].tag].level
             /\ OwnStream(th) = {loggers_[pc[th].tag].stream}
  BY <1>2 DEF OwnStream, Registered
<1>3. OwnStream(th) \subseteq last'.to /\ (OwnStream(th) # {} => core # <<>>)
  <2>. SUFFICES ASSUME OwnStream(th) # {}
                PROVE  loggers_[pc[th].tag].stream \in last'.to /\ core # <<>>
    BY <1>2
  <2>1. PICK i \in DOMAIN core : core[i] = SinkOf(pc[th].tag)
    BY <1>0, <1>2 DEF LInv, Sinks
  <2>2. /\ core[i].tag = pc[th].tag /\ core[i].stream = loggers_[pc[th].tag].stream
        /\ core[i].level = loggers_[pc[th].tag].level
    BY <2>1 DEF SinkOf
  <2>3. i \in Reached(pc[th].tag, pc[th].level)
    BY <1>2, <2>2 DEF Reached, Passes
  <2>4. core # <<>>
    BY <1>0, <2>1
  <2>. QED
    BY <1>1, <2>2, <2>3, <2>4
<1>4. last'.to \subseteq OwnStream(th) \cup BeingAdded
  <2>. SUFFICES ASSUME NEW i \in Reached(pc[th].tag, pc[th].level)
                PROVE  core[i].stream \in OwnStream(th) \cup BeingAdded
    BY <1>1
  <2>0. i \in DOMAIN core /\ Passes(core[i], pc[th].tag, pc[th].level)
    BY DEF Reached
  <2>1. CASE Registered(core[i].tag) /\ core[i] = SinkOf(core[i].tag)
    <3>1. /\ core[i].filtered /\ core[i].stream = loggers_[core[i].tag].stream
          /\ core[i].level = loggers_[core[i].tag].level
      BY <2>1 DEF SinkOf
    <3>2. core[i].tag = pc[th].tag /\ pc[th].level >= core[i].level
      BY <2>0, <3>1 DEF Passes
    <3>. QED
      BY <2>1, <3>1, <3>2 DEF OwnStream, Registered
  <2>2. CASE i = Len(core) /\ \E u \in Threads : At(u, "added")
    <3>1. PICK u \in Threads : At(u, "added")
      BY <2>2
    <3>2. core[i] = NewSink(u)
      BY <2>2, <3>1 DEF LInv, Adding
    <3>3. core[i].stream = pc[u].stream
      BY <3>2 DEF NewSink
    <3>. QED
      BY <3>1, <3>3 DEF BeingAdded
  <2>. QED
    BY <2>0, <2>1, <2>2 DEF LInv, Sinks
<1>5. BeingAdded # {} => core # <<>>
  <2>. SUFFICES ASSUME NEW u \in Threads, At(u, "added") PROVE core # <<>>
    BY DEF BeingAdded
  <2>1. Len(core) \in DOMAIN core
    BY DEF LInv, Adding
  <2>. QED
    BY <1>0, <2>1
<1>6. attributes
  BY <1>0 DEF LInv, Attributes
<1>. QED
  BY <1>1, <1>3, <1>4, <1>5, <1>6 DEF Delivers

\* Every record goes to the stream of its tag and, besides, at most to sinks
\* that are just being added; none is without the common attributes.
THEOREM RecordsDelivered == Spec => DeliveredExactly
<1>1. LInv /\ [Next]_vars =>
        [\A th \in Threads : At(th, "ready") /\ ~At(th, "ready")' => Delivers(th)]_vars
  BY OnlyEmit, EmitDelivers
<1>. QED
  BY <1>1, LoggingInvariant, PTL DEF Spec, DeliveredExactly
=============================================================================
