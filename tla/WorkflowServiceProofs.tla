------------------------ MODULE WorkflowServiceProofs ------------------------
(***************************************************************************)
(* The service never has two operations outstanding, whatever its clients  *)
(* do, and however many there are.                                         *)
(***************************************************************************)
EXTENDS WorkflowService, FiniteSetTheorems, TLAPS

\* The acceptor listens as long as the service is up, and nothing has happened
\* before it is.
AcceptorState ==
    /\ fate = "up" => acceptor = "listening"
    /\ fate = "starting" =>
        /\ dropped = "none"
        /\ \A o \in Ops : pending[o] = 0
        /\ \A c \in Clients : conn[c] = "out"

\* A session is alive exactly because of an operation that keeps it so, and
\* an operation of a client is one of its session.
SessionHasOp ==
    /\ \A c \in Clients : conn[c] = "session" =>
        \E o \in Ops : o.client = c /\ pending[o] > 0
    /\ \A o \in Ops : pending[o] > 0 /\ o.client # NoClient =>
        conn[o.client] = "session"

\* A connection that will go on has not been announced to end.
GoesOn(c) ==
    {Op("run", c), Op("handshake", c), Op("read", c), Write(c, FALSE)}

OpenUntilClosing ==
    \A c \in Clients : closing[c] =>
        /\ conn[c] \notin {"out", "backlog"}
        /\ \A o \in GoesOn(c) : pending[o] = 0

AtMostOne == \A o, p \in Ops : pending[o] > 0 /\ pending[p] > 0 => o = p

Only(n) == \A p \in Ops : pending[p] = IF p = n THEN 1 ELSE 0
Nothing == \A p \in Ops : pending[p] = 0

SInv ==
    /\ TypeOK
    /\ OneOperation
    /\ AnsweredOnce
    /\ AcceptsAlone
    /\ AcceptorState
    /\ SessionHasOp
    /\ OpenUntilClosing
    /\ AtMostOne
    /\ \A o \in Ops : pending[o] <= 1

-----------------------------------------------------------------------------
\* The constructors of operations build operations, of the kind they name.
LEMMA OpsBuilt ==
    ASSUME NEW c \in Clients
    PROVE  /\ Accept \in Ops /\ Accept.kind = "accept"
           /\ Accept.client = NoClient
           /\ \A k \in Kinds : Op(k, c) \in Ops
           /\ \A k \in Kinds : Op(k, c).kind = k /\ Op(k, c).client = c
           /\ \A b \in BOOLEAN : Write(c, b) \in Ops
           /\ \A b \in BOOLEAN : /\ Write(c, b).kind = "write"
                                 /\ Write(c, b).client = c
                                 /\ Write(c, b).close = b
           /\ NoClient # c
  BY ClientAssumption DEF Ops, Kinds, Accept, Op, Write

\* The same for those after which a connection goes on.
LEMMA GoesOnOps ==
    \A c \in Clients : GoesOn(c) \subseteq Ops
  BY DEF GoesOn, Op, Write, Ops, Kinds

\* The operation whose handler runs is the only one outstanding.
LEMMA HandlerAlone ==
    ASSUME SInv, fate = "up", NEW o \in Ops, pending[o] > 0
    PROVE  dropped = "none" /\ Outstanding(o)
  <1>1. dropped = "none"
    BY DEF SInv, OneOperation, TypeOK
  <1>2. PICK q \in Ops : Outstanding(q)
    BY <1>1 DEF SInv, OneOperation
  <1>3. q = o
    BY <1>2 DEF Outstanding, SInv, TypeOK
  <1> QED
    BY <1>1, <1>2, <1>3

\* A handler that starts another operation leaves that one as the only one.
LEMMA ContinueAlone ==
    ASSUME SInv, fate = "up",
           NEW o \in Ops, pending[o] > 0,
           NEW n \in Ops, n # o,
           pending' = Continue(o, n)
    PROVE  pending' \in [Ops -> Nat] /\ Only(n)'
  <1>1. pending[o] = 1 /\ \A p \in Ops \ {o} : pending[p] = 0
    BY HandlerAlone DEF Outstanding
  <1>2. pending \in [Ops -> Nat]
    BY DEF SInv, TypeOK
  <1> QED
    BY <1>1, <1>2 DEF Continue, Finish, Only

\* A handler that only returns leaves nothing outstanding.
LEMMA FinishNothing ==
    ASSUME SInv, fate = "up",
           NEW o \in Ops, pending[o] > 0,
           pending' = Finish(o)
    PROVE  pending' \in [Ops -> Nat] /\ Nothing'
  <1>1. pending[o] = 1 /\ \A p \in Ops \ {o} : pending[p] = 0
    BY HandlerAlone DEF Outstanding
  <1>2. pending \in [Ops -> Nat]
    BY DEF SInv, TypeOK
  <1> QED
    BY <1>1, <1>2 DEF Finish, Nothing

-----------------------------------------------------------------------------
\* What a state with one operation n outstanding has to satisfy.
LEMMA OneEstablished ==
    ASSUME TypeOK', (fate = "up")', (acceptor = "listening")',
           (dropped = "none")',
           NEW n \in Ops, Only(n)',
           n.client \in Clients \cup {NoClient},
           n.client = NoClient => n = Accept,
           \A c \in Clients : (conn[c] = "session")' <=> n.client = c,
           \A c \in Clients : (reads[c] = sends[c])',
           \A c \in Clients : closing'[c] =>
               conn'[c] \notin {"out", "backlog"} /\ n \notin GoesOn(c)
    PROVE  SInv'
  <1>1. /\ \A p \in Ops : pending'[p] > 0 <=> p = n
        /\ \A p \in Ops : pending'[p] = (IF p = n THEN 1 ELSE 0)
    BY DEF Only
  <1>2. OneOperation'
    BY <1>1 DEF OneOperation, Outstanding
  <1>3. \A c \in Clients : GoesOn(c) \subseteq Ops
    BY GoesOnOps
  <1>4. OpenUntilClosing'
    BY <1>1, <1>3 DEF OpenUntilClosing, GoesOn
  <1>5. AnsweredOnce'
    <2>1. \A c \in Clients : Op("read", c) \in GoesOn(c)
      BY DEF GoesOn
    <2>2. ASSUME NEW c \in Clients, closing'[c]
          PROVE  pending'[Op("read", c)] = 0
      BY <1>4, <2>1, <2>2 DEF OpenUntilClosing
    <2> QED
      BY <2>2 DEF AnsweredOnce
  <1>6. AcceptsAlone'
    <2> SUFFICES ASSUME pending'[Accept] > 0
                 PROVE  \A c \in Clients : conn'[c] # "session"
      BY DEF AcceptsAlone
    <2>1. Accept \in Ops /\ Accept.client = NoClient
      BY DEF Accept, Ops, Kinds
    <2>2. n = Accept
      BY <1>1, <2>1
    <2> QED
      BY <2>1, <2>2, ClientAssumption
  <1>7. AcceptorState'
    BY DEF AcceptorState
  <1>8. SessionHasOp'
    BY <1>1 DEF SessionHasOp
  <1>9. AtMostOne' /\ \A o \in Ops : pending'[o] <= 1
    BY <1>1 DEF AtMostOne
  <1> QED
    BY <1>2, <1>4, <1>5, <1>6, <1>7, <1>8, <1>9 DEF SInv

\* What a state with nothing outstanding has to satisfy.
LEMMA NothingEstablished ==
    ASSUME TypeOK', (fate = "up")', (acceptor = "listening")',
           (dropped # "none")',
           Nothing',
           \A c \in Clients : (conn[c] # "session")',
           \A c \in Clients : (reads[c] = sends[c])',
           \A c \in Clients : closing'[c] => conn'[c] \notin {"out", "backlog"}
    PROVE  SInv'
  <1>1. \A p \in Ops : pending'[p] = 0 /\ ~(pending'[p] > 0)
    BY DEF Nothing
  <1>2. OneOperation'
    BY <1>1 DEF OneOperation
  <1>3. \A c \in Clients : GoesOn(c) \subseteq Ops
    BY GoesOnOps
  <1>4. OpenUntilClosing'
    BY <1>1, <1>3 DEF OpenUntilClosing
  <1>5. AnsweredOnce'
    <2>1. \A c \in Clients : Op("read", c) \in GoesOn(c)
      BY DEF GoesOn
    <2>2. ASSUME NEW c \in Clients, closing'[c]
          PROVE  pending'[Op("read", c)] = 0
      BY <1>4, <2>1, <2>2 DEF OpenUntilClosing
    <2> QED
      BY <2>2 DEF AnsweredOnce
  <1>6. AcceptsAlone' /\ AcceptorState'
    BY <1>1 DEF AcceptsAlone, AcceptorState
  <1>7. SessionHasOp'
    BY <1>1 DEF SessionHasOp
  <1>8. AtMostOne' /\ \A o \in Ops : pending'[o] <= 1
    BY <1>1 DEF AtMostOne
  <1> QED
    BY <1>2, <1>4, <1>5, <1>6, <1>7, <1>8 DEF SInv

-----------------------------------------------------------------------------
LEMMA InitEstablishes == Init => SInv
  <1> SUFFICES ASSUME Init PROVE SInv
    OBVIOUS
  <1>1. TypeOK
    BY BoundAssumption DEF Init, TypeOK
  <1>2. \A p \in Ops : pending[p] = 0 /\ ~(pending[p] > 0)
    BY DEF Init
  <1>3. \A c \in Clients : Op("read", c) \in Ops
    BY DEF Op, Ops, Kinds
  <1>4. Accept \in Ops
    BY DEF Accept, Ops, Kinds
  <1>5. OneOperation /\ AnsweredOnce /\ AcceptsAlone /\ AcceptorState
    BY <1>2, <1>3, <1>4
    DEF Init, OneOperation, AnsweredOnce, AcceptsAlone, AcceptorState
  <1>6. SessionHasOp
    BY <1>2 DEF Init, SessionHasOp
  <1>7. OpenUntilClosing
    BY DEF Init, OpenUntilClosing
  <1>8. AtMostOne /\ \A o \in Ops : pending[o] <= 1
    BY <1>2 DEF AtMostOne
  <1> QED
    BY <1>1, <1>5, <1>6, <1>7, <1>8 DEF SInv

\* Leaving the process, and steps of nobody, change nothing else.
LEMMA ThrowsPreserves ==
    ASSUME SInv, Throws
    PROVE  SInv'
  BY DEF SInv, Throws, countVars, TypeOK, OneOperation, Outstanding,
         AnsweredOnce, AcceptsAlone, AcceptorState, SessionHasOp,
         OpenUntilClosing, AtMostOne

LEMMA StutterPreserves ==
    ASSUME SInv, UNCHANGED vars
    PROVE  SInv'
  BY DEF SInv, vars, countVars, TypeOK, OneOperation, Outstanding,
         AnsweredOnce, AcceptsAlone, AcceptorState, SessionHasOp,
         OpenUntilClosing, AtMostOne

LEMMA ConnectPreserves ==
    ASSUME SInv, NEW c \in Clients, Connect(c)
    PROVE  SInv'
  <1>1. /\ \A d \in Clients \ {c} : conn'[d] = conn[d]
        /\ conn[c] = "out" /\ conn'[c] = "backlog"
        /\ fate = "up" /\ fate' = fate
        /\ UNCHANGED <<acceptor, pending, countVars, dropped>>
    BY DEF Connect, SInv, TypeOK
  <1>2. TypeOK'
    BY DEF Connect, SInv, TypeOK, countVars
  <1>3. OneOperation' /\ AnsweredOnce' /\ AcceptsAlone' /\ AcceptorState'
    BY <1>1 DEF SInv, OneOperation, Outstanding, AnsweredOnce, AcceptsAlone,
                AcceptorState, countVars
  <1>4. SessionHasOp'
    <2>1. ASSUME NEW d \in Clients, conn'[d] = "session"
          PROVE  \E o \in Ops : o.client = d /\ pending'[o] > 0
      BY <1>1, <2>1 DEF SInv, SessionHasOp
    <2>2. ASSUME NEW o \in Ops, pending'[o] > 0, o.client # NoClient
          PROVE  conn'[o.client] = "session"
      <3>1. o.client \in Clients
        BY <2>2 DEF Ops
      <3> QED
        BY <1>1, <2>2, <3>1 DEF SInv, SessionHasOp
    <2> QED
      BY <2>1, <2>2 DEF SessionHasOp
  <1>5. OpenUntilClosing' /\ AtMostOne' /\ \A o \in Ops : pending'[o] <= 1
    BY <1>1 DEF SInv, OpenUntilClosing, AtMostOne, countVars
  <1> QED
    BY <1>2, <1>3, <1>4, <1>5 DEF SInv

-----------------------------------------------------------------------------
\* Where a session's handler runs, its session is the only one.
LEMMA SessionAlone ==
    ASSUME SInv, fate = "up", NEW c \in Clients,
           NEW o \in Ops, o.client = c, pending[o] > 0
    PROVE  /\ acceptor = "listening" /\ dropped = "none"
           /\ \A d \in Clients : conn[d] = "session" <=> d = c
           /\ \A d \in Clients : reads[d] = sends[d]
           /\ \A d \in Clients : closing[d] => conn[d] \notin {"out", "backlog"}
           /\ o \in GoesOn(c) => ~closing[c]
  <1>1. dropped = "none" /\ acceptor = "listening"
    BY HandlerAlone DEF SInv, AcceptorState
  <1>2. conn[c] = "session"
    BY ClientAssumption DEF SInv, SessionHasOp
  <1>3. ASSUME NEW d \in Clients, conn[d] = "session"
        PROVE  d = c
    <2>1. PICK p \in Ops : p.client = d /\ pending[p] > 0
      BY <1>3 DEF SInv, SessionHasOp
    <2>2. p = o
      BY <2>1 DEF SInv, AtMostOne
    <2> QED
      BY <2>1, <2>2
  <1>4. o \in GoesOn(c) => ~closing[c]
    BY DEF SInv, OpenUntilClosing, TypeOK
  <1> QED
    BY <1>1, <1>2, <1>3, <1>4 DEF SInv, AnsweredOnce, OpenUntilClosing

\* A handler that starts an operation n of the same session, from a connection
\* that goes on or towards one that ends, and changes nothing else.
LEMMA SessionContinues ==
    ASSUME SInv, fate = "up", NEW c \in Clients,
           NEW o \in Ops, o.client = c, pending[o] > 0,
           NEW n \in Ops, n.client = c, n # o,
           o \in GoesOn(c) \/ n \notin GoesOn(c),
           pending' = Continue(o, n),
           UNCHANGED <<fate, acceptor, conn, countVars, dropped>>
    PROVE  SInv'
  <1>1. pending' \in [Ops -> Nat] /\ Only(n)'
    BY ContinueAlone
  <1>2. TypeOK'
    BY <1>1 DEF SInv, TypeOK, countVars
  <1>3. /\ acceptor = "listening" /\ dropped = "none"
        /\ \A d \in Clients : conn[d] = "session" <=> d = c
        /\ \A d \in Clients : reads[d] = sends[d]
        /\ \A d \in Clients : closing[d] => conn[d] \notin {"out", "backlog"}
        /\ o \in GoesOn(c) => ~closing[c]
    BY SessionAlone
  <1>4. \A d \in Clients : d # c => n \notin GoesOn(d)
    BY OpsBuilt DEF GoesOn, Kinds, Op, Write
  <1> QED
    BY <1>1, <1>2, <1>3, <1>4, OneEstablished, ClientAssumption DEF countVars

\* A handler that only logs: the session ends and nothing is started.
LEMMA SessionDropped ==
    ASSUME SInv, fate = "up", NEW c \in Clients,
           NEW o \in Ops, o.client = c, pending[o] > 0,
           pending' = Finish(o),
           conn' = [conn EXCEPT ![c] = "closed"],
           dropped' \in {"read", "write"},
           UNCHANGED <<fate, acceptor, countVars>>
    PROVE  SInv'
  <1>1. pending' \in [Ops -> Nat] /\ Nothing'
    BY FinishNothing
  <1>2. TypeOK'
    BY <1>1 DEF SInv, TypeOK, countVars
  <1>3. /\ acceptor = "listening"
        /\ \A d \in Clients : conn[d] = "session" <=> d = c
        /\ \A d \in Clients : reads[d] = sends[d]
        /\ \A d \in Clients : closing[d] => conn[d] \notin {"out", "backlog"}
    BY SessionAlone
  <1>4. \A d \in Clients : conn'[d] = IF d = c THEN "closed" ELSE conn[d]
    BY DEF SInv, TypeOK
  <1>5. dropped' # "none"
    OBVIOUS
  <1> QED
    BY <1>1, <1>2, <1>3, <1>4, <1>5, NothingEstablished DEF countVars

-----------------------------------------------------------------------------
LEMMA ConstructPreserves ==
    ASSUME SInv, Construct
    PROVE  SInv'
  <1>1. CASE Throws
    BY <1>1, ThrowsPreserves
  <1>2. CASE ~Throws
    <2>1. /\ fate = "starting" /\ fate' = "up"
          /\ acceptor' = "listening"
          /\ pending' = [pending EXCEPT ![Accept] = @ + 1]
          /\ UNCHANGED <<conn, countVars, dropped>>
      BY <1>2 DEF Construct
    <2>2. Accept \in Ops /\ Accept.client = NoClient
      BY DEF Accept, Ops, Kinds
    <2>3. /\ pending \in [Ops -> Nat] /\ \A o \in Ops : pending[o] = 0
          /\ dropped = "none" /\ \A c \in Clients : conn[c] = "out"
      BY <2>1 DEF SInv, TypeOK, AcceptorState
    <2>4. pending' \in [Ops -> Nat] /\ Only(Accept)'
      BY <2>1, <2>2, <2>3 DEF Only
    <2>5. TypeOK'
      BY <2>1, <2>4 DEF SInv, TypeOK, countVars
    <2>6. \A c \in Clients : reads[c] = sends[c] /\ ~closing[c]
      BY <2>3 DEF SInv, AnsweredOnce, OpenUntilClosing, TypeOK
    <2> QED
      BY <2>1, <2>2, <2>3, <2>4, <2>5, <2>6, OneEstablished, ClientAssumption
      DEF countVars
  <1> QED
    BY <1>1, <1>2

\* When an accept completes, no session is there.
LEMMA AcceptAlone ==
    ASSUME SInv, fate = "up", pending[Accept] > 0
    PROVE  /\ Accept \in Ops /\ Accept.client = NoClient
           /\ acceptor = "listening" /\ dropped = "none"
           /\ \A d \in Clients : conn[d] # "session"
           /\ \A d \in Clients : reads[d] = sends[d]
           /\ \A d \in Clients : closing[d] => conn[d] \notin {"out", "backlog"}
  <1>1. Accept \in Ops /\ Accept.client = NoClient
    BY DEF Accept, Ops, Kinds
  <1>2. dropped = "none"
    BY <1>1, HandlerAlone
  <1> QED
    BY <1>1, <1>2
    DEF SInv, AcceptsAlone, AcceptorState, AnsweredOnce, OpenUntilClosing

LEMMA OnAcceptFailedPreserves ==
    ASSUME SInv, on_accept_failed
    PROVE  SInv'
  <1>1. /\ fate = "up" /\ pending[Accept] > 0
        /\ pending' = Finish(Accept) /\ dropped' = "accept"
        /\ UNCHANGED <<fate, acceptor, conn, countVars>>
    BY DEF on_accept_failed
  <1>2. pending' \in [Ops -> Nat] /\ Nothing'
    BY <1>1, AcceptAlone, FinishNothing
  <1>3. TypeOK'
    BY <1>1, <1>2 DEF SInv, TypeOK, countVars
  <1> QED
    BY <1>1, <1>2, <1>3, AcceptAlone, NothingEstablished DEF countVars

LEMMA OnAcceptPreserves ==
    ASSUME SInv, NEW c \in Clients, on_accept(c)
    PROVE  SInv'
  <1>1. /\ fate = "up" /\ pending[Accept] > 0 /\ conn[c] = "backlog"
        /\ UNCHANGED <<fate, acceptor, countVars>>
    BY DEF on_accept
  <1>2. /\ Accept \in Ops /\ Accept.client = NoClient
        /\ acceptor = "listening" /\ dropped = "none"
        /\ \A d \in Clients : conn[d] # "session"
        /\ \A d \in Clients : reads[d] = sends[d]
        /\ \A d \in Clients : closing[d] => conn[d] \notin {"out", "backlog"}
    BY <1>1, AcceptAlone
  <1>3. CASE /\ conn' = [conn EXCEPT ![c] = "session"]
             /\ pending' = Continue(Accept, Op("run", c))
             /\ UNCHANGED dropped
    <2>1. /\ Op("run", c) \in Ops /\ Op("run", c) # Accept
          /\ Op("run", c).client = c
      BY OpsBuilt, "run" \in Kinds DEF Kinds
    <2>2. pending' \in [Ops -> Nat] /\ Only(Op("run", c))'
      BY <1>1, <1>2, <1>3, <2>1, ContinueAlone
    <2>3. TypeOK'
      BY <1>1, <1>3, <2>2 DEF SInv, TypeOK, countVars
    <2>4. \A d \in Clients :
             conn'[d] = IF d = c THEN "session" ELSE conn[d]
      BY <1>3 DEF SInv, TypeOK
    <2>5. \A d \in Clients : closing'[d] =>
             conn'[d] \notin {"out", "backlog"} /\ Op("run", c) \notin GoesOn(d)
      <3>1. \A d \in Clients : closing'[d] => d # c
        BY <1>1, <1>2 DEF countVars
      <3>2. \A d \in Clients : d # c => Op("run", c) \notin GoesOn(d)
        BY DEF GoesOn, Op, Write
      <3> QED
        BY <1>1, <1>2, <2>4, <3>1, <3>2 DEF countVars
    <2> QED
      BY <1>1, <1>2, <1>3, <2>1, <2>2, <2>3, <2>4, <2>5, OneEstablished,
         ClientAssumption
      DEF countVars
  <1>4. CASE /\ conn' = [conn EXCEPT ![c] = "closed"]
             /\ pending' = Finish(Accept)
             /\ dropped' = "keep_alive"
    <2>1. pending' \in [Ops -> Nat] /\ Nothing'
      BY <1>1, <1>2, <1>4, FinishNothing
    <2>2. TypeOK'
      BY <1>1, <1>4, <2>1 DEF SInv, TypeOK, countVars
    <2>3. \A d \in Clients :
             conn'[d] = IF d = c THEN "closed" ELSE conn[d]
      BY <1>4 DEF SInv, TypeOK
    <2> QED
      BY <1>1, <1>2, <1>4, <2>1, <2>2, <2>3, NothingEstablished DEF countVars
  <1> QED
    BY <1>3, <1>4 DEF on_accept

-----------------------------------------------------------------------------
\* The operations of one session: those before the last response are of a
\* connection that goes on, and no two are the same.
LEMMA SessionOps ==
    ASSUME NEW c \in Clients
    PROVE  /\ \A o \in GoesOn(c) \cup {Op("shutdown", c), Write(c, TRUE)} :
                  o \in Ops /\ o.client = c
           /\ Op("shutdown", c) \notin GoesOn(c)
           /\ Write(c, TRUE) \notin GoesOn(c)
           /\ Op("run", c) \in GoesOn(c) /\ Op("handshake", c) \in GoesOn(c)
           /\ Op("read", c) \in GoesOn(c) /\ Write(c, FALSE) \in GoesOn(c)
           /\ Op("run", c) # Op("handshake", c)
           /\ Op("handshake", c) # Op("read", c)
           /\ \A b \in BOOLEAN : Write(c, b) # Op("read", c)
           /\ \A b \in BOOLEAN : Write(c, b) # Op("shutdown", c)
  BY DEF Op, Write, Ops, Kinds, GoesOn

LEMMA OnRunPreserves ==
    ASSUME SInv, NEW c \in Clients, on_run(c)
    PROVE  SInv'
  <1> DEFINE o == Op("run", c)
             n == Op("handshake", c)
  <1>1. /\ o \in Ops /\ o.client = c /\ n \in Ops /\ n.client = c /\ n # o
        /\ o \in GoesOn(c)
    BY SessionOps
  <1> QED
    BY <1>1, SessionContinues DEF on_run

LEMMA OnHandshakePreserves ==
    ASSUME SInv, NEW c \in Clients, on_handshake(c)
    PROVE  SInv'
  <1>1. PICK next \in {"read", "shutdown"} :
            pending' = Continue(Op("handshake", c), Op(next, c))
    BY DEF on_handshake
  <1> DEFINE o == Op("handshake", c)
             n == Op(next, c)
  <1>2. /\ o \in Ops /\ o.client = c /\ n \in Ops /\ n.client = c /\ n # o
        /\ o \in GoesOn(c)
    BY SessionOps
  <1> QED
    BY <1>1, <1>2, SessionContinues DEF on_handshake

\* A request gets one response, and so one write.
LEMMA OneResponse ==
    \A r, file : \E response : Responses(r, file) = <<response>>
  <1> SUFFICES ASSUME NEW r, NEW file
               PROVE  \E response : Responses(r, file) = <<response>>
    OBVIOUS
  <1>1. Handler(r, file).status = TRUE /\ Handler(r, file).sent = <<DocRoot(r, file)>>
    BY DEF Handler
  <1>2. CASE Routed(r)
    BY <1>1, <1>2 DEF Responses
  <1>3. CASE ~Routed(r)
    BY <1>3 DEF Responses
  <1> QED
    BY <1>2, <1>3

LEMMA StartedOne ==
    ASSUME NEW c, NEW r, NEW response, NEW o
    PROVE  Started(c, r, <<response>>, o) =
             IF o = Write(c, NeedEof(r, response)) THEN 1 ELSE 0
  <1>1. CASE o = Write(c, NeedEof(r, response))
    <2>1. {i \in DOMAIN <<response>> : Write(c, NeedEof(r, <<response>>[i])) = o} = {1}
      BY <1>1
    <2> QED
      BY <1>1, <2>1, FS_Singleton DEF Started
  <1>2. CASE o # Write(c, NeedEof(r, response))
    <2>1. {i \in DOMAIN <<response>> : Write(c, NeedEof(r, <<response>>[i])) = o} = {}
      BY <1>2
    <2> QED
      BY <1>2, <2>1, FS_EmptySet DEF Started
  <1> QED
    BY <1>1, <1>2

LEMMA OnReadRequestPreserves ==
    ASSUME SInv, NEW c \in Clients, on_read_request(c)
    PROVE  SInv'
  <1>0. PICK r \in Requests, file \in Files :
            /\ pending' = [p \in Ops |->
                    Finish(Op("read", c))[p] + Started(c, r, Responses(r, file), p)]
            /\ sends' = [sends EXCEPT ![c] = @ + Len(Responses(r, file))]
            /\ closing' = [closing EXCEPT ![c] =
                    @ \/ \E i \in DOMAIN Responses(r, file) : NeedEof(r, Responses(r, file)[i])]
    BY DEF on_read_request
  <1>a. PICK response : Responses(r, file) = <<response>>
    BY OneResponse
  <1> DEFINE close == NeedEof(r, response)
             o == Op("read", c)
             n == Write(c, close)
  <1>2. close \in BOOLEAN
    BY DEF NeedEof
  <1>1. /\ pending' = Continue(o, n)
        /\ sends' = [sends EXCEPT ![c] = @ + 1]
        /\ closing' = [closing EXCEPT ![c] = @ \/ close]
    <2>1. o \in Ops /\ n \in Ops /\ n # o /\ pending \in [Ops -> Nat]
      BY <1>2, SessionOps DEF SInv, TypeOK
    <2>2. \A p \in Ops : Started(c, r, <<response>>, p) = IF p = n THEN 1 ELSE 0
      BY StartedOne
    <2>3. \A p \in Ops : pending'[p] = Continue(o, n)[p]
      BY <1>0, <1>a, <2>1, <2>2 DEF Continue, Finish
    <2>4. pending' = Continue(o, n)
      BY <1>0, <2>1, <2>3 DEF Continue, Finish
    <2>5. sends' = [sends EXCEPT ![c] = @ + 1]
      BY <1>0, <1>a
    <2>6. (\E i \in DOMAIN <<response>> : NeedEof(r, <<response>>[i])) <=> close
      OBVIOUS
    <2> QED
      BY <1>0, <1>a, <2>4, <2>5, <2>6 DEF SInv, TypeOK
  <1>3. /\ o \in Ops /\ o.client = c /\ n \in Ops /\ n.client = c /\ n # o
        /\ o \in GoesOn(c)
        /\ n \in GoesOn(c) => ~close
    BY <1>2, SessionOps
  <1>4. /\ fate = "up" /\ pending[o] > 0 /\ reads[c] < MaxRequests
        /\ reads' = [reads EXCEPT ![c] = @ + 1]
        /\ UNCHANGED <<fate, acceptor, conn, dropped>>
    BY DEF on_read_request
  <1>5. pending' \in [Ops -> Nat] /\ Only(n)'
    BY <1>1, <1>3, <1>4, ContinueAlone
  <1>6. /\ acceptor = "listening" /\ dropped = "none"
        /\ \A d \in Clients : conn[d] = "session" <=> d = c
        /\ \A d \in Clients : reads[d] = sends[d]
        /\ \A d \in Clients : closing[d] => conn[d] \notin {"out", "backlog"}
        /\ ~closing[c]
    BY <1>3, <1>4, SessionAlone
  <1>7. TypeOK'
    <2>1. reads' \in [Clients -> 0..MaxRequests]
      BY <1>4, BoundAssumption DEF SInv, TypeOK
    <2>2. sends' \in [Clients -> Nat]
      BY <1>1 DEF SInv, TypeOK
    <2>3. closing' \in [Clients -> BOOLEAN]
      BY <1>1, <1>2 DEF SInv, TypeOK
    <2> QED
      BY <1>4, <1>5, <2>1, <2>2, <2>3 DEF SInv, TypeOK
  <1>8. \A d \in Clients : reads'[d] = sends'[d]
    BY <1>1, <1>4, <1>6 DEF SInv, TypeOK
  <1>9. \A d \in Clients : closing'[d] =>
            conn'[d] \notin {"out", "backlog"} /\ n \notin GoesOn(d)
    <2>1. \A d \in Clients \ {c} : closing'[d] = closing[d] /\ n \notin GoesOn(d)
      <3>1. \A d \in Clients \ {c} : closing'[d] = closing[d]
        BY <1>1 DEF SInv, TypeOK
      <3>2. \A d \in Clients \ {c} : n \notin GoesOn(d)
        BY DEF GoesOn, Op, Write
      <3> QED
        BY <3>1, <3>2
    <2>2. closing'[c] = close
      BY <1>1, <1>2, <1>6 DEF SInv, TypeOK
    <2> QED
      BY <1>3, <1>4, <1>6, <2>1, <2>2
  <1> QED
    BY <1>3, <1>4, <1>5, <1>6, <1>7, <1>8, <1>9, OneEstablished,
       ClientAssumption

LEMMA OnReadFailedPreserves ==
    ASSUME SInv, NEW c \in Clients, on_read_failed(c)
    PROVE  SInv'
  <1> DEFINE o == Op("read", c)
             n == Op("shutdown", c)
  <1>1. /\ o \in Ops /\ o.client = c /\ n \in Ops /\ n.client = c /\ n # o
        /\ o \in GoesOn(c)
    BY SessionOps
  <1>2. CASE /\ pending' = Continue(o, n)
             /\ UNCHANGED <<conn, dropped>>
    BY <1>1, <1>2, SessionContinues DEF on_read_failed
  <1>3. CASE /\ pending' = Finish(o)
             /\ conn' = [conn EXCEPT ![c] = "closed"]
             /\ dropped' = "read"
    BY <1>1, <1>3, SessionDropped DEF on_read_failed
  <1> QED
    BY <1>2, <1>3 DEF on_read_failed

LEMMA OnWritePreserves ==
    ASSUME SInv, NEW c \in Clients, NEW close \in BOOLEAN, on_write(c, close)
    PROVE  SInv'
  <1> DEFINE o == Write(c, close)
             n == Op(AfterWrite(close), c)
  <1>1. n \in {Op("read", c), Op("shutdown", c)}
    BY DEF AfterWrite
  <1>2. /\ o \in Ops /\ o.client = c /\ n \in Ops /\ n.client = c /\ n # o
        /\ o \in GoesOn(c) \/ n \notin GoesOn(c)
    BY <1>1, SessionOps DEF AfterWrite
  <1>3. CASE /\ pending' = Continue(o, n)
             /\ UNCHANGED <<conn, dropped>>
    BY <1>2, <1>3, SessionContinues DEF on_write
  <1>4. CASE /\ pending' = Finish(o)
             /\ conn' = [conn EXCEPT ![c] = "closed"]
             /\ dropped' = "write"
    BY <1>2, <1>4, SessionDropped DEF on_write
  <1> QED
    BY <1>3, <1>4 DEF on_write

LEMMA OnShutdownPreserves ==
    ASSUME SInv, NEW c \in Clients, on_shutdown(c)
    PROVE  SInv'
  <1> DEFINE o == Op("shutdown", c)
  <1>1. o \in Ops /\ o.client = c /\ o # Accept
    BY OpsBuilt, "shutdown" \in Kinds DEF Kinds
  <1>2. CASE Throws
    BY <1>2, ThrowsPreserves
  <1>3. CASE /\ Reset(c)
             /\ pending' = Continue(o, Accept)
             /\ UNCHANGED <<fate, countVars, dropped>>
    <2>1. fate = "up" /\ pending[o] > 0
      BY DEF on_shutdown
    <2>2. Accept \in Ops /\ Accept.client = NoClient
      BY DEF Accept, Ops, Kinds
    <2>3. pending' \in [Ops -> Nat] /\ Only(Accept)'
      BY <1>1, <1>3, <2>1, <2>2, ContinueAlone
    <2>4. /\ acceptor = "listening" /\ dropped = "none"
          /\ \A d \in Clients : conn[d] = "session" <=> d = c
          /\ \A d \in Clients : reads[d] = sends[d]
          /\ \A d \in Clients : closing[d] => conn[d] \notin {"out", "backlog"}
      BY <1>1, <2>1, SessionAlone
    <2>5. \A d \in Clients : conn'[d] =
              IF d = c THEN "closed"
              ELSE IF conn[d] = "backlog" THEN "reset" ELSE conn[d]
      BY <1>3 DEF Reset
    <2>6. TypeOK'
      BY <1>3, <2>3 DEF SInv, TypeOK, Reset, countVars
    <2>7. \A d \in Clients : Accept \notin GoesOn(d)
      BY DEF GoesOn, Op, Write, Accept
    <2>8. acceptor' = "listening"
      BY <1>3 DEF Reset
    <2> QED
      BY <1>3, <2>1, <2>2, <2>3, <2>4, <2>5, <2>6, <2>7, <2>8,
         OneEstablished, ClientAssumption
      DEF countVars
  <1> QED
    BY <1>2, <1>3 DEF on_shutdown

-----------------------------------------------------------------------------
LEMMA StepPreserves ==
    ASSUME SInv, [Next]_vars
    PROVE  SInv'
  <1>1. CASE Construct
    BY <1>1, ConstructPreserves
  <1>2. CASE SigInt
    BY <1>2, ThrowsPreserves DEF SigInt
  <1>3. CASE on_accept_failed
    BY <1>3, OnAcceptFailedPreserves
  <1>4. ASSUME NEW c \in Clients, Connect(c) PROVE SInv'
    BY <1>4, ConnectPreserves
  <1>5. ASSUME NEW c \in Clients, on_accept(c) PROVE SInv'
    BY <1>5, OnAcceptPreserves
  <1>6. ASSUME NEW c \in Clients, on_run(c) PROVE SInv'
    BY <1>6, OnRunPreserves
  <1>7. ASSUME NEW c \in Clients, on_handshake(c) PROVE SInv'
    BY <1>7, OnHandshakePreserves
  <1>8. ASSUME NEW c \in Clients, on_read_request(c) PROVE SInv'
    BY <1>8, OnReadRequestPreserves
  <1>9. ASSUME NEW c \in Clients, on_read_failed(c) PROVE SInv'
    BY <1>9, OnReadFailedPreserves
  <1>10. ASSUME NEW c \in Clients, NEW close \in BOOLEAN, on_write(c, close)
         PROVE  SInv'
    BY <1>10, OnWritePreserves
  <1>11. ASSUME NEW c \in Clients, on_shutdown(c) PROVE SInv'
    BY <1>11, OnShutdownPreserves
  <1>12. CASE UNCHANGED vars
    BY <1>12, StutterPreserves
  <1> QED
    BY <1>1, <1>2, <1>3, <1>4, <1>5, <1>6, <1>7, <1>8, <1>9, <1>10, <1>11,
       <1>12
    DEF Next

\* The inductive invariant holds in every state of the service.
THEOREM ServiceInvariant == Spec => []SInv
  <1>1. Init => SInv
    BY InitEstablishes
  <1>2. SInv /\ [Next]_vars => SInv'
    BY StepPreserves
  <1> QED
    BY <1>1, <1>2, PTL DEF Spec

\* However many clients connect and whatever they send, the service has exactly
\* one operation outstanding until a branch that only logs has left it none.
THEOREM OneOperationAtATime == Spec => []OneOperation
  <1>1. SInv => OneOperation
    BY DEF SInv
  <1> QED
    BY <1>1, ServiceInvariant, PTL

\* Every request is answered once, and no connection announced to end is read.
THEOREM RequestsAnsweredOnce == Spec => []AnsweredOnce
  <1>1. SInv => AnsweredOnce
    BY DEF SInv
  <1> QED
    BY <1>1, ServiceInvariant, PTL

\* An accept never waits beside a session or on a closed acceptor.
THEOREM AcceptIsAlone == Spec => []AcceptsAlone
  <1>1. SInv => AcceptsAlone
    BY DEF SInv
  <1> QED
    BY <1>1, ServiceInvariant, PTL

\* A client the kernel has queued gets a session, alone, or is lost to a socket
\* that does not take keep_alive or to the end of another client's session: no
\* handler of its own or of a third client touches it.
THEOREM BacklogOnlyReset == Spec => LostOnlyByReset
  <1> DEFINE Leaves(c) ==
                \/ conn'[c] = "session" /\ \A d \in Clients : conn[d] # "session"
                \/ conn'[c] = "closed" /\ dropped' = "keep_alive"
                \/ conn'[c] = "reset" /\ EndsSession
  <1>1. ASSUME SInv, [Next]_vars, NEW c \in Clients,
               conn[c] = "backlog", conn'[c] # "backlog"
        PROVE  Leaves(c)
    <2>1. \A d \in Clients, o \in Ops :
            o.client = d /\ pending[o] > 0 => conn[d] = "session"
      BY <1>1, ClientAssumption DEF SInv, SessionHasOp
    <2>2. conn \in [Clients -> {"out", "backlog", "session", "closed", "reset"}]
      BY <1>1 DEF SInv, TypeOK
    <2>3. ASSUME NEW d \in Clients, NEW o \in Ops, o.client = d, pending[o] > 0,
                 conn' = [conn EXCEPT ![d] = "closed"]
          PROVE  FALSE
      <3>1. d # c
        BY <1>1, <2>1, <2>3
      <3> QED BY <1>1, <2>2, <2>3, <3>1
    <2>4. ASSUME NEW d \in Clients, on_shutdown(d)
          PROVE  conn'[c] = "reset" /\ EndsSession
      <3>1. /\ pending[Op("shutdown", d)] > 0 /\ conn' # conn /\ fate = "up"
            /\ Op("shutdown", d) \in Ops /\ Op("shutdown", d).client = d
            /\ Accept \in Ops /\ Accept # Op("shutdown", d)
        BY <1>1, <2>4 DEF on_shutdown, Op, Accept, Ops, Kinds
      <3>2. Reset(d) /\ pending' = Continue(Op("shutdown", d), Accept)
        BY <2>4, <3>1 DEF on_shutdown, Throws
      <3>3. conn[d] = "session" /\ d # c
        BY <1>1, <2>1, <3>1
      <3>4. conn'[c] = "reset" /\ conn'[d] = "closed"
        BY <1>1, <3>2, <3>3 DEF Reset
      <3>5. pending'[Accept] > 0
        BY <1>1, <3>1, <3>2, ContinueAlone DEF Only
      <3> QED BY <3>1, <3>3, <3>4, <3>5 DEF EndsSession
    <2>5. ASSUME NEW d \in Clients, on_read_failed(d) PROVE FALSE
      <3>1. pending[Op("read", d)] > 0
        BY <2>5 DEF on_read_failed
      <3>2. Op("read", d) \in Ops /\ Op("read", d).client = d
        BY DEF Op, Ops, Kinds
      <3>3. conn' = conn \/ conn' = [conn EXCEPT ![d] = "closed"]
        BY <2>5 DEF on_read_failed
      <3> QED BY <1>1, <2>3, <3>1, <3>2, <3>3
    <2>6. ASSUME NEW d \in Clients, NEW close \in BOOLEAN, on_write(d, close) PROVE FALSE
      <3>1. pending[Write(d, close)] > 0
        BY <2>6 DEF on_write
      <3>2. Write(d, close) \in Ops /\ Write(d, close).client = d
        BY DEF Write, Ops, Kinds
      <3>3. conn' = conn \/ conn' = [conn EXCEPT ![d] = "closed"]
        BY <2>6 DEF on_write
      <3> QED BY <1>1, <2>3, <3>1, <3>2, <3>3
    <2>7. ASSUME NEW d \in Clients, Connect(d) PROVE FALSE
      <3>1. d # c
        BY <1>1, <2>7 DEF Connect
      <3> QED BY <1>1, <2>2, <2>7, <3>1 DEF Connect
    <2>8. ASSUME NEW d \in Clients, on_accept(d)
          PROVE  \/ conn'[c] = "session" /\ \A e \in Clients : conn[e] # "session"
                 \/ conn'[c] = "closed" /\ dropped' = "keep_alive"
      <3>1. \A e \in Clients : conn[e] # "session"
        BY <1>1, <2>8 DEF on_accept, SInv, AcceptsAlone
      <3>2. d = c
        BY <1>1, <2>2, <2>8 DEF on_accept
      <3> QED BY <2>2, <2>8, <3>1, <3>2 DEF on_accept
    <2>9. ASSUME NEW d \in Clients, on_run(d) \/ on_handshake(d) \/ on_read_request(d)
          PROVE  FALSE
      BY <1>1, <2>9 DEF on_run, on_handshake, on_read_request
    <2>10. CASE Construct \/ SigInt \/ on_accept_failed \/ UNCHANGED vars
      BY <1>1, <2>10 DEF Construct, SigInt, Throws, on_accept_failed, vars
    <2> QED BY <1>1, <2>4, <2>5, <2>6, <2>7, <2>8, <2>9, <2>10 DEF Next
  <1>2. SInv /\ [Next]_vars =>
          [\A c \in Clients : conn[c] = "backlog" /\ conn'[c] # "backlog" => Leaves(c)]_vars
    BY <1>1
  <1> QED
    BY <1>2, ServiceInvariant, PTL DEF Spec, LostOnlyByReset
=============================================================================
