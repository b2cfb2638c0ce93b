--------------------------- MODULE WorkflowService ---------------------------
(***************************************************************************)
(* The HTTPS front end: one HTTPSListener that accepts connections, the    *)
(* HTTPSSession it creates for each, and the endpoint that answers.  All   *)
(* of it runs as completion handlers of one io_context: a handler consumes *)
(* the operation it was bound to and may start others.  The state is       *)
(* therefore the number of outstanding operations of each kind, the        *)
(* acceptor, and where each client's connection is.                        *)
(***************************************************************************)
EXTENDS Naturals, Sequences, FiniteSets

CONSTANTS
    Clients,       \* peers; each connects at most once
    NoClient,      \* the accept operation belongs to no client
    Threads,       \* "threads" of server.yml
    MaxRequests    \* bound: requests one client sends on its connection

ASSUME ClientAssumption == NoClient \notin Clients
ASSUME BoundAssumption == Threads \in Nat /\ MaxRequests \in Nat

VARIABLES
    fate,       \* the process: "starting", "up" (in ioc_.run) or "exited"
    acceptor,   \* acceptor_: "closed" or "listening"
    pending,    \* asynchronous operations started and not yet completed
    conn,       \* per client: "out", "backlog" (in the kernel's queue),
                \* "session", "closed", or "reset" (lost with the backlog)
    reads,      \* requests read from a client
    sends,      \* responses started to a client
    closing,    \* a response after which the connection must end was sent
    dropped     \* the branch that only logged an error, or "none"

countVars == <<reads, sends, closing>>
vars == <<fate, acceptor, pending, conn, countVars, dropped>>

-----------------------------------------------------------------------------
Kinds == {"accept", "run", "handshake", "read", "write", "shutdown"}
Ops == [kind : Kinds, client : Clients \cup {NoClient}, close : BOOLEAN]

Accept == [kind |-> "accept", client |-> NoClient, close |-> FALSE]
Op(k, c) == [kind |-> k, client |-> c, close |-> FALSE]
Write(c, need_eof) == [kind |-> "write", client |-> c, close |-> need_eof]

\* A handler consumes o; Continue also starts n.
Finish(o) == [pending EXCEPT ![o] = @ - 1]
Continue(o, n) == [Finish(o) EXCEPT ![n] = @ + 1]

TypeOK ==
    /\ fate \in {"starting", "up", "exited"}
    /\ acceptor \in {"closed", "listening"}
    /\ pending \in [Ops -> Nat]
    /\ conn \in [Clients -> {"out", "backlog", "session", "closed", "reset"}]
    /\ reads \in [Clients -> 0..MaxRequests]
    /\ sends \in [Clients -> Nat]
    /\ closing \in [Clients -> BOOLEAN]
    /\ dropped \in {"none", "accept", "keep_alive", "read", "write"}

Init ==
    /\ fate = "starting"
    /\ acceptor = "closed"
    /\ pending = [o \in Ops |-> 0]
    /\ conn = [c \in Clients |-> "out"]
    /\ reads = [c \in Clients |-> 0]
    /\ sends = [c \in Clients |-> 0]
    /\ closing = [c \in Clients |-> FALSE]
    /\ dropped = "none"

-----------------------------------------------------------------------------
(* The listener.                                                           *)

\* An exception leaves the constructor, main reports it and returns.
Throws ==
    /\ fate' = "exited"
    /\ UNCHANGED <<acceptor, pending, conn, countVars, dropped>>

\* Certificate, address or create_acceptor may fail.  The vector of threads is
\* reserved for threads - 1 elements, which throws for 0, and then filled in a
\* loop over its size, 0: the constructor's thread alone runs the io_context.
Construct ==
    /\ fate = "starting"
    /\ \/ Throws
       \/ /\ Threads > 0
          /\ fate' = "up"
          /\ acceptor' = "listening"
          /\ pending' = [pending EXCEPT ![Accept] = @ + 1]
          /\ UNCHANGED <<conn, countVars, dropped>>

\* The signal handler calls exit.
SigInt ==
    /\ fate = "up"
    /\ Throws

\* The kernel completes the connection of a client to a listening socket.
Connect(c) ==
    /\ fate = "up" /\ acceptor = "listening"
    /\ conn[c] = "out"
    /\ conn' = [conn EXCEPT ![c] = "backlog"]
    /\ UNCHANGED <<fate, acceptor, pending, countVars, dropped>>

\* An accept that fails is logged; nothing starts another one.
on_accept_failed ==
    /\ fate = "up"
    /\ pending[Accept] > 0
    /\ pending' = Finish(Accept)
    /\ dropped' = "accept"
    /\ UNCHANGED <<fate, acceptor, conn, countVars>>

\* Mutant of on_accept: the next accept is started beside the session.
on_accept_rearming(c) ==
    /\ fate = "up"
    /\ pending[Accept] > 0
    /\ conn[c] = "backlog"
    /\ conn' = [conn EXCEPT ![c] = "session"]
    /\ pending' = [pending EXCEPT ![Op("run", c)] = @ + 1]
    /\ UNCHANGED <<fate, acceptor, countVars, dropped>>

\* The accepted socket gets a session, unless keep_alive cannot be set.
on_accept(c) ==
    /\ fate = "up"
    /\ pending[Accept] > 0
    /\ conn[c] = "backlog"
    /\ \/ /\ conn' = [conn EXCEPT ![c] = "session"]
          /\ pending' = Continue(Accept, Op("run", c))
          /\ UNCHANGED dropped
       \/ /\ conn' = [conn EXCEPT ![c] = "closed"]
          /\ pending' = Finish(Accept)
          /\ dropped' = "keep_alive"
    /\ UNCHANGED <<fate, acceptor, countVars>>

-----------------------------------------------------------------------------
(* The endpoint and the response.                                          *)

Requests == [method : {"get", "head", "other"},
             target : {"/index.html", "unknown"},
             keep_alive : BOOLEAN]

\* The file under doc_root when the request is handled.
Files == {"ok", "missing", "unopenable", "unreadable"}

\* What DocRootEndpoint answers; only a GET reads the file it has opened.
DocRoot(r, file) ==
    CASE r.method = "other" -> "bad_request"
      [] r.method # "other" /\ file = "missing" -> "not_found"
      [] r.method # "other" /\ file = "unopenable" -> "server_error"
      [] r.method = "head" /\ file \in {"ok", "unreadable"} -> "head"
      [] r.method = "get" /\ file = "ok" -> "get"
      [] r.method = "get" /\ file = "unreadable" -> "server_error"

\* Mutant of Handler: what handle_request returns is lost.
HandlerFalse(r, file) == [sent |-> <<DocRoot(r, file)>>, status |-> FALSE]

\* The endpoint: what it hands to the responder, and what it returns.
Handler(r, file) == [sent |-> <<DocRoot(r, file)>>, status |-> TRUE]

\* Only "/index.html" is registered; for the rest operator[] throws.
Routed(r) == r.target = "/index.html"

\* The responses to a request: those of the endpoint, one more if it returns
\* false, and the one for the exception.
Responses(r, file) ==
    LET handled == Handler(r, file)
    IN  CASE ~Routed(r) -> <<"not_found">>
          [] Routed(r) /\ handled.status -> handled.sent
          [] Routed(r) /\ ~handled.status -> Append(handled.sent, "server_error")

\* server_error_handler and the successful GET prepare no payload and so set
\* no content length.
HasLength(response) == response \in {"bad_request", "not_found", "head"}

\* Whether the connection has to end for the peer to see the end of the
\* message: always without a content length, else as the peer asked.
NeedEof(r, response) == ~HasLength(response) \/ ~r.keep_alive

\* How many writes of the kind o are started for the responses to a request.
Started(c, r, responses, o) ==
    Cardinality({i \in DOMAIN responses : Write(c, NeedEof(r, responses[i])) = o})

-----------------------------------------------------------------------------
(* The session.                                                            *)

on_run(c) ==
    /\ fate = "up"
    /\ pending[Op("run", c)] > 0
    /\ pending' = Continue(Op("run", c), Op("handshake", c))
    /\ UNCHANGED <<fate, acceptor, conn, countVars, dropped>>

on_handshake(c) ==
    /\ fate = "up"
    /\ pending[Op("handshake", c)] > 0
    /\ \E next \in {"read", "shutdown"} :
        pending' = Continue(Op("handshake", c), Op(next, c))
    /\ UNCHANGED <<fate, acceptor, conn, countVars, dropped>>

\* A request arrives and a write is started for every response.
on_read_request(c) ==
    /\ fate = "up"
    /\ pending[Op("read", c)] > 0
    /\ reads[c] < MaxRequests
    /\ reads' = [reads EXCEPT ![c] = @ + 1]
    /\ \E r \in Requests, file \in Files :
        LET responses == Responses(r, file) IN
        /\ pending' = [o \in Ops |->
                Finish(Op("read", c))[o] + Started(c, r, responses, o)]
        /\ sends' = [sends EXCEPT ![c] = @ + Len(responses)]
        /\ closing' = [closing EXCEPT ![c] =
                @ \/ \E i \in DOMAIN responses : NeedEof(r, responses[i])]
    /\ UNCHANGED <<fate, acceptor, conn, dropped>>

\* HTTPSListener::reset by the session of c, which then ends.  Closing the
\* acceptor drops the connections the kernel has queued for it.
Reset(c) ==
    /\ acceptor' = "listening"
    /\ conn' = [d \in Clients |->
                  IF d = c THEN "closed"
                  ELSE IF conn[d] = "backlog" THEN "reset"
                  ELSE conn[d]]

\* Mutant of on_read_failed: an error resets the listener at once.
on_read_failed_resetting(c) ==
    /\ fate = "up"
    /\ pending[Op("read", c)] > 0
    /\ Reset(c)
    /\ pending' = Continue(Op("read", c), Accept)
    /\ UNCHANGED <<fate, countVars, dropped>>

\* The end of the stream closes the session; any other error is logged, and
\* the session is destroyed without telling its owner.
on_read_failed(c) ==
    /\ fate = "up"
    /\ pending[Op("read", c)] > 0
    /\ \/ /\ pending' = Continue(Op("read", c), Op("shutdown", c))
          /\ UNCHANGED <<conn, dropped>>
       \/ /\ pending' = Finish(Op("read", c))
          /\ conn' = [conn EXCEPT ![c] = "closed"]
          /\ dropped' = "read"
    /\ UNCHANGED <<fate, acceptor, countVars>>

\* Mutant of AfterWrite: the test of close is inverted.
AfterWriteInverted(close) == IF close THEN "read" ELSE "shutdown"

AfterWrite(close) == IF close THEN "shutdown" ELSE "read"

on_write(c, close) ==
    /\ fate = "up"
    /\ pending[Write(c, close)] > 0
    /\ \/ /\ pending' = Continue(Write(c, close), Op(AfterWrite(close), c))
          /\ UNCHANGED <<conn, dropped>>
       \/ /\ pending' = Finish(Write(c, close))
          /\ conn' = [conn EXCEPT ![c] = "closed"]
          /\ dropped' = "write"
    /\ UNCHANGED <<fate, acceptor, countVars>>

\* Mutant of on_shutdown: an error of the shutdown returns before the reset.
on_shutdown_early_return(c) ==
    /\ fate = "up"
    /\ pending[Op("shutdown", c)] > 0
    /\ \/ Throws
       \/ /\ pending' = Finish(Op("shutdown", c))
          /\ conn' = [conn EXCEPT ![c] = "closed"]
          /\ UNCHANGED <<fate, acceptor, countVars, dropped>>

\* However the TLS shutdown ended (it has a deadline of 30 s), the owner is
\* reset: close, create_acceptor (which may throw out of ioc_.run) and run.
on_shutdown(c) ==
    /\ fate = "up"
    /\ pending[Op("shutdown", c)] > 0
    /\ \/ Throws
       \/ /\ Reset(c)
          /\ pending' = Continue(Op("shutdown", c), Accept)
          /\ UNCHANGED <<fate, countVars, dropped>>

-----------------------------------------------------------------------------
Next ==
    \/ Construct
    \/ SigInt
    \/ on_accept_failed
    \/ \E c \in Clients :
        \/ Connect(c)
        \/ on_accept(c)
        \/ on_run(c)
        \/ on_handshake(c)
        \/ on_read_request(c)
        \/ on_read_failed(c)
        \/ \E close \in BOOLEAN : on_write(c, close)
        \/ on_shutdown(c)

Spec == Init /\ [][Next]_vars

\* Only what does not depend on the peer: the dispatched on_run, and the
\* shutdown, whose deadline the code sets.  The deadlines of handshake and
\* read are commented out in the code, so a silent peer holds its session.
Fairness == \A c \in Clients : WF_vars(on_run(c)) /\ WF_vars(on_shutdown(c))

FairSpec == Spec /\ Fairness

-----------------------------------------------------------------------------
Outstanding(o) == pending[o] = 1 /\ \A p \in Ops \ {o} : pending[p] = 0

\* While the service is up it has exactly one operation outstanding, an accept
\* or an operation of the one session, so that no two of its handlers could
\* ever run at once; or one of the four branches that only log an error was
\* taken and nothing is outstanding: the process runs on and accepts nobody.
OneOperation ==
    fate = "up" =>
        IF dropped = "none"
        THEN \E o \in Ops : Outstanding(o)
        ELSE \A o \in Ops : pending[o] = 0

\* A connection that was announced to end is never read from again, and while
\* requests go on each of them was answered once.
AnsweredOnce ==
    \A c \in Clients :
        /\ reads[c] = sends[c]
        /\ closing[c] => pending[Op("read", c)] = 0

\* An accept is outstanding only on a listening acceptor and only when no
\* session is left that could reset the listener under it.
AcceptsAlone ==
    pending[Accept] > 0 =>
        acceptor = "listening" /\ \A c \in Clients : conn[c] # "session"

\* The session of some client ends in this step, and a new accept is started.
EndsSession ==
    /\ pending'[Accept] > 0
    /\ \E d \in Clients :
        pending[Op("shutdown", d)] > 0 /\ conn[d] = "session" /\ conn'[d] = "closed"

\* A connected client leaves the kernel's queue into a session of its own, at a
\* time when there is no other; it is lost only when its socket does not take
\* keep_alive (workflow_service.cxx:139-147), or when the session of another
\* client ends and resets the acceptor, which then accepts anew
\* (workflow_service.cxx:116-120).
LostOnlyByReset ==
    [][\A c \in Clients : conn[c] = "backlog" /\ conn'[c] # "backlog" =>
        \/ conn'[c] = "session" /\ \A d \in Clients : conn[d] # "session"
        \/ conn'[c] = "closed" /\ dropped' = "keep_alive"
        \/ conn'[c] = "reset" /\ EndsSession]_vars

\* A session that starts to close makes the service accept again, or the
\* process ends.
ClosingRearms ==
    \A c \in Clients :
        pending[Op("shutdown", c)] > 0 ~> (pending[Accept] > 0 \/ fate = "exited")
=============================================================================
