-------------------------------- MODULE Serve --------------------------------
(***************************************************************************)
(* gyt serve: starting under serve.lock, the accept loops of its           *)
(* listeners, connections and the requests on them, who may do what, and   *)
(* the shutdown that a signal or POST /admin/shutdown begins.  The main    *)
(* listener has permits and tells its connections of the shutdown; the h2  *)
(* listener has a runtime of its own and does neither.  The h3 listener is *)
(* like h2 with permits of its own.  What a handler does to a repository   *)
(* is the subject of other modules: here it reads, writes or stops the     *)
(* server.                                                                 *)
(*                                                                         *)
(* A request is an async task that waits for a closure on a blocking       *)
(* thread.  When a runtime is shut down its tasks are dropped where they   *)
(* wait, and the closures that already run are waited for.                 *)
(***************************************************************************)
EXTENDS Naturals, FiniteSets

CONSTANTS
    Server,             \* processes on one repos_root
    Connection,         \* sockets of clients
    Cap,                \* for "main" and "h3": configured_max_inflight, H3_MAX_INFLIGHT
    Config,             \* of a server: [listen, allow_multiprocess, tls, plain_admin, acl, auth_token]
    Request,            \* what clients ask: [handler, repo, token]
    NoToken,            \* a request without an Authorization header
    MaxRequests         \* on one connection

Handler == {"Healthz", "Readyz", "Metrics", "AdminShutdown", "InfoRefs", "ObjectsWant",
            "ObjectsHave", "RefsUpdate", "Api", "StaticFile"}

Listener == {"main", "h2", "h3"}

ASSUME ServeAssumption ==
    /\ \A s \in Server : Config[s].listen \subseteq Listener /\ "main" \in Config[s].listen
    /\ \A s \in Server : Config[s].tls \/ Config[s].listen = {"main"}
    /\ Cap \in [{"main", "h3"} -> Nat]
    /\ \A q \in Request : q.handler \in Handler
    /\ MaxRequests \in Nat

VARIABLES
    serve_lock, \* who holds serve.lock: nobody with --allow-multiprocess
    phase,      \* of serve()
    shutdown,   \* the flag
    loop,       \* of every listener of a server
    conn,       \* the connections
    timed_out   \* the 30 seconds of the shutdown ran out

serveVars == <<serve_lock, phase, shutdown, loop, conn, timed_out>>

Unused == [at |-> "none", on |-> "main", st |-> "none", graceful |-> FALSE,
           run |-> "none", req |-> "none", asked |-> 0]

ServeInit ==
    /\ serve_lock = {}
    /\ phase = [s \in Server |-> "off"]
    /\ shutdown = [s \in Server |-> FALSE]
    /\ loop = [s \in Server |-> [l \in Listener |-> "off"]]
    /\ conn = [c \in Connection |-> Unused]
    /\ timed_out = [s \in Server |-> FALSE]

(***************************************************************************)
(* Who may do what                                                         *)
(***************************************************************************)

route_needs_write(h) == h \in {"ObjectsHave", "RefsUpdate", "AdminShutdown"}
route_is_unauth_probe(h) == h \in {"Healthz", "Readyz"}
IsWire(h) == h \in {"InfoRefs", "ObjectsWant", "ObjectsHave", "RefsUpdate"}

\* load_acl admits the pattern "*" and exact names; a request that is not
\* about a repository of the wire needs "*".
scope_ok(entry, q) == entry.pattern = "*" \/ (IsWire(q.handler) /\ entry.pattern = q.repo)

authorize(s, q) ==
    \/ route_is_unauth_probe(q.handler)
    \/ /\ Config[s].acl # {}
       /\ \E entry \in Config[s].acl :
            /\ entry.token = q.token
            /\ scope_ok(entry, q)
            /\ route_needs_write(q.handler) => entry.write
    \/ Config[s].acl = {} /\ Config[s].auth_token \in {NoToken, q.token}

\* admin_shutdown_handler refuses over plain HTTP unless told otherwise.
AdminAllowed(s) == Config[s].tls \/ Config[s].plain_admin

(***************************************************************************)
(* Starting                                                                *)
(***************************************************************************)

\* The lock, the sockets and the threads of the listeners.
Launch(s) ==
    /\ phase[s] = "off"
    /\ Config[s].allow_multiprocess \/ serve_lock = {}
    /\ serve_lock' = IF Config[s].allow_multiprocess THEN serve_lock ELSE serve_lock \cup {s}
    /\ phase' = [phase EXCEPT ![s] = "running"]
    /\ loop' = [loop EXCEPT ![s] = [l \in Listener |-> IF l \in Config[s].listen THEN "check" ELSE "done"]]
    /\ UNCHANGED <<shutdown, conn, timed_out>>

\* Two seconds without the lock, or a file or an option that is wrong.
RefuseToStart(s) ==
    /\ phase[s] = "off"
    /\ phase' = [phase EXCEPT ![s] = "exited"]
    /\ UNCHANGED <<serve_lock, shutdown, loop, conn, timed_out>>

(***************************************************************************)
(* Accepting                                                               *)
(***************************************************************************)

Alive(s) == phase[s] \notin {"off", "exited"}

\* A connection whose task is over; a closure of its request may run on.
Gone(r, how) == IF r.run = "running" THEN [r EXCEPT !.st = how] ELSE [Unused EXCEPT !.st = how]

\* Connections whose task is there, which is as long as it has its permit.
Tasks(s, l) == {c \in Connection : conn[c].at = s /\ conn[c].on = l
                    /\ conn[c].st \in {"handshake", "open", "body", "handler", "respond"}}

CheckFlag(s, l) ==
    /\ loop[s][l] = "check"
    /\ ~shutdown[s]
    /\ loop' = [loop EXCEPT ![s][l] = "accept"]
    /\ UNCHANGED <<serve_lock, phase, shutdown, conn, timed_out>>

\* A second without a connection, or the connection the server made to itself.
AcceptTick(s, l) ==
    /\ loop[s][l] = "accept"
    /\ loop' = [loop EXCEPT ![s][l] = "check"]
    /\ UNCHANGED <<serve_lock, phase, shutdown, conn, timed_out>>

try_acquire(s, l) == l = "h2" \/ Cardinality(Tasks(s, l)) < Cap[l]

\* A client's connection.  Without a permit the main listener answers 503
\* and h3 drops the packet.
Accept(c, s, l) ==
    /\ conn[c].st = "none"
    /\ loop[s][l] = "accept"
    /\ loop' = [loop EXCEPT ![s][l] = "check"]
    /\ conn' = [conn EXCEPT ![c] =
                    IF try_acquire(s, l)
                    THEN [Unused EXCEPT !.at = s, !.on = l, !.st = IF Config[s].tls THEN "handshake" ELSE "open"]
                    ELSE [Unused EXCEPT !.st = "closed"]]
    /\ UNCHANGED <<serve_lock, phase, shutdown, timed_out>>

(***************************************************************************)
(* A connection                                                            *)
(***************************************************************************)

Runs(c) == loop[conn[c].at][conn[c].on] \in {"check", "accept"}
           \/ (conn[c].on = "main" /\ phase[conn[c].at] = "joining")

Step(c, from, r) ==
    /\ conn[c].st = from
    /\ Runs(c)
    /\ conn' = [conn EXCEPT ![c] = r]
    /\ UNCHANGED <<serve_lock, phase, shutdown, loop, timed_out>>

Handshake(c) == Step(c, "handshake", [conn[c] EXCEPT !.st = "open"])

\* The headers of a request; after graceful_shutdown there is no other.  What
\* it asks for is first looked at by dispatch_request.
Ask(c) ==
    /\ ~conn[c].graceful /\ conn[c].asked < MaxRequests
    /\ Step(c, "open", [conn[c] EXCEPT !.st = "body", !.asked = @ + 1])

\* The whole body is there: dispatch_request starts on a blocking thread.
SpawnBlocking(c) == Step(c, "body", [conn[c] EXCEPT !.st = "handler", !.run = "running"])

\* 413 or 408: too large, a read error, or 120 seconds.
BodyRefused(c) == Step(c, "body", [conn[c] EXCEPT !.st = "respond"])

\* The connections of the main listener that are past their handshake finish
\* their request; those without one close.
notify_waiters(s, cs) ==
    [c \in Connection |->
        IF cs[c].at # s \/ cs[c].on # "main" THEN cs[c]
        ELSE IF cs[c].st = "open" THEN Gone(cs[c], "closed")
        ELSE IF cs[c].st \in {"body", "handler", "respond"} THEN [cs[c] EXCEPT !.graceful = TRUE]
        ELSE cs[c]]

\* dispatch_request: a rate limit, the authorization, the handler.  The task
\* of the connection may be gone by now.
RunHandler(c, q, limited) ==
    LET s == conn[c].at
        done == (limited => route_is_unauth_probe(q.handler)) /\ authorize(s, q)
        stops == done /\ q.handler = "AdminShutdown" /\ AdminAllowed(s)
        after == [conn EXCEPT ![c].run = IF done THEN "done" ELSE "refused",
                              ![c].req = IF done THEN q ELSE @]
    IN  /\ conn[c].run = "running"
        /\ Alive(s)
        /\ conn' = IF stops THEN notify_waiters(s, after) ELSE after
        /\ shutdown' = IF stops THEN [shutdown EXCEPT ![s] = TRUE] ELSE shutdown
        /\ UNCHANGED <<serve_lock, phase, loop, timed_out>>

\* The task has the result of its closure.
Answer(c) ==
    /\ conn[c].run # "running"
    /\ Step(c, "handler", [conn[c] EXCEPT !.st = "respond", !.run = "none", !.req = "none"])

Responded(c) ==
    Step(c, "respond", IF conn[c].graceful THEN Gone(conn[c], "closed")
                       ELSE [conn[c] EXCEPT !.st = "open"])

\* The client goes away, a handshake fails, an idle connection times out; the
\* closure of a request runs on.
Hangup(c) ==
    /\ conn[c].st \in {"handshake", "open", "body", "handler", "respond"}
    /\ Step(c, conn[c].st, Gone(conn[c], "closed"))

(***************************************************************************)
(* Stopping                                                                *)
(***************************************************************************)

\* SIGTERM or SIGINT.
Signal(s) ==
    /\ phase[s] = "running" /\ ~shutdown[s]
    /\ shutdown' = [shutdown EXCEPT ![s] = TRUE]
    /\ conn' = notify_waiters(s, conn)
    /\ UNCHANGED <<serve_lock, phase, loop, timed_out>>

\* The tasks of a listener's runtime are dropped.
Dropped(s, l) ==
    conn' = [c \in Connection |->
                IF c \in Tasks(s, l) THEN Gone(conn[c], "cut") ELSE conn[c]]

\* The main loop ends; its tasks go on until the others have been joined.
LeaveLoop(s) ==
    /\ loop[s]["main"] = "check" /\ shutdown[s]
    /\ loop' = [loop EXCEPT ![s]["main"] = "done"]
    /\ phase' = [phase EXCEPT ![s] = "joining"]
    /\ UNCHANGED <<serve_lock, shutdown, conn, timed_out>>

\* run_h2 and run_h3 leave their loop and drop their runtime.
DropRuntime(s, l) ==
    /\ l # "main" /\ loop[s][l] = "check" /\ shutdown[s]
    /\ loop' = [loop EXCEPT ![s][l] = "dropping"]
    /\ Dropped(s, l)
    /\ UNCHANGED <<serve_lock, phase, shutdown, timed_out>>

Blocking(s, l) == {c \in Connection : conn[c].at = s /\ conn[c].on = l /\ conn[c].run = "running"}

\* The drop waits for the closures, however long they take.
EndListener(s, l) ==
    /\ loop[s][l] = "dropping"
    /\ Blocking(s, l) = {}
    /\ loop' = [loop EXCEPT ![s][l] = "done"]
    /\ UNCHANGED <<serve_lock, phase, shutdown, conn, timed_out>>

\* Mutant: the runtime is shut down when its connections have closed.
ShutdownRuntime_Graceful(s) ==
    /\ phase[s] = "joining"
    /\ \A l \in Listener : loop[s][l] = "done"
    /\ Tasks(s, "main") = {}
    /\ phase' = [phase EXCEPT ![s] = "draining"]
    /\ Dropped(s, "main")
    /\ UNCHANGED <<serve_lock, shutdown, loop, timed_out>>

\* Both listeners are joined and shutdown_timeout begins.
ShutdownRuntime(s) ==
    /\ phase[s] = "joining"
    /\ \A l \in Listener : loop[s][l] = "done"
    /\ phase' = [phase EXCEPT ![s] = "draining"]
    /\ Dropped(s, "main")
    /\ UNCHANGED <<serve_lock, shutdown, loop, timed_out>>

ShutdownTimeout(s) ==
    /\ phase[s] = "draining"
    /\ Blocking(s, "main") # {}
    /\ timed_out' = [timed_out EXCEPT ![s] = TRUE]
    /\ UNCHANGED <<serve_lock, phase, shutdown, loop, conn>>

\* Mutant: the lock is given up while closures run.
DropServeLock_Early(s) ==
    /\ phase[s] = "draining"
    /\ serve_lock' = serve_lock \ {s}
    /\ phase' = [phase EXCEPT ![s] = "unlocked"]
    /\ UNCHANGED <<shutdown, loop, conn, timed_out>>

DropServeLock(s) ==
    /\ phase[s] = "draining"
    /\ timed_out[s] \/ Blocking(s, "main") = {}
    /\ serve_lock' = serve_lock \ {s}
    /\ phase' = [phase EXCEPT ![s] = "unlocked"]
    /\ UNCHANGED <<shutdown, loop, conn, timed_out>>

\* The process ends, and with it whatever still ran.
Exit(s) ==
    /\ phase[s] = "unlocked"
    /\ phase' = [phase EXCEPT ![s] = "exited"]
    /\ timed_out' = [timed_out EXCEPT ![s] = FALSE]
    /\ conn' = [c \in Connection |->
                    IF conn[c].at = s THEN [Unused EXCEPT !.st = conn[c].st] ELSE conn[c]]
    /\ UNCHANGED <<serve_lock, shutdown, loop>>

\* The steps a process makes by itself once it is told to stop.
StopStep(s) ==
    \/ LeaveLoop(s) \/ ShutdownRuntime(s) \/ DropServeLock(s) \/ Exit(s)
    \/ \E l \in Listener : (shutdown[s] /\ AcceptTick(s, l)) \/ DropRuntime(s, l) \/ EndListener(s, l)

Handles(c) == \E q \in Request, limited \in BOOLEAN : RunHandler(c, q, limited)

ServeNext ==
    \/ \E s \in Server :
        \/ Launch(s) \/ RefuseToStart(s) \/ Signal(s) \/ ShutdownTimeout(s) \/ StopStep(s)
        \/ \E l \in Listener : CheckFlag(s, l) \/ AcceptTick(s, l) \/ \E c \in Connection : Accept(c, s, l)
    \/ \E c \in Connection :
        \/ Handshake(c) \/ SpawnBlocking(c) \/ BodyRefused(c)
        \/ Handles(c) \/ Answer(c) \/ Responded(c) \/ Hangup(c) \/ Ask(c)

\* Threads are scheduled and handlers end.  The steps of a stop and the
\* handlers of all connections are finitely many, so that it is enough that
\* some of them happens while one can.
ServeProgress == (\E s \in Server : StopStep(s)) \/ (\E c \in Connection : Handles(c))

ServeSpec == ServeInit /\ [][ServeNext]_serveVars /\ WF_serveVars(ServeProgress)

(***************************************************************************)
(* Properties                                                              *)
(***************************************************************************)

Running(s) == \E c \in Connection : conn[c].at = s /\ conn[c].run = "running" /\ Alive(s)

\* Without --allow-multiprocess, handlers of two server processes run at the
\* same time only after the 30 seconds of a shutdown ran out (server.rs:585-604):
\* serve.lock is held until the closures of every listener are over.
OneServerHandles ==
    \A s, t \in Server :
        s # t /\ Running(s) /\ Running(t) =>
            \E u \in {s, t} : Config[u].allow_multiprocess \/ timed_out[u]

\* A server that was told to stop, by a signal or by a request, exits and
\* gives serve.lock up, whatever its connections do (server.rs:585-604).
ShutdownEnds == \A s \in Server : shutdown[s] ~> (phase[s] = "exited" /\ s \notin serve_lock)
=============================================================================
