----------------------------- MODULE ServeProofs -----------------------------
(* Proofs about Serve, for any servers, configurations, clients, requests. *)
EXTENDS Serve, TLAPS

ConnRecord ==
    [at : Server \cup {"none"}, on : Listener,
     st : {"none", "handshake", "open", "body", "handler", "respond", "closed", "cut"},
     graceful : BOOLEAN, run : {"none", "running", "done", "refused"},
     req : Request \cup {"none"}, asked : Nat]

\* The types of serve() and of its connections.
ServeTypeOK ==
    /\ serve_lock \subseteq Server
    /\ phase \in [Server -> {"off", "running", "joining", "draining", "unlocked", "exited"}]
    /\ shutdown \in [Server -> BOOLEAN]
    /\ loop \in [Server -> [Listener -> {"off", "check", "accept", "dropping", "done"}]]
    /\ conn \in [Connection -> ConnRecord]
    /\ timed_out \in [Server -> BOOLEAN]

\* A process has serve.lock from its start until it gives it up, and nobody
\* else has it meanwhile.
LockInv ==
    /\ \A s, t \in serve_lock : s = t
    /\ \A s \in Server : phase[s] \in {"running", "joining", "draining"} =>
            Config[s].allow_multiprocess \/ s \in serve_lock

\* No listener accepts before the start, nor once the runtime is shut down.
LoopInv ==
    \A s \in Server, l \in Listener :
        phase[s] \in {"off", "draining", "unlocked", "exited"} => loop[s][l] \in {"off", "done"}

\* A listener of its own thread that is not running has no closures, and
\* closures outlive the lock only when the shutdown ran out of time.
ClosureInv ==
    \A s \in Server :
        /\ \A l \in Listener \ {"main"} : loop[s][l] \in {"off", "done"} => Blocking(s, l) = {}
        /\ phase[s] = "unlocked" => timed_out[s] \/ Blocking(s, "main") = {}

ServeInv == ServeTypeOK /\ LockInv /\ LoopInv /\ ClosureInv

\* A connection whose task is over is well typed, and has a closure only if it
\* had one.
LEMMA GoneType ==
    ASSUME NEW r \in ConnRecord, NEW how \in {"closed", "cut"}
    PROVE  /\ Gone(r, how) \in ConnRecord
           /\ Gone(r, how).run = "running" =>
                r.run = "running" /\ Gone(r, how).at = r.at /\ Gone(r, how).on = r.on
BY DEF Gone, ConnRecord, Unused, Listener

\* No closure starts in this step.
Settles ==
    \A c \in Connection :
        conn'[c].run = "running" =>
            conn[c].run = "running" /\ conn'[c].at = conn[c].at /\ conn'[c].on = conn[c].on

\* A step of connections in which no closure starts keeps the invariant.
LEMMA SettlesKeeps ==
    ASSUME ServeInv, Settles, ServeTypeOK', UNCHANGED <<serve_lock, phase, loop, timed_out>>
    PROVE  ServeInv'
<1>1. LockInv' /\ LoopInv'
  BY DEF ServeInv, LockInv, LoopInv
<1>2. \A s \in Server, l \in Listener : Blocking(s, l)' \subseteq Blocking(s, l)
  BY DEF Settles, Blocking
<1>3. ClosureInv'
  BY <1>2 DEF ServeInv, ClosureInv, Listener
<1> QED BY <1>1, <1>3 DEF ServeInv

\* The connections that the shutdown notifies lose or keep their closures.
LEMMA NotifyType ==
    ASSUME NEW s, NEW cs \in [Connection -> ConnRecord]
    PROVE  /\ notify_waiters(s, cs) \in [Connection -> ConnRecord]
           /\ \A c \in Connection :
                notify_waiters(s, cs)[c].run = "running" =>
                    /\ cs[c].run = "running"
                    /\ notify_waiters(s, cs)[c].at = cs[c].at
                    /\ notify_waiters(s, cs)[c].on = cs[c].on
<1> DEFINE n == notify_waiters(s, cs)
<1>1. ASSUME NEW c \in Connection
      PROVE  n[c] \in ConnRecord /\ (n[c].run = "running" =>
                 cs[c].run = "running" /\ n[c].at = cs[c].at /\ n[c].on = cs[c].on)
  <2>1. cs[c] \in ConnRecord
    OBVIOUS
  <2>2. n[c] \in {cs[c], Gone(cs[c], "closed"), [cs[c] EXCEPT !.graceful = TRUE]}
    BY DEF notify_waiters
  <2>3. [cs[c] EXCEPT !.graceful = TRUE] \in ConnRecord
    BY <2>1 DEF ConnRecord
  <2>4. /\ [cs[c] EXCEPT !.graceful = TRUE].run = cs[c].run
        /\ [cs[c] EXCEPT !.graceful = TRUE].at = cs[c].at
        /\ [cs[c] EXCEPT !.graceful = TRUE].on = cs[c].on
    BY <2>1 DEF ConnRecord
  <2> QED BY <2>1, <2>2, <2>3, <2>4, GoneType
<1>2. DOMAIN n = Connection /\ n = [c \in DOMAIN n |-> n[c]]
  BY DEF notify_waiters
<1> QED BY <1>1, <1>2

\* The tasks of a runtime that is dropped lose or keep their closures.
LEMMA DroppedType ==
    ASSUME conn \in [Connection -> ConnRecord], NEW s \in Server, NEW l \in Listener, Dropped(s, l)
    PROVE  conn' \in [Connection -> ConnRecord] /\ Settles
<1>1. ASSUME NEW c \in Connection
      PROVE  conn'[c] \in {conn[c], Gone(conn[c], "cut")} /\ conn[c] \in ConnRecord
  BY DEF Dropped
<1>2. DOMAIN conn' = Connection /\ conn' = [c \in DOMAIN conn' |-> conn'[c]]
  BY DEF Dropped
<1> QED BY <1>1, <1>2, GoneType DEF Settles

\* A step of one task in which no closure starts keeps the invariant.
LEMMA StepKeeps ==
    ASSUME ServeInv, NEW c \in Connection, NEW from, NEW r \in ConnRecord, Step(c, from, r),
           r.run = "running" => conn[c].run = "running" /\ r.at = conn[c].at /\ r.on = conn[c].on
    PROVE  ServeInv'
<1>1. ServeTypeOK'
  BY DEF ServeInv, ServeTypeOK, Step
<1>2. Settles
  BY DEF ServeInv, ServeTypeOK, Step, Settles
<1> QED BY <1>1, <1>2, SettlesKeeps DEF Step

\* Starting and refusing to start.
LEMMA LaunchKeeps ==
    ASSUME ServeInv, NEW s \in Server, Launch(s) \/ RefuseToStart(s)
    PROVE  ServeInv'
<1>1. CASE Launch(s)
  <2>1. ServeTypeOK'
    BY <1>1 DEF ServeInv, ServeTypeOK, Launch
  <2>2. LockInv'
    BY <1>1 DEF ServeInv, ServeTypeOK, LockInv, Launch
  <2>3. LoopInv'
    BY <1>1 DEF ServeInv, ServeTypeOK, LoopInv, Launch
  <2>4. \A l \in Listener : loop[s][l] \in {"off", "done"}
    BY <1>1 DEF ServeInv, LoopInv, Launch
  <2>5. ClosureInv'
    BY <1>1, <2>4 DEF ServeInv, ServeTypeOK, ClosureInv, Launch, Blocking
  <2> QED BY <2>1, <2>2, <2>3, <2>5 DEF ServeInv
<1>2. CASE RefuseToStart(s)
  BY <1>2 DEF ServeInv, ServeTypeOK, LockInv, LoopInv, ClosureInv, Blocking, RefuseToStart
<1> QED BY <1>1, <1>2

\* The accept loops.
LEMMA AcceptKeeps ==
    ASSUME ServeInv, NEW s \in Server, NEW l \in Listener,
           CheckFlag(s, l) \/ AcceptTick(s, l) \/ \E c \in Connection : Accept(c, s, l)
    PROVE  ServeInv'
<1>0. /\ loop[s][l] \in {"check", "accept"}
      /\ \E v \in {"check", "accept"} : loop' = [loop EXCEPT ![s][l] = v]
      /\ UNCHANGED <<serve_lock, phase, shutdown, timed_out>>
  BY DEF CheckFlag, AcceptTick, Accept
<1>1. /\ \A t \in Server, k \in Listener :
            loop'[t][k] = loop[t][k] \/ (t = s /\ k = l /\ loop'[t][k] \in {"check", "accept"})
      /\ loop' \in [Server -> [Listener -> {"off", "check", "accept", "dropping", "done"}]]
      /\ phase[s] \in {"running", "joining"}
  BY <1>0 DEF ServeInv, ServeTypeOK, LoopInv
<1>2. conn' \in [Connection -> ConnRecord] /\ Settles
  <2>1. CASE UNCHANGED conn
    BY <2>1 DEF Settles, ServeInv, ServeTypeOK
  <2>2. ASSUME NEW c \in Connection, Accept(c, s, l) PROVE conn' \in [Connection -> ConnRecord] /\ Settles
    <3>1. conn'[c] \in ConnRecord /\ conn'[c].run = "none"
      BY <2>2 DEF Accept, Unused, ConnRecord, ServeInv, ServeTypeOK, Listener
    <3> QED BY <2>2, <3>1 DEF Accept, Settles, ServeInv, ServeTypeOK
  <2> QED BY <2>1, <2>2 DEF CheckFlag, AcceptTick
<1>3. ServeTypeOK'
  BY <1>0, <1>1, <1>2 DEF ServeInv, ServeTypeOK
<1>4. LockInv'
  BY <1>0 DEF ServeInv, LockInv
<1>5. LoopInv'
  BY <1>0, <1>1 DEF ServeInv, LoopInv
<1>6. \A t \in Server, k \in Listener : Blocking(t, k)' \subseteq Blocking(t, k)
  BY <1>2 DEF Settles, Blocking
<1>7. ClosureInv'
  BY <1>0, <1>1, <1>6 DEF ServeInv, ClosureInv, Listener
<1> QED BY <1>3, <1>4, <1>5, <1>7 DEF ServeInv

\* The steps of a task.
LEMMA TaskKeeps ==
    ASSUME ServeInv, NEW c \in Connection,
           \/ Handshake(c) \/ Ask(c) \/ BodyRefused(c) \/ Answer(c) \/ Responded(c) \/ Hangup(c)
    PROVE  ServeInv'
<1>0. conn[c] \in ConnRecord
  BY DEF ServeInv, ServeTypeOK
<1>1. CASE Handshake(c)
  <2>1. [conn[c] EXCEPT !.st = "open"] \in ConnRecord
    BY <1>0 DEF ConnRecord
  <2> QED BY <1>0, <1>1, <2>1, StepKeeps DEF Handshake, ConnRecord
<1>2. CASE Ask(c)
  <2>0. conn[c].asked + 1 \in Nat
    BY <1>0 DEF ConnRecord
  <2>1. [conn[c] EXCEPT !.st = "body", !.asked = @ + 1] \in ConnRecord
    BY <1>0, <2>0 DEF ConnRecord
  <2> QED BY <1>0, <1>2, <2>1, StepKeeps DEF Ask, ConnRecord
<1>3. CASE BodyRefused(c)
  <2>1. [conn[c] EXCEPT !.st = "respond"] \in ConnRecord
    BY <1>0 DEF ConnRecord
  <2> QED BY <1>0, <1>3, <2>1, StepKeeps DEF BodyRefused, ConnRecord
<1>4. CASE Answer(c)
  <2>1. [conn[c] EXCEPT !.st = "respond", !.run = "none", !.req = "none"] \in ConnRecord
    BY <1>0 DEF ConnRecord
  <2> QED BY <1>0, <1>4, <2>1, StepKeeps DEF Answer, ConnRecord
<1>5. CASE Responded(c)
  <2>1. CASE conn[c].graceful
    BY <1>0, <1>5, <2>1, StepKeeps, GoneType DEF Responded
  <2>2. CASE ~conn[c].graceful
    <3>1. [conn[c] EXCEPT !.st = "open"] \in ConnRecord
      BY <1>0 DEF ConnRecord
    <3> QED BY <1>0, <1>5, <2>2, <3>1, StepKeeps DEF Responded, ConnRecord
  <2> QED BY <2>1, <2>2
<1>6. CASE Hangup(c)
  BY <1>0, <1>6, StepKeeps, GoneType DEF Hangup
<1> QED BY <1>1, <1>2, <1>3, <1>4, <1>5, <1>6

\* A closure starts only on a listener that runs, or on the main one before
\* its runtime is shut down.
LEMMA SpawnKeeps ==
    ASSUME ServeInv, NEW c \in Connection, SpawnBlocking(c)
    PROVE  ServeInv'
<1>0. conn[c] \in ConnRecord
  BY DEF ServeInv, ServeTypeOK
<1>1. [conn[c] EXCEPT !.st = "handler", !.run = "running"] \in ConnRecord
  BY <1>0 DEF ConnRecord
<1>2. ServeTypeOK' /\ LockInv' /\ LoopInv'
  BY <1>1 DEF ServeInv, ServeTypeOK, LockInv, LoopInv, SpawnBlocking, Step
<1>3. ASSUME NEW s \in Server, NEW l \in Listener
      PROVE  Blocking(s, l)' \subseteq Blocking(s, l)
             \/ loop[s][l] \in {"check", "accept"}
             \/ (l = "main" /\ phase[s] = "joining")
  <2>1. CASE conn[c].at = s /\ conn[c].on = l
    BY <2>1 DEF SpawnBlocking, Step, Runs
  <2>2. CASE ~(conn[c].at = s /\ conn[c].on = l)
    <3>1. conn'[c].at = conn[c].at /\ conn'[c].on = conn[c].on
      BY <1>0 DEF SpawnBlocking, Step, ServeInv, ServeTypeOK, ConnRecord
    <3> QED BY <2>2, <3>1 DEF SpawnBlocking, Step, Blocking, ServeInv, ServeTypeOK
  <2> QED BY <2>1, <2>2
<1>4. ClosureInv'
  BY <1>3 DEF ServeInv, ClosureInv, LoopInv, SpawnBlocking, Step, Listener
<1> QED BY <1>2, <1>4 DEF ServeInv

\* A closure ends, and its request may have been the one to shut down.
LEMMA HandlerKeeps ==
    ASSUME ServeInv, NEW c \in Connection, NEW q \in Request, NEW limited \in BOOLEAN,
           RunHandler(c, q, limited)
    PROVE  ServeInv'
<1> DEFINE s == conn[c].at
           done == (limited => route_is_unauth_probe(q.handler)) /\ authorize(s, q)
           stops == done /\ q.handler = "AdminShutdown" /\ AdminAllowed(s)
           after == [conn EXCEPT ![c].run = IF done THEN "done" ELSE "refused",
                                 ![c].req = IF done THEN q ELSE @]
<1>1. conn \in [Connection -> ConnRecord]
  BY DEF ServeInv, ServeTypeOK
<1>2. /\ after \in [Connection -> ConnRecord]
      /\ \A d \in Connection : after[d].run = "running" => after[d] = conn[d]
  <2> DEFINE r == [conn[c] EXCEPT !.run = IF done THEN "done" ELSE "refused",
                                  !.req = IF done THEN q ELSE @]
  <2> HIDE DEF done
  <2>1. after = [conn EXCEPT ![c] = r]
    BY <1>1 DEF ConnRecord
  <2>2. r \in ConnRecord /\ r.run # "running"
    BY <1>1 DEF ConnRecord
  <2> HIDE DEF after, r
  <2> QED BY <1>1, <2>1, <2>2
<1>3. /\ conn' = IF stops THEN notify_waiters(s, after) ELSE after
      /\ shutdown' = IF stops THEN [shutdown EXCEPT ![s] = TRUE] ELSE shutdown
      /\ UNCHANGED <<serve_lock, phase, loop, timed_out>>
  BY Zenon DEF RunHandler
<1> HIDE DEF done
<1> HIDE DEF stops, after
<1>4. shutdown' \in [Server -> BOOLEAN]
  BY <1>3 DEF ServeInv, ServeTypeOK
<1>5. conn' \in [Connection -> ConnRecord] /\ Settles
  <2>1. CASE ~stops
    BY <1>2, <1>3, <2>1 DEF Settles
  <2>2. CASE stops
    <3>1. conn' = notify_waiters(s, after)
      BY <1>3, <2>2
    <3> QED BY <1>2, <3>1, NotifyType DEF Settles
  <2> QED BY <2>1, <2>2
<1>6. ServeTypeOK'
  BY <1>3, <1>4, <1>5 DEF ServeInv, ServeTypeOK
<1> QED BY <1>3, <1>5, <1>6, SettlesKeeps

\* A signal.
LEMMA SignalKeeps ==
    ASSUME ServeInv, NEW s \in Server, Signal(s)
    PROVE  ServeInv'
<1>1. conn' \in [Connection -> ConnRecord] /\ Settles
  BY NotifyType DEF ServeInv, ServeTypeOK, Signal, Settles
<1>2. ServeTypeOK'
  BY <1>1 DEF ServeInv, ServeTypeOK, Signal
<1> QED BY <1>1, <1>2, SettlesKeeps DEF Signal

\* The main loop and the loops of the other listeners end.
LEMMA ListenerKeeps ==
    ASSUME ServeInv, NEW s \in Server, NEW l \in Listener,
           LeaveLoop(s) \/ DropRuntime(s, l) \/ EndListener(s, l)
    PROVE  ServeInv'
<1>1. CASE LeaveLoop(s)
  <2>1. ServeTypeOK'
    BY <1>1 DEF ServeInv, ServeTypeOK, LeaveLoop, Listener
  <2>2. phase[s] \in {"running", "joining"}
    BY <1>1 DEF ServeInv, ServeTypeOK, LoopInv, LeaveLoop, Listener
  <2>3. LockInv' /\ LoopInv'
    BY <1>1, <2>2 DEF ServeInv, ServeTypeOK, LockInv, LoopInv, LeaveLoop, Listener
  <2>4. ClosureInv'
    BY <1>1 DEF ServeInv, ServeTypeOK, ClosureInv, Blocking, LeaveLoop, Listener
  <2> QED BY <2>1, <2>3, <2>4 DEF ServeInv
<1>2. CASE DropRuntime(s, l)
  <2>1. conn' \in [Connection -> ConnRecord] /\ Settles
    BY <1>2, DroppedType DEF ServeInv, ServeTypeOK, DropRuntime
  <2>2. ServeTypeOK'
    BY <1>2, <2>1 DEF ServeInv, ServeTypeOK, DropRuntime
  <2>3. LockInv' /\ LoopInv'
    BY <1>2 DEF ServeInv, ServeTypeOK, LockInv, LoopInv, DropRuntime
  <2>4. \A t \in Server, k \in Listener : Blocking(t, k)' \subseteq Blocking(t, k)
    BY <2>1 DEF Settles, Blocking
  <2>5. ClosureInv'
    BY <1>2, <2>4 DEF ServeInv, ServeTypeOK, ClosureInv, DropRuntime, Listener
  <2> QED BY <2>2, <2>3, <2>5 DEF ServeInv
<1>3. CASE EndListener(s, l)
  <2>1. ServeTypeOK' /\ LockInv' /\ LoopInv'
    BY <1>3 DEF ServeInv, ServeTypeOK, LockInv, LoopInv, EndListener
  <2>2. ClosureInv'
    BY <1>3 DEF ServeInv, ServeTypeOK, ClosureInv, Blocking, EndListener
  <2> QED BY <2>1, <2>2 DEF ServeInv
<1> QED BY <1>1, <1>2, <1>3

\* The runtime is shut down, the lock given up, and the process ends.
LEMMA StopKeeps ==
    ASSUME ServeInv, NEW s \in Server,
           ShutdownRuntime(s) \/ ShutdownTimeout(s) \/ DropServeLock(s) \/ Exit(s)
    PROVE  ServeInv'
<1>1. CASE ShutdownRuntime(s)
  <2>0. "main" \in Listener
    BY DEF Listener
  <2>1. conn' \in [Connection -> ConnRecord] /\ Settles
    BY <1>1, <2>0, DroppedType DEF ServeInv, ServeTypeOK, ShutdownRuntime
  <2>2. ServeTypeOK'
    BY <1>1, <2>1 DEF ServeInv, ServeTypeOK, ShutdownRuntime
  <2>3. LockInv' /\ LoopInv'
    BY <1>1 DEF ServeInv, ServeTypeOK, LockInv, LoopInv, ShutdownRuntime
  <2>4. \A t \in Server, k \in Listener : Blocking(t, k)' \subseteq Blocking(t, k)
    BY <2>1 DEF Settles, Blocking
  <2>5. ClosureInv'
    BY <1>1, <2>4 DEF ServeInv, ServeTypeOK, ClosureInv, ShutdownRuntime, Listener
  <2> QED BY <2>2, <2>3, <2>5 DEF ServeInv
<1>2. CASE ShutdownTimeout(s)
  BY <1>2 DEF ServeInv, ServeTypeOK, LockInv, LoopInv, ClosureInv, Blocking, ShutdownTimeout
<1>3. CASE DropServeLock(s)
  BY <1>3 DEF ServeInv, ServeTypeOK, LockInv, LoopInv, ClosureInv, Blocking, DropServeLock
<1>4. CASE Exit(s)
  <2>1. ASSUME NEW c \in Connection
        PROVE  /\ [Unused EXCEPT !.st = conn[c].st] \in ConnRecord
               /\ [Unused EXCEPT !.st = conn[c].st].run = "none"
               /\ conn'[c] \in {conn[c], [Unused EXCEPT !.st = conn[c].st]}
    BY <1>4 DEF Exit, Unused, ConnRecord, ServeInv, ServeTypeOK, Listener
  <2>2. conn' \in [Connection -> ConnRecord] /\ Settles
    BY <1>4, <2>1 DEF Exit, ServeInv, ServeTypeOK, Settles
  <2>3. ServeTypeOK'
    BY <1>4, <2>2 DEF ServeInv, ServeTypeOK, Exit
  <2>4. LockInv' /\ LoopInv'
    BY <1>4 DEF ServeInv, ServeTypeOK, LockInv, LoopInv, Exit
  <2>5. \A t \in Server, k \in Listener : Blocking(t, k)' \subseteq Blocking(t, k)
    BY <2>2 DEF Settles, Blocking
  <2>6. ClosureInv'
    BY <1>4, <2>5 DEF ServeInv, ServeTypeOK, ClosureInv, Exit, Listener
  <2> QED BY <2>3, <2>4, <2>6 DEF ServeInv
<1> QED BY <1>1, <1>2, <1>3, <1>4

\* The lock, the listeners and the closures of serve() fit together at all
\* times: serve.lock is held by one process from its start to the drop at the
\* end of serve() (server.rs:274-290, 600-602), and no closure of it is left
\* then unless the shutdown ran out of time (server.rs:585-598).
THEOREM ServeInvariant == ServeSpec => []ServeInv
<1>1. ServeInit => ServeInv
  BY DEF ServeInit, ServeInv, ServeTypeOK, LockInv, LoopInv, ClosureInv, Blocking, Unused, ConnRecord, Listener
<1>2. ServeInv /\ [ServeNext]_serveVars => ServeInv'
  <2> SUFFICES ASSUME ServeInv, [ServeNext]_serveVars PROVE ServeInv'
    OBVIOUS
  <2>1. CASE UNCHANGED serveVars
    BY <2>1 DEF serveVars, ServeInv, ServeTypeOK, LockInv, LoopInv, ClosureInv, Blocking
  <2>2. ASSUME NEW s \in Server, StopStep(s) PROVE ServeInv'
    BY <2>2, ListenerKeeps, StopKeeps, AcceptKeeps DEF StopStep, Listener
  <2>3. ASSUME NEW c \in Connection, Handles(c) PROVE ServeInv'
    BY <2>3, HandlerKeeps DEF Handles
  <2> QED
    BY <2>1, <2>2, <2>3, LaunchKeeps, SignalKeeps, StopKeeps, AcceptKeeps, TaskKeeps, SpawnKeeps DEF ServeNext
<1> QED BY <1>1, <1>2, PTL DEF ServeSpec

\* Whatever the listeners, the configurations and the number of processes,
\* handlers of two of them run at the same time only with
\* --allow-multiprocess or after a shutdown that ran out of time.
THEOREM OneServer == ServeSpec => []OneServerHandles
<1>1. ServeInv => OneServerHandles
  <2> SUFFICES ASSUME ServeInv, NEW s \in Server, NEW t \in Server, Running(s), Running(t),
                      ~Config[s].allow_multiprocess, ~Config[t].allow_multiprocess,
                      ~timed_out[s], ~timed_out[t]
               PROVE  s = t
    BY DEF OneServerHandles
  <2>1. ASSUME NEW u \in Server, Running(u), ~Config[u].allow_multiprocess, ~timed_out[u]
        PROVE  u \in serve_lock
    <3>1. PICK c \in Connection : conn[c].at = u /\ conn[c].run = "running" /\ Alive(u)
      BY <2>1 DEF Running
    <3>2. conn[c].on \in Listener /\ c \in Blocking(u, conn[c].on)
      BY <3>1 DEF ServeInv, ServeTypeOK, ConnRecord, Blocking
    <3>3. phase[u] # "unlocked"
      BY <2>1, <3>2 DEF ServeInv, LoopInv, ClosureInv, Listener
    <3>4. phase[u] \in {"running", "joining", "draining"}
      BY <3>1, <3>3 DEF Alive, ServeInv, ServeTypeOK
    <3> QED BY <2>1, <3>4 DEF ServeInv, LockInv
  <2> QED BY <2>1 DEF ServeInv, LockInv
<1> QED BY <1>1, ServeInvariant, PTL
=============================================================================
