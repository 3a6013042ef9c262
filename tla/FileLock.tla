------------------------------ MODULE FileLock ------------------------------
(***************************************************************************)
(* The O_EXCL lock file of fs_util.rs: FileLock::acquire with its polling  *)
(* loop, the stale-lock reclamation of try_reclaim_stale, and Drop.        *)
(*                                                                         *)
(* refs.lock, objects.lock, audit-rotate.lock and serve.lock are all lock  *)
(* files of this kind.  An actor is a thread that calls acquire: a CLI     *)
(* process has one, the server has one per worker, and all the actors of   *)
(* one process have the same pid.                                          *)
(*                                                                         *)
(* Time is kept as an order only.  tick moves at every write to a lock     *)
(* file, so an mtime is a value of tick, and horizon separates the mtimes  *)
(* that are more than STALE_AFTER old from the others.                     *)
(***************************************************************************)
EXTENDS Naturals, FiniteSets

CONSTANTS
    Actor,      \* threads that take the lock
    Pid,        \* process ids
    PidOf,      \* the process of an actor
    NoPid,      \* a lock file whose body has no pid
    NoFile,     \* there is no lock file
    MaxTick,    \* bound on the writes to lock files
    Faults      \* the combinations of faults that are looked at

ASSUME ActorAssumption == PidOf \in [Actor -> Pid]

ASSUME BoundAssumption == MaxTick \in Nat

\* crash: processes may be killed; reuse: a killed process may come back with
\* its old pid; unstamped: writing the pid into the new lock file may fail;
\* slow: more than STALE_AFTER may pass before the pid is written.
Fault == {"crash", "reuse", "unstamped", "slow"}

ASSUME FaultAssumption == Faults \subseteq SUBSET Fault

\* What read_lock_marker returns, and the lock file itself.  owner is the
\* actor whose create_new made the file: it stands for the inode, since an
\* actor has at most one lock file open at a time.
Marker == [pid : Pid \cup {NoPid}, mtime : Nat]
LockFile == [owner : Actor, pid : Pid \cup {NoPid}, mtime : Nat]

ASSUME NoValueAssumption == NoPid \notin Pid /\ NoFile \notin LockFile

NoMarker == [pid |-> NoPid, mtime |-> 0]

Acquiring == {"create", "stat1", "read1", "check", "stat2", "read2", "unlink", "retry"}
Critical == {"stamp", "holding"}
PC == {"idle", "dead"} \cup Acquiring \cup Critical

VARIABLES
    file,       \* the directory entry at the lock's path
    tick,       \* the last mtime given to a lock file
    horizon,    \* mtimes up to this one are older than STALE_AFTER
    live,       \* the pids with an entry under /proc
    pc,         \* where each actor is
    expired,    \* the deadline of the actor's acquire has passed
    seen1,      \* (pid1, mtime1) of try_reclaim_stale
    seen2,      \* mtime2 of try_reclaim_stale (pid2 is compared as it is read)
    faults      \* the faults that may happen in this behaviour

vars == <<file, tick, horizon, live, pc, expired, seen1, seen2, faults>>

Holds(a) == pc[a] \in Critical

Owns(a) == file # NoFile /\ file.owner = a

\* Mutant: the process of the marker is not looked up.
pid_alive_Never(p) == FALSE

pid_alive(p) == p \in live

Stale(m) == m <= horizon

TypeOK ==
    /\ file \in LockFile \cup {NoFile}
    /\ tick \in Nat /\ horizon \in Nat
    /\ live \subseteq Pid
    /\ pc \in [Actor -> PC]
    /\ expired \in [Actor -> BOOLEAN]
    /\ seen1 \in [Actor -> Marker]
    /\ seen2 \in [Actor -> Nat]
    /\ faults \subseteq Fault

Init ==
    /\ file = NoFile
    /\ tick = 0
    /\ horizon = 0
    /\ live = Pid
    /\ pc = [a \in Actor |-> "idle"]
    /\ expired = [a \in Actor |-> FALSE]
    /\ seen1 = [a \in Actor |-> NoMarker]
    /\ seen2 = [a \in Actor |-> 0]
    /\ faults \in Faults

(***************************************************************************)
(* FileLock::acquire                                                       *)
(***************************************************************************)

\* Every started acquire has room to create and stamp one lock file.
Room == tick + 2 * Cardinality({a \in Actor : pc[a] \in Acquiring \cup {"stamp"}}) + 2 <= MaxTick

Start(a) ==
    /\ pc[a] = "idle"
    /\ Room
    /\ pc' = [pc EXCEPT ![a] = "create"]
    /\ UNCHANGED <<file, tick, horizon, live, expired, seen1, seen2, faults>>

\* create_new: O_EXCL makes the file or reports AlreadyExists.
Create(a) ==
    /\ pc[a] = "create"
    /\ \/ /\ file = NoFile
          /\ tick' = tick + 1
          /\ file' = [owner |-> a, pid |-> NoPid, mtime |-> tick + 1]
          /\ pc' = [pc EXCEPT ![a] = "stamp"]
       \/ /\ file # NoFile
          /\ pc' = [pc EXCEPT ![a] = "stat1"]
          /\ UNCHANGED <<file, tick>>
    /\ UNCHANGED <<horizon, live, expired, seen1, seen2, faults>>

\* The pid goes through the open handle: it is lost when somebody has
\* unlinked the file meanwhile, and an error of the write is ignored.
Stamp(a) ==
    /\ pc[a] = "stamp"
    /\ pc' = [pc EXCEPT ![a] = "holding"]
    /\ expired' = [expired EXCEPT ![a] = FALSE]
    /\ \/ /\ Owns(a)
          /\ tick' = tick + 1
          /\ file' = [owner |-> a, pid |-> PidOf[a], mtime |-> tick + 1]
       \/ /\ ~Owns(a) \/ "unstamped" \in faults
          /\ UNCHANGED <<file, tick>>
    /\ UNCHANGED <<horizon, live, seen1, seen2, faults>>

\* Mutant: the deadline is not looked at.
Retry_Forever(a) ==
    /\ pc[a] = "retry"
    /\ pc' = [pc EXCEPT ![a] = "create"]
    /\ expired' = [expired EXCEPT ![a] = FALSE]
    /\ UNCHANGED <<file, tick, horizon, live, seen1, seen2, faults>>

\* try_reclaim_stale returned false: give up after the deadline, else poll.
Retry(a) ==
    /\ pc[a] = "retry"
    /\ pc' = [pc EXCEPT ![a] = IF expired[a] THEN "idle" ELSE "create"]
    /\ expired' = [expired EXCEPT ![a] = FALSE]
    /\ UNCHANGED <<file, tick, horizon, live, seen1, seen2, faults>>

\* Drop removes whatever is at the path.
Release(a) ==
    /\ pc[a] = "holding"
    /\ pc' = [pc EXCEPT ![a] = "idle"]
    /\ file' = NoFile
    /\ UNCHANGED <<tick, horizon, live, expired, seen1, seen2, faults>>

(***************************************************************************)
(* try_reclaim_stale.  read_lock_marker is a stat followed by a read; a    *)
(* file that is gone at the read leaves an empty body and so no pid.       *)
(* The markers are forgotten when the function returns.                    *)
(***************************************************************************)

BodyPid == IF file = NoFile THEN NoPid ELSE file.pid

Stat1(a) ==
    /\ pc[a] = "stat1"
    /\ \/ /\ file = NoFile
          /\ pc' = [pc EXCEPT ![a] = "retry"]
          /\ seen1' = seen1
       \/ /\ file # NoFile
          /\ pc' = [pc EXCEPT ![a] = "read1"]
          /\ seen1' = [seen1 EXCEPT ![a] = [pid |-> NoPid, mtime |-> file.mtime]]
    /\ UNCHANGED <<file, tick, horizon, live, expired, seen2, faults>>

Read1(a) ==
    /\ pc[a] = "read1"
    /\ seen1' = [seen1 EXCEPT ![a] = [pid |-> BodyPid, mtime |-> @.mtime]]
    /\ pc' = [pc EXCEPT ![a] = "check"]
    /\ UNCHANGED <<file, tick, horizon, live, expired, seen2, faults>>

\* Mutant: a lock file without a pid is never reclaimed.
Suspect_WithPid(m) == Stale(m.mtime) /\ m.pid # NoPid /\ ~pid_alive(m.pid)

\* Old enough, and no live process recorded: go on to the second look.
Suspect(m) == Stale(m.mtime) /\ (m.pid = NoPid \/ ~pid_alive(m.pid))

Check(a) ==
    /\ pc[a] = "check"
    /\ \/ /\ Suspect(seen1[a])
          /\ pc' = [pc EXCEPT ![a] = "stat2"]
          /\ seen1' = seen1
       \/ /\ ~Suspect(seen1[a])
          /\ pc' = [pc EXCEPT ![a] = "retry"]
          /\ seen1' = [seen1 EXCEPT ![a] = NoMarker]
    /\ UNCHANGED <<file, tick, horizon, live, expired, seen2, faults>>

Stat2(a) ==
    /\ pc[a] = "stat2"
    /\ \/ /\ file = NoFile
          /\ pc' = [pc EXCEPT ![a] = "retry"]
          /\ seen1' = [seen1 EXCEPT ![a] = NoMarker]
          /\ seen2' = seen2
       \/ /\ file # NoFile
          /\ pc' = [pc EXCEPT ![a] = "read2"]
          /\ seen2' = [seen2 EXCEPT ![a] = file.mtime]
          /\ seen1' = seen1
    /\ UNCHANGED <<file, tick, horizon, live, expired, faults>>

Read2(a) ==
    /\ pc[a] = "read2"
    /\ \/ /\ seen1[a] = [pid |-> BodyPid, mtime |-> seen2[a]]
          /\ pc' = [pc EXCEPT ![a] = "unlink"]
          /\ seen1' = seen1
       \/ /\ seen1[a] # [pid |-> BodyPid, mtime |-> seen2[a]]
          /\ pc' = [pc EXCEPT ![a] = "retry"]
          /\ seen1' = [seen1 EXCEPT ![a] = NoMarker]
    /\ seen2' = [seen2 EXCEPT ![a] = 0]
    /\ UNCHANGED <<file, tick, horizon, live, expired, faults>>

\* remove_file by name, then straight back to create_new.
Unlink(a) ==
    /\ pc[a] = "unlink"
    /\ file' = NoFile
    /\ pc' = [pc EXCEPT ![a] = "create"]
    /\ seen1' = [seen1 EXCEPT ![a] = NoMarker]
    /\ UNCHANGED <<tick, horizon, live, expired, seen2, faults>>

(***************************************************************************)
(* The environment: time, deadlines, crashes                               *)
(***************************************************************************)

\* Unless a stamp may be slow, a new lock file gets its pid before it looks stale.
Elapse ==
    /\ \E h \in horizon + 1 .. tick :
          /\ "slow" \in faults \/ \A a \in Actor : (pc[a] = "stamp" /\ Owns(a)) => h < file.mtime
          /\ horizon' = h
    /\ UNCHANGED <<file, tick, live, pc, expired, seen1, seen2, faults>>

Expire(a) ==
    /\ pc[a] \in Acquiring
    /\ ~expired[a]
    /\ expired' = [expired EXCEPT ![a] = TRUE]
    /\ UNCHANGED <<file, tick, horizon, live, pc, seen1, seen2, faults>>

Crash(p) ==
    /\ "crash" \in faults
    /\ p \in live
    /\ live' = live \ {p}
    /\ pc' = [a \in Actor |-> IF PidOf[a] = p THEN "dead" ELSE pc[a]]
    /\ expired' = [a \in Actor |-> PidOf[a] # p /\ expired[a]]
    /\ seen1' = [a \in Actor |-> IF PidOf[a] = p THEN NoMarker ELSE seen1[a]]
    /\ seen2' = [a \in Actor |-> IF PidOf[a] = p THEN 0 ELSE seen2[a]]
    /\ UNCHANGED <<file, tick, horizon, faults>>

Restart(p) ==
    /\ "reuse" \in faults
    /\ p \in Pid \ live
    /\ live' = live \cup {p}
    /\ pc' = [a \in Actor |-> IF PidOf[a] = p THEN "idle" ELSE pc[a]]
    /\ UNCHANGED <<file, tick, horizon, expired, seen1, seen2, faults>>

Step(a) ==
    \/ Create(a) \/ Stamp(a) \/ Retry(a)
    \/ Stat1(a) \/ Read1(a) \/ Check(a) \/ Stat2(a) \/ Read2(a) \/ Unlink(a)

Next ==
    \/ \E a \in Actor : Start(a) \/ Step(a) \/ Release(a) \/ Expire(a)
    \/ \E p \in Pid : Crash(p) \/ Restart(p)
    \/ Elapse

Spec == Init /\ [][Next]_vars

\* The scheduler runs every live thread, clocks move, and a critical section
\* ends: each caller drops the lock on every path out of its command.
Fairness ==
    /\ \A a \in Actor : WF_vars(Step(a)) /\ WF_vars(Release(a)) /\ WF_vars(Expire(a))
    /\ WF_vars(Elapse)

FairSpec == Spec /\ Fairness

(***************************************************************************)
(* Properties                                                              *)
(***************************************************************************)

\* Nothing goes wrong, except that pids are reused.
Quiet == faults \subseteq {"reuse"}

\* The doc of FileLock: while an actor holds the lock no other actor does.
OneHolder == \A a, b \in Actor : Holds(a) /\ Holds(b) => a = b

\* The lock of Repo::lock and objects_lock excludes, as long as no process is
\* killed and each lock file gets its pid in time.
MutualExclusion == Quiet => OneHolder

\* The promise behind the second look of try_reclaim_stale: the lock file of
\* a holder that recorded its pid is only ever removed by that holder, by an
\* actor that compared an older lock file (both markers read before this
\* holder's), or by an actor whose own lock file had been removed before.
ReclaimJustified ==
    [][\A a \in Actor :
         (Holds(a) /\ Owns(a) /\ file.pid # NoPid /\ Holds(a)' /\ file' = NoFile)
            => \E r \in Actor \ {a} :
                  \/ pc[r] = "unlink" /\ seen1[r].mtime < file.mtime
                  \/ pc[r] = "holding"]_vars

\* Every call of acquire returns, with the lock or with the timeout error,
\* unless its process is killed.
AcquireReturns ==
    \A a \in Actor : pc[a] \in Acquiring ~> pc[a] \notin Acquiring

Interested == \E a \in Actor : pc[a] \in Acquiring

\* The lock file of an actor that was killed in its critical section.
Orphaned == file # NoFile /\ ~Holds(file.owner)

\* A killed holder's lock file does not stay for ever while actors keep asking
\* for the lock, unless its pid is given to another process.
OrphanReclaimed == []<>Interested /\ []("reuse" \notin faults) => (Orphaned ~> ~Orphaned)

\* The holders are the callers that acquire has returned to, or is about to,
\* and that have not dropped the lock.
M == INSTANCE Mutex WITH holders <- IF Quiet THEN {a \in Actor : Holds(a)} ELSE {}

\* What the callers of Repo::lock and objects_lock rely on: in a quiet
\* behaviour the steps of acquire and Drop are one atomic acquire and one
\* atomic release.
MutexSpec == M!Spec
=============================================================================
