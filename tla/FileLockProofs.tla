--------------------------- MODULE FileLockProofs ---------------------------
(* Proofs about FileLock for every set of actors and every number of       *)
(* processes: type correctness, mutual exclusion and the refinement of     *)
(* Mutex without faults, and what survives of the lock with every fault.   *)
EXTENDS FileLock, TLAPS

\* Type correctness of the lock file, of the process table and of what the
\* callers of acquire have read.
THEOREM TypeCorrect == Spec => []TypeOK
<1>1. Init => TypeOK
  BY NoValueAssumption, FaultAssumption DEF Init, TypeOK, PC, Marker, NoMarker
<1>2. TypeOK /\ [Next]_vars => TypeOK'
  <2> SUFFICES ASSUME TypeOK, [Next]_vars PROVE TypeOK'
    OBVIOUS
  <2> USE DEF TypeOK, PC, Marker, NoMarker, LockFile, Acquiring, Critical
  <2>1. ASSUME NEW a \in Actor, Start(a) PROVE TypeOK'
    BY <2>1 DEF Start
  <2>2. ASSUME NEW a \in Actor, Create(a) PROVE TypeOK'
    BY <2>2 DEF Create
  <2>3. ASSUME NEW a \in Actor, Stamp(a) PROVE TypeOK'
    <3>1. PidOf[a] \in Pid
      BY ActorAssumption
    <3>2. file' \in LockFile \cup {NoFile} /\ tick' \in Nat
      <4>1. CASE file' = [owner |-> a, pid |-> PidOf[a], mtime |-> tick + 1] /\ tick' = tick + 1
        BY <4>1, <3>1
      <4>2. CASE UNCHANGED <<file, tick>>
        BY <4>2
      <4> QED
        BY <2>3, <4>1, <4>2 DEF Stamp
    <3> QED
      BY <2>3, <3>2 DEF Stamp
  <2>4. ASSUME NEW a \in Actor, Retry(a) PROVE TypeOK'
    BY <2>4 DEF Retry
  <2>5. ASSUME NEW a \in Actor, Release(a) PROVE TypeOK'
    BY <2>5 DEF Release
  <2>6. ASSUME NEW a \in Actor, Stat1(a) PROVE TypeOK'
    BY <2>6 DEF Stat1
  <2>7. ASSUME NEW a \in Actor, Read1(a) PROVE TypeOK'
    BY <2>7 DEF Read1, BodyPid
  <2>8. ASSUME NEW a \in Actor, Check(a) PROVE TypeOK'
    BY <2>8 DEF Check
  <2>9. ASSUME NEW a \in Actor, Stat2(a) PROVE TypeOK'
    <3>1. pc' \in [Actor -> PC] /\ seen1' \in [Actor -> Marker] /\ seen2' \in [Actor -> Nat]
      <4>1. pc' \in [Actor -> PC]
        BY <2>9 DEF Stat2
      <4>2. seen1' \in [Actor -> Marker]
        BY <2>9 DEF Stat2
      <4>3. seen2' \in [Actor -> Nat]
        BY <2>9 DEF Stat2
      <4> QED
        BY <4>1, <4>2, <4>3
    <3> QED
      BY <2>9, <3>1 DEF Stat2
  <2>10. ASSUME NEW a \in Actor, Read2(a) PROVE TypeOK'
    <3>1. pc' \in [Actor -> PC] /\ seen1' \in [Actor -> Marker] /\ seen2' \in [Actor -> Nat]
      <4>1. pc' \in [Actor -> PC]
        BY <2>10 DEF Read2
      <4>2. seen1' \in [Actor -> Marker]
        BY <2>10 DEF Read2
      <4>3. seen2' \in [Actor -> Nat]
        BY <2>10 DEF Read2
      <4> QED
        BY <4>1, <4>2, <4>3
    <3> QED
      BY <2>10, <3>1 DEF Read2
  <2>11. ASSUME NEW a \in Actor, Unlink(a) PROVE TypeOK'
    BY <2>11 DEF Unlink
  <2>12. ASSUME NEW a \in Actor, Expire(a) PROVE TypeOK'
    BY <2>12 DEF Expire
  <2>13. ASSUME NEW p \in Pid, Crash(p) PROVE TypeOK'
    BY <2>13 DEF Crash
  <2>14. ASSUME NEW p \in Pid, Restart(p) PROVE TypeOK'
    BY <2>14 DEF Restart
  <2>15. CASE Elapse
    BY <2>15 DEF Elapse
  <2>16. CASE UNCHANGED vars
    BY <2>16 DEF vars
  <2> QED
    BY <2>1, <2>2, <2>3, <2>4, <2>5, <2>6, <2>7, <2>8, <2>9, <2>10, <2>11,
       <2>12, <2>13, <2>14, <2>15, <2>16 DEF Next, Step
<1> QED
  BY <1>1, <1>2, PTL DEF Spec

-----------------------------------------------------------------------------
(* Without faults: nobody ever gets as far as unlink.                      *)

Looking == {"read1", "check", "stat2", "read2", "unlink"}

\* The file whose mtime a has read is no longer at the path.
Gone(a) == file = NoFile \/ file.mtime # seen1[a].mtime

\* Clocks: no lock file and no marker is newer than the last write.
TimeInv ==
    /\ horizon <= tick
    /\ file # NoFile => file.mtime <= tick
    /\ \A a \in Actor : pc[a] \in Looking => seen1[a].mtime <= tick

\* The lock file belongs to the actor in its critical section, and it lacks
\* a pid only while it is too young to be stale.
OwnerInv ==
    /\ \A a \in Actor : Holds(a) => Owns(a)
    /\ file # NoFile =>
         /\ Holds(file.owner)
         /\ pc[file.owner] = "holding" => file.pid # NoPid
         /\ pc[file.owner] = "stamp" => horizon < file.mtime

\* An actor that suspects the file it saw suspects a file that is gone.
SuspectInv ==
    \A a \in Actor :
      /\ pc[a] = "check" /\ seen1[a].pid = NoPid => Gone(a) \/ file.pid = NoPid
      /\ pc[a] \in {"stat2", "read2"} => Gone(a)
      /\ pc[a] = "read2" => seen2[a] # seen1[a].mtime
      /\ pc[a] # "unlink"

QuietInv == TypeOK /\ live = Pid /\ TimeInv /\ OwnerInv /\ SuspectInv

\* The initial state, with no lock file and nobody asking, satisfies QuietInv.
LEMMA QuietInit == Init => QuietInv
<1> SUFFICES ASSUME Init PROVE QuietInv
  OBVIOUS
<1>1. TypeOK
  BY NoValueAssumption, FaultAssumption DEF Init, TypeOK, PC, Marker, NoMarker
<1>2. TimeInv /\ OwnerInv /\ SuspectInv
  BY DEF Init, TimeInv, OwnerInv, SuspectInv, Holds, Owns, Critical, Looking
<1> QED
  BY <1>1, <1>2 DEF QuietInv, Init

\* Without faults no step of acquire, try_reclaim_stale or Drop breaks QuietInv.
LEMMA QuietStep == ASSUME Quiet, QuietInv, [Next]_vars, TypeOK' PROVE QuietInv'
<1> USE DEF Quiet, QuietInv
<1> DEFINE Goal == (live = Pid /\ TimeInv /\ OwnerInv /\ SuspectInv)'
<1> USE DEF TimeInv, OwnerInv, SuspectInv, Holds, Owns, Gone, Looking, Critical, Acquiring
<1>1. ASSUME NEW a \in Actor, Start(a) PROVE Goal
  BY <1>1 DEF Start, TypeOK
<1>2. ASSUME NEW a \in Actor, Create(a) PROVE Goal
  BY <1>2, NoValueAssumption DEF Create, TypeOK, LockFile, Marker
<1>3. ASSUME NEW a \in Actor, Stamp(a) PROVE Goal
  <2>1. /\ Owns(a) /\ tick' = tick + 1 /\ PidOf[a] \in Pid /\ PidOf[a] # NoPid
        /\ file' = [owner |-> a, pid |-> PidOf[a], mtime |-> tick + 1]
        /\ pc' = [pc EXCEPT ![a] = "holding"]
        /\ UNCHANGED <<horizon, live, seen1, seen2>>
    BY <1>3, NoValueAssumption, ActorAssumption DEF Stamp
  <2>2. file' # NoFile /\ file'.mtime = tick + 1 /\ file'.owner = a /\ file'.pid # NoPid
    BY <2>1, NoValueAssumption DEF TypeOK, LockFile
  <2>3. TimeInv'
    BY <2>1, <2>2 DEF TypeOK, Marker
  <2>4. OwnerInv'
    BY <2>1, <2>2 DEF TypeOK
  <2>5. SuspectInv'
    BY <2>1, <2>2 DEF TypeOK, Marker
  <2> QED
    BY <2>1, <2>3, <2>4, <2>5
<1>4. ASSUME NEW a \in Actor, Retry(a) PROVE Goal
  BY <1>4 DEF Retry, TypeOK
<1>5. ASSUME NEW a \in Actor, Release(a) PROVE Goal
  BY <1>5 DEF Release, TypeOK
<1>6. ASSUME NEW a \in Actor, Stat1(a) PROVE Goal
  <2>1. TimeInv'
    <3>1. ASSUME NEW b \in Actor, pc'[b] \in Looking PROVE seen1'[b].mtime <= tick
      <4>1. CASE b = a
        BY <1>6, <3>1, <4>1 DEF Stat1, TypeOK
      <4>2. CASE b # a
        BY <1>6, <3>1, <4>2 DEF Stat1, TypeOK
      <4> QED
        BY <4>1, <4>2
    <3> QED
      BY <1>6, <3>1 DEF Stat1
  <2>2. OwnerInv'
    <3>1. file # NoFile => file.owner \in Actor /\ file.owner # a
      BY <1>6 DEF Stat1, TypeOK, LockFile
    <3> QED
      BY <1>6, <3>1 DEF Stat1, TypeOK
  <2>3. SuspectInv'
    <3> SUFFICES ASSUME NEW b \in Actor PROVE SuspectInv!(b)'
      BY DEF SuspectInv
    <3>1. CASE file = NoFile
      BY <1>6, <3>1 DEF Stat1, TypeOK
    <3>2. CASE file # NoFile
      BY <1>6, <3>2 DEF Stat1, TypeOK
    <3> QED
      BY <3>1, <3>2
  <2> QED
    BY <1>6, <2>1, <2>2, <2>3 DEF Stat1
<1>7. ASSUME NEW a \in Actor, Read1(a) PROVE Goal
  BY <1>7 DEF Read1, BodyPid, TypeOK, Marker, LockFile
<1>8. ASSUME NEW a \in Actor, Check(a) PROVE Goal
  BY <1>8, NoValueAssumption DEF Check, Suspect, Stale, pid_alive, TypeOK, Marker, LockFile
<1>9. ASSUME NEW a \in Actor, Stat2(a) PROVE Goal
  <2>1. TimeInv'
    <3>1. ASSUME NEW b \in Actor, pc'[b] \in Looking PROVE seen1'[b].mtime <= tick
      <4>1. CASE b = a
        BY <1>9, <3>1, <4>1 DEF Stat2, TypeOK
      <4>2. CASE b # a
        BY <1>9, <3>1, <4>2 DEF Stat2, TypeOK
      <4> QED
        BY <4>1, <4>2
    <3> QED
      BY <1>9, <3>1 DEF Stat2
  <2>2. OwnerInv'
    <3>1. file # NoFile => file.owner \in Actor /\ file.owner # a
      BY <1>9 DEF Stat2, TypeOK, LockFile
    <3> QED
      BY <1>9, <3>1 DEF Stat2, TypeOK
  <2>3. SuspectInv'
    <3> SUFFICES ASSUME NEW b \in Actor PROVE SuspectInv!(b)'
      BY DEF SuspectInv
    <3>1. CASE file = NoFile
      BY <1>9, <3>1 DEF Stat2, TypeOK
    <3>2. CASE file # NoFile
      BY <1>9, <3>2 DEF Stat2, TypeOK
    <3> QED
      BY <3>1, <3>2
  <2> QED
    BY <1>9, <2>1, <2>2, <2>3 DEF Stat2
<1>10. ASSUME NEW a \in Actor, Read2(a) PROVE Goal
  BY <1>10 DEF Read2, BodyPid, TypeOK, Marker, LockFile
<1>11. ASSUME NEW a \in Actor, Unlink(a) PROVE Goal
  BY <1>11 DEF Unlink
<1>12. ASSUME NEW a \in Actor, Expire(a) PROVE Goal
  BY <1>12 DEF Expire
<1>13. ASSUME NEW p \in Pid, Crash(p) PROVE Goal
  BY <1>13 DEF Crash
<1>14. ASSUME NEW p \in Pid, Restart(p) PROVE Goal
  BY <1>14 DEF Restart
<1>15. CASE Elapse
  BY <1>15 DEF Elapse, TypeOK, LockFile
<1>16. CASE UNCHANGED vars
  BY <1>16 DEF vars
<1> QED
  BY <1>1, <1>2, <1>3, <1>4, <1>5, <1>6, <1>7, <1>8, <1>9, <1>10, <1>11,
     <1>12, <1>13, <1>14, <1>15, <1>16 DEF Next, Step

\* No step of a process changes which faults may happen.
LEMMA FaultsFixed == ASSUME [Next]_vars PROVE faults' = faults
BY DEF Next, Step, Start, Create, Stamp, Retry, Release, Stat1, Read1, Check, Stat2,
       Read2, Unlink, Elapse, Expire, Crash, Restart, vars

\* QuietInv holds throughout every quiet behaviour.
LEMMA QuietAlways == Spec => [](Quiet => QuietInv)
<1>1. (Quiet => QuietInv) /\ [Next]_vars /\ TypeOK' => (Quiet => QuietInv)'
  BY QuietStep, FaultsFixed DEF Quiet
<1> QED
  BY <1>1, QuietInit, TypeCorrect, PTL DEF Spec

\* Without crashes, failed writes or a stall before the pid is written, two
\* callers of FileLock::acquire never hold the lock at the same time.
THEOREM QuietMutualExclusion == Spec => []MutualExclusion
<1>1. (Quiet => QuietInv) => MutualExclusion
  BY DEF QuietInv, OwnerInv, MutualExclusion, OneHolder, Owns
<1> QED
  BY <1>1, QuietAlways, PTL

\* Under the same assumption acquire and Drop implement the abstract mutex
\* that the other modules take refs.lock and objects.lock to be.
THEOREM QuietRefinesMutex == Spec => MutexSpec
<1> DEFINE h == IF Quiet THEN {a \in Actor : Holds(a)} ELSE {}
<1>1. Init => M!Init
  BY DEF Init, M!Init, Holds, Critical
<1>2. ASSUME Quiet, QuietInv, TypeOK', [Next]_vars PROVE [M!Next]_h
  <2>0. Quiet' /\ pc \in [Actor -> PC]
    BY <1>2, FaultsFixed DEF Quiet, QuietInv, TypeOK
  <2>1. ASSUME \A b \in Actor : Holds(b)' <=> Holds(b) PROVE h' = h
    BY <1>2, <2>0, <2>1
  <2>2. ASSUME NEW a \in Actor, Create(a) PROVE [M!Next]_h
    <3>1. CASE file = NoFile
      <4>1. \A b \in Actor : ~Holds(b)
        BY <1>2, <3>1 DEF QuietInv, OwnerInv, Owns
      <4>2. \A b \in Actor : Holds(b)' <=> b = a
        BY <2>0, <2>2, <3>1, <4>1 DEF Create, Holds, Critical
      <4>3. h = {} /\ h' = {a}
        BY <2>0, <4>1, <4>2
      <4> QED
        BY <4>3 DEF M!Next, M!Acquire
    <3>2. CASE file # NoFile
      <4>1. \A b \in Actor : Holds(b)' <=> Holds(b)
        BY <2>0, <2>2, <3>2 DEF Create, Holds, Critical
      <4> QED
        BY <2>1, <4>1
    <3> QED
      BY <3>1, <3>2
  <2>3. ASSUME NEW a \in Actor, Release(a) PROVE [M!Next]_h
    <3>1. Holds(a) /\ \A b \in Actor : Holds(b) => b = a
      BY <1>2, <2>3 DEF Release, QuietInv, OwnerInv, Owns, Holds, Critical
    <3>2. \A b \in Actor : ~Holds(b)'
      BY <2>0, <2>3, <3>1 DEF Release, Holds, Critical
    <3>3. h = {a} /\ h' = {}
      BY <1>2, <2>0, <3>1, <3>2
    <3> QED
      BY <3>3 DEF M!Next, M!Release
  <2>4. ASSUME NEW a \in Actor, Stamp(a) \/ Start(a) \/ Retry(a) \/ Stat1(a) \/ Read1(a) \/ Check(a)
                                \/ Stat2(a) \/ Read2(a)
        PROVE  \A b \in Actor : Holds(b)' <=> Holds(b)
    BY <2>0, <2>4 DEF Stamp, Start, Retry, Stat1, Read1, Check, Stat2, Read2, Holds, Critical
  <2>5. ASSUME NEW a \in Actor, Unlink(a) PROVE FALSE
    BY <1>2, <2>5 DEF Unlink, QuietInv, SuspectInv
  <2>6. ASSUME NEW p \in Pid, Crash(p) \/ Restart(p) PROVE FALSE
    BY <1>2, <2>6 DEF Crash, Restart, Quiet, QuietInv
  <2>7. ASSUME Elapse \/ (\E a \in Actor : Expire(a)) \/ UNCHANGED vars
        PROVE  \A b \in Actor : Holds(b)' <=> Holds(b)
    BY <2>7 DEF Elapse, Expire, vars, Holds
  <2>8. ASSUME \E a \in Actor : Start(a) \/ Step(a) PROVE [M!Next]_h
    BY <2>1, <2>2, <2>4, <2>5, <2>8 DEF Step
  <2>9. ASSUME Elapse \/ (\E a \in Actor : Expire(a)) \/ UNCHANGED vars PROVE h' = h
    BY <2>1, <2>7, <2>9
  <2> HIDE DEF h
  <2> QED
    BY <1>2, <2>3, <2>6, <2>8, <2>9 DEF Next
<1>3. ASSUME ~Quiet, [Next]_vars PROVE [M!Next]_h
  BY <1>3, FaultsFixed DEF Quiet
<1>4. (Quiet => QuietInv) /\ TypeOK' /\ [Next]_vars => [M!Next]_h
  BY <1>2, <1>3
<1> QED
  BY <1>1, <1>4, QuietAlways, TypeCorrect, PTL DEF Spec, MutexSpec, M!Spec

-----------------------------------------------------------------------------
(* With every fault: the second look protects a holder that recorded its   *)
(* pid from everybody who looked at its own file.                          *)

\* The lock file is never older than a marker that is still in use.
OrderInv ==
    /\ horizon <= tick
    /\ file # NoFile => file.mtime <= tick
    /\ \A a \in Actor : pc[a] \in Looking =>
         /\ seen1[a].mtime <= tick
         /\ file # NoFile => seen1[a].mtime <= file.mtime

\* A recorded pid is its owner's, and the actors of a dead process are dead.
PidInv ==
    /\ file # NoFile => file.pid \in {NoPid, PidOf[file.owner]}
    /\ \A a \in Actor : PidOf[a] \notin live => pc[a] = "dead"

\* The file that a has read and that is still at the path.
Same(a) == file # NoFile /\ file.mtime = seen1[a].mtime

\* Past the checks on pid1, a recorded owner of the same file is dead.
VerdictInv ==
    \A a \in Actor :
      /\ pc[a] = "check" /\ Same(a) => seen1[a].pid = file.pid
      /\ pc[a] \in {"stat2", "read2", "unlink"} /\ Same(a) /\ file.pid # NoPid => ~Holds(file.owner)

FaultInv == OrderInv /\ PidInv /\ VerdictInv

\* Crashes, reused pids, failed and late stamps included, no step of acquire,
\* try_reclaim_stale or Drop breaks FaultInv.
LEMMA FaultStep == ASSUME TypeOK, FaultInv, [Next]_vars, TypeOK' PROVE FaultInv'
<1> USE DEF FaultInv, OrderInv, PidInv, VerdictInv, Same, Holds, Owns, Looking, Critical, Acquiring
<1>0. /\ file # NoFile => file.owner \in Actor /\ file.mtime \in Nat /\ file.pid \in Pid \cup {NoPid}
      /\ tick \in Nat /\ horizon \in Nat /\ pc \in [Actor -> PC]
      /\ seen1 \in [Actor -> Marker]
      /\ \A a \in Actor : seen1[a].mtime \in Nat
  BY DEF TypeOK, LockFile, Marker
<1>1. ASSUME NEW a \in Actor, Start(a) PROVE FaultInv'
  BY <1>0, <1>1 DEF Start
<1>2. ASSUME NEW a \in Actor, Create(a) PROVE FaultInv'
  <2>1. CASE file = NoFile
    <3>1. /\ file' # NoFile /\ file'.owner = a /\ file'.pid = NoPid /\ file'.mtime = tick + 1
          /\ tick' = tick + 1 /\ pc' = [pc EXCEPT ![a] = "stamp"]
          /\ UNCHANGED <<horizon, live, seen1>>
      BY <1>2, <2>1, NoValueAssumption DEF Create, TypeOK, LockFile
    <3> QED
      BY <1>0, <1>2, <3>1 DEF Create
  <2>2. CASE file # NoFile
    BY <1>0, <1>2, <2>2 DEF Create
  <2> QED
    BY <2>1, <2>2
<1>3. ASSUME NEW a \in Actor, Stamp(a) PROVE FaultInv'
  <2>1. CASE UNCHANGED <<file, tick>>
    BY <1>0, <1>3, <2>1 DEF Stamp
  <2>2. CASE file' = [owner |-> a, pid |-> PidOf[a], mtime |-> tick + 1] /\ tick' = tick + 1 /\ Owns(a)
    <3>1. /\ file' # NoFile /\ file'.owner = a /\ file'.pid = PidOf[a] /\ file'.mtime = tick + 1
          /\ pc' = [pc EXCEPT ![a] = "holding"]
          /\ UNCHANGED <<horizon, live, seen1>>
      BY <1>3, <2>2, ActorAssumption, NoValueAssumption DEF Stamp, TypeOK, LockFile
    <3> QED
      <4>1. pc[a] = "stamp" /\ \A r \in Actor \ {a} : pc'[r] = pc[r]
        BY <1>0, <1>3, <3>1 DEF Stamp
      <4>2. pc'[a] = "holding"
        BY <1>0, <3>1
      <4>3. ASSUME NEW r \in Actor, pc'[r] \in Looking
            PROVE  r # a /\ seen1'[r].mtime <= tick
        BY <3>1, <4>1, <4>2, <4>3
      <4>4. OrderInv'
        BY <1>0, <2>2, <3>1, <4>3
      <4>5. PidInv'
        <5>1. ASSUME NEW r \in Actor, PidOf[r] \notin live' PROVE pc'[r] = "dead"
          BY <3>1, <4>1, <4>2, <5>1
        <5> QED
          BY <3>1, <5>1
      <4>6. \A r \in Actor : pc'[r] \in Looking => ~Same(r)'
        BY <1>0, <3>1, <4>3
      <4>7. VerdictInv'
        BY <4>6
      <4> QED
        BY <4>4, <4>5, <4>7
  <2> QED
    BY <1>3, <2>1, <2>2 DEF Stamp
<1>4. ASSUME NEW a \in Actor, Retry(a) PROVE FaultInv'
  BY <1>0, <1>4 DEF Retry
<1>5. ASSUME NEW a \in Actor, Release(a) PROVE FaultInv'
  BY <1>0, <1>5 DEF Release
<1>6. ASSUME NEW a \in Actor, Stat1(a) PROVE FaultInv'
  BY <1>0, <1>6 DEF Stat1
<1>7. ASSUME NEW a \in Actor, Read1(a) PROVE FaultInv'
  BY <1>0, <1>7 DEF Read1, BodyPid
<1>8. ASSUME NEW a \in Actor, Check(a) PROVE FaultInv'
  <2>1. UNCHANGED <<file, tick, horizon, live>>
    BY <1>8 DEF Check
  <2>2. /\ \A r \in Actor : (Holds(r)' <=> Holds(r)) /\ (pc'[r] = "dead" <=> pc[r] = "dead")
        /\ \A r \in Actor : pc'[r] \in Looking => pc[r] \in Looking /\ seen1'[r] = seen1[r]
        /\ \A r \in Actor \ {a} : pc'[r] = pc[r]
    <3>1. \A r \in Actor \ {a} : pc'[r] = pc[r] /\ seen1'[r] = seen1[r]
      BY <1>0, <1>8 DEF Check
    <3>2. /\ pc[a] = "check"
          /\ (pc'[a] = "stat2" /\ seen1' = seen1) \/ pc'[a] = "retry"
      BY <1>0, <1>8 DEF Check
    <3>3. ASSUME NEW r \in Actor
          PROVE  /\ Holds(r)' <=> Holds(r)
                 /\ pc'[r] = "dead" <=> pc[r] = "dead"
                 /\ pc'[r] \in Looking => pc[r] \in Looking /\ seen1'[r] = seen1[r]
      <4>1. CASE r = a
        BY <3>2, <4>1
      <4>2. CASE r # a
        BY <3>1, <4>2
      <4> QED
        BY <4>1, <4>2
    <3> QED
      BY <3>1, <3>3
  <2>3. OrderInv' /\ PidInv'
    BY <1>0, <2>1, <2>2
  <2>4. ASSUME Same(a)', file.pid # NoPid, pc'[a] \in {"stat2", "read2", "unlink"}
        PROVE  ~Holds(file.owner)
    BY <1>0, <1>8, <2>1, <2>2, <2>4, ActorAssumption DEF Check, Suspect, pid_alive
  <2>5. pc'[a] # "check"
    BY <1>0, <1>8 DEF Check
  <2>6. VerdictInv'
    BY <1>0, <2>1, <2>2, <2>4, <2>5
  <2> QED
    BY <2>3, <2>6
<1>9. ASSUME NEW a \in Actor, Stat2(a) PROVE FaultInv'
  BY <1>0, <1>9, SMTT(30) DEF Stat2
<1>10. ASSUME NEW a \in Actor, Read2(a) PROVE FaultInv'
  BY <1>0, <1>10, SMTT(30) DEF Read2
<1>11. ASSUME NEW a \in Actor, Unlink(a) PROVE FaultInv'
  BY <1>0, <1>11 DEF Unlink
<1>12. ASSUME NEW a \in Actor, Expire(a) PROVE FaultInv'
  BY <1>0, <1>12 DEF Expire
<1>13. ASSUME NEW p \in Pid, Crash(p) PROVE FaultInv'
  BY <1>0, <1>13 DEF Crash
<1>14. ASSUME NEW p \in Pid, Restart(p) PROVE FaultInv'
  BY <1>0, <1>14 DEF Restart
<1>15. CASE Elapse
  BY <1>0, <1>15 DEF Elapse
<1>16. CASE UNCHANGED vars
  BY <1>0, <1>16 DEF vars
<1> QED
  BY <1>1, <1>2, <1>3, <1>4, <1>5, <1>6, <1>7, <1>8, <1>9, <1>10, <1>11,
     <1>12, <1>13, <1>14, <1>15, <1>16 DEF Next, Step

\* Whatever crashes, stalls or fails, try_reclaim_stale never takes the lock
\* file of a holder that recorded its pid on the strength of having looked at
\* that file: it takes two actors that suspected an earlier file, or a holder
\* that has lost its own lock already.
THEOREM ReclaimIsJustified == Spec => ReclaimJustified
<1>1. Init => FaultInv
  BY ActorAssumption DEF Init, FaultInv, OrderInv, PidInv, VerdictInv, Same, Looking
<1>2. TypeOK /\ FaultInv /\ [Next]_vars /\ TypeOK' => FaultInv'
  BY FaultStep
<1>3. ASSUME TypeOK, FaultInv, [Next]_vars,
             NEW a \in Actor, Holds(a), Owns(a), file.pid # NoPid, Holds(a)', file' = NoFile
      PROVE  \E r \in Actor \ {a} : \/ pc[r] = "unlink" /\ seen1[r].mtime < file.mtime
                                    \/ pc[r] = "holding"
  <2>1. file # NoFile /\ file.mtime \in Nat /\ \A r \in Actor : seen1[r].mtime \in Nat
    BY <1>3 DEF TypeOK, LockFile, Marker, Owns
  <2>2. ASSUME NEW r \in Actor, Unlink(r) PROVE r # a /\ pc[r] = "unlink" /\ seen1[r].mtime < file.mtime
    <3>1. pc[r] = "unlink" /\ r # a
      BY <1>3, <2>2 DEF Unlink, Holds, Critical
    <3>2. seen1[r].mtime <= file.mtime
      BY <1>3, <2>1, <3>1 DEF FaultInv, OrderInv, Looking
    <3>3. seen1[r].mtime # file.mtime
      BY <1>3, <2>1, <3>1 DEF FaultInv, VerdictInv, Same, Owns
    <3>4. seen1[r].mtime < file.mtime
      BY <2>1, <3>2, <3>3
    <3> QED
      BY <3>1, <3>4
  <2>3. ASSUME NEW r \in Actor, Release(r) PROVE r # a /\ pc[r] = "holding"
    BY <1>3, <2>3 DEF Release, Holds, Critical, TypeOK
  <2>4. ASSUME NEW r \in Actor, Create(r) PROVE FALSE
    BY <1>3, <2>1, <2>4 DEF Create
  <2>5. ASSUME NEW r \in Actor, Stamp(r) PROVE FALSE
    <3>1. [owner |-> r, pid |-> PidOf[r], mtime |-> tick + 1] # NoFile
      BY <1>3, ActorAssumption, NoValueAssumption DEF TypeOK, LockFile
    <3> QED
      BY <1>3, <2>1, <2>5, <3>1 DEF Stamp
  <2> QED
    BY <1>3, <2>1, <2>2, <2>3, <2>4, <2>5
    DEF Next, Step, Start, Retry, Expire, Stat1, Read1, Check, Stat2, Read2, Crash, Restart, Elapse, vars
<1>4. TypeOK /\ FaultInv /\ [Next]_vars =>
        [\A a \in Actor :
           (Holds(a) /\ Owns(a) /\ file.pid # NoPid /\ Holds(a)' /\ file' = NoFile)
              => \E r \in Actor \ {a} :
                    \/ pc[r] = "unlink" /\ seen1[r].mtime < file.mtime
                    \/ pc[r] = "holding"]_vars
  BY <1>3
<1> QED
  BY <1>1, <1>2, <1>4, TypeCorrect, PTL DEF Spec, ReclaimJustified
=============================================================================
