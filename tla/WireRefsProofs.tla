--------------------------- MODULE WireRefsProofs ---------------------------
(* Proofs about WireRefs, for any refs, commit graph, clients and pushes.  *)
EXTENDS WireRefs, TLAPS

\* A commit is among its own ancestors.
LEMMA AncestorsRefl ==
    ASSUME NEW x \in Commit
    PROVE  x \in Ancestors(x)
BY DEF Ancestors, History

\* Being an ancestor (is_ancestor in the code) is transitive.
LEMMA AncestorsTrans ==
    ASSUME NEW x \in Commit, NEW y \in Ancestors(x)
    PROVE  Ancestors(y) \subseteq Ancestors(x)
BY DEF Ancestors, History

\* A parent is an ancestor.
LEMMA AncestorsParent ==
    ASSUME NEW x \in Commit
    PROVE  Parents[x] \subseteq Ancestors(x)
BY CommitAssumption DEF Ancestors, History

\* The initial state of a connection is well typed.
LEMMA IdleType == Idle \in ConnState
BY DEF Idle, ConnState, Listing, NoRefs, Value, Updating

\* A connection that has sent an update knows a commit for every ref that is
\* left, and the file that it has open is one of them.
BatchInv ==
    \A c \in Client :
        /\ conn[c].pc \in {"posting"} \cup Updating =>
              \A r \in conn[c].todo : conn[c].new[r] \in Commit
        /\ conn[c].pc \in {"torn", "written"} => conn[c].at \in conn[c].todo

\* Every step of a handler keeps the types and the batch.
LEMMA TypeStep == TypeOK /\ BatchInv /\ [Next]_vars => TypeOK'
<1> SUFFICES ASSUME TypeOK, BatchInv, [Next]_vars PROVE TypeOK'
  OBVIOUS
<1>0. ASSUME NEW c \in Client PROVE conn[c] \in ConnState
  BY DEF TypeOK
<1>1. ASSUME NEW c \in Client, InfoRefs(c) PROVE TypeOK'
  <2>1. cache # None => [Idle EXCEPT !.pc = "listed", !.snap = cache] \in ConnState
    BY IdleType DEF TypeOK, ConnState
  <2>2. [Idle EXCEPT !.pc = "listing", !.todo = Ref] \in ConnState
    BY IdleType DEF TypeOK, ConnState
  <2>3. conn' \in [Client -> ConnState]
    BY <1>1, <2>1, <2>2 DEF InfoRefs, Set, TypeOK
  <2> QED
    BY <1>1, <2>3 DEF InfoRefs, TypeOK
<1>2. ASSUME NEW c \in Client, InfoRefsReply(c) PROVE TypeOK'
  <2>1. [conn[c] EXCEPT !.pc = "listed"] \in ConnState
    BY <1>0 DEF ConnState, Updating
  <2>2. conn' \in [Client -> ConnState]
    BY <1>2, <2>1 DEF InfoRefsReply, Set, TypeOK
  <2> QED
    BY <1>2, <2>2 DEF InfoRefsReply, TypeOK, ConnState
<1>3. ASSUME NEW c \in Client, Fail(c) PROVE TypeOK'
  BY <1>3, IdleType DEF Fail, Set, TypeOK
<1>4. ASSUME NEW c \in Client, NEW prune \in BOOLEAN, Fetch(c, prune) PROVE TypeOK'
  <2>1. [r \in Ref |-> IF conn[c].snap[r] = None /\ ~prune
                       THEN tracking[c][r] ELSE conn[c].snap[r]] \in Listing
    BY DEF TypeOK, ConnState, Listing
  <2>2. tracking' \in [Client -> Listing]
    BY <1>4, <2>1 DEF Fetch, TypeOK
  <2> QED
    BY <1>4, <2>2, IdleType DEF Fetch, Set, TypeOK
<1>5. ASSUME NEW c \in Client, NEW r \in Ref, ListRef(c, r) PROVE TypeOK'
  <2>1. read_ref(r) \in Value
    BY DEF read_ref, TypeOK, Value
  <2> DEFINE n == [conn[c].snap EXCEPT ![r] = read_ref(r)]
  <2>2. n \in Listing
    BY <2>1 DEF TypeOK, ConnState, Listing
  <2>3. conn' = [conn EXCEPT ![c] = [conn[c] EXCEPT !.todo = @ \ {r}, !.snap = n]]
    BY <1>5 DEF ListRef, Set
  <2> HIDE DEF n
  <2>4. [conn[c] EXCEPT !.todo = @ \ {r}, !.snap = n] \in ConnState
    BY <2>2 DEF TypeOK, ConnState
  <2>5. conn' \in [Client -> ConnState]
    BY <2>3, <2>4 DEF TypeOK
  <2> QED
    BY <1>5, <2>5 DEF ListRef, TypeOK
<1>6. ASSUME NEW c \in Client, NEW r \in Ref, Truncate(c, r) PROVE TypeOK'
  <2>1. [conn[c] EXCEPT !.pc = "torn", !.at = r] \in ConnState
    BY <1>0 DEF ConnState, Updating
  <2>2. conn' \in [Client -> ConnState]
    BY <1>6, <2>1 DEF Truncate, Set, TypeOK
  <2> QED
    BY <1>6, <2>2 DEF Truncate, TypeOK
<1>7. ASSUME NEW c \in Client, NEW r \in Ref, WriteFails(c, r) PROVE TypeOK'
  <2>1. [conn[c] EXCEPT !.pc = "writing", !.todo = @ \ {r}, !.at = None] \in ConnState
    BY <1>0 DEF ConnState, Updating
  <2>2. conn' \in [Client -> ConnState]
    BY <1>7, <2>1 DEF WriteFails, Set, TypeOK
  <2> QED
    BY <1>7, <2>2 DEF WriteFails, TypeOK
<1>8. ASSUME NEW c \in Client, NEW u \in Batch, NEW m \in Mode, Push(c, u, m) PROVE TypeOK'
  <2> DEFINE s == [r \in Ref |-> IF m = "lease" /\ r \notin MetaRef
                                 THEN tracking[c][r] ELSE conn[c].snap[r]]
             n == [r \in Ref |-> IF r \in DOMAIN u THEN u[r] ELSE None]
  <2>1. s \in Listing /\ n \in Listing
    BY SetupAssumption DEF Batch, TypeOK, ConnState, Listing, Value
  <2>2. DOMAIN u \in SUBSET Ref /\ m \in {"ff", "lease", "force"}
    BY SetupAssumption DEF Batch, Mode, TypeOK
  <2>3. conn' = [conn EXCEPT ![c] = [conn[c] EXCEPT !.pc = "posting", !.snap = s,
                                        !.new = n, !.todo = DOMAIN u, !.mode = m]]
    BY <1>8 DEF Push, Set
  <2> HIDE DEF s, n
  <2>4. conn' \in [Client -> ConnState]
    <3>1. [conn[c] EXCEPT !.pc = "posting", !.snap = s,
                          !.new = n, !.todo = DOMAIN u, !.mode = m] \in ConnState
      BY <1>0, <2>1, <2>2 DEF ConnState
    <3> QED
      BY <2>3, <3>1 DEF TypeOK
  <2> QED
    BY <1>8, <2>4 DEF Push, TypeOK
<1>9. ASSUME NEW c \in Client, Evaluate(c) PROVE TypeOK'
  <2>1. [conn[c] EXCEPT !.pc = "writing"] \in ConnState
    BY DEF TypeOK, ConnState, Updating
  <2>2. conn' \in [Client -> ConnState]
    BY <1>9, <2>1, IdleType DEF Evaluate, Set, TypeOK
  <2> QED
    BY <1>9, <2>2 DEF Evaluate, TypeOK
<1>10. ASSUME NEW c \in Client, WriteRef(c) PROVE TypeOK'
  <2>1. [conn[c] EXCEPT !.pc = "written", !.updated = TRUE] \in ConnState
    BY <1>0 DEF ConnState, Updating
  <2>2. conn' \in [Client -> ConnState]
    BY <1>10, <2>1 DEF WriteRef, Set, TypeOK
  <2>3. conn[c].at \in Ref /\ conn[c].new[conn[c].at] \in Commit
    BY <1>10 DEF WriteRef, BatchInv, TypeOK, ConnState, Updating
  <2> QED
    BY <1>10, <2>2, <2>3 DEF WriteRef, TypeOK, Value
<1>11. ASSUME NEW c \in Client, Record(c) PROVE TypeOK'
  <2>1. [conn[c] EXCEPT !.pc = "writing", !.todo = @ \ {conn[c].at}, !.at = None] \in ConnState
    BY <1>0 DEF ConnState, Updating
  <2>2. conn' \in [Client -> ConnState]
    BY <1>11, <2>1 DEF Record, Set, TypeOK
  <2>3. conn[c].at \in Ref /\ conn[c].new[conn[c].at] \in Commit
    BY <1>11 DEF Record, BatchInv, TypeOK, ConnState, Updating
  <2>4. conn[c].snap[conn[c].at] \in Value
    BY <2>3 DEF TypeOK, ConnState, Listing
  <2> QED
    BY <1>11, <2>2, <2>3, <2>4 DEF Record, TypeOK, Value
<1>12. ASSUME NEW c \in Client, Respond(c) PROVE TypeOK'
  BY <1>12, IdleType DEF Respond, Set, TypeOK
<1>13. ASSUME NEW r \in Ref, NEW x \in Commit, LocalCommit(r, x) PROVE TypeOK'
  BY <1>13 DEF LocalCommit, LocalWrite, TypeOK, Value
<1>14. ASSUME NEW r \in Ref, NEW x \in Commit, LocalEvent(r, x) PROVE TypeOK'
  BY <1>14 DEF LocalEvent, LocalWrite, TypeOK, Value
<1>15. CASE Ttl
  BY <1>15 DEF Ttl, TypeOK
<1>16. CASE Crash
  BY <1>16, IdleType DEF Crash, TypeOK
<1>17. CASE UNCHANGED vars
  BY <1>17 DEF vars, TypeOK
<1> QED
  BY <1>1, <1>2, <1>3, <1>4, <1>5, <1>6, <1>7, <1>8, <1>9, <1>10, <1>11, <1>12,
     <1>13, <1>14, <1>15, <1>16, <1>17 DEF Next, Request

\* A step of the connection c leaves the other connections alone.
LEMMA OthersKept ==
    ASSUME TypeOK, NEW c \in Client, NEW s, Set(c, s)
    PROVE  conn'[c] = s /\ \A o \in Client \ {c} : conn'[o] = conn[o]
BY DEF Set, TypeOK

\* The batch of a connection only shrinks while it is written.
LEMMA BatchStep == TypeOK /\ BatchInv /\ [Next]_vars => BatchInv'
<1> SUFFICES ASSUME TypeOK, BatchInv, [Next]_vars PROVE BatchInv'
  OBVIOUS
<1> DEFINE Good(s) ==
      /\ s.pc \in {"posting"} \cup Updating => \A r \in s.todo : s.new[r] \in Commit
      /\ s.pc \in {"torn", "written"} => s.at \in s.todo
<1>0. Good(Idle) /\ \A c \in Client : Good(conn[c])
  BY DEF Idle, BatchInv, Updating
<1>a. ASSUME NEW c \in Client, NEW s, Set(c, s), Good(s) PROVE BatchInv'
  <2>1. \A o \in Client : Good(conn'[o])
    BY <1>0, <1>a, OthersKept
  <2> QED
    BY <2>1 DEF BatchInv
<1>b. ASSUME UNCHANGED conn PROVE BatchInv'
  BY <1>b DEF BatchInv
<1>1. ASSUME NEW c \in Client, InfoRefs(c) PROVE BatchInv'
  <2>1. Good([Idle EXCEPT !.pc = "listed", !.snap = cache])
    BY DEF Idle, Updating
  <2>2. Good([Idle EXCEPT !.pc = "listing", !.todo = Ref])
    BY DEF Idle, Updating
  <2> QED
    BY <1>1, <1>a, <2>1, <2>2 DEF InfoRefs
<1>2. ASSUME NEW c \in Client, InfoRefsReply(c) PROVE BatchInv'
  <2>1. Good([conn[c] EXCEPT !.pc = "listed"])
    BY DEF TypeOK, ConnState, Updating
  <2> QED
    BY <1>2, <1>a, <2>1 DEF InfoRefsReply
<1>3. ASSUME NEW c \in Client, Set(c, Idle) PROVE BatchInv'
  BY <1>0, <1>3, <1>a
<1>4. ASSUME NEW c \in Client, NEW r \in Ref, ListRef(c, r) PROVE BatchInv'
  <2>1. Good([conn[c] EXCEPT !.todo = @ \ {r}, !.snap = [@ EXCEPT ![r] = read_ref(r)]])
    BY <1>4 DEF ListRef, TypeOK, ConnState, Updating
  <2> QED
    BY <1>4, <1>a, <2>1 DEF ListRef
<1>5. ASSUME NEW c \in Client, NEW r \in Ref, Truncate(c, r) PROVE BatchInv'
  <2>1. Good([conn[c] EXCEPT !.pc = "torn", !.at = r])
    BY <1>0, <1>5 DEF Truncate, TypeOK, ConnState, Updating
  <2> QED
    BY <1>5, <1>a, <2>1 DEF Truncate
<1>6. ASSUME NEW c \in Client, NEW r \in Ref, WriteFails(c, r) PROVE BatchInv'
  <2>1. Good([conn[c] EXCEPT !.pc = "writing", !.todo = @ \ {r}, !.at = None])
    BY <1>0, <1>6 DEF WriteFails, TypeOK, ConnState, Updating
  <2> QED
    BY <1>6, <1>a, <2>1 DEF WriteFails
<1>7. ASSUME NEW c \in Client, NEW u \in Batch, NEW m \in Mode, Push(c, u, m) PROVE BatchInv'
  <2> DEFINE s == [r \in Ref |-> IF m = "lease" /\ r \notin MetaRef
                                 THEN tracking[c][r] ELSE conn[c].snap[r]]
             n == [r \in Ref |-> IF r \in DOMAIN u THEN u[r] ELSE None]
  <2>1. \A r \in DOMAIN u : n[r] \in Commit
    BY SetupAssumption DEF Batch, TypeOK
  <2>2. Set(c, [conn[c] EXCEPT !.pc = "posting", !.snap = s,
                               !.new = n, !.todo = DOMAIN u, !.mode = m])
    BY <1>7 DEF Push
  <2> HIDE DEF s, n
  <2>3. Good([conn[c] EXCEPT !.pc = "posting", !.snap = s,
                             !.new = n, !.todo = DOMAIN u, !.mode = m])
    BY <2>1 DEF TypeOK, ConnState, Updating
  <2> QED
    BY <1>a, <2>2, <2>3
<1>8. ASSUME NEW c \in Client, Evaluate(c) PROVE BatchInv'
  <2>1. Good([conn[c] EXCEPT !.pc = "writing"])
    BY <1>0, <1>8 DEF Evaluate, TypeOK, ConnState, Updating
  <2> QED
    BY <1>3, <1>8, <1>a, <2>1 DEF Evaluate
<1>9. ASSUME NEW c \in Client, WriteRef(c) PROVE BatchInv'
  <2>1. Good([conn[c] EXCEPT !.pc = "written", !.updated = TRUE])
    BY <1>0, <1>9 DEF WriteRef, TypeOK, ConnState, Updating
  <2> QED
    BY <1>9, <1>a, <2>1 DEF WriteRef
<1>10. ASSUME NEW c \in Client, Record(c) PROVE BatchInv'
  <2>1. Good([conn[c] EXCEPT !.pc = "writing", !.todo = @ \ {conn[c].at}, !.at = None])
    BY <1>0, <1>10 DEF Record, TypeOK, ConnState, Updating
  <2> QED
    BY <1>10, <1>a, <2>1 DEF Record
<1>11. ASSUME Crash PROVE BatchInv'
  BY <1>0, <1>11 DEF Crash, BatchInv
<1> QED
  BY <1>b, <1>1, <1>2, <1>3, <1>4, <1>5, <1>6, <1>7, <1>8, <1>9, <1>10, <1>11
  DEF Next, Request, Fail, Fetch, Respond, LocalCommit, LocalEvent, LocalWrite, Ttl, vars

\* The state of the server and of its clients keeps its type: in particular
\* a ref file holds a commit, nothing, or is torn.
THEOREM TypeCorrect == Spec => [](TypeOK /\ BatchInv)
<1>1. Init => TypeOK /\ BatchInv
  <2>1. Init => TypeOK
    BY IdleType, CommitAssumption, SetupAssumption DEF Init, TypeOK, Listing, NoRefs, Value
  <2>2. Init => BatchInv
    BY DEF Init, BatchInv, Idle, Updating
  <2> QED
    BY <2>1, <2>2
<1> QED
  BY <1>1, TypeStep, BatchStep, PTL DEF Spec

(***************************************************************************)
(* The critical section of refs/update                                     *)
(***************************************************************************)

\* The connection that writes is the one that has the lock.
LockInv == \A c \in Client : conn[c].pc \in Updating <=> lock = c

\* A ref names a commit that it is known to have named.
NamedInv == \A r \in Ref : refs[r] \in Commit => refs[r] \in named[r]

\* What the policy check found still holds of the refs that are left.
PolicyInv ==
    \A c \in Client : conn[c].pc \in Updating =>
        \A r \in conn[c].todo : (conn[c].pc = "writing" \/ r # conn[c].at) => ~Blocked(c, r)

\* What it found of the ref whose file is truncated.
TornInv ==
    \A c \in Client : conn[c].pc = "torn" =>
        /\ SignRequired /\ conn[c].at \notin MetaRef =>
              Ancestors(conn[c].new[conn[c].at]) \subseteq Signed \cup Known(conn[c].at)
        /\ ~Faults /\ conn[c].at \in MetaRef =>
              named[conn[c].at] \subseteq Ancestors(conn[c].new[conn[c].at])

\* Without faults, only the handler that writes a file sees it torn, and a
\* metadata ref without a value never had one.
MetaInv ==
    ~Faults => \A r \in MetaRef :
        /\ refs[r] \in Commit => named[r] \subseteq Ancestors(refs[r])
        /\ refs[r] = None => named[r] = {}
        /\ refs[r] = Torn => \E c \in Client : conn[c].pc = "torn" /\ conn[c].at = r

WireInv == LockInv /\ NamedInv /\ PolicyInv /\ TornInv /\ MetaInv

\* The policy check depends on the request and on the ref on disk.
LEMMA SameVerdict ==
    ASSUME NEW c, NEW r, setup' = setup, refs'[r] = refs[r], conn'[c].mode = conn[c].mode,
           conn'[c].snap = conn[c].snap, conn'[c].new = conn[c].new
    PROVE  Blocked(c, r)' = Blocked(c, r)
BY DEF Blocked, Refused, NotExtended, read_ref, commits_new_since, SignRequired

\* A request that is not in its critical section, before or after the step,
\* and that writes no ref.
Outside(c) ==
    /\ UNCHANGED <<setup, refs, lock, named>>
    /\ conn[c].pc \notin Updating /\ conn'[c].pc \notin Updating
    /\ \A o \in Client \ {c} : conn'[o] = conn[o]

\* Such a step does not disturb the update under way.
LEMMA OutsideStep ==
    ASSUME TypeOK, BatchInv, WireInv, NEW c \in Client, Outside(c)
    PROVE  WireInv'
<1>0. setup' = setup /\ SignRequired' = SignRequired /\ Faults' = Faults
  BY DEF SignRequired, Faults, Outside
<1> USE <1>0
<1>1. LockInv'
  BY DEF WireInv, LockInv, Outside, Updating
<1>2. NamedInv'
  BY DEF WireInv, NamedInv, Outside
<1>3. PolicyInv'
  <2> SUFFICES ASSUME NEW o \in Client, conn'[o].pc \in Updating, NEW r \in conn'[o].todo,
                      conn'[o].pc = "writing" \/ r # conn'[o].at
               PROVE  ~Blocked(o, r)'
    BY DEF PolicyInv
  <2>1. o # c /\ conn'[o] = conn[o]
    BY DEF Outside
  <2>2. Blocked(o, r)' = Blocked(o, r)
    BY <2>1, SameVerdict DEF Outside
  <2> QED
    BY <2>1, <2>2 DEF WireInv, PolicyInv
<1>4. TornInv'
  BY DEF WireInv, TornInv, Known, Outside, Updating
<1>5. MetaInv'
  BY DEF WireInv, MetaInv, Outside, Updating
<1> QED
  BY <1>1, <1>2, <1>3, <1>4, <1>5 DEF WireInv

\* A step that changes neither the refs, the lock nor a connection.
LEMMA StutterStep ==
    ASSUME WireInv, UNCHANGED <<setup, refs, lock, named, conn>>
    PROVE  WireInv'
<1>0. setup' = setup /\ SignRequired' = SignRequired /\ Faults' = Faults
  BY DEF SignRequired, Faults
<1> USE <1>0
<1>1. PolicyInv'
  BY SameVerdict DEF WireInv, PolicyInv
<1> QED
  BY <1>1 DEF WireInv, LockInv, NamedInv, TornInv, MetaInv, Known

\* refs/update, from the policy check to the response, keeps the invariant.
LEMMA EvaluateStep ==
    ASSUME TypeOK, BatchInv, WireInv, NEW c \in Client, Evaluate(c)
    PROVE  WireInv'
<1>0. setup' = setup /\ SignRequired' = SignRequired /\ Faults' = Faults
  BY DEF SignRequired, Faults, Evaluate
<1> USE <1>0
<1>1. CASE Set(c, Idle) /\ lock' = lock
  <2>1. conn'[c] = Idle /\ \A o \in Client \ {c} : conn'[o] = conn[o]
    BY <1>1, OthersKept
  <2>2. Outside(c)
    BY <2>1, <1>1 DEF Outside, Evaluate, Idle, Updating
  <2> QED
    BY <2>2, OutsideStep
<1>2. CASE /\ \A r \in conn[c].todo : ~Blocked(c, r)
           /\ lock' = c
           /\ Set(c, [conn[c] EXCEPT !.pc = "writing"])
  <2> DEFINE s == [conn[c] EXCEPT !.pc = "writing"]
  <2>1. conn'[c] = s /\ \A o \in Client \ {c} : conn'[o] = conn[o]
    BY <1>2, OthersKept
  <2>2. /\ s.pc = "writing" /\ s.mode = conn[c].mode /\ s.snap = conn[c].snap
        /\ s.new = conn[c].new /\ s.todo = conn[c].todo
    BY DEF TypeOK, ConnState
  <2> HIDE DEF s
  <2>3. lock = None /\ UNCHANGED <<refs, named>> /\ None \notin Client
    BY CommitAssumption DEF Evaluate
  <2>4. \A o \in Client : conn[o].pc \notin Updating
    BY <2>3 DEF WireInv, LockInv
  <2>5. LockInv'
    BY <1>2, <2>1, <2>2, <2>4 DEF LockInv, Updating
  <2>6. PolicyInv'
    BY <1>2, <2>1, <2>2, <2>3, <2>4, SameVerdict DEF PolicyInv
  <2>7. TornInv' /\ MetaInv'
    BY <2>1, <2>2, <2>3, <2>4 DEF WireInv, TornInv, MetaInv, Updating
  <2>8. NamedInv'
    BY <2>3 DEF WireInv, NamedInv
  <2> QED
    BY <2>5, <2>6, <2>7, <2>8 DEF WireInv
<1> QED
  BY <1>1, <1>2 DEF Evaluate

\* Opening a ref file: what the check found of this ref is kept in TornInv.
LEMMA TruncateStep ==
    ASSUME TypeOK, BatchInv, WireInv, NEW c \in Client, NEW r \in Ref, Truncate(c, r)
    PROVE  WireInv'
<1>0. setup' = setup /\ SignRequired' = SignRequired /\ Faults' = Faults
  BY DEF SignRequired, Faults, Truncate
<1> USE <1>0
<1> DEFINE s == [conn[c] EXCEPT !.pc = "torn", !.at = r]
<1>1. conn'[c] = s /\ \A o \in Client \ {c} : conn'[o] = conn[o]
  BY OthersKept DEF Truncate
<1>2. /\ s.pc = "torn" /\ s.at = r /\ s.mode = conn[c].mode /\ s.snap = conn[c].snap
      /\ s.new = conn[c].new /\ s.todo = conn[c].todo
  BY DEF TypeOK, ConnState
<1> HIDE DEF s
<1>3. /\ conn[c].pc = "writing" /\ r \in conn[c].todo /\ UNCHANGED <<lock, named>>
      /\ refs'[r] = Torn /\ \A q \in Ref \ {r} : refs'[q] = refs[q]
  BY DEF Truncate, TypeOK
<1>4. lock = c /\ \A o \in Client \ {c} : conn[o].pc \notin Updating
  BY <1>3 DEF WireInv, LockInv, Updating
<1>5. LockInv'
  BY <1>1, <1>2, <1>3, <1>4 DEF LockInv, Updating
<1>6. NamedInv'
  BY <1>3, CommitAssumption DEF WireInv, NamedInv
<1>7. PolicyInv'
  <2> SUFFICES ASSUME NEW q \in s.todo, q # r PROVE ~Blocked(c, q)'
    BY <1>1, <1>2, <1>4 DEF PolicyInv
  <2>1. q \in Ref
    BY <1>2 DEF TypeOK, ConnState
  <2>2. ~Blocked(c, q)
    BY <1>2, <1>3 DEF WireInv, PolicyInv, Updating
  <2> QED
    BY <1>1, <1>2, <1>3, <2>1, <2>2, SameVerdict
<1>8. ~Blocked(c, r) /\ conn[c].new[r] \in Commit
  BY <1>3 DEF WireInv, PolicyInv, BatchInv, Updating
<1>9. TornInv'
  <2>1. ASSUME SignRequired, r \notin MetaRef
        PROVE  Ancestors(conn[c].new[r]) \subseteq Signed \cup Known(r)
    <3>1. Ancestors(conn[c].new[r]) \ AncestorsOf(read_ref(r)) \subseteq Signed
      BY <1>8, <2>1 DEF Blocked, Refused, commits_new_since
    <3>2. AncestorsOf(read_ref(r)) \subseteq Known(r)
      BY CommitAssumption DEF AncestorsOf, read_ref, Known, WireInv, NamedInv
    <3> QED
      BY <3>1, <3>2
  <2>2. ASSUME ~Faults, r \in MetaRef
        PROVE  named[r] \subseteq Ancestors(conn[c].new[r])
    <3>1. refs[r] # Torn
      BY <1>3, <1>4, <2>2 DEF WireInv, MetaInv, Updating
    <3>2. CASE refs[r] = None
      BY <2>2, <3>2 DEF WireInv, MetaInv
    <3>3. CASE refs[r] \in Commit
      <4>1. refs[r] \in Ancestors(conn[c].new[r])
        BY <1>8, <2>2, <3>1, <3>3, CommitAssumption DEF Blocked, NotExtended, read_ref
      <4> QED
        BY <1>8, <2>2, <3>3, <4>1, AncestorsTrans DEF WireInv, MetaInv
    <3> QED
      BY <3>1, <3>2, <3>3 DEF TypeOK, Value
  <2>3. Known(r)' = Known(r)
    BY <1>3 DEF Known
  <2> QED
    BY <1>1, <1>2, <1>3, <1>4, <2>1, <2>2, <2>3 DEF TornInv, Updating
<1>10. MetaInv'
  BY <1>1, <1>2, <1>3, <1>4, CommitAssumption DEF WireInv, MetaInv, Updating
<1> QED
  BY <1>5, <1>6, <1>7, <1>9, <1>10 DEF WireInv

\* Writing the ref file: the metadata ref now names an extension of all that
\* it has named.
LEMMA WriteRefStep ==
    ASSUME TypeOK, BatchInv, WireInv, NEW c \in Client, WriteRef(c)
    PROVE  WireInv'
<1>0. setup' = setup /\ SignRequired' = SignRequired /\ Faults' = Faults
  BY DEF SignRequired, Faults, WriteRef
<1> USE <1>0
<1> DEFINE s == [conn[c] EXCEPT !.pc = "written", !.updated = TRUE]
           r == conn[c].at
           n == conn[c].new[r]
<1>1. conn'[c] = s /\ \A o \in Client \ {c} : conn'[o] = conn[o]
  BY OthersKept DEF WriteRef
<1>2. /\ s.pc = "written" /\ s.at = r /\ s.mode = conn[c].mode /\ s.snap = conn[c].snap
      /\ s.new = conn[c].new /\ s.todo = conn[c].todo
  BY DEF TypeOK, ConnState
<1>3. r \in Ref /\ n \in Commit /\ conn[c].pc = "torn"
  BY DEF WriteRef, BatchInv, TypeOK, ConnState, Updating
<1>4. /\ UNCHANGED lock
      /\ refs'[r] = n /\ \A q \in Ref \ {r} : refs'[q] = refs[q]
      /\ named'[r] = named[r] \cup {n} /\ \A q \in Ref \ {r} : named'[q] = named[q]
  BY <1>3 DEF WriteRef, TypeOK
<1> HIDE DEF s
<1>5. lock = c /\ \A o \in Client \ {c} : conn[o].pc \notin Updating
  BY <1>3 DEF WireInv, LockInv, Updating
<1>6. LockInv'
  BY <1>1, <1>2, <1>4, <1>5 DEF LockInv, Updating
<1>7. NamedInv'
  BY <1>3, <1>4 DEF WireInv, NamedInv
<1>8. PolicyInv'
  <2> SUFFICES ASSUME NEW q \in s.todo, q # r PROVE ~Blocked(c, q)'
    BY <1>1, <1>2, <1>5 DEF PolicyInv
  <2>1. q \in Ref
    BY <1>2 DEF TypeOK, ConnState
  <2>2. ~Blocked(c, q)
    BY <1>2, <1>3 DEF WireInv, PolicyInv, Updating
  <2> QED
    BY <1>1, <1>2, <1>4, <2>1, <2>2, SameVerdict
<1>9. TornInv'
  BY <1>1, <1>2, <1>5 DEF TornInv, Updating
<1>10. MetaInv'
  <2> SUFFICES ASSUME ~Faults, NEW q \in MetaRef
               PROVE  /\ refs'[q] \in Commit => named'[q] \subseteq Ancestors(refs'[q])
                      /\ refs'[q] = None => named'[q] = {}
                      /\ refs'[q] = Torn => \E o \in Client : conn'[o].pc = "torn" /\ conn'[o].at = q
    BY DEF MetaInv
  <2>1. CASE q = r
    <3>1. named[r] \subseteq Ancestors(n)
      BY <1>3, <2>1 DEF WireInv, TornInv
    <3> QED
      BY <1>3, <1>4, <2>1, <3>1, AncestorsRefl, CommitAssumption
  <2>2. CASE q # r
    <3>1. q \in Ref /\ refs'[q] = refs[q] /\ named'[q] = named[q]
      BY <1>4, <2>2, CommitAssumption
    <3>2. refs[q] # Torn
      BY <1>5, <2>2 DEF WireInv, MetaInv, Updating
    <3> QED
      BY <3>1, <3>2 DEF WireInv, MetaInv
  <2> QED
    BY <2>1, <2>2
<1> QED
  BY <1>6, <1>7, <1>8, <1>9, <1>10 DEF WireInv

\* The end of one update, written or not: the rest of the batch is as it was.
LEMMA NextUpdateStep ==
    ASSUME TypeOK, BatchInv, WireInv, NEW c \in Client, NEW r \in Ref,
           r \in conn[c].todo, conn[c].pc \in Updating,
           Faults \/ conn[c].pc # "torn",
           conn[c].pc = "writing" \/ r = conn[c].at,
           Set(c, [conn[c] EXCEPT !.pc = "writing", !.todo = @ \ {r}, !.at = None]),
           UNCHANGED <<setup, refs, lock, named>>
    PROVE  WireInv'
<1>0. setup' = setup /\ SignRequired' = SignRequired /\ Faults' = Faults
  BY DEF SignRequired, Faults
<1> USE <1>0
<1> DEFINE s == [conn[c] EXCEPT !.pc = "writing", !.todo = @ \ {r}, !.at = None]
<1>1. conn'[c] = s /\ \A o \in Client \ {c} : conn'[o] = conn[o]
  BY OthersKept
<1>2. /\ s.pc = "writing" /\ s.mode = conn[c].mode /\ s.snap = conn[c].snap
      /\ s.new = conn[c].new /\ s.todo = conn[c].todo \ {r}
  BY DEF TypeOK, ConnState
<1> HIDE DEF s
<1>3. lock = c /\ \A o \in Client \ {c} : conn[o].pc \notin Updating
  BY DEF WireInv, LockInv, Updating
<1>4. LockInv'
  BY <1>1, <1>2, <1>3 DEF LockInv, Updating
<1>5. PolicyInv'
  <2> SUFFICES ASSUME NEW q \in s.todo PROVE ~Blocked(c, q)'
    BY <1>1, <1>2, <1>3 DEF PolicyInv
  <2>1. ~Blocked(c, q)
    BY <1>2 DEF WireInv, PolicyInv
  <2> QED
    BY <1>1, <1>2, <2>1, SameVerdict
<1>6. TornInv'
  BY <1>1, <1>2, <1>3 DEF TornInv, Updating
<1>7. MetaInv'
  BY <1>1, <1>2, <1>3 DEF WireInv, MetaInv, Updating
<1>8. NamedInv'
  BY DEF WireInv, NamedInv
<1> QED
  BY <1>4, <1>5, <1>6, <1>7, <1>8 DEF WireInv

\* The response gives the lock back.
LEMMA RespondStep ==
    ASSUME TypeOK, BatchInv, WireInv, NEW c \in Client, Respond(c)
    PROVE  WireInv'
<1>0. setup' = setup /\ SignRequired' = SignRequired /\ Faults' = Faults
  BY DEF SignRequired, Faults, Respond
<1> USE <1>0
<1>1. conn'[c] = Idle /\ \A o \in Client \ {c} : conn'[o] = conn[o]
  BY OthersKept DEF Respond
<1>2. /\ conn[c].pc = "writing" /\ lock' = None /\ Idle.pc = "idle"
      /\ UNCHANGED <<refs, named>> /\ None \notin Client
  BY CommitAssumption DEF Respond, Idle
<1>3. \A o \in Client : conn'[o].pc \notin Updating
  BY <1>1, <1>2 DEF WireInv, LockInv, Updating
<1> QED
  BY <1>1, <1>2, <1>3, SMTT(40) DEF WireInv, LockInv, NamedInv, PolicyInv, TornInv, MetaInv, Updating

\* A command on the server's disk runs when no update is under way.
LEMMA LocalStep ==
    ASSUME TypeOK, BatchInv, WireInv, NEW r \in Ref, NEW x \in Commit,
           LocalCommit(r, x) \/ LocalEvent(r, x)
    PROVE  WireInv'
<1>0. setup' = setup /\ SignRequired' = SignRequired /\ Faults' = Faults
  BY DEF SignRequired, Faults, LocalCommit, LocalEvent, LocalWrite
<1> USE <1>0
<1>1. /\ lock = None /\ UNCHANGED <<lock, conn>> /\ None \notin Client /\ refs[r] # Torn
      /\ refs'[r] = x /\ \A q \in Ref \ {r} : refs'[q] = refs[q]
      /\ named'[r] = named[r] \cup {x} /\ \A q \in Ref \ {r} : named'[q] = named[q]
  BY CommitAssumption DEF LocalCommit, LocalEvent, LocalWrite, TypeOK
<1>2. \A o \in Client : conn'[o].pc \notin Updating
  BY <1>1 DEF WireInv, LockInv
<1>3. LockInv' /\ PolicyInv' /\ TornInv'
  BY <1>1, <1>2 DEF LockInv, PolicyInv, TornInv, Updating
<1>4. NamedInv'
  BY <1>1 DEF WireInv, NamedInv
<1>5. ASSUME ~Faults, r \in MetaRef PROVE named'[r] \subseteq Ancestors(x)
  <2>1. Parents[x] = {refs[r]} \ {None}
    BY <1>5 DEF LocalCommit, LocalEvent
  <2>2. CASE refs[r] = None
    BY <1>1, <1>5, <2>2, AncestorsRefl DEF WireInv, MetaInv
  <2>3. CASE refs[r] \in Commit
    <3>1. refs[r] \in Ancestors(x)
      BY <2>1, <2>3, AncestorsParent, CommitAssumption
    <3> QED
      BY <1>1, <1>5, <2>3, <3>1, AncestorsTrans, AncestorsRefl DEF WireInv, MetaInv
  <2> QED
    BY <1>1, <2>2, <2>3 DEF TypeOK, Value
<1>6. MetaInv'
  BY <1>1, <1>2, <1>5, CommitAssumption, SMTT(40) DEF WireInv, MetaInv
<1> QED
  BY <1>3, <1>4, <1>6 DEF WireInv

\* A crash leaves no update under way.
LEMMA CrashStep ==
    ASSUME TypeOK, WireInv, Crash
    PROVE  WireInv'
<1>0. setup' = setup /\ SignRequired' = SignRequired /\ Faults' = Faults
  BY DEF SignRequired, Faults, Crash
<1> USE <1>0
<1>1. /\ \A o \in Client : conn'[o].pc \notin Updating
      /\ lock' = None /\ None \notin Client /\ UNCHANGED <<refs, named>> /\ Faults
  BY CommitAssumption DEF Crash, Idle, Updating
<1> QED
  BY <1>1 DEF WireInv, LockInv, NamedInv, PolicyInv, TornInv, MetaInv, Updating

\* Every step of the server and its clients keeps the invariant.
LEMMA WireStep == TypeOK /\ BatchInv /\ WireInv /\ [Next]_vars => WireInv'
<1> SUFFICES ASSUME TypeOK, BatchInv, WireInv, [Next]_vars PROVE WireInv'
  OBVIOUS
<1>1. ASSUME NEW c \in Client, NEW s, Set(c, s), s.pc \notin Updating,
             conn[c].pc \notin Updating, UNCHANGED <<setup, refs, lock, named>>
      PROVE  WireInv'
  BY <1>1, OthersKept, OutsideStep DEF Outside
<1>2. Idle.pc \notin Updating
  BY DEF Idle, Updating
<1>3. ASSUME NEW c \in Client, InfoRefs(c) PROVE WireInv'
  <2>1. conn[c].pc \notin Updating /\ UNCHANGED <<setup, refs, lock, named>>
    BY <1>3 DEF InfoRefs, Updating
  <2>2. /\ [Idle EXCEPT !.pc = "listed", !.snap = cache].pc \notin Updating
        /\ [Idle EXCEPT !.pc = "listing", !.todo = Ref].pc \notin Updating
    BY DEF Idle, Updating
  <2> QED
    BY <1>1, <1>3, <2>1, <2>2 DEF InfoRefs
<1>4. ASSUME NEW c \in Client, NEW r \in Ref, ListRef(c, r) PROVE WireInv'
  <2>1. conn[c].pc \notin Updating /\ UNCHANGED <<setup, refs, lock, named>>
    BY <1>4 DEF ListRef, Updating
  <2>2. [conn[c] EXCEPT !.todo = @ \ {r}, !.snap = [@ EXCEPT ![r] = read_ref(r)]].pc \notin Updating
    BY <1>4 DEF ListRef, TypeOK, ConnState, Updating
  <2> QED
    BY <1>1, <1>4, <2>1, <2>2 DEF ListRef
<1>5. ASSUME NEW c \in Client, InfoRefsReply(c) PROVE WireInv'
  <2>1. conn[c].pc \notin Updating /\ UNCHANGED <<setup, refs, lock, named>>
    BY <1>5 DEF InfoRefsReply, Updating
  <2>2. [conn[c] EXCEPT !.pc = "listed"].pc \notin Updating
    BY DEF TypeOK, ConnState, Updating
  <2> QED
    BY <1>1, <1>5, <2>1, <2>2 DEF InfoRefsReply
<1>6. ASSUME NEW c \in Client, NEW u \in Batch, NEW m \in Mode, Push(c, u, m) PROVE WireInv'
  <2> DEFINE s == [r \in Ref |-> IF m = "lease" /\ r \notin MetaRef
                                 THEN tracking[c][r] ELSE conn[c].snap[r]]
             n == [r \in Ref |-> IF r \in DOMAIN u THEN u[r] ELSE None]
  <2>1. conn[c].pc \notin Updating /\ UNCHANGED <<setup, refs, lock, named>>
    BY <1>6 DEF Push, Updating
  <2>2. Set(c, [conn[c] EXCEPT !.pc = "posting", !.snap = s,
                               !.new = n, !.todo = DOMAIN u, !.mode = m])
    BY <1>6 DEF Push
  <2> HIDE DEF s, n
  <2>3. [conn[c] EXCEPT !.pc = "posting", !.snap = s,
                        !.new = n, !.todo = DOMAIN u, !.mode = m].pc \notin Updating
    BY DEF TypeOK, ConnState, Updating
  <2> QED
    BY <1>1, <2>1, <2>2, <2>3
<1>7. ASSUME NEW c \in Client, Fail(c) \/ \E prune \in BOOLEAN : Fetch(c, prune) PROVE WireInv'
  <2>1. conn[c].pc \notin Updating /\ UNCHANGED <<setup, refs, lock, named>> /\ Set(c, Idle)
    BY <1>7 DEF Fail, Fetch, Updating
  <2> QED
    BY <1>1, <1>2, <2>1
<1>8. ASSUME NEW c \in Client, NEW r \in Ref, WriteFails(c, r) PROVE WireInv'
  BY <1>8, NextUpdateStep DEF WriteFails, Updating
<1>9. ASSUME NEW c \in Client, Record(c) PROVE WireInv'
  <2>1. conn[c].at \in Ref /\ conn[c].at \in conn[c].todo
    BY <1>9 DEF Record, BatchInv, TypeOK, ConnState
  <2> QED
    BY <1>9, <2>1, NextUpdateStep DEF Record, Updating
<1>10. ASSUME Ttl \/ UNCHANGED vars PROVE WireInv'
  BY <1>10, StutterStep DEF Ttl, vars
<1> QED
  BY <1>3, <1>4, <1>5, <1>6, <1>7, <1>8, <1>9, <1>10, EvaluateStep, TruncateStep,
     WriteRefStep, RespondStep, LocalStep, CrashStep DEF Next, Request

\* The invariant of the critical section, for any number of clients.
THEOREM WireInvariant == Spec => [](TypeOK /\ BatchInv /\ WireInv)
<1>1. Init => WireInv
  <2> SUFFICES ASSUME Init PROVE WireInv
    OBVIOUS
  <2>1. /\ \A c \in Client : conn[c].pc = "idle"
        /\ lock = None /\ None \notin Client
    BY CommitAssumption DEF Init, Idle
  <2>2. LockInv /\ PolicyInv /\ TornInv
    BY <2>1 DEF LockInv, PolicyInv, TornInv, Updating
  <2>3. NamedInv
    BY CommitAssumption, SetupAssumption DEF Init, NamedInv
  <2>4. ASSUME NEW r \in MetaRef
        PROVE  /\ refs[r] \in Commit => named[r] \subseteq Ancestors(refs[r])
               /\ refs[r] = None => named[r] = {}
               /\ refs[r] # Torn
    BY <2>4, CommitAssumption, SetupAssumption, AncestorsRefl DEF Init, Value
  <2> QED
    BY <2>2, <2>3, <2>4 DEF WireInv, MetaInv
<1> QED
  BY <1>1, TypeCorrect, WireStep, PTL DEF Spec

\* Only Truncate tears a file for an update, and only WriteRef mends it.
LEMMA PcStep ==
    ASSUME TypeOK, [Next]_vars, NEW c \in Client, conn'[c].pc # conn[c].pc
    PROVE  /\ conn'[c].pc = "torn" => \E r \in Ref : Truncate(c, r)
           /\ conn'[c].pc = "written" => WriteRef(c)
<1> DEFINE Goal == /\ conn'[c].pc = "torn" => \E r \in Ref : Truncate(c, r)
                   /\ conn'[c].pc = "written" => WriteRef(c)
<1>1. ASSUME NEW o \in Client, NEW s, Set(o, s), o = c => s.pc \notin {"torn", "written"} PROVE Goal
  BY <1>1, OthersKept
<1>2. Idle.pc \notin {"torn", "written"}
  BY DEF Idle
<1>3. ASSUME NEW o \in Client, Fail(o) \/ Respond(o) \/ \E prune \in BOOLEAN : Fetch(o, prune)
      PROVE  Goal
  BY <1>1, <1>2, <1>3 DEF Fail, Respond, Fetch
<1>4. ASSUME NEW o \in Client, InfoRefs(o) PROVE Goal
  <2>1. /\ [Idle EXCEPT !.pc = "listed", !.snap = cache].pc = "listed"
        /\ [Idle EXCEPT !.pc = "listing", !.todo = Ref].pc = "listing"
    BY DEF Idle
  <2> QED
    BY <1>1, <1>4, <2>1 DEF InfoRefs
<1>5. ASSUME NEW o \in Client, NEW r \in Ref, ListRef(o, r) PROVE Goal
  <2>1. [conn[o] EXCEPT !.todo = @ \ {r}, !.snap = [@ EXCEPT ![r] = read_ref(r)]].pc = "listing"
    BY <1>5 DEF ListRef, TypeOK, ConnState
  <2> QED
    BY <1>1, <1>5, <2>1 DEF ListRef
<1>6. ASSUME NEW o \in Client, InfoRefsReply(o) PROVE Goal
  <2>1. [conn[o] EXCEPT !.pc = "listed"].pc = "listed"
    BY DEF TypeOK, ConnState
  <2> QED
    BY <1>1, <1>6, <2>1 DEF InfoRefsReply
<1>7. ASSUME NEW o \in Client, NEW u \in Batch, NEW m \in Mode, Push(o, u, m) PROVE Goal
  <2> DEFINE s == [r \in Ref |-> IF m = "lease" /\ r \notin MetaRef
                                 THEN tracking[o][r] ELSE conn[o].snap[r]]
             n == [r \in Ref |-> IF r \in DOMAIN u THEN u[r] ELSE None]
  <2>1. Set(o, [conn[o] EXCEPT !.pc = "posting", !.snap = s,
                               !.new = n, !.todo = DOMAIN u, !.mode = m])
    BY <1>7 DEF Push
  <2> HIDE DEF s, n
  <2>2. [conn[o] EXCEPT !.pc = "posting", !.snap = s,
                        !.new = n, !.todo = DOMAIN u, !.mode = m].pc = "posting"
    BY DEF TypeOK, ConnState
  <2> QED
    BY <1>1, <2>1, <2>2
<1>8. ASSUME NEW o \in Client, Evaluate(o) PROVE Goal
  <2>1. [conn[o] EXCEPT !.pc = "writing"].pc = "writing"
    BY DEF TypeOK, ConnState
  <2> QED
    BY <1>1, <1>2, <1>8, <2>1 DEF Evaluate
<1>9. ASSUME NEW o \in Client, NEW r, Set(o, [conn[o] EXCEPT !.pc = "writing", !.todo = @ \ {r}, !.at = None])
      PROVE  Goal
  <2>1. [conn[o] EXCEPT !.pc = "writing", !.todo = @ \ {r}, !.at = None].pc = "writing"
    BY DEF TypeOK, ConnState
  <2> QED
    BY <1>1, <1>9, <2>1
<1>10. ASSUME NEW o \in Client, NEW r \in Ref, WriteFails(o, r) PROVE Goal
  BY <1>9, <1>10 DEF WriteFails
<1>11. ASSUME NEW o \in Client, NEW r \in Ref, Truncate(o, r) PROVE Goal
  <2>1. [conn[o] EXCEPT !.pc = "torn", !.at = r].pc = "torn"
    BY DEF TypeOK, ConnState
  <2> QED
    BY <1>1, <1>11, <2>1, OthersKept DEF Truncate
<1>12. ASSUME NEW o \in Client, WriteRef(o) PROVE Goal
  <2>1. [conn[o] EXCEPT !.pc = "written", !.updated = TRUE].pc = "written"
    BY DEF TypeOK, ConnState
  <2> QED
    BY <1>1, <1>12, <2>1, OthersKept DEF WriteRef
<1>13. ASSUME NEW o \in Client, Record(o) PROVE Goal
  BY <1>9, <1>13 DEF Record
<1>14. ASSUME Crash PROVE Goal
  BY <1>2, <1>14 DEF Crash
<1>15. ASSUME UNCHANGED conn PROVE Goal
  BY <1>15
<1> HIDE DEF Goal
<1>16. Goal
  BY <1>3, <1>4, <1>5, <1>6, <1>7, <1>8, <1>10, <1>11, <1>12, <1>13, <1>14, <1>15
  DEF Next, Request, Ttl, LocalCommit, LocalEvent, LocalWrite, vars
<1> QED
  BY <1>16 DEF Goal

\* The lock serves its purpose: an update that names an old value replaces
\* exactly that value, and in fast-forward mode by a descendant.
THEOREM OldIsHonoured == Spec => OldHonoured
<1>1. TypeOK /\ BatchInv /\ WireInv /\ [Next]_vars =>
        [\A c \in Client, r \in Ref \ MetaRef :
         Truncates(c, r) /\ conn[c].mode # "force" /\ conn[c].snap[r] # None
         => /\ refs[r] = conn[c].snap[r]
            /\ conn[c].mode = "ff" => refs[r] \in Ancestors(conn[c].new[r])]_vars
  <2> SUFFICES ASSUME TypeOK, BatchInv, WireInv, [Next]_vars,
                      NEW c \in Client, NEW r \in Ref \ MetaRef, Truncates(c, r),
                      conn[c].mode # "force", conn[c].snap[r] # None
               PROVE  /\ refs[r] = conn[c].snap[r]
                      /\ conn[c].mode = "ff" => refs[r] \in Ancestors(conn[c].new[r])
    OBVIOUS
  <2>1. PICK q \in Ref : Truncate(c, q)
    BY PcStep DEF Truncates
  <2>2. q = r
    <3>1. conn'[c] = [conn[c] EXCEPT !.pc = "torn", !.at = q]
      BY <2>1, OthersKept DEF Truncate
    <3> QED
      BY <3>1 DEF Truncates, TypeOK, ConnState
  <2>3. ~Blocked(c, r)
    BY <2>1, <2>2 DEF Truncate, WireInv, PolicyInv, Updating
  <2>4. read_ref(r) = conn[c].snap[r] /\ (conn[c].mode = "ff" => conn[c].snap[r] \in Ancestors(conn[c].new[r]))
    BY <2>3 DEF Blocked, Refused
  <2> QED
    BY <2>4 DEF read_ref
<1> QED
  BY <1>1, WireInvariant, PTL DEF Spec, OldHonoured

\* sign_required holds for every mode and every claimed old value.
THEOREM OnlySigned == Spec => OnlySignedCommits
<1>1. TypeOK /\ BatchInv /\ WireInv /\ [Next]_vars =>
        [SignRequired =>
         \A c \in Client, r \in Ref \ MetaRef :
            conn[c].pc = "torn" /\ conn'[c].pc = "written" /\ conn[c].at = r
            => Ancestors(refs'[r]) \subseteq Signed \cup Known(r)]_vars
  <2> SUFFICES ASSUME TypeOK, BatchInv, WireInv, [Next]_vars, SignRequired,
                      NEW c \in Client, NEW r \in Ref \ MetaRef,
                      conn[c].pc = "torn", conn'[c].pc = "written", conn[c].at = r
               PROVE  Ancestors(refs'[r]) \subseteq Signed \cup Known(r)
    OBVIOUS
  <2>1. WriteRef(c)
    BY PcStep
  <2>2. refs'[r] = conn[c].new[r]
    BY <2>1 DEF WriteRef, TypeOK
  <2> QED
    BY <2>2 DEF WireInv, TornInv
<1> QED
  BY <1>1, WireInvariant, PTL DEF Spec, OnlySignedCommits

\* Without faults no interleaving of pushes and local commands loses an
\* event of an issue, a PR or an incident.
THEOREM MetadataIsKept == Spec => []MetadataKept
<1>1. WireInv => MetadataKept
  BY DEF WireInv, MetaInv, MetadataKept
<1> QED
  BY <1>1, WireInvariant, PTL

(***************************************************************************)
(* The reflog                                                              *)
(***************************************************************************)

Start(r) == setup.start[r]

\* What a branch has been given is in its reflog, or it was written just now
\* and the entry comes next.
EntryInv ==
    \A r \in Ref \ MetaRef, x \in Commit :
        x \in named[r] =>
            \/ x = Start(r) \/ x \in reflog[r]
            \/ \E c \in Client : conn[c].pc = "written" /\ conn[c].at = r /\ conn[c].new[r] = x /\ refs[r] = x

\* The connection c has heard of the value of r.
Heard(s, r) == s.pc # "idle" /\ (s.pc = "listing" => r \notin s.todo)

\* The branch has its first value, and nobody has heard of another one.
Untouched(r) ==
    /\ refs[r] = Start(r)
    /\ cache = None \/ cache[r] = Start(r)
    /\ \A c \in Client : Heard(conn[c], r) => conn[c].snap[r] = Start(r)

\* The first value of a branch is in its reflog, or the update that replaces
\* it has named it as the old value, or the branch is untouched.
FirstInv ==
    "lease" \notin Mode =>
        \A r \in Ref \ MetaRef : Start(r) \in Commit =>
            \/ Start(r) \in reflog[r]
            \/ \E c \in Client : conn[c].pc \in {"torn", "written"} /\ conn[c].at = r /\ conn[c].snap[r] = Start(r)
            \/ Untouched(r)

ReflogInv == ~Faults => EntryInv /\ FirstInv

\* A step that leaves refs, reflogs and updates alone, and after which nobody
\* has heard of another first value.
LEMMA HeardKeeps ==
    ASSUME TypeOK, ReflogInv, ~Faults, NEW c \in Client,
           UNCHANGED <<setup, refs, named, reflog>>,
           conn[c].pc \notin Updating, \A o \in Client \ {c} : conn'[o] = conn[o],
           \A r \in Ref \ MetaRef : "lease" \notin Mode /\ Untouched(r) =>
               /\ cache' = None \/ cache'[r] = Start(r)
               /\ Heard(conn'[c], r) => conn'[c].snap[r] = Start(r)
    PROVE  EntryInv' /\ FirstInv'
<1>1. Mode' = Mode /\ \A r : Start(r)' = Start(r)
  BY DEF Mode, Start
<1>2. EntryInv'
  BY <1>1 DEF ReflogInv, EntryInv, Updating
<1>3. ASSUME "lease" \notin Mode, NEW r \in Ref \ MetaRef, Untouched(r)
      PROVE  Untouched(r)'
  BY <1>1, <1>3 DEF Untouched
<1>4. FirstInv'
  BY <1>1, <1>3 DEF ReflogInv, FirstInv, Updating
<1> QED BY <1>2, <1>4

\* A connection in the state s has heard of first values only.
Fine(s) ==
    \A r \in Ref \ MetaRef : "lease" \notin Mode /\ Untouched(r) =>
        (Heard(s, r) => s.snap[r] = Start(r))

\* Listing the refs, and preparing an update.
LEMMA RequestReflog ==
    ASSUME TypeOK, ReflogInv, ~Faults, NEW c \in Client
    PROVE  (\/ InfoRefs(c) \/ InfoRefsReply(c) \/ Fail(c)
            \/ \E prune \in BOOLEAN : Fetch(c, prune)
            \/ \E r \in Ref : ListRef(c, r)
            \/ \E u \in Batch, m \in Mode : Push(c, u, m))
           => EntryInv' /\ FirstInv'
<1>1. ASSUME NEW s, Set(c, s), Fine(s), conn[c].pc \notin Updating, UNCHANGED <<setup, refs, named, reflog>>,
             \A r \in Ref \ MetaRef : "lease" \notin Mode /\ Untouched(r) => cache' = None \/ cache'[r] = Start(r)
      PROVE  EntryInv' /\ FirstInv'
  <2>1. conn'[c] = s /\ \A o \in Client \ {c} : conn'[o] = conn[o]
    BY <1>1, OthersKept
  <2> QED BY <1>1, <2>1, HeardKeeps DEF Fine
<1>2. \A r \in Ref : Untouched(r) => cache = None \/ cache[r] = Start(r)
  BY DEF Untouched
<1>3. Fine(Idle)
  BY DEF Idle, Heard, Fine
<1>4. ASSUME InfoRefs(c) PROVE EntryInv' /\ FirstInv'
  <2>1. conn[c].pc \notin Updating /\ UNCHANGED <<setup, refs, named, reflog, cache>>
    BY <1>4 DEF InfoRefs, Updating
  <2>2. cache # None => Fine([Idle EXCEPT !.pc = "listed", !.snap = cache])
    <3>1. [Idle EXCEPT !.pc = "listed", !.snap = cache].snap = cache
      BY DEF Idle
    <3> QED BY <1>2, <3>1 DEF Fine
  <2>3. Fine([Idle EXCEPT !.pc = "listing", !.todo = Ref])
    <3>1. /\ [Idle EXCEPT !.pc = "listing", !.todo = Ref].pc = "listing"
          /\ [Idle EXCEPT !.pc = "listing", !.todo = Ref].todo = Ref
      BY DEF Idle
    <3> QED BY <3>1 DEF Heard, Fine
  <2>4. \A r \in Ref \ MetaRef : Untouched(r) => cache' = None \/ cache'[r] = Start(r)
    BY <1>2, <2>1
  <2>5. CASE cache # None /\ Set(c, [Idle EXCEPT !.pc = "listed", !.snap = cache])
    BY <1>1, <2>1, <2>2, <2>4, <2>5
  <2>6. CASE Set(c, [Idle EXCEPT !.pc = "listing", !.todo = Ref])
    BY <1>1, <2>1, <2>3, <2>4, <2>6
  <2> QED BY <1>4, <2>5, <2>6 DEF InfoRefs
<1>5. ASSUME InfoRefsReply(c) PROVE EntryInv' /\ FirstInv'
  <2> DEFINE s == [conn[c] EXCEPT !.pc = "listed"]
  <2>1. s.pc = "listed" /\ s.snap = conn[c].snap
    BY DEF TypeOK, ConnState
  <2>2. /\ conn[c].pc = "listing" /\ conn[c].todo = {} /\ Set(c, s) /\ cache' = conn[c].snap
        /\ UNCHANGED <<setup, refs, named, reflog>>
    BY <1>5 DEF InfoRefsReply
  <2> HIDE DEF s
  <2>3. \A r \in Ref : Untouched(r) => conn[c].snap[r] = Start(r)
    BY <2>2 DEF Untouched, Heard
  <2> QED BY <1>1, <2>1, <2>2, <2>3 DEF Updating, Fine
<1>6. ASSUME Fail(c) \/ \E prune \in BOOLEAN : Fetch(c, prune) PROVE EntryInv' /\ FirstInv'
  <2>1. Set(c, Idle) /\ conn[c].pc \notin Updating /\ UNCHANGED <<setup, refs, named, reflog, cache>>
    BY <1>6 DEF Fail, Fetch, Updating
  <2> QED BY <1>1, <1>2, <1>3, <2>1
<1>7. ASSUME NEW q \in Ref, ListRef(c, q) PROVE EntryInv' /\ FirstInv'
  <2> DEFINE n == [conn[c].snap EXCEPT ![q] = read_ref(q)]
  <2>2. n[q] = read_ref(q) /\ \A r \in Ref \ {q} : n[r] = conn[c].snap[r]
    BY DEF TypeOK, ConnState, Listing
  <2>3. conn' = [conn EXCEPT ![c] = [conn[c] EXCEPT !.todo = @ \ {q}, !.snap = n]]
    BY <1>7 DEF ListRef, Set
  <2> HIDE DEF n
  <2> DEFINE s == [conn[c] EXCEPT !.todo = @ \ {q}, !.snap = n]
  <2>1. s.pc = conn[c].pc /\ s.todo = conn[c].todo \ {q} /\ s.snap = n
    BY DEF TypeOK, ConnState
  <2>5. Set(c, s)
    BY <2>3 DEF Set
  <2>6. conn[c].pc = "listing" /\ UNCHANGED <<setup, refs, named, reflog, cache>>
    BY <1>7 DEF ListRef
  <2> HIDE DEF s
  <2>4. ASSUME NEW r \in Ref \ MetaRef, Untouched(r), Heard(s, r) PROVE s.snap[r] = Start(r)
    <3>1. Start(r) # Torn
      BY SetupAssumption, CommitAssumption DEF TypeOK, Start, Value
    <3>2. CASE r = q
      BY <2>1, <2>2, <2>4, <3>1, <3>2 DEF Untouched, read_ref
    <3>3. CASE r # q
      <4>1. Heard(conn[c], r)
        BY <2>1, <2>4, <2>6, <3>3 DEF Heard
      <4> QED BY <2>1, <2>2, <2>4, <3>3, <4>1 DEF Untouched
    <3> QED BY <3>2, <3>3
  <2> QED BY <1>1, <1>2, <2>4, <2>5, <2>6 DEF Updating, Fine
<1>8. ASSUME NEW u \in Batch, NEW m \in Mode, Push(c, u, m) PROVE EntryInv' /\ FirstInv'
  <2> DEFINE o == [r \in Ref |-> IF m = "lease" /\ r \notin MetaRef
                                 THEN tracking[c][r] ELSE conn[c].snap[r]]
             n == [r \in Ref |-> IF r \in DOMAIN u THEN u[r] ELSE None]
  <2>1. /\ conn[c].pc = "listed" /\ UNCHANGED <<setup, refs, named, reflog, cache>>
        /\ Set(c, [conn[c] EXCEPT !.pc = "posting", !.snap = o,
                                  !.new = n, !.todo = DOMAIN u, !.mode = m])
    BY <1>8 DEF Push
  <2>2. \A r \in Ref : "lease" \notin Mode => o[r] = conn[c].snap[r]
    BY <1>8
  <2> HIDE DEF o, n
  <2> DEFINE s == [conn[c] EXCEPT !.pc = "posting", !.snap = o, !.new = n, !.todo = DOMAIN u, !.mode = m]
  <2>3. s.snap = o /\ Set(c, s)
    BY <2>1 DEF TypeOK, ConnState
  <2> HIDE DEF s
  <2>4. \A r \in Ref : Untouched(r) => conn[c].snap[r] = Start(r)
    BY <2>1 DEF Untouched, Heard
  <2> QED BY <1>1, <1>2, <2>1, <2>2, <2>3, <2>4 DEF Updating, Fine
<1> QED BY <1>4, <1>5, <1>6, <1>7, <1>8

\* The policy check, and the end of an update that was not written.
LEMMA EvaluateReflog ==
    ASSUME TypeOK, ReflogInv, ~Faults, NEW c \in Client, Evaluate(c)
    PROVE  EntryInv' /\ FirstInv'
<1> DEFINE s == [conn[c] EXCEPT !.pc = "writing"]
<1>1. s.pc = "writing" /\ s.snap = conn[c].snap
  BY DEF TypeOK, ConnState
<1>2. conn[c].pc = "posting" /\ UNCHANGED <<setup, refs, named, reflog, cache>> /\ (Set(c, s) \/ Set(c, Idle))
  BY DEF Evaluate
<1> HIDE DEF s
<1>3. conn'[c] \in {s, Idle} /\ \A o \in Client \ {c} : conn'[o] = conn[o]
  BY <1>2, OthersKept
<1>4. ASSUME NEW r \in Ref \ MetaRef, Untouched(r)
      PROVE  (cache' = None \/ cache'[r] = Start(r)) /\ (Heard(conn'[c], r) => conn'[c].snap[r] = Start(r))
  <2>1. Idle.pc = "idle"
    BY DEF Idle
  <2> QED BY <1>1, <1>2, <1>3, <1>4, <2>1 DEF Untouched, Heard
<1> QED BY <1>2, <1>3, <1>4, HeardKeeps DEF Updating

\* Without faults a step of refs/update between two updates finds no other
\* one under way.
LEMMA BetweenReflog ==
    ASSUME TypeOK, WireInv, ReflogInv, ~Faults, NEW c \in Client, conn[c].pc = "writing",
           UNCHANGED <<setup, refs, named, reflog>>, cache' \in {cache, None},
           \A o \in Client \ {c} : conn'[o] = conn[o],
           conn'[c].pc \in {"writing", "idle"}, conn'[c].pc = "writing" => conn'[c].snap = conn[c].snap
    PROVE  EntryInv' /\ FirstInv'
<1>1. Mode' = Mode /\ \A r : Start(r)' = Start(r)
  BY DEF Mode, Start
<1>2. \A o \in Client : conn[o].pc \notin {"torn", "written"}
  BY DEF WireInv, LockInv, Updating
<1>3. EntryInv'
  BY <1>1, <1>2 DEF ReflogInv, EntryInv
<1>4. ASSUME NEW r \in Ref, Untouched(r) PROVE Untouched(r)'
  BY <1>1, <1>4 DEF Untouched, Heard
<1>5. FirstInv'
  BY <1>1, <1>2, <1>4 DEF ReflogInv, FirstInv
<1> QED BY <1>3, <1>5

\* An update that cannot be written, and the response.
LEMMA EndReflog ==
    ASSUME TypeOK, WireInv, ReflogInv, ~Faults, NEW c \in Client
    PROVE  Respond(c) \/ (\E r \in Ref : WriteFails(c, r)) => EntryInv' /\ FirstInv'
<1>1. ASSUME Respond(c) PROVE EntryInv' /\ FirstInv'
  <2>1. conn'[c] = Idle /\ \A o \in Client \ {c} : conn'[o] = conn[o]
    BY <1>1, OthersKept DEF Respond
  <2>2. Idle.pc = "idle"
    BY DEF Idle
  <2>3. conn[c].pc = "writing" /\ UNCHANGED <<setup, refs, named, reflog>> /\ cache' \in {cache, None}
    BY <1>1 DEF Respond
  <2> QED BY <2>1, <2>2, <2>3, BetweenReflog
<1>2. ASSUME NEW r \in Ref, WriteFails(c, r) PROVE EntryInv' /\ FirstInv'
  <2> DEFINE s == [conn[c] EXCEPT !.pc = "writing", !.todo = @ \ {r}, !.at = None]
  <2>1. s.pc = "writing" /\ s.snap = conn[c].snap
    BY DEF TypeOK, ConnState
  <2>2. conn'[c] = s /\ \A o \in Client \ {c} : conn'[o] = conn[o]
    BY <1>2, OthersKept DEF WriteFails
  <2> HIDE DEF s
  <2>3. conn[c].pc = "writing" /\ UNCHANGED <<setup, refs, named, reflog, cache>>
    BY <1>2 DEF WriteFails
  <2> QED BY <2>1, <2>2, <2>3, BetweenReflog
<1> QED BY <1>1, <1>2

\* A step of an update to another ref tells nobody about r.
LEMMA UntouchedKept ==
    ASSUME NEW r, NEW c \in Client, Untouched(r), Start(r)' = Start(r), refs'[r] = refs[r], cache' = cache,
           \A o \in Client \ {c} : conn'[o] = conn[o],
           Heard(conn[c], r), conn'[c].snap = conn[c].snap
    PROVE  Untouched(r)'
<1>1. refs'[r] = Start(r)' /\ (cache' = None \/ cache'[r] = Start(r)')
  BY DEF Untouched
<1>2. ASSUME NEW o \in Client, Heard(conn'[o], r) PROVE conn'[o].snap[r] = Start(r)'
  BY <1>2 DEF Untouched
<1> QED BY <1>1, <1>2 DEF Untouched, Heard

\* Opening a file: whoever is the first to do it has heard of the first value.
LEMMA TruncateReflog ==
    ASSUME TypeOK, WireInv, ReflogInv, ~Faults, NEW c \in Client, NEW q \in Ref, Truncate(c, q)
    PROVE  EntryInv' /\ FirstInv'
<1>1. Mode' = Mode /\ \A r : Start(r)' = Start(r)
  BY DEF Mode, Start, Truncate
<1> DEFINE s == [conn[c] EXCEPT !.pc = "torn", !.at = q]
<1>2. s.pc = "torn" /\ s.at = q /\ s.snap = conn[c].snap
  BY DEF TypeOK, ConnState
<1>3. conn'[c] = s /\ \A o \in Client \ {c} : conn'[o] = conn[o]
  BY OthersKept DEF Truncate
<1> HIDE DEF s
<1>4. /\ conn[c].pc = "writing" /\ UNCHANGED <<named, reflog, cache>>
      /\ \A r \in Ref \ {q} : refs'[r] = refs[r]
  BY DEF Truncate, TypeOK
<1>5. \A o \in Client : conn[o].pc \notin {"torn", "written"}
  BY <1>4 DEF WireInv, LockInv, Updating
<1>6. EntryInv'
  BY <1>1, <1>4, <1>5 DEF ReflogInv, EntryInv
<1>7. ASSUME NEW r \in Ref, Untouched(r), r # q PROVE Untouched(r)'
  <2>1. Heard(conn[c], r)
    BY <1>4 DEF Heard
  <2> QED BY <1>1, <1>2, <1>3, <1>4, <1>7, <2>1, UntouchedKept
<1>8. Untouched(q) => s.snap[q] = Start(q)
  BY <1>2, <1>4 DEF Untouched, Heard
<1>9. FirstInv'
  BY <1>1, <1>2, <1>3, <1>4, <1>5, <1>7, <1>8 DEF ReflogInv, FirstInv
<1> QED BY <1>6, <1>9

\* Writing the file: the new value waits for its entry.
LEMMA WriteReflog ==
    ASSUME TypeOK, BatchInv, WireInv, ReflogInv, ~Faults, NEW c \in Client, WriteRef(c)
    PROVE  EntryInv' /\ FirstInv'
<1>1. Mode' = Mode /\ \A r : Start(r)' = Start(r)
  BY DEF Mode, Start, WriteRef
<1> DEFINE s == [conn[c] EXCEPT !.pc = "written", !.updated = TRUE]
           q == conn[c].at
<1>2. s.pc = "written" /\ s.at = q /\ s.snap = conn[c].snap /\ s.new = conn[c].new
  BY DEF TypeOK, ConnState
<1>3. conn'[c] = s /\ \A o \in Client \ {c} : conn'[o] = conn[o]
  BY OthersKept DEF WriteRef
<1>4. q \in Ref /\ conn[c].pc = "torn"
  BY DEF WriteRef, BatchInv, TypeOK, ConnState
<1>5. /\ UNCHANGED <<reflog, cache>>
      /\ refs'[q] = conn[c].new[q] /\ \A r \in Ref \ {q} : refs'[r] = refs[r]
      /\ named'[q] = named[q] \cup {conn[c].new[q]} /\ \A r \in Ref \ {q} : named'[r] = named[r]
  BY <1>4 DEF WriteRef, TypeOK
<1> HIDE DEF s
<1>6. \A o \in Client : conn[o].pc # "written" /\ (conn[o].pc = "torn" => o = c)
  BY <1>4 DEF WireInv, LockInv, Updating
<1> HIDE DEF q
<1>7. EntryInv'
  <2> SUFFICES ASSUME NEW r \in Ref \ MetaRef, NEW x \in Commit, x \in named'[r], x # Start(r), x \notin reflog[r]
               PROVE  conn'[c].pc = "written" /\ conn'[c].at = r /\ conn'[c].new[r] = x /\ refs'[r] = x
    BY <1>1, <1>5 DEF EntryInv
  <2>1. x \notin named[r]
    BY <1>6 DEF ReflogInv, EntryInv
  <2>2. r = q /\ x = conn[c].new[q]
    BY <1>5, <2>1
  <2> QED BY <1>2, <1>3, <1>5, <2>2
<1>8. ASSUME NEW r \in Ref, Untouched(r), r # q PROVE Untouched(r)'
  <2>1. Heard(conn[c], r)
    BY <1>4 DEF Heard
  <2> QED BY <1>1, <1>2, <1>3, <1>5, <1>8, <2>1, UntouchedKept
<1>9. Untouched(q) => s.snap[q] = Start(q)
  BY <1>2, <1>4 DEF Untouched, Heard
<1>10. FirstInv'
  <2> SUFFICES ASSUME "lease" \notin Mode, NEW r \in Ref \ MetaRef, Start(r) \in Commit, Start(r) \notin reflog[r],
                      ~Untouched(r)'
               PROVE  conn'[c].pc = "written" /\ conn'[c].at = r /\ conn'[c].snap[r] = Start(r)
    BY <1>1, <1>5 DEF FirstInv
  <2>1. Untouched(r) \/ (conn[c].at = r /\ conn[c].snap[r] = Start(r))
    BY <1>6 DEF ReflogInv, FirstInv
  <2> QED BY <1>2, <1>3, <1>8, <1>9, <2>1 DEF q
<1> QED BY <1>7, <1>10

\* The entry has the value that was written and the one that was expected.
LEMMA RecordReflog ==
    ASSUME TypeOK, BatchInv, WireInv, ReflogInv, ~Faults, NEW c \in Client, Record(c)
    PROVE  EntryInv' /\ FirstInv'
<1>1. Mode' = Mode /\ \A r : Start(r)' = Start(r)
  BY DEF Mode, Start, Record
<1> DEFINE q == conn[c].at
           s == [conn[c] EXCEPT !.pc = "writing", !.todo = @ \ {q}, !.at = None]
<1>2. s.pc = "writing" /\ s.snap = conn[c].snap
  BY DEF TypeOK, ConnState
<1>3. conn'[c] = s /\ \A o \in Client \ {c} : conn'[o] = conn[o]
  BY OthersKept DEF Record
<1>4. q \in Ref /\ conn[c].pc = "written"
  BY DEF Record, BatchInv, TypeOK, ConnState
<1>5. /\ UNCHANGED <<refs, named, cache>>
      /\ reflog'[q] = reflog[q] \cup {conn[c].new[q]} \cup ({conn[c].snap[q]} \ {None})
      /\ \A r \in Ref \ {q} : reflog'[r] = reflog[r]
  BY <1>4 DEF Record, TypeOK
<1> HIDE DEF s
<1>6. \A o \in Client : conn[o].pc \in {"torn", "written"} => o = c
  BY <1>4 DEF WireInv, LockInv, Updating
<1>7. EntryInv'
  <2> SUFFICES ASSUME NEW r \in Ref \ MetaRef, NEW x \in Commit, x \in named[r], x # Start(r)
               PROVE  x \in reflog'[r]
    BY <1>1, <1>5 DEF EntryInv
  <2>1. x \in reflog[r] \/ (conn[c].at = r /\ conn[c].new[r] = x)
    BY <1>6 DEF ReflogInv, EntryInv
  <2> QED BY <1>4, <1>5, <2>1
<1>8. ASSUME NEW r \in Ref, Untouched(r) PROVE Untouched(r)'
  <2>1. Heard(conn[c], r)
    BY <1>4 DEF Heard
  <2> QED BY <1>1, <1>2, <1>3, <1>5, <1>8, <2>1, UntouchedKept
<1>9. FirstInv'
  <2> SUFFICES ASSUME "lease" \notin Mode, NEW r \in Ref \ MetaRef, Start(r) \in Commit, ~Untouched(r)'
               PROVE  Start(r) \in reflog'[r]
    BY <1>1 DEF FirstInv
  <2>1. Start(r) \in reflog[r] \/ (conn[c].at = r /\ conn[c].snap[r] = Start(r))
    BY <1>6, <1>8 DEF ReflogInv, FirstInv
  <2> QED BY <1>4, <1>5, <2>1, CommitAssumption
<1> QED BY <1>7, <1>9

\* A command on the server's disk records what it finds.
LEMMA LocalReflog ==
    ASSUME TypeOK, WireInv, ReflogInv, ~Faults, NEW q \in Ref, NEW v \in Commit,
           LocalCommit(q, v) \/ LocalEvent(q, v)
    PROVE  EntryInv' /\ FirstInv'
<1>1. Mode' = Mode /\ \A r : Start(r)' = Start(r)
  BY DEF Mode, Start, LocalCommit, LocalEvent, LocalWrite
<1>2. /\ lock = None /\ UNCHANGED <<conn, cache>> /\ \A r \in Ref \ {q} : refs'[r] = refs[r]
      /\ named'[q] = named[q] \cup {v} /\ \A r \in Ref \ {q} : named'[r] = named[r]
  BY DEF LocalCommit, LocalEvent, LocalWrite, TypeOK
<1>3. /\ \A r \in Ref \ {q} : reflog'[r] = reflog[r]
      /\ q \notin MetaRef => reflog'[q] = reflog[q] \cup {v} \cup ({refs[q]} \ {None})
  BY DEF LocalCommit, LocalEvent, TypeOK
<1>4. \A o \in Client : conn[o].pc \notin {"torn", "written"}
  BY <1>2, CommitAssumption DEF WireInv, LockInv, Updating
<1>5. EntryInv'
  <2> SUFFICES ASSUME NEW r \in Ref \ MetaRef, NEW x \in Commit, x \in named'[r], x # Start(r)
               PROVE  x \in reflog'[r]
    BY <1>1 DEF EntryInv
  <2>1. x \in named[r] => x \in reflog[r]
    BY <1>4 DEF ReflogInv, EntryInv
  <2> QED BY <1>2, <1>3, <2>1
<1>6. ASSUME NEW r \in Ref, Untouched(r), r # q PROVE Untouched(r)'
  BY <1>1, <1>2, <1>6 DEF Untouched, Heard
<1>7. FirstInv'
  <2> SUFFICES ASSUME "lease" \notin Mode, NEW r \in Ref \ MetaRef, Start(r) \in Commit, ~Untouched(r)'
               PROVE  Start(r) \in reflog'[r]
    BY <1>1 DEF FirstInv
  <2>1. Start(r) \in reflog[r] \/ (r = q /\ refs[q] = Start(r))
    BY <1>4, <1>6 DEF ReflogInv, FirstInv, Untouched
  <2> QED BY <1>3, <2>1, CommitAssumption
<1> QED BY <1>5, <1>7

\* Every step keeps the invariant of the reflog.
LEMMA ReflogStep == TypeOK /\ BatchInv /\ WireInv /\ ReflogInv /\ [Next]_vars => ReflogInv'
<1> SUFFICES ASSUME TypeOK, BatchInv, WireInv, ReflogInv, [Next]_vars, ~Faults'
             PROVE  EntryInv' /\ FirstInv'
  BY DEF ReflogInv
<1>0. setup' = setup
  <2>1. ASSUME NEW c \in Client, Request(c) PROVE setup' = setup
    <3>1. /\ InfoRefs(c) \/ InfoRefsReply(c) \/ Fail(c) => setup' = setup
          /\ Evaluate(c) \/ WriteRef(c) \/ Record(c) \/ Respond(c) => setup' = setup
      BY Zenon DEF InfoRefs, InfoRefsReply, Fail, Evaluate, WriteRef, Record, Respond
    <3>2. \A r \in Ref : ListRef(c, r) \/ Truncate(c, r) \/ WriteFails(c, r) => setup' = setup
      BY Zenon DEF ListRef, Truncate, WriteFails
    <3>3. \A prune \in BOOLEAN : Fetch(c, prune) => setup' = setup
      BY Zenon DEF Fetch
    <3>4. \A u \in Batch, m \in Mode : Push(c, u, m) => setup' = setup
      BY Zenon DEF Push
    <3> QED BY <2>1, <3>1, <3>2, <3>3, <3>4 DEF Request
  <2> QED BY <2>1 DEF Next, vars, LocalCommit, LocalEvent, LocalWrite, Ttl, Crash
<1>1. ~Faults /\ Mode' = Mode /\ \A r : Start(r)' = Start(r)
  BY <1>0 DEF Faults, Mode, Start
<1>2. ASSUME UNCHANGED <<setup, refs, reflog, named, conn>>, cache' \in {cache, None}
      PROVE  EntryInv' /\ FirstInv'
  <2>1. EntryInv'
    BY <1>1, <1>2 DEF ReflogInv, EntryInv
  <2>2. \A r \in Ref : Untouched(r) => Untouched(r)'
    BY <1>1, <1>2 DEF Untouched, Heard
  <2>3. FirstInv'
    BY <1>1, <1>2, <2>2 DEF ReflogInv, FirstInv
  <2> QED BY <2>1, <2>3
<1>3. ASSUME Ttl \/ UNCHANGED vars PROVE EntryInv' /\ FirstInv'
  BY <1>2, <1>3 DEF Ttl, vars
<1>4. ~Crash
  BY <1>1 DEF Crash
<1>5. ASSUME NEW c \in Client, Request(c) PROVE EntryInv' /\ FirstInv'
  BY <1>1, <1>5, RequestReflog, EvaluateReflog, EndReflog, TruncateReflog, WriteReflog, RecordReflog DEF Request
<1> QED BY <1>1, <1>3, <1>4, <1>5, LocalReflog DEF Next

\* No interleaving of pushes, forced ones included, and of commands on the
\* server's disk leaves a value that a branch has had out of its reflog,
\* although refs/update records the old value that the client claims.
THEOREM TipsAreRecoverable == Spec => []TipsRecoverable
<1>1. Init => ReflogInv
  <2> SUFFICES ASSUME Init PROVE EntryInv /\ FirstInv
    BY DEF ReflogInv
  <2>1. EntryInv
    BY DEF Init, EntryInv, Start
  <2>2. \A r \in Ref : Untouched(r)
    BY DEF Init, Untouched, Start, Heard, Idle
  <2> QED BY <2>1, <2>2 DEF FirstInv
<1>2. TypeOK /\ ReflogInv => TipsRecoverable
  <2> SUFFICES ASSUME TypeOK, ReflogInv, ~Faults, NEW r \in Ref \ MetaRef
               PROVE  /\ named[r] \ {setup.start[r]} \subseteq reflog[r] \cup {refs[r]}
                      /\ "lease" \notin Mode /\ ~Replacing(r) => named[r] \subseteq reflog[r] \cup {refs[r]}
    BY DEF TipsRecoverable
  <2>1. named[r] \ {setup.start[r]} \subseteq reflog[r] \cup {refs[r]}
    BY DEF TypeOK, ReflogInv, EntryInv, Start
  <2>2. ASSUME "lease" \notin Mode, ~Replacing(r), Start(r) \in Commit
        PROVE  Start(r) \in reflog[r] \cup {refs[r]}
    BY <2>2 DEF ReflogInv, FirstInv, Untouched, Replacing
  <2> QED BY <2>1, <2>2 DEF TypeOK, Start
<1> QED
  BY <1>1, <1>2, ReflogStep, WireInvariant, PTL DEF Spec
=============================================================================
