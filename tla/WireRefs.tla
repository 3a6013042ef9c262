------------------------------ MODULE WireRefs ------------------------------
(***************************************************************************)
(* The refs of one served repository: info/refs with its response cache,   *)
(* refs/update with the policy of refs_policy.rs, and gyt commands that    *)
(* move a ref on the server's own disk.                                    *)
(*                                                                         *)
(* refs/update holds refs.lock (an abstract mutex here) from the policy    *)
(* check to the cache invalidation.  info/refs takes no lock: it reads one *)
(* ref file after another, and only then fills the cache.  refs/update     *)
(* writes with std::fs::write, so a reader may find the file empty.        *)
(***************************************************************************)
EXTENDS Naturals, FiniteSets

CONSTANTS
    Ref, Commit, Parents,
    MetaRef,        \* refs/issues, refs/prs, refs/incidents: their values are
                    \* blobs, and Parents is what a blob extends
    Client,         \* connections; each one is a gyt clone with a remote
    Signed,         \* commits with a good signature by an allowed signer
    Setups,         \* configurations of the server and what it is used for
    None,           \* no such ref, nobody holds the lock, an empty cache
    Torn,           \* a ref file that has been truncated and not yet written
    MaxPush,        \* bound on the pushes and fetches of all clients
    MaxLocal        \* bound on the commands run on the server's disk

Value == Commit \cup {None}

ASSUME CommitAssumption ==
    /\ Parents \in [Commit -> SUBSET Commit]
    /\ Signed \subseteq Commit
    /\ MetaRef \subseteq Ref
    /\ None \notin Commit \cup Client \cup {Torn}
    /\ Torn \notin Commit

\* start: what the refs name when the server starts;
\* batches: the updates a gyt push may send, from refs to new tips;
\* modes: of gyt push (lease and force need a server with --allow-force);
\* sign: the repository's sign_required;
\* faults: the server may be killed, a write may fail half-way.
ASSUME SetupAssumption ==
    \A s \in Setups :
        /\ s.start \in [Ref -> Value]
        /\ \A u \in s.batches : DOMAIN u \subseteq Ref /\ \A r \in DOMAIN u : u[r] \in Commit
        /\ s.modes \subseteq {"ff", "lease", "force"}
        /\ {s.sign, s.faults} \subseteq BOOLEAN

ASSUME BoundAssumption == MaxPush \in Nat /\ MaxLocal \in Nat

VARIABLES
    setup,      \* the configuration of this behaviour
    refs,       \* the ref files
    lock,       \* who has refs.lock
    cache,      \* the cached info/refs response
    reflog,     \* the ids in the reflog of each ref
    named,      \* history: every commit a ref has named
    conn,       \* the state of each connection
    tracking,   \* refs/remotes of each client
    pushes,     \* requests made so far
    locals      \* local commands run so far

vars == <<setup, refs, lock, cache, reflog, named, conn, tracking, pushes, locals>>

Listing == [Ref -> Value]

NoRefs == [r \in Ref |-> None]

Idle == [pc |-> "idle", snap |-> NoRefs, todo |-> {}, mode |-> "ff",
         new |-> NoRefs, at |-> None, updated |-> FALSE]

Updating == {"writing", "torn", "written"}

ConnState == [pc : {"idle", "listing", "listed", "posting"} \cup Updating,
              snap : Listing, todo : SUBSET Ref, mode : {"ff", "lease", "force"},
              new : Listing, at : Ref \cup {None}, updated : BOOLEAN]

TypeOK ==
    /\ setup \in Setups
    /\ refs \in [Ref -> Value \cup {Torn}]
    /\ lock \in Client \cup {None}
    /\ cache \in Listing \cup {None}
    /\ reflog \in [Ref -> SUBSET Commit]
    /\ named \in [Ref -> SUBSET Commit]
    /\ conn \in [Client -> ConnState]
    /\ tracking \in [Client -> Listing]
    /\ pushes \in Nat /\ locals \in Nat

Init ==
    /\ setup \in Setups
    /\ refs = setup.start
    /\ lock = None
    /\ cache = None
    /\ reflog = [r \in Ref |-> {}]
    /\ named = [r \in Ref |-> {setup.start[r]} \ {None}]
    /\ conn = [c \in Client |-> Idle]
    /\ tracking = [c \in Client |-> NoRefs]
    /\ pushes = 0
    /\ locals = 0

Batch == setup.batches
Mode == setup.modes
SignRequired == setup.sign
Faults == setup.faults

\* Each commit and everything it descends from: the least set closed under
\* parents.
History ==
    [c \in Commit |->
        {x \in Commit : \A S \in SUBSET Commit :
            (c \in S /\ \A y \in S : Parents[y] \subseteq S) => x \in S}]

Ancestors(c) == History[c]

AncestorsOf(v) == IF v \in Commit THEN Ancestors(v) ELSE {}

\* refs::read_ref: a file that is missing or too short names nothing.
read_ref(r) == IF refs[r] = Torn THEN None ELSE refs[r]

Set(c, s) == conn' = [conn EXCEPT ![c] = s]

(***************************************************************************)
(* GET info/refs                                                           *)
(***************************************************************************)

\* A hit on the cache, or the beginning of list_refs.
InfoRefs(c) ==
    /\ conn[c].pc = "idle"
    /\ pushes < MaxPush
    /\ pushes' = pushes + 1
    /\ \/ /\ cache # None
          /\ Set(c, [Idle EXCEPT !.pc = "listed", !.snap = cache])
       \/ /\ cache = None
          /\ Set(c, [Idle EXCEPT !.pc = "listing", !.todo = Ref])
    /\ UNCHANGED <<setup, refs, lock, cache, reflog, named, tracking, locals>>

ListRef(c, r) ==
    /\ conn[c].pc = "listing"
    /\ r \in conn[c].todo
    /\ Set(c, [conn[c] EXCEPT !.todo = @ \ {r}, !.snap = [@ EXCEPT ![r] = read_ref(r)]])
    /\ UNCHANGED <<setup, refs, lock, cache, reflog, named, tracking, pushes, locals>>

\* ResponseCache::insert, and the answer to the client.
InfoRefsReply(c) ==
    /\ conn[c].pc = "listing"
    /\ conn[c].todo = {}
    /\ cache' = conn[c].snap
    /\ Set(c, [conn[c] EXCEPT !.pc = "listed"])
    /\ UNCHANGED <<setup, refs, lock, reflog, named, tracking, pushes, locals>>

Ttl ==
    /\ cache # None
    /\ cache' = None
    /\ UNCHANGED <<setup, refs, lock, reflog, named, conn, tracking, pushes, locals>>

(***************************************************************************)
(* The client: fetch keeps the listing, push sends an update               *)
(***************************************************************************)

\* gyt fetch [--prune]: a ref that is not listed keeps its tracking ref
\* unless it is pruned.
Fetch(c, prune) ==
    /\ conn[c].pc = "listed"
    /\ tracking' = [tracking EXCEPT ![c] =
           [r \in Ref |-> IF conn[c].snap[r] = None /\ ~prune
                          THEN tracking[c][r] ELSE conn[c].snap[r]]]
    /\ Set(c, Idle)
    /\ UNCHANGED <<setup, refs, lock, cache, reflog, named, pushes, locals>>

\* gyt push: old is the listed value, or for a lease on a branch the
\* tracking ref.
Push(c, u, m) ==
    /\ conn[c].pc = "listed"
    /\ Set(c, [conn[c] EXCEPT !.pc = "posting",
                              !.snap = [r \in Ref |-> IF m = "lease" /\ r \notin MetaRef
                                                       THEN tracking[c][r] ELSE @[r]],
                              !.new = [r \in Ref |-> IF r \in DOMAIN u THEN u[r] ELSE None],
                              !.todo = DOMAIN u,
                              !.mode = m])
    /\ UNCHANGED <<setup, refs, lock, cache, reflog, named, tracking, pushes, locals>>

(***************************************************************************)
(* POST refs/update                                                        *)
(***************************************************************************)

\* commits_new_since: what new brings that the ref did not have.
commits_new_since(cur, new) == Ancestors(new) \ AncestorsOf(cur)

\* enforce_metadata_monotonic: against the ref on disk, in every mode.
NotExtended(r, new) == read_ref(r) # None /\ read_ref(r) \notin Ancestors(new)

\* Mutant: only the signature of the new tip is looked at.
Refused_TipOnly(m, r, old, new) ==
    \/ /\ m # "force" /\ old # None
       /\ read_ref(r) # old \/ (m = "ff" /\ old \notin Ancestors(new))
    \/ SignRequired /\ new \notin Signed

\* The gates of evaluate_with_mode on a branch: old only counts if given.
Refused(m, r, old, new) ==
    \/ /\ m # "force" /\ old # None
       /\ read_ref(r) # old \/ (m = "ff" /\ old \notin Ancestors(new))
    \/ SignRequired /\ ~(commits_new_since(read_ref(r), new) \subseteq Signed)

\* Mutant: metadata is compared with what the client says was there.
Blocked_TrustsOld(c, r) ==
    IF r \in MetaRef
    THEN conn[c].snap[r] # None /\ conn[c].snap[r] \notin Ancestors(conn[c].new[r])
    ELSE Refused(conn[c].mode, r, conn[c].snap[r], conn[c].new[r])

\* evaluate_with_mode for one update.
Blocked(c, r) ==
    IF r \in MetaRef
    THEN NotExtended(r, conn[c].new[r])
    ELSE Refused(conn[c].mode, r, conn[c].snap[r], conn[c].new[r])

\* Mutant: refs.lock is not waited for.
Evaluate_Unlocked(c) ==
    /\ conn[c].pc = "posting"
    /\ \A r \in conn[c].todo : ~Blocked(c, r)
    /\ lock' = c
    /\ Set(c, [conn[c] EXCEPT !.pc = "writing"])
    /\ UNCHANGED <<setup, refs, cache, reflog, named, tracking, pushes, locals>>

Evaluate(c) ==
    /\ conn[c].pc = "posting"
    /\ lock = None
    /\ \/ /\ \A r \in conn[c].todo : ~Blocked(c, r)
          /\ lock' = c
          /\ Set(c, [conn[c] EXCEPT !.pc = "writing"])
       \/ /\ \E r \in conn[c].todo : Blocked(c, r)
          /\ lock' = lock
          /\ Set(c, Idle)
    /\ UNCHANGED <<setup, refs, cache, reflog, named, tracking, pushes, locals>>

\* std::fs::write opens with truncation...
Truncate(c, r) ==
    /\ conn[c].pc = "writing"
    /\ r \in conn[c].todo
    /\ refs' = [refs EXCEPT ![r] = Torn]
    /\ Set(c, [conn[c] EXCEPT !.pc = "torn", !.at = r])
    /\ UNCHANGED <<setup, lock, cache, reflog, named, tracking, pushes, locals>>

\* ... and then writes.
WriteRef(c) ==
    /\ conn[c].pc = "torn"
    /\ LET r == conn[c].at
       IN  /\ refs' = [refs EXCEPT ![r] = conn[c].new[r]]
           /\ named' = [named EXCEPT ![r] = @ \cup {conn[c].new[r]}]
    /\ Set(c, [conn[c] EXCEPT !.pc = "written", !.updated = TRUE])
    /\ UNCHANGED <<setup, lock, cache, reflog, tracking, pushes, locals>>

\* Mutant: the reflog entry has only the old value.
Record_OldOnly(c) ==
    /\ conn[c].pc = "written"
    /\ LET r == conn[c].at
       IN  /\ reflog' = [reflog EXCEPT ![r] = @ \cup ({conn[c].snap[r]} \ {None})]
           /\ Set(c, [conn[c] EXCEPT !.pc = "writing", !.todo = @ \ {r}, !.at = None])
    /\ UNCHANGED <<setup, refs, lock, cache, named, tracking, pushes, locals>>

\* append_audit and reflog::record, with the client's old value; an entry that
\* cannot be written is left out.
Record(c) ==
    /\ conn[c].pc = "written"
    /\ LET r == conn[c].at
       IN  /\ \/ reflog' = [reflog EXCEPT ![r] =
                     @ \cup {conn[c].new[r]} \cup ({conn[c].snap[r]} \ {None})]
              \/ Faults /\ reflog' = reflog
           /\ Set(c, [conn[c] EXCEPT !.pc = "writing", !.todo = @ \ {r}, !.at = None])
    /\ UNCHANGED <<setup, refs, lock, cache, named, tracking, pushes, locals>>

\* The file cannot be opened, or not written once it is: the update counts
\* as failed, and the others go on.
WriteFails(c, r) ==
    /\ r \in conn[c].todo
    /\ \/ conn[c].pc = "writing"
       \/ Faults /\ conn[c].pc = "torn" /\ conn[c].at = r
    /\ Set(c, [conn[c] EXCEPT !.pc = "writing", !.todo = @ \ {r}, !.at = None])
    /\ UNCHANGED <<setup, refs, lock, cache, reflog, named, tracking, pushes, locals>>

\* invalidate_prefix if anything was written; the lock is dropped on return.
Respond(c) ==
    /\ conn[c].pc = "writing"
    /\ conn[c].todo = {}
    /\ cache' = IF conn[c].updated THEN None ELSE cache
    /\ lock' = None
    /\ Set(c, Idle)
    /\ UNCHANGED <<setup, refs, reflog, named, tracking, pushes, locals>>

\* An error response, refs.lock not obtained within 10 s included, or a
\* broken connection, before refs/update has begun.
Fail(c) ==
    /\ conn[c].pc \in {"listing", "listed", "posting"}
    /\ Set(c, Idle)
    /\ UNCHANGED <<setup, refs, lock, cache, reflog, named, tracking, pushes, locals>>

(***************************************************************************)
(* Commands on the server's disk, and crashes                              *)
(***************************************************************************)

\* Under refs.lock and by rename; the cache is in another process.
LocalWrite(r, new) ==
    /\ locals < MaxLocal
    /\ lock = None
    /\ refs[r] # Torn
    /\ refs' = [refs EXCEPT ![r] = new]
    /\ named' = [named EXCEPT ![r] = @ \cup {new}]
    /\ locals' = locals + 1
    /\ UNCHANGED <<setup, lock, cache, conn, tracking, pushes>>

\* gyt commit [--amend].
LocalCommit(r, new) ==
    /\ r \notin MetaRef
    /\ \/ Parents[new] = {refs[r]} \ {None}
       \/ refs[r] \in Commit /\ Parents[new] = Parents[refs[r]]
    /\ LocalWrite(r, new)
    /\ reflog' = [reflog EXCEPT ![r] = @ \cup {new} \cup ({refs[r]} \ {None})]

\* gyt issue, pr, incident: one more event, and no reflog.
LocalEvent(r, new) ==
    /\ r \in MetaRef
    /\ Parents[new] = {refs[r]} \ {None}
    /\ LocalWrite(r, new)
    /\ UNCHANGED reflog

\* The connections and the cache are gone, the files stay as they are, and
\* the lock file is reclaimed later.
Crash ==
    /\ Faults
    /\ lock' = None
    /\ cache' = None
    /\ conn' = [c \in Client |-> Idle]
    /\ UNCHANGED <<setup, refs, reflog, named, tracking, pushes, locals>>

Request(c) ==
    \/ InfoRefs(c) \/ InfoRefsReply(c) \/ Fail(c)
    \/ \E prune \in BOOLEAN : Fetch(c, prune)
    \/ \E r \in Ref : ListRef(c, r) \/ Truncate(c, r) \/ WriteFails(c, r)
    \/ \E u \in Batch, m \in Mode : Push(c, u, m)
    \/ Evaluate(c) \/ WriteRef(c) \/ Record(c) \/ Respond(c)

Next ==
    \/ \E c \in Client : Request(c)
    \/ \E r \in Ref, new \in Commit : LocalCommit(r, new) \/ LocalEvent(r, new)
    \/ Ttl \/ Crash

Spec == Init /\ [][Next]_vars

(***************************************************************************)
(* Properties                                                              *)
(***************************************************************************)

Truncates(c, r) ==
    conn[c].pc = "writing" /\ conn'[c].pc = "torn" /\ conn'[c].at = r

\* The lock around evaluate and write: when a branch file is truncated for
\* an update that named an old value, it still has that value, and without
\* a lease the new value descends from it.
OldHonoured ==
    [][\A c \in Client, r \in Ref \ MetaRef :
         Truncates(c, r) /\ conn[c].mode # "force" /\ conn[c].snap[r] # None
         => /\ refs[r] = conn[c].snap[r]
            /\ conn[c].mode = "ff" => refs[r] \in Ancestors(conn[c].new[r])]_vars

Known(r) == UNION {Ancestors(x) : x \in named[r]}

\* sign_required: whatever old value a client claims, and in whatever mode,
\* refs/update makes a branch name only signed commits and commits that it
\* had before.
OnlySignedCommits ==
    [][SignRequired =>
         \A c \in Client, r \in Ref \ MetaRef :
            conn[c].pc = "torn" /\ conn'[c].pc = "written" /\ conn[c].at = r
            => Ancestors(refs'[r]) \subseteq Signed \cup Known(r)]_vars

\* The monotonic-append rule for issues, PRs and incidents: what such a ref
\* names extends everything that it has ever named, however pushes from
\* stale clones, forced ones, and local commands are interleaved.  (Without
\* faults: a torn file counts as a ref that does not exist.)
MetadataKept ==
    ~Faults => \A r \in MetaRef : refs[r] \in Commit => named[r] \subseteq Ancestors(refs[r])

\* The file of r is open or was just written, and the entry is still missing.
Replacing(r) == \E c \in Client : conn[c].pc \in {"torn", "written"} /\ conn[c].at = r

\* The reflog keeps what an update replaces, although the entry has the old
\* value that the client sent and not the one on the disk: what a branch has
\* been given by an update or a command is its value or in its reflog, and so
\* is the value that it had when the server started, once its replacement is
\* over.  (Without faults: the entry is written after the ref, and best
\* effort.  With a lease the old value is the tracking ref, and a clone that
\* has none sends none: then the first value may be in no entry.)
TipsRecoverable ==
    ~Faults => \A r \in Ref \ MetaRef :
        /\ named[r] \ {setup.start[r]} \subseteq reflog[r] \cup {refs[r]}
        /\ "lease" \notin Mode /\ ~Replacing(r) => named[r] \subseteq reflog[r] \cup {refs[r]}

\* The comment on the lock in wire_refs_update: concurrent pushes do not
\* silently lose one pusher's history.  (Servers without --allow-force.)
NoLostHistory ==
    [][\A c \in Client, r \in Ref :
         Truncates(c, r) => AncestorsOf(refs[r]) \subseteq Ancestors(conn[c].new[r])]_vars
=============================================================================
