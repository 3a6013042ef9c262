# A TLA+ model of gyt

gyt is a version control system with its own object format, a wire protocol and
a server. This directory models the parts of it in which several processes, or
one process that may be killed, change shared state, and the algorithms that
decide what users see. TLC checks the models on small instances; TLAPS proves
the main safety properties of eight of them for every value of the constants.
`PROJECT.json` lists the components, runs, mutants, source lines, findings,
hazards and theorems. Paths below are relative to `src/src/`.

## The system and its modules

| Part | Source | Modules |
|---|---|---|
| Lock files | `fs_util.rs`, `repo.rs` | FileLock, Mutex |
| Object store, packs, gc | `object/store.rs`, `object/pack.rs`, `cmd/gc.rs` | Objects, GcPush, Packs |
| Refs on the wire, push policy, reflog | `net/server.rs`, `net/refs_policy.rs`, `reflog.rs`, `cmd/push.rs` | WireRefs, GcPush |
| clone, fetch, pull | `cmd/clone.rs`, `cmd/fetch.rs`, `cmd/pull.rs` | Transfer |
| Issues, pull requests, incidents | `issues.rs`, `prs.rs`, `incidents.rs` and their commands | Tracker, AppendLog |
| Server process | `net/server.rs`, `net/h2_server.rs`, `net/h3_server.rs`, `cmd/serve.rs` | Serve |
| Response cache, rate limiter, audit log | `net/cache.rs`, `net/rate_limit.rs`, `net/refs_policy.rs` | ResponseCache, RateLimit, Audit |
| HTTP client | `net/http.rs` | HttpClient |
| Commands on a work tree | `cmd/add.rs`, `commit`, `switch`, `reset`, `restore`, `branch`, `tag`, `merge`, `cherry_pick`, `stash`, `clean`, `rm`, `index.rs`, `workdir.rs` | LocalRepo |
| Rebase, history rewriting, worktrees | `cmd/rebase.rs`, `cmd/getthefuckoutofmyrepo.rs`, `cmd/worktree.rs` | Rebase, Purge, Worktree |
| Algorithms | `diff.rs`, `merge3.rs`, `cmd/blame.rs`, `cmd/log.rs`, `ignore.rs` | Lines, History, Ignore |

The parts meet in four places. Every command and refs/update serialise on
refs.lock. objects/have and gc serialise on objects.lock. gc reads the refs and
reflogs that all the others write. The caches answer for refs that other
processes change. GcPush composes pushes with gc, WireRefs the clients with the
handlers, the cache and local commands, Tracker the clones with the server. The
locks are abstract mutexes outside FileLock, which `QuietRefinesMutex` justifies.

Conventions: an action is one step of the code between two points where another
process can see or stop it, named after the function or the write. An operator
`X_Something` whose comment says "Mutant" is a wrong variant of `X`, which no
specification uses. A fault or a configuration that differs between behaviours
(`faults`, `setup`, `kind`, `setting`, `area`, `query`) is a variable chosen in
`Init` that never changes, so one run covers several.

**FileLock**: `FileLock::acquire`, `try_reclaim_stale` and `Drop`, one action per
system call. `owner` in the directory entry stands for the inode. `tick` numbers
the writes to lock files and `horizon` separates those older than `STALE_AFTER`.
Processes may be killed, pids come back, stamps fail or come late.
**Mutex** is what a lock promises.

**Objects** is the object graph and the walks over it. **GcPush** composes clients
that push (`InfoRefs` .. `RefsUpdate`) with gc (`GcExpire` .. `GcEnd`); a loose
object carries its mtime, gc may be killed at any step and an upload may lose
entries. **Packs** refines the packing: batches, the .pack and its .idx, the sweep of
packs without an index, and readers that hold no lock.

**WireRefs** is the refs of one served repository. info/refs lists one ref after
the other and fills the cache afterwards; refs/update evaluates a batch under
refs.lock, then truncates, writes and records each ref; local commands write by
rename. With `Faults` the server is killed or a write fails half-way. `MetaRef` are
the refs of issues, pull requests and incidents.

**Transfer** is the object walk of clone, fetch and pull, batch by batch, with
`--depth`, the shallow file and the refs written at the end; the client may be
killed and go on later, and the server moves on, or prunes, meanwhile.

**Tracker** is issues, pull requests and incidents in the clones and on the server.
A command is one step under refs.lock; `pr merge` and `pr ci-run` read twice and are
two. A push reads and is evaluated later or lost. **AppendLog** is what the server
promises: no item disappears and each log only grows.

**Serve** is a server process: serve.lock, its listeners, the permits, connections
and requests, the blocking closure of a handler apart from the task that waits for
it, and the shutdown with its time limit. **ResponseCache** splits insert at its
eviction loops. **RateLimit** has the clock read before the mutex is taken, so
buckets see times out of order; tokens are in thousandths. **Audit** is one append
with a rotation, rename by rename. **HttpClient** is the pooled connection, the one
retry and the framing of answers; the server at the other end is external.

**LocalRepo**: a command decides under the repository lock what to write and puts
its writes into `todo` in the order of the code; each write is a step, and a kill
may come between any two. A file is one content; `Merged` and `Markers` stand for
what merge3 makes. **Rebase** has linear histories, where a commit is the
sequence of changes that leads to it, and lets any replay conflict. **Purge**
has commits that are their content, so that a rewrite can be compared with the
original. **Worktree** is `worktree add` and `remove` write by write, run by
several shells beside switches of the main work tree and users who edit.

**Lines** is the Myers script, hunks, merge3 and blame as the loops of the code;
**History** the walk, order, path filter and graph lanes of log; **Ignore** the parser
and matcher of ignore files. Each is compared with a reference definition.

`MC_X` gives constants their values. `MC_Gc`, `MC_Wire`, `MC_Server` and `MC_Local`
check several modules in one run: `part` says which one moves, while the others stay
in an initial state. `*Proofs` hold the theorems.

## Runs

| Run | Properties | Shows |
|---|---|---|
| `MC_FileLock` | MutexSpec, ReclaimJustified, OrphanReclaimed, AcquireReturns | in quiet behaviours the lock file is a mutex; with all faults, how a stamped lock file can be lost, that a killed holder's file is removed, and that acquire returns |
| `MC_Gc` | TipsPresent, KeepReachable, GraceCoversPush | gc keeps what is reachable, no ref dangles, and the grace covers a push counted from its oldest object |
| | ReadFinds | a reader beside packing and the sweep finds what was stored |
| | RefsFollowable, ShallowExact | after any kill a client's refs lead to objects it has; `--depth` brings exactly the commits it says |
| | OriginRecoverable, NothingSwallowed | a rebase that stops and goes on loses neither the old branch nor a commit |
| `MC_Wire` | OldHonoured, OnlySignedCommits, TipsRecoverable, MetadataKept | the policy's verdict still holds when the file is written, sign_required holds in all modes, and without faults no tip and no event is lost |
| | RateBound, OwnAnswerOnce, AuditSuffix | no key gets more than its rate and a counted number of bursts; a call gets its own answer and no request is handled twice; the audit log is a gapless suffix |
| `MC_Server` | OneServerHandles, ShutdownEnds | one process handles at a time, and a server that is told to stop exits |
| | CapHeld, InsertReturns | the cache keeps its limits, the byte limit up to one known miscount, and an insert ends |
| `MC_Tracker` | StateFollowsLog, MergedIsFinal, ServerOrdered, LogSpec, OneCommandPushes | items and their logs agree everywhere, a merge is final, the server implements AppendLog, and the commands are not laxer than the server's check |
| `MC_Local` | HistoryKept, HeadResolves, MarkersAnnounced, WorkKept | killed anywhere, no command loses a tip that a reflog recorded, a resolvable HEAD, work outside the named exceptions, or the note that markers are in the files |
| | BranchTakenOnce, RemoveKeepsWork, RestKept | worktree add takes a free branch, remove keeps edits it could see, and a purge takes out paths and nothing else |
| | DiffExact, MergeExact, BlameExact, LogExact, IgnoreExact | the algorithms agree with their reference definitions |

Where the code disagrees with a statement about it, a run shows the disagreement:

| Run | Property | What happens |
|---|---|---|
| `MC_FileLock_race` | OneHolder | two reclaimers of a dead holder's file; the slower unlinks the new one |
| `MC_GcPush_orphans` | PromptPushComplete | an old orphan that is uploaded again keeps its mtime and is pruned |
| `MC_WireRefs_lost` | NoLostHistory | two first pushes of a branch; the second replaces the first |
| `MC_Tracker_numbers` | NumbersUnique | a clone that fetched issue 1 numbers its first own issue 1 again and replaces the ref |
| `MC_Rebase_onto` | OnTopOfUpstream | --continue builds on the old branch |
| `MC_Purge_history` | HistoryPurged | a child is rewritten before its parent and keeps the old parent, with the file in it |

Some properties are conditional, because the code does not give the rest:

- `MutexSpec` needs a quiet behaviour. Apart from the race above, a live holder whose
  pid could not be written is reclaimed after `STALE_AFTER`.
- `OrphanReclaimed` excludes reused pids: a process that is given the pid of a
  killed holder keeps its lock file in place.
- `MetadataKept` excludes faults: a metadata ref that a crash left empty reads as a
  ref that does not exist, which any blob may follow.
- `TipsRecoverable` excludes faults: the reflog entry follows the ref and is best
  effort. A value that the branch was given is in the reflog or is its present value.
  For the value before the first update this holds only between updates, since the
  entry comes after the write, and only if no lease is asked for: `push
  --force-with-lease` in a clone without a tracking ref sends no old value
  (`cmd/push.rs:161-171`), the server then compares nothing (`refs_policy.rs:373`), and
  the entry has no old value to record.
- `RateBound` allows for `Skew`, the longest wait for the mutex. The limits come from the
  environment and nothing makes a bucket fill up within `MaxIdle`. For a key whose
  bucket does (`FillsUp`) the bound is the capacity and the refill. For any other, each
  sweep that drops its bucket gives one more capacity; `dropped` counts those, and the
  property says that they are at least `MaxIdle - Skew` apart.
- `OwnAnswerOnce`: a body without framing ends with the connection, and may lack its
  last chunks unnoticed.
- `AuditSuffix` loses the suffix, not the order, when a rename fails.
- `OneServerHandles` excepts `--allow-multiprocess` and a shutdown that ran out of its
  30 seconds.
- `CapHeld` follows `doubled`: an insert that replaces an entry and then evicts it
  subtracts its bytes twice. From then until the cache is emptied the count may be too
  low and the bodies above `max_bytes`. Otherwise the count is exact and the cap holds.
- `ServerOrdered` needs steady clocks: the first push of an item is not checked.
- `OneCommandPushes` is about one command on an up-to-date clone. With several the
  server sees the net change only, which it may refuse (`incidents.rs:686`).
- `NothingSwallowed` and `OriginRecoverable` hold up to the first kill: a --continue
  killed between REBASE_TODO and the ref forgets the resolved commit.
- `ShallowExact` says which commits are marked and that every commit with a missing
  parent is; a marked commit may have all its parents.
- `HistoryKept` excepts what no reflog has. A clone writes none, so a deletion can take the
  last trace of a cloned tip along; and `reflog::record` swallows its errors
  (`reflog_swallow`), so an amend or a reset can lose the commit it moves away from. The
  property says that these are the only steps that lose one.
- `HeadResolves` is about branches whose names the commands accept. Another one, which a
  clone can bring and put HEAD on, may be deleted while HEAD names it.
- `WorkKept` excepts a tracked file that is ignored, which stash does not save, and staged
  work, which pop and apply overwrite.
- `DiffExact` excepts, and pins down, two cases: a kept line whose newline comes or goes,
  and the header of a file without lines.
- `RefsFollowable` excepts a server that prunes between listing and shipping.
- `ReadFinds` excepts the read that tests `path.exists()` just before gc unlinks.
- `BranchTakenOnce` is about add: a switch of the main work tree asks no worktree.
- `RemoveKeepsWork` is about what was there when remove looked, and a worktree whose
  branch is gone counts as clean.
- `MergeExact` is about merges that end and edits that do not begin inside a region of
  the other side; `BlameExact` compares histories that only insert lines;
  `IgnoreExact` excepts the patterns with `**` that `Misread` names.

### Bounds

- FileLock: two processes, one with two threads, so that a second thread of the same
  pid and a thread of another one compete; `MaxTick` lets each actor create and stamp
  at least once after a reclaim.
- GcPush: a commit and its child (in the violation also a tree they share), two pushers
  with one push each, and a clock that passes the grace: an object of one push can be
  the old orphan of the other. Pushers are symmetric.
- Packs: three objects packed together or one by one, two runs of gc, one reader.
- Transfer: a line of three commits and a merge, two annotated tags, depths 0 to 3, a
  server that grows, has everything, or is forced back and prunes; two fetches, two kills.
- Rebase: a branch of two changes over a common base, two rebases (so that a second one
  starts while the first is paused), one kill.
- WireRefs: two clients with three requests between them, commits with a fork, one local
  command. One client lists while the other updates, the smallest interleaving with a
  stale listing; the third request lets one of them fetch first, so that a lease has
  something to compare. Branches start without a value, at the root and at a child.
- RateLimit: an address whose bucket fills up within `MaxIdle` and a token whose bucket
  does not, a map with one place, two workers and a clock that reaches `MaxIdle`, so that
  a bucket can be swept full or not. HttpClient: two callers, three requests, a body of each framing and
  one that is too large. Audit: files of two lines and three generations, eleven lines, so
  that the oldest generation falls off.
- Serve: two processes with different listeners and tokens, two connections, one permit.
  ResponseCache: five keys and bodies of one or two bytes; two places without a byte limit,
  and five places with eight bytes, which four large bodies fill: both eviction loops run,
  also after a replacement was counted twice.
- Tracker: two clones and one number, three commands, four pushes and fetches, two clock
  values: an item is made, closed by one clone and merged by the other, with a fetch
  between. Clones are symmetric. Clocks that are set back are tried with issues only.
- LocalRepo: two files, one ignored, two branches in four starting histories, one of them
  cloned, and a clone whose HEAD names a branch that the commands refuse; three or four
  commands of one area, one kill or lost reflog entry. Purge: four repositories with a
  symbolic link, two calls. Worktree: two shells, two directories and one inside `.gyt`,
  three commands, two edits, moves or kills.
- Lines: files of up to five lines over two different lines. History: every history of
  four commits with up to two parents. Ignore: every pattern of up to five symbols, and
  three lines out of a dozen, against paths of up to three components.

### Fairness

- FileLock: live threads take their steps, the clock moves, a critical section ends:
  `acquire` sleeps and polls, and each caller drops its lock on every return.
- ResponseCache: an insert is one call that holds the mutexes, so it continues.
- Serve: threads are scheduled and handlers end. Nothing is assumed of clients.

All of it is weak fairness. `CHECK_DEADLOCK FALSE` stands where the bounds, or a system
that has nothing to do, end a behaviour.

## Proofs

Every theorem is for all values of the constants, so for any number of processes,
clients, refs, objects and requests. The constants are assumed to be what the code
makes them (graphs map objects to sets of objects, batches name refs, special values are
distinct, bounds are numbers); TLC evaluates these assumptions in the runs. The
inductive invariants were checked with TLC before they were proved. Each proof has one
lemma or step for each action.

**FileLockProofs.** For the quiet case (no crash, no failed and no late stamp) the
invariant says that the directory entry belongs to the only actor in its critical
section, that a file with no pid is too young to be stale, and that whoever is past
`Check` has a marker of an older file that is gone, so that nobody reaches `Unlink`. From
it: `QuietMutualExclusion` and `QuietRefinesMutex`. With all faults, `ReclaimIsJustified`
rests on an invariant that orders the mtimes of markers and of the file.

**GcPushProofs.** `StoreInv` has four parts: who has objects.lock; gc's marks are those
of the present store and refs while it holds both locks, and the batch it unlinks is
packed; the upload of a push is fixed between its computation and objects/have; and,
until the oldest object of a push is `Grace` old, what it stored is packed or loose and
no older than that. The last part is not inductive without the first two.
`ReachableIsKept`, `NoDanglingRef` and `GraceIsEnough` follow.

**WireRefsProofs.** `WireInvariant` says that the connection in the middle of
refs/update has refs.lock, and that for each ref it has still to write the policy's
verdict is what it would be now. `OldIsHonoured`, `OnlySigned` and, without faults,
`MetadataIsKept` follow. `TipsAreRecoverable` needs two more invariants. `EntryInv`: a
value the branch was given is in the reflog, or its writer is about to record it.
`FirstInv`: the value before the first update is in the reflog, or is the old value that
the update under way has named, or the branch is untouched, which means that no
listing, no cached response and no client knows another value. Only the last part
explains why the first update to come names the right old value.

**TrackerProofs.** `ItemsAgree` is inductive with `TypeCorrect`, which also says that a
job between its two reads belongs to a pull request: then every event a command appends
is a note or leads to the state written with it, and none but a note or a merge
follows a merge (`MergeIsFinal`). `ServerIsAppendLog` is the refinement of AppendLog and
follows from the server's check alone. `OneCommandIsPushable` compares the commands with
that check. `ServerIsOrdered` needs `OrderInv`: a log that only its maker can have seen
was written by one clock and is in order.

**RateLimitProofs.** `RateHolds` rests on `KeyInv`: what a bucket has given and still
holds is at most its capacity, the counted bursts and what was refilled up to
`last_refill`, and a key without a bucket has not been given more than it could have by
now, less the skew. Of the limits it assumes only that they are numbers, and of the skew
that twice of it is at most `MaxIdle` (five minutes against a wait for a mutex).

**HttpClientProofs.** `HttpInv` has four parts: the types; `OwnInv`, that every call has
its own request and a connection that neither another call nor the pool has; `SentInv`,
that a request is on one connection at most, and unhandled while it is there or not yet
written; and `WireInv`, that a connection carries only the request of its call or a rest
of the answer to it, which continues what was read so far, and a pooled one carries
nothing. `OwnAnswers` needs all four: a retry is safe because an unwritten request is
nowhere, and a pooled connection is safe because nothing is left on it.

**ServeProofs.** `ServeInv` says who can have serve.lock, that no listener accepts once
the runtime goes down, and that closures outlive the lock only after a time-out. A
listener with a runtime of its own has no closures left once its thread has ended.
`OneServer` follows.

**WorktreeProofs.** `WorktreeInv` says that whoever is inside add has refs.lock, that its
branch is still free when the entry's HEAD is written, that no edit of a user is in the
directory it fills, and that a remove past its look saw no edit in a file that is not
ignored. `TakenOnce` and `WorkIsKept` are action properties that follow from it, one
case for each action.

Only model-checked, and why:

- liveness (OrphanReclaimed, AcquireReturns, InsertReturns, ShutdownEnds): the prover has
  no liveness under fairness;
- what recursive definitions and folds compute (DiffExact, MergeExact, BlameExact,
  LogExact, IgnoreExact, RestKept, ReadFinds, AuditSuffix, CapHeld, ShallowExact):
  this takes induction over data, which the prover cannot instantiate;
- OriginRecoverable, NothingSwallowed, RefsFollowable, HistoryKept, HeadResolves,
  MarkersAnnounced and WorkKept have no proof so far.

## Where comments and code differ

Met while modelling, besides the runs above; the models follow the code.

- Merge: the comment at `cmd/merge.rs:295-302` on the order of writes, and those at
  `cmd/reset.rs:144-146` and `172-173`, do not hold. A cherry-pick with tree conflicts
  leaves no marker. commit and status neither read nor clear MERGE_HEAD. merge3 drops an
  edit that begins inside a region the other side replaced, and does not return on a
  pure insertion above a base line (`merge3.rs:131-143`, `i += del` with `del = 0`).
- Diff: identical files above MAX_DIFF_LINES are shown as deleted and inserted. The
  markers of a missing newline, "matching git's unified-diff format" (`diff.rs:395-397`),
  do not when a kept last line gains or loses its newline: it is printed once, with a
  marker if either file lacks the newline (414-420). An empty file has `1,0` in the header
  where the format has `0,0`.
- Blame: lines that a later commit deleted shift the line map (`cmd/blame.rs:207-209`).
- Log: "Ties broken by descending timestamp" does not hold.
- Ignore: `a/**/b` matches `ab/b`, `**` alone matches nothing, and a second `**` takes the
  first away. Tracked files that are ignored always count as modified.
- Stash: pop and apply "refuse if any tracked-or-untracked workdir file would be
  overwritten with different content" (`cmd/stash.rs:269-270`), but compare with the index,
  so staged work is overwritten. A tracked file that is ignored is not stashed, and is
  reset all the same.
- Branch: a name that the commands refuse may be deleted while HEAD names it
  (`cmd/branch.rs:157-169`), and a clone can put HEAD there (`cmd/clone.rs:204-207`).
- Reflog: clone, branch and worktree write branches without one.
- Clone: the comment of write_shallow says that the parents of a marked commit are absent
  (`cmd/clone.rs:528-531`); another ref may have brought them.
- Cache: the "hard cap on cumulative body bytes" (`net/cache.rs:29-35`) is exceeded after
  an entry that is replaced was evicted too, because its bytes are subtracted twice.
- Blame: an older version that cannot be read counts as empty (`cmd/blame.rs:166`), so its
  lines go to the commit after it.
- Purge: an argument that is a symbolic link purges what it leads to, and the link stays
  (`cmd/getthefuckoutofmyrepo.rs:67`); annotated tags are not rewritten, HEAD's branch gets two reflog lines where
  "exactly one" is promised (355-356), and entries recorded again pin the old tips for gc.
- Worktree: a refused or failed add leaves the branch and the directory; a killed remove leaves an
  entry that cannot be removed; a second, slow remove can delete a worktree that was
  added again; `Repo::open` does not follow the `.gyt` file of a worktree.
- Transfer: fetch in a shallow clone brings the whole history and leaves `.gyt/shallow`;
  push reads loose files only, after gc --pack too (`cmd/push.rs:362`).
- Pull requests: the comment at `prs.rs:548-550` lists the changes of state that a push may
  make and leaves out closed to merged, which the check accepts.
- Policy: the zero id is written as a value (`net/refs_policy.rs:455`).
- Audit: "any rename failure aborts the rotation" is not so; failures are ignored.
- HTTP client: the header promises a reconnect when reading fails and an empty body
  for an unframed keep-alive answer; the code retries failed writes only and refuses the
  other. "a single client serializes its requests": concurrent calls have connections
  of their own.
- Rate limiter: the header says that full and idle buckets are dropped; `gc_idle` looks at
  idleness only.
- Server: a shutdown cuts responses under way, and the join of the h2 listener has no
  time limit of its own.

## Not modelled

- Byte formats, hashing, compression and signatures: ids and sets stand for them.
- gc's other roots (the index, the stash, the sticky heads); the index's stat cache.
- Rename detection in merges, character classes in ignore files, the filters and the
  output of log.
- TLS, tickets, the REST API, metrics, the repository index (a map that is rebuilt as
  a whole), the CI sandbox (an external engine), and the command line.
- That push reads loose objects only; deleting a ref over the wire, which no client sends.
