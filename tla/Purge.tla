------------------------------- MODULE Purge --------------------------------
(***************************************************************************)
(* gyt getthefuckoutofmyrepo: the paths named on the command line leave    *)
(* the index, every commit that a ref reaches, and the work tree, in that  *)
(* order.  The command holds the repository lock; it may be killed between *)
(* any two writes, and run again.                                          *)
(*                                                                         *)
(* Objects are content addressed, so an object IS its content: a commit is *)
(* a record of its message, its tree and its parents, which are records    *)
(* themselves.  Objects are never deleted here, and need no store.         *)
(***************************************************************************)
EXTENDS Integers, Sequences, FiniteSets

LOCAL INSTANCE SequencesExt

CONSTANTS
    PurgeFile,  \* the paths of files
    Canonical,  \* for each path that can be named: what it is once links are followed
    Covers,     \* and the files at or below that
    RefName,    \* the refs under heads, tags, remotes, issues, prs, incidents, stash
    Repository, \* repositories the command starts in: [refs, staged, present]
    MaxPurges   \* bound on the number of calls

PurgeTarget == DOMAIN Canonical

ASSUME PurgeAssumption == Covers \in [PurgeTarget -> SUBSET PurgeFile] /\ MaxPurges \in Nat

VARIABLES
    before,     \* the repository as it was
    tip,        \* what each ref that exists names
    staged,     \* the paths in the index
    present,    \* the files of the work tree
    reflogged,  \* the reflog entries, [ref, old, new]
    purge       \* the running call: its targets, seen, what is left to do, and
                \* whatever any call up to now was told to remove

purgeVars == <<before, tip, staged, present, reflogged, purge>>

NoPurge(n, T) ==
    [pc |-> "idle", targets |-> {}, heads |-> <<>>, seen |-> <<>>, todo |-> {}, count |-> n, named |-> T]
PurgeEnded == NoPurge(purge.count, purge.named)

PurgeInit ==
    /\ before \in Repository
    /\ tip = before.refs
    /\ staged = before.staged
    /\ present = before.present
    /\ reflogged = {[ref |-> r, old |-> tip[r], new |-> tip[r]] : r \in DOMAIN tip}
    /\ purge = NoPurge(0, {})

Covered(T) == UNION {Covers[t] : t \in T}

\* What the walk collects: the commits that the seeds reach through parents,
\* a tag leading to its target.
RECURSIVE CommitsFrom(_)
CommitsFrom(S) ==
    LET next == UNION {CASE o.kind = "commit" -> ToSet(o.parents)
                         [] o.kind = "tag" -> {o.target}
                         [] OTHER -> {} : o \in S}
    IN  {o \in S : o.kind = "commit"} \cup (IF next = {} THEN {} ELSE CommitsFrom(next))

\* An entry goes when its path is a target; what is below a directory goes
\* with the entry of the directory.
rewrite_tree_entries(tree, T) == tree \ Covered(T)

\* Mutant: a parent that has not been rewritten yet is left out.
NewParents_Seen(c, seen) ==
    LET known == SelectSeq(c.parents, LAMBDA p : p \in DOMAIN seen)
    IN  [i \in 1..Len(known) |-> seen[known[i]]]

\* A parent that has been rewritten is replaced.
NewParents(c, seen) ==
    [i \in 1..Len(c.parents) |->
        IF c.parents[i] \in DOMAIN seen THEN seen[c.parents[i]] ELSE c.parents[i]]

RewrittenCommit(c, T, seen) ==
    [c EXCEPT !.tree = rewrite_tree_entries(@, T), !.parents = NewParents(c, seen)]

\* The loop over the stack: the keys of a HashMap, which come in any order,
\* and above them the parents that were pushed.  A commit is rewritten when
\* it is popped first, and its parents that are not are pushed; popped again
\* it is skipped.  The budget bounds the pops.  The result is the set of all
\* outcomes.
RECURSIVE RewriteLoop(_, _, _, _, _)
RewriteLoop(keys, pushed, seen, T, budget) ==
    LET skipped == keys \cap DOMAIN seen
        Pop(c, k, p) ==
            LET new == [o \in DOMAIN seen \cup {c} |->
                           IF o = c THEN RewrittenCommit(c, T, seen) ELSE seen[o]]
            IN  IF c \in DOMAIN seen THEN RewriteLoop(k, p, seen, T, budget - 1)
                ELSE RewriteLoop(k, p \o SelectSeq(c.parents, LAMBDA q : q \notin DOMAIN new),
                                 new, T, budget - 1)
    IN  CASE budget < 0 -> {[complete |-> FALSE, seen |-> seen]}
          [] budget >= 0 /\ pushed # <<>> -> Pop(Last(pushed), keys, Front(pushed))
          [] budget >= 0 /\ pushed = <<>> /\ skipped # {} ->
                RewriteLoop(keys \ skipped, <<>>, seen, T, budget - Cardinality(skipped))
          [] budget >= 0 /\ pushed = <<>> /\ skipped = {} ->
                IF keys = {} THEN {[complete |-> TRUE, seen |-> seen]}
                ELSE UNION {Pop(c, keys \ {c}, <<>>) : c \in keys}

WalkBudget(n) == 2 * n + 16

\* The arguments exist, both confirmations are given, and the index is
\* written without the paths named: an entry goes when its own path is one.
\* The argument of a symbolic link stands for what the link leads to.
PurgeBegin(T) ==
    /\ purge.pc \in {"idle", "done"}
    /\ purge.count < MaxPurges
    /\ T # {}
    /\ \A t \in T : Covers[t] \cap present # {}
    /\ staged' = staged \ {Canonical[t] : t \in T}
    /\ purge' = [NoPurge(purge.count + 1, purge.named \cup T) EXCEPT !.pc = "walk", !.targets = T]
    /\ UNCHANGED <<before, tip, present, reflogged>>

\* Nothing but objects is written.  A walk over budget refuses to go on.
RewriteHistory ==
    /\ purge.pc = "walk"
    /\ LET commits == CommitsFrom({tip[r] : r \in DOMAIN tip})
       IN \E w \in RewriteLoop(commits, <<>>, <<>>, purge.targets, WalkBudget(Cardinality(commits))) :
            LET moving == {r \in DOMAIN tip : tip[r] \in DOMAIN w.seen}
            IN  purge' = IF w.complete
                         THEN [purge EXCEPT !.pc = "refs", !.seen = w.seen, !.todo = moving,
                                            !.heads = [r \in moving |-> tip[r]]]
                         ELSE PurgeEnded
    /\ UNCHANGED <<before, tip, staged, present, reflogged>>

Breadcrumb(r) == [ref |-> r, old |-> purge.heads[r], new |-> purge.seen[purge.heads[r]]]

\* write_ref, then the reflog entry, for each ref whose tip was rewritten.
UpdateRef(r) ==
    /\ purge.pc = "refs"
    /\ r \in purge.todo
    /\ tip' = [tip EXCEPT ![r] = purge.seen[purge.heads[r]]]
    /\ \/ /\ reflogged' = reflogged \cup {Breadcrumb(r)}
          /\ purge' = [purge EXCEPT !.todo = @ \ {r}]
       \/ /\ reflogged' = reflogged                   \* killed between the two
          /\ purge' = PurgeEnded
    /\ UNCHANGED <<before, staged, present>>

\* expire_reflog with 0 days drops every entry of every log ...
ExpireReflog ==
    /\ purge.pc = "refs"
    /\ purge.todo = {}
    /\ reflogged' = {}
    /\ purge' = [purge EXCEPT !.pc = "record", !.todo = DOMAIN purge.heads]
    /\ UNCHANGED <<before, tip, staged, present>>

\* ... and the moves of this call are recorded again.
RecordAgain(r) ==
    /\ purge.pc = "record"
    /\ r \in purge.todo
    /\ reflogged' = reflogged \cup {Breadcrumb(r)}
    /\ purge' = [purge EXCEPT !.todo = @ \ {r}]
    /\ UNCHANGED <<before, tip, staged, present>>

HistoryRewritten ==
    /\ purge.pc = "record"
    /\ purge.todo = {}
    /\ purge' = [purge EXCEPT !.pc = "remove", !.todo = purge.targets]
    /\ UNCHANGED <<before, tip, staged, present, reflogged>>

\* remove_dir_all or remove_file, one target after the other; a target that
\* went with another one is an error, which ends the call.
RemoveTarget(t) ==
    /\ purge.pc = "remove"
    /\ t \in purge.todo
    /\ present' = present \ Covers[t]
    /\ purge' = IF Covers[t] \cap present = {} THEN PurgeEnded
                ELSE [purge EXCEPT !.todo = @ \ {t}, !.pc = IF purge.todo = {t} THEN "done" ELSE @]
    /\ UNCHANGED <<before, tip, staged, reflogged>>

KillPurge ==
    /\ purge.pc \in {"walk", "refs", "record", "remove"}
    /\ purge' = PurgeEnded
    /\ UNCHANGED <<before, tip, staged, present, reflogged>>

PurgeNext ==
    \/ \E T \in SUBSET PurgeTarget : PurgeBegin(T)
    \/ RewriteHistory
    \/ \E r \in RefName : UpdateRef(r) \/ RecordAgain(r)
    \/ ExpireReflog \/ HistoryRewritten \/ KillPurge
    \/ \E t \in PurgeTarget : RemoveTarget(t)

PurgeSpec == PurgeInit /\ [][PurgeNext]_purgeVars

(***************************************************************************)
(* Properties                                                              *)
(***************************************************************************)

\* A history with everything that was ever named taken out of its trees.
RECURSIVE Stripped(_)
Stripped(o) ==
    IF o.kind # "commit" THEN o
    ELSE [o EXCEPT !.tree = @ \ Covered(purge.named),
                   !.parents = [i \in DOMAIN @ |-> Stripped(@[i])]]

Missing(f) == f \in before.present \ present

\* The rewrite takes out paths and nothing else (the loop over the stack,
\* getthefuckoutofmyrepo.rs:264-312): whatever order the commits come in and
\* wherever the command is killed, each ref names the history it named, with
\* the same commits, merges and every file that no call was told to remove.
\* And the work tree comes last
\* (the comment M13, 373-376): once a file has gone from it, no ref that names
\* a commit has the file in its tree, and every ref that the call moved has
\* its move in the reflog.
RestKept ==
    /\ \A r \in DOMAIN tip : Stripped(tip[r]) = Stripped(before.refs[r])
    /\ (\E f \in PurgeFile : Missing(f)) =>
          /\ \A r \in DOMAIN tip, f \in PurgeFile :
                tip[r].kind = "commit" /\ Missing(f) => f \notin tip[r].tree
          /\ purge.pc \in {"remove", "done"} =>
                \A r \in DOMAIN purge.heads : Breadcrumb(r) \in reflogged

\* "Removes files from the working directory, the index, and the entire
\* history of the repository" (getthefuckoutofmyrepo.rs:20-21): when the
\* command has finished, no commit that a ref reaches has a target in its
\* tree.
HistoryPurged ==
    purge.pc = "done" =>
        \A c \in CommitsFrom({tip[r] : r \in DOMAIN tip}) : c.tree \cap Covered(purge.targets) = {}
=============================================================================
