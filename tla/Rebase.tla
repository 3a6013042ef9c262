------------------------------- MODULE Rebase -------------------------------
(***************************************************************************)
(* gyt rebase <upstream>, --continue and --abort on one branch, and gyt    *)
(* commit between them.  Histories are linear: a commit is the sequence of *)
(* the changes (messages) from the root to it, and its parent is the       *)
(* sequence without the last one.  Whether a replay conflicts is open.     *)
(*                                                                         *)
(* A command holds refs.lock from its beginning to its end, so commands do *)
(* not interleave, but one can be killed between any two of its writes.    *)
(***************************************************************************)
EXTENDS Naturals, Sequences, SequencesExt

CONSTANTS
    Change,         \* what a commit does
    InitialBranch,  \* the branch, a commit
    Upstream,       \* the commits one rebases onto
    ByHand,         \* the changes that gyt commit is called with
    Absent,         \* no such file
    Conflicted,     \* a work tree with conflict markers
    MaxLen,         \* bound on the length of the branch
    MaxStart,       \* bound on the rebases started
    MaxCrash        \* bound on the commands killed

Commits == UNION {[1 .. n -> Change] : n \in 1 .. MaxLen}
Todo == UNION {[1 .. n -> Change] : n \in 0 .. MaxLen}

ASSUME HistoryAssumption ==
    /\ MaxLen \in Nat /\ MaxStart \in Nat /\ MaxCrash \in Nat
    /\ InitialBranch \in Commits
    /\ Upstream \subseteq Commits
    /\ ByHand \subseteq Change
    /\ Absent \notin Todo /\ Conflicted \notin Todo

VARIABLES
    branch,     \* the ref HEAD points to
    workdir,    \* the commit whose tree is checked out and staged, or Conflicted
    head_file, onto_file, todo_file,    \* REBASE_HEAD, REBASE_ONTO, REBASE_TODO
    reflogged,  \* the commits in the reflog of the branch
    cmd,        \* the command that runs
    origin,     \* history: the branch where the last rebase began
    owed,       \* history: what was left to replay at its first conflict
    starts, crashes

files == <<head_file, onto_file, todo_file>>
bounds == <<origin, owed, starts, crashes>>
rebaseVars == <<branch, workdir, files, reflogged, cmd, bounds>>

Idle == [pc |-> "idle", cont |-> FALSE, cursor |-> <<>>, todo |-> <<>>,
         prev |-> <<>>, onto |-> <<>>]

RebaseInit ==
    /\ branch = InitialBranch
    /\ workdir = InitialBranch
    /\ head_file = Absent /\ onto_file = Absent /\ todo_file = Absent
    /\ reflogged = {InitialBranch}
    /\ cmd = Idle
    /\ origin = Absent
    /\ owed = <<>>
    /\ starts = 0
    /\ crashes = 0

Goto(pc) == cmd' = [cmd EXCEPT !.pc = pc]

\* merge_base and commits_between: what the branch has and upstream has not.
fork_point(c, d) == LongestCommonPrefix({c, d})
commits_between(base, tip) == SubSeq(tip, Len(base) + 1, Len(tip))

(***************************************************************************)
(* gyt rebase <upstream>                                                   *)
(***************************************************************************)

\* The branch is behind: it is moved first.
FastForward(t) ==
    /\ cmd.pc = "idle"
    /\ starts < MaxStart
    /\ branch # t /\ IsPrefix(branch, t)
    /\ branch' = t
    /\ cmd' = [Idle EXCEPT !.pc = "moved", !.prev = branch, !.cursor = t]
    /\ starts' = starts + 1
    /\ UNCHANGED <<workdir, files, reflogged, origin, owed, crashes>>

Materialize ==
    /\ cmd.pc = "moved"
    /\ workdir' = cmd.cursor
    /\ Goto("log")
    /\ UNCHANGED <<branch, files, reflogged, bounds>>

\* The branch has diverged: the tree of upstream is checked out.
Start(t) ==
    /\ cmd.pc = "idle"
    /\ starts < MaxStart
    /\ ~IsPrefix(branch, t)
    /\ fork_point(branch, t) # <<>>
    /\ workdir' = t
    /\ cmd' = [Idle EXCEPT !.pc = "replay", !.cursor = t, !.prev = branch, !.onto = t,
                           !.todo = commits_between(fork_point(branch, t), branch)]
    /\ origin' = branch
    /\ starts' = starts + 1
    /\ UNCHANGED <<branch, files, reflogged, owed, crashes>>

ReplayClean ==
    /\ cmd.pc = "replay"
    /\ cmd.todo # <<>>
    /\ Len(cmd.cursor) < MaxLen
    /\ cmd' = [cmd EXCEPT !.cursor = Append(@, Head(cmd.todo)), !.todo = Tail(@)]
    /\ workdir' = Append(cmd.cursor, Head(cmd.todo))
    /\ UNCHANGED <<branch, files, reflogged, bounds>>

\* A first conflict saves the state before the markers are written; under
\* --continue replay_one has written them when it returns.
ReplayConflict ==
    /\ cmd.pc = "replay"
    /\ cmd.todo # <<>>
    /\ workdir' = IF cmd.cont THEN Conflicted ELSE workdir
    /\ Goto("save_head")
    /\ owed' = IF cmd.cont THEN owed ELSE cmd.todo
    /\ UNCHANGED <<branch, files, reflogged, origin, starts, crashes>>

SaveHead ==
    /\ cmd.pc = "save_head"
    /\ head_file' = cmd.prev
    /\ Goto("save_onto")
    /\ UNCHANGED <<branch, workdir, onto_file, todo_file, reflogged, bounds>>

SaveOnto ==
    /\ cmd.pc = "save_onto"
    /\ onto_file' = cmd.onto
    /\ Goto("save_todo")
    /\ UNCHANGED <<branch, workdir, head_file, todo_file, reflogged, bounds>>

\* Mutant: the commit that conflicts is left out.
Remaining_After == Tail(cmd.todo)

\* The commit that conflicts is the first one of the file.
Remaining == cmd.todo

SaveTodo ==
    /\ cmd.pc = "save_todo"
    /\ todo_file' = Remaining
    /\ Goto(IF cmd.cont THEN "save_ref" ELSE "mark")
    /\ UNCHANGED <<branch, workdir, head_file, onto_file, reflogged, bounds>>

Mark ==
    /\ cmd.pc = "mark"
    /\ workdir' = Conflicted
    /\ cmd' = Idle
    /\ UNCHANGED <<branch, files, reflogged, bounds>>

SaveRef ==
    /\ cmd.pc = "save_ref"
    /\ branch' = cmd.cursor
    /\ cmd' = Idle
    /\ UNCHANGED <<workdir, files, reflogged, bounds>>

\* The last commit has been replayed: first the ref, then the reflog.
FinishRebase ==
    /\ cmd.pc = "replay"
    /\ cmd.todo = <<>>
    /\ branch' = cmd.cursor
    /\ Goto("log")
    /\ UNCHANGED <<workdir, files, reflogged, bounds>>

\* Mutant: the reflog entry has only the new tip.
LogRebase_NewOnly ==
    /\ cmd.pc = "log"
    /\ reflogged' = reflogged \cup {cmd.cursor}
    /\ cmd' = IF cmd.cont THEN [cmd EXCEPT !.pc = "drop_head"] ELSE Idle
    /\ UNCHANGED <<branch, workdir, files, bounds>>

LogRebase ==
    /\ cmd.pc = "log"
    /\ reflogged' = reflogged \cup {cmd.prev, cmd.cursor}
    /\ cmd' = IF cmd.cont THEN [cmd EXCEPT !.pc = "drop_head"] ELSE Idle
    /\ UNCHANGED <<branch, workdir, files, bounds>>

(***************************************************************************)
(* gyt rebase --continue and --abort                                       *)
(***************************************************************************)

\* The index is committed as the first commit of the file, on top of what the
\* branch names.
Continue ==
    /\ cmd.pc = "idle"
    /\ todo_file \notin {Absent, <<>>} /\ head_file # Absent /\ onto_file # Absent
    /\ Len(branch) < MaxLen
    /\ cmd' = [pc |-> "replay", cont |-> TRUE,
               cursor |-> Append(branch, Head(todo_file)), todo |-> Tail(todo_file),
               prev |-> head_file, onto |-> onto_file]
    /\ workdir' = Append(branch, Head(todo_file))
    /\ UNCHANGED <<branch, files, reflogged, bounds>>

AbortRebase ==
    /\ cmd.pc = "idle"
    /\ head_file # Absent
    /\ branch' = head_file
    /\ cmd' = [Idle EXCEPT !.pc = "restored", !.prev = head_file]
    /\ UNCHANGED <<workdir, files, reflogged, bounds>>

AbortTree ==
    /\ cmd.pc = "restored"
    /\ workdir' = cmd.prev
    /\ Goto("drop_head")
    /\ UNCHANGED <<branch, files, reflogged, bounds>>

DropHead ==
    /\ cmd.pc = "drop_head"
    /\ head_file' = Absent
    /\ Goto("drop_onto")
    /\ UNCHANGED <<branch, workdir, onto_file, todo_file, reflogged, bounds>>

DropOnto ==
    /\ cmd.pc = "drop_onto"
    /\ onto_file' = Absent
    /\ Goto("drop_todo")
    /\ UNCHANGED <<branch, workdir, head_file, todo_file, reflogged, bounds>>

DropTodo ==
    /\ cmd.pc = "drop_todo"
    /\ todo_file' = Absent
    /\ cmd' = Idle
    /\ UNCHANGED <<branch, workdir, head_file, onto_file, reflogged, bounds>>

(***************************************************************************)
(* gyt commit, and commands that are killed                                *)
(***************************************************************************)

\* The reflog comes first; a commit cut off after it is a commit that was not
\* made.
CommitResolved(x) ==
    /\ cmd.pc = "idle"
    /\ Len(branch) < MaxLen
    /\ reflogged' = reflogged \cup {branch, Append(branch, x)}
    /\ branch' = Append(branch, x)
    /\ workdir' = Append(branch, x)
    /\ UNCHANGED <<files, cmd, bounds>>

CrashRebase ==
    /\ cmd.pc # "idle"
    /\ crashes < MaxCrash
    /\ crashes' = crashes + 1
    /\ cmd' = Idle
    /\ UNCHANGED <<branch, workdir, files, reflogged, origin, owed, starts>>

RebaseNext ==
    \/ \E t \in Upstream : FastForward(t) \/ Start(t)
    \/ Materialize \/ ReplayClean \/ ReplayConflict \/ FinishRebase \/ LogRebase
    \/ SaveHead \/ SaveOnto \/ SaveTodo \/ SaveRef \/ Mark
    \/ Continue \/ AbortRebase \/ AbortTree \/ DropHead \/ DropOnto \/ DropTodo
    \/ \E x \in ByHand : CommitResolved(x)
    \/ CrashRebase

RebaseSpec == RebaseInit /\ [][RebaseNext]_rebaseVars

(***************************************************************************)
(* Properties                                                              *)
(***************************************************************************)

Completes == cmd.pc = "replay" /\ cmd'.pc = "log"

\* What the new branch has after its last commit in common with the old branch
\* or with upstream.
Shared(c) == Len(fork_point(branch', c))
Added ==
    LET n == IF Shared(cmd.prev) > Shared(cmd.onto) THEN Shared(cmd.prev) ELSE Shared(cmd.onto)
    IN  SubSeq(branch', n + 1, Len(branch'))

\* s is t with some of its elements left out.
Within(s, t) ==
    \E at \in [DOMAIN s -> DOMAIN t] :
        /\ \A i \in DOMAIN s : s[i] = t[at[i]]
        /\ \A i, j \in DOMAIN s : i < j => at[i] < at[j]

\* Unless a command is killed, a rebase that stops and goes on replays every
\* commit: the commit that conflicted first and those after it are all on the
\* new branch, in their order; none is swallowed.
NothingSwallowed == [][Completes /\ cmd.cont /\ crashes = 0 => Within(owed, Added)]_rebaseVars

\* Unless a command is killed, the branch as it was when the last rebase began
\* can be found again: through the branch, its reflog or REBASE_HEAD.
OriginRecoverable ==
    cmd.pc = "idle" /\ crashes = 0 /\ origin # Absent =>
        IsPrefix(origin, branch) \/ origin \in reflogged \/ head_file = origin

\* The header and the help of rebase.rs: a rebase that completes has put the
\* commits on top of upstream.
OnTopOfUpstream == [][Completes => IsPrefix(cmd.onto, branch')]_rebaseVars
=============================================================================
