------------------------------ MODULE LocalRepo ------------------------------
(***************************************************************************)
(* The commands that work on one repository and its work tree: add, rm,    *)
(* commit, switch, reset, restore, clean, branch, tag, merge, cherry-pick  *)
(* and stash.  A command holds .gyt/LOCK, decides what to do from what it  *)
(* reads, and then makes its writes one after the other: the begin action  *)
(* of a command puts its writes, in the order of the code, into todo, and  *)
(* the write actions take them from there.  A command may be killed        *)
(* between two writes, and a reflog may fail to be written, which no       *)
(* command notices; while none runs, the user edits files.                 *)
(*                                                                         *)
(* HEAD names a branch throughout: no command detaches it.                 *)
(***************************************************************************)
EXTENDS Naturals, Sequences, FiniteSets

CONSTANTS
    Path,
    Ignored,        \* the paths that .gytignore matches
    Content,        \* the contents of files
    Typed,          \* what the user writes into them
    Merged,         \* a file whose lines merge3 combined
    Markers,        \* a file with conflict markers
    NoFile,         \* no file, no index entry
    Branch, Tag,
    Legal,          \* the branches whose names validate_branch_name accepts
    Histories,      \* the repositories to start from: [commits, refs, head, logged]
    Areas,          \* the commands that are tried together
    MaxCommits, MaxFaults,
    MaxCalls        \* for every area

File == Content \cup {Merged, Markers}
Tree == [Path -> File \cup {NoFile}]

ASSUME LocalAssumption ==
    /\ Ignored \subseteq Path
    /\ Typed \subseteq Content
    /\ {Merged, Markers, NoFile} \cap Content = {} /\ Merged # Markers /\ NoFile # Markers
    /\ Branch \cap Tag = {} /\ Legal \subseteq Branch
    /\ Areas \subseteq {"index", "history", "merge", "stash"}
    /\ MaxCommits \in Nat /\ MaxFaults \in Nat /\ MaxCalls \in [Areas -> Nat]

\* As init, clone and the commands leave a repository: parents are older, the
\* refs name commits, and HEAD names a branch, which has a commit once any
\* branch has one.  A clone has no reflogs.
ASSUME HistoriesAssumption ==
    \A h \in Histories :
        /\ h.commits \in Seq({h.commits[i] : i \in DOMAIN h.commits})
        /\ \A c \in DOMAIN h.commits :
              /\ h.commits[c].tree \in [Path -> Content \cup {NoFile}]
              /\ h.commits[c].parents \in Seq(1 .. c - 1) /\ Len(h.commits[c].parents) <= 2
        /\ h.refs \in [Branch \cup Tag -> 0 .. Len(h.commits)]
        /\ h.head \in Branch
        /\ h.logged \subseteq DOMAIN h.commits
        /\ h.refs[h.head] # 0 \/ \A b \in Branch : h.refs[b] = 0

VARIABLES
    area,           \* the commands of this behaviour
    commits,        \* the commit objects; an id is an index, 0 is "none"
    refs,           \* refs/heads and refs/tags; 0 when the file is absent
    head,           \* the branch that HEAD names
    stash,          \* refs/stash
    MERGE_HEAD, CHERRY_PICK_HEAD,
    logged,         \* the ids in the reflogs
    swallowed,      \* history: the ids that record failed to write
    index, work,
    running,        \* the command that holds the lock
    todo,           \* its writes to come
    calls, faults,
    tips            \* every commit that was ever the tip of a branch

store == <<commits, refs, head, stash, MERGE_HEAD, CHERRY_PICK_HEAD, logged, swallowed, index, work, tips>>
localVars == <<area, store, running, todo, calls, faults>>

(***************************************************************************)
(* Trees and history                                                       *)
(***************************************************************************)

Files(t) == {p \in Path : t[p] # NoFile}
Empty == [p \in Path |-> NoFile]

TreeOf(id) == IF id = 0 THEN Empty ELSE commits[id].tree
Tip == refs[head]
NewId == Len(commits) + 1

ParentIds(id) == {commits[id].parents[i] : i \in DOMAIN commits[id].parents}

\* Ancestors of a set of commits, themselves included: parents are older.
Closure(S) ==
    LET reach[n \in 0..Len(commits)] ==
            IF n = 0 THEN S
            ELSE LET r == reach[n - 1]
                     id == Len(commits) + 1 - n
                 IN  IF id \in r THEN r \cup ParentIds(id) ELSE r
    IN  reach[Len(commits)] \ {0}

ancestors_inclusive(id) == IF id = 0 THEN {} ELSE Closure({id})

is_ancestor(a, b) == a \in ancestors_inclusive(b)

\* The first commit that a breadth-first walk from b meets among the
\* ancestors of a; 0 when there is none.
merge_base(a, b) ==
    LET step(w) ==
            IF w.base # 0 \/ w.queue = <<>> THEN w
            ELSE LET id == Head(w.queue)
                 IN  IF id \in w.seen THEN [w EXCEPT !.queue = Tail(@)]
                     ELSE IF is_ancestor(id, a) THEN [w EXCEPT !.base = id]
                     ELSE [w EXCEPT !.queue = Tail(@) \o commits[id].parents, !.seen = @ \cup {id}]
        walk[n \in 0..3 * Len(commits) + 1] ==
            IF n = 0 THEN [queue |-> <<b>>, seen |-> {}, base |-> 0] ELSE step(walk[n - 1])
    IN  walk[3 * Len(commits) + 1].base

\* What the user may name: a ref, or HEAD~1.
Revs ==
    LET named == {refs[r] : r \in Branch \cup Tag}
        parent == IF Tip # 0 /\ commits[Tip].parents # <<>> THEN {commits[Tip].parents[1]} ELSE {}
    IN  (named \cup parent) \ {0}

(***************************************************************************)
(* The writes of a command                                                 *)
(***************************************************************************)

\* Files to write (or, with NoFile, to remove), in an order the walk decides.
Work(f) == IF DOMAIN f = {} THEN <<>> ELSE <<[kind |-> "work", to |-> f]>>
Index(t) == [kind |-> "index", to |-> t]
Ref(r, id) == [kind |-> "ref", name |-> r, to |-> id]
HeadTo(b) == [kind |-> "head", to |-> b]
LogLine(ids) == [kind |-> "log", to |-> ids \ {0}]
Object(t, parents, msg) == [kind |-> "commit", to |-> [tree |-> t, parents |-> parents, msg |-> msg]]
StashTo(id) == [kind |-> "stash", to |-> id]
MergeHead(id) == [kind |-> "merge_head", to |-> id]
PickHead(id) == [kind |-> "pick_head", to |-> id]

BeginCommand(cmd, writes) ==
    /\ running' = cmd
    /\ writes # <<>>
    /\ todo' = writes
    /\ calls' = calls + 1
    /\ UNCHANGED <<area, store, faults>>

Now(kind) == todo # <<>> /\ Head(todo).kind = kind

Done ==
    /\ todo' = Tail(todo)
    /\ running' = IF Tail(todo) = <<>> THEN "idle" ELSE running
    /\ UNCHANGED <<area, calls, faults>>

safe_workdir_write(p) ==
    /\ Now("work")
    /\ LET f == Head(todo).to
           rest == [q \in DOMAIN f \ {p} |-> f[q]]
       IN  /\ p \in DOMAIN f
           /\ work' = [work EXCEPT ![p] = f[p]]
           /\ IF DOMAIN rest = {} THEN Done
              ELSE /\ todo' = Work(rest) \o Tail(todo)
                   /\ UNCHANGED <<area, running, calls, faults>>
    /\ UNCHANGED <<commits, refs, head, stash, MERGE_HEAD, CHERRY_PICK_HEAD, logged, swallowed, index, tips>>

index_write ==
    /\ Now("index")
    /\ index' = Head(todo).to
    /\ Done
    /\ UNCHANGED <<commits, refs, head, stash, MERGE_HEAD, CHERRY_PICK_HEAD, logged, swallowed, work, tips>>

\* write_ref, and delete_ref when the id is 0.
write_ref ==
    /\ Now("ref")
    /\ LET s == Head(todo)
       IN  /\ refs' = [refs EXCEPT ![s.name] = s.to]
           /\ tips' = IF s.name \in Branch THEN tips \cup ({s.to} \ {0}) ELSE tips
    /\ Done
    /\ UNCHANGED <<commits, head, stash, MERGE_HEAD, CHERRY_PICK_HEAD, logged, swallowed, index, work>>

write_head ==
    /\ Now("head")
    /\ head' = Head(todo).to
    /\ Done
    /\ UNCHANGED <<commits, refs, stash, MERGE_HEAD, CHERRY_PICK_HEAD, logged, swallowed, index, work, tips>>

\* record: the old and the new id go to the reflogs of the branch and of HEAD.
reflog_record ==
    /\ Now("log")
    /\ logged' = logged \cup Head(todo).to
    /\ Done
    /\ UNCHANGED <<commits, refs, head, stash, MERGE_HEAD, CHERRY_PICK_HEAD, swallowed, index, work, tips>>

\* try_record fails; record swallows the error and the command goes on.
reflog_swallow ==
    /\ Now("log")
    /\ faults < MaxFaults
    /\ faults' = faults + 1
    /\ swallowed' = swallowed \cup Head(todo).to
    /\ todo' = Tail(todo)
    /\ running' = IF Tail(todo) = <<>> THEN "idle" ELSE running
    /\ UNCHANGED <<area, calls, commits, refs, head, stash, MERGE_HEAD, CHERRY_PICK_HEAD, logged, index, work, tips>>

commit_write ==
    /\ Now("commit")
    /\ commits' = Append(commits, Head(todo).to)
    /\ Done
    /\ UNCHANGED <<refs, head, stash, MERGE_HEAD, CHERRY_PICK_HEAD, logged, swallowed, index, work, tips>>

write_stash_ref ==
    /\ Now("stash")
    /\ stash' = Head(todo).to
    /\ Done
    /\ UNCHANGED <<commits, refs, head, MERGE_HEAD, CHERRY_PICK_HEAD, logged, swallowed, index, work, tips>>

\* MERGE_HEAD and CHERRY_PICK_HEAD: written here, and removed by no command.
write_state ==
    /\ \/ /\ Now("merge_head")
          /\ MERGE_HEAD' = Head(todo).to
          /\ UNCHANGED CHERRY_PICK_HEAD
       \/ /\ Now("pick_head")
          /\ CHERRY_PICK_HEAD' = Head(todo).to
          /\ UNCHANGED MERGE_HEAD
    /\ Done
    /\ UNCHANGED <<commits, refs, head, stash, logged, swallowed, index, work, tips>>

DoWrite ==
    \/ \E p \in Path : safe_workdir_write(p)
    \/ index_write \/ write_ref \/ write_head \/ reflog_record \/ reflog_swallow
    \/ commit_write \/ write_stash_ref \/ write_state

\* The process dies between two writes, or one of them fails.
Kill ==
    /\ todo # <<>>
    /\ faults < MaxFaults
    /\ todo' = <<>>
    /\ running' = "idle"
    /\ faults' = faults + 1
    /\ UNCHANGED <<area, store, calls>>

\* The user counts as a command of their own.
Edit(p, c) ==
    /\ work[p] # c
    /\ work' = [work EXCEPT ![p] = c]
    /\ calls' = calls + 1
    /\ UNCHANGED <<area, commits, refs, head, stash, MERGE_HEAD, CHERRY_PICK_HEAD, logged, swallowed,
                   index, tips, running, todo, faults>>

\* Only what is not yet so is written: writing a file again changes nothing.
Changes(f) == [p \in {q \in DOMAIN f : f[q] # work[q]} |-> f[p]]

Only(S, t) == [p \in S |-> t[p]]
Without(S) == [p \in S |-> NoFile]

(***************************************************************************)
(* The index: add, rm, restore, clean                                      *)
(***************************************************************************)

\* One file; the user answers yes when it is an ignored one.
Add(p) ==
    /\ work[p] # NoFile
    /\ BeginCommand("add", <<Index([index EXCEPT ![p] = work[p]])>>)

\* Everything below a directory that is not ignored; removals are not staged.
walk_recurse == {p \in Path \ Ignored : work[p] # NoFile}

AddDot == BeginCommand("add", <<Index([p \in Path |-> IF p \in walk_recurse THEN work[p] ELSE index[p]])>>)

\* -A: and the entries whose file is gone are dropped.
AddAll ==
    BeginCommand("add", <<Index([p \in Path |-> IF p \in walk_recurse THEN work[p]
                                         ELSE IF work[p] = NoFile THEN NoFile ELSE index[p]])>>)

\* Of the named paths, a tracked one whose file is gone needs -f.  A path
\* that is not tracked loses its file too.  The index is written first.
Rm(P, force) ==
    /\ P # {}
    /\ \A p \in P : IF index[p] # NoFile THEN force \/ work[p] # NoFile ELSE work[p] # NoFile
    /\ BeginCommand("rm", <<Index([p \in Path |-> IF p \in P THEN NoFile ELSE index[p]])>>
                     \o Work(Changes(Without(P))))

\* A path that the source lacks is skipped in the work tree.
restore_one(P, source) == Changes(Only({p \in P : source[p] # NoFile}, source))

\* One path, or "." for all of the index or of the named tree.  --staged takes
\* HEAD when no tree is named, and --worktree the index as it is by then.
Restore(P, staged, worktree, rev) ==
    LET source == IF rev # 0 THEN TreeOf(rev) ELSE TreeOf(Tip)
        staging == [p \in Path |-> IF p \in P THEN source[p] ELSE index[p]]
        from == IF rev # 0 THEN source ELSE IF staged THEN staging ELSE index
    IN  BeginCommand("restore",
              (IF worktree THEN Work(restore_one(P, from)) ELSE <<>>)
              \o (IF staged THEN <<Index(staging)>> ELSE <<>>))

Clean == BeginCommand("clean", Work(Without({p \in walk_recurse : index[p] = NoFile})))

\* status: the paths of the work tree, and then those of the index and of HEAD
\* that the walk did not meet (an ignored file is never met).
Staged ==
    LET cur == TreeOf(Tip)
        New == {p \in Path : index[p] # NoFile /\ cur[p] = NoFile}
        Modified == {p \in walk_recurse : index[p] # NoFile /\ cur[p] # NoFile /\ index[p] # cur[p]}
        Deleted == {p \in Path \ walk_recurse : index[p] = NoFile /\ cur[p] # NoFile}
    IN  New \cup Modified \cup Deleted

Modified == {p \in Path : index[p] # NoFile /\ (p \notin walk_recurse \/ work[p] # index[p])}

(***************************************************************************)
(* Commits and branches: commit, switch, reset, branch, tag                *)
(***************************************************************************)

\* Mutant: the reflogs are not written.
Advance_Unlogged(id) == <<Ref(head, id)>>

\* The two reflogs are written before the ref.
Advance(id) == <<LogLine({Tip, id}), Ref(head, id)>>

build_tree_from_index(allow_empty) == IF index = Empty /\ allow_empty THEN TreeOf(Tip) ELSE index

\* The parent is HEAD alone, a merge that is to be concluded included.
Commit(allow_empty, amend) ==
    LET parents == IF amend THEN commits[Tip].parents ELSE IF Tip = 0 THEN <<>> ELSE <<Tip>>
    IN  /\ NewId <= MaxCommits
        /\ amend => Tip # 0
        /\ allow_empty \/ amend \/ index # Empty \/ TreeOf(Tip) # Empty
        /\ BeginCommand("commit",
                 <<Object(build_tree_from_index(allow_empty), parents, NewId)>> \o Advance(NewId))

\* The files that would be overwritten or removed and are not as HEAD has
\* them.  What is staged is not looked at where HEAD has the path.
SwitchConflicts(to) ==
    LET cur == TreeOf(Tip)
    IN  {p \in Path :
            /\ work[p] # NoFile
            /\ \/ to[p] # NoFile /\ cur[p] # NoFile /\ work[p] # cur[p]
               \/ to[p] # NoFile /\ cur[p] = NoFile /\ (index[p] # NoFile \/ work[p] # to[p])
               \/ to[p] = NoFile /\ cur[p] # NoFile /\ work[p] # cur[p]}

switch_to(b, id) ==
    LET to == TreeOf(id)
    IN  Work(Changes(Without(Files(TreeOf(Tip)) \ Files(to))))
        \o Work(Changes(Only(Files(to), to)))
        \o <<Index(to), HeadTo(b), LogLine({Tip, id})>>

Switch(b) ==
    /\ b \in Legal /\ refs[b] # 0
    /\ SwitchConflicts(TreeOf(refs[b])) = {}
    /\ BeginCommand("switch", switch_to(b, refs[b]))

\* -c: the new branch is written before the work tree is looked at, and stays
\* when the switch is refused.
SwitchCreate(b) ==
    /\ b \in Legal /\ refs[b] = 0 /\ Tip # 0
    /\ IF SwitchConflicts(TreeOf(Tip)) = {}
       THEN BeginCommand("switch", <<Ref(b, Tip)>> \o switch_to(b, Tip))
       ELSE BeginCommand("switch_refused", <<Ref(b, Tip)>>)

\* Remove what the index tracks and the tree lacks, write the tree, and
\* replace the index.
materialize_commit(cur_index, t) ==
    Work(Changes(Without(Files(cur_index) \ Files(t))))
    \o Work(Changes(Only(Files(t), t)))
    \o <<Index(t)>>

workdir_dirty_paths == {p \in Files(index) : work[p] # index[p]}

\* --hard: the index is the target's by the time the work tree is written.
Reset(mode, id, force) ==
    LET t == TreeOf(id)
    IN  /\ mode = "hard" => force \/ workdir_dirty_paths = {}
        /\ BeginCommand(IF mode = "hard" THEN "reset_hard" ELSE "reset",
                 (IF mode # "soft" THEN <<Index(t)>> ELSE <<>>)
                 \o (IF mode = "hard" THEN materialize_commit(t, t) ELSE <<>>)
                 \o Advance(id))

BranchCreate(b) ==
    /\ b \in Legal /\ Tip # 0 /\ refs[b] = 0
    /\ BeginCommand("branch", <<Ref(b, Tip)>>)

\* -d wants the tip in the history of HEAD; -D does not.  A branch with a name
\* that only a clone can bring goes at once, also when HEAD names it.
BranchDelete(b, force) ==
    /\ refs[b] # 0
    /\ b \in Legal => b # head /\ (force \/ Tip = 0 \/ is_ancestor(refs[b], Tip))
    /\ BeginCommand("branch", <<Ref(b, 0)>>)

\* Mutant: the old name goes before HEAD has the new one.
BranchRename_OldFirst(old, new) ==
    /\ {old, new} \subseteq Legal /\ refs[old] # 0 /\ refs[new] = 0
    /\ BeginCommand("branch",
             <<Ref(new, refs[old]), Ref(old, 0)>> \o (IF head = old THEN <<HeadTo(new)>> ELSE <<>>))

\* The new name is written first, then HEAD, and the old name goes last.
BranchRename(old, new) ==
    /\ {old, new} \subseteq Legal /\ refs[old] # 0 /\ refs[new] = 0
    /\ BeginCommand("branch",
             <<Ref(new, refs[old])>> \o (IF head = old THEN <<HeadTo(new)>> ELSE <<>>) \o <<Ref(old, 0)>>)

TagCreate(t, id) ==
    /\ refs[t] = 0
    /\ BeginCommand("tag", <<Ref(t, id)>>)

TagDelete(t) ==
    /\ refs[t] # 0
    /\ BeginCommand("tag", <<Ref(t, 0)>>)

(***************************************************************************)
(* Three-way merges: merge, cherry-pick                                    *)
(***************************************************************************)

\* Both sides changed the file, each in its own way: the lines are merged.
LineMerges(b, o, t) == {p \in Path : NoFile \notin {b[p], o[p], t[p]} /\ Cardinality({b[p], o[p], t[p]}) = 3}

\* Added or deleted on one side and different on the other.
TreeConflicts(b, o, t) == {p \in Path : o[p] # t[p] /\ b[p] # o[p] /\ b[p] # t[p]} \ LineMerges(b, o, t)

\* The clean part, where the files of fits merged line by line.  A path in
\* conflict is not in it.
merge_trees(b, o, t, fits) ==
    [p \in Path |-> IF p \in fits THEN Merged
                    ELSE IF p \in LineMerges(b, o, t) \cup TreeConflicts(b, o, t) THEN NoFile
                    ELSE IF b[p] = o[p] THEN t[p]
                    ELSE o[p]]

\* Remove what the index tracks and the result lacks, and write the result.
apply_files_to_workdir(t) ==
    Work(Changes(Without(Files(index) \ Files(t)))) \o Work(Changes(Only(Files(t), t)))

\* The ref first, then the two reflogs.
EndMerge(id) == <<Ref(head, id), LogLine({Tip, id})>>

\* The ref moves before the files do, and local changes are not looked at.
ff_fast_forward(id) == EndMerge(id) \o materialize_commit(index, TreeOf(id))

\* merge of a commit that HEAD is an ancestor of, without --no-ff.
MergeFastForward(id) ==
    /\ Tip # id
    /\ Tip = 0 \/ is_ancestor(Tip, id)
    /\ BeginCommand("merge_ff", ff_fast_forward(id))

Diverged(id, no_ff) ==
    /\ Tip # 0
    /\ ~is_ancestor(id, Tip)
    /\ is_ancestor(Tip, id) => no_ff
    /\ merge_base(Tip, id) # 0

\* Files with markers: of the lines in conflict, or describing the two sides.
render_tree_conflict_marker(P) == [p \in P |-> Markers]

\* Mutant: the markers are written before MERGE_HEAD.
MergeConflicts_MarkersFirst(id, no_ff, fits) ==
    LET b == TreeOf(merge_base(Tip, id))
        clash == (LineMerges(b, TreeOf(Tip), TreeOf(id)) \cup TreeConflicts(b, TreeOf(Tip), TreeOf(id))) \ fits
        tm == merge_trees(b, TreeOf(Tip), TreeOf(id), fits)
    IN  /\ Diverged(id, no_ff)
        /\ fits \subseteq LineMerges(b, TreeOf(Tip), TreeOf(id))
        /\ clash # {}
        /\ BeginCommand("merge_conflict",
                 apply_files_to_workdir(tm)
                 \o Work(render_tree_conflict_marker(clash)) \o <<Index(tm), MergeHead(id)>>)

\* MERGE_HEAD is written after the clean part, and before the markers.
MergeConflicts(id, no_ff, fits) ==
    LET b == TreeOf(merge_base(Tip, id))
        clash == (LineMerges(b, TreeOf(Tip), TreeOf(id)) \cup TreeConflicts(b, TreeOf(Tip), TreeOf(id))) \ fits
        tm == merge_trees(b, TreeOf(Tip), TreeOf(id), fits)
    IN  /\ Diverged(id, no_ff)
        /\ fits \subseteq LineMerges(b, TreeOf(Tip), TreeOf(id))
        /\ clash # {}
        /\ BeginCommand("merge_conflict",
                 apply_files_to_workdir(tm)
                 \o <<Index(tm), MergeHead(id)>> \o Work(render_tree_conflict_marker(clash)))

\* three_way_merge without a conflict: a commit with two parents.
MergeClean(id, no_ff) ==
    LET b == TreeOf(merge_base(Tip, id))
        fits == LineMerges(b, TreeOf(Tip), TreeOf(id))
        tm == merge_trees(b, TreeOf(Tip), TreeOf(id), fits)
    IN  /\ Diverged(id, no_ff)
        /\ NewId <= MaxCommits
        /\ TreeConflicts(b, TreeOf(Tip), TreeOf(id)) = {}
        /\ BeginCommand("merge",
                 apply_files_to_workdir(tm)
                 \o <<Index(tm), Object(tm, <<Tip, id>>, NewId)>> \o EndMerge(NewId))

\* A commit with this tree and message on the first-parent line of HEAD.
AlreadyApplied(id) ==
    LET line[i \in 0..Len(commits)] ==
            IF i = 0 THEN FALSE
            ELSE \/ commits[i].tree = commits[id].tree /\ commits[i].msg = commits[id].msg
                 \/ commits[i].parents # <<>> /\ line[commits[i].parents[1]]
    IN  line[Tip]

PickBase(id) == IF commits[id].parents = <<>> THEN Empty ELSE TreeOf(commits[id].parents[1])

\* The files of a pick: as those of a merge.
PickFiles(t) == Work(Changes(Without(Files(index) \ Files(t)))) \o Work(Changes(Only(Files(t), t)))

\* CHERRY_PICK_HEAD is written before anything else.  Only lines in conflict
\* leave markers.
PickConflicts(id, fits) ==
    LET b == PickBase(id)
        lines == LineMerges(b, TreeOf(Tip), TreeOf(id)) \ fits
        tm == merge_trees(b, TreeOf(Tip), TreeOf(id), fits)
    IN  /\ Tip # 0
        /\ ~AlreadyApplied(id)
        /\ fits \subseteq LineMerges(b, TreeOf(Tip), TreeOf(id))
        /\ lines \cup TreeConflicts(b, TreeOf(Tip), TreeOf(id)) # {}
        /\ BeginCommand("pick_conflict",
                 <<PickHead(id)>> \o PickFiles(tm)
                 \o <<Index(tm)>> \o Work([p \in lines |-> Markers]))

\* A commit that takes the message along.
make_commit(t, id) == Object(t, IF Tip = 0 THEN <<>> ELSE <<Tip>>, commits[id].msg)

PickFinish(id) == <<Ref(head, id), LogLine({Tip, id})>>

\* On a branch without a commit, the tree is adopted as it is.
PickClean(id) ==
    LET b == IF Tip = 0 THEN Empty ELSE PickBase(id)
        fits == LineMerges(b, TreeOf(Tip), TreeOf(id))
        tm == merge_trees(b, TreeOf(Tip), TreeOf(id), fits)
    IN  /\ NewId <= MaxCommits
        /\ ~AlreadyApplied(id)
        /\ TreeConflicts(b, TreeOf(Tip), TreeOf(id)) = {}
        /\ BeginCommand("pick", PickFiles(tm) \o <<Index(tm), make_commit(tm, id)>> \o PickFinish(NewId))

(***************************************************************************)
(* stash                                                                   *)
(***************************************************************************)

\* What the walk of the work tree sees: ignored files are left out, tracked
\* ones included.
build_tree_from_workdir == [p \in Path |-> IF p \in walk_recurse THEN work[p] ELSE NoFile]

materialize_tree(t) == Changes(Only(Files(t), t))

\* As a hard reset to HEAD, but the files go by the old index.
reset_workdir_and_index_to_tree(t) ==
    Work(Changes(Without(Files(index) \ Files(t)))) \o Work(materialize_tree(t)) \o <<Index(t)>>

\* Mutant: refs/stash is written last.
StashPush_ResetFirst ==
    LET prev == IF stash # 0 THEN stash ELSE Tip
    IN  /\ Tip # 0
        /\ NewId < MaxCommits
        /\ BeginCommand("stash_push",
                 <<Object(index, <<Tip>>, NewId),
                   Object(build_tree_from_workdir, <<prev, NewId, Tip>>, NewId + 1)>>
                 \o reset_workdir_and_index_to_tree(TreeOf(Tip)) \o <<StashTo(NewId + 1)>>)

\* Parents: the previous stash (or HEAD), the commit of the index, HEAD.
StashPush ==
    LET prev == IF stash # 0 THEN stash ELSE Tip
    IN  /\ Tip # 0
        /\ NewId < MaxCommits
        /\ BeginCommand("stash_push",
                 <<Object(index, <<Tip>>, NewId),
                   Object(build_tree_from_workdir, <<prev, NewId, Tip>>, NewId + 1),
                   StashTo(NewId + 1)>>
                 \o reset_workdir_and_index_to_tree(TreeOf(Tip)))

Stashed == commits[stash]

\* A file that differs from the stash and from the index.
detect_conflicts ==
    {p \in Files(Stashed.tree) : work[p] \notin {NoFile, Stashed.tree[p], index[p]}}

Unstash == Work(materialize_tree(Stashed.tree)) \o <<Index(TreeOf(Stashed.parents[2]))>>

drop_top == <<StashTo(IF Stashed.parents[1] # Stashed.parents[3] THEN Stashed.parents[1] ELSE 0)>>

StashPop ==
    /\ stash # 0
    /\ detect_conflicts = {}
    /\ BeginCommand("stash_pop", Unstash \o drop_top)

StashApply ==
    /\ stash # 0
    /\ detect_conflicts = {}
    /\ BeginCommand("stash_apply", Unstash)

StashDrop ==
    /\ stash # 0
    /\ BeginCommand("stash_drop", drop_top)

(***************************************************************************)
(* The specification                                                       *)
(***************************************************************************)

LocalInit ==
    /\ area \in Areas
    /\ \E h \in Histories :
          /\ commits = h.commits /\ refs = h.refs /\ head = h.head
          /\ index = (IF h.refs[h.head] = 0 THEN Empty ELSE h.commits[h.refs[h.head]].tree)
          /\ tips = {h.refs[b] : b \in Branch} \ {0}
          /\ logged = h.logged
    /\ swallowed = {}
    /\ work = index
    /\ stash = 0 /\ MERGE_HEAD = 0 /\ CHERRY_PICK_HEAD = 0
    /\ running = "idle" /\ todo = <<>>
    /\ calls = 0 /\ faults = 0

IndexCommand ==
    \/ AddDot \/ AddAll \/ Clean
    \/ \E P \in {{p} : p \in Path} \cup {Files(index)}, force \in BOOLEAN : Rm(P, force)
    \/ \E rev \in Revs \cup {0} :
       \E P \in {{p} : p \in Path} \cup {Files(IF rev # 0 THEN TreeOf(rev) ELSE index)} :
          Restore(P, TRUE, FALSE, rev) \/ Restore(P, FALSE, TRUE, rev) \/ Restore(P, TRUE, TRUE, rev)

DeleteCommand == \E b \in Branch, force \in BOOLEAN : BranchDelete(b, force)

BranchCommand ==
    \/ \E b \in Branch : BranchCreate(b)
    \/ \E old, new \in Branch : BranchRename(old, new)
    \/ \E t \in Tag : TagDelete(t) \/ \E id \in Revs : TagCreate(t, id)

ResetCommand ==
    \E mode \in {"soft", "mixed", "hard"}, id \in Revs, force \in BOOLEAN : Reset(mode, id, force)

MergeCommand ==
    \E id \in Revs :
        \/ MergeFastForward(id) \/ PickClean(id)
        \/ \E no_ff \in BOOLEAN : MergeClean(id, no_ff)
        \/ \E no_ff \in BOOLEAN, fits \in SUBSET Path : MergeConflicts(id, no_ff, fits)
        \/ \E fits \in SUBSET Path : PickConflicts(id, fits)

StashCommand == StashPush \/ StashPop \/ StashApply \/ StashDrop

UserCommand ==
    /\ todo = <<>>
    /\ calls < MaxCalls[area]
    /\ \/ \E p \in Path : Add(p) \/ \E c \in Typed \cup {NoFile} : Edit(p, c)
       \/ \E allow_empty, amend \in BOOLEAN : Commit(allow_empty, amend)
       \/ \E b \in Branch : Switch(b)
       \/ area # "merge" /\ \E b \in Branch : SwitchCreate(b)
       \/ area = "index" /\ IndexCommand
       \/ area \in {"history", "merge"} /\ (ResetCommand \/ DeleteCommand)
       \/ area = "history" /\ BranchCommand
       \/ area = "merge" /\ MergeCommand
       \/ area = "stash" /\ StashCommand

LocalNext == UserCommand \/ DoWrite \/ Kill

LocalSpec == LocalInit /\ [][LocalNext]_localVars

(***************************************************************************)
(* Properties                                                              *)
(***************************************************************************)

\* What gc keeps: refs, the stash, the reflogs and the states of a merge.
Kept == Closure(({refs[r] : r \in Branch \cup Tag} \cup {stash, MERGE_HEAD, CHERRY_PICK_HEAD} \cup logged) \ {0})

\* The id that the next write takes out of a ref or a state file.
Overwritten ==
    CASE Now("ref") -> refs[Head(todo).name]
      [] Now("stash") -> stash
      [] Now("merge_head") -> MERGE_HEAD
      [] Now("pick_head") -> CHERRY_PICK_HEAD
      [] OTHER -> 0

\* Writes that take something away: a branch or a tag is deleted, a stash
\* entry dropped, or the state file of an earlier merge or pick replaced.
Discards ==
    \/ Now("ref") /\ Head(todo).to = 0
    \/ Now("stash") /\ running \in {"stash_pop", "stash_drop"}
    \/ Now("merge_head") \/ Now("pick_head")

\* No commit that was ever the tip of a branch gets out of the reach of the
\* refs and the reflogs, whatever is amended, reset, merged, picked, renamed
\* or killed half-way, but for what no reflog recorded.  That is lost in two
\* ways.  A clone writes no reflog (clone.rs:186-199), so that a branch or a
\* tag that is deleted, a stash that is dropped or a MERGE_HEAD that is
\* replaced may take the last trace of a cloned tip along, or of a merge that
\* was killed before its reflog.  And an amend or a reset moves the branch
\* off a commit whose reflog could not be written, because record swallows
\* the error (reflog.rs:40-51).
HistoryKept ==
    [][ \A c \in tips \ Kept' :
            c \in Kept =>
                /\ is_ancestor(c, Overwritten) /\ Overwritten \notin logged
                /\ Discards \/ Overwritten \in swallowed ]_localVars

\* Once the repository has a commit, HEAD names a branch that has one: also
\* when a rename is killed between its three writes.  A branch with a name
\* that only a clone can bring may be deleted under HEAD (branch.rs:153-168).
HeadResolves == tips # {} /\ head \in Legal => Tip # 0

\* An ignored file that the index or HEAD has all the same: the walk of the
\* stash does not see it.
LeftOut(p) == p \in Ignored /\ (index[p] # NoFile \/ TreeOf(Tip)[p] # NoFile)

\* No command loses work, with two exceptions.  A switch overwrites or removes
\* a file only if its content is that of a branch.  What is stashed is always
\* in the work tree or in the stash: a push takes a file or the index away
\* only after refs/stash holds it, and a pop drops the stash only when its
\* files and its index are in place.  The first exception: a tracked file
\* that .gytignore matches is not put into the stash (stash.rs:518-519) and
\* is overwritten with HEAD's (stash.rs:643-660).  A pop or an apply "refuse[s]
\* if any tracked-or-untracked workdir file would be overwritten with
\* different content" (stash.rs:269-270); the second exception is a file that
\* is as the index has it, so that staged work is overwritten and unstaged
\* work is not.
WorkKept ==
    [][ /\ running = "switch" =>
             \A p \in Path : work[p] \in {work'[p], NoFile} \cup {TreeOf(refs[b])[p] : b \in Branch}
        /\ running = "stash_push" =>
             /\ index' # index => stash # 0 /\ TreeOf(Stashed.parents[2]) = index
             /\ \A p \in Path : work'[p] # work[p] /\ work[p] # NoFile =>
                    stash # 0 /\ (work[p] = Stashed.tree[p] \/ LeftOut(p))
        /\ running \in {"stash_pop", "stash_apply"} =>
             \A p \in Path : work'[p] # work[p] /\ work[p] # NoFile => work[p] = index[p]
        /\ running = "stash_pop" /\ stash' # stash =>
             /\ index = TreeOf(Stashed.parents[2])
             /\ \A p \in Files(Stashed.tree) : work[p] = Stashed.tree[p] ]_localVars

\* Conflict markers are in the work tree only after the state file that says
\* a merge or a pick is in progress.
MarkersAnnounced == Markers \in {work[p] : p \in Path} => MERGE_HEAD # 0 \/ CHERRY_PICK_HEAD # 0

=============================================================================
