------------------------------ MODULE Worktree ------------------------------
(***************************************************************************)
(* gyt worktree add and gyt worktree remove, run by several shells beside  *)
(* the commands of the main work tree and beside users who edit files.     *)
(*                                                                         *)
(* add holds refs.lock from its beginning to its end; remove takes no      *)
(* lock.  Each of their writes is a step of its own, and a shell can be    *)
(* killed between any two.  A commit is known by its tree, a function from *)
(* its files to their contents.  The index in the entry of a worktree is   *)
(* left out: no command reads it, because Repo::open does not follow the   *)
(* .gyt file of a worktree.                                                *)
(***************************************************************************)
EXTENDS Naturals, FiniteSets, Functions

CONSTANTS
    Shell,          \* the processes
    WtPath,         \* the directories that add is called with
    InsideGyt,      \* those below the .gyt directory of the repository
    Basename,       \* the name each of them is registered under
    WtBranch,       \* names of branches
    WtTree,         \* the trees of the commits
    FirstTips,      \* the branches at the beginning, a function of WtBranch
    FirstHead,      \* the branch of the main work tree at the beginning
    WtFile,         \* the files of trees and work trees
    WtIgnored,      \* those that ignore files match
    Edited,         \* what a user writes into a file
    NoWt,           \* no branch, directory, entry or file content
    MaxWtCommands,  \* bound on the calls of add and remove
    MaxWtEvents     \* bound on moves of main, edits and kills

WtName == {Basename[p] : p \in WtPath}

\* A directory: whether it has a .gyt file, and its files.
WtContents == {Edited} \cup UNION {{t[f] : f \in DOMAIN t} : t \in WtTree}
WtFiles == UNION {[F -> WtContents] : F \in SUBSET WtFile}
WtDir == [marker : BOOLEAN, files : WtFiles]

\* What a user writes is in no commit.
ASSUME WorktreeAssumption ==
    /\ NoWt \notin Shell \cup WtPath \cup WtBranch \cup WtTree \cup WtDir
    /\ FirstTips \in [WtBranch -> WtTree \cup {NoWt}]
    /\ FirstHead \in WtBranch
    /\ \A t \in WtTree : DOMAIN t \subseteq WtFile /\ \A f \in DOMAIN t : t[f] # Edited

VARIABLES
    branchTips,           \* the branches: a tree or NoWt
    mainHead,       \* the branch that the main work tree is on
    disk,           \* the directories: NoWt, or their .gyt file and files
    entry,          \* .gyt/worktrees/<name>: NoWt, or HEAD and gytdir
    shell,          \* what each shell is doing
    refsLock,       \* the shell that holds refs.lock, or NoWt
    wtCalls         \* how often things have happened, for the bounds

worktreeVars == <<branchTips, mainHead, disk, entry, shell, refsLock, wtCalls>>

NoJob == [pc |-> "idle"]
EmptyDir == [marker |-> FALSE, files |-> [f \in {} |-> NoWt]]

WorktreeInit ==
    /\ branchTips = FirstTips
    /\ mainHead = FirstHead
    /\ disk = [p \in WtPath |-> NoWt]
    /\ entry = [n \in WtName |-> NoWt]
    /\ shell = [s \in Shell |-> NoJob]
    /\ refsLock = NoWt
    /\ wtCalls = [commands |-> 0, events |-> 0]

WtCommand == wtCalls.commands < MaxWtCommands /\ wtCalls' = [wtCalls EXCEPT !.commands = @ + 1]
WtEvent == wtCalls.events < MaxWtEvents /\ wtCalls' = [wtCalls EXCEPT !.events = @ + 1]

SetJob(s, j) == shell' = [shell EXCEPT ![s] = j]
ToStep(s, pc) == shell' = [shell EXCEPT ![s].pc = pc]

\* Adder s returns, successfully or not, and drops refs.lock.
EndAdd(s) == SetJob(s, NoJob) /\ refsLock' = NoWt

Put(files, f, c) == [x \in DOMAIN files \cup {f} |-> IF x = f THEN c ELSE files[x]]

(***************************************************************************)
(* worktree add                                                            *)
(***************************************************************************)

\* With new = TRUE (-b) the branch must not exist and is created at base.
AddBegin(s, p, b, new, base) ==
    /\ shell[s] = NoJob
    /\ refsLock = NoWt
    /\ WtCommand
    /\ disk[p] = NoWt
    /\ IF new THEN branchTips[b] = NoWt /\ branchTips[base] # NoWt ELSE branchTips[b] # NoWt /\ base = b
    /\ branchTips' = [branchTips EXCEPT ![b] = branchTips[base]]
    /\ refsLock' = s
    /\ SetJob(s, [pc |-> "mkdir", path |-> p, name |-> Basename[p], branch |-> b,
              tree |-> branchTips[base], todo |-> DOMAIN branchTips[base]])
    /\ UNCHANGED <<mainHead, disk, entry>>

MakeDir(s) ==
    /\ shell[s].pc = "mkdir"
    /\ disk' = [disk EXCEPT ![shell[s].path] = EmptyDir]
    /\ ToStep(s, "check")
    /\ UNCHANGED <<branchTips, mainHead, entry, refsLock, wtCalls>>

\* Mutant: only the main work tree is looked at.
branch_already_checked_out_Main(b) == mainHead = b

\* The main work tree has the branch, or an entry whose HEAD can be read.
branch_already_checked_out(b) ==
    mainHead = b \/ \E n \in WtName : entry[n] # NoWt /\ entry[n].head = b

\* A refused add leaves the new directory and the new branch behind.
\* The refusal of the main work tree itself is not there: a path that exists
\* was refused before.
Register(s) ==
    /\ shell[s].pc = "check"
    /\ IF \/ shell[s].path \in InsideGyt
          \/ entry[shell[s].name] # NoWt
          \/ branch_already_checked_out(shell[s].branch)
       THEN EndAdd(s) /\ UNCHANGED entry
       ELSE /\ entry' = [entry EXCEPT ![shell[s].name] = [head |-> NoWt, gytdir |-> NoWt]]
            /\ ToStep(s, "head")
            /\ UNCHANGED refsLock
    /\ UNCHANGED <<branchTips, mainHead, disk, wtCalls>>

\* A file of the entry is written.  It fails when a remover has removed the
\* directory of the entry.
WriteEntry(s, pc, e, next) ==
    /\ shell[s].pc = pc
    /\ IF entry[shell[s].name] = NoWt
       THEN EndAdd(s) /\ UNCHANGED entry
       ELSE entry' = [entry EXCEPT ![shell[s].name] = e] /\ ToStep(s, next) /\ UNCHANGED refsLock
    /\ UNCHANGED <<branchTips, mainHead, disk, wtCalls>>

WriteHead(s) ==
    WriteEntry(s, "head", [entry[shell[s].name] EXCEPT !.head = shell[s].branch], "gytdir")

WriteGytdir(s) ==
    WriteEntry(s, "gytdir", [entry[shell[s].name] EXCEPT !.gytdir = shell[s].path], "marker")

WriteMarker(s) ==
    LET p == shell[s].path IN
    /\ shell[s].pc = "marker"
    /\ IF disk[p] = NoWt
       THEN EndAdd(s) /\ UNCHANGED disk
       ELSE /\ disk' = [disk EXCEPT ![p].marker = TRUE]
            /\ SetJob(s, [shell[s] EXCEPT !.pc = "files"])
            /\ UNCHANGED refsLock
    /\ UNCHANGED <<branchTips, mainHead, entry, wtCalls>>

\* materialize_tree_to writes a file.  create_dir_all brings a directory back
\* that has been removed.
MaterializeFile(s, f) ==
    LET p == shell[s].path
        d == IF disk[p] = NoWt THEN EmptyDir ELSE disk[p]
    IN  /\ shell[s].pc = "files"
        /\ f \in shell[s].todo
        /\ disk' = [disk EXCEPT ![p] = [d EXCEPT !.files = Put(@, f, shell[s].tree[f])]]
        /\ SetJob(s, [shell[s] EXCEPT !.todo = @ \ {f}])
        /\ UNCHANGED <<branchTips, mainHead, entry, refsLock, wtCalls>>

\* The index is written and the command returns.
FinishAdd(s) ==
    /\ shell[s].pc = "files"
    /\ shell[s].todo = {}
    /\ EndAdd(s)
    /\ UNCHANGED <<branchTips, mainHead, disk, entry, wtCalls>>

(***************************************************************************)
(* worktree remove                                                         *)
(***************************************************************************)

\* resolve_worktree, and the HEAD of the entry: one that has no gytdir or no
\* HEAD is refused.
RemoveBegin(s, n) ==
    /\ shell[s] = NoJob
    /\ WtCommand
    /\ entry[n] # NoWt
    /\ entry[n].gytdir # NoWt /\ entry[n].head # NoWt
    /\ SetJob(s, [pc |-> "look", path |-> entry[n].gytdir, name |-> n, branch |-> entry[n].head])
    /\ UNCHANGED <<branchTips, mainHead, disk, entry, refsLock>>

\* Mutant: untracked files are not looked for.
worktree_is_dirty_Tracked(files, tree) ==
    \E f \in DOMAIN tree : f \notin DOMAIN files \/ files[f] # tree[f]

\* A file that is not tracked, or a tracked one that is missing or modified.
\* The walk of the directory leaves out ignored files.
worktree_is_dirty(files, tree) ==
    \/ DOMAIN files \ (WtIgnored \cup DOMAIN tree) # {}
    \/ \E f \in DOMAIN tree : f \notin DOMAIN files \/ files[f] # tree[f]

\* A branch that is gone makes the worktree clean.  Otherwise a directory
\* that is gone cannot be walked, and remove fails.
Look(s) ==
    LET p == shell[s].path
        tree == branchTips[shell[s].branch]
    IN  /\ shell[s].pc = "look"
        /\ IF tree # NoWt /\ (disk[p] = NoWt \/ worktree_is_dirty(disk[p].files, tree))
           THEN SetJob(s, NoJob)
           ELSE SetJob(s, [pc |-> "delete", path |-> p, name |-> shell[s].name, checked |-> tree # NoWt,
                        saw |-> IF disk[p] = NoWt THEN EmptyDir.files ELSE disk[p].files])
        /\ UNCHANGED <<branchTips, mainHead, disk, entry, refsLock, wtCalls>>

\* remove_dir_all on the work tree, a file at a time and then the directory,
\* which must be empty: it fails when a file was added behind its back.
DeleteFile(s, f) ==
    LET p == shell[s].path IN
    /\ shell[s].pc = "delete"
    /\ disk[p] # NoWt
    /\ f \in DOMAIN disk[p].files
    /\ disk' = [disk EXCEPT ![p].files = Restrict(@, DOMAIN @ \ {f})]
    /\ UNCHANGED <<branchTips, mainHead, entry, shell, refsLock, wtCalls>>

DeleteMarker(s) ==
    LET p == shell[s].path IN
    /\ shell[s].pc = "delete"
    /\ disk[p] # NoWt
    /\ disk[p].marker
    /\ disk' = [disk EXCEPT ![p].marker = FALSE]
    /\ UNCHANGED <<branchTips, mainHead, entry, shell, refsLock, wtCalls>>

DeleteDir(s) ==
    LET p == shell[s].path IN
    /\ shell[s].pc = "delete"
    /\ disk[p] \in {NoWt, EmptyDir}
    /\ disk' = [disk EXCEPT ![p] = NoWt]
    /\ ToStep(s, "forget")
    /\ UNCHANGED <<branchTips, mainHead, entry, refsLock, wtCalls>>

DeleteFails(s) ==
    LET p == shell[s].path IN
    /\ shell[s].pc = "delete"
    /\ disk[p] # NoWt
    /\ \/ DOMAIN disk[p].files \ DOMAIN shell[s].saw # {}
       \/ disk[p].marker /\ \E t \in Shell : refsLock = t /\ shell[t].path = p
    /\ SetJob(s, NoJob)
    /\ UNCHANGED <<branchTips, mainHead, disk, entry, refsLock, wtCalls>>

\* remove_dir_all on the entry: its files in any order, then the directory.
\* It fails when another remover was first.
ForgetFile(s, field) ==
    LET n == shell[s].name IN
    /\ shell[s].pc = "forget"
    /\ entry[n] # NoWt
    /\ entry[n][field] # NoWt
    /\ entry' = [entry EXCEPT ![n][field] = NoWt]
    /\ UNCHANGED <<branchTips, mainHead, disk, shell, refsLock, wtCalls>>

Forget(s) ==
    LET n == shell[s].name IN
    /\ shell[s].pc = "forget"
    /\ entry[n] \in {NoWt, [head |-> NoWt, gytdir |-> NoWt]}
    /\ entry' = [entry EXCEPT ![n] = NoWt]
    /\ SetJob(s, NoJob)
    /\ UNCHANGED <<branchTips, mainHead, disk, refsLock, wtCalls>>

(***************************************************************************)
(* The main work tree, users and kills                                     *)
(***************************************************************************)

\* switch, commit, and branch -d in the main work tree, under refs.lock.
\* None of them looks at the worktrees.
MainMove(b, t) ==
    /\ refsLock = NoWt
    /\ WtEvent
    /\ branchTips[b] # NoWt
    /\ \/ mainHead' = b /\ t = branchTips[b] /\ UNCHANGED branchTips
       \/ b = mainHead /\ t # branchTips[b] /\ branchTips' = [branchTips EXCEPT ![b] = t] /\ UNCHANGED mainHead
       \/ b # mainHead /\ t = branchTips[b] /\ branchTips' = [branchTips EXCEPT ![b] = NoWt] /\ UNCHANGED mainHead
    /\ UNCHANGED <<disk, entry, shell, refsLock>>

\* A user works in a worktree once it has been added.
EditFile(p, f) ==
    /\ WtEvent
    /\ disk[p] # NoWt
    /\ \A s \in Shell : shell[s] # NoJob /\ shell[s].path = p => shell[s].pc \in {"look", "delete", "forget"}
    /\ disk' = [disk EXCEPT ![p].files = Put(@, f, Edited)]
    /\ UNCHANGED <<branchTips, mainHead, entry, shell, refsLock>>

\* The lock file of a killed adder is reclaimed (FileLock).
KillShell(s) ==
    /\ shell[s] # NoJob
    /\ WtEvent
    /\ SetJob(s, NoJob)
    /\ refsLock' = IF refsLock = s THEN NoWt ELSE refsLock
    /\ UNCHANGED <<branchTips, mainHead, disk, entry>>

WorktreeNext ==
    \/ \E s \in Shell :
        \/ \E p \in WtPath, b, base \in WtBranch, new \in BOOLEAN : AddBegin(s, p, b, new, base)
        \/ MakeDir(s) \/ Register(s) \/ WriteHead(s) \/ WriteGytdir(s) \/ WriteMarker(s)
        \/ \E f \in WtFile : MaterializeFile(s, f) \/ DeleteFile(s, f)
        \/ FinishAdd(s)
        \/ \E n \in WtName : RemoveBegin(s, n)
        \/ Look(s) \/ DeleteMarker(s) \/ DeleteDir(s) \/ DeleteFails(s) \/ Forget(s)
        \/ \E field \in {"head", "gytdir"} : ForgetFile(s, field)
        \/ KillShell(s)
    \/ \E b \in WtBranch, t \in WtTree : MainMove(b, t)
    \/ \E p \in WtPath, f \in WtFile : EditFile(p, f)

WorktreeSpec == WorktreeInit /\ [][WorktreeNext]_worktreeVars

(***************************************************************************)
(* Properties                                                              *)
(***************************************************************************)

OnBranch(n, b) == entry[n] # NoWt /\ entry[n].head = b

\* "Prevent the same branch from being checked out in two worktrees at once"
\* (worktree.rs:191-193): when an entry gets its HEAD, neither the main work
\* tree nor another entry has that branch, whoever adds, removes, switches
\* or is killed beside it.
BranchTakenOnce ==
    [][\A n \in WtName, b \in WtBranch :
          ~OnBranch(n, b) /\ OnBranch(n, b)' =>
              mainHead # b /\ \A m \in WtName \ {n} : ~OnBranch(m, b)]_worktreeVars

Holds(p, f) == disk[p] # NoWt /\ f \in DOMAIN disk[p].files /\ disk[p].files[f] = Edited

\* worktree remove (worktree.rs:368-394) deletes what a user wrote only when
\* it was written after the look for changes, when it is ignored, or when
\* the branch of the worktree is gone.
RemoveKeepsWork ==
    [][\A p \in WtPath, f \in WtFile :
          Holds(p, f) /\ ~Holds(p, f)' =>
              \E s \in Shell :
                  /\ shell[s].pc = "delete" /\ shell[s].path = p
                  /\ shell[s].checked /\ f \notin WtIgnored =>
                        f \notin DOMAIN shell[s].saw \/ shell[s].saw[f] # Edited]_worktreeVars
=============================================================================
