--------------------------- MODULE WorktreeProofs ---------------------------
(* Proofs about Worktree, for any shells, directories, branches and trees.  *)
EXTENDS Worktree, TLAPS

AddPc == {"mkdir", "check", "head", "gytdir", "marker", "files"}

Entry == [head : WtBranch \cup {NoWt}, gytdir : WtPath \cup {NoWt}]

AddJob ==
    {j \in [pc : AddPc, path : WtPath, name : WtName, branch : WtBranch, tree : WtTree, todo : SUBSET WtFile] :
        j.todo \subseteq DOMAIN j.tree}
LookJob == [pc : {"look"}, path : WtPath, name : WtName, branch : WtBranch]
RemoveJob == [pc : {"delete", "forget"}, path : WtPath, name : WtName, checked : BOOLEAN, saw : WtFiles]
Job == {NoJob} \cup AddJob \cup LookJob \cup RemoveJob

\* The types of branches, directories, entries and commands.
WorktreeTypeOK ==
    /\ branchTips \in [WtBranch -> WtTree \cup {NoWt}]
    /\ mainHead \in WtBranch
    /\ disk \in [WtPath -> WtDir \cup {NoWt}]
    /\ entry \in [WtName -> Entry \cup {NoWt}]
    /\ shell \in [Shell -> Job]
    /\ refsLock \in Shell \cup {NoWt}

\* An adder has refs.lock from its beginning to its end.  Nothing of a user
\* is in the directory that it fills, and before it is made there is none.
AddInv(s) ==
    shell[s].pc \in AddPc =>
        /\ refsLock = s
        /\ shell[s].pc = "mkdir" => disk[shell[s].path] = NoWt
        /\ \A f \in WtFile : ~Holds(shell[s].path, f)

\* The branch is still free when the HEAD of the new entry is written.
FreeInv(s) ==
    shell[s].pc = "head" =>
        mainHead # shell[s].branch /\ \A n \in WtName : ~OnBranch(n, shell[s].branch)

\* What the look for changes has let pass.
SawInv(s) ==
    shell[s].pc = "delete" =>
        (shell[s].checked => \A f \in WtFile \ WtIgnored :
            f \in DOMAIN shell[s].saw => shell[s].saw[f] # Edited)

JobInv(s) == AddInv(s) /\ FreeInv(s) /\ SawInv(s)

WorktreeInv == WorktreeTypeOK /\ \A s \in Shell : JobInv(s)

\* The step that a command is at tells its fields.
LEMMA JobShape ==
    ASSUME NEW j \in Job
    PROVE  /\ j.pc \in AddPc => j \in AddJob
           /\ j.pc = "look" => j \in LookJob
           /\ j.pc \in {"delete", "forget"} => j \in RemoveJob
           /\ j.pc \notin AddPc \cup {"look", "delete", "forget"} => j = NoJob
BY DEF Job, AddJob, LookJob, RemoveJob, NoJob, AddPc

\* A file is written into a directory, or removed from it.
LEMMA FilesShape ==
    ASSUME NEW g \in WtFiles
    PROVE  /\ \A f \in WtFile, v \in WtContents : Put(g, f, v) \in WtFiles
           /\ \A f : Restrict(g, DOMAIN g \ {f}) \in WtFiles
<1>1. PICK F \in SUBSET WtFile : g \in [F -> WtContents]
  BY DEF WtFiles
<1>2. ASSUME NEW f \in WtFile, NEW v \in WtContents PROVE Put(g, f, v) \in [F \cup {f} -> WtContents]
  BY <1>1 DEF Put
<1>3. ASSUME NEW f PROVE Restrict(g, DOMAIN g \ {f}) \in [F \ {f} -> WtContents]
  BY <1>1 DEF Restrict
<1>4. ASSUME NEW G \in SUBSET WtFile PROVE [G -> WtContents] \subseteq WtFiles
  BY DEF WtFiles
<1>5. \A f \in WtFile : F \cup {f} \in SUBSET WtFile
  OBVIOUS
<1>6. \A f : F \ {f} \in SUBSET WtFile
  OBVIOUS
<1> QED BY <1>2, <1>3, <1>4, <1>5, <1>6

\* The trees of commits have contents of their own.
LEMMA TreeShape ==
    ASSUME NEW t \in WtTree, NEW f \in DOMAIN t
    PROVE  f \in WtFile /\ t[f] \in WtContents /\ t[f] # Edited
BY WorktreeAssumption DEF WtContents

\* A directory that was just made, or cannot be read, holds no file.
LEMMA EmptyShape == EmptyDir \in WtDir /\ DOMAIN EmptyDir.files = {} /\ EmptyDir.files \in WtFiles
<1>1. [f \in {} |-> NoWt] \in [{} -> WtContents]
  OBVIOUS
<1>2. [f \in {} |-> NoWt] \in WtFiles
  BY <1>1 DEF WtFiles
<1> QED BY <1>2 DEF EmptyDir, WtDir

\* One command moves and the others stay where they are.
LEMMA JobSet ==
    ASSUME WorktreeTypeOK, NEW s \in Shell, NEW j \in Job, SetJob(s, j)
    PROVE  /\ shell' \in [Shell -> Job] /\ shell'[s] = j
           /\ \A o \in Shell \ {s} : shell'[o] = shell[o]
BY DEF WorktreeTypeOK, SetJob

\* The next step of an adder.
LEMMA AddNext ==
    ASSUME WorktreeTypeOK, NEW s \in Shell, NEW pc \in AddPc, shell[s].pc \in AddPc, ToStep(s, pc)
    PROVE  /\ shell' \in [Shell -> Job] /\ \A o \in Shell \ {s} : shell'[o] = shell[o]
           /\ shell'[s] \in AddJob /\ shell'[s].pc = pc /\ shell'[s].path = shell[s].path
           /\ shell'[s].name = shell[s].name /\ shell'[s].branch = shell[s].branch
<1>1. shell[s] \in AddJob
  BY JobShape DEF WorktreeTypeOK
<1>2. shell' = [shell EXCEPT ![s] = [shell[s] EXCEPT !.pc = pc]]
  BY DEF ToStep
<1> DEFINE j == [shell[s] EXCEPT !.pc = pc]
<1>3. /\ j \in AddJob /\ j.pc = pc /\ j.path = shell[s].path /\ j.name = shell[s].name
      /\ j.branch = shell[s].branch
  BY <1>1 DEF AddJob
<1> HIDE DEF j
<1>4. j \in Job
  BY <1>3 DEF Job
<1> QED BY <1>2, <1>3, <1>4 DEF WorktreeTypeOK, j

\* What a step may do beside the command o.
LEMMA OtherKept ==
    ASSUME WorktreeInv, NEW o \in Shell, shell'[o] = shell[o],
           shell[o].pc \in AddPc =>
               /\ UNCHANGED <<refsLock, mainHead>>
               /\ disk[shell[o].path] = NoWt => disk'[shell[o].path] = NoWt
               /\ \A f \in WtFile : Holds(shell[o].path, f)' => Holds(shell[o].path, f)
               /\ \A n \in WtName : OnBranch(n, shell[o].branch)' => OnBranch(n, shell[o].branch)
    PROVE  JobInv(o)'
<1>1. JobInv(o)
  BY DEF WorktreeInv
<1>2. AddInv(o)'
  BY <1>1 DEF JobInv, AddInv
<1>3. FreeInv(o)'
  BY <1>1 DEF JobInv, FreeInv, AddPc
<1>4. SawInv(o)'
  BY <1>1 DEF JobInv, SawInv
<1> QED BY <1>2, <1>3, <1>4 DEF JobInv

(***************************************************************************)
(* worktree add                                                            *)
(***************************************************************************)

\* add starts when nobody else holds refs.lock, on a directory that is not
\* there.
LEMMA AddBeginKeeps ==
    ASSUME WorktreeInv, NEW s \in Shell, NEW p \in WtPath, NEW b \in WtBranch, NEW base \in WtBranch,
           NEW new \in BOOLEAN, AddBegin(s, p, b, new, base)
    PROVE  WorktreeInv'
<1> DEFINE j == [pc |-> "mkdir", path |-> p, name |-> Basename[p], branch |-> b,
                 tree |-> branchTips[base], todo |-> DOMAIN branchTips[base]]
<1>1. branchTips[base] \in WtTree
  BY DEF AddBegin, WorktreeInv, WorktreeTypeOK
<1>2. j \in AddJob /\ j.pc = "mkdir" /\ j.path = p
  BY <1>1, WorktreeAssumption DEF AddJob, AddPc, WtName
<1>3. SetJob(s, j) /\ refsLock = NoWt /\ refsLock' = s /\ disk[p] = NoWt /\ UNCHANGED <<mainHead, disk, entry>>
  BY DEF AddBegin
<1> HIDE DEF j
<1>4. shell' \in [Shell -> Job] /\ shell'[s] = j /\ \A o \in Shell \ {s} : shell'[o] = shell[o]
  BY <1>2, <1>3, JobSet DEF WorktreeInv, Job
<1>5. WorktreeTypeOK'
  BY <1>1, <1>3, <1>4 DEF AddBegin, WorktreeInv, WorktreeTypeOK
<1>6. JobInv(s)'
  BY <1>2, <1>3, <1>4 DEF JobInv, AddInv, FreeInv, SawInv, Holds
<1>7. \A o \in Shell : shell[o].pc \notin AddPc
  BY <1>3, WorktreeAssumption DEF WorktreeInv, JobInv, AddInv
<1>8. \A o \in Shell \ {s} : JobInv(o)'
  BY <1>4, <1>7, OtherKept
<1> QED BY <1>5, <1>6, <1>8 DEF WorktreeInv

\* No command but the adder itself is at a step of add.
LEMMA OneAdder ==
    ASSUME WorktreeInv, NEW s \in Shell, shell[s].pc \in AddPc
    PROVE  shell[s] \in AddJob /\ refsLock = s /\ \A o \in Shell \ {s} : shell[o].pc \notin AddPc
BY JobShape DEF WorktreeInv, WorktreeTypeOK, JobInv, AddInv

\* A command that ends leaves no trace among the commands.
LEMMA IdleKeeps ==
    ASSUME WorktreeInv, NEW s \in Shell, SetJob(s, NoJob), WorktreeTypeOK',
           \A o \in Shell \ {s} : shell[o].pc \in AddPc => UNCHANGED <<refsLock, mainHead, disk>>,
           \A n \in WtName, b \in WtBranch : OnBranch(n, b)' => OnBranch(n, b)
    PROVE  WorktreeInv'
<1>1. shell'[s] = NoJob /\ \A o \in Shell \ {s} : shell'[o] = shell[o]
  BY JobSet DEF WorktreeInv, Job
<1>2. JobInv(s)'
  BY <1>1 DEF JobInv, AddInv, FreeInv, SawInv, NoJob, AddPc
<1>3. ASSUME NEW o \in Shell \ {s} PROVE JobInv(o)'
  <2>1. shell[o].pc \in AddPc => shell[o].branch \in WtBranch
    BY JobShape DEF WorktreeInv, WorktreeTypeOK, AddJob
  <2> QED BY <1>1, <1>3, <2>1, OtherKept DEF Holds
<1> QED BY <1>2, <1>3 DEF WorktreeInv

\* The directory is made.
LEMMA MakeDirKeeps ==
    ASSUME WorktreeInv, NEW s \in Shell, MakeDir(s)
    PROVE  WorktreeInv'
<1>1. shell[s].pc = "mkdir" /\ ToStep(s, "check") /\ UNCHANGED <<branchTips, mainHead, entry, refsLock>>
  BY DEF MakeDir
<1>2. shell[s] \in AddJob /\ refsLock = s /\ \A o \in Shell \ {s} : shell[o].pc \notin AddPc
  BY <1>1, OneAdder DEF AddPc
<1>3. /\ shell' \in [Shell -> Job] /\ \A o \in Shell \ {s} : shell'[o] = shell[o]
      /\ shell'[s].pc = "check" /\ shell'[s].path = shell[s].path
  BY <1>1, AddNext DEF WorktreeInv, AddPc
<1>4. shell[s].path \in WtPath /\ disk' \in [WtPath -> WtDir \cup {NoWt}] /\ disk'[shell[s].path] = EmptyDir
  BY <1>2, EmptyShape DEF MakeDir, WorktreeInv, WorktreeTypeOK, AddJob
<1>5. WorktreeTypeOK'
  BY <1>1, <1>3, <1>4 DEF WorktreeInv, WorktreeTypeOK
<1>6. JobInv(s)'
  BY <1>1, <1>2, <1>3, <1>4, EmptyShape DEF JobInv, AddInv, FreeInv, SawInv, Holds
<1>7. \A o \in Shell \ {s} : JobInv(o)'
  BY <1>2, <1>3, OtherKept
<1> QED BY <1>5, <1>6, <1>7 DEF WorktreeInv

\* The check of the branch and the new entry, which has no HEAD yet.
LEMMA RegisterKeeps ==
    ASSUME WorktreeInv, NEW s \in Shell, Register(s)
    PROVE  WorktreeInv'
<1>1. shell[s].pc = "check" /\ UNCHANGED <<branchTips, mainHead, disk>>
  BY DEF Register
<1>2. shell[s] \in AddJob /\ refsLock = s /\ \A o \in Shell \ {s} : shell[o].pc \notin AddPc
  BY <1>1, OneAdder DEF AddPc
<1>3. CASE EndAdd(s) /\ UNCHANGED entry
  <2>1. SetJob(s, NoJob) /\ refsLock' = NoWt
    BY <1>3 DEF EndAdd
  <2>2. WorktreeTypeOK'
    BY <1>1, <1>3, <2>1, JobSet DEF WorktreeInv, WorktreeTypeOK, Job
  <2> QED BY <1>2, <1>3, <2>1, <2>2, IdleKeeps DEF OnBranch
<1>4. CASE /\ ~(entry[shell[s].name] # NoWt \/ branch_already_checked_out(shell[s].branch))
           /\ entry' = [entry EXCEPT ![shell[s].name] = [head |-> NoWt, gytdir |-> NoWt]]
           /\ ToStep(s, "head") /\ UNCHANGED refsLock
  <2> DEFINE e == [head |-> NoWt, gytdir |-> NoWt]
  <2>1. e \in Entry /\ e.head = NoWt
    BY DEF Entry
  <2>2. shell[s].name \in WtName /\ shell[s].branch \in WtBranch
    BY <1>2 DEF AddJob
  <2>3. entry'[shell[s].name] = e /\ \A n \in WtName \ {shell[s].name} : entry'[n] = entry[n]
    BY <1>4, <2>2 DEF WorktreeInv, WorktreeTypeOK
  <2> HIDE DEF e
  <2>4. entry' \in [WtName -> Entry \cup {NoWt}]
    BY <1>4, <2>1, <2>2 DEF WorktreeInv, WorktreeTypeOK, e
  <2>5. /\ shell' \in [Shell -> Job] /\ \A o \in Shell \ {s} : shell'[o] = shell[o]
        /\ shell'[s].pc = "head" /\ shell'[s].path = shell[s].path /\ shell'[s].branch = shell[s].branch
    BY <1>1, <1>4, AddNext DEF WorktreeInv, AddPc
  <2>6. WorktreeTypeOK'
    BY <1>1, <1>4, <2>4, <2>5 DEF WorktreeInv, WorktreeTypeOK
  <2>7. AddInv(s)' /\ SawInv(s)'
    BY <1>1, <1>2, <1>4, <2>5 DEF WorktreeInv, JobInv, AddInv, SawInv, Holds, AddPc
  <2>8. FreeInv(s)'
    BY <1>1, <1>4, <2>1, <2>2, <2>3, <2>5, WorktreeAssumption
    DEF FreeInv, OnBranch, branch_already_checked_out
  <2>9. \A o \in Shell \ {s} : JobInv(o)'
    BY <1>2, <2>5, OtherKept
  <2> QED BY <2>6, <2>7, <2>8, <2>9 DEF WorktreeInv, JobInv
<1> QED BY <1>3, <1>4 DEF Register

\* A file of the entry is written, by the adder that the entry belongs to.
LEMMA WriteEntryKeeps ==
    ASSUME WorktreeInv, NEW s \in Shell, NEW pc \in AddPc \ {"mkdir"}, NEW next \in AddPc \ {"mkdir", "head"},
           NEW e, entry[shell[s].name] # NoWt => e \in Entry, WriteEntry(s, pc, e, next)
    PROVE  WorktreeInv'
<1>1. shell[s].pc = pc /\ UNCHANGED <<branchTips, mainHead, disk>>
  BY DEF WriteEntry
<1>2. shell[s] \in AddJob /\ refsLock = s /\ \A o \in Shell \ {s} : shell[o].pc \notin AddPc
  BY <1>1, OneAdder
<1>3. CASE EndAdd(s) /\ UNCHANGED entry
  <2>1. SetJob(s, NoJob) /\ refsLock' = NoWt
    BY <1>3 DEF EndAdd
  <2>2. WorktreeTypeOK'
    BY <1>1, <1>3, <2>1, JobSet DEF WorktreeInv, WorktreeTypeOK, Job
  <2> QED BY <1>2, <1>3, <2>1, <2>2, IdleKeeps DEF OnBranch
<1>4. CASE /\ entry[shell[s].name] # NoWt /\ entry' = [entry EXCEPT ![shell[s].name] = e]
           /\ ToStep(s, next) /\ UNCHANGED refsLock
  <2>1. entry' \in [WtName -> Entry \cup {NoWt}]
    BY <1>2, <1>4 DEF WorktreeInv, WorktreeTypeOK, AddJob
  <2>2. /\ shell' \in [Shell -> Job] /\ \A o \in Shell \ {s} : shell'[o] = shell[o]
        /\ shell'[s].pc = next /\ shell'[s].path = shell[s].path
    BY <1>1, <1>4, AddNext DEF WorktreeInv
  <2>3. WorktreeTypeOK'
    BY <1>1, <1>4, <2>1, <2>2 DEF WorktreeInv, WorktreeTypeOK
  <2>4. JobInv(s)'
    BY <1>1, <1>2, <1>4, <2>2 DEF WorktreeInv, JobInv, AddInv, FreeInv, SawInv, Holds, AddPc
  <2>5. \A o \in Shell \ {s} : JobInv(o)'
    BY <1>2, <2>2, OtherKept
  <2> QED BY <2>3, <2>4, <2>5 DEF WorktreeInv
<1> QED BY <1>3, <1>4 DEF WriteEntry

\* add_worktree: a write of the registry entry that keeps the branch of the add keeps the invariant.
LEMMA EntryKeeps ==
    ASSUME WorktreeInv, NEW s \in Shell, WriteHead(s) \/ WriteGytdir(s)
    PROVE  WorktreeInv'
<1>1. CASE WriteHead(s)
  <2> DEFINE e == [entry[shell[s].name] EXCEPT !.head = shell[s].branch]
  <2>1. WriteEntry(s, "head", e, "gytdir")
    BY <1>1 DEF WriteHead
  <2>2. shell[s] \in AddJob
    BY <1>1, OneAdder DEF WriteHead, WriteEntry, AddPc
  <2>3. entry[shell[s].name] # NoWt => e \in Entry
    BY <2>2 DEF WorktreeInv, WorktreeTypeOK, Entry, AddJob
  <2> HIDE DEF e
  <2> QED BY <2>1, <2>3, WriteEntryKeeps DEF AddPc
<1>2. CASE WriteGytdir(s)
  <2> DEFINE e == [entry[shell[s].name] EXCEPT !.gytdir = shell[s].path]
  <2>1. WriteEntry(s, "gytdir", e, "marker")
    BY <1>2 DEF WriteGytdir
  <2>2. shell[s] \in AddJob
    BY <1>2, OneAdder DEF WriteGytdir, WriteEntry, AddPc
  <2>3. entry[shell[s].name] # NoWt => e \in Entry
    BY <2>2 DEF WorktreeInv, WorktreeTypeOK, Entry, AddJob
  <2> HIDE DEF e
  <2> QED BY <2>1, <2>3, WriteEntryKeeps DEF AddPc
<1> QED BY <1>1, <1>2

\* The .gyt file of the worktree.
LEMMA MarkerKeeps ==
    ASSUME WorktreeInv, NEW s \in Shell, WriteMarker(s)
    PROVE  WorktreeInv'
<1> DEFINE p == shell[s].path
<1>1. shell[s].pc = "marker" /\ UNCHANGED <<branchTips, mainHead, entry>>
  BY DEF WriteMarker
<1>2. shell[s] \in AddJob /\ refsLock = s /\ \A o \in Shell \ {s} : shell[o].pc \notin AddPc
  BY <1>1, OneAdder DEF AddPc
<1>3. CASE EndAdd(s) /\ UNCHANGED disk
  <2>1. SetJob(s, NoJob) /\ refsLock' = NoWt
    BY <1>3 DEF EndAdd
  <2>2. WorktreeTypeOK'
    BY <1>1, <1>3, <2>1, JobSet DEF WorktreeInv, WorktreeTypeOK, Job
  <2> QED BY <1>1, <1>2, <2>1, <2>2, IdleKeeps DEF OnBranch
<1>4. CASE /\ disk[p] # NoWt /\ disk' = [disk EXCEPT ![p].marker = TRUE]
           /\ SetJob(s, [shell[s] EXCEPT !.pc = "files"]) /\ UNCHANGED refsLock
  <2> DEFINE j == [shell[s] EXCEPT !.pc = "files"]
  <2>1. j \in AddJob /\ j.pc = "files" /\ j.path = p
    BY <1>2 DEF AddJob, AddPc
  <2> HIDE DEF j
  <2>2. shell' \in [Shell -> Job] /\ shell'[s] = j /\ \A o \in Shell \ {s} : shell'[o] = shell[o]
    BY <1>4, <2>1, JobSet DEF WorktreeInv, Job, j
  <2>3. p \in WtPath /\ disk[p] \in WtDir
    BY <1>2, <1>4 DEF WorktreeInv, WorktreeTypeOK, AddJob
  <2>4. disk' \in [WtPath -> WtDir \cup {NoWt}] /\ disk'[p].files = disk[p].files
    BY <1>4, <2>3 DEF WorktreeInv, WorktreeTypeOK, WtDir
  <2>5. WorktreeTypeOK'
    BY <1>1, <1>4, <2>2, <2>4 DEF WorktreeInv, WorktreeTypeOK
  <2>6. JobInv(s)'
    BY <1>1, <1>2, <1>4, <2>1, <2>2, <2>4 DEF WorktreeInv, JobInv, AddInv, FreeInv, SawInv, Holds, AddPc
  <2>7. \A o \in Shell \ {s} : JobInv(o)'
    BY <1>2, <2>2, OtherKept
  <2> QED BY <2>5, <2>6, <2>7 DEF WorktreeInv
<1> QED BY <1>3, <1>4 DEF WriteMarker

\* A file of the tree, which is not what a user wrote.
LEMMA MaterializeKeeps ==
    ASSUME WorktreeInv, NEW s \in Shell, NEW f \in WtFile, MaterializeFile(s, f)
    PROVE  WorktreeInv'
<1> DEFINE p == shell[s].path
           d == IF disk[p] = NoWt THEN EmptyDir ELSE disk[p]
           g == Put(d.files, f, shell[s].tree[f])
           j == [shell[s] EXCEPT !.todo = @ \ {f}]
<1>1. /\ shell[s].pc = "files" /\ f \in shell[s].todo /\ UNCHANGED <<branchTips, mainHead, entry, refsLock>>
      /\ SetJob(s, j)
  BY DEF MaterializeFile
<1>2. shell[s] \in AddJob /\ refsLock = s /\ \A o \in Shell \ {s} : shell[o].pc \notin AddPc
  BY <1>1, OneAdder DEF AddPc
<1>3. j \in AddJob /\ j.pc = "files" /\ j.path = p /\ p \in WtPath /\ shell[s].tree \in WtTree
  BY <1>1, <1>2 DEF AddJob
<1>4. shell[s].tree[f] \in WtContents /\ shell[s].tree[f] # Edited
  BY <1>1, <1>2, TreeShape DEF AddJob
<1>5. d \in WtDir
  BY <1>3, EmptyShape DEF WorktreeInv, WorktreeTypeOK
<1>6. g \in WtFiles
  BY <1>4, <1>5, FilesShape DEF WtDir
<1>7. disk' = [disk EXCEPT ![p] = [d EXCEPT !.files = g]]
  BY DEF MaterializeFile
<1>8. ASSUME NEW h \in WtFile, h \in DOMAIN g PROVE g[h] # Edited
  <2>1. CASE h = f
    BY <1>4, <1>8, <2>1 DEF Put
  <2>2. CASE h # f
    <3>1. h \in DOMAIN d.files /\ g[h] = d.files[h]
      BY <1>8, <2>2 DEF Put
    <3>2. disk[p] # NoWt
      BY <3>1, EmptyShape
    <3>3. ~Holds(p, h)
      BY <1>1 DEF WorktreeInv, JobInv, AddInv, AddPc
    <3> QED BY <3>1, <3>2, <3>3 DEF Holds
  <2> QED BY <2>1, <2>2
<1> HIDE DEF g, d, j
<1>9. [d EXCEPT !.files = g] \in WtDir /\ [d EXCEPT !.files = g].files = g
  BY <1>5, <1>6 DEF WtDir
<1>10. shell' \in [Shell -> Job] /\ shell'[s] = j /\ \A o \in Shell \ {s} : shell'[o] = shell[o]
  BY <1>1, <1>3, JobSet DEF WorktreeInv, Job
<1>11. disk' \in [WtPath -> WtDir \cup {NoWt}] /\ disk'[p].files = g
  BY <1>3, <1>7, <1>9 DEF WorktreeInv, WorktreeTypeOK
<1>12. WorktreeTypeOK'
  BY <1>1, <1>10, <1>11 DEF WorktreeInv, WorktreeTypeOK
<1>13. JobInv(s)'
  BY <1>1, <1>2, <1>3, <1>8, <1>10, <1>11 DEF JobInv, AddInv, FreeInv, SawInv, Holds, AddPc
<1>14. \A o \in Shell \ {s} : JobInv(o)'
  BY <1>2, <1>10, OtherKept
<1> QED BY <1>12, <1>13, <1>14 DEF WorktreeInv

\* add returns.
LEMMA FinishKeeps ==
    ASSUME WorktreeInv, NEW s \in Shell, FinishAdd(s)
    PROVE  WorktreeInv'
<1>1. shell[s].pc = "files" /\ SetJob(s, NoJob) /\ refsLock' = NoWt /\ UNCHANGED <<branchTips, mainHead, disk, entry>>
  BY DEF FinishAdd, EndAdd
<1>2. \A o \in Shell \ {s} : shell[o].pc \notin AddPc
  BY <1>1, OneAdder DEF AddPc
<1>3. WorktreeTypeOK'
  BY <1>1, JobSet DEF WorktreeInv, WorktreeTypeOK, Job
<1> QED BY <1>1, <1>2, <1>3, IdleKeeps DEF OnBranch

(***************************************************************************)
(* worktree remove                                                         *)
(***************************************************************************)

\* remove finds the worktree.
LEMMA RemoveBeginKeeps ==
    ASSUME WorktreeInv, NEW s \in Shell, NEW n \in WtName, RemoveBegin(s, n)
    PROVE  WorktreeInv'
<1> DEFINE j == [pc |-> "look", path |-> entry[n].gytdir, name |-> n, branch |-> entry[n].head]
<1>1. /\ shell[s] = NoJob /\ SetJob(s, j) /\ UNCHANGED <<branchTips, mainHead, disk, entry, refsLock>>
      /\ entry[n] # NoWt /\ entry[n].gytdir # NoWt /\ entry[n].head # NoWt
  BY DEF RemoveBegin
<1>2. j \in LookJob /\ j.pc = "look"
  BY <1>1 DEF LookJob, WorktreeInv, WorktreeTypeOK, Entry
<1> HIDE DEF j
<1>3. shell' \in [Shell -> Job] /\ shell'[s] = j /\ \A o \in Shell \ {s} : shell'[o] = shell[o]
  BY <1>1, <1>2, JobSet DEF WorktreeInv, Job
<1>4. WorktreeTypeOK'
  BY <1>1, <1>3 DEF WorktreeInv, WorktreeTypeOK
<1>5. JobInv(s)'
  BY <1>2, <1>3 DEF JobInv, AddInv, FreeInv, SawInv, AddPc
<1>6. \A o \in Shell \ {s} : JobInv(o)'
  BY <1>1, <1>3, OtherKept DEF Holds, OnBranch
<1> QED BY <1>4, <1>5, <1>6 DEF WorktreeInv

\* A clean worktree has nothing of a user in it but ignored files.
LEMMA LookKeeps ==
    ASSUME WorktreeInv, NEW s \in Shell, Look(s)
    PROVE  WorktreeInv'
<1> DEFINE p == shell[s].path
           tree == branchTips[shell[s].branch]
           saw == IF disk[p] = NoWt THEN EmptyDir.files ELSE disk[p].files
           j == [pc |-> "delete", path |-> p, name |-> shell[s].name, checked |-> tree # NoWt, saw |-> saw]
<1>1. shell[s].pc = "look" /\ UNCHANGED <<branchTips, mainHead, disk, entry, refsLock>>
  BY DEF Look
<1>2. shell[s] \in LookJob
  BY <1>1, JobShape DEF WorktreeInv, WorktreeTypeOK
<1>3. CASE SetJob(s, NoJob)
  <2>1. WorktreeTypeOK'
    BY <1>1, <1>3, JobSet DEF WorktreeInv, WorktreeTypeOK, Job
  <2> QED BY <1>1, <1>3, <2>1, IdleKeeps DEF OnBranch
<1>4. CASE ~(tree # NoWt /\ (disk[p] = NoWt \/ worktree_is_dirty(disk[p].files, tree))) /\ SetJob(s, j)
  <2>1. saw \in WtFiles /\ tree \in WtTree \cup {NoWt} /\ p \in WtPath /\ shell[s].name \in WtName
    BY <1>2, EmptyShape DEF WorktreeInv, WorktreeTypeOK, WtDir, LookJob
  <2>2. ASSUME tree # NoWt, NEW f \in WtFile \ WtIgnored, f \in DOMAIN saw PROVE saw[f] # Edited
    <3>1. disk[p] # NoWt /\ ~worktree_is_dirty(disk[p].files, tree) /\ saw = disk[p].files
      BY <1>4, <2>2
    <3>2. f \in DOMAIN tree /\ saw[f] = tree[f]
      BY <2>2, <3>1 DEF worktree_is_dirty
    <3> QED BY <2>1, <2>2, <3>2, TreeShape
  <2> HIDE DEF saw, tree
  <2>3. j \in RemoveJob /\ j.pc = "delete" /\ j.checked = (tree # NoWt) /\ j.saw = saw
    BY <2>1 DEF RemoveJob
  <2> HIDE DEF j
  <2>4. shell' \in [Shell -> Job] /\ shell'[s] = j /\ \A o \in Shell \ {s} : shell'[o] = shell[o]
    BY <1>4, <2>3, JobSet DEF WorktreeInv, Job
  <2>5. WorktreeTypeOK'
    BY <1>1, <2>4 DEF WorktreeInv, WorktreeTypeOK
  <2>6. JobInv(s)'
    BY <2>2, <2>3, <2>4 DEF JobInv, AddInv, FreeInv, SawInv, AddPc
  <2>7. \A o \in Shell \ {s} : JobInv(o)'
    BY <1>1, <2>4, OtherKept DEF Holds, OnBranch
  <2> QED BY <2>5, <2>6, <2>7 DEF WorktreeInv
<1> QED BY <1>3, <1>4 DEF Look

\* A step that only takes something out of a directory or out of an entry.
LEMMA TakeKeeps ==
    ASSUME WorktreeInv, UNCHANGED <<branchTips, mainHead, shell, refsLock>>,
           disk' \in [WtPath -> WtDir \cup {NoWt}], entry' \in [WtName -> Entry \cup {NoWt}],
           \A p \in WtPath : disk[p] = NoWt => disk'[p] = NoWt,
           \A p \in WtPath, f \in WtFile : Holds(p, f)' => Holds(p, f),
           \A n \in WtName, b \in WtBranch : OnBranch(n, b)' => OnBranch(n, b)
    PROVE  WorktreeInv'
<1>1. WorktreeTypeOK'
  BY DEF WorktreeInv, WorktreeTypeOK
<1>2. ASSUME NEW o \in Shell PROVE JobInv(o)'
  <2>1. shell[o].pc \in AddPc => shell[o].branch \in WtBranch /\ shell[o].path \in WtPath
    BY JobShape DEF WorktreeInv, WorktreeTypeOK, AddJob
  <2>2. shell[o].pc \in AddPc =>
            /\ disk[shell[o].path] = NoWt => disk'[shell[o].path] = NoWt
            /\ \A f \in WtFile : Holds(shell[o].path, f)' => Holds(shell[o].path, f)
            /\ \A n \in WtName : OnBranch(n, shell[o].branch)' => OnBranch(n, shell[o].branch)
    BY <2>1 DEF Holds, OnBranch
  <2> QED BY <2>2, OtherKept
<1> QED BY <1>1, <1>2 DEF WorktreeInv

\* Deleting the files, and then the directory, which is empty.
LEMMA DeleteKeeps ==
    ASSUME WorktreeInv, NEW s \in Shell
    PROVE  (\E f \in WtFile : DeleteFile(s, f)) \/ DeleteMarker(s) \/ DeleteDir(s) \/ DeleteFails(s)
           => WorktreeInv'
<1> DEFINE p == shell[s].path
<1>1. shell[s].pc = "delete" => shell[s] \in RemoveJob /\ p \in WtPath
  BY JobShape DEF WorktreeInv, WorktreeTypeOK, RemoveJob
<1>2. p \in WtPath /\ disk[p] # NoWt => disk[p] \in WtDir /\ disk[p].files \in WtFiles
  BY DEF WorktreeInv, WorktreeTypeOK, WtDir
<1>3. ASSUME NEW f \in WtFile, DeleteFile(s, f) PROVE WorktreeInv'
  <2> DEFINE g == Restrict(disk[p].files, DOMAIN disk[p].files \ {f})
  <2>1. p \in WtPath /\ disk[p] # NoWt /\ UNCHANGED <<branchTips, mainHead, shell, refsLock, entry>>
    BY <1>1, <1>3 DEF DeleteFile
  <2>2. disk' = [disk EXCEPT ![p].files = g]
    BY <1>3 DEF DeleteFile
  <2>3. g \in WtFiles /\ \A h : h \in DOMAIN g => h \in DOMAIN disk[p].files /\ g[h] = disk[p].files[h]
    BY <1>2, <2>1, FilesShape DEF Restrict
  <2> HIDE DEF g
  <2>4. /\ disk' \in [WtPath -> WtDir \cup {NoWt}] /\ disk'[p].files = g
        /\ \A q \in WtPath \ {p} : disk'[q] = disk[q]
    BY <1>2, <2>1, <2>2, <2>3 DEF WorktreeInv, WorktreeTypeOK, WtDir
  <2>5. \A q \in WtPath, h \in WtFile : Holds(q, h)' => Holds(q, h)
    BY <2>1, <2>3, <2>4 DEF Holds
  <2> QED BY <2>1, <2>4, <2>5, TakeKeeps DEF OnBranch, WorktreeInv, WorktreeTypeOK
<1>4. ASSUME DeleteMarker(s) PROVE WorktreeInv'
  <2>1. /\ p \in WtPath /\ disk[p] # NoWt /\ UNCHANGED <<branchTips, mainHead, shell, refsLock, entry>>
        /\ disk' = [disk EXCEPT ![p].marker = FALSE]
    BY <1>1, <1>4 DEF DeleteMarker
  <2>2. /\ disk' \in [WtPath -> WtDir \cup {NoWt}] /\ disk'[p].files = disk[p].files
        /\ \A q \in WtPath \ {p} : disk'[q] = disk[q]
    BY <1>2, <2>1 DEF WorktreeInv, WorktreeTypeOK, WtDir
  <2>3. \A q \in WtPath, h \in WtFile : Holds(q, h)' => Holds(q, h)
    BY <2>1, <2>2 DEF Holds
  <2> QED BY <2>1, <2>2, <2>3, TakeKeeps DEF OnBranch, WorktreeInv, WorktreeTypeOK
<1>5. ASSUME DeleteDir(s) PROVE WorktreeInv'
  <2>1. /\ shell[s].pc = "delete" /\ disk' = [disk EXCEPT ![p] = NoWt] /\ ToStep(s, "forget")
        /\ UNCHANGED <<branchTips, mainHead, entry, refsLock>>
    BY <1>5 DEF DeleteDir
  <2> DEFINE j == [shell[s] EXCEPT !.pc = "forget"]
  <2>2. j \in RemoveJob /\ j.pc = "forget"
    BY <1>1, <2>1 DEF RemoveJob
  <2>3. SetJob(s, j)
    BY <2>1 DEF ToStep, SetJob
  <2> HIDE DEF j
  <2>4. shell' \in [Shell -> Job] /\ shell'[s] = j /\ \A o \in Shell \ {s} : shell'[o] = shell[o]
    BY <2>2, <2>3, JobSet DEF WorktreeInv, Job
  <2>5. \A q \in WtPath : disk'[q] \in {disk[q], NoWt}
    BY <2>1 DEF WorktreeInv, WorktreeTypeOK
  <2>6. WorktreeTypeOK'
    BY <2>1, <2>4 DEF WorktreeInv, WorktreeTypeOK
  <2>7. JobInv(s)'
    BY <2>2, <2>4 DEF JobInv, AddInv, FreeInv, SawInv, AddPc
  <2>8. ASSUME NEW o \in Shell \ {s} PROVE JobInv(o)'
    <3>1. shell[o].pc \in AddPc => shell[o].path \in WtPath
      BY JobShape DEF WorktreeInv, WorktreeTypeOK, AddJob
    <3> QED BY <2>1, <2>4, <2>5, <2>8, <3>1, OtherKept DEF Holds, OnBranch
  <2> QED BY <2>6, <2>7, <2>8 DEF WorktreeInv
<1>6. ASSUME DeleteFails(s) PROVE WorktreeInv'
  <2>1. SetJob(s, NoJob) /\ UNCHANGED <<branchTips, mainHead, disk, entry, refsLock>>
    BY <1>6 DEF DeleteFails
  <2>2. WorktreeTypeOK'
    BY <2>1, JobSet DEF WorktreeInv, WorktreeTypeOK, Job
  <2> QED BY <2>1, <2>2, IdleKeeps DEF OnBranch
<1> QED BY <1>3, <1>4, <1>5, <1>6

\* Deleting the entry.
LEMMA ForgetKeeps ==
    ASSUME WorktreeInv, NEW s \in Shell
    PROVE  Forget(s) \/ (\E field \in {"head", "gytdir"} : ForgetFile(s, field)) => WorktreeInv'
<1> DEFINE n == shell[s].name
<1>1. shell[s].pc = "forget" => n \in WtName
  BY JobShape DEF WorktreeInv, WorktreeTypeOK, RemoveJob
<1>2. ASSUME Forget(s) PROVE WorktreeInv'
  <2>1. /\ SetJob(s, NoJob) /\ UNCHANGED <<branchTips, mainHead, disk, refsLock>>
        /\ n \in WtName /\ entry' = [entry EXCEPT ![n] = NoWt]
    BY <1>1, <1>2 DEF Forget
  <2>2. WorktreeTypeOK'
    BY <2>1, JobSet DEF WorktreeInv, WorktreeTypeOK, Job
  <2>3. \A m \in WtName : entry'[m] \in {entry[m], NoWt}
    BY <2>1 DEF WorktreeInv, WorktreeTypeOK
  <2>4. \A m \in WtName, b \in WtBranch : OnBranch(m, b)' => OnBranch(m, b)
    BY <2>3 DEF OnBranch
  <2> QED BY <2>1, <2>2, <2>4, IdleKeeps
<1>3. ASSUME NEW field \in {"head", "gytdir"}, ForgetFile(s, field) PROVE WorktreeInv'
  <2>1. /\ UNCHANGED <<branchTips, mainHead, shell, refsLock, disk>> /\ n \in WtName /\ entry[n] # NoWt
        /\ entry' = [entry EXCEPT ![n][field] = NoWt]
    BY <1>1, <1>3 DEF ForgetFile
  <2>2. entry[n] \in Entry
    BY <2>1 DEF WorktreeInv, WorktreeTypeOK
  <2>3. /\ entry' \in [WtName -> Entry \cup {NoWt}] /\ entry'[n].head \in {entry[n].head, NoWt}
        /\ \A m \in WtName \ {n} : entry'[m] = entry[m]
    BY <2>1, <2>2 DEF WorktreeInv, WorktreeTypeOK, Entry
  <2>4. \A m \in WtName, b \in WtBranch : OnBranch(m, b)' => OnBranch(m, b)
    BY <2>1, <2>3, WorktreeAssumption DEF OnBranch
  <2> QED BY <2>1, <2>3, <2>4, TakeKeeps DEF Holds, WorktreeInv, WorktreeTypeOK
<1> QED BY <1>2, <1>3

(***************************************************************************)
(* The main work tree, users and kills                                     *)
(***************************************************************************)

\* The commands of the main work tree wait for the lock of an adder.
LEMMA MainKeeps ==
    ASSUME WorktreeInv, NEW b \in WtBranch, NEW t \in WtTree, MainMove(b, t)
    PROVE  WorktreeInv'
<1>1. refsLock = NoWt /\ UNCHANGED <<disk, entry, shell, refsLock>>
  BY DEF MainMove
<1>2. \A o \in Shell : shell[o].pc \notin AddPc
  BY <1>1, WorktreeAssumption DEF WorktreeInv, JobInv, AddInv
<1>3. WorktreeTypeOK'
  BY <1>1 DEF MainMove, WorktreeInv, WorktreeTypeOK
<1>4. \A o \in Shell : JobInv(o)'
  BY <1>1, <1>2, OtherKept
<1> QED BY <1>3, <1>4 DEF WorktreeInv

\* A user writes into a directory that no adder fills.
LEMMA EditKeeps ==
    ASSUME WorktreeInv, NEW p \in WtPath, NEW f \in WtFile, EditFile(p, f)
    PROVE  WorktreeInv'
<1> DEFINE g == Put(disk[p].files, f, Edited)
<1>1. disk[p] # NoWt /\ disk' = [disk EXCEPT ![p].files = g] /\ UNCHANGED <<branchTips, mainHead, entry, shell, refsLock>>
  BY DEF EditFile
<1>2. disk[p] \in WtDir /\ g \in WtFiles
  BY <1>1, FilesShape DEF WorktreeInv, WorktreeTypeOK, WtDir, WtContents
<1> HIDE DEF g
<1>3. disk' \in [WtPath -> WtDir \cup {NoWt}] /\ \A q \in WtPath \ {p} : disk'[q] = disk[q]
  BY <1>1, <1>2 DEF WorktreeInv, WorktreeTypeOK, WtDir
<1>4. WorktreeTypeOK'
  BY <1>1, <1>3 DEF WorktreeInv, WorktreeTypeOK
<1>5. ASSUME NEW o \in Shell PROVE JobInv(o)'
  <2>1. shell[o].pc \in AddPc => shell[o].path \in WtPath \ {p}
    BY JobShape DEF EditFile, WorktreeInv, WorktreeTypeOK, AddJob, AddPc, NoJob
  <2> QED BY <1>1, <1>3, <2>1, OtherKept DEF Holds, OnBranch
<1> QED BY <1>4, <1>5 DEF WorktreeInv

\* The lock of a killed adder is free again.
LEMMA KillKeeps ==
    ASSUME WorktreeInv, NEW s \in Shell, KillShell(s)
    PROVE  WorktreeInv'
<1>1. /\ SetJob(s, NoJob) /\ refsLock' = (IF refsLock = s THEN NoWt ELSE refsLock)
      /\ UNCHANGED <<branchTips, mainHead, disk, entry>>
  BY DEF KillShell
<1>2. \A o \in Shell \ {s} : shell[o].pc \in AddPc => refsLock' = refsLock
  BY <1>1 DEF WorktreeInv, JobInv, AddInv
<1>3. WorktreeTypeOK'
  BY <1>1, JobSet DEF WorktreeInv, WorktreeTypeOK, Job
<1> QED BY <1>1, <1>2, <1>3, IdleKeeps DEF OnBranch

\* Every step keeps the invariant.
LEMMA WorktreeStep == WorktreeInv /\ [WorktreeNext]_worktreeVars => WorktreeInv'
<1> SUFFICES ASSUME WorktreeInv, [WorktreeNext]_worktreeVars PROVE WorktreeInv'
  OBVIOUS
<1>1. CASE UNCHANGED worktreeVars
  BY <1>1, TakeKeeps DEF worktreeVars, WorktreeInv, WorktreeTypeOK, Holds, OnBranch
<1> QED
  BY <1>1, AddBeginKeeps, MakeDirKeeps, RegisterKeeps, EntryKeeps, MarkerKeeps, MaterializeKeeps, FinishKeeps,
     RemoveBeginKeeps, LookKeeps, DeleteKeeps, ForgetKeeps, MainKeeps, EditKeeps, KillKeeps
  DEF WorktreeNext

(***************************************************************************)
(* The theorems                                                            *)
(***************************************************************************)

\* Whoever adds, removes, edits, switches or is killed: add holds refs.lock
\* throughout, fills a directory in which there is nothing of a user, and
\* writes the HEAD of an entry while its branch is free; what remove has
\* found clean has nothing of a user in it.
THEOREM WorktreeInvariant == WorktreeSpec => []WorktreeInv
<1>1. WorktreeInit => WorktreeInv
  <2> SUFFICES ASSUME WorktreeInit PROVE WorktreeInv
    OBVIOUS
  <2>1. WorktreeTypeOK
    BY WorktreeAssumption DEF WorktreeInit, WorktreeTypeOK, Job
  <2>2. \A s \in Shell : JobInv(s)
    BY DEF WorktreeInit, JobInv, AddInv, FreeInv, SawInv, AddPc, NoJob
  <2> QED BY <2>1, <2>2 DEF WorktreeInv
<1> QED BY <1>1, WorktreeStep, PTL DEF WorktreeSpec

\* Only WriteHead puts an entry on a branch.
LEMMA HeadStep ==
    ASSUME WorktreeInv, [WorktreeNext]_worktreeVars, NEW n \in WtName, NEW b \in WtBranch,
           ~OnBranch(n, b), OnBranch(n, b)'
    PROVE  \E s \in Shell : WriteHead(s) /\ shell[s].branch = b
<1>1. ASSUME NEW s \in Shell, Register(s) PROVE FALSE
  <2>1. shell[s] \in AddJob
    BY <1>1, OneAdder DEF Register, AddPc
  <2>2. entry' = entry \/ entry' = [entry EXCEPT ![shell[s].name] = [head |-> NoWt, gytdir |-> NoWt]]
    BY <1>1 DEF Register
  <2>3. entry'[n] = entry[n] \/ entry'[n].head = NoWt
    BY <2>1, <2>2 DEF WorktreeInv, WorktreeTypeOK, AddJob
  <2> QED BY <2>3, WorktreeAssumption DEF OnBranch
<1>2. ASSUME NEW s \in Shell, WriteHead(s) PROVE shell[s].branch = b
  <2>1. shell[s] \in AddJob
    BY <1>2, OneAdder DEF WriteHead, WriteEntry, AddPc
  <2>2. \/ entry' = entry
        \/ entry[shell[s].name] # NoWt /\ entry' = [entry EXCEPT ![shell[s].name] = [entry[shell[s].name] EXCEPT !.head = shell[s].branch]]
    BY <1>2 DEF WriteHead, WriteEntry
  <2>3. entry'[n] = entry[n] \/ entry'[n].head = shell[s].branch
    BY <2>1, <2>2 DEF WorktreeInv, WorktreeTypeOK, AddJob, Entry
  <2> QED BY <2>3 DEF OnBranch
<1>3. ASSUME NEW s \in Shell, WriteGytdir(s) PROVE FALSE
  <2>1. shell[s] \in AddJob
    BY <1>3, OneAdder DEF WriteGytdir, WriteEntry, AddPc
  <2>2. \/ entry' = entry
        \/ entry[shell[s].name] # NoWt /\ entry' = [entry EXCEPT ![shell[s].name] = [entry[shell[s].name] EXCEPT !.gytdir = shell[s].path]]
    BY <1>3 DEF WriteGytdir, WriteEntry
  <2>3. entry'[n] = entry[n] \/ (entry[n] # NoWt /\ entry'[n].head = entry[n].head)
    BY <2>1, <2>2 DEF WorktreeInv, WorktreeTypeOK, AddJob, Entry
  <2> QED BY <2>3 DEF OnBranch
<1>4. ASSUME NEW s \in Shell, Forget(s) PROVE FALSE
  <2>1. entry'[n] = entry[n] \/ entry'[n] = NoWt
    BY <1>4 DEF Forget, WorktreeInv, WorktreeTypeOK
  <2> QED BY <2>1 DEF OnBranch
<1>5. ASSUME NEW s \in Shell, NEW field \in {"head", "gytdir"}, ForgetFile(s, field) PROVE FALSE
  <2>1. entry'[n] = entry[n] \/ (entry[n] # NoWt /\ entry'[n].head \in {entry[n].head, NoWt})
    BY <1>5 DEF ForgetFile, WorktreeInv, WorktreeTypeOK, Entry
  <2> QED BY <2>1, WorktreeAssumption DEF OnBranch
<1>6. entry' # entry
  BY DEF OnBranch
<1>7. ASSUME NEW s \in Shell
      PROVE  /\ \A p \in WtPath, c, base \in WtBranch, new \in BOOLEAN : ~AddBegin(s, p, c, new, base)
             /\ ~MakeDir(s) /\ ~WriteMarker(s) /\ ~FinishAdd(s) /\ ~Look(s)
             /\ \A f \in WtFile : ~MaterializeFile(s, f) /\ ~DeleteFile(s, f)
             /\ \A m \in WtName : ~RemoveBegin(s, m)
             /\ ~DeleteMarker(s) /\ ~DeleteDir(s) /\ ~DeleteFails(s) /\ ~KillShell(s)
  BY <1>6, Zenon DEF AddBegin, MakeDir, WriteMarker, MaterializeFile, DeleteFile, FinishAdd, RemoveBegin,
                     Look, DeleteMarker, DeleteDir, DeleteFails, KillShell
<1>8. /\ \A c \in WtBranch, t \in WtTree : ~MainMove(c, t)
      /\ \A p \in WtPath, f \in WtFile : ~EditFile(p, f)
      /\ ~UNCHANGED worktreeVars
  BY <1>6, Zenon DEF MainMove, EditFile, worktreeVars
<1> QED BY <1>1, <1>2, <1>3, <1>4, <1>5, <1>7, <1>8 DEF WorktreeNext

\* Any number of shells: a branch that the main work tree or another worktree
\* has is never checked out in a worktree.
THEOREM TakenOnce == WorktreeSpec => BranchTakenOnce
<1>1. WorktreeInv /\ [WorktreeNext]_worktreeVars =>
        [\A n \in WtName, b \in WtBranch :
          ~OnBranch(n, b) /\ OnBranch(n, b)' =>
              mainHead # b /\ \A m \in WtName \ {n} : ~OnBranch(m, b)]_worktreeVars
  <2> SUFFICES ASSUME WorktreeInv, [WorktreeNext]_worktreeVars, NEW n \in WtName, NEW b \in WtBranch,
                      ~OnBranch(n, b), OnBranch(n, b)'
               PROVE  mainHead # b /\ \A m \in WtName \ {n} : ~OnBranch(m, b)
    OBVIOUS
  <2>1. PICK s \in Shell : WriteHead(s) /\ shell[s].branch = b
    BY HeadStep
  <2> QED BY <2>1 DEF WriteHead, WriteEntry, WorktreeInv, JobInv, FreeInv
<1> QED BY <1>1, WorktreeInvariant, PTL DEF WorktreeSpec, BranchTakenOnce

\* Only DeleteFile takes away what a user wrote.
LEMMA WorkStep ==
    ASSUME WorktreeInv, [WorktreeNext]_worktreeVars, NEW p \in WtPath, NEW f \in WtFile,
           Holds(p, f), ~Holds(p, f)'
    PROVE  \E s \in Shell : DeleteFile(s, f) /\ shell[s].path = p
<1>1. disk' # disk
  BY DEF Holds
<1>2. ASSUME NEW s \in Shell, MakeDir(s) PROVE FALSE
  <2>1. shell[s] \in AddJob /\ disk[shell[s].path] = NoWt
    BY <1>2, OneAdder DEF MakeDir, AddPc, WorktreeInv, JobInv, AddInv
  <2>2. disk'[p] = disk[p] \/ disk[p] = NoWt
    BY <1>2, <2>1 DEF MakeDir, AddJob, WorktreeInv, WorktreeTypeOK
  <2> QED BY <2>2 DEF Holds
<1>3. ASSUME NEW q, NEW d \in WtDir, disk' = [disk EXCEPT ![q] = d],
             q = p => f \in DOMAIN d.files /\ d.files[f] = Edited
      PROVE  FALSE
  <2>1. disk'[p] = (IF q = p THEN d ELSE disk[p])
    BY <1>3 DEF WorktreeInv, WorktreeTypeOK
  <2> QED BY <1>3, <2>1, WorktreeAssumption DEF Holds
<1>4. \A q \in WtPath : disk[q] # NoWt => disk[q] \in WtDir /\ disk[q].files \in WtFiles
  BY DEF WorktreeInv, WorktreeTypeOK, WtDir
<1>5. ASSUME NEW s \in Shell, WriteMarker(s) \/ DeleteMarker(s) PROVE FALSE
  <2> DEFINE q == shell[s].path
  <2>1. q \in WtPath
    BY <1>5, JobShape DEF WriteMarker, DeleteMarker, AddPc, AddJob, RemoveJob, WorktreeInv, WorktreeTypeOK
  <2>2. PICK v \in BOOLEAN : disk[q] # NoWt /\ disk' = [disk EXCEPT ![q] = [disk[q] EXCEPT !.marker = v]]
    BY <1>1, <1>5 DEF WriteMarker, DeleteMarker
  <2> DEFINE d == [disk[q] EXCEPT !.marker = v]
  <2>3. d \in WtDir /\ d.files = disk[q].files
    BY <1>4, <2>1, <2>2 DEF WtDir
  <2> HIDE DEF d
  <2>4. disk' = [disk EXCEPT ![q] = d]
    BY <2>2 DEF d
  <2> HIDE DEF q
  <2>5. q = p => f \in DOMAIN d.files /\ d.files[f] = Edited
    BY <2>3 DEF Holds
  <2> QED BY <1>3, <2>3, <2>4, <2>5
<1>6. ASSUME NEW s \in Shell, NEW h \in WtFile, MaterializeFile(s, h) PROVE FALSE
  <2>1. shell[s] \in AddJob /\ ~Holds(shell[s].path, f)
    BY <1>6, OneAdder DEF MaterializeFile, AddPc, WorktreeInv, JobInv, AddInv
  <2>2. shell[s].path # p
    BY <2>1
  <2>3. \E d : disk' = [disk EXCEPT ![shell[s].path] = d]
    BY <1>6 DEF MaterializeFile
  <2>4. disk'[p] = disk[p]
    BY <2>2, <2>3 DEF WorktreeInv, WorktreeTypeOK
  <2> QED BY <2>4 DEF Holds
<1>7. ASSUME NEW s \in Shell, DeleteDir(s) PROVE FALSE
  <2>1. shell[s].path # p
    BY <1>7, EmptyShape DEF DeleteDir, Holds
  <2>2. disk'[p] = disk[p]
    BY <1>7, <2>1 DEF DeleteDir, WorktreeInv, WorktreeTypeOK
  <2> QED BY <2>2 DEF Holds
<1>8. ASSUME NEW q \in WtPath, NEW h \in WtFile, EditFile(q, h) PROVE FALSE
  <2> DEFINE g == Put(disk[q].files, h, Edited)
             d == [disk[q] EXCEPT !.files = g]
  <2>1. disk[q] # NoWt /\ disk' = [disk EXCEPT ![q] = d]
    BY <1>8 DEF EditFile
  <2>2. g \in WtFiles /\ \A x \in DOMAIN disk[q].files : x \in DOMAIN g /\ g[x] \in {disk[q].files[x], Edited}
    BY <1>4, <2>1, FilesShape DEF Put, WtContents
  <2> HIDE DEF g
  <2>3. d \in WtDir /\ d.files = g
    BY <1>4, <2>1, <2>2 DEF WtDir
  <2> HIDE DEF d
  <2>4. q = p => f \in DOMAIN d.files /\ d.files[f] = Edited
    BY <2>2, <2>3 DEF Holds
  <2> QED BY <1>3, <2>1, <2>3, <2>4
<1>9. ASSUME NEW s \in Shell, NEW h \in WtFile, DeleteFile(s, h) PROVE h = f /\ shell[s].path = p
  <2> DEFINE q == shell[s].path
             g == Restrict(disk[q].files, DOMAIN disk[q].files \ {h})
             d == [disk[q] EXCEPT !.files = g]
  <2>1. q \in WtPath /\ disk[q] # NoWt
    BY <1>9, JobShape DEF DeleteFile, RemoveJob, WorktreeInv, WorktreeTypeOK
  <2>2. disk' = [disk EXCEPT ![q] = d]
    BY <1>9 DEF DeleteFile
  <2>3. g \in WtFiles /\ \A x \in DOMAIN disk[q].files \ {h} : x \in DOMAIN g /\ g[x] = disk[q].files[x]
    BY <1>4, <2>1, FilesShape DEF Restrict
  <2> HIDE DEF g
  <2>4. d \in WtDir /\ d.files = g
    BY <1>4, <2>1, <2>3 DEF WtDir
  <2> HIDE DEF d
  <2>5. q # p => FALSE
    BY <1>3, <2>2, <2>4
  <2>6. h # f /\ q = p => f \in DOMAIN d.files /\ d.files[f] = Edited
    BY <2>3, <2>4 DEF Holds
  <2> QED BY <1>3, <2>2, <2>4, <2>5, <2>6
<1>10. ASSUME NEW s \in Shell
       PROVE  /\ \A q \in WtPath, c, base \in WtBranch, new \in BOOLEAN : ~AddBegin(s, q, c, new, base)
              /\ ~Register(s) /\ ~WriteHead(s) /\ ~WriteGytdir(s) /\ ~FinishAdd(s) /\ ~Look(s)
              /\ \A m \in WtName : ~RemoveBegin(s, m)
              /\ ~DeleteFails(s) /\ ~KillShell(s) /\ ~Forget(s) /\ \A field : ~ForgetFile(s, field)
  BY <1>1, Zenon DEF AddBegin, Register, WriteHead, WriteGytdir, WriteEntry, FinishAdd, RemoveBegin,
                     Look, DeleteFails, KillShell, Forget, ForgetFile
<1>11. (\A c \in WtBranch, t \in WtTree : ~MainMove(c, t)) /\ ~UNCHANGED worktreeVars
  BY <1>1, Zenon DEF MainMove, worktreeVars
<1> QED BY <1>2, <1>5, <1>6, <1>7, <1>8, <1>9, <1>10, <1>11 DEF WorktreeNext

\* remove never deletes what a user wrote before it looked, unless it is
\* ignored or the branch is gone; no other command deletes it at all.
THEOREM WorkIsKept == WorktreeSpec => RemoveKeepsWork
<1>1. WorktreeInv /\ [WorktreeNext]_worktreeVars =>
        [\A p \in WtPath, f \in WtFile :
          Holds(p, f) /\ ~Holds(p, f)' =>
              \E s \in Shell :
                  /\ shell[s].pc = "delete" /\ shell[s].path = p
                  /\ shell[s].checked /\ f \notin WtIgnored =>
                        f \notin DOMAIN shell[s].saw \/ shell[s].saw[f] # Edited]_worktreeVars
  <2> SUFFICES ASSUME WorktreeInv, [WorktreeNext]_worktreeVars, NEW p \in WtPath, NEW f \in WtFile,
                      Holds(p, f), ~Holds(p, f)'
               PROVE  \E s \in Shell :
                        /\ shell[s].pc = "delete" /\ shell[s].path = p
                        /\ shell[s].checked /\ f \notin WtIgnored =>
                              f \notin DOMAIN shell[s].saw \/ shell[s].saw[f] # Edited
    OBVIOUS
  <2>1. PICK s \in Shell : DeleteFile(s, f) /\ shell[s].path = p
    BY WorkStep
  <2> QED BY <2>1 DEF DeleteFile, WorktreeInv, JobInv, SawInv
<1> QED BY <1>1, WorktreeInvariant, PTL DEF WorktreeSpec, RemoveKeepsWork
=============================================================================
