------------------------------ MODULE MC_Local ------------------------------
(***************************************************************************)
(* The commands that a user runs in a repository, each part on an instance *)
(* of its own: the commands on a work tree (LocalRepo),                    *)
(* getthefuckoutofmyrepo (Purge), the ignore files that they read          *)
(* (Ignore), worktree (Worktree), log (History), and the diffs, merges and *)
(* blames of files that they make (Lines).  One run checks them all: part  *)
(* says which of them moves, and the others stay in an initial state.      *)
(***************************************************************************)
EXTENDS LocalRepo, MC_Purge, Ignore, Lines, Worktree, History, TLC

\* Two files, one of which is ignored, and two branches: no commit, a clone
\* with one branch ahead of the other, two that changed the same file, and two
\* of which one deleted what the other changed; and, for the commands on
\* branches, a clone in which HEAD names a branch that no command here accepts.
CONSTANTS f1, f2, v0, v1, v2, main, topic, odd, mark

T(c, d) == (f1 :> c) @@ (f2 :> d)
Setup(cs, m, t) ==
    [commits |-> cs, refs |-> (main :> m) @@ (topic :> t) @@ (odd :> 0) @@ (mark :> 0), head |-> main,
     logged |-> {m, t} \ {0}]
Cloned(h) == [h EXCEPT !.logged = {}]

Root == [tree |-> T(v0, NoFile), parents |-> <<>>, msg |-> 1]
Then(t, parent, msg) == [tree |-> t, parents |-> <<parent>>, msg |-> msg]

TwoBranches == {
    Setup(<<>>, 0, 0),
    Cloned(Setup(<<Root, Then(T(v1, v0), 1, 2)>>, 1, 2)),
    Setup(<<Root, Then(T(v1, v0), 1, 2), Then(T(v2, NoFile), 1, 3)>>, 2, 3),
    Setup(<<Root, Then(T(v1, NoFile), 1, 2), Then(T(NoFile, v2), 1, 3)>>, 2, 3),
    [Cloned(Setup(<<Root, Then(T(v1, v0), 1, 2), Then(T(v2, NoFile), 1, 3)>>, 0, 3))
        EXCEPT !.refs[odd] = 2, !.head = odd]}

Calls == [a \in Areas |-> IF a \in {"index", "history"} THEN 3 ELSE 4]

\* Every pattern of up to five symbols alone, and three lines out of a dozen,
\* the last of them in a directory, against paths of up to three components.
Names == {<<"a">>, <<"b">>, <<"a", "b">>, <<"a", "b", "a">>}
Below(dir, name) == dir \o <<"/">> \o name
Deep == {Below(n, k) : n \in Names, k \in Names}
Lookups == [name : Names \cup Deep \cup {Below(n, k) : n \in Deep, k \in {<<"a">>, <<"b">>}},
            is_dir : BOOLEAN]
ALine(dir, r) == [anchor |-> dir, raw |-> r]
Dozen == {<<>>, <<"#", "a">>, <<"!">>, <<"a">>, <<"!", "a">>, <<"*">>, <<"a", "/">>, <<"/", "b">>,
          <<"!", "*", "/">>, <<"*", "*", "/", "b">>, <<"!", "a", "/", "*", "*">>,
          <<"a", "/", "*", "*", "/", "b">>}
OneLine == {<<ALine(<<>>, r)>> : r \in BoundedSeq({"a", "b", "/", "?", "*"}, 5)}
ThreeLines == {<<ALine(<<>>, r), ALine(<<>>, s), ALine(<<"a">>, t)>> : r \in Dozen, s \in Dozen, t \in Dozen}
Ignores == OneLine \cup ThreeLines

\* Pairs of files of up to five lines and triples of up to three, over two
\* different lines, some without the last newline, and files with up to three
\* versions, of which older ones may lack the file or be unreadable.
Texts(n) == {[lines |-> s, nl |-> e] : s \in BoundedSeq(Line, n), e \in BOOLEAN} \ {[lines |-> <<>>, nl |-> FALSE]}
Ended(n) == {[lines |-> s, nl |-> TRUE] : s \in BoundedSeq(Line, n)}
Pairs == {[a |-> f, b |-> g] : f \in Ended(5), g \in Ended(5)} \cup {[a |-> f, b |-> g] : f \in Texts(4), g \in Texts(4)}
Versions == {<<f>> \o rest : f \in BoundedSeq(Line, 3),
                             rest \in UNION {[1 .. n -> BoundedSeq(Line, 2) \cup {Gone, Unread}] : n \in 0 .. 2}}
Triples == {[base |-> f, ours |-> g, theirs |-> h] : f \in Ended(3), g \in Ended(3), h \in Ended(3)}
           \cup {[base |-> f, ours |-> g, theirs |-> h] : f \in Texts(2), g \in Texts(2), h \in Texts(2)}

\* Two directories for worktrees and one in .gyt, the branch of the main work tree and a name
\* for another one; one file is tracked, one is not and one is ignored.
CONSTANTS p1, p2, p3, n1, n2, b1, b2

BaseNames == (p1 :> n1) @@ (p2 :> n2) @@ (p3 :> n1)
TreeA == f1 :> v0
TreeB == f1 :> v1
Trees == {TreeA, TreeB}
Tips == (b1 :> TreeA) @@ (b2 :> NoWt)

\* Every history of four commits with up to two parents each.
UpToTwo(n) == {<<>>} \cup {<<i>> : i \in 1 .. n - 1} \cup {ij \in (1 .. n - 1) \X (1 .. n - 1) : ij[1] # ij[2]}
Dags == {<< <<>>, q2, q3, q4 >> : q2 \in UpToTwo(2), q3 \in UpToTwo(3), q4 \in UpToTwo(4)}
Kept1 == <<1, 1, 2, 1>>
Added2 == <<NoLane, 1, 1, NoLane>>
Logs == [parents : Dags, stored : {1 .. 4}, shallow : SUBSET (1 .. 3), roots : {<<4>>, <<3, 4>>, <<4, 2, 3>>},
         content : {Kept1}, filtered : {FALSE}]
        \cup [parents : Dags, stored : {1 .. 4, 2 .. 4, {1, 3, 4}}, shallow : {{}, {2}}, roots : {<<4>>, <<4, 3>>},
              content : {Kept1, Added2}, filtered : {TRUE}]

VARIABLE part

\* Where a part has several initial states, only its own run starts from all.
MCInit ==
    /\ part \in {"local", "purge", "ignore", "lines", "worktree", "log"}
    /\ LocalInit /\ (part # "local" => area = "index" /\ commits = <<>>) /\ (head = odd => area = "history")
    /\ PurgeInit /\ (part # "purge" => before = MCFresh)
    /\ IF part # "ignore" THEN unread = <<ALine(<<>>, <<"a">>)>> ELSE TRUE
    /\ IgnoreInit
    /\ IF part = "lines" THEN LinesInit ELSE input = <<>> /\ pc = "none" /\ NothingDone
    /\ WorktreeInit
    /\ IF part = "log" THEN HistoryInit ELSE query = [roots |-> <<>>] /\ step = "none" /\ NothingListed

\* Everything but the variables of the part that moves.
Except(p) ==
    /\ UNCHANGED part
    /\ p # "local" => UNCHANGED localVars
    /\ p # "purge" => UNCHANGED purgeVars
    /\ p # "ignore" => UNCHANGED ignoreVars
    /\ p # "lines" => UNCHANGED linesVars
    /\ p # "worktree" => UNCHANGED worktreeVars
    /\ p # "log" => UNCHANGED historyVars

MCNext ==
    \/ part = "local" /\ LocalNext /\ Except("local")
    \/ part = "purge" /\ PurgeNext /\ Except("purge")
    \/ part = "ignore" /\ IgnoreNext /\ Except("ignore")
    \/ part = "lines" /\ LinesNext /\ Except("lines")
    \/ part = "worktree" /\ WorktreeNext /\ Except("worktree")
    \/ part = "log" /\ HistoryNext /\ Except("log")

MCSpec ==
    MCInit /\ [][MCNext]_<<part, localVars, purgeVars, ignoreVars, linesVars,
                           worktreeVars, historyVars>>
=============================================================================
