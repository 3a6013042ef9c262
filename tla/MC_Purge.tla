------------------------------ MODULE MC_Purge ------------------------------
(***************************************************************************)
(* Repositories for Purge, with a symbolic link beside a directory of two  *)
(* files: one without commits, a line of three commits under a branch, a   *)
(* merge and a stash, and a history whose branch sits beside an annotated  *)
(* tag and the blob of an issue.                                           *)
(***************************************************************************)
EXTENDS Purge

MCFile == {"keep", "link", "d/a", "d/b"}
MCCanonical == [t \in {"d", "d/a", "link"} |-> IF t = "link" THEN "d/a" ELSE t]
MCCovers == [t \in {"d", "d/a", "link"} |-> IF t = "d" THEN {"d/a", "d/b"} ELSE {"d/a"}]

Made(m, T, ps) == [kind |-> "commit", message |-> m, tree |-> T, parents |-> ps]
C1 == Made(1, {"keep", "link", "d/a"}, <<>>)
C2 == Made(2, {"keep", "d/a", "d/b"}, <<C1>>)
C3 == Made(3, {"d/a"}, <<C2>>)
Side == Made(4, {"d/b"}, <<C1>>)
Join == Made(5, {"keep", "d/a", "d/b"}, <<C2, Side>>)

MCFresh == [refs |-> [r \in {} |-> C1], staged |-> {"keep"}, present |-> MCFile]
MCLine ==
    [refs |-> [r \in {"main"} |-> C3], staged |-> {"link", "d/a"}, present |-> MCFile]
MCLines == {MCLine}
MCRepository ==
    {MCFresh, MCLine,
     [refs |-> [r \in {"main", "stash"} |-> IF r = "main" THEN Join ELSE C2],
      staged |-> MCFile, present |-> MCFile],
     [refs |-> [r \in {"main", "tag", "issue"} |->
                    CASE r = "main" -> C2
                      [] r = "tag" -> [kind |-> "tag", target |-> C1]
                      [] OTHER -> [kind |-> "blob"]],
      staged |-> {}, present |-> {"link", "d/a", "d/b"}]}
MCRefName == {"main", "stash", "tag", "issue"}
=============================================================================
