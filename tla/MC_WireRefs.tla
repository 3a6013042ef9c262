---------------------------- MODULE MC_WireRefs ----------------------------
(* A first commit a, two children b and c of it, and a child d of b.       *)
EXTENDS WireRefs, TLC

CONSTANTS a, b, c, d, main, issue

Graph == (a :> {}) @@ (b :> {a}) @@ (c :> {a}) @@ (d :> {b})

Starting(x) == [r \in Ref |-> IF r = main THEN x ELSE None]

\* Pushes of one ref.
To(r) == {r :> x : x \in {b, c, d}}
Siblings(r) == {r :> x : x \in {b, c}}

\* A branch on a server that may fail, and one with sign_required.
Branches ==
    [start : {Starting(a)}, batches : {Siblings(main)}, modes : {{"ff", "force"}},
     sign : {FALSE}, faults : {TRUE}]
SignedBranches ==
    [start : {Starting(a), Starting(b)}, batches : {To(main)}, modes : {{"ff", "force"}},
     sign : {TRUE}, faults : {FALSE}]

\* A branch that does not exist yet, and an issue.
FirstPushes ==
    [start : {Starting(None)}, batches : {To(main)}, modes : {{"ff", "lease"}},
     sign : {FALSE}, faults : {FALSE}]
Issues ==
    [start : {Starting(None)}, batches : {To(issue)}, modes : {{"ff", "force"}},
     sign : {FALSE}, faults : {FALSE}]

AllSetups == Branches \cup SignedBranches \cup FirstPushes \cup Issues

\* A server without --allow-force.
FastForward ==
    [start : {Starting(None)}, batches : {To(main)}, modes : {{"ff"}},
     sign : {FALSE}, faults : {FALSE}]

Clients == Permutations(Client)
=============================================================================
