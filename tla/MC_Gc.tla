------------------------------- MODULE MC_Gc --------------------------------
(***************************************************************************)
(* What is written must be found again, on four instances: gyt gc against  *)
(* pushes (GcPush), gyt gc with the steps inside its packing against       *)
(* readers (Packs), clone and fetch from a server that may prune           *)
(* (Transfer), and the commits that a rebase replays (Rebase).  One run    *)
(* checks them all: part says which of them moves, and the others stay in  *)
(* an initial state.                                                       *)
(***************************************************************************)
EXTENDS MC_GcPush, Packs, Transfer, MC_Rebase

ChainDeps == (c1 :> {}) @@ (c2 :> {c1})

\* Three objects of the same length, packed together or one by one.
ThreeIds == 1 .. 3
SameLength == [i \in ThreeIds |-> 1]

\* A line of three commits and a merge, and tags of the second one.  The
\* server's branch grows, is there at once, or is forced back and pruned.
CONSTANTS main, mark, m1, m2, m3, m4, t1, t2, blob, g1, g2

Kinds == [o \in Obj |-> CASE o \in {m1, m2, m3, m4} -> "commit"
                          [] o \in {t1, t2} -> "tree"
                          [] o \in {g1, g2} -> "tag"
                          [] OTHER -> "blob"]
Edges == (m1 :> {t1}) @@ (m2 :> {m1, t1}) @@ (m3 :> {m2, t2}) @@ (m4 :> {m3, m1, t2}) @@
         (t1 :> {blob}) @@ (t2 :> {blob}) @@ (blob :> {}) @@ (g1 :> {m2}) @@ (g2 :> {g1})
Listing(m, v) == (main :> m) @@ (mark :> v)
Grown == <<Listing(m3, g2), Listing(m4, g2)>>
Whole == <<Listing(m4, Nothing)>>
Forced == <<Listing(m3, Nothing), Listing(m2, g1)>>
Settings == [timeline : {Grown}, prunes : {FALSE}, depth : 0..3]
            \cup [timeline : {Whole}, prunes : {FALSE}, depth : {0, 2}]
            \cup [timeline : {Forced}, prunes : {TRUE}, depth : {0}]

VARIABLE part

\* Transfer has several initial states, and only its own part starts from all.
MCInit ==
    /\ part \in {"push", "packs", "transfer", "rebase"}
    /\ Init
    /\ PacksInit
    /\ TransferInit /\ (part # "transfer" => setting.prunes)
    /\ RebaseInit

MCNext ==
    \/ part = "push" /\ Next /\ UNCHANGED <<part, packVars, transferVars, rebaseVars>>
    \/ part = "packs" /\ PacksNext /\ UNCHANGED <<part, vars, transferVars, rebaseVars>>
    \/ part = "transfer" /\ TransferNext /\ UNCHANGED <<part, vars, packVars, rebaseVars>>
    \/ part = "rebase" /\ RebaseNext /\ UNCHANGED <<part, vars, packVars, transferVars>>

MCSpec == MCInit /\ [][MCNext]_<<part, vars, packVars, transferVars, rebaseVars>>
=============================================================================
