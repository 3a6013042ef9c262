----------------------------- MODULE MC_GcPush -----------------------------
(* A commit c1 with its tree t, and a child c2 of c1 with the same tree.   *)
EXTENDS GcPush, TLC

CONSTANTS c1, c2, t

SameTreeDeps == (c1 :> {t}) @@ (c2 :> {c1, t}) @@ (t :> {})
SameTreeParents == (c1 :> {}) @@ (c2 :> {c1}) @@ (t :> {})

Pushers == Permutations(Pusher)
=============================================================================
