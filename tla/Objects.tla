------------------------------ MODULE Objects ------------------------------
(***************************************************************************)
(* The object graph: commits, trees and blobs named by the hash of what    *)
(* they contain.  Deps[o] is what o names (a commit its tree and parents,  *)
(* a tree its entries), Parents[o] the commits among them that a commit    *)
(* descends from.  A hash names one content for ever, so both are          *)
(* constants and no object can name itself through others.                 *)
(***************************************************************************)
EXTENDS Naturals

CONSTANTS Object, Deps, Parents

ASSUME GraphAssumption ==
    /\ Deps \in [Object -> SUBSET Object]
    /\ Parents \in [Object -> SUBSET Object]
    /\ \A o \in Object : Parents[o] \subseteq Deps[o]

\* S contains what its members that can be read name.
ClosedIn(S, readable, edges) ==
    \A o \in S \cap readable : edges[o] \subseteq S

\* The ids a walk from seeds marks when it can only read some of the objects:
\* the least set with the seeds that is closed in that sense.
Walk(seeds, readable, edges) ==
    {o \in Object : \A S \in SUBSET Object :
        (seeds \subseteq S /\ ClosedIn(S, readable, edges)) => o \in S}

\* Everything that seeds stand for.
Closure(seeds) == Walk(seeds, Object, Deps)

\* The commits a commit descends from, itself included, as far as readable.
Ancestors(c, readable) == Walk({c}, readable, Parents)
=============================================================================
