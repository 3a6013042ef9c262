------------------------------ MODULE History ------------------------------
(***************************************************************************)
(* gyt log: the walk over the commits, their order, the filter by path and *)
(* the lanes of --graph.                                                   *)
(*                                                                         *)
(* A query fixes the history and what is asked.  The timestamps are left   *)
(* out: topo_order keeps its ready list sorted newest first and inserts    *)
(* with a binary search for the opposite order, whose result is then       *)
(* unspecified, so any ready commit may come next.                         *)
(***************************************************************************)
EXTENDS Naturals, Sequences, FiniteSets, SequencesExt, Functions

CONSTANTS
    Queries,    \* the histories and what is asked of them
    NoLane      \* a lane that leads nowhere, and a path that is not there

VARIABLES
    query,      \* parents (a function to sequences), stored and shallow commits,
                \* the roots of the walk, the content of the path in each commit,
                \* and whether the path was given
    step,       \* "walk", "order", "draw", "done" or "error"
    stack, nodes,           \* walk: commits to visit; the parents of each node
    indegree, ready, order, \* topo_order
    lanes, drawn            \* render_graph

historyVars == <<query, step, stack, nodes, indegree, ready, order, lanes, drawn>>

NothingListed ==
    /\ stack = query.roots
    /\ nodes = <<>>
    /\ indegree = <<>> /\ ready = {} /\ order = <<>>
    /\ lanes = <<>> /\ drawn = <<>>

HistoryInit == query \in Queries /\ step = "walk" /\ NothingListed

(***************************************************************************)
(* walk                                                                    *)
(***************************************************************************)

AddNode(c, ps) == nodes' = [x \in DOMAIN nodes \cup {c} |-> IF x = c THEN ps ELSE nodes[x]]

\* One round of the loop.  A shallow commit becomes a node without parents,
\* or none if it is not stored; any other one that is not stored is an error.
Visit ==
    LET c == Last(stack)
        known == c \in DOMAIN nodes
        boundary == c \in query.shallow
        stored == c \in query.stored
    IN  /\ step = "walk"
        /\ stack # <<>>
        /\ IF ~known /\ ~boundary /\ ~stored
           THEN step' = "error" /\ UNCHANGED <<stack, nodes>>
           ELSE /\ UNCHANGED step
                /\ stack' = IF known \/ boundary THEN Front(stack)
                            ELSE Front(stack) \o query.parents[c]
                /\ IF known \/ ~stored THEN UNCHANGED nodes
                   ELSE AddNode(c, IF boundary THEN <<>> ELSE query.parents[c])
        /\ UNCHANGED <<query, indegree, ready, order, lanes, drawn>>

(***************************************************************************)
(* topo_order                                                              *)
(***************************************************************************)

\* How often p is a parent of the nodes C.
Count(C, p) == Cardinality({<<c, i>> \in C \X (1..2) : i \in DOMAIN nodes[c] /\ nodes[c][i] = p})

\* Mutant: only first parents are counted.
Indegrees_First == [p \in DOMAIN nodes |-> Cardinality({c \in DOMAIN nodes :
                                                nodes[c] # <<>> /\ nodes[c][1] = p})]

Indegrees == [p \in DOMAIN nodes |-> Count(DOMAIN nodes, p)]

StartOrder ==
    /\ step = "walk"
    /\ stack = <<>>
    /\ step' = "order"
    /\ indegree' = Indegrees
    /\ ready' = {c \in DOMAIN nodes : Indegrees[c] = 0}
    /\ UNCHANGED <<query, stack, nodes, order, lanes, drawn>>

\* A ready commit is emitted; its parents are ready when all of their
\* children are out.
EmitCommit(c) ==
    LET left == [p \in DOMAIN nodes |-> indegree[p] - Count({c}, p)]
    IN  /\ step = "order"
        /\ c \in ready
        /\ order' = Append(order, c)
        /\ indegree' = left
        /\ ready' = (ready \ {c}) \cup {p \in ToSet(nodes[c]) \cap DOMAIN nodes : left[p] = 0}
        /\ UNCHANGED <<query, step, stack, nodes, lanes, drawn>>

EndOrder ==
    /\ step = "order"
    /\ ready = {}
    /\ step' = "draw"
    /\ UNCHANGED <<query, stack, nodes, indegree, ready, order, lanes, drawn>>

(***************************************************************************)
(* The filter by path                                                      *)
(***************************************************************************)

\* The commit changed the path against its first parent; a root, or a parent
\* that cannot be read, counts as a change.
commit_touches_paths(c) ==
    IF nodes[c] = <<>> THEN query.content[c] # NoLane
    ELSE Head(nodes[c]) \notin query.stored \/ query.content[c] # query.content[Head(nodes[c])]

node_matches(c) == ~query.filtered \/ commit_touches_paths(c)

Listed == SelectSeq(order, node_matches)

(***************************************************************************)
(* render_graph                                                            *)
(***************************************************************************)

RECURSIVE Distinct(_, _)
Distinct(ls, seen) ==
    IF ls = <<>> THEN <<>>
    ELSE IF Head(ls) = NoLane THEN <<NoLane>> \o Distinct(Tail(ls), seen)
    ELSE IF Head(ls) \in seen THEN Distinct(Tail(ls), seen)
    ELSE <<Head(ls)>> \o Distinct(Tail(ls), seen \cup {Head(ls)})

RECURSIVE Trimmed(_)
Trimmed(ls) == IF ls # <<>> /\ Last(ls) = NoLane THEN Trimmed(Front(ls)) ELSE ls

compact_lanes(ls) == Trimmed(Distinct(ls, {}))

\* The lanes after commit c is drawn: its own lane goes on to its first
\* parent, and every other parent gets a lane on the right.
Forked(c) ==
    LET ls == IF c \in ToSet(lanes) THEN lanes ELSE Append(lanes, c)
        col == CHOOSE i \in DOMAIN ls : ls[i] = c /\ \A j \in 1..i - 1 : ls[j] # c
        ps == nodes[c]
    IN  IF ps = <<>> THEN [ls EXCEPT ![col] = NoLane]
        ELSE [ls EXCEPT ![col] = Head(ps)] \o Tail(ps)

DrawCommit ==
    /\ step = "draw"
    /\ Len(drawn) < Len(Listed)
    /\ lanes' = compact_lanes(Forked(Listed[Len(drawn) + 1]))
    /\ drawn' = Append(drawn, Listed[Len(drawn) + 1])
    /\ UNCHANGED <<query, step, stack, nodes, indegree, ready, order>>

EndLog ==
    /\ step = "draw"
    /\ Len(drawn) = Len(Listed)
    /\ step' = "done"
    /\ UNCHANGED <<query, stack, nodes, indegree, ready, order, lanes, drawn>>

HistoryNext == Visit \/ StartOrder \/ (\E c \in ready : EmitCommit(c)) \/ EndOrder \/ DrawCommit \/ EndLog

(***************************************************************************)
(* Properties                                                              *)
(***************************************************************************)

ParentsOfNode(c) == IF c \in query.shallow THEN {} ELSE ToSet(query.parents[c])

\* The commits that a path from C leads to without passing a shallow one.
RECURSIVE Upward(_)
Upward(C) ==
    LET D == C \cup UNION {ParentsOfNode(c) : c \in C}
    IN  IF D = C THEN C ELSE Upward(D)

Asked == Upward(ToSet(query.roots))

\* The first parents of c, from c on, as far as the path stays the same.
RECURSIVE Unchanged(_)
Unchanged(c) ==
    {c} \cup IF \E p \in ParentsOfNode(c) :
                    p = query.parents[c][1] /\ p \in query.stored /\ query.content[p] = query.content[c]
             THEN Unchanged(query.parents[c][1]) ELSE {}

\* gyt log (log.rs:160-387) lists every commit that can be reached from the
\* roots up to the shallow boundary, once, and every commit before its
\* parents.  It fails exactly when one of them is missing and not shallow.
\* With a path it lists, for every version of the path, the commit on the
\* line of first parents that the version comes from, and none that left the
\* path as its first parent had it.  Between two rows of
\* --graph (log.rs:389-501) there is one lane for each commit that a drawn one
\* has as parent and that is not drawn yet, and no other: a commit continues
\* the lanes of its children, and only a tip opens a lane.
LogExact ==
    LET open == SelectSeq(lanes, LAMBDA l : l # NoLane) IN
    /\ step = "error" => ~(Asked \subseteq query.stored \cup query.shallow)
    /\ step \in {"draw", "done"} =>
          /\ Asked \subseteq query.stored \cup query.shallow
          /\ ToSet(order) = Asked \cap query.stored
          /\ Len(order) = Cardinality(ToSet(order))
          /\ \A i, j \in DOMAIN order : i < j => order[i] \notin ParentsOfNode(order[j])
    /\ step = "done" =>
          /\ \A c \in ToSet(order) :
                query.content[c] # NoLane => Unchanged(c) \cap ToSet(drawn) # {}
          /\ query.filtered => \A c \in ToSet(drawn) : Unchanged(c) = {c}
    /\ step = "draw" =>
          /\ ToSet(open) = UNION {ParentsOfNode(c) : c \in ToSet(drawn)} \ ToSet(drawn)
          /\ Len(open) = Cardinality(ToSet(open))
=============================================================================
