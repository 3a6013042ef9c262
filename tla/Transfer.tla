------------------------------- MODULE Transfer -------------------------------
(***************************************************************************)
(* clone, fetch and pull: a listing of the server's refs, the walk of      *)
(* walk_and_fetch from them, batch by batch, with the depth bookkeeping of *)
(* clone --depth, and the refs written after it.  The client may be killed *)
(* at any time and goes on with a later fetch, on the objects it has.      *)
(*                                                                         *)
(* The server goes through a timeline of refs.  A listing may be of an     *)
(* earlier time, since info/refs is cached, and with prunes, gc removes    *)
(* what the refs of the server no longer need.  The order in which a batch *)
(* is walked is left open.                                                 *)
(***************************************************************************)
EXTENDS Naturals, Sequences, FiniteSets

CONSTANTS
    WireRef,        \* names under refs/heads and refs/tags
    Branches, Main, \* those under refs/heads, and refs/heads/main
    Obj, KindOf, Links,   \* the object graph: what an object names
    Setting,        \* [timeline, prunes, depth]: what may happen, and --depth of the clone, 0 without
    Nothing,
    MaxFetches, MaxCuts

ASSUME TransferAssumption ==
    /\ KindOf \in [Obj -> {"commit", "tree", "blob", "tag"}]
    /\ Links \in [Obj -> SUBSET Obj]
    /\ \A x \in Obj : \A y \in Links[x] :
           \/ KindOf[x] = "commit" /\ KindOf[y] \in {"commit", "tree"}
           \/ KindOf[x] = "tree" /\ KindOf[y] \in {"tree", "blob"}
           \/ KindOf[x] = "tag"
    /\ IsFiniteSet(Obj) /\ Nothing \notin Obj
    /\ Branches \subseteq WireRef
    /\ \A s \in Setting : s.prunes \in BOOLEAN /\ s.depth \in Nat
    /\ \A s \in Setting : s.timeline \in Seq([WireRef -> Obj \cup {Nothing}]) /\ s.timeline # <<>>
    /\ MaxFetches \in Nat /\ MaxCuts \in Nat

VARIABLES
    setting,
    time,           \* the server's refs are setting.timeline[time]
    objects,        \* on the server
    phase,          \* of the client
    have,           \* its object store
    own,            \* the refs that clone wrote
    mirror,         \* refs/remotes, which fetch writes
    shallow,        \* .gyt/shallow
    walk,           \* the state of walk_and_fetch
    fetches, cuts

transferVars == <<setting, time, objects, phase, have, own, mirror, shallow, walk, fetches, cuts>>

CommitObj(S) == {x \in S : KindOf[x] = "commit"}
ParentsOf(c) == CommitObj(Links[c])
Beyond == Cardinality(Obj) + 1      \* larger than every depth: no entry in the map

\* From S along next, one step further with every number.
Steps(next, S) ==
    LET steps[n \in 0..Cardinality(Obj)] ==
            IF n = 0 THEN S ELSE LET s == steps[n - 1] IN s \cup UNION {next[x] : x \in s}
    IN  steps

\* Everything that can be reached from S without following a parent from U.
Followed(U) == [x \in Obj |-> Links[x] \ (IF x \in U THEN ParentsOf(x) ELSE {})]
ReachFrom(S, U) == Steps(Followed(U), S)[Cardinality(Obj)]

Named(listing) == {listing[r] : r \in WireRef} \ {Nothing}

NoRefs == [r \in WireRef |-> Nothing]

NoWalk == [listing |-> NoRefs, refspec |-> FALSE, depth |-> 0, wants |-> {}, batch |-> {}, downloaded |-> {},
           commit_depth |-> [x \in Obj |-> Beyond], walked_at |-> [x \in Obj |-> Beyond],
           boundary |-> {}, unwritten |-> {}]

TransferInit ==
    /\ setting \in Setting
    /\ time = 1
    /\ objects = ReachFrom(Named(setting.timeline[1]), {})
    /\ phase = "none"
    /\ have = {}
    /\ own = NoRefs
    /\ mirror = NoRefs
    /\ shallow = {}
    /\ walk = NoWalk
    /\ fetches = 0 /\ cuts = 0

(***************************************************************************)
(* The server                                                              *)
(***************************************************************************)

\* A push: objects, then the ref.
Publish ==
    /\ time < Len(setting.timeline)
    /\ time' = time + 1
    /\ objects' = objects \cup ReachFrom(Named(setting.timeline[time + 1]), {})
    /\ UNCHANGED <<setting, phase, have, own, mirror, shallow, walk, fetches, cuts>>

Prune ==
    /\ setting.prunes
    /\ objects' = ReachFrom(Named(setting.timeline[time]), {})
    /\ objects' # objects
    /\ UNCHANGED <<setting, time, phase, have, own, mirror, shallow, walk, fetches, cuts>>

\* Objects that cannot be read are left out of the response, which is a 200.
wire_objects_want(ids) == ids \cap objects

(***************************************************************************)
(* The beginning: a listing and the seeds of the walk                      *)
(***************************************************************************)

Seeded(listing, depth) ==
    [NoWalk EXCEPT
        !.listing = listing, !.depth = depth,
        !.wants = Named(listing),
        !.downloaded = Named(listing) \cap have,
        !.commit_depth = [x \in Obj |-> IF x \in Named(listing) THEN 0 ELSE Beyond]]

\* clone into a directory that is empty or not there.
CloneBegin(i) ==
    /\ phase = "none"
    /\ phase' = "cloning"
    /\ walk' = Seeded(setting.timeline[i], setting.depth)
    /\ UNCHANGED <<setting, time, objects, have, own, mirror, shallow, fetches, cuts>>

\* fetch, and the fetch of pull: all refs of the listing or, with a refspec,
\* those of that name.
FetchInto(i, named) ==
    LET listed == {r \in WireRef : setting.timeline[i][r] # Nothing}
    IN  /\ phase = "idle" /\ fetches < MaxFetches
        /\ named = WireRef \/ named \cap listed # {}
        /\ fetches' = fetches + 1
        /\ phase' = "fetching"
        /\ walk' = [Seeded([r \in WireRef |-> IF r \in named THEN setting.timeline[i][r] ELSE Nothing], 0)
                       EXCEPT !.refspec = named # WireRef]
        /\ UNCHANGED <<setting, time, objects, have, own, mirror, shallow, cuts>>

(***************************************************************************)
(* walk_and_fetch                                                          *)
(***************************************************************************)

Walking == phase \in {"cloning", "fetching"}

\* Step 1: what is not on disk is asked for; what comes is stored.
Download ==
    LET shipped == wire_objects_want(walk.wants \ walk.downloaded)
    IN  /\ Walking /\ walk.batch = {} /\ walk.wants # {}
        /\ have' = have \cup shipped
        /\ walk' = [walk EXCEPT !.downloaded = @ \cup shipped, !.batch = walk.wants, !.wants = {}]
        /\ UNCHANGED <<setting, time, objects, phase, own, mirror, shallow, fetches, cuts>>

\* Mutant: an object that is on disk already needs no walk.
enqueue_for_fetch_Present(w, ids) == [w EXCEPT !.downloaded = @ \cup (ids \cap have), !.wants = @ \cup (ids \ have)]

enqueue_for_fetch(w, ids) == [w EXCEPT !.downloaded = @ \cup (ids \cap have), !.wants = @ \cup ids]

\* A tag's target is a tip of its own.
WalkTag(id) ==
    LET lower == {x \in Links[id] : walk.commit_depth[x] > 0}
    IN  enqueue_for_fetch(
            [walk EXCEPT !.commit_depth = [x \in Obj |-> IF x \in lower THEN 0 ELSE @[x]]], lower)

\* Mutant: one commit more than --depth says.
Truncated_OneMore(next_d) == walk.depth > 0 /\ next_d > walk.depth

Truncated(next_d) == walk.depth > 0 /\ next_d >= walk.depth

\* A commit that was walked at this depth or less is left alone; parents that
\* are found at a smaller depth are walked again.
WalkCommit(id) ==
    LET d == walk.commit_depth[id]
        at == IF d = Beyond THEN 0 ELSE d
        next_d == at + 1
        seen == enqueue_for_fetch([walk EXCEPT !.walked_at[id] = at], Links[id] \ ParentsOf(id))
        nearer == {p \in ParentsOf(id) : next_d < walk.commit_depth[p]}
    IN  IF walk.walked_at[id] <= at THEN walk
        ELSE IF Truncated(next_d)
        THEN [seen EXCEPT !.boundary = IF ParentsOf(id) = {} THEN @ ELSE @ \cup {id}]
        ELSE enqueue_for_fetch(
                [seen EXCEPT !.boundary = @ \ {id},
                             !.commit_depth = [x \in Obj |-> IF x \in nearer THEN next_d ELSE @[x]]],
                nearer)

\* Step 2, for one object.  What the server did not ship is passed over.
walk_one(id) ==
    /\ Walking /\ id \in walk.batch
    /\ LET w == IF id \notin walk.downloaded THEN walk
                ELSE CASE KindOf[id] = "commit" -> WalkCommit(id)
                       [] KindOf[id] = "tag" -> WalkTag(id)
                       [] OTHER -> enqueue_for_fetch(walk, Links[id])
       IN  walk' = [w EXCEPT !.batch = @ \ {id}]
    /\ UNCHANGED <<setting, time, objects, phase, have, own, mirror, shallow, fetches, cuts>>

WalkOver == Walking /\ walk.batch = {} /\ walk.wants = {}

\* .gyt/shallow, before any ref.
write_shallow ==
    /\ WalkOver
    /\ shallow' = IF walk.depth > 0 /\ walk.boundary # {} THEN walk.boundary ELSE shallow
    /\ phase' = IF phase = "cloning" THEN "cloned" ELSE "fetched"
    /\ walk' = [walk EXCEPT !.unwritten = {r \in WireRef : walk.listing[r] # Nothing}]
    /\ UNCHANGED <<setting, time, objects, have, own, mirror, fetches, cuts>>

(***************************************************************************)
(* The refs                                                                *)
(***************************************************************************)

WriteOwn(r) ==
    /\ phase = "cloned"
    /\ r \in walk.unwritten
    /\ own' = [own EXCEPT ![r] = walk.listing[r]]
    /\ walk' = [walk EXCEPT !.unwritten = @ \ {r}]
    /\ UNCHANGED <<setting, time, objects, phase, have, mirror, shallow, fetches, cuts>>

WriteMirror(r) ==
    /\ phase = "fetched"
    /\ r \in walk.unwritten
    /\ mirror' = [mirror EXCEPT ![r] = walk.listing[r]]
    /\ walk' = [walk EXCEPT !.unwritten = @ \ {r}]
    /\ UNCHANGED <<setting, time, objects, phase, have, own, shallow, fetches, cuts>>

\* refs/heads/main, or else a branch of the listing.
pick_head ==
    LET listed == {r \in Branches : walk.listing[r] # Nothing}
    IN  IF Main \in listed THEN {Main} ELSE listed

\* What materialize_commit reads.
Checkout(c) == {c} \cup ReachFrom(Links[c] \ ParentsOf(c), {})

\* The branch that is chosen is checked out; a clone that cannot do so fails
\* and removes what it made.
CloneEnds ==
    /\ phase = "cloned" /\ walk.unwritten = {}
    /\ walk' = NoWalk
    /\ \/ /\ pick_head = {} \/ \E h \in pick_head : Checkout(own[h]) \subseteq have
          /\ phase' = "idle"
          /\ UNCHANGED <<have, own, shallow>>
       \/ /\ \E h \in pick_head : ~(Checkout(own[h]) \subseteq have)
          /\ phase' = "none" /\ have' = {} /\ shallow' = {} /\ own' = NoRefs
    /\ UNCHANGED <<setting, time, objects, mirror, fetches, cuts>>

\* With --prune, copies of refs that are gone go too; with a refspec, none of
\* another name does.
FetchEnds(prune) ==
    /\ phase = "fetched" /\ walk.unwritten = {}
    /\ mirror' = IF prune /\ ~walk.refspec THEN walk.listing ELSE mirror
    /\ phase' = "idle"
    /\ walk' = NoWalk
    /\ UNCHANGED <<setting, time, objects, have, own, shallow, fetches, cuts>>

\* A request fails: fetch returns, clone removes what it made.
RequestFails ==
    /\ Walking /\ cuts < MaxCuts
    /\ cuts' = cuts + 1
    /\ walk' = NoWalk
    /\ IF phase = "fetching" THEN phase' = "idle" /\ UNCHANGED have ELSE phase' = "none" /\ have' = {}
    /\ UNCHANGED <<setting, time, objects, own, mirror, shallow, fetches>>

\* The client is killed; a half-made clone has its remote and can fetch.
KillClient ==
    /\ phase \notin {"none", "idle"} /\ cuts < MaxCuts
    /\ cuts' = cuts + 1
    /\ phase' = "idle"
    /\ walk' = NoWalk
    /\ UNCHANGED <<setting, time, objects, have, own, mirror, shallow, fetches>>

TransferNext ==
    \/ Publish \/ Prune \/ Download \/ write_shallow \/ CloneEnds \/ RequestFails \/ KillClient
    \/ \E i \in 1..time : CloneBegin(i) \/ FetchInto(i, WireRef) \/ \E r \in WireRef : FetchInto(i, {r})
    \/ \E x \in Obj : walk_one(x)
    \/ \E r \in WireRef : WriteOwn(r) \/ WriteMirror(r)
    \/ \E prune \in BOOLEAN : FetchEnds(prune)

TransferSpec == TransferInit /\ [][TransferNext]_transferVars

(***************************************************************************)
(* Properties                                                              *)
(***************************************************************************)

\* What log and the other commands walk to: everything behind a ref, up to the
\* commits of .gyt/shallow.
Needed == ReachFrom(Named(own) \cup Named(mirror), shallow)

\* As long as the server does not prune, every ref of the client can be
\* followed to its end, or to the shallow boundary, at any time: after a
\* client was killed in the middle of a batch, and with objects of an
\* unfinished fetch in its store.
RefsFollowable == ~setting.prunes => Needed \subseteq have

\* The commits that a listing names, itself or through tags, and the number of
\* commits between a commit and the nearest of them.
ListedTags(listing) == {x \in Named(listing) : KindOf[x] = "tag"}
Tips(listing) == CommitObj(Named(listing) \cup ReachFrom(ListedTags(listing), CommitObj(Obj)))

Near(listing) == Steps([x \in Obj |-> ParentsOf(x)], Tips(listing))

Distance(c) ==
    LET near == Near(walk.listing)
    IN  IF c \notin near[Cardinality(Obj)] THEN Beyond
        ELSE CHOOSE n \in 0..Cardinality(Obj) : c \in near[n] /\ (n > 0 => c \notin near[n - 1])

CloserThan(n) == {c \in CommitObj(Obj) : Distance(c) < Beyond /\ Distance(c) < n}

\* Commits with a parent that is not in the store.
CutOff == {c \in CommitObj(have) : ~(ParentsOf(c) \subseteq have)}

\* clone --depth=N brings the commits that are less than N away from a ref and
\* no others.  It marks as shallow those that are N - 1 away and have parents,
\* and with that every commit that has a parent missing.  A mark does not say
\* that the parents are absent, as the comment of write_shallow has it
\* (clone.rs:528-531): a parent that another ref is near to is brought for
\* that ref, and its child stays marked.
ShallowExact ==
    phase = "cloning" /\ WalkOver /\ walk.depth > 0 /\ ~setting.prunes =>
        /\ CommitObj(have) = CloserThan(walk.depth)
        /\ walk.boundary = {c \in CloserThan(walk.depth) \ CloserThan(walk.depth - 1) : ParentsOf(c) # {}}
        /\ CutOff \subseteq walk.boundary
===============================================================================
