------------------------------- MODULE GcPush -------------------------------
(***************************************************************************)
(* One served repository: clients that push to it over the wire            *)
(* (info/refs, objects/have, refs/update) while gyt gc prunes and packs    *)
(* its object store.                                                       *)
(*                                                                         *)
(* refs.lock and objects.lock are abstract mutexes (see FileLock): gc      *)
(* holds both while it walks and prunes, and refs.lock while it packs;     *)
(* objects/have holds objects.lock, refs/update holds refs.lock.           *)
(* refs/update is one step, since nothing that it reads can change while   *)
(* it holds refs.lock, except the store it only looks its target up in.    *)
(***************************************************************************)
EXTENDS Objects, FiniteSets

CONSTANTS
    Branch,     \* the refs that are pushed to
    Tip,        \* the commits that clients push
    Pusher,     \* client connections
    None,       \* no object, no lock holder
    Interrupts, \* gyt gc may be killed in the middle of a deletion loop
    StoreFails, \* the server may be unable to write an object
    Grace,      \* gc_grace_secs, in clock units
    MaxClock,   \* bound on the clock
    MaxPush     \* bound on the pushes of one client

ASSUME TipAssumption == Tip \subseteq Object /\ None \notin Nat /\ None \notin Object \cup Pusher

ASSUME TimeAssumption == Grace \in Nat /\ MaxClock \in Nat /\ MaxPush \in Nat

ASSUME FaultAssumption == Interrupts \in BOOLEAN /\ StoreFails \in BOOLEAN

VARIABLES
    loose,      \* the mtime of each loose object, None where there is none
    packed,     \* the objects in packs that have an index
    refs,       \* what each branch names
    reflog,     \* the ids in the reflogs
    now,        \* the clock
    objlock,    \* the connection that holds objects.lock, if one does
    gc,         \* the running gyt gc: ids are reachable, then those of a batch
    push        \* the state of each connection

vars == <<loose, packed, refs, reflog, now, objlock, gc, push>>

Loose == {o \in Object : loose[o] # None}
Present == Loose \cup packed

Roots == {refs[b] : b \in {c \in Branch : refs[c] # None}} \cup reflog

GcIdle == [pc |-> "idle", ids |-> {}, rest |-> {}, now |-> 0]
PushIdle(n) == [pc |-> "idle", branch |-> None, tip |-> None, old |-> None,
                todo |-> {}, skipped |-> FALSE, start |-> 0, oldest |-> 0, count |-> n]

GcState == [pc : {"idle", "expired", "walked", "pruned", "packing", "unlinking"},
            ids : SUBSET Object, rest : SUBSET Object, now : Nat]
PushState == [pc : {"idle", "ready", "writing", "sent"},
              branch : Branch \cup {None}, tip : Tip \cup {None}, old : Object \cup {None},
              todo : SUBSET Object, skipped : BOOLEAN, start : Nat, oldest : Nat, count : Nat]

TypeOK ==
    /\ loose \in [Object -> Nat \cup {None}]
    /\ packed \subseteq Object
    /\ refs \in [Branch -> Object \cup {None}]
    /\ reflog \subseteq Object
    /\ now \in Nat
    /\ objlock \in Pusher \cup {None}
    /\ gc \in GcState
    /\ push \in [Pusher -> PushState]

Init ==
    /\ loose = [o \in Object |-> None]
    /\ packed = {}
    /\ refs = [b \in Branch |-> None]
    /\ reflog = {}
    /\ now = 0
    /\ objlock = None
    /\ gc = GcIdle
    /\ push = [p \in Pusher |-> PushIdle(0)]

Set(p, r) == push' = [push EXCEPT ![p] = r]

(***************************************************************************)
(* gyt push and the wire handlers                                          *)
(***************************************************************************)

\* What collect_upload_pack leaves out: the closure of the remote tip, as
\* far as the client has it.  A client has all that its own tip stands for.
OnServer(tip, old) ==
    IF old = None THEN {} ELSE Walk({old}, Closure({tip}), Deps)

\* GET info/refs, then collect_upload_pack.
InfoRefs(p, b, t) ==
    /\ push[p].pc = "idle"
    /\ push[p].count < MaxPush
    /\ Set(p, [pc |-> "ready", branch |-> b, tip |-> t, old |-> refs[b],
               todo |-> Closure({t}) \ OnServer(t, refs[b]),
               skipped |-> FALSE, start |-> 0, oldest |-> 0, count |-> push[p].count + 1])
    /\ UNCHANGED <<loose, packed, refs, reflog, now, objlock, gc>>

\* POST objects/have takes objects.lock first; an empty pack is not sent.
HaveBegin(p) ==
    /\ push[p].pc = "ready"
    /\ \/ /\ push[p].todo # {}
          /\ objlock = None
          /\ gc.pc # "walked"
          /\ objlock' = p
          /\ Set(p, [push[p] EXCEPT !.pc = "writing", !.start = now, !.oldest = now])
       \/ /\ push[p].todo = {}
          /\ objlock' = objlock
          /\ Set(p, [push[p] EXCEPT !.pc = "sent", !.start = now, !.oldest = now])
    /\ UNCHANGED <<loose, packed, refs, reflog, now, gc>>

\* The entries come in the order in which the client's walk found them: the
\* tip, then always something that an entry before it names.
Found(p, o) ==
    \/ o = push[p].tip
    \/ \E r \in Closure({push[p].tip}) \ push[p].todo : o \in Deps[r]

\* write_bytes leaves an object that is there as it is, mtime included.
write_bytes(o) ==
    loose' = IF loose[o] # None THEN loose ELSE [loose EXCEPT ![o] = now]

HaveWrite(p, o) ==
    /\ push[p].pc = "writing"
    /\ o \in push[p].todo
    /\ Found(p, o)
    /\ write_bytes(o)
    /\ Set(p, [push[p] EXCEPT !.todo = @ \ {o},
                              !.oldest = IF loose'[o] < @ THEN loose'[o] ELSE @])
    /\ UNCHANGED <<packed, refs, reflog, now, objlock, gc>>

\* An entry that cannot be stored is skipped, and the response is still 200.
HaveSkip(p, o) ==
    /\ StoreFails
    /\ push[p].pc = "writing"
    /\ o \in push[p].todo
    /\ Found(p, o)
    /\ Set(p, [push[p] EXCEPT !.todo = @ \ {o}, !.skipped = TRUE])
    /\ UNCHANGED <<loose, packed, refs, reflog, now, objlock, gc>>

HaveEnd(p) ==
    /\ push[p].pc = "writing"
    /\ push[p].todo = {}
    /\ objlock' = None
    /\ Set(p, [push[p] EXCEPT !.pc = "sent"])
    /\ UNCHANGED <<loose, packed, refs, reflog, now, gc>>

\* Mutant: the target is not looked up.
Allowed_NoTarget(p) ==
    push[p].old # None =>
         /\ refs[push[p].branch] = push[p].old
         /\ push[p].old \in Ancestors(push[p].tip, Present)

\* evaluate_with_mode in fast-forward mode: the target is in the store, and
\* an update that names an old value names the current one and descends
\* from it.  An update without an old value is not compared with anything.
Allowed(p) ==
    /\ push[p].tip \in Present
    /\ push[p].old # None =>
         /\ refs[push[p].branch] = push[p].old
         /\ push[p].old \in Ancestors(push[p].tip, Present)

Accepts(p) ==
    /\ push[p].pc = "sent"
    /\ gc.pc = "idle"
    /\ Allowed(p)

\* POST refs/update: the ref, then the reflog entry (best effort).
RefsUpdate(p) ==
    /\ Accepts(p)
    /\ refs' = [refs EXCEPT ![push[p].branch] = push[p].tip]
    /\ reflog' \in {reflog, reflog \cup {push[p].tip} \cup ({push[p].old} \ {None})}
    /\ Set(p, PushIdle(push[p].count))
    /\ UNCHANGED <<loose, packed, now, objlock, gc>>

RefsReject(p) ==
    /\ push[p].pc = "sent"
    /\ gc.pc = "idle"
    /\ ~Allowed(p)
    /\ Set(p, PushIdle(push[p].count))
    /\ UNCHANGED <<loose, packed, refs, reflog, now, objlock, gc>>

\* The connection breaks, the handler fails or the server is restarted: what
\* was written stays and the lock file is given back.
Abort(p) ==
    /\ push[p].pc \in {"writing", "sent"}
    /\ Set(p, PushIdle(push[p].count))
    /\ objlock' = IF objlock = p THEN None ELSE objlock
    /\ UNCHANGED <<loose, packed, refs, reflog, now, gc>>

(***************************************************************************)
(* gyt gc                                                                  *)
(***************************************************************************)

\* refs.lock, then expire_reflog: any of the entries may be old enough.
GcExpire ==
    /\ gc.pc = "idle"
    /\ gc' = [gc EXCEPT !.pc = "expired"]
    /\ \E kept \in SUBSET reflog : reflog' = kept
    /\ UNCHANGED <<loose, packed, refs, now, objlock, push>>

\* Mutant: the reflogs are no anchors.
GcWalk_RefsOnly ==
    /\ gc.pc = "expired"
    /\ objlock = None
    /\ gc' = [gc EXCEPT !.pc = "walked", !.ids = Walk(Roots \ reflog, Present, Deps), !.now = now]
    /\ UNCHANGED <<loose, packed, refs, reflog, now, objlock, push>>

\* objects.lock, the clock, and compute_reachable.
GcWalk ==
    /\ gc.pc = "expired"
    /\ objlock = None
    /\ gc' = [gc EXCEPT !.pc = "walked", !.ids = Walk(Roots, Present, Deps), !.now = now]
    /\ UNCHANGED <<loose, packed, refs, reflog, now, objlock, push>>

\* Mutant: no grace period.
Prunable_AtOnce(o) == loose[o] # None /\ o \notin gc.ids

Prunable(o) == loose[o] # None /\ o \notin gc.ids /\ gc.now >= loose[o] + Grace

\* A loop of remove_file over S; when gc is killed some files stay.
RemoveLoose(S) ==
    \E R \in (IF Interrupts THEN SUBSET S ELSE {S}) :
        loose' = [o \in Object |-> IF o \in R THEN None ELSE loose[o]]

GcPrune ==
    /\ gc.pc = "walked"
    /\ RemoveLoose({o \in Object : Prunable(o)})
    /\ gc' = [GcIdle EXCEPT !.pc = "pruned"]
    /\ UNCHANGED <<packed, refs, reflog, now, objlock, push>>

\* gc --pack, with objects.lock released: what is loose is read first.
GcList ==
    /\ gc.pc = "pruned"
    /\ gc' = [gc EXCEPT !.pc = "packing", !.rest = Loose]
    /\ UNCHANGED <<loose, packed, refs, reflog, now, objlock, push>>

\* One batch after the other goes into a pack (write_pack), and only then are
\* its loose files removed.
GcPack(B) ==
    /\ gc.pc = "packing"
    /\ B # {} /\ B \subseteq gc.rest
    /\ gc' = [gc EXCEPT !.pc = "unlinking", !.ids = B, !.rest = @ \ B]
    /\ packed' = packed \cup B
    /\ UNCHANGED <<loose, refs, reflog, now, objlock, push>>

GcUnlinkPacked ==
    /\ gc.pc = "unlinking"
    /\ RemoveLoose(gc.ids)
    /\ gc' = [gc EXCEPT !.pc = "packing", !.ids = {}]
    /\ UNCHANGED <<packed, refs, reflog, now, objlock, push>>

\* Without --pack gc ends with the prune; killed, it ends anywhere.
GcEnd ==
    /\ \/ gc.pc = "pruned"
       \/ gc.pc = "packing" /\ gc.rest = {}
       \/ Interrupts /\ gc.pc # "idle"
    /\ gc' = GcIdle
    /\ UNCHANGED <<loose, packed, refs, reflog, now, objlock, push>>

Tick ==
    /\ now < MaxClock
    /\ now' = now + 1
    /\ UNCHANGED <<loose, packed, refs, reflog, objlock, gc, push>>

Next ==
    \/ \E p \in Pusher :
          \/ \E b \in Branch, t \in Tip : InfoRefs(p, b, t)
          \/ HaveBegin(p) \/ HaveEnd(p)
          \/ \E o \in Object : HaveWrite(p, o) \/ HaveSkip(p, o)
          \/ RefsUpdate(p) \/ RefsReject(p) \/ Abort(p)
    \/ GcExpire \/ GcWalk \/ GcPrune \/ GcList \/ GcUnlinkPacked \/ GcEnd
    \/ \E B \in SUBSET Object : GcPack(B)
    \/ Tick

Spec == Init /\ [][Next]_vars

(***************************************************************************)
(* Properties                                                              *)
(***************************************************************************)

\* Whoever is pushing, and wherever gc is interrupted: an object that a ref
\* or a reflog entry leads to does not leave the store (compute_reachable's
\* "anchors", and pack_loose_objects' write before delete).
KeepReachable ==
    [][Walk(Roots, Present, Deps) \cap Present \subseteq Present']_vars

\* No ref dangles: what a branch names is in the store, although objects/have
\* answers 200 when it skipped entries, the tip among them, and gc runs
\* between objects/have and refs/update.
TipsPresent == \A b \in Branch : refs[b] # None => refs[b] \in Present

\* The step is the acceptance of p's refs/update, after an objects/have that
\* stored every entry.
Accepted(p) ==
    /\ Accepts(p)
    /\ ~push[p].skipped
    /\ push'[p].pc = "idle"
    /\ refs'[push[p].branch] = push[p].tip

\* The history that an accepted update adds to a complete old tip is complete.
Complete(p) ==
    (push[p].old # None => Closure({push[p].old}) \subseteq Present)
        => Closure({push[p].tip}) \subseteq Present'

\* What the grace period gives a push whose refs/update is accepted before
\* the oldest of its objects is Grace old: on top of a complete old tip, the
\* new tip is complete.
GraceCoversPush ==
    [][\A p \in Pusher :
         Accepted(p) /\ now < push[p].oldest + Grace => Complete(p)]_vars

\* What the comment on DEFAULT_GC_GRACE_SECS and Repo::objects_lock promise:
\* a push that gets to refs/update within Grace of its objects/have finds
\* all of its objects ("gc cannot reclaim an object the pusher is about to
\* reference").
PromptPushComplete ==
    [][\A p \in Pusher :
         Accepted(p) /\ now < push[p].start + Grace => Complete(p)]_vars
=============================================================================
