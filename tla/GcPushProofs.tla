---------------------------- MODULE GcPushProofs ----------------------------
(* Proofs about GcPush for every object graph, every set of clients, every *)
(* grace period and any number of pushes.                                  *)
EXTENDS GcPush, TLAPS

\* The packing of some batch.
GcPackSome == \E B \in SUBSET Object : GcPack(B)

\* A walk marks objects only.
LEMMA WalkType == ASSUME NEW s, NEW r, NEW e PROVE Walk(s, r, e) \subseteq Object
  BY DEF Walk

\* A walk that can read more marks more.
LEMMA WalkMonotone ==
    ASSUME NEW s, NEW r1, NEW r2, r1 \subseteq r2, NEW e
    PROVE  Walk(s, r1, e) \subseteq Walk(s, r2, e)
  BY DEF Walk, ClosedIn

\* What collect_upload_pack leaves out belongs to the remote tip.
LEMMA OnServerInClosure ==
    ASSUME NEW tip, NEW old \in Object
    PROVE  OnServer(tip, old) \subseteq Closure({old})
<1>1. Closure({tip}) \subseteq Object
  BY WalkType DEF Closure
<1> QED
  BY <1>1, TipAssumption, WalkMonotone DEF OnServer, Closure

\* Type correctness of the store, the refs, gc and the connections.
THEOREM TypeCorrect == Spec => []TypeOK
<1>1. Init => TypeOK
  BY DEF Init, TypeOK, GcIdle, PushIdle, GcState, PushState
<1>2. TypeOK /\ [Next]_vars => TypeOK'
  <2> SUFFICES ASSUME TypeOK, [Next]_vars PROVE TypeOK'
    OBVIOUS
  <2>0. ASSUME NEW p \in Pusher, NEW r \in PushState, Set(p, r)
        PROVE push' \in [Pusher -> PushState]
    BY <2>0 DEF Set, TypeOK
  <2>00. ASSUME NEW p \in Pusher PROVE push[p] \in PushState
    BY DEF TypeOK
  <2>1. ASSUME NEW p \in Pusher PROVE PushIdle(push[p].count) \in PushState
    BY DEF TypeOK, PushIdle, PushState
  <2>2. ASSUME NEW p \in Pusher, NEW b \in Branch, NEW t \in Tip, InfoRefs(p, b, t) PROVE TypeOK'
    <3>1. Closure({t}) \ OnServer(t, refs[b]) \subseteq Object
      BY WalkType DEF Closure
    <3>2. [pc |-> "ready", branch |-> b, tip |-> t, old |-> refs[b],
           todo |-> Closure({t}) \ OnServer(t, refs[b]),
           skipped |-> FALSE, start |-> 0, oldest |-> 0, count |-> push[p].count + 1] \in PushState
      <4>1. refs[b] \in Object \cup {None} /\ push[p].count + 1 \in Nat
        BY DEF TypeOK, PushState
      <4> QED
        BY <3>1, <4>1 DEF PushState
    <3> QED
      BY <2>0, <2>2, <3>2 DEF InfoRefs, TypeOK
  <2>3. ASSUME NEW p \in Pusher, HaveBegin(p) PROVE TypeOK'
    <3>1. /\ [push[p] EXCEPT !.pc = "writing", !.start = now, !.oldest = now] \in PushState
          /\ [push[p] EXCEPT !.pc = "sent", !.start = now, !.oldest = now] \in PushState
      <4>1. now \in Nat
        BY DEF TypeOK
      <4> QED
        BY <2>00, <4>1 DEF PushState
    <3> QED
      BY <2>0, <2>3, <3>1 DEF HaveBegin, TypeOK
  <2>4. ASSUME NEW p \in Pusher, NEW o \in Object, HaveWrite(p, o) PROVE TypeOK'
    <3>1. loose' \in [Object -> Nat \cup {None}] /\ loose'[o] \in Nat
      BY <2>4, TipAssumption DEF HaveWrite, write_bytes, TypeOK
    <3>2. [push[p] EXCEPT !.todo = @ \ {o}, !.oldest = IF loose'[o] < @ THEN loose'[o] ELSE @] \in PushState
      BY <2>00, <3>1 DEF PushState
    <3> QED
      BY <2>0, <2>4, <3>1, <3>2 DEF HaveWrite, TypeOK
  <2>4a. ASSUME NEW p \in Pusher, NEW o \in Object, HaveSkip(p, o) PROVE TypeOK'
    <3>1. [push[p] EXCEPT !.todo = @ \ {o}, !.skipped = TRUE] \in PushState
      BY <2>00 DEF PushState
    <3> QED
      BY <2>0, <2>4a, <3>1 DEF HaveSkip, TypeOK
  <2>5. ASSUME NEW p \in Pusher, HaveEnd(p) PROVE TypeOK'
    <3>1. [push[p] EXCEPT !.pc = "sent"] \in PushState
      BY DEF TypeOK, PushState
    <3> QED
      BY <2>0, <2>5, <3>1 DEF HaveEnd, TypeOK
  <2>6. ASSUME NEW p \in Pusher, RefsUpdate(p) PROVE TypeOK'
    <3>1. push[p].tip \in Object
      BY <2>6, WalkType DEF RefsUpdate, Accepts, Allowed, Present, Loose, TypeOK
    <3>2. push[p].old \in Object \cup {None}
      BY DEF TypeOK, PushState
    <3> QED
      BY <2>0, <2>1, <2>6, <3>1, <3>2 DEF RefsUpdate, TypeOK
  <2>7. ASSUME NEW p \in Pusher, RefsReject(p) \/ Abort(p) PROVE TypeOK'
    BY <2>0, <2>1, <2>7 DEF RefsReject, Abort, TypeOK
  <2>8. CASE GcExpire
    BY <2>8 DEF GcExpire, TypeOK, GcState
  <2>9. CASE GcWalk
    BY <2>9, WalkType DEF GcWalk, TypeOK, GcState
  <2>10. ASSUME NEW S, RemoveLoose(S) PROVE loose' \in [Object -> Nat \cup {None}]
    BY <2>10 DEF RemoveLoose, TypeOK
  <2>11. CASE GcPrune
    BY <2>10, <2>11 DEF GcPrune, TypeOK, GcIdle, GcState
  <2>12. CASE GcPackSome \/ GcList
    <3>1. ASSUME NEW B \in SUBSET Object, GcPack(B) PROVE TypeOK'
      BY <3>1 DEF GcPack, TypeOK, GcState
    <3>2. CASE GcList
      <4>1. Loose \in SUBSET Object
        BY DEF Loose
      <4> QED
        BY <3>2, <4>1 DEF GcList, TypeOK, GcState
    <3> QED
      BY <2>12, <3>1, <3>2 DEF GcPackSome
  <2>13. CASE GcUnlinkPacked
    BY <2>10, <2>13 DEF GcUnlinkPacked, TypeOK, GcIdle, GcState
  <2>14. CASE GcEnd
    BY <2>14 DEF GcEnd, TypeOK, GcIdle, GcState
  <2>15. CASE Tick
    BY <2>15 DEF Tick, TypeOK
  <2>16. CASE UNCHANGED vars
    BY <2>16 DEF vars, TypeOK
  <2> QED
    BY <2>2, <2>3, <2>4, <2>4a, <2>5, <2>6, <2>7, <2>8, <2>9, <2>11, <2>12, <2>13, <2>14, <2>15, <2>16 DEF Next, GcPackSome
<1> QED
  BY <1>1, <1>2, PTL DEF Spec

-----------------------------------------------------------------------------

\* objects.lock: a connection writes only while it has the lock, and gc has
\* it from its walk to its prune.
LockInv ==
    /\ \A p \in Pusher : push[p].pc = "writing" => objlock = p
    /\ gc.pc = "walked" => objlock = None

\* While gc has both locks its marks are those of the present store and refs;
\* what it unlinks after packing is in a pack.
GcInv ==
    /\ gc.pc = "walked" => gc.ids = Walk(Roots, Present, Deps)
    /\ gc.pc = "unlinking" => gc.ids \subseteq packed
    /\ gc.now <= now

\* Until the oldest object of a push is Grace old, and with no entry skipped, what it has stored is in
\* the store, and young if it is loose.
FreshInv ==
    \A p \in Pusher :
      push[p].pc \in {"writing", "sent"} /\ ~push[p].skipped /\ now < push[p].oldest + Grace =>
        \A o \in (Closure({push[p].tip}) \ OnServer(push[p].tip, push[p].old)) \ push[p].todo :
            o \in packed \/ (loose[o] # None /\ loose[o] >= push[p].oldest)

\* Before objects/have, the whole upload is still to be stored; after it,
\* nothing.
ReadyInv ==
    \A p \in Pusher : push[p].pc = "ready" =>
        push[p].todo = Closure({push[p].tip}) \ OnServer(push[p].tip, push[p].old)

SentInv == \A p \in Pusher : push[p].pc = "sent" => push[p].todo = {}

StoreInv == LockInv /\ GcInv /\ ReadyInv /\ SentInv /\ FreshInv

\* What is removed was neither marked by the walk nor young, or is packed.
LEMMA RemoveLooseFacts ==
    ASSUME TypeOK, NEW S \in SUBSET Object, RemoveLoose(S)
    PROVE  \A o \in Object : \/ loose'[o] = loose[o]
                             \/ o \in S /\ loose'[o] = None
  BY DEF RemoveLoose, TypeOK

\* Where objects/have leaves a push, and that it leaves the others alone.
LEMMA HavePc ==
    ASSUME TypeOK, NEW p \in Pusher
    PROVE  /\ HaveBegin(p) =>
                 /\ push[p].pc = "ready" /\ gc' = gc
                 /\ \A q \in Pusher : q # p => push'[q] = push[q]
                 /\ \/ objlock = None /\ gc.pc # "walked" /\ objlock' = p /\ push'[p].pc = "writing"
                    \/ objlock' = objlock /\ push'[p].pc = "sent" /\ push'[p].todo = {}
           /\ \A o \in Object : HaveWrite(p, o) \/ HaveSkip(p, o) =>
                 push[p].pc = "writing" /\ push'[p].pc = "writing"
           /\ HaveEnd(p) => push[p].pc = "writing" /\ push'[p].pc = "sent"
           /\ \A o \in Object, q \in Pusher :
                 (HaveWrite(p, o) \/ HaveSkip(p, o)) /\ q # p => push'[q] = push[q]
<1>1. push[p] \in PushState /\ push \in [Pusher -> PushState]
  BY DEF TypeOK
<1>2. ASSUME NEW r, Set(p, r) PROVE push'[p] = r /\ \A q \in Pusher : q # p => push'[q] = push[q]
  BY <1>1, <1>2 DEF Set
<1> DEFINE wr == [push[p] EXCEPT !.pc = "writing", !.start = now, !.oldest = now]
           se == [push[p] EXCEPT !.pc = "sent", !.start = now, !.oldest = now]
<1>3. /\ wr.pc = "writing"
      /\ se.pc = "sent" /\ se.todo = push[p].todo
      /\ [push[p] EXCEPT !.pc = "sent"].pc = "sent"
  BY <1>1 DEF PushState
<1>4. ASSUME NEW o \in Object
      PROVE  /\ [push[p] EXCEPT !.todo = @ \ {o},
                    !.oldest = IF loose'[o] < @ THEN loose'[o] ELSE @].pc = push[p].pc
             /\ [push[p] EXCEPT !.todo = @ \ {o}, !.skipped = TRUE].pc = push[p].pc
  BY <1>1 DEF PushState
<1>5. ASSUME HaveBegin(p)
      PROVE  /\ push[p].pc = "ready" /\ gc' = gc
             /\ \A q \in Pusher : q # p => push'[q] = push[q]
             /\ \/ objlock = None /\ gc.pc # "walked" /\ objlock' = p /\ push'[p].pc = "writing"
                \/ objlock' = objlock /\ push'[p].pc = "sent" /\ push'[p].todo = {}
  <2>1. /\ push[p].pc = "ready" /\ gc' = gc
        /\ \/ objlock = None /\ gc.pc # "walked" /\ objlock' = p /\ Set(p, wr)
           \/ push[p].todo = {} /\ objlock' = objlock /\ Set(p, se)
    BY <1>5 DEF HaveBegin
  <2> HIDE DEF wr, se
  <2> QED
    BY <1>2, <1>3, <2>1
<1>6. ASSUME NEW o \in Object, HaveWrite(p, o) \/ HaveSkip(p, o)
      PROVE  push[p].pc = "writing" /\ push'[p].pc = "writing"
  <2> DEFINE w == [push[p] EXCEPT !.todo = @ \ {o},
                                  !.oldest = IF loose'[o] < @ THEN loose'[o] ELSE @]
             s == [push[p] EXCEPT !.todo = @ \ {o}, !.skipped = TRUE]
  <2>1. push[p].pc = "writing" /\ (Set(p, w) \/ Set(p, s))
    BY <1>6 DEF HaveWrite, HaveSkip
  <2>2. w.pc = push[p].pc /\ s.pc = push[p].pc
    BY <1>4
  <2> HIDE DEF w, s
  <2> QED
    BY <1>2, <2>1, <2>2
<1>7. HaveEnd(p) => push[p].pc = "writing" /\ push'[p].pc = "sent"
  BY <1>2, <1>3 DEF HaveEnd
<1>8. ASSUME NEW o \in Object, NEW q \in Pusher, HaveWrite(p, o) \/ HaveSkip(p, o), q # p
      PROVE  push'[q] = push[q]
  BY <1>2, <1>8 DEF HaveWrite, HaveSkip
<1> QED
  BY <1>5, <1>6, <1>7, <1>8

\* objects/have and gc hand objects.lock to each other.
LEMMA LockStep == ASSUME TypeOK, StoreInv, [Next]_vars PROVE LockInv'
<1> USE DEF StoreInv, LockInv, TypeOK
<1>0. None \notin Pusher
  BY TipAssumption
<1>1. ASSUME NEW p \in Pusher, NEW b \in Branch, NEW t \in Tip, InfoRefs(p, b, t) PROVE LockInv'
  BY <1>1 DEF InfoRefs, Set
<1>2. ASSUME NEW p \in Pusher, HaveBegin(p) PROVE LockInv'
  BY <1>0, <1>2, HavePc
<1>3. ASSUME NEW p \in Pusher, NEW o \in Object, HaveWrite(p, o) \/ HaveSkip(p, o) PROVE LockInv'
  <2>1. \A q \in Pusher : push'[q].pc = push[q].pc
    BY <1>3, HavePc
  <2>2. UNCHANGED <<objlock, gc>>
    BY <1>3 DEF HaveWrite, HaveSkip
  <2> QED
    BY <2>1, <2>2
<1>4. ASSUME NEW p \in Pusher, HaveEnd(p) PROVE LockInv'
  BY <1>0, <1>4 DEF HaveEnd, Set, PushState
<1>5. ASSUME NEW p \in Pusher, RefsUpdate(p) \/ RefsReject(p) PROVE LockInv'
  BY <1>5 DEF RefsUpdate, RefsReject, Accepts, Set, PushIdle
<1>6. ASSUME NEW p \in Pusher, Abort(p) PROVE LockInv'
  BY <1>0, <1>6 DEF Abort, Set, PushIdle
<1>7. CASE GcExpire \/ GcWalk \/ GcPrune \/ GcPackSome \/ GcList \/ GcUnlinkPacked \/ GcEnd
  <2>1. UNCHANGED <<objlock, push>>
    BY <1>7 DEF GcExpire, GcWalk, GcPrune, GcPackSome, GcPack, GcList, GcUnlinkPacked, GcEnd
  <2>2. gc'.pc = "walked" => objlock = None
    <3>1. CASE GcExpire \/ GcPackSome \/ GcList
      BY <3>1 DEF GcExpire, GcPackSome, GcPack, GcList, GcState
    <3>2. CASE GcWalk
      BY <3>2 DEF GcWalk
    <3>3. CASE GcPrune \/ GcEnd
      BY <3>3 DEF GcPrune, GcEnd, GcIdle
    <3>4. CASE GcUnlinkPacked
      BY <3>4 DEF GcUnlinkPacked, GcState
    <3> QED
      BY <1>7, <3>1, <3>2, <3>3, <3>4
  <2> QED
    BY <2>1, <2>2
<1>8. CASE Tick \/ UNCHANGED vars
  BY <1>8 DEF Tick, vars
<1> QED
  BY <1>1, <1>2, <1>3, <1>4, <1>5, <1>6, <1>7, <1>8 DEF Next, GcPackSome

\* Nothing changes the upload between collect_upload_pack and objects/have.
LEMMA ReadyStep == ASSUME TypeOK, StoreInv, [Next]_vars PROVE ReadyInv'
<1> SUFFICES ASSUME NEW p \in Pusher, push'[p].pc = "ready"
             PROVE  push'[p].todo = Closure({push'[p].tip}) \ OnServer(push'[p].tip, push'[p].old)
  BY DEF ReadyInv
<1>1. CASE push'[p] = push[p]
  BY <1>1 DEF StoreInv, ReadyInv
<1>2. ASSUME NEW b \in Branch, NEW t \in Tip, InfoRefs(p, b, t)
      PROVE push'[p].todo = Closure({push'[p].tip}) \ OnServer(push'[p].tip, push'[p].old)
  BY <1>2 DEF InfoRefs, Set, TypeOK
<1>3. ASSUME HaveBegin(p) \/ HaveEnd(p) \/ (\E o \in Object : HaveWrite(p, o) \/ HaveSkip(p, o)) PROVE FALSE
  <2>1. CASE HaveBegin(p)
    BY <2>1, HavePc
  <2>2. CASE HaveEnd(p)
    BY <2>2, HavePc
  <2>3. ASSUME NEW o \in Object, HaveWrite(p, o) \/ HaveSkip(p, o) PROVE FALSE
    BY <2>3, HavePc
  <2> QED
    BY <1>3, <2>1, <2>2, <2>3
<1>4. ASSUME RefsUpdate(p) \/ RefsReject(p) \/ Abort(p) PROVE FALSE
  BY <1>4 DEF RefsUpdate, RefsReject, Abort, Set, PushIdle, TypeOK
<1>5. ASSUME NEW q \in Pusher \ {p}, NEW r, Set(q, r) PROVE push'[p] = push[p]
  BY <1>5 DEF Set, TypeOK
<1>6. ASSUME NEW q \in Pusher \ {p},
             \/ \E b \in Branch, t \in Tip : InfoRefs(q, b, t)
             \/ HaveBegin(q) \/ HaveEnd(q) \/ RefsUpdate(q) \/ RefsReject(q) \/ Abort(q)
             \/ \E o \in Object : HaveWrite(q, o) \/ HaveSkip(q, o)
      PROVE push'[p] = push[p]
  BY <1>5, <1>6 DEF InfoRefs, HaveBegin, HaveEnd, HaveWrite, HaveSkip, RefsUpdate, RefsReject, Abort
<1>7. CASE GcExpire \/ GcWalk \/ GcPrune \/ GcPackSome \/ GcList \/ GcUnlinkPacked \/ GcEnd \/ Tick \/ UNCHANGED vars
  BY <1>1, <1>7 DEF GcExpire, GcWalk, GcPrune, GcPackSome, GcPack, GcList, GcUnlinkPacked, GcEnd, Tick, vars
<1> QED
  BY <1>1, <1>2, <1>3, <1>4, <1>6, <1>7 DEF Next, GcPackSome

\* objects/have ends when every entry has been written.
LEMMA SentStep == ASSUME TypeOK, StoreInv, [Next]_vars PROVE SentInv'
<1> SUFFICES ASSUME NEW p \in Pusher, push'[p].pc = "sent" PROVE push'[p].todo = {}
  BY DEF SentInv
<1>1. CASE push'[p] = push[p]
  BY <1>1 DEF StoreInv, SentInv
<1>2. ASSUME NEW b \in Branch, NEW t \in Tip, InfoRefs(p, b, t) PROVE FALSE
  BY <1>2 DEF InfoRefs, Set, TypeOK
<1>3. CASE HaveBegin(p)
  BY <1>3, HavePc
<1>4. ASSUME NEW o \in Object, HaveWrite(p, o) \/ HaveSkip(p, o) PROVE FALSE
  BY <1>4, HavePc
<1>5. CASE HaveEnd(p)
  BY <1>5 DEF HaveEnd, Set, TypeOK, PushState
<1>6. ASSUME RefsUpdate(p) \/ RefsReject(p) \/ Abort(p) PROVE FALSE
  BY <1>6 DEF RefsUpdate, RefsReject, Abort, Set, PushIdle, TypeOK
<1>7. ASSUME NEW q \in Pusher \ {p}, NEW r, Set(q, r) PROVE push'[p] = push[p]
  BY <1>7 DEF Set, TypeOK
<1>8. ASSUME NEW q \in Pusher \ {p},
             \/ \E b \in Branch, t \in Tip : InfoRefs(q, b, t)
             \/ HaveBegin(q) \/ HaveEnd(q) \/ RefsUpdate(q) \/ RefsReject(q) \/ Abort(q)
             \/ \E o \in Object : HaveWrite(q, o) \/ HaveSkip(q, o)
      PROVE push'[p] = push[p]
  BY <1>7, <1>8 DEF InfoRefs, HaveBegin, HaveEnd, HaveWrite, HaveSkip, RefsUpdate, RefsReject, Abort
<1>9. CASE GcExpire \/ GcWalk \/ GcPrune \/ GcPackSome \/ GcList \/ GcUnlinkPacked \/ GcEnd \/ Tick \/ UNCHANGED vars
  BY <1>1, <1>9 DEF GcExpire, GcWalk, GcPrune, GcPackSome, GcPack, GcList, GcUnlinkPacked, GcEnd, Tick, vars
<1> QED
  BY <1>1, <1>2, <1>3, <1>4, <1>5, <1>6, <1>8, <1>9 DEF Next, GcPackSome

\* With both locks held nobody changes what gc's walk has seen.
LEMMA GcStep == ASSUME TypeOK, StoreInv, [Next]_vars PROVE GcInv'
<1> USE DEF StoreInv, GcInv
<1>0. gc.now \in Nat /\ now \in Nat
  BY DEF TypeOK, GcState
<1>1. ASSUME UNCHANGED <<loose, packed, refs, reflog, gc>>, now' \in Nat, now' >= now PROVE GcInv'
  <2>1. Roots' = Roots /\ Present' = Present
    BY <1>1 DEF Roots, Present, Loose
  <2>2. Walk(Roots, Present, Deps)' = Walk(Roots, Present, Deps)
    BY <2>1
  <2> QED
    BY <1>0, <1>1, <2>2 DEF TypeOK
<1>2. ASSUME NEW p \in Pusher, NEW o \in Object, HaveWrite(p, o) PROVE GcInv'
  <2>1. gc.pc # "walked"
    BY <1>2, TipAssumption DEF HaveWrite, LockInv
  <2> QED
    BY <1>0, <1>2, <2>1 DEF HaveWrite
<1>3. ASSUME NEW p \in Pusher, RefsUpdate(p) PROVE GcInv'
  BY <1>0, <1>3 DEF RefsUpdate, Accepts
<1>4. CASE GcExpire
  BY <1>0, <1>4 DEF GcExpire, TypeOK, GcState
<1>5. CASE GcWalk
  <2>1. Roots' = Roots /\ Present' = Present
    BY <1>5 DEF GcWalk, Roots, Present, Loose
  <2>2. Walk(Roots, Present, Deps)' = Walk(Roots, Present, Deps)
    BY <2>1
  <2> QED
    BY <1>0, <1>5, <2>2 DEF GcWalk
<1>6. CASE GcPrune \/ GcUnlinkPacked \/ GcEnd
  <2>1. CASE GcPrune \/ GcEnd
    BY <1>0, <2>1 DEF GcPrune, GcEnd, GcIdle, TypeOK
  <2>2. CASE GcUnlinkPacked
    BY <1>0, <2>2 DEF GcUnlinkPacked, TypeOK, GcState
  <2> QED
    BY <1>6, <2>1, <2>2
<1>7. CASE GcPackSome \/ GcList
  BY <1>0, <1>7 DEF GcPackSome, GcPack, GcList, TypeOK, GcState
<1>8. ASSUME NEW p \in Pusher, NEW b \in Branch, NEW t \in Tip, InfoRefs(p, b, t) PROVE GcInv'
  BY <1>0, <1>1, <1>8 DEF InfoRefs
<1>9. ASSUME NEW p \in Pusher, HaveBegin(p) \/ HaveEnd(p) \/ RefsReject(p) \/ Abort(p) PROVE GcInv'
  BY <1>0, <1>1, <1>9 DEF HaveBegin, HaveEnd, RefsReject, Abort
<1>9a. ASSUME NEW p \in Pusher, NEW o \in Object, HaveSkip(p, o) PROVE GcInv'
  BY <1>0, <1>1, <1>9a DEF HaveSkip
<1>10. CASE Tick
  BY <1>0, <1>1, <1>10 DEF Tick
<1>11. CASE UNCHANGED vars
  BY <1>0, <1>1, <1>11 DEF vars
<1> QED
  BY <1>2, <1>3, <1>4, <1>5, <1>6, <1>7, <1>8, <1>9, <1>9a, <1>10, <1>11 DEF Next, GcPackSome

\* What FreshInv says of one connection and one object.
Fresh(p, o) == o \in packed \/ (loose[o] # None /\ loose[o] >= push[p].oldest)

Stored(p) == (Closure({push[p].tip}) \ OnServer(push[p].tip, push[p].old)) \ push[p].todo

\* Neither the prune nor the unlinking of packed objects takes a young object
\* of a push away.
LEMMA FreshStep == ASSUME TypeOK, TypeOK', StoreInv, [Next]_vars PROVE FreshInv'
<1> USE DEF StoreInv
<1>0. /\ Grace \in Nat /\ now \in Nat /\ now' \in Nat /\ now <= now'
      /\ \A o \in Object : loose[o] # None => loose[o] \in Nat
      /\ \A p \in Pusher : push[p].oldest \in Nat /\ push'[p].oldest \in Nat
  <2>1. now' = now \/ now' = now + 1
    BY DEF Next, InfoRefs, HaveBegin, HaveWrite, HaveSkip, HaveEnd, RefsUpdate, RefsReject, Abort, GcExpire, GcWalk,
           GcPrune, GcPackSome, GcPack, GcList, GcUnlinkPacked, GcEnd, Tick, vars
  <2> QED
    BY <2>1, TimeAssumption DEF TypeOK, PushState
<1>s. ASSUME NEW p \in Pusher PROVE Stored(p) \subseteq Object
  BY WalkType DEF Stored, Closure
\* It is enough to follow one connection and one of its objects.
<1> SUFFICES ASSUME NEW p \in Pusher, push'[p].pc \in {"writing", "sent"}, ~push'[p].skipped,
                    now' < push'[p].oldest + Grace, NEW o \in Stored(p)'
             PROVE  Fresh(p, o)'
  BY DEF FreshInv, Fresh, Stored
<1>o. o \in Object
  <2>1. Stored(p)' \subseteq Object
    BY WalkType DEF Stored, Closure
  <2> QED
    BY <2>1
<1>1. ASSUME push'[p] = push[p] PROVE Fresh(p, o) /\ now < push[p].oldest + Grace
  <2>1. Stored(p)' = Stored(p)
    BY <1>1 DEF Stored
  <2> QED
    BY <1>0, <1>1, <2>1 DEF FreshInv, Fresh, Stored
<1>2. ASSUME push'[p] = push[p], packed' = packed, loose' = loose PROVE Fresh(p, o)'
  BY <1>1, <1>2 DEF Fresh
\* The steps of a connection: another one's change nothing, except that
\* HaveWrite may add a loose object.
<1>3. ASSUME NEW q \in Pusher, NEW b \in Branch, NEW t \in Tip, InfoRefs(q, b, t) PROVE Fresh(p, o)'
  <2>1. CASE q = p
    BY <1>3, <2>1 DEF InfoRefs, Set, TypeOK
  <2>2. CASE q # p
    BY <1>2, <1>3, <2>2 DEF InfoRefs, Set, TypeOK
  <2> QED
    BY <2>1, <2>2
<1>4. ASSUME NEW q \in Pusher, HaveBegin(q) PROVE Fresh(p, o)'
  <2>1. CASE q = p
    <3>1. /\ push'[p].tip = push[p].tip /\ push'[p].old = push[p].old
          /\ push'[p].todo = push[p].todo /\ push[p].pc = "ready"
      <4>1. \/ push'[p] = [push[p] EXCEPT !.pc = "writing", !.start = now, !.oldest = now]
            \/ push'[p] = [push[p] EXCEPT !.pc = "sent", !.start = now, !.oldest = now]
        BY <1>4, <2>1 DEF HaveBegin, Set, TypeOK
      <4> QED
        BY <1>4, <2>1, <4>1 DEF HaveBegin, TypeOK, PushState
    <3>2. Stored(p)' = {}
      BY <3>1 DEF Stored, ReadyInv
    <3> QED
      BY <3>2
  <2>2. CASE q # p
    BY <1>2, <1>4, <2>2 DEF HaveBegin, Set, TypeOK
  <2> QED
    BY <2>1, <2>2
<1>5. ASSUME NEW q \in Pusher, NEW x \in Object, HaveWrite(q, x) PROVE Fresh(p, o)'
  <2>1. /\ packed' = packed
        /\ \A y \in Object : loose[y] # None => loose'[y] = loose[y]
        /\ loose'[x] # None /\ loose'[x] \in Nat
    BY <1>5, <1>0, TipAssumption DEF HaveWrite, write_bytes, TypeOK
  <2>2. CASE q # p
    <3>1. push'[p] = push[p]
      BY <1>5, <2>2 DEF HaveWrite, Set, TypeOK
    <3> QED
      BY <1>1, <1>o, <2>1, <3>1 DEF Fresh
  <2>3. CASE q = p
    <3>1. /\ push'[p].tip = push[p].tip /\ push'[p].old = push[p].old
          /\ push'[p].todo = push[p].todo \ {x} /\ push[p].pc = "writing"
          /\ push'[p].skipped = push[p].skipped
          /\ push'[p].oldest = IF loose'[x] < push[p].oldest THEN loose'[x] ELSE push[p].oldest
      BY <1>5, <2>3 DEF HaveWrite, Set, TypeOK, PushState
    <3>2. now < push[p].oldest + Grace /\ push'[p].oldest <= push[p].oldest /\ push'[p].oldest <= loose'[x]
      BY <1>0, <2>1, <3>1
    <3>3. o = x \/ o \in Stored(p)
      BY <3>1 DEF Stored
    <3>4. CASE o = x
      BY <1>0, <2>1, <3>2, <3>4 DEF Fresh
    <3>5. CASE o \in Stored(p)
      <4>1. Fresh(p, o)
        BY <3>1, <3>2, <3>5 DEF FreshInv, Fresh, Stored
      <4> QED
        BY <1>0, <1>o, <2>1, <3>2, <4>1 DEF Fresh
    <3> QED
      BY <3>3, <3>4, <3>5
  <2> QED
    BY <2>2, <2>3
<1>5a. ASSUME NEW q \in Pusher, NEW x \in Object, HaveSkip(q, x) PROVE Fresh(p, o)'
  <2>1. CASE q = p
    BY <1>5a, <2>1 DEF HaveSkip, Set, TypeOK, PushState
  <2>2. CASE q # p
    BY <1>2, <1>5a, <2>2 DEF HaveSkip, Set, TypeOK
  <2> QED
    BY <2>1, <2>2
<1>6. ASSUME NEW q \in Pusher, HaveEnd(q) PROVE Fresh(p, o)'
  <2>1. CASE q = p
    <3>1. /\ push'[p].tip = push[p].tip /\ push'[p].old = push[p].old /\ push[p].pc = "writing"
          /\ push'[p].todo = push[p].todo /\ push'[p].oldest = push[p].oldest
          /\ push'[p].skipped = push[p].skipped
          /\ now' = now /\ loose' = loose /\ packed' = packed
      BY <1>6, <2>1 DEF HaveEnd, Set, TypeOK, PushState
    <3>2. Stored(p)' = Stored(p)
      BY <3>1 DEF Stored
    <3> QED
      BY <3>1, <3>2 DEF FreshInv, Fresh, Stored
  <2>2. CASE q # p
    BY <1>2, <1>6, <2>2 DEF HaveEnd, Set, TypeOK
  <2> QED
    BY <2>1, <2>2
<1>7. ASSUME NEW q \in Pusher, RefsUpdate(q) \/ RefsReject(q) \/ Abort(q) PROVE Fresh(p, o)'
  <2>1. CASE q = p
    BY <1>7, <2>1 DEF RefsUpdate, RefsReject, Abort, Set, PushIdle, TypeOK
  <2>2. CASE q # p
    BY <1>2, <1>7, <2>2 DEF RefsUpdate, RefsReject, Abort, Set, TypeOK
  <2> QED
    BY <2>1, <2>2
\* The steps of gc: the prune spares the young, the packing keeps a copy.
<1>8. CASE GcPrune
  <2>1. push' = push /\ packed' = packed /\ now' = now
    BY <1>8 DEF GcPrune
  <2>2. loose'[o] = loose[o] \/ Prunable(o)
    <3>1. {y \in Object : Prunable(y)} \in SUBSET Object
      OBVIOUS
    <3> QED
      BY <1>8, <1>o, <3>1, RemoveLooseFacts DEF GcPrune
  <2>3. Fresh(p, o) /\ now < push[p].oldest + Grace
    BY <1>1, <2>1
  <2>4. Prunable(o) => ~(loose[o] >= push[p].oldest)
    BY <1>0, <1>o, <2>3 DEF Prunable, GcInv, TypeOK, GcState
  <2> QED
    BY <2>1, <2>2, <2>3, <2>4 DEF Fresh
<1>9. CASE GcPackSome \/ GcList
  BY <1>1, <1>9 DEF GcPackSome, GcPack, GcList, Fresh
<1>10. CASE GcUnlinkPacked
  <2>1. gc.ids \subseteq packed /\ gc.ids \in SUBSET Object /\ push' = push /\ packed' = packed
    BY <1>10 DEF GcUnlinkPacked, GcInv, TypeOK, GcState
  <2>2. loose'[o] = loose[o] \/ o \in packed
    BY <1>10, <1>o, <2>1, RemoveLooseFacts DEF GcUnlinkPacked
  <2> QED
    BY <1>1, <2>1, <2>2 DEF Fresh
<1>11. CASE GcExpire \/ GcWalk \/ GcEnd \/ Tick \/ UNCHANGED vars
  BY <1>2, <1>11 DEF GcExpire, GcWalk, GcEnd, Tick, vars
<1> QED
  BY <1>3, <1>4, <1>5, <1>5a, <1>6, <1>7, <1>8, <1>9, <1>10, <1>11 DEF Next, GcPackSome

\* The locks, the marks of gc and the uploads under way stay consistent: the
\* inductive invariant behind the two theorems below.
THEOREM StoreInvariant == Spec => []StoreInv
<1>1. Init => StoreInv
  BY DEF Init, StoreInv, LockInv, GcInv, ReadyInv, SentInv, FreshInv, GcIdle, PushIdle
<1>2. TypeOK /\ TypeOK' /\ StoreInv /\ [Next]_vars => StoreInv'
  BY LockStep, GcStep, ReadyStep, SentStep, FreshStep DEF StoreInv
<1> QED
  BY <1>1, <1>2, TypeCorrect, PTL DEF Spec

\* No step takes a reachable object out of the store: gc prunes only what its
\* walk did not mark, with nothing moving under it, and unlinks a loose file
\* only when a pack has the object.
LEMMA KeepStep ==
    ASSUME TypeOK, StoreInv, [Next]_vars
    PROVE  Walk(Roots, Present, Deps) \cap Present \subseteq Present'
<1>1. CASE loose' = loose /\ packed' = packed
  BY <1>1 DEF Present, Loose
<1>2. ASSUME NEW p \in Pusher, NEW o \in Object, HaveWrite(p, o)
      PROVE Present \subseteq Present'
  <2>1. packed' = packed /\ \A y \in Object : loose[y] # None => loose'[y] = loose[y]
    BY <1>2, TipAssumption DEF HaveWrite, write_bytes, TypeOK
  <2> QED
    BY <2>1 DEF Present, Loose
<1>3. CASE GcPrune
  <2>1. {o \in Object : Prunable(o)} \in SUBSET Object /\ packed' = packed
    BY <1>3 DEF GcPrune
  <2>2. \A o \in Object : loose'[o] = loose[o] \/ o \notin gc.ids
    BY <1>3, <2>1, RemoveLooseFacts DEF GcPrune, Prunable
  <2>3. gc.ids = Walk(Roots, Present, Deps)
    BY <1>3 DEF GcPrune, StoreInv, GcInv
  <2> QED
    BY <2>1, <2>2, <2>3 DEF Present, Loose
<1>4. CASE GcPackSome \/ GcList
  BY <1>4 DEF GcPackSome, GcPack, GcList, Present, Loose
<1>5. CASE GcUnlinkPacked
  <2>1. gc.ids \subseteq packed /\ gc.ids \in SUBSET Object /\ packed' = packed
    BY <1>5 DEF GcUnlinkPacked, StoreInv, GcInv, TypeOK, GcState
  <2>2. \A o \in Object : loose'[o] = loose[o] \/ o \in packed
    BY <1>5, <2>1, RemoveLooseFacts DEF GcUnlinkPacked
  <2> QED
    BY <2>1, <2>2 DEF Present, Loose
<1> QED
  BY <1>1, <1>2, <1>3, <1>4, <1>5
  DEF Next, GcPackSome, GcList, InfoRefs, HaveBegin, HaveSkip, HaveEnd, RefsUpdate, RefsReject, Abort, GcExpire, GcWalk, GcEnd, Tick, vars

\* An object that a ref or a reflog entry leads to never leaves the store:
\* gc prunes only what its walk did not mark, with nothing moving under it,
\* and unlinks a loose file only when a pack has the object.
THEOREM ReachableIsKept == Spec => KeepReachable
<1>1. TypeOK /\ StoreInv /\ [Next]_vars => [Walk(Roots, Present, Deps) \cap Present \subseteq Present']_vars
  BY KeepStep
<1> QED
  BY <1>1, TypeCorrect, StoreInvariant, PTL DEF Spec, KeepReachable

\* A ref names an object of the store for as long as it exists: evaluate looks
\* the target up under refs.lock, which keeps gc out, and later the ref itself
\* keeps its target.
THEOREM NoDanglingRef == Spec => []TipsPresent
<1>1. Init => TipsPresent
  BY DEF Init, TipsPresent
<1>2. ASSUME TypeOK, [Next]_vars, TipsPresent,
             Walk(Roots, Present, Deps) \cap Present \subseteq Present'
      PROVE  TipsPresent'
  <2> USE <1>2
  <2>1. ASSUME NEW b \in Branch, refs[b] # None PROVE refs[b] \in Present'
    <3>1. refs[b] \in Roots /\ refs[b] \in Object /\ refs[b] \in Present
      BY <2>1 DEF Roots, TypeOK, TipsPresent
    <3>2. refs[b] \in Walk(Roots, Present, Deps)
      BY <3>1 DEF Walk
    <3> QED
      BY <3>1, <3>2
  <2>2. CASE refs' = refs
    BY <2>1, <2>2 DEF TipsPresent
  <2>3. ASSUME NEW p \in Pusher, RefsUpdate(p) PROVE TipsPresent'
    <3>1. push[p].tip \in Present /\ Present' = Present
      BY <2>3 DEF RefsUpdate, Accepts, Allowed, Present, Loose
    <3>2. \A b \in Branch : refs'[b] = refs[b] \/ refs'[b] = push[p].tip
      BY <2>3 DEF RefsUpdate, TypeOK
    <3> QED
      BY <2>1, <3>1, <3>2 DEF TipsPresent
  <2> QED
    BY <2>2, <2>3
    DEF Next, GcPack, GcList, InfoRefs, HaveBegin, HaveWrite, HaveSkip, HaveEnd, RefsReject, Abort,
        GcExpire, GcWalk, GcPrune, GcUnlinkPacked, GcEnd, Tick, vars
<1>3. TypeOK /\ StoreInv /\ [Next]_vars => Walk(Roots, Present, Deps) \cap Present \subseteq Present'
  BY KeepStep
<1> QED
  BY <1>1, <1>2, <1>3, TypeCorrect, StoreInvariant, PTL DEF Spec

\* The grace period is enough for every push that reaches refs/update before
\* the oldest object it uploaded, or found already there, is Grace old.
THEOREM GraceIsEnough == Spec => GraceCoversPush
<1>1. ASSUME TypeOK, StoreInv, [Next]_vars, NEW p \in Pusher,
             Accepted(p), now < push[p].oldest + Grace
      PROVE  Complete(p)
  <2> USE <1>1
  <2>1. push[p].pc = "sent" /\ push'[p].pc = "idle" /\ push[p].todo = {} /\ Allowed(p)
    BY DEF Accepted, Accepts, StoreInv, SentInv
  <2>2. Present' = Present
    <3>1. ASSUME NEW q \in Pusher, NEW o \in Object, HaveWrite(q, o) PROVE FALSE
      BY <2>1, <3>1 DEF HaveWrite, Set, TypeOK, PushState
    <3>2. CASE GcPrune \/ GcPackSome \/ GcList \/ GcUnlinkPacked
      BY <2>1, <3>2 DEF GcPrune, GcPackSome, GcPack, GcList, GcUnlinkPacked
    <3>3. CASE loose' = loose /\ packed' = packed
      BY <3>3 DEF Present, Loose
    <3> QED
      BY <3>1, <3>2, <3>3
      DEF Next, GcPackSome, GcList, InfoRefs, HaveBegin, HaveSkip, HaveEnd, RefsUpdate, RefsReject, Abort, GcExpire, GcWalk, GcEnd, Tick, vars
  <2>3. Closure({push[p].tip}) \ OnServer(push[p].tip, push[p].old) \subseteq Present
    <3>1. Closure({push[p].tip}) \subseteq Object
      BY WalkType DEF Closure
    <3> QED
      BY <2>1, <3>1 DEF StoreInv, FreshInv, Accepted, Present, Loose
  <2>4. push[p].old = None => OnServer(push[p].tip, push[p].old) = {}
    BY DEF OnServer
  <2>5. push[p].old # None => OnServer(push[p].tip, push[p].old) \subseteq Closure({push[p].old})
    BY OnServerInClosure DEF TypeOK, PushState
  <2> QED
    BY <2>2, <2>3, <2>4, <2>5 DEF Complete
<1>2. TypeOK /\ StoreInv /\ [Next]_vars =>
        [\A p \in Pusher : Accepted(p) /\ now < push[p].oldest + Grace => Complete(p)]_vars
  BY <1>1
<1> QED
  BY <1>2, TypeCorrect, StoreInvariant, PTL DEF Spec, GraceCoversPush
=============================================================================
