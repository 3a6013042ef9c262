------------------------------- MODULE Mutex -------------------------------
(* What a lock promises its callers: one holder at a time, and the next one *)
(* only after a release.                                                   *)
CONSTANT Actor

VARIABLE holders

Init == holders = {}

Acquire(a) == holders = {} /\ holders' = {a}

Release(a) == holders = {a} /\ holders' = {}

Next == \E a \in Actor : Acquire(a) \/ Release(a)

Spec == Init /\ [][Next]_holders
=============================================================================
