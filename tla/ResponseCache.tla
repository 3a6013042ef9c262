---------------------------- MODULE ResponseCache ----------------------------
(***************************************************************************)
(* The in-memory response cache of the server, with its limits on entries  *)
(* and on bytes.  An operation holds both mutexes from its beginning to    *)
(* its end; insert is split at its eviction loops, and nothing else        *)
(* happens between its steps.                                              *)
(***************************************************************************)
EXTENDS Naturals, FiniteSets, FiniteSetsExt

CONSTANTS
    Key,
    Prefix,         \* the sets of keys that share a prefix: a repository's
    Size,           \* lengths of bodies
    Limits,         \* the pairs of limits a cache may be made with
    None

ASSUME LimitAssumption ==
    /\ Prefix \subseteq SUBSET Key
    /\ Size \subseteq Nat
    /\ Limits \subseteq [entries : Nat \ {0}, bytes : Nat]
    /\ None \notin [len : Size, expired : BOOLEAN]

VARIABLES
    limits,     \* max_entries and max_bytes
    inner,      \* the map: an entry, or None, for every key
    bytes,      \* the running total of the bodies
    call,       \* the insert that has the mutexes
    doubled     \* history: the bytes of some entry were subtracted twice

vars == <<limits, inner, bytes, call, doubled>>

NoCall == [pc |-> "idle"]

Init ==
    /\ limits \in Limits
    /\ inner = [k \in Key |-> None]
    /\ bytes = 0
    /\ call = NoCall
    /\ doubled = FALSE

max_entries == limits.entries
max_bytes == limits.bytes     \* 0 means no limit

Held == {k \in Key : inner[k] # None}

saturating_sub(x, y) == IF x > y THEN x - y ELSE 0

Resident(K) == MapThenSumSet(LAMBDA k : inner[k].len, K)

\* The bytes of the entry that is replaced are released.
ReleaseOld(k) == IF inner[k] = None THEN bytes ELSE saturating_sub(bytes, inner[k].len)

InsertBegin(k, len) ==
    /\ call = NoCall
    /\ max_bytes > 0 => len * 4 <= max_bytes
    /\ bytes' = ReleaseOld(k)
    /\ call' = [pc |-> "entries", key |-> k, len |-> len]
    /\ UNCHANGED <<limits, inner, doubled>>
\* An expired entry if there is one, otherwise whichever comes first.
Victims ==
    LET stale == {k \in Held : inner[k].expired}
    IN  IF stale # {} THEN stale ELSE Held

\* The entry that is being replaced is still in the map: its bytes were
\* released at the beginning, and are released again when it is the victim.
Evict(k) ==
    /\ inner' = [inner EXCEPT ![k] = None]
    /\ bytes' = saturating_sub(bytes, inner[k].len)
    /\ doubled' = (doubled \/ k = call.key)

TooMany == Cardinality(Held) >= max_entries

EvictForEntries(k) ==
    /\ call.pc = "entries"
    /\ TooMany
    /\ k \in Victims
    /\ Evict(k)
    /\ UNCHANGED <<limits, call>>

EntriesDone ==
    /\ call.pc = "entries"
    /\ ~TooMany
    /\ call' = [call EXCEPT !.pc = "bytes"]
    /\ UNCHANGED <<limits, inner, bytes, doubled>>

TooLarge == max_bytes > 0 /\ bytes + call.len > max_bytes

\* Mutant: only expired entries are given up for bytes.
EvictForBytes_ExpiredOnly(k) ==
    /\ call.pc = "bytes"
    /\ TooLarge
    /\ k \in Held /\ inner[k].expired
    /\ Evict(k)
    /\ UNCHANGED <<limits, call>>

EvictForBytes(k) ==
    /\ call.pc = "bytes"
    /\ TooLarge
    /\ k \in Victims
    /\ Evict(k)
    /\ UNCHANGED <<limits, call>>

InsertEnd ==
    /\ call.pc = "bytes"
    /\ ~TooLarge \/ Held = {}
    /\ bytes' = bytes + call.len
    /\ inner' = [inner EXCEPT ![call.key] = [len |-> call.len, expired |-> FALSE]]
    /\ call' = NoCall
    /\ UNCHANGED <<limits, doubled>>

\* Mutant: the bytes are not given back.
Invalidate_KeepBytes(K) ==
    /\ call = NoCall
    /\ inner' = [k \in Key |-> IF k \in K THEN None ELSE inner[k]]
    /\ UNCHANGED <<limits, bytes, call, doubled>>

\* invalidate_prefix: the entries of a repository go.
Invalidate(K) ==
    /\ call = NoCall
    /\ inner' = [k \in Key |-> IF k \in K THEN None ELSE inner[k]]
    /\ bytes' = saturating_sub(bytes, Resident(K \cap Held))
    /\ UNCHANGED <<limits, call, doubled>>

InvalidateAll ==
    /\ call = NoCall
    /\ inner' = [k \in Key |-> None]
    /\ bytes' = 0
    /\ doubled' = FALSE
    /\ UNCHANGED <<limits, call>>

\* The TTL of an entry runs out; it stays in the map.
Expire(k) ==
    /\ call = NoCall
    /\ k \in Held
    /\ inner' = [inner EXCEPT ![k].expired = TRUE]
    /\ UNCHANGED <<limits, bytes, call, doubled>>

Next ==
    \/ \E k \in Key, len \in Size : InsertBegin(k, len)
    \/ \E k \in Key : EvictForEntries(k) \/ EvictForBytes(k) \/ Expire(k)
    \/ EntriesDone \/ InsertEnd \/ InvalidateAll
    \/ \E K \in Prefix : Invalidate(K)

Spec == Init /\ [][Next]_vars /\ WF_vars(Next)

(***************************************************************************)
(* Properties                                                              *)
(***************************************************************************)

\* "hard cap on cumulative body bytes across all entries" (cache.rs:29-35):
\* between operations the bodies in the map are within the limit and the
\* running total is exactly their size, unless since the last invalidate_all
\* an insert evicted the very entry it replaced.  Then the total is too low,
\* the map may hold more than the cap, and what is left of the promise is
\* that the total is never too high: nothing is evicted for bytes that the
\* map does not hold.  The number of entries is within its limit in any case.
CapHeld ==
    call = NoCall =>
        /\ Cardinality(Held) <= max_entries
        /\ bytes <= Resident(Held)
        /\ ~doubled => /\ bytes = Resident(Held)
                       /\ max_bytes > 0 => Resident(Held) <= max_bytes

\* The two eviction loops of an insert (cache.rs:116-143), the second of which
\* goes by a count that may differ from what the map holds, come to their end.
InsertReturns == (call # NoCall) ~> (call = NoCall)
=============================================================================
