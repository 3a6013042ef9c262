------------------------------ MODULE RateLimit ------------------------------
(***************************************************************************)
(* The token buckets of rate_limit.rs.  A request reads the clock and then *)
(* waits for the mutex of the map, so that buckets are charged with times  *)
(* that are out of order; the sweep of idle buckets does the same.  Time   *)
(* is in milliseconds and tokens are in thousandths.                       *)
(***************************************************************************)
EXTENDS Integers, FiniteSets

CONSTANTS
    IpKey, ActorKey,    \* Key::Ip and Key::Actor
    Anonymous,          \* a request without an address, or without a token
    Capacity,           \* LimitConfig::capacity of a key
    Refill,             \* LimitConfig::refill_per_sec of a key
    MAX_RATE_LIMIT_ENTRIES,
    MaxIdle,            \* of gc_idle
    Skew,               \* longest wait for the mutex
    Worker,             \* threads that handle requests
    LastTick            \* bound on the clock

BucketKey == IpKey \cup ActorKey

ASSUME LimiterAssumption ==
    /\ IpKey \cap ActorKey = {} /\ Anonymous \notin BucketKey
    /\ Capacity \in [BucketKey -> Nat]
    /\ Refill \in [BucketKey -> Nat]
    /\ MAX_RATE_LIMIT_ENTRIES \in Nat /\ MaxIdle \in Nat /\ Skew \in Nat /\ LastTick \in Nat
    /\ 2 * Skew <= MaxIdle

VARIABLES
    clock,
    waiting,    \* the requests that have read the clock
    sweeping,   \* the time gc_idle has read, -1 without one
    map,        \* the buckets; history, for every key: what it gave out in its
                \* window, and how often its bucket was dropped before it was full
    since       \* history: the window of a key begins here

limitVars == <<clock, waiting, sweeping, map, since>>

NoRequest == [now |-> -1, ip |-> Anonymous, actor |-> Anonymous]

RateInit ==
    /\ clock = 0
    /\ waiting = [w \in Worker |-> NoRequest]
    /\ sweeping = -1
    /\ map = [keys |-> {}, milli |-> [k \in BucketKey |-> 0], last_refill |-> [k \in BucketKey |-> 0],
              last_seen |-> [k \in BucketKey |-> 0], given |-> [k \in BucketKey |-> 0],
              dropped |-> [k \in BucketKey |-> 0]]
    /\ since = [k \in BucketKey |-> 0]

cap(k) == 1000 * Capacity[k]

\* What a key gains in some milliseconds.
Gain(k, ms) == Refill[k] * ms

\* Mutant: the refill is not capped.
refilled_Uncapped(k, milli, elapsed) == milli + Gain(k, elapsed)

refilled(k, milli, elapsed) ==
    LET full == milli + Gain(k, elapsed) IN IF full < cap(k) THEN full ELSE cap(k)

\* take: what is in the bucket before the charge.  duration_since is zero
\* when now is the earlier one.
Before(m, k, now) ==
    IF k \notin m.keys THEN [milli |-> cap(k), at |-> now]
    ELSE IF now > m.last_refill[k]
         THEN [milli |-> refilled(k, m.milli[k], now - m.last_refill[k]), at |-> now]
         ELSE [milli |-> m.milli[k], at |-> m.last_refill[k]]

NoRoom(m, k) == k \notin m.keys /\ Cardinality(m.keys) >= MAX_RATE_LIMIT_ENTRIES

Charged(m, k, now) ==
    LET held == Before(m, k, now)
        pays == held.milli >= 1000
    IN  [keys |-> m.keys \cup {k},
         milli |-> [m.milli EXCEPT ![k] = IF pays THEN held.milli - 1000 ELSE held.milli],
         last_refill |-> [m.last_refill EXCEPT ![k] = held.at],
         last_seen |-> [m.last_seen EXCEPT ![k] = now],
         given |-> [m.given EXCEPT ![k] = IF pays THEN @ + 1 ELSE @],
         dropped |-> m.dropped]

take(m, k, now) == IF NoRoom(m, k) THEN m ELSE Charged(m, k, now)

\* A side without an identity or with capacity zero is not charged.
take_side(m, k, now) ==
    IF k = Anonymous THEN m
    ELSE IF Capacity[k] = 0 THEN m ELSE take(m, k, now)

\* The beginning of allow.
ReadClock(w, ip, actor) ==
    /\ waiting[w] = NoRequest
    /\ waiting' = [waiting EXCEPT ![w] = [now |-> clock, ip |-> ip, actor |-> actor]]
    /\ UNCHANGED <<clock, sweeping, map, since>>

\* allow with the mutex: both sides are charged, whichever denies.
Allow(w) ==
    LET r == waiting[w]
    IN  /\ r # NoRequest
        /\ map' = take_side(take_side(map, r.ip, r.now), r.actor, r.now)
        /\ waiting' = [waiting EXCEPT ![w] = NoRequest]
        /\ UNCHANGED <<clock, sweeping, since>>

SweepBegin ==
    /\ sweeping = -1
    /\ sweeping' = clock
    /\ UNCHANGED <<clock, waiting, map, since>>

IsIdle(k) == sweeping - map.last_seen[k] >= MaxIdle

\* A bucket that was idle for MaxIdle is full again, whatever was waiting.  The
\* limits come from the environment, and nothing checks this of them.
FillsUp(k) == cap(k) <= Gain(k, MaxIdle - 2 * Skew)

\* gc_idle with the mutex: buckets go by their age, full or not.
gc_idle ==
    /\ sweeping # -1
    /\ map' = LET kept == {k \in map.keys : ~IsIdle(k)}
                  Kept(f) == [k \in BucketKey |-> IF k \in kept THEN f[k] ELSE 0]
              IN  [keys |-> kept, milli |-> Kept(map.milli), last_refill |-> Kept(map.last_refill),
                   last_seen |-> Kept(map.last_seen), given |-> map.given,
                   dropped |-> [k \in BucketKey |-> IF k \in map.keys \ kept /\ ~FillsUp(k)
                                                   THEN map.dropped[k] + 1 ELSE map.dropped[k]]]
    /\ sweeping' = -1
    /\ UNCHANGED <<clock, waiting, since>>

Tick ==
    /\ clock < LastTick
    /\ \A w \in Worker : waiting[w] # NoRequest => clock < waiting[w].now + Skew
    /\ sweeping # -1 => clock < sweeping + Skew
    /\ clock' = clock + 1
    /\ UNCHANGED <<waiting, sweeping, map, since>>

\* A window may begin at any time.
Watch(k) ==
    /\ since' = [since EXCEPT ![k] = clock]
    /\ map' = [map EXCEPT !.given[k] = 0, !.dropped[k] = 0]
    /\ UNCHANGED <<clock, waiting, sweeping>>

RateNext ==
    \/ \E w \in Worker, ip \in IpKey \cup {Anonymous}, actor \in ActorKey \cup {Anonymous} : ReadClock(w, ip, actor)
    \/ \E w \in Worker : Allow(w)
    \/ SweepBegin \/ gc_idle \/ Tick
    \/ \E k \in BucketKey : Watch(k)

RateSpec == RateInit /\ [][RateNext]_limitVars

(***************************************************************************)
(* Properties                                                              *)
(***************************************************************************)

\* Some number of capacities, and the least time between that many sweeps of
\* one bucket.
Bursts(k, n) == n * cap(k)
Apart(n) == n * (MaxIdle - Skew)

\* In any window a key is given at most its capacity and what is refilled in
\* that time, whatever order the requests get the mutex in and whichever
\* buckets are swept in between, if a bucket fills up while it is idle.  If
\* not, it is given its capacity once more for every sweep that dropped its
\* bucket, where the code says "We GC buckets that have been full and idle
\* for >5 minutes" (rate_limit.rs:13); such sweeps are MaxIdle - Skew apart.
RateBound ==
    \A k \in BucketKey :
        LET n == map.dropped[k]
        IN  /\ 1000 * map.given[k] <= cap(k) + Bursts(k, n) + Gain(k, clock - since[k] + Skew)
            /\ n > 0 => ~FillsUp(k) /\ Apart(n - 1) <= clock - since[k]

\* What makes it hold: a bucket never has more than what its key may still be
\* given, and one that was swept would be full again or is counted.
KeyInv(m, k, now, window) ==
    LET from == window - Skew
        n == m.dropped[k]
    IN  /\ m.milli[k] <= cap(k)
        /\ k \in m.keys =>
            /\ m.last_refill[k] <= now
            /\ m.last_seen[k] <= now
            /\ m.last_refill[k] <= m.last_seen[k] + Skew
            /\ \/ m.given[k] = 0
               \/ /\ from <= m.last_refill[k]
                  /\ 1000 * m.given[k] + m.milli[k] + Gain(k, from)
                        <= cap(k) + Bursts(k, n) + Gain(k, m.last_refill[k])
            /\ n > 0 => Apart(n - 1) <= m.last_seen[k] + Skew - window
        /\ k \notin m.keys =>
            \/ m.given[k] = 0
            \/ 1000 * m.given[k] + Gain(k, from) <= Bursts(k, n) + Gain(k, now - Skew)
        /\ n > 0 => ~FillsUp(k) /\ Apart(n - 1) <= now - window

BucketInv == \A k \in BucketKey : KeyInv(map, k, clock, since[k])
=============================================================================
