--------------------------- MODULE RateLimitProofs ---------------------------
(***************************************************************************)
(* The rate limit holds for every number of keys, workers and requests.    *)
(* The inductive invariant adds to the types and to the age of what waits  *)
(* for the mutex the invariant of a bucket, KeyInv.                        *)
(***************************************************************************)
EXTENDS RateLimit, TLAPS

Maps == [keys : SUBSET BucketKey, milli : [BucketKey -> Nat], last_refill : [BucketKey -> Nat],
         last_seen : [BucketKey -> Nat], given : [BucketKey -> Nat], dropped : [BucketKey -> Nat]]

Asking == [now : Int, ip : IpKey \cup {Anonymous}, actor : ActorKey \cup {Anonymous}]

RateTypeOK ==
    /\ clock \in Nat
    /\ waiting \in [Worker -> Asking]
    /\ sweeping \in Int
    /\ map \in Maps
    /\ since \in [BucketKey -> Nat]

Fresh(now) == now \in Nat /\ now <= clock /\ clock <= now + Skew

AgeInv ==
    /\ \A w \in Worker : waiting[w] # NoRequest => Fresh(waiting[w].now)
    /\ sweeping # -1 => Fresh(sweeping)
    /\ \A k \in BucketKey : since[k] <= clock

RateInv == RateTypeOK /\ AgeInv /\ BucketInv

(***************************************************************************)
(* Arithmetic                                                              *)
(***************************************************************************)

\* What a key gains is a number.
LEMMA GainInt ==
    ASSUME NEW k \in BucketKey, NEW x \in Int
    PROVE  Gain(k, x) \in Int
<1>1. Refill[k] \in Nat
  BY LimiterAssumption
<1> QED BY <1>1, SMT DEF Gain

\* What it gains in a time is the difference between its ends.
LEMMA GainMinus ==
    ASSUME NEW k \in BucketKey, NEW x \in Int, NEW y \in Int
    PROVE  Gain(k, x - y) = Gain(k, x) - Gain(k, y)
<1>1. Refill[k] \in Nat
  BY LimiterAssumption
<1> QED BY <1>1, SMT DEF Gain

\* It gains more in a longer time.
LEMMA GainMono ==
    ASSUME NEW k \in BucketKey, NEW x \in Int, NEW y \in Int, x <= y
    PROVE  Gain(k, x) <= Gain(k, y)
<1>1. Refill[k] \in Nat /\ y - x \in Nat
  BY LimiterAssumption
<1>2. Gain(k, y - x) \in Nat
  BY <1>1, SMT DEF Gain
<1>3. Gain(k, y - x) = Gain(k, y) - Gain(k, x)
  BY GainMinus
<1>4. Gain(k, x) \in Int /\ Gain(k, y) \in Int
  BY GainInt
<1> QED BY <1>2, <1>3, <1>4

\* The capacities of some sweeps are a number, and one sweep more adds one.
LEMMA BurstsOK ==
    ASSUME NEW k \in BucketKey, NEW n \in Nat
    PROVE  Bursts(k, n) \in Nat /\ Bursts(k, n + 1) = Bursts(k, n) + cap(k)
<1>1. cap(k) \in Nat
  BY LimiterAssumption DEF cap
<1> QED BY <1>1, SMT DEF Bursts

\* So does the time between them.
LEMMA ApartOK ==
    ASSUME NEW n \in Int
    PROVE  Apart(n) \in Int /\ Apart(n + 1) = Apart(n) + (MaxIdle - Skew)
<1>1. MaxIdle - Skew \in Int
  BY LimiterAssumption
<1> QED BY <1>1, SMT DEF Apart

\* No time is needed for none.
LEMMA ApartZero == Apart(0) = 0
<1>1. MaxIdle - Skew \in Int
  BY LimiterAssumption
<1> QED BY <1>1, SMT DEF Apart

(***************************************************************************)
(* take                                                                    *)
(***************************************************************************)

\* What take finds in the bucket: a level within the capacity, at a time that
\* is not before the request's, and no more than the key may still be given.
LEMMA BeforeOK ==
    ASSUME NEW m \in Maps, NEW k \in BucketKey, NEW now \in Nat, NEW c \in Nat, NEW s \in Nat,
           now <= c, c <= now + Skew, s <= c, KeyInv(m, k, c, s)
    PROVE  LET b == Before(m, k, now)
           IN  /\ b.milli \in Nat /\ b.milli <= cap(k)
               /\ b.at \in Nat /\ now <= b.at /\ b.at <= c
               /\ 1000 * m.given[k] + b.milli + Gain(k, s - Skew)
                    <= cap(k) + Bursts(k, m.dropped[k]) + Gain(k, b.at)
<1> DEFINE b == Before(m, k, now)
           from == s - Skew
           again == Bursts(k, m.dropped[k])
<1>t. /\ Skew \in Nat /\ cap(k) \in Nat /\ from \in Int
      /\ m.milli[k] \in Nat /\ m.last_refill[k] \in Nat /\ m.last_seen[k] \in Nat /\ m.given[k] \in Nat
  BY LimiterAssumption DEF Maps, cap
<1>b. again \in Nat
  BY BurstsOK DEF Maps
<1>i. /\ m.milli[k] <= cap(k)
      /\ k \in m.keys => /\ m.last_refill[k] <= c
                         /\ \/ m.given[k] = 0
                            \/ 1000 * m.given[k] + m.milli[k] + Gain(k, from)
                                 <= cap(k) + again + Gain(k, m.last_refill[k])
      /\ k \notin m.keys => m.given[k] = 0 \/ 1000 * m.given[k] + Gain(k, from) <= again + Gain(k, c - Skew)
  BY DEF KeyInv
<1>f. from <= now /\ c - Skew \in Int /\ c - Skew <= now
  BY <1>t
<1> HIDE DEF from, again
<1>p. /\ Gain(k, from) \in Int /\ Gain(k, now) \in Int /\ Gain(k, m.last_refill[k]) \in Int /\ Gain(k, c - Skew) \in Int
      /\ Gain(k, from) <= Gain(k, now)
      /\ Gain(k, c - Skew) <= Gain(k, now)
  <2>1. now \in Int /\ m.last_refill[k] \in Int
    BY <1>t
  <2> QED BY <2>1, <1>t, <1>f, GainInt, GainMono
<1>1. CASE k \notin m.keys
  <2>1. b.milli = cap(k) /\ b.at = now
    BY <1>1 DEF Before
  <2>2. 1000 * m.given[k] + cap(k) + Gain(k, from) <= cap(k) + again + Gain(k, now)
    BY <1>i, <1>1, <1>p, <1>t, <1>b
  <2> QED BY <2>1, <2>2, <1>t DEF from, again
<1>2. CASE k \in m.keys /\ now > m.last_refill[k]
  <2> DEFINE full == m.milli[k] + Gain(k, now - m.last_refill[k])
  <2>1. /\ full = m.milli[k] + Gain(k, now) - Gain(k, m.last_refill[k])
        /\ Gain(k, m.last_refill[k]) <= Gain(k, now)
    <3>1. now \in Int /\ m.last_refill[k] \in Int /\ m.last_refill[k] <= now
      BY <1>2, <1>t
    <3>2. Gain(k, now - m.last_refill[k]) = Gain(k, now) - Gain(k, m.last_refill[k])
      BY <3>1, GainMinus
    <3>3. Gain(k, m.last_refill[k]) <= Gain(k, now)
      BY <3>1, GainMono
    <3> QED BY <3>2, <3>3, <1>t, <1>p
  <2>2. full \in Nat
    BY <2>1, <1>t, <1>p
  <2>3. b.milli = (IF full < cap(k) THEN full ELSE cap(k)) /\ b.at = now
    BY <1>2 DEF Before, refilled
  <2> HIDE DEF full, b
  <2>4. b.milli \in Nat /\ b.milli <= cap(k) /\ b.milli <= full
    BY <2>2, <2>3, <1>t
  <2>5. 1000 * m.given[k] + b.milli + Gain(k, from) <= cap(k) + again + Gain(k, now)
    BY <2>1, <2>2, <2>4, <1>i, <1>2, <1>p, <1>t, <1>b
  <2> QED BY <2>3, <2>4, <2>5, <1>2, <1>t DEF from, again, b
<1>3. CASE k \in m.keys /\ ~(now > m.last_refill[k])
  <2>1. b.milli = m.milli[k] /\ b.at = m.last_refill[k]
    BY <1>3 DEF Before
  <2>2. now <= m.last_refill[k] /\ m.last_refill[k] <= c
    BY <1>3, <1>i, <1>t
  <2>3. Gain(k, now) <= Gain(k, m.last_refill[k])
    <3>1. now \in Int /\ m.last_refill[k] \in Int
      BY <1>t
    <3> QED BY <3>1, <2>2, GainMono
  <2>4. 1000 * m.given[k] + m.milli[k] + Gain(k, from) <= cap(k) + again + Gain(k, m.last_refill[k])
    BY <2>3, <1>i, <1>3, <1>p, <1>t, <1>b
  <2> QED BY <2>1, <2>2, <2>4, <1>i, <1>t DEF from, again
<1> QED BY <1>1, <1>2, <1>3

\* A charge keeps the invariant of its bucket.
LEMMA ChargedOK ==
    ASSUME NEW m \in Maps, NEW k \in BucketKey, NEW now \in Nat, NEW c \in Nat, NEW s \in Nat,
           now <= c, c <= now + Skew, s <= c, KeyInv(m, k, c, s)
    PROVE  Charged(m, k, now) \in Maps /\ KeyInv(Charged(m, k, now), k, c, s)
<1> DEFINE b == Before(m, k, now)
           n == Charged(m, k, now)
           from == s - Skew
           again == Bursts(k, m.dropped[k])
<1>t. Skew \in Nat /\ cap(k) \in Nat /\ from \in Int /\ m.given[k] \in Nat /\ m.dropped[k] \in Nat
  BY LimiterAssumption DEF Maps, cap
<1>b. again \in Nat /\ Apart(m.dropped[k] - 1) \in Int
  BY <1>t, BurstsOK, ApartOK
<1>1. /\ b.milli \in Nat /\ b.milli <= cap(k)
      /\ b.at \in Nat /\ now <= b.at /\ b.at <= c
      /\ 1000 * m.given[k] + b.milli + Gain(k, from) <= cap(k) + again + Gain(k, b.at)
  BY BeforeOK
<1>p. Gain(k, from) \in Int /\ Gain(k, b.at) \in Int
  <2>1. from \in Int /\ b.at \in Int
    BY <1>t, <1>1
  <2> QED BY <2>1, GainInt
<1> HIDE DEF b, from, again
<1>2. n = [keys |-> m.keys \cup {k},
           milli |-> [m.milli EXCEPT ![k] = IF b.milli >= 1000 THEN b.milli - 1000 ELSE b.milli],
           last_refill |-> [m.last_refill EXCEPT ![k] = b.at],
           last_seen |-> [m.last_seen EXCEPT ![k] = now],
           given |-> [m.given EXCEPT ![k] = IF b.milli >= 1000 THEN m.given[k] + 1 ELSE m.given[k]],
           dropped |-> m.dropped]
  BY DEF Charged, b
<1> HIDE DEF n
<1>3. n \in Maps
  BY <1>1, <1>2, <1>t DEF Maps
<1>4. /\ k \in n.keys /\ n.last_refill[k] = b.at /\ n.last_seen[k] = now /\ n.dropped[k] = m.dropped[k]
      /\ n.milli[k] = IF b.milli >= 1000 THEN b.milli - 1000 ELSE b.milli
      /\ n.given[k] = IF b.milli >= 1000 THEN m.given[k] + 1 ELSE m.given[k]
  BY <1>2 DEF Maps
<1>5. n.milli[k] <= cap(k) /\ 1000 * n.given[k] + n.milli[k] = 1000 * m.given[k] + b.milli
  BY <1>1, <1>4, <1>t
<1>6. from <= b.at /\ b.at <= now + Skew
  BY <1>1, <1>t DEF from
<1>7. n.given[k] \in Nat /\ n.milli[k] \in Nat
  BY <1>3 DEF Maps
<1>8. 1000 * n.given[k] + n.milli[k] + Gain(k, from) <= cap(k) + again + Gain(k, n.last_refill[k])
  BY <1>1, <1>4, <1>5, <1>7, <1>t, <1>p, <1>b
<1>9. m.dropped[k] > 0 => /\ ~FillsUp(k) /\ Apart(m.dropped[k] - 1) <= c - s
                          /\ Apart(m.dropped[k] - 1) <= now + Skew - s
  <2>1. m.dropped[k] > 0 => ~FillsUp(k) /\ Apart(m.dropped[k] - 1) <= c - s
    BY DEF KeyInv
  <2> QED BY <2>1, <1>t, <1>b
<1> QED BY <1>1, <1>3, <1>4, <1>5, <1>6, <1>8, <1>9 DEF KeyInv, from, again, n

\* The buckets of the other keys are left alone.
LEMMA ChargedOthers ==
    ASSUME NEW m \in Maps, NEW k \in BucketKey, NEW j \in BucketKey, j # k, NEW now, NEW c, NEW s,
           KeyInv(m, j, c, s)
    PROVE  KeyInv(Charged(m, k, now), j, c, s)
<1> DEFINE n == Charged(m, k, now)
<1>1. /\ n.milli[j] = m.milli[j] /\ n.last_refill[j] = m.last_refill[j]
      /\ n.last_seen[j] = m.last_seen[j] /\ n.given[j] = m.given[j] /\ n.dropped[j] = m.dropped[j]
      /\ j \in n.keys <=> j \in m.keys
  BY DEF Charged, Maps
<1> HIDE DEF n
<1> QED BY <1>1 DEF KeyInv, n

\* One side of a request.
LEMMA TakeSideOK ==
    ASSUME NEW m \in Maps, NEW k \in BucketKey \cup {Anonymous}, NEW now \in Nat, NEW c \in Nat,
           NEW since0 \in [BucketKey -> Nat], now <= c, c <= now + Skew,
           \A j \in BucketKey : since0[j] <= c,
           \A j \in BucketKey : KeyInv(m, j, c, since0[j])
    PROVE  /\ take_side(m, k, now) \in Maps
           /\ \A j \in BucketKey : KeyInv(take_side(m, k, now), j, c, since0[j])
<1>1. CASE take_side(m, k, now) = m
  BY <1>1
<1>2. CASE k \in BucketKey /\ take_side(m, k, now) = Charged(m, k, now)
  <2>1. Charged(m, k, now) \in Maps /\ KeyInv(Charged(m, k, now), k, c, since0[k])
    BY <1>2, ChargedOK
  <2>2. ASSUME NEW j \in BucketKey, j # k
        PROVE  KeyInv(Charged(m, k, now), j, c, since0[j])
    BY <1>2, <2>2, ChargedOthers
  <2> QED BY <1>2, <2>1, <2>2
<1> QED BY <1>1, <1>2, LimiterAssumption DEF take_side, take

(***************************************************************************)
(* The invariant                                                           *)
(***************************************************************************)

\* The clock moves on: what holds of a bucket goes on to hold.
LEMMA LaterOK ==
    ASSUME NEW m \in Maps, NEW k \in BucketKey, NEW c \in Nat, NEW s \in Nat, KeyInv(m, k, c, s)
    PROVE  KeyInv(m, k, c + 1, s)
<1>t. Skew \in Nat /\ m.given[k] \in Nat /\ m.last_refill[k] \in Nat /\ m.last_seen[k] \in Nat
      /\ m.dropped[k] \in Nat
  BY LimiterAssumption DEF Maps
<1>b. Bursts(k, m.dropped[k]) \in Nat /\ Apart(m.dropped[k] - 1) \in Int
  BY <1>t, BurstsOK, ApartOK
<1>1. Gain(k, c - Skew) <= Gain(k, c + 1 - Skew)
  BY <1>t, GainInt, GainMono
<1>2. Gain(k, c - Skew) \in Int /\ Gain(k, c + 1 - Skew) \in Int /\ Gain(k, s - Skew) \in Int
  BY <1>t, GainInt, GainMono
<1> QED BY <1>1, <1>2, <1>t, <1>b DEF KeyInv

\* A window begins: nothing was given in it yet.
LEMMA WatchOK ==
    ASSUME NEW m \in Maps, NEW k \in BucketKey, NEW c, NEW s, NEW t, KeyInv(m, k, c, s)
    PROVE  KeyInv([m EXCEPT !.given[k] = 0, !.dropped[k] = 0], k, c, t)
BY DEF KeyInv, Maps

\* How often a bucket counts as dropped when it is swept.
Counted(m, k) == IF FillsUp(k) THEN m.dropped[k] ELSE m.dropped[k] + 1

\* A bucket that was idle long enough would be full again for any request that
\* may still come; one that would not be is counted.
LEMMA SweepOK ==
    ASSUME NEW m \in Maps, NEW k \in m.keys, NEW c \in Nat, NEW s \in Nat, NEW now \in Nat,
           now <= c, s <= c, now - m.last_seen[k] >= MaxIdle, KeyInv(m, k, c, s)
    PROVE  /\ \/ m.given[k] = 0
              \/ 1000 * m.given[k] + Gain(k, s - Skew) <= Bursts(k, Counted(m, k)) + Gain(k, c - Skew)
           /\ Counted(m, k) > 0 => ~FillsUp(k) /\ Apart(Counted(m, k) - 1) <= c - s
<1> DEFINE n == m.dropped[k]
           rest == MaxIdle - 2 * Skew
<1>k. k \in BucketKey
  BY DEF Maps
<1>t. /\ Skew \in Nat /\ MaxIdle \in Nat /\ cap(k) \in Nat /\ m.given[k] \in Nat /\ m.milli[k] \in Nat
      /\ m.last_refill[k] \in Nat /\ m.last_seen[k] \in Nat /\ n \in Nat /\ 2 * Skew <= MaxIdle
  BY <1>k, LimiterAssumption DEF Maps, cap
<1>b. /\ Bursts(k, n) \in Nat /\ Bursts(k, n + 1) = Bursts(k, n) + cap(k)
      /\ Apart(n - 1) \in Int /\ Apart(n) = Apart(n - 1) + (MaxIdle - Skew)
  <2>1. n - 1 \in Int /\ (n - 1) + 1 = n
    BY <1>t
  <2>2. Apart(n - 1) \in Int /\ Apart((n - 1) + 1) = Apart(n - 1) + (MaxIdle - Skew)
    BY <2>1, ApartOK
  <2> QED BY <1>k, <1>t, <2>1, <2>2, BurstsOK
<1>2. m.last_refill[k] <= (c - Skew) - rest /\ (c - Skew) - rest <= c - Skew
  BY <1>k, <1>t DEF KeyInv
<1>3. c - Skew \in Int /\ rest \in Int /\ s - Skew \in Int /\ m.last_refill[k] \in Int /\ (c - Skew) - rest \in Int
  BY <1>t
<1>f. FillsUp(k) <=> cap(k) <= Gain(k, rest)
  BY DEF FillsUp
<1> HIDE DEF n, rest
<1>4. Gain(k, m.last_refill[k]) <= Gain(k, (c - Skew) - rest) /\ Gain(k, (c - Skew) - rest) <= Gain(k, c - Skew)
  BY <1>k, <1>2, <1>3, GainMono
<1>5. Gain(k, (c - Skew) - rest) = Gain(k, c - Skew) - Gain(k, rest)
  BY <1>k, <1>3, GainMinus
<1>6. /\ Gain(k, c - Skew) \in Int /\ Gain(k, rest) \in Int
      /\ Gain(k, s - Skew) \in Int /\ Gain(k, m.last_refill[k]) \in Int
  BY <1>k, <1>3, GainInt
<1>7. /\ \/ m.given[k] = 0
         \/ 1000 * m.given[k] + m.milli[k] + Gain(k, s - Skew) <= cap(k) + Bursts(k, n) + Gain(k, m.last_refill[k])
      /\ n > 0 => ~FillsUp(k) /\ Apart(n - 1) <= m.last_seen[k] + Skew - s /\ Apart(n - 1) <= c - s
  BY <1>k DEF KeyInv, n
<1>8. CASE FillsUp(k)
  <2>1. Counted(m, k) = n
    BY <1>8 DEF Counted, n
  <2>2. m.given[k] = 0 \/ 1000 * m.given[k] + Gain(k, s - Skew) <= Bursts(k, n) + Gain(k, c - Skew)
    BY <1>8, <1>f, <1>4, <1>5, <1>6, <1>7, <1>t, <1>b
  <2> QED BY <2>1, <2>2, <1>7, <1>8
<1>9. CASE ~FillsUp(k)
  <2>1. Counted(m, k) = n + 1 /\ Counted(m, k) - 1 = n
    BY <1>9, <1>t DEF Counted, n
  <2>2. m.given[k] = 0 \/ 1000 * m.given[k] + Gain(k, s - Skew) <= Bursts(k, n + 1) + Gain(k, c - Skew)
    <3>1. Gain(k, m.last_refill[k]) <= Gain(k, c - Skew)
      BY <1>k, <1>2, <1>3, GainMono
    <3> QED BY <3>1, <1>6, <1>7, <1>t, <1>b
  <2>3. Apart(n) <= c - s
    <3>1. CASE n = 0
      BY <3>1, <1>t, ApartZero
    <3>2. CASE n > 0
      BY <3>2, <1>7, <1>b, <1>t
    <3> QED BY <3>1, <3>2, <1>t DEF n
  <2> QED BY <2>1, <2>2, <2>3, <1>9
<1> QED BY <1>8, <1>9

\* The invariant holds at the start.
LEMMA RateInvInit == RateInit => RateInv
<1> SUFFICES ASSUME RateInit PROVE RateInv
  OBVIOUS
<1>1. RateTypeOK
  BY DEF RateInit, RateTypeOK, Asking, NoRequest, Maps
<1>2. AgeInv
  BY DEF RateInit, AgeInv, Fresh
<1>3. \A k \in BucketKey : cap(k) \in Nat
  BY LimiterAssumption DEF cap
<1>4. BucketInv
  BY <1>3 DEF RateInit, BucketInv, KeyInv
<1> QED BY <1>1, <1>2, <1>4 DEF RateInv

\* Every step keeps it.
LEMMA RateInvNext == RateInv /\ [RateNext]_limitVars => RateInv'
<1> SUFFICES ASSUME RateInv, [RateNext]_limitVars PROVE RateInv'
  OBVIOUS
<1> USE DEF RateInv
<1>s. Skew \in Nat
  BY LimiterAssumption
<1>1. ASSUME NEW w \in Worker, NEW ip \in IpKey \cup {Anonymous}, NEW actor \in ActorKey \cup {Anonymous},
             ReadClock(w, ip, actor)
      PROVE  RateInv'
  <2>1. RateTypeOK'
    BY <1>1 DEF ReadClock, RateTypeOK, Asking
  <2>2. AgeInv'
    BY <1>1, <1>s DEF ReadClock, AgeInv, Fresh, RateTypeOK
  <2>3. BucketInv'
    BY <1>1 DEF ReadClock, BucketInv, KeyInv
  <2> QED BY <2>1, <2>2, <2>3
<1>2. ASSUME NEW w \in Worker, Allow(w) PROVE RateInv'
  <2> DEFINE r == waiting[w]
             one == take_side(map, r.ip, r.now)
             two == take_side(one, r.actor, r.now)
  <2>1. /\ r.now \in Nat /\ r.now <= clock /\ clock <= r.now + Skew /\ clock \in Nat
        /\ r.ip \in BucketKey \cup {Anonymous} /\ r.actor \in BucketKey \cup {Anonymous}
        /\ since \in [BucketKey -> Nat] /\ \A j \in BucketKey : since[j] <= clock
        /\ map \in Maps /\ \A j \in BucketKey : KeyInv(map, j, clock, since[j])
    BY <1>2 DEF Allow, AgeInv, Fresh, RateTypeOK, Asking, BucketKey, BucketInv
  <2> HIDE DEF r
  <2>2. one \in Maps /\ \A j \in BucketKey : KeyInv(one, j, clock, since[j])
    BY <2>1, TakeSideOK
  <2> HIDE DEF one
  <2>3. two \in Maps /\ \A j \in BucketKey : KeyInv(two, j, clock, since[j])
    BY <2>1, <2>2, TakeSideOK
  <2>4. map' = two /\ UNCHANGED <<clock, sweeping, since>> /\ waiting' = [waiting EXCEPT ![w] = NoRequest]
    BY <1>2 DEF Allow, two, one, r
  <2> HIDE DEF two
  <2>5. RateTypeOK'
    BY <2>3, <2>4 DEF RateTypeOK, Asking, NoRequest
  <2>6. AgeInv'
    BY <2>4 DEF AgeInv, Fresh, RateTypeOK
  <2>7. BucketInv'
    BY <2>3, <2>4 DEF BucketInv, KeyInv
  <2> QED BY <2>5, <2>6, <2>7
<1>3. CASE SweepBegin
  <2>1. RateTypeOK' /\ AgeInv'
    BY <1>3, <1>s DEF SweepBegin, RateTypeOK, AgeInv, Fresh
  <2>2. BucketInv'
    BY <1>3 DEF SweepBegin, BucketInv, KeyInv
  <2> QED BY <2>1, <2>2
<1>4. CASE gc_idle
  <2> DEFINE kept == {k \in map.keys : ~IsIdle(k)}
  <2>1. /\ map'.keys = kept /\ map'.given = map.given
        /\ map'.dropped = [k \in BucketKey |-> IF k \in map.keys \ kept /\ ~FillsUp(k)
                                               THEN map.dropped[k] + 1 ELSE map.dropped[k]]
        /\ map'.milli = [k \in BucketKey |-> IF k \in kept THEN map.milli[k] ELSE 0]
        /\ map'.last_refill = [k \in BucketKey |-> IF k \in kept THEN map.last_refill[k] ELSE 0]
        /\ map'.last_seen = [k \in BucketKey |-> IF k \in kept THEN map.last_seen[k] ELSE 0]
        /\ map' = [keys |-> map'.keys, milli |-> map'.milli, last_refill |-> map'.last_refill,
                   last_seen |-> map'.last_seen, given |-> map'.given, dropped |-> map'.dropped]
        /\ sweeping' = -1 /\ UNCHANGED <<clock, waiting, since>>
    BY <1>4 DEF gc_idle
  <2>2. RateTypeOK'
    BY <2>1 DEF RateTypeOK, Maps
  <2>3. AgeInv'
    BY <2>1 DEF AgeInv, Fresh
  <2>4. ASSUME NEW k \in BucketKey PROVE KeyInv(map, k, clock, since[k])' 
    <3>1. KeyInv(map, k, clock, since[k])
      BY DEF BucketInv
    <3>2. CASE k \in kept
      BY <2>1, <3>1, <3>2 DEF KeyInv
    <3>3. CASE k \notin map.keys
      <4>1. cap(k) \in Nat
        BY LimiterAssumption DEF cap
      <4> QED BY <2>1, <3>1, <3>3, <4>1 DEF KeyInv
    <3>4. CASE k \in map.keys /\ k \notin kept
      <4>1. cap(k) \in Nat
        BY LimiterAssumption DEF cap
      <4>2. sweeping \in Nat /\ sweeping <= clock /\ sweeping - map.last_seen[k] >= MaxIdle
        BY <1>4, <3>4 DEF gc_idle, AgeInv, Fresh, IsIdle
      <4>3. since[k] <= clock /\ since[k] \in Nat /\ clock \in Nat /\ map \in Maps
        BY DEF AgeInv, RateTypeOK
      <4>4. /\ \/ map.given[k] = 0
               \/ 1000 * map.given[k] + Gain(k, since[k] - Skew)
                    <= Bursts(k, Counted(map, k)) + Gain(k, clock - Skew)
            /\ Counted(map, k) > 0 => ~FillsUp(k) /\ Apart(Counted(map, k) - 1) <= clock - since[k]
        BY <3>1, <3>4, <4>2, <4>3, SweepOK
      <4>5. /\ k \notin map'.keys /\ map'.milli[k] = 0 /\ map'.given[k] = map.given[k]
            /\ map'.dropped[k] = Counted(map, k)
        BY <2>1, <3>4 DEF Counted
      <4> QED BY <2>1, <4>1, <4>4, <4>5 DEF KeyInv
    <3> QED BY <3>2, <3>3, <3>4
  <2>5. BucketInv'
    BY <2>4 DEF BucketInv
  <2> QED BY <2>2, <2>3, <2>5
<1>5. CASE Tick
  <2>1. RateTypeOK'
    BY <1>5 DEF Tick, RateTypeOK
  <2>2. AgeInv'
    BY <1>5, <1>s DEF Tick, RateTypeOK, AgeInv, Fresh, Asking
  <2>3. ASSUME NEW k \in BucketKey PROVE KeyInv(map, k, clock, since[k])'
    <3>1. KeyInv(map, k, clock + 1, since[k])
      BY LaterOK DEF BucketInv, RateTypeOK
    <3> QED BY <3>1, <1>5 DEF Tick, KeyInv
  <2> QED BY <2>1, <2>2, <2>3 DEF BucketInv
<1>6. ASSUME NEW k \in BucketKey, Watch(k) PROVE RateInv'
  <2>1. RateTypeOK'
    BY <1>6 DEF Watch, RateTypeOK, Maps
  <2>2. AgeInv'
    BY <1>6 DEF Watch, RateTypeOK, AgeInv, Fresh
  <2>3. ASSUME NEW j \in BucketKey PROVE KeyInv(map, j, clock, since[j])'
    <3>1. KeyInv(map, j, clock, since[j]) /\ map \in Maps
      BY DEF BucketInv, RateTypeOK
    <3>2. map' = [map EXCEPT !.given[k] = 0, !.dropped[k] = 0] /\ clock' = clock /\ since' = [since EXCEPT ![k] = clock]
      BY <1>6 DEF Watch
    <3>3. CASE j = k
      <4>1. KeyInv([map EXCEPT !.given[k] = 0, !.dropped[k] = 0], k, clock, clock)
        BY <3>1, <3>3, WatchOK
      <4>2. since'[k] = clock
        BY <3>2 DEF RateTypeOK
      <4> QED BY <3>2, <3>3, <4>1, <4>2 DEF KeyInv
    <3>4. CASE j # k
      BY <3>1, <3>2, <3>4 DEF KeyInv, Maps, RateTypeOK
    <3> QED BY <3>3, <3>4
  <2> QED BY <2>1, <2>2, <2>3 DEF BucketInv
<1>7. CASE UNCHANGED limitVars
  BY <1>7 DEF limitVars, RateTypeOK, AgeInv, Fresh, BucketInv, KeyInv
<1> QED BY <1>1, <1>2, <1>3, <1>4, <1>5, <1>6, <1>7 DEF RateNext

\* The bound of rate_limit.rs for every window, for every capacity and refill
\* rate the environment may set and for every number of keys, workers and
\* requests: the capacity, what the key gained, and the capacity once more for
\* every sweep of a bucket that had no time to fill up.
THEOREM RateHolds == RateSpec => []RateBound
<1>1. RateInv => RateBound
  <2> SUFFICES ASSUME RateInv, NEW k \in BucketKey
               PROVE  LET n == map.dropped[k]
                      IN  /\ 1000 * map.given[k] <= cap(k) + Bursts(k, n) + Gain(k, clock - since[k] + Skew)
                          /\ n > 0 => ~FillsUp(k) /\ Apart(n - 1) <= clock - since[k]
    BY DEF RateBound
  <2>t. /\ Skew \in Nat /\ cap(k) \in Nat /\ clock \in Nat /\ since[k] \in Nat /\ since[k] <= clock
        /\ map.given[k] \in Nat /\ map.milli[k] \in Nat /\ map.last_refill[k] \in Nat /\ map.dropped[k] \in Nat
    BY LimiterAssumption DEF RateInv, RateTypeOK, AgeInv, Maps, cap
  <2> DEFINE from == since[k] - Skew
             again == Bursts(k, map.dropped[k])
  <2>1. from \in Int /\ clock \in Int /\ clock - Skew \in Int /\ clock - Skew <= clock /\ from <= clock
        /\ map.last_refill[k] \in Int /\ clock - since[k] + Skew = clock - from
    BY <2>t
  <2>b. again \in Nat
    BY <2>t, BurstsOK
  <2>2. KeyInv(map, k, clock, since[k])
    BY DEF RateInv, BucketInv
  <2>3. Gain(k, clock - from) = Gain(k, clock) - Gain(k, from)
    BY <2>1, GainMinus
  <2>4. /\ Gain(k, clock) \in Int /\ Gain(k, from) \in Int /\ Gain(k, clock - Skew) \in Int
        /\ Gain(k, map.last_refill[k]) \in Int
        /\ Gain(k, clock - Skew) <= Gain(k, clock) /\ Gain(k, from) <= Gain(k, clock)
    BY <2>1, GainInt, GainMono
  <2>5. k \in map.keys => map.last_refill[k] <= clock
    BY <2>2 DEF KeyInv
  <2>6. k \in map.keys => Gain(k, map.last_refill[k]) <= Gain(k, clock)
    BY <2>5, <2>1, GainMono
  <2>7. /\ \/ map.given[k] = 0
           \/ k \in map.keys /\ 1000 * map.given[k] + map.milli[k] + Gain(k, from)
                                    <= cap(k) + again + Gain(k, map.last_refill[k])
           \/ 1000 * map.given[k] + Gain(k, from) <= again + Gain(k, clock - Skew)
        /\ map.dropped[k] > 0 => ~FillsUp(k) /\ Apart(map.dropped[k] - 1) <= clock - since[k]
    BY <2>2 DEF KeyInv
  <2>8. 1000 * map.given[k] <= cap(k) + again + Gain(k, clock - from)
    <3> HIDE DEF from, again
    <3> QED BY <2>t, <2>b, <2>3, <2>4, <2>6, <2>7
  <2> QED BY <2>1, <2>7, <2>8
<1> QED BY <1>1, RateInvInit, RateInvNext, PTL DEF RateSpec
=============================================================================
