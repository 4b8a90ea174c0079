---------------------------- MODULE RateLimiter ----------------------------
(***************************************************************************)
(* Rate limiting (auth/rate_limit.py): token buckets in Redis, shared by   *)
(* the workers.  A worker reads its own clock, then runs the script, which *)
(* refills, charges and stamps the bucket in one step.                     *)
(*                                                                         *)
(* Tokens are counted in units of 1/Period, so that the refill per second  *)
(* (limit / period) is the whole number Limit; a request costs Period.     *)
(* The in-memory store is the same bucket for one worker.                  *)
(***************************************************************************)
EXTENDS Integers, FiniteSetsExt

CONSTANTS Keys,     \* bucket keys: policy, and user or address
          Limiters,
          Limit, Period, Burst,  \* a policy; Burst = 0 stands for "no burst"
          MinTtl,   \* the sixty seconds a bucket is kept at least
          MaxLag,   \* the script runs at most so long after the clock was read
          MaxTime   \* bound: seconds

ASSUME RateAssumption ==
    /\ {Limit, Period, MinTtl} \subseteq Nat \ {0}
    /\ {Burst, MaxLag, MaxTime} \subseteq Nat

Capacity == (IF Burst = 0 THEN Limit ELSE Burst) * Period
Ceil(a, b) == (a + b - 1) \div b
Ttl == Max({MinTtl, Ceil(Capacity * 2, Limit)})

\* A bucket is kept twice the time it needs to fill: no script runs so late that
\* a bucket could be gone before it had filled by the clock the script was given.
ASSUME LagAssumption == Capacity <= (Ttl - MaxLag) * Limit

VARIABLES
    time,      \* seconds
    bucket,    \* [Keys -> [tokens, ts, until], or Unused]
    asking,      \* [Limiters -> the request at the limiter: its key, and the clock read]
    admitted,  \* history: [Keys -> [0..MaxTime -> requests let through since]], by clock read
    unmetered, \* history: requests let through while the store was down
    turned     \* history: keys whose stamp went back in time

rateVars == <<time, bucket, asking, admitted, unmetered, turned>>

Unused == [ts |-> -1]
NotAsking == [key |-> "none"]
Lower(a, b) == IF a < b THEN a ELSE b

RateInit ==
    /\ time = 0
    /\ bucket = [k \in Keys |-> Unused]
    /\ asking = [w \in Limiters |-> NotAsking]
    /\ admitted = [k \in Keys |-> [t \in 0..MaxTime |-> 0]]
    /\ unmetered = 0
    /\ turned = {}

Tick ==
    /\ time < MaxTime
    /\ \A w \in Limiters : asking[w] # NotAsking => time < asking[w].at + MaxLag
    /\ time' = time + 1
    /\ UNCHANGED <<bucket, asking, admitted, unmetered, turned>>

\* The middleware matches a policy, and the store reads the clock.
Arrives(w, k) ==
    /\ asking[w] = NotAsking
    /\ asking' = [asking EXCEPT ![w] = [key |-> k, at |-> time]]
    /\ UNCHANGED <<time, bucket, admitted, unmetered, turned>>

Held(k) == bucket[k] # Unused /\ time < bucket[k].until

\* Faulty variant: a refill may pass the capacity.
RefilledUncapped(k, at) ==
    IF ~Held(k) THEN Capacity
    ELSE bucket[k].tokens + (IF at > bucket[k].ts THEN at - bucket[k].ts ELSE 0) * Limit

Refilled(k, at) ==
    IF ~Held(k) THEN Capacity
    ELSE Lower(Capacity, bucket[k].tokens
                 + (IF at > bucket[k].ts THEN at - bucket[k].ts ELSE 0) * Limit)

\* The rest of the script: HSET stamps the caller's clock even when it is the
\* older one.
Charged(tokens, at) ==
    [tokens |-> IF tokens >= Period THEN tokens - Period ELSE tokens,
     ts |-> at, until |-> time + Ttl]

CountedAt(since, at) == [t \in 0..MaxTime |-> since[t] + (IF t <= at THEN 1 ELSE 0)]

Consume(w) ==
    /\ asking[w] # NotAsking
    /\ LET k == asking[w].key
           at == asking[w].at
           tokens == Refilled(k, at)
           allowed == tokens >= Period
       IN
       /\ bucket' = [bucket EXCEPT ![k] = Charged(tokens, at)]
       /\ admitted' = IF allowed THEN [admitted EXCEPT ![k] = CountedAt(@, at)] ELSE admitted
       /\ turned' = IF Held(k) /\ at < bucket[k].ts THEN turned \cup {k} ELSE turned
    /\ asking' = [asking EXCEPT ![w] = NotAsking]
    /\ UNCHANGED <<time, unmetered>>

\* The store is down: the request passes unmetered, or is refused with 503.
StoreFails(w, failOpen) ==
    /\ asking[w] # NotAsking
    /\ asking' = [asking EXCEPT ![w] = NotAsking]
    /\ unmetered' = IF failOpen THEN Lower(unmetered + 1, 1) ELSE unmetered
    /\ UNCHANGED <<time, bucket, admitted, turned>>

RateNext ==
    \/ Tick
    \/ \E w \in Limiters :
         \/ \E k \in Keys : Arrives(w, k)
         \/ \E failOpen \in BOOLEAN : StoreFails(w, failOpen)
         \/ Consume(w)

RateSpec == RateInit /\ [][RateNext]_rateVars

(***************************************************************************)
(* Properties                                                              *)
(***************************************************************************)
Buckets == [tokens : 0..Capacity, ts : 0..MaxTime, until : Nat]

RateTypeOK ==
    /\ time \in 0..MaxTime
    /\ bucket \in [Keys -> Buckets \cup {Unused}]
    /\ asking \in [Limiters -> [key : Keys, at : 0..MaxTime] \cup {NotAsking}]
    /\ admitted \in [Keys -> [0..MaxTime -> Nat]]
    /\ unmetered \in 0..1
    /\ turned \subseteq Keys

Since(k, t) == IF t > MaxTime THEN 0 ELSE admitted[k][t]
Within(k, a, b) == (Since(k, a) - Since(k, b + 1)) * Period <= Capacity + Limit * (b - a)

\* A bucket never admits more than its burst plus the refill of the window, in
\* any window of time, though buckets are created, expire and are shared by
\* workers, as long as no worker's reading of the clock is older than the stamp.
BudgetHolds ==
    \A k \in Keys \ turned : \A a, b \in 0..MaxTime : a <= b => Within(k, a, b)

\* The same without the exception.
BudgetAlwaysHolds ==
    \A k \in Keys, a, b \in 0..MaxTime : a <= b => Within(k, a, b)
=============================================================================
