----------------------------- MODULE RateLimit -----------------------------
(***************************************************************************)
(* The token buckets of one client: middleware/rate_limit.py, a bucket in  *)
(* the memory of a process that a cleanup forgets now and then, and        *)
(* middleware/rate_limit_redis.py, a bucket that processes share in Redis  *)
(* (a script takes from it, a time to live removes it), with a bucket in   *)
(* the memory of each process once Redis has failed it.                    *)
(*                                                                         *)
(* Tokens are counted in units, so that a clock tick refills a whole       *)
(* number of them.  The clocks of the processes agree; a difference        *)
(* between them is a longer way to Redis.                                  *)
(***************************************************************************)
EXTENDS Integers, FiniteSets

CONSTANTS
    Processes,
    Redis,             \* names the shared bucket
    Calls,          \* request slots
    Burst,             \* burst
    Rate,              \* units a tick adds, requests_per_second
    Token,             \* units in a token
    CleanupInterval,   \* cleanup_interval, in ticks
    Grace,             \* the 60 seconds EXPIRE adds to burst / rate, in ticks
    MaxTime            \* bounds the run

ASSUME BurstAssumption == Burst \in Nat
ASSUME RateAssumption == Rate \in Nat \ {0} /\ Token \in Nat \ {0}
ASSUME RedisAssumption == Redis \notin Processes
ASSUME TimesAssumption == {CleanupInterval, Grace, MaxTime} \subseteq Nat

VARIABLES
    middleware,   \* which of the two classes the application uses
    now,
    bucket,       \* of Redis and of each process: tokens, last refill; or None
    cleaned,      \* _last_cleanup of each process
    available,    \* _redis_available of each process
    written,      \* when the shared bucket was last written
    pc,
    home,         \* the process that serves each request
    stamp,        \* the request's `now`
    granted,      \* history: by bucket and stamp, how many were allowed
    lapses,       \* history: by bucket, when it was forgotten before it was full
    disordered    \* history: a script ran with an earlier `now` than one before

requestState == <<pc, home, stamp>>
rateVars == <<middleware, now, bucket, cleaned, available, written, requestState,
          granted, lapses, disordered>>

None == [tokens |-> 0, last |-> -1]
Stores == Processes \cup {Redis}
Times == 0..MaxTime

RateInit ==
    /\ middleware \in {"RateLimitMiddleware", "RedisRateLimitMiddleware"}
    /\ now = 0
    /\ bucket = [s \in Stores |-> None]
    /\ cleaned = [p \in Processes |-> 0]
    /\ available = [p \in Processes |-> TRUE]
    /\ written = 0
    /\ pc = [r \in Calls |-> "idle"]
    /\ home \in [Calls -> Processes]
    /\ stamp = [r \in Calls |-> 0]
    /\ granted = [s \in Stores |-> [t \in Times |-> 0]]
    /\ lapses = [s \in Stores |-> {}]
    /\ disordered = FALSE

AtMost(a, b) == IF a < b THEN a ELSE b

-----------------------------------------------------------------------------
(* The bucket: the same arithmetic in Python and in Lua                    *)

\* Mutant of Refilled: the refill may run over.
RefilledUncapped(b, t) ==
    IF b = None THEN Burst * Token ELSE b.tokens + (t - b.last) * Rate

Refilled(b, t) ==
    IF b = None THEN Burst * Token
    ELSE AtMost(Burst * Token, b.tokens + (t - b.last) * Rate)

Allows(b, t) == Refilled(b, t) >= Token

\* Mutant of Taken: the time of the refill is kept when nothing was taken, but
\* what was refilled is not.
TakenForgetsRefill(b, t) ==
    IF Allows(b, t) THEN [tokens |-> Refilled(b, t) - Token, last |-> t]
    ELSE [tokens |-> IF b = None THEN 0 ELSE b.tokens, last |-> t]

Taken(b, t) ==
    [tokens |-> Refilled(b, t) - (IF Allows(b, t) THEN Token ELSE 0), last |-> t]

\* Take from bucket s, with what is there if not None for b, at time t.
Take(r, s, b, t, yes, no) ==
    /\ bucket' = [bucket EXCEPT ![s] = Taken(b, t)]
    /\ granted' = IF Allows(b, t) THEN [granted EXCEPT ![s][t] = @ + 1] ELSE granted
    /\ pc' = [pc EXCEPT ![r] = IF Allows(b, t) THEN yes ELSE no]
    /\ stamp' = [stamp EXCEPT ![r] = IF pc'[r] = "idle" THEN 0 ELSE t]

-----------------------------------------------------------------------------
(* RateLimitMiddleware                                                     *)

CleanupDue(p) == now - cleaned[p] > CleanupInterval

Stale(b) == b.last < now - CleanupInterval

\* The cleanup does not look at the tokens of what it forgets, nor the
\* constructor at whether a bucket is full again by then (60 seconds, 10
\* requests per second and bursts of 10 if nothing else is said).
ArriveInMemory(r) ==
    LET p == home[r]
        forgotten == CleanupDue(p) /\ Stale(bucket[p])
        b == IF forgotten THEN None ELSE bucket[p]
    IN  /\ middleware = "RateLimitMiddleware"
        /\ pc[r] = "idle"
        /\ Take(r, p, b, now, "idle", "refused")
        /\ cleaned' = [cleaned EXCEPT ![p] = IF CleanupDue(p) THEN now ELSE @]
        /\ lapses' = IF forgotten /\ Refilled(bucket[p], now) < Burst * Token
                      THEN [lapses EXCEPT ![p] = @ \cup {now}] ELSE lapses
        /\ UNCHANGED <<middleware, now, available, written, home, disordered>>

-----------------------------------------------------------------------------
(* RedisRateLimitMiddleware                                                *)

\* _check_fallback
TakeFallback(r) == Take(r, home[r], bucket[home[r]], now, "idle", "refused")

\* __call__, and _check_redis up to the script; the client and its scripts
\* are loaded on the way.
Arrive(r) ==
    /\ middleware = "RedisRateLimitMiddleware"
    /\ pc[r] = "idle"
    /\ IF available[home[r]]
         THEN /\ pc' = [pc EXCEPT ![r] = "asking"]
              /\ stamp' = [stamp EXCEPT ![r] = now]
              /\ UNCHANGED <<bucket, granted>>
         ELSE TakeFallback(r)
    /\ UNCHANGED <<middleware, now, cleaned, lapses, available, written, home, disordered>>

\* _BUCKET_SCRIPT, with the request's own idea of the time.
RunScript(r) ==
    /\ pc[r] = "asking"
    /\ Take(r, Redis, bucket[Redis], stamp[r], "allowed", "denied")
    /\ written' = now
    /\ disordered' = (disordered \/ stamp[r] < bucket[Redis].last)
    /\ UNCHANGED <<middleware, now, cleaned, lapses, available, home>>

Reply(r) ==
    /\ pc[r] \in {"allowed", "denied"}
    /\ pc' = [pc EXCEPT ![r] = IF @ = "denied" THEN "refused" ELSE "idle"]
    /\ stamp' = [stamp EXCEPT ![r] = IF pc[r] = "denied" THEN @ ELSE 0]
    /\ UNCHANGED <<middleware, now, bucket, cleaned, lapses, available, written, home,
                   granted, disordered>>

\* Connecting, the script or its reply failed.
RedisFails(r) ==
    /\ pc[r] \in {"asking", "allowed", "denied"}
    /\ available' = [available EXCEPT ![home[r]] = FALSE]
    /\ TakeFallback(r)
    /\ UNCHANGED <<middleware, now, cleaned, lapses, written, home, disordered>>

\* EXPIRE math.ceil(burst / rate) + 60
TimeToLive == (Burst * Token + Rate - 1) \div Rate + Grace

KeyExpires ==
    /\ bucket[Redis] # None /\ now - written >= TimeToLive
    /\ bucket' = [bucket EXCEPT ![Redis] = None]
    /\ UNCHANGED <<middleware, now, cleaned, lapses, available, written, requestState,
                   granted, disordered>>

-----------------------------------------------------------------------------
\* _send_429
Send429(r) ==
    /\ pc[r] = "refused"
    /\ pc' = [pc EXCEPT ![r] = "idle"]
    /\ stamp' = [stamp EXCEPT ![r] = 0]
    /\ UNCHANGED <<middleware, now, bucket, cleaned, lapses, available, written, home,
                   granted, disordered>>

\* A script runs at most Grace ticks after its request asked for it.
Tick ==
    /\ now < MaxTime
    /\ \A r \in Calls : pc[r] = "asking" => now - stamp[r] < Grace
    /\ now' = now + 1
    /\ UNCHANGED <<middleware, bucket, cleaned, lapses, available, written,
                   requestState, granted, disordered>>

RateNext ==
    \/ \E r \in Calls :
          \/ ArriveInMemory(r) \/ Arrive(r) \/ RunScript(r) \/ Reply(r)
          \/ RedisFails(r) \/ Send429(r)
    \/ KeyExpires \/ Tick

RateSpec == RateInit /\ [][RateNext]_rateVars

-----------------------------------------------------------------------------
\* What bucket s has let through in the window from i to j: for each time as
\* many as were granted then.
Grants(g, i, j) == UNION {{t} \X (1..g[t]) : t \in i..j}
Through(s, i, j) == Cardinality(Grants(granted[s], i, j))
Quota(i, j) == Burst * Token + (j - i) * Rate

\* Within the window no cleanup forgot the bucket before it was full.
Unlapsed(s, i, j) == \A k \in lapses[s] : ~(i < k /\ k <= j)

\* In no window does a bucket let through more than the burst and what the
\* rate gives for the time, although idle buckets are forgotten, keys expire,
\* and scripts of several processes run in another order than their requests
\* read the clock; unless a cleanup that comes sooner than a bucket fills up
\* forgot, within the window, what was missing from it. Each time it does a
\* new window begins, with another burst.
WithinRate ==
    \A s \in Stores : \A i, j \in Times :
        i <= j /\ Unlapsed(s, i, j) => Through(s, i, j) * Token <= Quota(i, j)

\* A request is refused only if allowing it would have broken that, in a window
\* that ends with it (as long as the scripts run in order).
RefusedOnlyInExcess ==
    ~disordered =>
        \A r \in Calls : pc[r] \in {"refused", "denied"} =>
            \E s \in {home[r], Redis}, i \in 0..stamp[r] :
                (Through(s, i, stamp[r]) + 1) * Token > Quota(i, stamp[r])
=============================================================================
