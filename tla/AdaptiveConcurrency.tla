------------------------ MODULE AdaptiveConcurrency ------------------------
(***************************************************************************)
(* One path of middleware/adaptive_concurrency.py: a limit on requests in  *)
(* flight that follows their latency.  Admission and the end of a request  *)
(* are its two critical sections; neither awaits while it holds the lock.  *)
(*                                                                         *)
(* The limit, a float in the code, is counted in Units to the request and  *)
(* rounded down; latencies are ticks of the clock, at most MaxRtt of them. *)
(***************************************************************************)
EXTENDS Naturals, Sequences, FiniteSets

CONSTANTS
    Slots,        \* request slots of the path
    Units,           \* units of the limit to a request
    InitialLimit,    \* initial_limit, in units, as all limits
    MinLimit,        \* min_limit
    MaxLimit,        \* max_limit
    Buffer,          \* queue_size_buffer
    Inertia,         \* smoothing is (Inertia - 1) / Inertia
    Window,          \* maxlen of the samples
    ResetInterval,   \* min_rtt_reset_interval, in ticks
    MaxRtt           \* bounds the latencies told apart

ASSUME SlotsAssumption == IsFiniteSet(Slots)
ASSUME UnitsAssumption == Units \in Nat \ {0} /\ Buffer \in Nat
ASSUME LimitsAssumption ==
    /\ {InitialLimit, MinLimit, MaxLimit} \subseteq Nat
    /\ InitialLimit >= Units /\ MinLimit >= Units /\ MaxLimit >= MinLimit
ASSUME WindowAssumption ==
    {Window, Inertia, MaxRtt} \subseteq Nat \ {0} /\ ResetInterval \in Nat

VARIABLES
    limit,        \* _PathState.limit
    in_flight,    \* _PathState.in_flight
    min_rtt,      \* _PathState.min_rtt
    samples,      \* _PathState.samples
    age,          \* how long ago last_min_rtt_reset was, up to ResetInterval
    place,        \* where each request is
    elapsed       \* monotonic() - started of each request inside

path == <<limit, in_flight, min_rtt, samples, age>>
adaptiveVars == <<path, place, elapsed>>

Infinity == MaxRtt + 1

AdaptiveInit ==
    /\ limit = InitialLimit
    /\ in_flight = 0
    /\ min_rtt = Infinity
    /\ samples = <<>>
    /\ age = 0
    /\ place = [r \in Slots |-> "idle"]
    /\ elapsed = [r \in Slots |-> 0]

Larger(a, b) == IF a < b THEN b ELSE a
Smaller(a, b) == IF a < b THEN a ELSE b

-----------------------------------------------------------------------------
\* Mutant of HasRoom: one request too many.
HasRoomOffByOne == in_flight * Units <= limit

HasRoom == in_flight * Units < limit

\* The first critical section of __call__.
AdaptiveEnter(r) ==
    /\ place[r] = "idle"
    /\ IF age >= ResetInterval
         THEN min_rtt' = Infinity /\ age' = 0
         ELSE UNCHANGED <<min_rtt, age>>
    /\ IF HasRoom
         THEN in_flight' = in_flight + 1 /\ place' = [place EXCEPT ![r] = "inside"]
         ELSE UNCHANGED in_flight /\ place' = [place EXCEPT ![r] = "rejected"]
    /\ UNCHANGED <<limit, samples, elapsed>>

AdaptiveSend503(r) ==
    /\ place[r] = "rejected"
    /\ place' = [place EXCEPT ![r] = "idle"]
    /\ UNCHANGED <<path, elapsed>>

-----------------------------------------------------------------------------
(* _record_sample                                                          *)

Total(s) ==
    LET sum[n \in 0..Len(s)] == IF n = 0 THEN 0 ELSE sum[n - 1] + s[n]
    IN  sum[Len(s)]

\* limit * clamp(min_rtt / avg_rtt, 0.5, 1.0)
Graded(l, floor, s) ==
    Larger(l \div 2, Smaller(l, (l * floor * Len(s)) \div Total(s)))

Clamped(l) == Larger(MinLimit, Smaller(MaxLimit, l))

\* The exponentially weighted average of the old and the new limit.
Adapted(l, floor, s) ==
    Clamped((l * (Inertia - 1) + Graded(l, floor, s) + Buffer) \div Inertia)

Sampled(rtt) ==
    LET s == Append(samples, rtt) IN SubSeq(s, Larger(1, Len(s) - Window + 1), Len(s))

\* Mutant of LeaveFlight: the request is still counted.
LeaveFlightNot == in_flight

LeaveFlight == in_flight - 1

\* The `finally` of __call__: the inner application returned, raised or was
\* cancelled.  The floor is finite by now, so target_rtt is never used.
Exit(r) ==
    LET observed == Larger(elapsed[r], 1)
        floor == Smaller(min_rtt, observed)
    IN  /\ place[r] = "inside"
        /\ in_flight' = LeaveFlight
        /\ samples' = Sampled(observed)
        /\ min_rtt' = floor
        /\ limit' = Adapted(limit, floor, samples')
        /\ place' = [place EXCEPT ![r] = "idle"]
        /\ elapsed' = [elapsed EXCEPT ![r] = 0]
        /\ UNCHANGED age

\* The monotonic clock advances.
AdaptiveTick ==
    /\ age' = Smaller(age + 1, ResetInterval)
    /\ elapsed' = [r \in Slots |->
                      IF place[r] = "inside" THEN Smaller(elapsed[r] + 1, MaxRtt) ELSE 0]
    /\ UNCHANGED <<limit, in_flight, min_rtt, samples, place>>

AdaptiveNext ==
    \/ \E r \in Slots : AdaptiveEnter(r) \/ AdaptiveSend503(r) \/ Exit(r)
    \/ AdaptiveTick

AdaptiveSpec == AdaptiveInit /\ [][AdaptiveNext]_adaptiveVars

\* Requests keep arriving, and each that was admitted ends: the inner
\* application is awaited without a timeout.
AdaptiveFairSpec ==
    /\ AdaptiveSpec
    /\ \A r \in Slots :
          /\ WF_adaptiveVars(AdaptiveEnter(r)) /\ WF_adaptiveVars(AdaptiveSend503(r))
          /\ WF_adaptiveVars(Exit(r))

-----------------------------------------------------------------------------
Inside == {r \in Slots : place[r] = "inside"}

\* Every variable stays in its range, and the counter counts.
AdaptiveTypeOK ==
    /\ limit \in {InitialLimit} \cup MinLimit..MaxLimit
    /\ in_flight = Cardinality(Inside)
    /\ min_rtt \in 1..Infinity
    /\ samples \in Seq(1..MaxRtt) /\ Len(samples) <= Window
    /\ age \in 0..ResetInterval
    /\ place \in [Slots -> {"idle", "inside", "rejected"}]
    /\ elapsed \in [Slots -> 0..MaxRtt]

\* However the limit moves under requests that are inside, no more of them are
\* inside at once than the largest limit, rounded up, allows.
InFlightBounded ==
    Cardinality(Inside) * Units < Larger(InitialLimit, MaxLimit) + Units

\* The path is never closed for good: again and again there is room.
NoLockOut == []<>HasRoom
=============================================================================
