---------------------------- MODULE LimiterProofs ----------------------------
(***************************************************************************)
(* Theorems about the middleware that turns requests away: CircuitBreaker, *)
(* AdaptiveConcurrency and RateLimit, each for every value of its          *)
(* parameters.                                                             *)
(***************************************************************************)
EXTENDS CircuitBreaker, AdaptiveConcurrency, RateLimit, FiniteSetTheorems,
        WellFoundedInduction, TLAPS

-----------------------------------------------------------------------------
(* CircuitBreaker.  ProbesBounded is not inductive: the counter the code   *)
(* compares is half_open_calls, not the number of probes in flight.  IInv  *)
(* ties the two together: no period other than a half-open one has probes  *)
(* or a count, and within a period the count is at least the number of     *)
(* probes, and exactly that number while no probe of the period was lost.  *)

OnlyHalfOpenProbes ==
    state # "HALF_OPEN" => probes = {} /\ half_open_calls = 0 /\ ~lost

ProbesCounted ==
    /\ IsFiniteSet(probes)
    /\ \A r \in probes : phase[r] = "probe"
    /\ Cardinality(probes) <= half_open_calls
    /\ ~lost => Cardinality(probes) = half_open_calls

HalfOpenCounted ==
    state = "HALF_OPEN" /\ HalfOpenMaxCalls > 0 => half_open_calls > 0

IInv ==
    /\ TypeOK
    /\ OnlyHalfOpenProbes
    /\ ProbesCounted
    /\ HalfOpenCounted
    /\ ClosedCountsAfresh

\* The empty history satisfies the inductive invariant.
LEMMA InitIInv == Init => IInv
  <1> SUFFICES ASSUME Init PROVE IInv
    OBVIOUS
  <1>1. IsFiniteSet({}) /\ Cardinality({}) = 0
    BY FS_EmptySet
  <1>2. TypeOK
    <2>1. 0 \in 0..FailureThreshold /\ 0 \in 0..HalfOpenMaxCalls
      BY ThresholdAssumption, ProbesAssumption
    <2>2. phase \in [Requests -> Phases]
      BY DEF Init, Phases
    <2> QED
      BY <2>1, <2>2 DEF Init, TypeOK
  <1> QED
    BY <1>1, <1>2, ThresholdAssumption
    DEF Init, IInv, OnlyHalfOpenProbes, ProbesCounted, HalfOpenCounted,
        ClosedCountsAfresh

\* Every step of a request, and the passing of the recovery timeout,
\* preserve the ranges of the variables.
LEMMA TypeStep == TypeOK /\ [Next]_vars => TypeOK'
  <1> SUFFICES ASSUME TypeOK, [Next]_vars PROVE TypeOK'
    OBVIOUS
  <1> USE ThresholdAssumption, ProbesAssumption DEF TypeOK, Phases
  <1>1. ASSUME NEW r \in Requests, AdmitClosed(r) PROVE TypeOK'
    BY <1>1 DEF AdmitClosed, circuit
  <1>2. ASSUME NEW r \in Requests, AdmitProbe(r) PROVE TypeOK'
    BY <1>2 DEF AdmitProbe, ProbeAllowed, ProbeCalls, PeriodProbes, PeriodLost
  <1>3. ASSUME NEW r \in Requests, RejectOpen(r) PROVE TypeOK'
    BY <1>3 DEF RejectOpen, circuit
  <1>4. ASSUME NEW r \in Requests, RejectHalfOpen(r) PROVE TypeOK'
    BY <1>4 DEF RejectHalfOpen, ProbeCalls, PeriodProbes, PeriodLost
  <1>5. ASSUME NEW r \in Requests, Send503(r) PROVE TypeOK'
    BY <1>5 DEF Send503, circuit
  <1>6. ASSUME NEW r \in Requests, Fail(r) PROVE TypeOK'
    <2>1. Bump(failure_count) \in 0..FailureThreshold
      BY DEF Bump
    <2>2. Bump(streak) \in 0..FailureThreshold
      BY DEF Bump
    <2>3. /\ phase' \in [Requests -> Phases]
          /\ probes' \in SUBSET Requests
          /\ lost' \in BOOLEAN
      BY <1>6 DEF Fail
    <2>4. CASE state = "HALF_OPEN"
      <3>1. /\ state' = "OPEN" /\ recovered' = FALSE
            /\ failure_count' = failure_count
            /\ half_open_calls' = 0
            /\ streak' = Bump(streak)
        BY <1>6, <2>4 DEF Fail, RecordFailure
      <3>2. half_open_calls' \in 0..HalfOpenMaxCalls
        BY <3>1
      <3> QED
        BY <3>1, <3>2, <2>2, <2>3
    <2>5. CASE state # "HALF_OPEN" /\ Tripped(failure_count')
      <3>1. /\ state' = "OPEN" /\ recovered' = FALSE
            /\ failure_count' = Bump(failure_count)
            /\ half_open_calls' = half_open_calls
            /\ streak' = Bump(streak)
        BY <1>6, <2>5 DEF Fail, RecordFailure
      <3> QED
        BY <3>1, <2>1, <2>2, <2>3
    <2>6. CASE state # "HALF_OPEN" /\ ~Tripped(failure_count')
      <3>1. /\ UNCHANGED <<state, recovered, half_open_calls>>
            /\ failure_count' = Bump(failure_count)
            /\ streak' = Bump(streak)
        BY <1>6, <2>6 DEF Fail, RecordFailure
      <3> QED
        BY <3>1, <2>1, <2>2, <2>3
    <2> QED
      BY <2>4, <2>5, <2>6
  <1>7. ASSUME NEW r \in Requests, Succeed(r) PROVE TypeOK'
    <2>1. /\ state' = "CLOSED" /\ failure_count' = 0 /\ half_open_calls' = 0
          /\ recovered' = recovered /\ probes' = {} /\ streak' = 0
          /\ phase' \in [Requests -> Phases]
      BY <1>7 DEF Succeed, RecordSuccess
    <2>2. lost' \in BOOLEAN
      BY <1>7 DEF Succeed
    <2> QED
      BY <2>1, <2>2
  <1>8. ASSUME NEW r \in Requests, Abandon(r) PROVE TypeOK'
    BY <1>8 DEF Abandon, circuit
  <1>9. CASE RecoveryElapses
    BY <1>9 DEF RecoveryElapses
  <1>10. CASE UNCHANGED vars
    BY <1>10 DEF vars
  <1> QED
    BY <1>1, <1>2, <1>3, <1>4, <1>5, <1>6, <1>7, <1>8, <1>9, <1>10
    DEF Next, Enter, Finish

\* Admission and outcome keep the counter in step with the probes in flight.
LEMMA CountStep == IInv /\ [Next]_vars => IInv'
  <1> SUFFICES ASSUME IInv, [Next]_vars PROVE IInv'
    OBVIOUS
  <1> USE ThresholdAssumption, ProbesAssumption
  <1>t. TypeOK /\ TypeOK'
    BY TypeStep DEF IInv
  <1>e. IsFiniteSet({}) /\ Cardinality({}) = 0
    BY FS_EmptySet
  <1> DEFINE Quiet == UNCHANGED <<state, failure_count, half_open_calls,
                                  probes, lost, streak>>
  <1>q. ASSUME Quiet, \A r \in probes : phase'[r] = "probe" PROVE IInv'
    BY <1>q, <1>t DEF IInv, OnlyHalfOpenProbes, ProbesCounted,
       HalfOpenCounted, ClosedCountsAfresh
  <1>n. ASSUME NEW r \in Requests, phase[r] # "probe",
               NEW p \in Phases, phase' = [phase EXCEPT ![r] = p]
        PROVE  \A s \in probes : phase'[s] = "probe"
    BY <1>n, <1>t DEF IInv, ProbesCounted, TypeOK
  <1>1. ASSUME NEW r \in Requests, AdmitClosed(r) PROVE IInv'
    BY <1>1, <1>n, <1>q DEF AdmitClosed, circuit, Phases
  <1>2. ASSUME NEW r \in Requests, AdmitProbe(r) PROVE IInv'
    <2>1. /\ IsFiniteSet(PeriodProbes)
          /\ PeriodProbes \subseteq Requests
          /\ \A s \in PeriodProbes : phase[s] = "probe"
          /\ Cardinality(PeriodProbes) <= ProbeCalls
          /\ ~PeriodLost => Cardinality(PeriodProbes) = ProbeCalls
          /\ ProbeCalls \in Nat
      BY <1>e, <1>t DEF IInv, ProbesCounted, PeriodProbes, ProbeCalls,
         PeriodLost, TypeOK
    <2>2. r \notin PeriodProbes
      BY <1>2, <2>1 DEF AdmitProbe
    <2>3. /\ IsFiniteSet(probes')
          /\ Cardinality(probes') = Cardinality(PeriodProbes) + 1
      BY <1>2, <2>1, <2>2, FS_AddElement DEF AdmitProbe
    <2>4. Cardinality(PeriodProbes) \in Nat
      BY <2>1, FS_CardinalityType
    <2>5. \A s \in probes' : phase'[s] = "probe"
      BY <1>2, <1>t, <2>1 DEF AdmitProbe, TypeOK
    <2>6. ProbesCounted'
      BY <1>2, <2>1, <2>3, <2>4, <2>5 DEF AdmitProbe, ProbesCounted
    <2> QED
      BY <1>2, <1>t, <2>1, <2>6
      DEF AdmitProbe, IInv, OnlyHalfOpenProbes, HalfOpenCounted,
          ClosedCountsAfresh
  <1>3. ASSUME NEW r \in Requests, RejectOpen(r) PROVE IInv'
    BY <1>3, <1>n, <1>q DEF RejectOpen, circuit, Phases
  <1>4. ASSUME NEW r \in Requests, RejectHalfOpen(r) PROVE IInv'
    <2>1. PeriodProbes = probes /\ ProbeCalls = half_open_calls /\ PeriodLost = lost
      BY <1>4 DEF RejectHalfOpen, Probing, PeriodProbes, ProbeCalls,
         PeriodLost, IInv, OnlyHalfOpenProbes, TypeOK
    <2>2. \A s \in probes : phase'[s] = "probe"
      BY <1>4, <1>n DEF RejectHalfOpen, Phases
    <2>3. HalfOpenCounted'
      BY <1>4, <1>t, <2>1 DEF RejectHalfOpen, ProbeAllowed, HalfOpenCounted,
         TypeOK
    <2> QED
      BY <1>4, <1>t, <2>1, <2>2, <2>3
      DEF RejectHalfOpen, IInv, OnlyHalfOpenProbes, ProbesCounted,
          ClosedCountsAfresh
  <1>5. ASSUME NEW r \in Requests, Send503(r) PROVE IInv'
    BY <1>5, <1>n, <1>q DEF Send503, circuit, Phases
  <1>6. ASSUME NEW r \in Requests, Fail(r) PROVE IInv'
    <2>1. state' # "HALF_OPEN" /\ half_open_calls' = 0 /\ probes' = {} /\ ~lost'
      BY <1>6, <1>t DEF Fail, RecordFailure, IInv, OnlyHalfOpenProbes, TypeOK
    <2>2. ClosedCountsAfresh'
      BY <1>6, <1>t DEF Fail, RecordFailure, Bump, Tripped, IInv,
         ClosedCountsAfresh, TypeOK
    <2> QED
      BY <1>e, <1>t, <2>1, <2>2
      DEF IInv, OnlyHalfOpenProbes, ProbesCounted, HalfOpenCounted
  <1>7. ASSUME NEW r \in Requests, Succeed(r) PROVE IInv'
    BY <1>7, <1>e, <1>t
    DEF Succeed, RecordSuccess, IInv, OnlyHalfOpenProbes, ProbesCounted,
        HalfOpenCounted, ClosedCountsAfresh
  <1>8. ASSUME NEW r \in Requests, Abandon(r) PROVE IInv'
    <2>1. CASE r \in probes
      <3>1. /\ IsFiniteSet(probes')
            /\ Cardinality(probes') = Cardinality(probes) - 1
        BY <1>8, <2>1, FS_RemoveElement DEF Abandon, IInv, ProbesCounted
      <3>2. Cardinality(probes) \in Nat
        BY FS_CardinalityType DEF IInv, ProbesCounted
      <3>3. lost'
        BY <1>8, <2>1 DEF Abandon
      <3>4. ProbesCounted'
        BY <1>8, <1>t, <3>1, <3>2, <3>3
        DEF Abandon, circuit, IInv, ProbesCounted, TypeOK
      <3> QED
        BY <1>8, <1>t, <2>1, <3>4
        DEF Abandon, circuit, IInv, OnlyHalfOpenProbes, HalfOpenCounted,
            ClosedCountsAfresh
    <2>2. CASE r \notin probes
      <3>1. probes' = probes /\ lost' = lost
        BY <1>8, <1>t, <2>2 DEF Abandon, TypeOK
      <3>2. \A s \in probes : phase'[s] = "probe"
        BY <1>8, <1>t, <2>2 DEF Abandon, IInv, ProbesCounted, TypeOK
      <3> QED
        BY <1>8, <1>q, <3>1, <3>2 DEF Abandon, circuit
    <2> QED
      BY <2>1, <2>2
  <1>9. CASE RecoveryElapses
    BY <1>9, <1>q DEF RecoveryElapses, IInv, ProbesCounted
  <1>10. CASE UNCHANGED vars
    BY <1>10, <1>q DEF vars, IInv, ProbesCounted
  <1> QED
    BY <1>1, <1>2, <1>3, <1>4, <1>5, <1>6, <1>7, <1>8, <1>9, <1>10
    DEF Next, Enter, Finish

\* The strengthened invariant holds in every state of the breaker.
THEOREM Invariance == Spec => []IInv
  <1> QED
    BY InitIInv, CountStep, PTL DEF Spec

\* The circuit's fields and the requests' phases stay in their ranges.
THEOREM TypeCorrect == Spec => []TypeOK
  <1>1. IInv => TypeOK
    BY DEF IInv
  <1> QED
    BY <1>1, Invariance, PTL

\* No period between two changes of state has more than half_open_max_calls
\* of its probes in the inner application.
THEOREM ProbesStayBounded == Spec => []ProbesBounded
  <1>1. IInv => ProbesBounded
    <2> SUFFICES ASSUME IInv PROVE ProbesBounded
      OBVIOUS
    <2>1. Cardinality(probes) \in Nat
      BY FS_CardinalityType DEF IInv, ProbesCounted
    <2> QED
      BY <2>1, ProbesAssumption DEF IInv, TypeOK, ProbesCounted, ProbesBounded
  <1> QED
    BY <1>1, Invariance, PTL

\* Unless a probe of the period was lost, a half-open circuit is waiting for
\* a probe that is really in flight.
THEOREM HalfOpenIsWaiting == Spec => []HalfOpenHasProbe
  <1>1. IInv => HalfOpenHasProbe
    <2> SUFFICES ASSUME IInv, ~lost, HalfOpenMaxCalls > 0,
                        state = "HALF_OPEN"
                 PROVE  \E r \in probes : phase[r] = "probe"
      BY DEF HalfOpenHasProbe
    <2>1. Cardinality(probes) > 0
      BY DEF IInv, ProbesCounted, HalfOpenCounted
    <2>2. probes # {}
      BY <2>1, FS_EmptySet
    <2> QED
      BY <2>2 DEF IInv, ProbesCounted
  <1> QED
    BY <1>1, Invariance, PTL

\* However a circuit came to be closed, it is failure_threshold failures away
\* from opening.
THEOREM ClosedIsFresh == Spec => []ClosedCountsAfresh
  <1>1. IInv => ClosedCountsAfresh
    BY DEF IInv
  <1> QED
    BY <1>1, Invariance, PTL

\* A closed circuit opens on the last of failure_threshold failures with no
\* success among them, and on nothing else.
THEOREM OpensOnThreshold == Spec => TripsOnThreshold
  <1> DEFINE A == (state = "CLOSED" /\ state' = "OPEN")
                     => streak' >= FailureThreshold
  <1>1. IInv /\ [Next]_vars => [A]_vars
    <2> SUFFICES ASSUME IInv, Next, state = "CLOSED", state' = "OPEN"
                 PROVE  streak' >= FailureThreshold
      OBVIOUS
    <2> USE ThresholdAssumption
    <2>1. PICK r \in Requests : Fail(r)
      BY DEF Next, Enter, Finish, AdmitClosed, AdmitProbe, RejectOpen,
         RejectHalfOpen, Send503, Succeed, RecordSuccess, Abandon,
         RecoveryElapses, circuit
    <2>2. failure_count' >= FailureThreshold /\ failure_count' = Bump(streak)
      BY <2>1 DEF Fail, RecordFailure, Tripped, IInv, ClosedCountsAfresh
    <2> QED
      BY <2>1, <2>2 DEF Fail
  <1> QED
    BY <1>1, Invariance, PTL DEF Spec, TripsOnThreshold

-----------------------------------------------------------------------------
(* AdaptiveConcurrency                                                     *)

\* A set that has 0, and the next number of each it has up to N, has 0..N.
LEMMA UpTo ==
  ASSUME NEW S, NEW N \in Nat, 0 \in S, \A n \in 0..N : n \in S /\ n < N => n + 1 \in S
  PROVE  \A n \in 0..N : n \in S
  <1> DEFINE T == {n \in 0..N : n \notin S}
             R == OpToRel(<, Nat)
  <1> SUFFICES ASSUME T # {} PROVE FALSE
    OBVIOUS
  <1>1. T \subseteq Nat
    OBVIOUS
  <1>2. PICK x \in T : \A y \in T : <<y, x>> \notin R
    <2>1. IsWellFoundedOn(R, Nat)
      BY NatLessThanWellFounded
    <2> HIDE DEF T, R
    <2> QED
      BY <1>1, <2>1, WFMin
  <1>3. x \in 1..N /\ x - 1 \in 0..N /\ x - 1 < x /\ x - 1 < N /\ (x - 1) + 1 = x
    OBVIOUS
  <1>4. <<x - 1, x>> \in R
    BY <1>3 DEF OpToRel
  <1>5. x - 1 \in S
    <2>1. x - 1 \notin T
      BY <1>2, <1>4
    <2> QED
      BY <1>3, <2>1
  <1>6. (x - 1) + 1 \in S
    BY <1>3, <1>5
  <1> QED
    BY <1>3, <1>6

LEMMA Elements ==
  ASSUME NEW T, NEW s \in Seq(T)
  PROVE  Len(s) \in Nat /\ \A n \in 1..Len(s) : s[n] \in T
  OBVIOUS

\* The latencies of some samples add up to at least one tick each.
LEMMA TotalFacts ==
  ASSUME NEW s \in Seq(1..MaxRtt)
  PROVE  Total(s) \in Nat /\ Total(s) >= Len(s)
  <1> DEFINE L == Len(s)
             Is(f, N) == f = [n \in 0..N |-> IF n = 0 THEN 0 ELSE f[n - 1] + s[n]]
             Has == {N \in Nat : \E f : Is(f, N)}
             sum == CHOOSE f : Is(f, L)
  <1>1. L \in Nat /\ \A n \in 1..L : s[n] \in 1..MaxRtt
    BY Elements
  <1>2. 0 \in Has
    <2> DEFINE g == [n \in 0..0 |-> 0]
    <2>1. Is(g, 0)
      OBVIOUS
    <2> QED
      BY <2>1
  <1>3. ASSUME NEW N \in Nat, N \in Has PROVE N + 1 \in Has
    <2>1. PICK f : Is(f, N)
      BY <1>3
    <2> DEFINE g == [n \in 0..N + 1 |-> IF n = N + 1 THEN f[N] + s[N + 1] ELSE f[n]]
    <2>2. ASSUME NEW n \in 0..N + 1 PROVE g[n] = IF n = 0 THEN 0 ELSE g[n - 1] + s[n]
      <3>1. CASE n = N + 1
        BY <3>1
      <3>2. CASE n # N + 1
        <4>1. n \in 0..N /\ g[n] = f[n] /\ (n # 0 => n - 1 \in 0..N /\ g[n - 1] = f[n - 1])
          BY <3>2
        <4> QED
          BY <2>1, <4>1
      <3> QED
        BY <3>1, <3>2
    <2>3. Is(g, N + 1)
      BY <2>2
    <2> HIDE DEF g, Is
    <2> QED
      BY <2>3
  <1>4. \E f : Is(f, L)
    <2>1. L \in Has
      <3> HIDE DEF Has, L
      <3>1. \A n \in 0..L : n \in Has /\ n < L => n + 1 \in Has
        BY <1>1, <1>3
      <3>2. \A n \in 0..L : n \in Has
        BY <1>1, <1>2, <3>1, UpTo
      <3> QED
        BY <1>1, <3>2
    <2> QED
      BY <2>1
  <1>5. Is(sum, L)
    <2> HIDE DEF Is
    <2> QED
      BY <1>4
  <1>6. \A n \in 0..L : sum[n] = IF n = 0 THEN 0 ELSE sum[n - 1] + s[n]
    <2> HIDE DEF sum
    <2> QED
      BY <1>5
  <1>7. Total(s) = sum[L]
    BY DEF Total
  <1> DEFINE Fine == {n \in 0..L : sum[n] \in Nat /\ sum[n] >= n}
  <1>8. \A n \in 0..L : n \in Fine
    <2> HIDE DEF sum, L
    <2>1. 0 \in Fine
      BY <1>1, <1>6
    <2>2. ASSUME NEW n \in 0..L, n \in Fine, n < L PROVE n + 1 \in Fine
      <3>1. n + 1 \in 1..L /\ n + 1 \in 0..L
        BY <1>1, <2>2
      <3>2. s[n + 1] \in 1..MaxRtt
        BY <1>1, <3>1
      <3>3. sum[n + 1] = sum[n] + s[n + 1]
        <4>1. sum[n + 1] = IF n + 1 = 0 THEN 0 ELSE sum[(n + 1) - 1] + s[n + 1]
          BY <1>6, <3>1
        <4>2. (n + 1) - 1 = n /\ n + 1 # 0
          OBVIOUS
        <4> QED
          BY <4>1, <4>2
      <3>4. sum[n] \in Nat /\ sum[n] >= n
        BY <2>2
      <3>5. sum[n + 1] \in Nat /\ sum[n + 1] >= n + 1
        BY <3>2, <3>3, <3>4
      <3> QED
        BY <3>1, <3>5
    <2> HIDE DEF Fine
    <2> QED
      BY <1>1, <2>1, <2>2, UpTo
  <1> QED
    BY <1>1, <1>7, <1>8

\* What the rounding of the limit needs to know of division.
LEMMA Quotient ==
  ASSUME NEW a \in Nat, NEW b \in Nat \ {0}
  PROVE  a \div b \in Nat
  OBVIOUS

LEMMA Product == ASSUME NEW a \in Nat, NEW b \in Nat PROVE a * b \in Nat
  OBVIOUS

\* The limit comes to lie between its bounds, whatever the samples were.
LEMMA AdaptedFacts ==
  ASSUME NEW l \in Nat, NEW floor \in Nat, NEW s \in Seq(1..MaxRtt), s # <<>>
  PROVE  Adapted(l, floor, s) \in MinLimit..MaxLimit
  <1>1. Len(s) \in Nat /\ Len(s) > 0
    OBVIOUS
  <1>2. Total(s) \in Nat \ {0}
    BY <1>1, TotalFacts
  <1>3. (l * floor * Len(s)) \div Total(s) \in Nat
    <2>1. l * floor \in Nat
      BY Product
    <2>2. l * floor * Len(s) \in Nat
      BY <1>1, <2>1, Product
    <2> QED
      BY <1>2, <2>2, Quotient
  <1>4. l \div 2 \in Nat
    BY Quotient
  <1>5. Graded(l, floor, s) \in Nat
    BY <1>3, <1>4 DEF Graded, Larger, Smaller
  <1>6. Inertia \in Nat \ {0} /\ Buffer \in Nat
    BY WindowAssumption, UnitsAssumption
  <1>7. l * (Inertia - 1) \in Nat
    BY <1>6, Product
  <1>8. (l * (Inertia - 1) + Graded(l, floor, s) + Buffer) \div Inertia \in Nat
    <2>1. l * (Inertia - 1) + Graded(l, floor, s) + Buffer \in Nat
      BY <1>5, <1>6, <1>7
    <2> QED
      BY <1>6, <2>1, Quotient
  <1>9. \A x \in Nat : Clamped(x) \in MinLimit..MaxLimit
    BY LimitsAssumption DEF Clamped, Larger, Smaller
  <1> QED
    BY <1>8, <1>9 DEF Adapted

\* The latest Window samples are samples.
LEMMA SampledFacts ==
  ASSUME AdaptiveTypeOK, NEW rtt \in 1..MaxRtt
  PROVE  /\ Sampled(rtt) \in Seq(1..MaxRtt)
         /\ Len(Sampled(rtt)) <= Window /\ Sampled(rtt) # <<>>
  <1> DEFINE s == Append(samples, rtt)
             from == Larger(1, Len(s) - Window + 1)
  <1>1. s \in Seq(1..MaxRtt) /\ Len(s) = Len(samples) + 1
    BY DEF AdaptiveTypeOK
  <1>2. Window \in Nat \ {0} /\ Len(s) \in Nat /\ Len(s) >= 1
    BY <1>1, WindowAssumption DEF AdaptiveTypeOK
  <1>3. from \in 1..Len(s) /\ Len(s) - from + 1 <= Window
    BY <1>2 DEF Larger
  <1>4. Sampled(rtt) = SubSeq(s, from, Len(s))
    BY DEF Sampled
  <1> HIDE DEF s, from
  <1>5. /\ SubSeq(s, from, Len(s)) \in Seq(1..MaxRtt)
        /\ Len(SubSeq(s, from, Len(s))) = Len(s) - from + 1
    <2>1. \A i \in 1..Len(s) : s[i] \in 1..MaxRtt
      BY <1>1, Elements
    <2>2. \A i \in from..Len(s) : i \in 1..Len(s)
      BY <1>2, <1>3
    <2>3. \A i \in from..Len(s) : s[i] \in 1..MaxRtt
      BY <2>1, <2>2
    <2> QED
      BY <1>1, <1>2, <1>3, <2>3
  <1>6. Len(s) - from + 1 > 0
    BY <1>2, <1>3
  <1>7. SubSeq(s, from, Len(s)) # <<>>
    <2>1. Len(SubSeq(s, from, Len(s))) > 0
      BY <1>5, <1>6
    <2>2. ASSUME NEW q, q = <<>> PROVE ~(Len(q) > 0)
      BY <2>2
    <2> QED
      BY <2>1, <2>2, Zenon
  <1> QED
    BY <1>3, <1>4, <1>5, <1>7

AdaptiveIInv == AdaptiveTypeOK /\ InFlightBounded

\* Nobody is inside at first.
LEMMA AdaptiveInitIInv == AdaptiveInit => AdaptiveIInv
  <1> SUFFICES ASSUME AdaptiveInit PROVE AdaptiveIInv
    OBVIOUS
  <1> USE UnitsAssumption, LimitsAssumption, WindowAssumption
  <1>1. Inside = {}
    BY DEF AdaptiveInit, Inside
  <1>2. Cardinality(Inside) = 0
    BY <1>1, FS_EmptySet
  <1>3. AdaptiveTypeOK
    BY <1>2 DEF AdaptiveInit, AdaptiveTypeOK, Infinity
  <1>4. InFlightBounded
    BY <1>2 DEF InFlightBounded, Larger
  <1> QED
    BY <1>3, <1>4 DEF AdaptiveIInv

\* A request that goes in or out is one more or one less.
LEMMA InsideFacts ==
  ASSUME AdaptiveTypeOK
  PROVE  /\ IsFiniteSet(Inside) /\ Cardinality(Inside) \in Nat
         /\ \A r \in Slots :
               IF r \in Inside
               THEN Cardinality(Inside \ {r}) = Cardinality(Inside) - 1 /\ Cardinality(Inside) > 0
               ELSE Cardinality(Inside \cup {r}) = Cardinality(Inside) + 1
  <1>1. IsFiniteSet(Inside)
    BY SlotsAssumption, FS_Subset DEF Inside
  <1>2. Cardinality(Inside) \in Nat
    BY <1>1, FS_CardinalityType
  <1>3. ASSUME NEW r \in Inside PROVE Cardinality(Inside \ {r}) = Cardinality(Inside) - 1
    BY <1>1, FS_RemoveElement
  <1>4. ASSUME NEW r \in Inside PROVE Cardinality(Inside) > 0
    BY <1>1, <1>2, FS_EmptySet
  <1>5. ASSUME NEW r \in Slots, r \notin Inside
        PROVE  Cardinality(Inside \cup {r}) = Cardinality(Inside) + 1
    BY <1>1, <1>5, FS_AddElement
  <1> QED
    BY <1>1, <1>2, <1>3, <1>4, <1>5

LEMMA AdaptiveEnterStep ==
  ASSUME AdaptiveIInv, NEW r \in Slots, AdaptiveEnter(r)
  PROVE  AdaptiveIInv'
  <1> USE UnitsAssumption, LimitsAssumption, WindowAssumption DEF AdaptiveIInv
  <1>1. r \notin Inside
    BY DEF AdaptiveEnter, Inside
  <1>2. limit \in Nat /\ limit <= Larger(InitialLimit, MaxLimit)
    BY DEF AdaptiveTypeOK, Larger
  <1>3. Cardinality(Inside) \in Nat /\ Cardinality(Inside \cup {r}) = Cardinality(Inside) + 1
    BY <1>1, InsideFacts
  <1>4. /\ min_rtt' \in 1..Infinity /\ age' \in 0..ResetInterval
        /\ limit' = limit /\ samples' = samples /\ elapsed' = elapsed
    <2>1. /\ limit' = limit /\ samples' = samples /\ elapsed' = elapsed
          /\ min_rtt' \in {min_rtt, Infinity} /\ age' \in {age, 0}
      BY DEF AdaptiveEnter
    <2>2. min_rtt \in 1..Infinity /\ age \in 0..ResetInterval /\ Infinity \in 1..Infinity
      BY DEF AdaptiveTypeOK, Infinity
    <2> QED
      BY <2>1, <2>2
  <1>5. place' \in [Slots -> {"idle", "inside", "rejected"}]
    BY DEF AdaptiveEnter, AdaptiveTypeOK
  <1>6. CASE HasRoom
    <2>1. in_flight' = in_flight + 1 /\ Inside' = Inside \cup {r}
      BY <1>6 DEF AdaptiveEnter, Inside, AdaptiveTypeOK
    <2>2. in_flight' = Cardinality(Inside)' /\ Cardinality(Inside)' = Cardinality(Inside) + 1
      BY <1>3, <2>1 DEF AdaptiveTypeOK
    <2>3. Cardinality(Inside) * Units < limit
      BY <1>6 DEF HasRoom, AdaptiveTypeOK
    <2>4. (Cardinality(Inside) + 1) * Units = Cardinality(Inside) * Units + Units
      BY <1>3
    <2>5. Cardinality(Inside) * Units \in Nat
      BY <1>3, Product
    <2>6. Cardinality(Inside)' * Units < Larger(InitialLimit, MaxLimit) + Units
      <3>1. Larger(InitialLimit, MaxLimit) \in Nat
        BY DEF Larger
      <3> QED
        BY <1>2, <2>2, <2>3, <2>4, <2>5, <3>1
    <2> QED
      BY <1>4, <1>5, <2>2, <2>6 DEF AdaptiveTypeOK, InFlightBounded, Infinity
  <1>7. CASE ~HasRoom
    <2>1. in_flight' = in_flight /\ Inside' = Inside
      BY <1>1, <1>7 DEF AdaptiveEnter, Inside, AdaptiveTypeOK
    <2> QED
      BY <1>4, <1>5, <2>1 DEF AdaptiveTypeOK, InFlightBounded, Infinity
  <1> QED
    BY <1>6, <1>7

LEMMA AdaptiveExitStep ==
  ASSUME AdaptiveIInv, NEW r \in Slots, Exit(r)
  PROVE  AdaptiveIInv'
  <1> DEFINE observed == Larger(elapsed[r], 1)
             floor == Smaller(min_rtt, observed)
  <1> USE UnitsAssumption, LimitsAssumption, WindowAssumption DEF AdaptiveIInv
  <1>1. observed \in 1..MaxRtt /\ floor \in 1..Infinity
    BY DEF AdaptiveTypeOK, Larger, Smaller, Infinity
  <1>2. /\ samples' = Sampled(observed) /\ min_rtt' = floor
        /\ limit' = Adapted(limit, floor, samples')
    BY DEF Exit
  <1>3. /\ samples' \in Seq(1..MaxRtt) /\ samples' # <<>>
        /\ Len(samples') <= Window
    BY <1>1, <1>2, SampledFacts
  <1>4. limit' \in MinLimit..MaxLimit
    <2>1. limit \in Nat /\ floor \in Nat
      BY <1>1 DEF AdaptiveTypeOK
    <2> QED
      BY <1>2, <1>3, <2>1, AdaptedFacts
  <1> HIDE DEF observed, floor
  <1>5. r \in Inside /\ Inside' = Inside \ {r}
    BY DEF Exit, Inside, AdaptiveTypeOK
  <1>6. Cardinality(Inside)' = Cardinality(Inside) - 1 /\ Cardinality(Inside) \in Nat \ {0}
    BY <1>5, InsideFacts
  <1>7. in_flight' = Cardinality(Inside)'
    BY <1>6 DEF Exit, LeaveFlight, AdaptiveTypeOK
  <1>8. /\ place' \in [Slots -> {"idle", "inside", "rejected"}]
        /\ elapsed' \in [Slots -> 0..MaxRtt] /\ age' = age
    BY DEF Exit, AdaptiveTypeOK
  <1>9. InFlightBounded'
    <2>1. Cardinality(Inside) * Units = Cardinality(Inside)' * Units + Units
      BY <1>6
    <2>2. Cardinality(Inside)' * Units \in Nat /\ Cardinality(Inside)' \in Nat
      BY <1>6, Product
    <2>3. Larger(InitialLimit, MaxLimit) \in Nat
      BY DEF Larger
    <2>4. Cardinality(Inside) * Units < Larger(InitialLimit, MaxLimit) + Units
      BY DEF InFlightBounded
    <2>5. Cardinality(Inside)' * Units < Larger(InitialLimit, MaxLimit) + Units
      BY <2>1, <2>2, <2>3, <2>4
    <2> QED
      BY <2>5 DEF InFlightBounded
  <1>10. AdaptiveTypeOK'
    BY <1>1, <1>2, <1>3, <1>4, <1>7, <1>8 DEF AdaptiveTypeOK, Infinity
  <1> QED
    BY <1>9, <1>10

\* Every step of a request, and of the clock.
LEMMA AdaptiveStep == AdaptiveIInv /\ [AdaptiveNext]_adaptiveVars => AdaptiveIInv'
  <1> SUFFICES ASSUME AdaptiveIInv, [AdaptiveNext]_adaptiveVars PROVE AdaptiveIInv'
    OBVIOUS
  <1>1. ASSUME NEW r \in Slots, AdaptiveSend503(r) PROVE AdaptiveIInv'
    <2>1. Inside' = Inside
      BY <1>1 DEF AdaptiveSend503, Inside, AdaptiveIInv, AdaptiveTypeOK
    <2>2. place' \in [Slots -> {"idle", "inside", "rejected"}]
      BY <1>1 DEF AdaptiveSend503, AdaptiveIInv, AdaptiveTypeOK
    <2> QED
      BY <1>1, <2>1, <2>2
      DEF AdaptiveSend503, path, AdaptiveIInv, AdaptiveTypeOK, InFlightBounded, Infinity
  <1>2. CASE AdaptiveTick
    <2>1. Inside' = Inside
      BY <1>2 DEF AdaptiveTick, Inside
    <2>2. elapsed' \in [Slots -> 0..MaxRtt] /\ age' \in 0..ResetInterval
      BY <1>2, WindowAssumption DEF AdaptiveTick, AdaptiveIInv, AdaptiveTypeOK, Smaller
    <2> QED
      BY <1>2, <2>1, <2>2 DEF AdaptiveTick, AdaptiveIInv, AdaptiveTypeOK, InFlightBounded, Infinity
  <1>3. CASE UNCHANGED adaptiveVars
    BY <1>3 DEF adaptiveVars, path, AdaptiveIInv, AdaptiveTypeOK, InFlightBounded, Inside, Infinity
  <1> QED
    BY <1>1, <1>2, <1>3, AdaptiveEnterStep, AdaptiveExitStep DEF AdaptiveNext

\* The counter counts the requests inside, and the limit is its initial value
\* or between its bounds, whatever the latencies were.
THEOREM AdaptiveTypeCorrect == AdaptiveSpec => []AdaptiveTypeOK
  <1>1. AdaptiveIInv => AdaptiveTypeOK
    BY DEF AdaptiveIInv
  <1> QED
    BY <1>1, AdaptiveInitIInv, AdaptiveStep, PTL DEF AdaptiveSpec

\* However the limit moves under requests that are inside, no more of them are
\* inside at once than the largest limit, rounded up, allows.
THEOREM InFlightHolds == AdaptiveSpec => []InFlightBounded
  <1>1. AdaptiveIInv => InFlightBounded
    BY DEF AdaptiveIInv
  <1> QED
    BY <1>1, AdaptiveInitIInv, AdaptiveStep, PTL DEF AdaptiveSpec

-----------------------------------------------------------------------------
(* RateLimit.  The code compares the tokens of one bucket, the properties  *)
(* speak of all windows of time.  What ties them is an account: the tokens *)
(* a window has cost are missing from the bucket (Budget), whether they    *)
(* are counted in it or it has been forgotten (Forgotten), and there is a  *)
(* window whose grants are all that is missing (Spent).  A cleanup that    *)
(* comes too soon closes the accounts of the windows that began before it; *)
(* those that begin with it have let nothing through yet (NoneLater).      *)

Full == Burst * Token

\* Every variable stays in its range; no script waits longer than Grace.
StateOK ==
    /\ middleware \in {"RateLimitMiddleware", "RedisRateLimitMiddleware"}
    /\ now \in Times
    /\ bucket \in [Stores -> [tokens : Int, last : Int]]
    /\ cleaned \in [Processes -> 0..now]
    /\ available \in [Processes -> BOOLEAN]
    /\ written \in 0..now
    /\ pc \in [Calls -> {"idle", "asking", "allowed", "denied", "refused"}]
    /\ home \in [Calls -> Processes]
    /\ stamp \in [Calls -> 0..now]
    /\ granted \in [Stores -> [Times -> Nat]]
    /\ lapses \in [Stores -> SUBSET (0..now)] /\ lapses[Redis] = {}
    /\ disordered \in BOOLEAN
    /\ \A s \in Stores : bucket[s] # None => bucket[s].last \in 0..now
    /\ \A r \in Calls : pc[r] = "asking" => now - stamp[r] <= Grace

\* No bucket was forgotten too soon since time i.
Since(s, i) == \A k \in lapses[s] : k <= i

\* A window that has let something through has cost the bucket that much.
Budget(s) ==
    bucket[s] # None =>
        \A i, j \in Times : i <= j /\ Through(s, i, j) > 0 /\ Since(s, i) =>
            Through(s, i, j) * Token + bucket[s].tokens <= Full + (bucket[s].last - i) * Rate

\* A bucket that is gone would be full again by any time still to come.
Forgotten(s) ==
    bucket[s] = None =>
        \A i, j \in Times : i <= j /\ Through(s, i, j) > 0 =>
            /\ s = Redis
            /\ Through(s, i, j) * Token <= (now - Grace - i) * Rate

\* A bucket is overdrawn at most by what a script's clock was behind.
NotOverdrawn(s) ==
    bucket[s] # None =>
        IF s = Redis THEN bucket[s].tokens + (written - bucket[s].last) * Rate >= 0
                     ELSE bucket[s].tokens >= 0

\* Since some time, all that is missing from a bucket was let through.
Spent(s) ==
    bucket[s] # None /\ (s = Redis => ~disordered) =>
        \E i \in 0..bucket[s].last :
            Through(s, i, bucket[s].last) * Token + bucket[s].tokens >= Quota(i, bucket[s].last)

\* What a process let through, it let through by the time of its bucket.
NoneLater(s) ==
    s # Redis => \A k \in Times : granted[s][k] > 0 => k <= bucket[s].last

Within(s) ==
    \A i, j \in Times : i <= j /\ Unlapsed(s, i, j) => Through(s, i, j) * Token <= Quota(i, j)

StoreInv(s) ==
    Budget(s) /\ Forgotten(s) /\ NotOverdrawn(s) /\ Spent(s) /\ NoneLater(s) /\ Within(s)

RateIInv == StateOK /\ (\A s \in Stores : StoreInv(s)) /\ RefusedOnlyInExcess

-----------------------------------------------------------------------------
(* Counting                                                                *)

\* The grants of a window can be counted.
LEMMA Counted ==
  ASSUME NEW g \in [Times -> Nat], NEW i \in Times, NEW j \in Times
  PROVE  IsFiniteSet(Grants(g, i, j)) /\ Cardinality(Grants(g, i, j)) \in Nat
  <1> DEFINE at(t) == {t} \X (1..g[t])
             f == [t \in i..j |-> at(t)]
             all == {at(t) : t \in i..j}
  <1>1. IsFiniteSet(i..j)
    BY TimesAssumption, FS_Interval DEF Times
  <1>2. f \in Surjection(i..j, all)
    BY DEF Surjection
  <1>3. IsFiniteSet(all)
    BY <1>1, <1>2, FS_Surjection
  <1>4. ASSUME NEW t \in i..j PROVE IsFiniteSet(at(t))
    <2>1. t \in Times
      BY TimesAssumption DEF Times
    <2>2. g[t] \in Nat
      BY <2>1
    <2>3. IsFiniteSet(1..g[t])
      <3>1. 1 \in Int /\ g[t] \in Int
        BY <2>2
      <3> QED
        BY <3>1, FS_Interval, Zenon
    <2>4. IsFiniteSet({t})
      BY FS_Singleton
    <2> QED
      BY <2>3, <2>4, FS_Product
  <1>5. \A T \in all : IsFiniteSet(T)
    BY <1>4
  <1>6. IsFiniteSet(UNION all)
    BY <1>3, <1>5, FS_UNION
  <1> QED
    BY <1>6, FS_CardinalityType DEF Grants

\* One grant more counts in the windows that it falls into.
LEMMA OneMore ==
  ASSUME NEW g \in [Times -> Nat], NEW t \in Times, NEW h, h = [g EXCEPT ![t] = @ + 1],
         NEW i \in Times, NEW j \in Times
  PROVE  Cardinality(Grants(h, i, j)) =
            IF t \in i..j THEN Cardinality(Grants(g, i, j)) + 1 ELSE Cardinality(Grants(g, i, j))
  <1> DEFINE new == <<t, g[t] + 1>>
  <1>1. h \in [Times -> Nat]
    OBVIOUS
  <1>2. \A k \in i..j : k \in Times
    BY TimesAssumption DEF Times
  <1>3. CASE t \in i..j
    <2>1. Grants(h, i, j) = Grants(g, i, j) \cup {new}
      <3>1. ASSUME NEW k \in i..j
            PROVE  1..h[k] = IF k = t THEN (1..g[k]) \cup {g[t] + 1} ELSE 1..g[k]
        <4>1. g[k] \in Nat /\ k \in Times
          BY <1>2
        <4>2. h[k] = IF k = t THEN g[k] + 1 ELSE g[k]
          BY <4>1
        <4>3. \A n \in Nat : 1..(n + 1) = (1..n) \cup {n + 1}
          OBVIOUS
        <4> QED
          BY ONLY <4>1, <4>2, <4>3
      <3> QED
        BY <1>3, <3>1 DEF Grants
    <2>2. new \notin Grants(g, i, j)
      BY <1>2, <1>3 DEF Grants
    <2> QED
      BY <1>3, <2>1, <2>2, Counted, FS_AddElement
  <1>4. CASE t \notin i..j
    <2>1. \A k \in i..j : h[k] = g[k]
      BY <1>2, <1>4
    <2>2. Grants(h, i, j) = Grants(g, i, j)
      BY <2>1 DEF Grants
    <2> QED
      BY <1>4, <2>2
  <1> QED
    BY <1>3, <1>4

-----------------------------------------------------------------------------
(* Taking from a bucket                                                    *)

\* The bucket a request leaves behind.
LEMMA TakenFacts ==
  ASSUME NEW t \in Times, NEW b \in [tokens : Int, last : Int]
  PROVE  /\ t \in Nat /\ Full \in Nat
         /\ Refilled(b, t) \in Int /\ Refilled(b, t) <= Full
         /\ Taken(b, t) \in [tokens : Int, last : Int]
         /\ Taken(b, t).last = t /\ Taken(b, t) # None
         /\ Allows(b, t) => Taken(b, t).tokens = Refilled(b, t) - Token /\ Taken(b, t).tokens >= 0
         /\ ~Allows(b, t) => Taken(b, t).tokens = Refilled(b, t)
  <1>1. t \in Nat /\ Full \in Nat
    BY TimesAssumption, BurstAssumption, RateAssumption DEF Times, Full
  <1>2. b.tokens + (t - b.last) * Rate \in Int
    BY <1>1, RateAssumption
  <1>3. Refilled(b, t) \in Int /\ Refilled(b, t) <= Full
    BY <1>1, <1>2 DEF Refilled, AtMost, Full
  <1>4. Taken(b, t) = [tokens |-> Refilled(b, t) - (IF Allows(b, t) THEN Token ELSE 0), last |-> t]
    BY DEF Taken
  <1>5. Taken(b, t).last = t /\ None.last = -1
    BY <1>4 DEF None
  <1> QED
    BY <1>1, <1>3, <1>4, <1>5, RateAssumption DEF Allows

\* If a window's cost is missing from what a request finds in the bucket, it is
\* missing from what the request leaves, and no window has had too much.
LEMMA TakeKeepsBudget ==
  ASSUME StateOK, NEW s \in Stores, NEW t \in Times, NEW b \in [tokens : Int, last : Int],
         Within(s), lapses[s] \subseteq lapses'[s], \A k \in lapses'[s] : k \in Int /\ k <= t,
         \A i, j \in Times : i <= j /\ Through(s, i, j) > 0 /\ Since(s, i)' =>
            Through(s, i, j) * Token + Refilled(b, t) <= Full + (t - i) * Rate,
         bucket' = [bucket EXCEPT ![s] = Taken(b, t)],
         granted' = IF Allows(b, t) THEN [granted EXCEPT ![s][t] = @ + 1] ELSE granted
  PROVE  Budget(s)' /\ Within(s)'
  <1> DEFINE T(i, j) == Through(s, i, j)
  <1>1. granted \in [Stores -> [Times -> Nat]] /\ bucket'[s] = Taken(b, t)
    BY DEF StateOK
  <1>2. ASSUME NEW i \in Times, NEW j \in Times, i <= j
        PROVE  /\ T(i, j)' > 0 /\ Since(s, i)' =>
                     T(i, j)' * Token + Taken(b, t).tokens <= Full + (t - i) * Rate
               /\ Unlapsed(s, i, j)' => T(i, j)' * Token <= Quota(i, j)
    <2> DEFINE Fresh == Since(s, i)'
               Clear == Unlapsed(s, i, j)'
    <2>0. Clear /\ t \in i..j => Fresh
      <3> SUFFICES ASSUME Clear, t \in i..j, NEW k \in lapses'[s] PROVE k <= i
        BY DEF Since
      <3>1. k \in Int /\ k <= t /\ ~(i < k /\ k <= j)
        BY DEF Unlapsed
      <3>2. i \in Int /\ j \in Int /\ t \in Int /\ t <= j
        BY TimesAssumption DEF Times
      <3> HIDE DEF Clear, Fresh
      <3> QED
        BY <3>1, <3>2
    <2>1. T(i, j) \in Nat /\ i \in Int /\ j \in Int
      <3>1. granted[s] \in [Times -> Nat] /\ i \in Int /\ j \in Int
        BY <1>1, TimesAssumption DEF Times
      <3> QED
        BY <3>1, Counted DEF Through
    <2>2. Clear => T(i, j) * Token <= Quota(i, j)
      BY <1>2 DEF Within, Unlapsed
    <2>3. T(i, j) > 0 /\ Fresh => T(i, j) * Token + Refilled(b, t) <= Full + (t - i) * Rate
      BY <1>2
    <2>4. T(i, j)' = IF Allows(b, t) /\ t \in i..j THEN T(i, j) + 1 ELSE T(i, j)
      <3>1. CASE Allows(b, t)
        <4>1. granted' = [granted EXCEPT ![s][t] = @ + 1]
          BY <3>1
        <4>2. granted[s] \in [Times -> Nat] /\ granted'[s] = [granted[s] EXCEPT ![t] = @ + 1]
          BY <1>1, <4>1
        <4>3. Cardinality(Grants(granted'[s], i, j)) =
                 IF t \in i..j THEN Cardinality(Grants(granted[s], i, j)) + 1
                               ELSE Cardinality(Grants(granted[s], i, j))
          BY <4>2, OneMore
        <4> QED
          BY <3>1, <4>3 DEF Through
      <3>2. CASE ~Allows(b, t)
        BY <3>2 DEF Through
      <3> QED
        BY <3>1, <3>2
    <2> HIDE DEF T, Fresh, Clear
    <2>5. CASE Allows(b, t) /\ t \in i..j
      <3>1. Taken(b, t).tokens = Refilled(b, t) - Token /\ Taken(b, t).tokens >= 0
        BY <2>5, TakenFacts
      <3>2. T(i, j)' * Token = T(i, j) * Token + Token
        BY <2>1, <2>4, <2>5, RateAssumption
      <3>3. (t - i) * Rate >= 0 /\ (j - i) * Rate >= (t - i) * Rate
        BY <2>1, <2>5, RateAssumption
      <3>4. Fresh => T(i, j)' * Token + Taken(b, t).tokens <= Full + (t - i) * Rate
        <4>1. CASE T(i, j) = 0
          BY <2>1, <3>1, <3>2, <3>3, <4>1, TakenFacts, RateAssumption
        <4>2. CASE T(i, j) > 0
          BY <2>1, <2>3, <3>1, <3>2, <4>2, TakenFacts, RateAssumption
        <4> QED
          BY <2>1, <4>1, <4>2
      <3>5. Clear => T(i, j)' * Token <= Quota(i, j)
        BY <2>0, <2>1, <2>4, <2>5, <3>1, <3>3, <3>4, TakenFacts, RateAssumption DEF Quota, Full
      <3> QED
        BY <3>4, <3>5 DEF Fresh, Clear
    <2>6. CASE ~(Allows(b, t) /\ t \in i..j)
      <3>1. T(i, j)' = T(i, j)
        BY <2>4, <2>6
      <3>2. Taken(b, t).tokens <= Refilled(b, t) /\ Taken(b, t).tokens \in Int /\ Refilled(b, t) \in Int
        BY TakenFacts, RateAssumption
      <3> QED
        BY <2>1, <2>2, <2>3, <3>1, <3>2, TakenFacts, RateAssumption DEF Fresh, Clear
    <2> QED
      BY <2>5, <2>6
  <1>3. bucket'[s].last = t
    BY <1>1, TakenFacts
  <1>4. \A i, j \in Times : Quota(i, j)' = Quota(i, j)
    BY DEF Quota
  <1> QED
    BY <1>1, <1>2, <1>3 DEF Budget, Within

\* A longer window has let through no less.
LEMMA WindowGrows ==
  ASSUME StateOK, NEW s \in Stores, NEW i \in Times, NEW j \in Times, NEW k \in Times, j <= k
  PROVE  Through(s, i, j) <= Through(s, i, k)
  <1>1. granted[s] \in [Times -> Nat]
    BY DEF StateOK
  <1>2. i..j \subseteq i..k
    BY TimesAssumption DEF Times
  <1>3. Grants(granted[s], i, j) \subseteq Grants(granted[s], i, k)
    BY <1>2 DEF Grants
  <1> QED
    BY <1>1, <1>3, Counted, FS_Subset DEF Through

\* What a request finds missing from the bucket was let through, since some time.
LEMMA FindsSpent ==
  ASSUME StateOK, NEW s \in Stores, Spent(s), NEW t \in 0..now,
         NEW b, b = bucket[s] \/ b = None,
         s = Redis => ~disordered, bucket[s] # None => t >= bucket[s].last
  PROVE  \E i \in 0..t : Through(s, i, t) * Token + Refilled(b, t) >= Quota(i, t)
  <1>1. granted[s] \in [Times -> Nat] /\ t \in Times /\ t \in Int /\ \A i \in 0..t : i \in Times
    BY TimesAssumption DEF StateOK, Times
  <1>2. \A i \in 0..t : Through(s, i, t) \in Nat
    BY <1>1, Counted DEF Through
  <1>3. CASE Refilled(b, t) = Full
    <2>1. Through(s, t, t) * Token >= 0
      BY <1>1, <1>2, RateAssumption
    <2>2. Quota(t, t) = Full /\ t \in 0..t
      BY <1>1, TimesAssumption, RateAssumption, BurstAssumption DEF Quota, Full, Times
    <2> QED
      BY <1>3, <2>1, <2>2, <1>1, <1>2, RateAssumption, BurstAssumption DEF Full
  <1>4. CASE Refilled(b, t) # Full
    <2>1. b = bucket[s] /\ b # None /\ Refilled(b, t) = b.tokens + (t - b.last) * Rate
      BY <1>4 DEF Refilled, Full, AtMost
    <2>2. b.last \in 0..now /\ b.last <= t /\ b.last \in Times /\ b.tokens \in Int
      BY <2>1, TimesAssumption DEF StateOK, Times
    <2>3. PICK i \in 0..b.last : Through(s, i, b.last) * Token + b.tokens >= Quota(i, b.last)
      BY <2>1 DEF Spent
    <2>4. i \in 0..t /\ i \in Times /\ i \in Int
      BY <2>2, <1>1, TimesAssumption DEF Times
    <2>5. Through(s, i, b.last) <= Through(s, i, t) /\ Through(s, i, b.last) \in Nat /\ Through(s, i, t) \in Nat
      BY <1>1, <2>2, <2>4, WindowGrows, Counted DEF Through
    <2>6. Through(s, i, b.last) * Token <= Through(s, i, t) * Token
      BY <2>5, RateAssumption
    <2>7. Quota(i, t) = Quota(i, b.last) + (t - b.last) * Rate /\ Quota(i, b.last) \in Int
      BY <1>1, <2>2, <2>4, RateAssumption, BurstAssumption, TimesAssumption, SMTT(30) DEF Quota, Times
    <2> QED
      BY <2>1, <2>2, <2>3, <2>4, <2>5, <2>6, <2>7, <1>1, RateAssumption
  <1> QED
    BY <1>3, <1>4

\* Whether the bucket is there, has expired or is forgotten by the cleanup: what
\* the windows have cost is missing from what a request finds.
LEMMA FindsBudget ==
  ASSUME StateOK, NEW s \in Stores, Budget(s), Forgotten(s), NoneLater(s), NEW t \in 0..now,
         NEW b, \/ b = bucket[s]
                \/ /\ b = None /\ s # Redis /\ t = now /\ Stale(bucket[s])
                   /\ Refilled(bucket[s], now) < Full => now \in lapses'[s],
         s = Redis => now - t <= Grace, lapses[s] \subseteq lapses'[s],
         NEW i \in Times, NEW j \in Times, i <= j, Through(s, i, j) > 0, Since(s, i)'
  PROVE  Through(s, i, j) * Token + Refilled(b, t) <= Full + (t - i) * Rate
  <1> DEFINE T == Through(s, i, j) * Token
  <1>1. granted[s] \in [Times -> Nat] /\ t \in Int /\ i \in Int /\ now \in Int /\ Grace \in Int /\ Full \in Nat
    BY TimesAssumption, RateAssumption, BurstAssumption DEF StateOK, Times, Full
  <1>2. T \in Int
    <2>1. Through(s, i, j) \in Nat
      BY <1>1, Counted DEF Through
    <2> QED
      BY <2>1, RateAssumption
  <1>6. Since(s, i)
    BY DEF Since
  <1> HIDE DEF T
  <1>3. ASSUME bucket[s] # None PROVE T + Refilled(bucket[s], t) <= Full + (t - i) * Rate
    <2> DEFINE old == bucket[s]
    <2>1. old.last \in Int /\ old.tokens \in Int
      BY <1>3 DEF StateOK
    <2>2. T + old.tokens <= Full + (old.last - i) * Rate
      BY <1>3, <1>6 DEF Budget, T
    <2>3. Refilled(old, t) <= old.tokens + (t - old.last) * Rate /\ Refilled(old, t) \in Int
      BY <1>1, <1>3, <2>1, RateAssumption DEF Refilled, AtMost, Full
    <2>4. (old.last - i) * Rate + (t - old.last) * Rate = (t - i) * Rate
      BY <1>1, <2>1, RateAssumption
    <2> QED
      BY <1>1, <1>2, <2>1, <2>2, <2>3, <2>4, RateAssumption
  <1>4. CASE b = bucket[s] /\ b = None
    <2>1. s = Redis /\ T <= (now - Grace - i) * Rate
      BY <1>4 DEF Forgotten, T
    <2>2. (now - Grace - i) * Rate <= (t - i) * Rate
      BY <1>1, <2>1, RateAssumption
    <2>3. Refilled(b, t) = Full
      BY <1>4 DEF Refilled, Full
    <2> QED
      BY <1>1, <1>2, <2>1, <2>2, <2>3, RateAssumption DEF T
  <1>5. CASE b = None /\ s # Redis /\ t = now /\ Stale(bucket[s]) /\ bucket[s] # None
    <2>1. bucket[s].last \in Int /\ bucket[s].tokens \in Int
      BY DEF StateOK
    <2>2. Refilled(b, t) = Full /\ Refilled(bucket[s], t) \in Int
      BY <1>1, <1>5, <2>1, RateAssumption DEF Refilled, AtMost, Full
    <2>3. CASE Refilled(bucket[s], t) < Full
      <3>1. now <= i
        BY <1>5, <2>3 DEF Since
      <3>2. bucket[s].last < now
        BY <1>1, <1>5, <2>1, TimesAssumption DEF Stale
      <3>3. \A k \in i..j : granted[s][k] = 0
        <4> SUFFICES ASSUME NEW k \in i..j, granted[s][k] # 0 PROVE FALSE
          OBVIOUS
        <4>1. k \in Times /\ k \in Int /\ k >= i
          BY TimesAssumption DEF Times
        <4>2. k <= bucket[s].last
          BY <1>1, <1>5, <4>1 DEF NoneLater
        <4> QED
          BY <1>1, <2>1, <3>1, <3>2, <4>1, <4>2
      <3>4. Grants(granted[s], i, j) = {}
        BY <3>3 DEF Grants
      <3> QED
        BY <3>4, FS_EmptySet DEF Through
    <2>4. CASE ~(Refilled(bucket[s], t) < Full)
      BY <1>1, <1>2, <1>3, <1>5, <2>2, <2>4, RateAssumption DEF T
    <2> QED
      BY <2>3, <2>4
  <1>7. CASE b = bucket[s] /\ b # None
    BY <1>3, <1>7 DEF T
  <1> QED
    BY <1>4, <1>5, <1>7

\* Taking from a bucket keeps its account in order.
LEMMA TakeKeepsStore ==
  ASSUME StateOK, NEW s \in Stores, StoreInv(s), NEW t \in 0..now,
         NEW b \in [tokens : Int, last : Int],
         \/ b = bucket[s]
         \/ /\ b = None /\ s # Redis /\ Stale(bucket[s])
            /\ Refilled(bucket[s], now) < Full => now \in lapses'[s],
         lapses[s] \subseteq lapses'[s], lapses'[s] \subseteq lapses[s] \cup {now},
         s = Redis => lapses'[s] = {},
         IF s = Redis THEN /\ now - t <= Grace
                           /\ written' = now
                           /\ disordered' = (disordered \/ t < bucket[Redis].last)
                      ELSE t = now,
         now' = now,
         bucket' = [bucket EXCEPT ![s] = Taken(b, t)],
         granted' = IF Allows(b, t) THEN [granted EXCEPT ![s][t] = @ + 1] ELSE granted
  PROVE  StoreInv(s)'
  <1>1. /\ t \in Times /\ t \in Int /\ now \in Int
        /\ granted[s] \in [Times -> Nat] /\ bucket'[s] = Taken(b, t)
    BY TimesAssumption DEF StateOK, Times
  <1>2. /\ bucket'[s] # None /\ bucket'[s].last = t
        /\ Allows(b, t) => bucket'[s].tokens = Refilled(b, t) - Token /\ bucket'[s].tokens >= 0
        /\ ~Allows(b, t) => bucket'[s].tokens = Refilled(b, t)
        /\ bucket'[s].tokens \in Int /\ Refilled(b, t) \in Int /\ Full \in Nat
    BY <1>1, TakenFacts
  <1>3. Budget(s)' /\ Within(s)'
    <2>1. \A i, j \in Times : i <= j /\ Through(s, i, j) > 0 /\ Since(s, i)' =>
             Through(s, i, j) * Token + Refilled(b, t) <= Full + (t - i) * Rate
      BY FindsBudget DEF StoreInv
    <2>2. \A k \in lapses'[s] : k <= t /\ k \in Int
      <3>1. lapses[s] \subseteq 0..now
        BY DEF StateOK
      <3>2. CASE s = Redis
        BY <3>2
      <3>3. CASE s # Redis
        <4>1. t = now
          BY <3>3
        <4> QED
          BY <1>1, <3>1, <4>1
      <3> QED
        BY <3>2, <3>3
    <2> QED
      BY <1>1, <2>1, <2>2, TakeKeepsBudget DEF StoreInv
  <1>7. NoneLater(s)'
    <2> SUFFICES ASSUME s # Redis, NEW k \in Times, granted'[s][k] > 0 PROVE k <= t
      BY <1>2 DEF NoneLater
    <2>1. t = now /\ k \in Int
      BY TimesAssumption DEF Times
    <2>2. CASE k = t
      BY <1>1, <2>1, <2>2
    <2>3. CASE k # t
      <3>1. granted'[s][k] = granted[s][k]
        BY <1>1, <2>3 DEF StateOK
      <3>2. k <= bucket[s].last /\ bucket[s].last \in Int
        BY <3>1 DEF StoreInv, NoneLater, StateOK
      <3>3. bucket[s].last <= now
        <4>1. CASE bucket[s] = None
          BY <1>1, <4>1, TimesAssumption DEF None, StateOK, Times
        <4>2. CASE bucket[s] # None
          BY <1>1, <4>2 DEF StateOK
        <4> QED
          BY <4>1, <4>2
      <3> QED
        BY <1>1, <2>1, <3>2, <3>3
    <2> QED
      BY <2>2, <2>3
  <1>4. Forgotten(s)'
    BY <1>2 DEF Forgotten
  <1>5. NotOverdrawn(s)'
    <2>1. (now - t) * Rate >= 0
      BY <1>1, RateAssumption
    <2>2. bucket'[s].tokens + (IF s = Redis THEN (now - t) * Rate ELSE 0) >= 0
      <3>1. CASE Allows(b, t) \/ Refilled(b, t) = Full
        <4>1. bucket'[s].tokens >= 0
          BY <1>2, <3>1
        <4> QED
          BY <1>1, <1>2, <2>1, <4>1, RateAssumption
      <3>2. CASE ~Allows(b, t) /\ Refilled(b, t) # Full
        <4>1. b = bucket[s] /\ b # None /\ Refilled(b, t) = b.tokens + (t - b.last) * Rate
          BY <3>2 DEF Refilled, Full, AtMost
        <4>2. b.tokens \in Int /\ b.last \in 0..now /\ written \in 0..now
          BY <4>1 DEF StateOK
        <4>3. CASE s = Redis
          <5>1. b.tokens + (written - b.last) * Rate >= 0
            BY <4>1, <4>3 DEF StoreInv, NotOverdrawn
          <5>2. (written - b.last) * Rate <= (now - b.last) * Rate
            BY <1>1, <4>2, RateAssumption
          <5>3. (t - b.last) * Rate + (now - t) * Rate = (now - b.last) * Rate
            BY <1>1, <4>2, RateAssumption
          <5> QED
            BY <1>1, <1>2, <3>2, <4>1, <4>2, <4>3, <5>1, <5>2, <5>3, RateAssumption
        <4>4. CASE s # Redis
          <5>1. b.tokens >= 0 /\ (t - b.last) * Rate >= 0
            BY <1>1, <4>1, <4>2, <4>4, RateAssumption DEF StoreInv, NotOverdrawn
          <5> QED
            BY <1>1, <1>2, <3>2, <4>1, <4>2, <4>4, <5>1, RateAssumption
        <4> QED
          BY <4>3, <4>4
      <3> QED
        BY <3>1, <3>2
    <2> QED
      BY <1>2, <2>2 DEF NotOverdrawn
  <1>6. Spent(s)'
    <2> SUFFICES ASSUME s = Redis => ~disordered'
                 PROVE  \E i \in 0..t : Through(s, i, t)' * Token + bucket'[s].tokens >= Quota(i, t)
      BY <1>2 DEF Spent, Quota, Through
    <2>1. (s = Redis => ~disordered) /\ (bucket[s] # None => t >= bucket[s].last)
      <3>1. bucket[s] # None => bucket[s].last \in 0..now
        BY DEF StateOK
      <3>2. CASE s = Redis
        <4>1. ~disordered /\ ~(t < bucket[s].last)
          BY <3>2, Zenon
        <4> QED
          BY <1>1, <3>1, <4>1
      <3>3. CASE s # Redis
        BY <1>1, <3>1, <3>3
      <3> QED
        BY <3>2, <3>3
    <2>2. PICK i \in 0..t : Through(s, i, t) * Token + Refilled(b, t) >= Quota(i, t)
      BY <2>1, FindsSpent DEF StoreInv
    <2>3. i \in Times /\ t \in i..t /\ i \in Int
      BY <1>1, TimesAssumption DEF Times
    <2>4. Through(s, i, t)' = IF Allows(b, t) THEN Through(s, i, t) + 1 ELSE Through(s, i, t)
      <3>1. CASE Allows(b, t)
        <4>1. granted'[s] = [granted[s] EXCEPT ![t] = @ + 1]
          BY <1>1, <3>1 DEF StateOK
        <4>2. Cardinality(Grants(granted'[s], i, t)) = Cardinality(Grants(granted[s], i, t)) + 1
          BY <1>1, <2>3, <4>1, OneMore
        <4> QED
          BY <3>1, <4>2 DEF Through
      <3>2. CASE ~Allows(b, t)
        BY <3>2 DEF Through
      <3> QED
        BY <3>1, <3>2
    <2>5. Through(s, i, t) \in Nat /\ Quota(i, t) \in Int
      BY <1>1, <2>3, Counted, RateAssumption, BurstAssumption DEF Through, Quota
    <2>6. CASE Allows(b, t)
      <3>1. Through(s, i, t)' * Token = Through(s, i, t) * Token + Token
        BY <2>4, <2>5, <2>6, RateAssumption
      <3> QED
        BY <1>2, <2>2, <2>5, <2>6, <3>1, RateAssumption
    <2>7. CASE ~Allows(b, t)
      BY <1>2, <2>2, <2>4, <2>5, <2>7, RateAssumption
    <2> QED
      BY <2>6, <2>7
  <1> QED
    BY <1>3, <1>4, <1>5, <1>6, <1>7 DEF StoreInv

\* What flows into a bucket from a time on only grows.
LEMMA LaterCoversMore ==
  ASSUME NEW a \in Int, NEW b \in Int, a <= b, NEW c \in Int, NEW d \in Int, NEW r \in Nat
  PROVE  /\ (a - c - d) * r \in Int /\ (b - c - d) * r \in Int
         /\ (a - c - d) * r <= (b - c - d) * r
  <1>1. \A x, y \in Int : x <= y => x * r \in Int /\ y * r \in Int /\ x * r <= y * r
    OBVIOUS
  <1>2. a - c - d \in Int /\ b - c - d \in Int /\ a - c - d <= b - c - d
    OBVIOUS
  <1> QED
    BY <1>1, <1>2

\* A bucket that is left alone stays in order as time passes.
LEMMA SameStore ==
  ASSUME StateOK, NEW s \in Stores, StoreInv(s),
         bucket'[s] = bucket[s], granted'[s] = granted[s], lapses'[s] = lapses[s],
         s = Redis => written' = written /\ disordered' = disordered,
         now' \in Int, now <= now'
  PROVE  StoreInv(s)'
  <1>1. Budget(s)' /\ NoneLater(s)'
    BY DEF StoreInv, Budget, Through, Since, NoneLater
  <1>2. Forgotten(s)'
    <2> SUFFICES ASSUME bucket[s] = None, NEW i \in Times, NEW j \in Times, i <= j, Through(s, i, j) > 0
                 PROVE  s = Redis /\ Through(s, i, j) * Token <= (now' - Grace - i) * Rate
      BY DEF Forgotten, Through
    <2>1. s = Redis /\ Through(s, i, j) * Token <= (now - Grace - i) * Rate
      BY DEF StoreInv, Forgotten
    <2>2. Through(s, i, j) \in Nat
      BY Counted DEF Through, StateOK
    <2>3. now \in Int /\ Grace \in Int /\ i \in Int /\ Rate \in Nat
      BY TimesAssumption, RateAssumption DEF StateOK, Times
    <2>4. (now - Grace - i) * Rate <= (now' - Grace - i) * Rate
      BY <2>3, LaterCoversMore
    <2>5. Through(s, i, j) * Token \in Int
      BY <2>2, RateAssumption
    <2>6. (now - Grace - i) * Rate \in Int /\ (now' - Grace - i) * Rate \in Int
      BY <2>3, LaterCoversMore
    <2> QED
      BY <2>1, <2>4, <2>5, <2>6
  <1>3. NotOverdrawn(s)'
    BY DEF StoreInv, NotOverdrawn
  <1>4. Spent(s)'
    BY DEF StoreInv, Spent, Through, Quota
  <1>5. Within(s)'
    BY DEF StoreInv, Within, Unlapsed, Through, Quota
  <1> QED
    BY <1>1, <1>2, <1>3, <1>4, <1>5 DEF StoreInv

-----------------------------------------------------------------------------
(* What is refused                                                         *)

\* The reason a refused request can give.
Excess(r) ==
    \E s \in {home[r], Redis}, i \in 0..stamp[r] :
        (Through(s, i, stamp[r]) + 1) * Token > Quota(i, stamp[r])

\* A request that is not allowed finds all but a part of a token spent.
LEMMA DeniedExceeds ==
  ASSUME StateOK, NEW s \in Stores, Spent(s), NEW t \in 0..now,
         NEW b \in [tokens : Int, last : Int], b = bucket[s] \/ b = None,
         s = Redis => ~disordered, bucket[s] # None => t >= bucket[s].last,
         ~Allows(b, t)
  PROVE  \E i \in 0..t : (Through(s, i, t) + 1) * Token > Quota(i, t)
  <1>1. PICK i \in 0..t : Through(s, i, t) * Token + Refilled(b, t) >= Quota(i, t)
    BY FindsSpent
  <1>2. t \in Times /\ i \in Times /\ t \in Int /\ i \in Int
    BY TimesAssumption DEF StateOK, Times
  <1>3. Through(s, i, t) \in Nat /\ Quota(i, t) \in Int
    BY <1>2, Counted, RateAssumption, BurstAssumption DEF Through, Quota, StateOK
  <1>4. Refilled(b, t) < Token /\ Refilled(b, t) \in Int
    BY <1>2, TakenFacts, RateAssumption DEF Allows
  <1>5. (Through(s, i, t) + 1) * Token = Through(s, i, t) * Token + Token
    BY <1>3, RateAssumption
  <1> QED
    BY <1>1, <1>3, <1>4, <1>5, RateAssumption

\* The reason does not go away.
LEMMA ExcessStays ==
  ASSUME StateOK, NEW r \in Calls, Excess(r), home' = home, stamp'[r] = stamp[r],
         \/ granted' = granted
         \/ \E s \in Stores, t \in Times : granted' = [granted EXCEPT ![s][t] = @ + 1]
  PROVE  Excess(r)'
  <1>1. PICK s \in {home[r], Redis}, i \in 0..stamp[r] :
           (Through(s, i, stamp[r]) + 1) * Token > Quota(i, stamp[r])
    BY DEF Excess
  <1>2. s \in Stores /\ i \in Times /\ stamp[r] \in Times /\ granted[s] \in [Times -> Nat]
    BY TimesAssumption DEF StateOK, Stores, Times
  <1>3. Through(s, i, stamp[r]) \in Nat /\ Quota(i, stamp[r]) \in Int
    <2>1. Through(s, i, stamp[r]) \in Nat
      BY <1>2, Counted DEF Through
    <2>2. i \in Int /\ stamp[r] \in Int
      BY <1>2, TimesAssumption DEF Times
    <2> QED
      BY <2>1, <2>2, RateAssumption, BurstAssumption DEF Quota
  <1>4. \/ Through(s, i, stamp[r])' = Through(s, i, stamp[r])
        \/ Through(s, i, stamp[r])' = Through(s, i, stamp[r]) + 1
    <2>1. CASE granted'[s] = granted[s]
      BY <2>1 DEF Through
    <2>2. ASSUME NEW t \in Times, granted'[s] = [granted[s] EXCEPT ![t] = @ + 1]
          PROVE  \/ Through(s, i, stamp[r])' = Through(s, i, stamp[r])
                 \/ Through(s, i, stamp[r])' = Through(s, i, stamp[r]) + 1
      <3>1. Cardinality(Grants(granted'[s], i, stamp[r])) =
               IF t \in i..stamp[r] THEN Cardinality(Grants(granted[s], i, stamp[r])) + 1
                                    ELSE Cardinality(Grants(granted[s], i, stamp[r]))
        BY <1>2, <2>2, OneMore
      <3> QED
        BY <3>1 DEF Through
    <2>3. \/ granted'[s] = granted[s]
          \/ \E t \in Times : granted'[s] = [granted[s] EXCEPT ![t] = @ + 1]
      BY <1>2 DEF StateOK
    <2> QED
      BY <2>1, <2>2, <2>3
  <1>5. (Through(s, i, stamp[r])' + 1) * Token > Quota(i, stamp[r])
    BY <1>1, <1>3, <1>4, RateAssumption
  <1> QED
    BY <1>1, <1>5 DEF Excess, Quota, Through

-----------------------------------------------------------------------------
(* The steps                                                               *)

\* No step of time, no other bucket and no other request is disturbed by a
\* request that takes from one.
LEMMA TakeKeepsIInv ==
  ASSUME RateIInv, NEW r \in Calls, NEW s \in {home[r], Redis}, NEW t \in 0..now,
         NEW b \in [tokens : Int, last : Int],
         \/ b = bucket[s] /\ lapses' = lapses
         \/ /\ b = None /\ s # Redis /\ Stale(bucket[s])
            /\ lapses' = IF Refilled(bucket[s], now) < Full
                         THEN [lapses EXCEPT ![s] = @ \cup {now}] ELSE lapses,
         IF s = Redis THEN /\ now - t <= Grace
                           /\ written' = now
                           /\ disordered' = (disordered \/ t < bucket[Redis].last)
                      ELSE t = now /\ UNCHANGED <<written, disordered>>,
         NEW yes \in {"idle", "allowed"}, NEW no \in {"denied", "refused"},
         Take(r, s, b, t, yes, no),
         UNCHANGED <<middleware, now, home>>,
         cleaned' \in [Processes -> 0..now], available' \in [Processes -> BOOLEAN]
  PROVE  RateIInv'
  <1> USE DEF RateIInv
  <1>1. s \in Stores /\ t \in Times /\ StoreInv(s)
    BY TimesAssumption DEF StateOK, Stores, Times
  <1>2. /\ bucket' = [bucket EXCEPT ![s] = Taken(b, t)]
        /\ granted' = IF Allows(b, t) THEN [granted EXCEPT ![s][t] = @ + 1] ELSE granted
        /\ pc' = [pc EXCEPT ![r] = IF Allows(b, t) THEN yes ELSE no]
        /\ stamp' = [stamp EXCEPT ![r] = IF pc'[r] = "idle" THEN 0 ELSE t]
    BY DEF Take
  <1>3. /\ Taken(b, t) \in [tokens : Int, last : Int]
        /\ Taken(b, t).last = t
    BY <1>1, TakenFacts
  <1>4. now' = now /\ now \in Int /\ home' = home
    BY TimesAssumption DEF StateOK, Times
  <1>5. /\ pc'[r] \in {yes, no}
        /\ \A q \in Calls \ {r} : pc'[q] = pc[q] /\ stamp'[q] = stamp[q]
        /\ ~Allows(b, t) => pc'[r] = no /\ stamp'[r] = t
        /\ pc'[r] \in {"refused", "denied"} => ~Allows(b, t)
    BY <1>2 DEF StateOK
  <1>9. /\ lapses' \in [Stores -> SUBSET (0..now)] /\ lapses'[Redis] = {}
        /\ lapses[s] \subseteq lapses'[s] /\ lapses'[s] \subseteq lapses[s] \cup {now}
        /\ \A u \in Stores \ {s} : lapses'[u] = lapses[u]
        /\ b = bucket[s] \/ (Refilled(bucket[s], now) < Full => now \in lapses'[s])
    <2>1. now \in 0..now /\ Redis \in Stores
      BY TimesAssumption DEF StateOK, Times, Stores
    <2>2. lapses \in [Stores -> SUBSET (0..now)] /\ lapses[Redis] = {}
      BY DEF StateOK
    <2>3. CASE lapses' = lapses /\ (b = bucket[s] \/ ~(Refilled(bucket[s], now) < Full))
      BY <2>2, <2>3
    <2>4. CASE s # Redis /\ lapses' = [lapses EXCEPT ![s] = @ \cup {now}]
      BY <1>1, <2>1, <2>2, <2>4
    <2> QED
      BY <2>3, <2>4
  <1>6. StateOK'
    <2>1. bucket' \in [Stores -> [tokens : Int, last : Int]]
      BY <1>2, <1>3 DEF StateOK
    <2>2. pc' \in [Calls -> {"idle", "asking", "allowed", "denied", "refused"}]
      BY <1>2 DEF StateOK
    <2>3. stamp' \in [Calls -> 0..now]
      BY <1>2, <1>4 DEF StateOK
    <2>4. granted' \in [Stores -> [Times -> Nat]]
      BY <1>1, <1>2 DEF StateOK
    <2>5. written' \in 0..now /\ disordered' \in BOOLEAN
      <3>1. written' = now \/ written' = written
        BY Zenon
      <3>2. disordered' \in BOOLEAN
        BY Zenon DEF StateOK
      <3> QED
        BY <1>1, <3>1, <3>2, TimesAssumption DEF StateOK, Times
    <2>6. \A u \in Stores : bucket'[u] # None => bucket'[u].last \in 0..now
      BY <1>2, <1>3 DEF StateOK
    <2>7. \A q \in Calls : pc'[q] = "asking" => now - stamp'[q] <= Grace
      BY <1>5 DEF StateOK
    <2> QED
      BY <1>4, <1>9, <2>1, <2>2, <2>3, <2>4, <2>5, <2>6, <2>7 DEF StateOK
  <1>7. ASSUME NEW u \in Stores PROVE StoreInv(u)'
    <2>1. CASE u = s
      BY <1>1, <1>2, <1>4, <1>9, <2>1, TakeKeepsStore
    <2>2. CASE u # s
      <3>1. bucket'[u] = bucket[u] /\ granted'[u] = granted[u] /\ lapses'[u] = lapses[u]
        BY <1>1, <1>2, <1>9, <2>2 DEF StateOK
      <3>2. u = Redis => written' = written /\ disordered' = disordered
        BY <2>2
      <3>3. now' \in Int /\ now <= now'
        BY <1>4
      <3> QED
        BY <3>1, <3>2, <3>3, SameStore
    <2> QED
      BY <2>1, <2>2
  <1>8. RefusedOnlyInExcess'
    <2> SUFFICES ASSUME ~disordered', NEW q \in Calls, pc'[q] \in {"refused", "denied"}
                 PROVE  Excess(q)'
      BY DEF RefusedOnlyInExcess, Excess
    <2>1. ~disordered /\ (s = Redis => ~(t < bucket[Redis].last))
      BY Zenon
    <2>2. CASE q = r
      <3>1. ~Allows(b, t) /\ stamp'[r] = t /\ granted' = granted
        BY <1>2, <1>5, <2>2
      <3>2. bucket[s] # None => t >= bucket[s].last
        <4>1. bucket[s] # None => bucket[s].last \in 0..now
          BY <1>1 DEF StateOK
        <4>2. CASE s = Redis
          BY <2>1, <4>1, <4>2
        <4>3. CASE s # Redis
          BY <1>4, <4>1, <4>3
        <4> QED
          BY <4>2, <4>3
      <3>3. \E i \in 0..t : (Through(s, i, t) + 1) * Token > Quota(i, t)
        BY <1>1, <2>1, <3>1, <3>2, DeniedExceeds DEF StoreInv
      <3> QED
        BY <1>4, <2>2, <3>1, <3>3 DEF Excess, Through, Quota
    <2>3. CASE q # r
      <3>1. Excess(q) /\ stamp'[q] = stamp[q]
        BY <1>5, <2>1, <2>3 DEF RefusedOnlyInExcess, Excess
      <3>2. \/ granted' = granted
            \/ \E v \in Stores, k \in Times : granted' = [granted EXCEPT ![v][k] = @ + 1]
        BY <1>1, <1>2
      <3> QED
        BY <1>4, <3>1, <3>2, ExcessStays
    <2> QED
      BY <2>2, <2>3
  <1> QED
    BY <1>6, <1>7, <1>8

\* Nor by a step that takes nothing.
LEMMA CalmKeepsIInv ==
  ASSUME RateIInv, StateOK', now <= now',
         UNCHANGED <<bucket, granted, lapses, written, home, disordered>>,
         \A q \in Calls : pc'[q] \in {"refused", "denied"} =>
            pc[q] \in {"refused", "denied"} /\ stamp'[q] = stamp[q]
  PROVE  RateIInv'
  <1>1. now' \in Int
    BY TimesAssumption DEF StateOK, Times
  <1>2. \A s \in Stores : StoreInv(s)'
    BY <1>1, SameStore DEF RateIInv
  <1>3. RefusedOnlyInExcess'
    <2> SUFFICES ASSUME ~disordered', NEW q \in Calls, pc'[q] \in {"refused", "denied"}
                 PROVE  Excess(q)'
      BY DEF RefusedOnlyInExcess, Excess
    <2>1. Excess(q) /\ stamp'[q] = stamp[q]
      BY DEF RateIInv, RefusedOnlyInExcess, Excess
    <2> QED
      BY <2>1, ExcessStays DEF RateIInv
  <1> QED
    BY <1>2, <1>3 DEF RateIInv

\* Nobody has asked yet.
LEMMA RateInitIInv == RateInit => RateIInv
  <1> SUFFICES ASSUME RateInit PROVE RateIInv
    OBVIOUS
  <1> USE DEF RateInit
  <1>1. None \in [tokens : Int, last : Int] /\ 0 \in Times
    BY TimesAssumption DEF None, Times
  <1>2. StateOK
    <2>1. \A s \in Stores : bucket[s] = None
      OBVIOUS
    <2>2. bucket \in [Stores -> [tokens : Int, last : Int]]
      BY <1>1
    <2>3. granted \in [Stores -> [Times -> Nat]] /\ stamp \in [Calls -> 0..now]
      OBVIOUS
    <2>4. pc \in [Calls -> {"idle", "asking", "allowed", "denied", "refused"}]
      OBVIOUS
    <2>5. \A r \in Calls : pc[r] # "asking"
      OBVIOUS
    <2>6. cleaned \in [Processes -> 0..now] /\ available \in [Processes -> BOOLEAN] /\ written \in 0..now
      OBVIOUS
    <2>7. disordered \in BOOLEAN /\ now \in Times /\ home \in [Calls -> Processes]
      BY <1>1
    <2>9. lapses \in [Stores -> SUBSET (0..now)] /\ lapses[Redis] = {}
      BY DEF Stores
    <2>8. middleware \in {"RateLimitMiddleware", "RedisRateLimitMiddleware"}
      OBVIOUS
    <2> HIDE DEF RateInit
    <2> QED
      BY <2>1, <2>2, <2>3, <2>4, <2>5, <2>6, <2>7, <2>8, <2>9 DEF StateOK
  <1>3. ASSUME NEW s \in Stores, NEW i \in Times, NEW j \in Times
        PROVE  Through(s, i, j) = 0
    <2>1. \A t \in i..j : granted[s][t] = 0
      BY TimesAssumption DEF Times
    <2>2. Grants(granted[s], i, j) = {}
      BY <2>1 DEF Grants
    <2> QED
      BY <2>2, FS_EmptySet DEF Through
  <1>4. ASSUME NEW s \in Stores PROVE StoreInv(s)
    <2>1. bucket[s] = None
      OBVIOUS
    <2>2. Forgotten(s)
      BY <1>3 DEF Forgotten
    <2>3. Within(s)
      <3> SUFFICES ASSUME NEW i \in Times, NEW j \in Times, i <= j
                   PROVE  0 * Token <= Quota(i, j)
        BY <1>3 DEF Within
      <3>1. Burst * Token >= 0 /\ (j - i) * Rate >= 0 /\ Burst * Token \in Int /\ (j - i) * Rate \in Int
        BY TimesAssumption, RateAssumption, BurstAssumption DEF Times
      <3> QED
        BY <3>1, RateAssumption DEF Quota
    <2>4. NoneLater(s)
      BY DEF NoneLater
    <2> QED
      BY <2>1, <2>2, <2>3, <2>4 DEF StoreInv, Budget, NotOverdrawn, Spent
  <1>5. RefusedOnlyInExcess
    BY DEF RefusedOnlyInExcess
  <1> QED
    BY <1>2, <1>4, <1>5 DEF RateIInv

\* The time to live is long enough: what the windows have cost an expired key
\* would have come back a Grace ago.
LEMMA ExpiryForgets ==
  ASSUME StateOK, Redis \in Stores, Budget(Redis), NotOverdrawn(Redis), KeyExpires
  PROVE  Forgotten(Redis)'
  <1> DEFINE b == bucket[Redis]
  <1>1. /\ now \in Int /\ written \in Int /\ Grace \in Int /\ Full \in Nat
        /\ b \in [tokens : Int, last : Int] /\ b # None /\ now - written >= TimeToLive
    BY TimesAssumption, RateAssumption, BurstAssumption DEF StateOK, Times, Full, KeyExpires
  <1>2. UNCHANGED <<now, granted>>
    BY DEF KeyExpires
  <1> SUFFICES ASSUME NEW i \in Times, NEW j \in Times, i <= j, Through(Redis, i, j) > 0
               PROVE  Through(Redis, i, j) * Token <= (now - Grace - i) * Rate
    BY <1>2 DEF Forgotten, Through
  <1>3. i \in Int /\ Through(Redis, i, j) * Token \in Int
    <2>1. granted[Redis] \in [Times -> Nat] /\ i \in Int
      BY TimesAssumption DEF StateOK, Times
    <2>2. Through(Redis, i, j) \in Nat
      BY <2>1, Counted DEF Through
    <2> QED
      BY <2>1, <2>2, RateAssumption
  <1>4. Through(Redis, i, j) * Token + b.tokens <= Full + (b.last - i) * Rate
    BY <1>1 DEF Budget, Since, StateOK
  <1>5. b.tokens + (written - b.last) * Rate >= 0
    BY <1>1 DEF NotOverdrawn
  <1>6. Full <= (now - written - Grace) * Rate
    <2> DEFINE d == (Full + Rate - 1) \div Rate
    <2>1. d \in Int /\ d * Rate >= Full
      BY <1>1, RateAssumption
    <2>2. d <= now - written - Grace
      BY <1>1, <2>1 DEF TimeToLive, Full
    <2> HIDE DEF d
    <2>3. d * Rate <= (now - written - Grace) * Rate
      BY <1>1, <2>1, <2>2, RateAssumption
    <2> QED
      BY <1>1, <2>1, <2>3, RateAssumption
  <1>7. (b.last - i) * Rate + (written - b.last) * Rate + (now - written - Grace) * Rate
          = (now - Grace - i) * Rate
    BY <1>1, <1>3, RateAssumption
  <1> QED
    BY <1>1, <1>3, <1>4, <1>5, <1>6, <1>7, RateAssumption

\* Every step preserves the inductive invariant.
LEMMA RateNextIInv == RateIInv /\ [RateNext]_rateVars => RateIInv'
  <1> SUFFICES ASSUME RateIInv, [RateNext]_rateVars PROVE RateIInv'
    OBVIOUS
  <1>1. StateOK /\ now \in Nat /\ now \in 0..now
    BY TimesAssumption DEF RateIInv, StateOK, Times
  <1>2. \A p \in Processes : p \in Stores /\ p # Redis
    BY RedisAssumption DEF Stores
  <1>3. Redis \in Stores
    BY DEF Stores
  <1>4. \A r \in Calls : home[r] \in Processes /\ home[r] \in Stores /\ home[r] # Redis
    BY <1>1, <1>2 DEF StateOK
  <1>5. \A s \in Stores : bucket[s] \in [tokens : Int, last : Int]
    BY <1>1 DEF StateOK
  <1>6. ASSUME NEW r \in Calls, ArriveInMemory(r) PROVE RateIInv'
    <2> DEFINE p == home[r]
               b == IF CleanupDue(p) /\ Stale(bucket[p]) THEN None ELSE bucket[p]
    <2>1. /\ Take(r, p, b, now, "idle", "refused")
          /\ cleaned' = [cleaned EXCEPT ![p] = IF CleanupDue(p) THEN now ELSE @]
          /\ lapses' = IF CleanupDue(p) /\ Stale(bucket[p]) /\ Refilled(bucket[p], now) < Full
                       THEN [lapses EXCEPT ![p] = @ \cup {now}] ELSE lapses
          /\ UNCHANGED <<middleware, now, available, written, home, disordered>>
      BY <1>6 DEF ArriveInMemory, Full
    <2>2. /\ b \in [tokens : Int, last : Int]
          /\ \/ b = bucket[p] /\ lapses' = lapses
             \/ /\ b = None /\ p # Redis /\ Stale(bucket[p])
                /\ lapses' = IF Refilled(bucket[p], now) < Full
                             THEN [lapses EXCEPT ![p] = @ \cup {now}] ELSE lapses
      <3>1. None \in [tokens : Int, last : Int]
        BY DEF None
      <3>2. CASE CleanupDue(p) /\ Stale(bucket[p])
        BY <1>4, <2>1, <3>1, <3>2
      <3>3. CASE ~(CleanupDue(p) /\ Stale(bucket[p]))
        BY <1>4, <1>5, <2>1, <3>3
      <3> QED
        BY <3>2, <3>3
    <2>3. cleaned' \in [Processes -> 0..now] /\ available' \in [Processes -> BOOLEAN]
      BY <1>1, <2>1 DEF StateOK
    <2> HIDE DEF b, p
    <2>4. p \in {home[r], Redis} /\ p # Redis
      BY <1>4 DEF p
    <2> QED
      BY <1>1, <2>1, <2>2, <2>3, <2>4, TakeKeepsIInv
  <1>7. ASSUME NEW r \in Calls, TakeFallback(r),
               UNCHANGED <<middleware, now, cleaned, lapses, written, home, disordered>>,
               available' \in [Processes -> BOOLEAN]
        PROVE  RateIInv'
    <2>1. Take(r, home[r], bucket[home[r]], now, "idle", "refused")
      BY <1>7 DEF TakeFallback
    <2>2. cleaned' \in [Processes -> 0..now]
      BY <1>1, <1>7 DEF StateOK
    <2> QED
      BY <1>1, <1>4, <1>5, <1>7, <2>1, <2>2, TakeKeepsIInv
  <1>8. ASSUME NEW r \in Calls, Arrive(r) PROVE RateIInv'
    <2>1. UNCHANGED <<middleware, now, cleaned, lapses, available, written, home, disordered>>
      BY <1>8 DEF Arrive
    <2>2. CASE available[home[r]]
      <3>1. /\ pc' = [pc EXCEPT ![r] = "asking"]
            /\ stamp' = [stamp EXCEPT ![r] = now]
            /\ UNCHANGED <<bucket, granted>>
        BY <1>8, <2>2 DEF Arrive
      <3>2. \A q \in Calls : IF q = r THEN pc'[q] = "asking" /\ stamp'[q] = now
                                         ELSE pc'[q] = pc[q] /\ stamp'[q] = stamp[q]
        BY <1>1, <3>1 DEF StateOK
      <3>3. pc' \in [Calls -> {"idle", "asking", "allowed", "denied", "refused"}]
        BY <1>1, <3>1 DEF StateOK
      <3>4. stamp' \in [Calls -> 0..now]
        BY <1>1, <3>1 DEF StateOK
      <3>5. StateOK'
        BY <1>1, <2>1, <3>1, <3>2, <3>3, <3>4, TimesAssumption DEF StateOK
      <3> QED
        BY <1>1, <2>1, <3>1, <3>2, <3>5, CalmKeepsIInv
    <2>3. CASE ~available[home[r]]
      <3>1. TakeFallback(r)
        BY <1>8, <2>3 DEF Arrive
      <3>2. available' \in [Processes -> BOOLEAN]
        BY <1>1, <2>1 DEF StateOK
      <3> QED
        BY <1>7, <2>1, <3>1, <3>2
    <2> QED
      BY <2>2, <2>3
  <1>9. ASSUME NEW r \in Calls, RunScript(r) PROVE RateIInv'
    <2>1. /\ Take(r, Redis, bucket[Redis], stamp[r], "allowed", "denied")
          /\ written' = now
          /\ disordered' = (disordered \/ stamp[r] < bucket[Redis].last)
          /\ UNCHANGED <<middleware, now, cleaned, lapses, available, home>>
      BY <1>9 DEF RunScript
    <2>2. stamp[r] \in 0..now /\ now - stamp[r] <= Grace
      BY <1>1, <1>9 DEF StateOK, RunScript
    <2>3. cleaned' \in [Processes -> 0..now] /\ available' \in [Processes -> BOOLEAN]
      BY <1>1, <2>1 DEF StateOK
    <2> QED
      BY <1>3, <1>5, <2>1, <2>2, <2>3, TakeKeepsIInv
  <1>10. ASSUME NEW r \in Calls, Reply(r) \/ Send429(r) PROVE RateIInv'
    <2>1. UNCHANGED <<middleware, now, bucket, cleaned, lapses, available, written, home, granted, disordered>>
      BY <1>10 DEF Reply, Send429
    <2>2. \A q \in Calls \ {r} : pc'[q] = pc[q] /\ stamp'[q] = stamp[q]
      BY <1>1, <1>10 DEF StateOK, Reply, Send429
    <2>3. \/ pc'[r] = "idle" /\ stamp'[r] = 0
          \/ pc'[r] = "refused" /\ pc[r] = "denied" /\ stamp'[r] = stamp[r]
      BY <1>1, <1>10 DEF StateOK, Reply, Send429
    <2>4. pc' \in [Calls -> {"idle", "asking", "allowed", "denied", "refused"}]
      BY <1>1, <1>10 DEF StateOK, Reply, Send429
    <2>5. stamp' \in [Calls -> 0..now]
      BY <1>1, <1>10 DEF StateOK, Reply, Send429
    <2>6. StateOK'
      BY <1>1, <2>1, <2>2, <2>3, <2>4, <2>5 DEF StateOK
    <2> QED
      BY <1>1, <2>1, <2>2, <2>3, <2>6, CalmKeepsIInv
  <1>11. ASSUME NEW r \in Calls, RedisFails(r) PROVE RateIInv'
    <2>1. TakeFallback(r) /\ UNCHANGED <<middleware, now, cleaned, lapses, written, home, disordered>>
      BY <1>11 DEF RedisFails
    <2>2. available' \in [Processes -> BOOLEAN]
      BY <1>1, <1>11 DEF StateOK, RedisFails
    <2> QED
      BY <1>7, <2>1, <2>2
  <1>12. CASE KeyExpires
    <2>1. /\ bucket' = [bucket EXCEPT ![Redis] = None]
          /\ UNCHANGED <<middleware, now, cleaned, lapses, available, written, requestState, granted, disordered>>
      BY <1>12 DEF KeyExpires
    <2>2. UNCHANGED <<middleware, now, cleaned, lapses, available, written, pc, home, stamp, granted, disordered>>
      BY <2>1 DEF requestState
    <2>3. bucket' \in [Stores -> [tokens : Int, last : Int]] /\ bucket'[Redis] = None
          /\ \A s \in Stores \ {Redis} : bucket'[s] = bucket[s]
      BY <1>1, <1>3, <2>1 DEF StateOK, None
    <2>4. StateOK'
      BY <1>1, <2>2, <2>3 DEF StateOK
    <2>5. ASSUME NEW s \in Stores PROVE StoreInv(s)'
      <3>1. StoreInv(s)
        BY DEF RateIInv
      <3>2. CASE s = Redis
        <4>1. Forgotten(s)'
          BY <1>1, <1>3, <1>12, <3>1, <3>2, ExpiryForgets DEF StoreInv
        <4>2. Within(s)'
          BY <2>2, <3>1 DEF StoreInv, Within, Unlapsed, Through, Quota
        <4> QED
          BY <2>3, <3>2, <4>1, <4>2 DEF StoreInv, Budget, NotOverdrawn, Spent, NoneLater
      <3>3. CASE s # Redis
        BY <1>1, <2>2, <2>3, <3>1, <3>3, SameStore
      <3> QED
        BY <3>2, <3>3
    <2>6. RefusedOnlyInExcess'
      BY <2>2 DEF RateIInv, RefusedOnlyInExcess, Through, Quota
    <2> QED
      BY <2>4, <2>5, <2>6 DEF RateIInv
  <1>13. CASE Tick
    <2>1. /\ now < MaxTime /\ now' = now + 1
          /\ \A r \in Calls : pc[r] = "asking" => now - stamp[r] < Grace
          /\ UNCHANGED <<middleware, bucket, cleaned, lapses, available, written, pc, home, stamp, granted, disordered>>
      BY <1>13 DEF Tick, requestState
    <2>2. now' \in Times /\ 0..now \subseteq 0..now'
      BY <1>1, <2>1, TimesAssumption DEF Times
    <2>3. \A r \in Calls : stamp[r] \in Int
      BY <1>1 DEF StateOK
    <2>4. \A r \in Calls : pc'[r] = "asking" => now' - stamp'[r] <= Grace
      BY <1>1, <2>1, <2>3, TimesAssumption
    <2>5. /\ lapses' \in [Stores -> SUBSET (0..now')] /\ lapses'[Redis] = {}
          /\ cleaned' \in [Processes -> 0..now'] /\ written' \in 0..now' /\ stamp' \in [Calls -> 0..now']
          /\ \A s \in Stores : bucket'[s] # None => bucket'[s].last \in 0..now'
      BY <1>1, <2>1, <2>2 DEF StateOK
    <2>6. StateOK'
      BY <1>1, <2>1, <2>2, <2>4, <2>5 DEF StateOK
    <2> QED
      BY <1>1, <2>1, <2>6, CalmKeepsIInv
  <1>14. CASE UNCHANGED rateVars
    <2>1. UNCHANGED <<middleware, now, bucket, cleaned, lapses, available, written, pc, home, stamp, granted, disordered>>
      BY <1>14 DEF rateVars, requestState
    <2>2. StateOK'
      BY <1>1, <2>1 DEF StateOK
    <2> QED
      BY <1>1, <2>1, <2>2, CalmKeepsIInv
  <1> QED
    BY <1>6, <1>8, <1>9, <1>10, <1>11, <1>12, <1>13, <1>14 DEF RateNext

\* It holds in every state.
LEMMA RateInvariant == RateSpec => []RateIInv
  BY RateInitIInv, RateNextIInv, PTL DEF RateSpec

\* RateTypeCorrect: no clock of a bucket or of a request is ahead of the time, a
\* script runs within Grace of its request, and every variable is in its range.
THEOREM RateTypeCorrect == RateSpec => []StateOK
  <1>1. RateIInv => StateOK
    BY DEF RateIInv
  <1> QED
    BY <1>1, RateInvariant, PTL

\* RateHolds: for every burst, rate and cleanup interval, in no window does a
\* bucket let through more than the burst and what the rate gives, although
\* keys expire, Redis fails in the middle of a call, and scripts run out of
\* order; and although buckets are forgotten by the cleanup, unless that came
\* within the window and before the bucket was full.
THEOREM RateHolds == RateSpec => []WithinRate
  <1>1. RateIInv => WithinRate
    BY DEF RateIInv, StoreInv, Within, WithinRate
  <1> QED
    BY <1>1, RateInvariant, PTL

\* RefusalsAreDue: whoever gets a 429 would have been one too many, in some
\* window that ends with the request, unless a script ran with an older time
\* than one before it.
THEOREM RefusalsAreDue == RateSpec => []RefusedOnlyInExcess
  <1>1. RateIInv => RefusedOnlyInExcess
    BY DEF RateIInv
  <1> QED
    BY <1>1, RateInvariant, PTL
=============================================================================
