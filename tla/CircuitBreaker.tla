--------------------------- MODULE CircuitBreaker ---------------------------
(***************************************************************************)
(* The three-state circuit of middleware/circuit_breaker.py, for one path  *)
(* (paths share nothing but the lock, and no critical section awaits, so   *)
(* circuits of different paths are independent).                           *)
(*                                                                         *)
(* A request takes two atomic steps: it is admitted or rejected inside the *)
(* first `async with self._lock`, and what the inner application did is    *)
(* recorded inside the last one.  Any number of other requests may be      *)
(* admitted or recorded in between.  Elements of Requests are reusable     *)
(* slots: a finished slot may carry a new request.                         *)
(***************************************************************************)
EXTENDS Naturals, FiniteSets

CONSTANTS
    Requests,           \* request slots of the path
    FailureThreshold,   \* failure_threshold
    HalfOpenMaxCalls    \* half_open_max_calls

ASSUME RequestsAssumption == IsFiniteSet(Requests)
ASSUME ThresholdAssumption == FailureThreshold \in Nat \ {0}
ASSUME ProbesAssumption == HalfOpenMaxCalls \in Nat

VARIABLES
    state,              \* _CircuitState.state
    failure_count,      \* _CircuitState.failure_count, see RecordFailure
    half_open_calls,    \* _CircuitState.half_open_calls
    recovered,          \* monotonic() - opened_at >= recovery_timeout
    phase,              \* where each request is, and how it was admitted
    probes,             \* history: probes of this HALF_OPEN period in flight
    lost,               \* history: a probe of this HALF_OPEN period ended
                        \* with nothing to record
    streak              \* history: failures recorded since the last success

circuit == <<state, failure_count, half_open_calls, recovered>>
vars == <<state, failure_count, half_open_calls, recovered, phase, probes,
          lost, streak>>

Phases == {"idle", "normal", "probe", "rejected"}

Init ==
    /\ state = "CLOSED"
    /\ failure_count = 0
    /\ half_open_calls = 0
    /\ recovered = FALSE
    /\ phase = [r \in Requests |-> "idle"]
    /\ probes = {}
    /\ lost = FALSE
    /\ streak = 0

-----------------------------------------------------------------------------
(* Admission: the critical section that __call__ begins with.              *)

\* The circuit a request finds is half-open, or turns half-open under its
\* eyes because the recovery timeout has passed.
Probing == state = "HALF_OPEN" \/ (state = "OPEN" /\ recovered)
ProbeCalls == IF state = "HALF_OPEN" THEN half_open_calls ELSE 0
PeriodProbes == IF state = "HALF_OPEN" THEN probes ELSE {}
PeriodLost == state = "HALF_OPEN" /\ lost

\* Mutant of ProbeAllowed: one probe too many.
ProbeAllowedOffByOne == ProbeCalls <= HalfOpenMaxCalls

ProbeAllowed == ProbeCalls < HalfOpenMaxCalls

AdmitClosed(r) ==
    /\ phase[r] = "idle"
    /\ state = "CLOSED"
    /\ phase' = [phase EXCEPT ![r] = "normal"]
    /\ UNCHANGED <<circuit, probes, lost, streak>>

AdmitProbe(r) ==
    /\ phase[r] = "idle"
    /\ Probing
    /\ ProbeAllowed
    /\ state' = "HALF_OPEN"
    /\ half_open_calls' = ProbeCalls + 1
    /\ phase' = [phase EXCEPT ![r] = "probe"]
    /\ probes' = PeriodProbes \cup {r}
    /\ lost' = PeriodLost
    /\ UNCHANGED <<failure_count, recovered, streak>>

RejectOpen(r) ==
    /\ phase[r] = "idle"
    /\ state = "OPEN" /\ ~recovered
    /\ phase' = [phase EXCEPT ![r] = "rejected"]
    /\ UNCHANGED <<circuit, probes, lost, streak>>

RejectHalfOpen(r) ==
    /\ phase[r] = "idle"
    /\ Probing
    /\ ~ProbeAllowed
    /\ state' = "HALF_OPEN"
    /\ half_open_calls' = ProbeCalls
    /\ phase' = [phase EXCEPT ![r] = "rejected"]
    /\ probes' = PeriodProbes
    /\ lost' = PeriodLost
    /\ UNCHANGED <<failure_count, recovered, streak>>

Send503(r) ==
    /\ phase[r] = "rejected"
    /\ phase' = [phase EXCEPT ![r] = "idle"]
    /\ UNCHANGED <<circuit, probes, lost, streak>>

-----------------------------------------------------------------------------
(* The outcome: the critical sections that __call__ ends with.             *)

\* The count is only ever compared with the threshold, so it stops there.
Bump(n) == IF n < FailureThreshold THEN n + 1 ELSE n

\* Mutant of Tripped: off by one.
TrippedEarly(n) == n + 1 >= FailureThreshold

Tripped(n) == n >= FailureThreshold

RecordFailure ==
    \/ /\ state = "HALF_OPEN"
       /\ state' = "OPEN"
       /\ recovered' = FALSE
       /\ half_open_calls' = 0
       /\ UNCHANGED failure_count
    \/ /\ state # "HALF_OPEN"
       /\ failure_count' = Bump(failure_count)
       /\ IF Tripped(failure_count')
            THEN state' = "OPEN" /\ recovered' = FALSE
            ELSE UNCHANGED <<state, recovered>>
       /\ UNCHANGED half_open_calls

\* Mutant of RecordSuccess: the count is reset but the circuit not closed.
RecordSuccessNoClose ==
    /\ failure_count' = 0
    /\ UNCHANGED <<state, half_open_calls, recovered>>

RecordSuccess ==
    /\ state' = "CLOSED"
    /\ failure_count' = 0
    /\ half_open_calls' = 0
    /\ UNCHANGED recovered

Forwarded(r) == phase[r] \in {"normal", "probe"}

\* The inner application raised, or answered with a status >= 500.
Fail(r) ==
    /\ Forwarded(r)
    /\ RecordFailure
    /\ phase' = [phase EXCEPT ![r] = "idle"]
    /\ probes' = {}
    /\ lost' = FALSE
    /\ streak' = Bump(streak)

\* The inner application answered with a status < 500.
Succeed(r) ==
    /\ Forwarded(r)
    /\ RecordSuccess
    /\ phase' = [phase EXCEPT ![r] = "idle"]
    /\ probes' = {}
    /\ lost' = FALSE
    /\ streak' = 0

\* Neither branch runs: CancelledError is no Exception, and a call that
\* returned without http.response.start has no status_code.
Abandon(r) ==
    /\ Forwarded(r)
    /\ phase' = [phase EXCEPT ![r] = "idle"]
    /\ probes' = probes \ {r}
    /\ lost' = (lost \/ r \in probes)
    /\ UNCHANGED <<circuit, streak>>

\* recovery_timeout seconds have gone by since opened_at.
RecoveryElapses ==
    /\ state = "OPEN" /\ ~recovered
    /\ recovered' = TRUE
    /\ UNCHANGED <<state, failure_count, half_open_calls, phase, probes,
                   lost, streak>>

-----------------------------------------------------------------------------
Enter(r) ==
    AdmitClosed(r) \/ AdmitProbe(r) \/ RejectOpen(r) \/ RejectHalfOpen(r)

Finish(r) == Succeed(r) \/ Fail(r) \/ Abandon(r)

Next ==
    \/ \E r \in Requests : Enter(r) \/ Send503(r) \/ Finish(r)
    \/ RecoveryElapses

Spec == Init /\ [][Next]_vars

\* Requests keep arriving, every forwarded call ends (it is awaited with no
\* timeout of its own, so this is the inner application's promise), and the
\* monotonic clock advances.
Fairness ==
    /\ WF_vars(\E r \in Requests : Enter(r))
    /\ \A r \in Requests : WF_vars(Send503(r)) /\ WF_vars(Finish(r))
    /\ WF_vars(RecoveryElapses)

FairSpec == Spec /\ Fairness

-----------------------------------------------------------------------------
\* Every variable of the circuit and of its requests stays in its range.
TypeOK ==
    /\ state \in {"CLOSED", "OPEN", "HALF_OPEN"}
    /\ failure_count \in 0..FailureThreshold
    /\ half_open_calls \in 0..HalfOpenMaxCalls
    /\ recovered \in BOOLEAN
    /\ phase \in [Requests -> Phases]
    /\ probes \in SUBSET Requests
    /\ lost \in BOOLEAN
    /\ streak \in 0..FailureThreshold

\* Between two changes of state no more than half_open_max_calls probes are
\* in the inner application, whatever late outcomes do to the counter.
ProbesBounded == Cardinality(probes) <= HalfOpenMaxCalls

\* Unless a probe of the period was lost, a half-open circuit has a probe of
\* its own in flight: somebody is there who will move it on, so rejecting
\* everyone else cannot last for ever.
HalfOpenHasProbe ==
    state = "HALF_OPEN" /\ HalfOpenMaxCalls > 0 =>
        lost \/ \E r \in probes : phase[r] = "probe"

\* A closed circuit counts exactly the failures since the last success and is
\* below the threshold: a circuit that has just closed tolerates as many
\* failures as a new one, however it got there.
ClosedCountsAfresh ==
    state = "CLOSED" => failure_count = streak /\ streak < FailureThreshold

\* A closed circuit opens only on the failure that completes a run of
\* failure_threshold failures with no success recorded in between.
TripsOnThreshold ==
    [][(state = "CLOSED" /\ state' = "OPEN") => streak' >= FailureThreshold]_vars

\* No circuit is stuck while requests arrive. An open one lets a probe in,
\* although every late failure restarts the recovery timeout; a half-open one
\* closes or opens again ("If the probe succeeds the circuit closes; if it fails
\* the circuit re-opens"), unless a probe of the period was lost.
NeverStuck ==
    /\ (state = "OPEN") ~> (state # "OPEN")
    /\ (state = "HALF_OPEN" /\ ~lost) ~> (state # "HALF_OPEN" \/ lost)
=============================================================================
