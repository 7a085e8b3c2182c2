------------------------ MODULE RedisCircuitBreaker ------------------------
(***************************************************************************)
(* One path of middleware/circuit_breaker_redis.py: the circuit in a Redis *)
(* hash that several processes share, and the circuit each process falls   *)
(* back to once Redis has failed it.  A Lua script is one step at Redis;   *)
(* before it the call may fail without effect, after it the reply may be   *)
(* lost, and other requests run in between.  The in-memory checks and      *)
(* records never await while they hold their lock.                         *)
(*                                                                         *)
(* What Redis knows of a request (phase, probes, lost, streak) is kept as  *)
(* in CircuitBreaker, which the shared circuit is shown to implement.      *)
(***************************************************************************)
EXTENDS Naturals, FiniteSets

CONSTANTS
    Requests,           \* request slots of the path, of all processes
    Processes,
    Home,               \* the process that serves each request
    FailureThreshold,   \* failure_threshold
    HalfOpenMaxCalls    \* half_open_max_calls

ASSUME RequestsAssumption == IsFiniteSet(Requests)
ASSUME HomeAssumption == Home \in [Requests -> Processes]
ASSUME ThresholdAssumption == FailureThreshold \in Nat \ {0}
\* With 0 the check script still grants the probe that opens the period.
ASSUME ProbesAssumption == HalfOpenMaxCalls \in Nat \ {0}

VARIABLES
    shared,      \* the hash: state, failure_count, half_open_calls, and
                 \* recovered for now - opened_at >= recovery_timeout
    local,       \* each process's _fallback_circuits[path]
    connected,   \* _redis_client is not None
    available,   \* _redis_available
    pc,
    outcome,     \* the success argument of a request's _record
    phase,       \* history: what the shared circuit knows of each request
    probes,      \* history: probes of the shared half-open period
    lost,        \* history: one of them ended without a record script
    streak,      \* history: failures recorded since the last success
    localProbes  \* history: probes of each fall-back's half-open period

redisView == <<shared, phase, probes, lost, streak>>
processState == <<local, localProbes, connected, available>>
vars == <<redisView, processState, pc, outcome>>

Fresh == [state |-> "CLOSED", failures |-> 0, calls |-> 0, recovered |-> FALSE]

Init ==
    /\ shared = Fresh
    /\ local = [p \in Processes |-> Fresh]
    /\ connected = [p \in Processes |-> FALSE]
    /\ available = [p \in Processes |-> TRUE]
    /\ pc = [r \in Requests |-> "idle"]
    /\ outcome = [r \in Requests |-> "none"]
    /\ phase = [r \in Requests |-> "idle"]
    /\ probes = {} /\ lost = FALSE /\ streak = 0
    /\ localProbes = [p \in Processes |-> {}]

Goto(r, label) == pc' = [pc EXCEPT ![r] = label]

-----------------------------------------------------------------------------
(* _CHECK_SCRIPT and _RECORD_SCRIPT                                        *)

Probing(c) == c.state = "HALF_OPEN" \/ (c.state = "OPEN" /\ c.recovered)

\* The check script starts a period with its first probe counted.
GrantedCalls(c) == IF c.state = "HALF_OPEN" THEN c.calls + 1 ELSE 1

Granted(c) ==
    \/ c.state = "CLOSED"
    \/ Probing(c) /\ GrantedCalls(c) <= HalfOpenMaxCalls

Checked(c) ==
    IF Granted(c) /\ Probing(c)
    THEN [c EXCEPT !.state = "HALF_OPEN", !.calls = GrantedCalls(c)]
    ELSE c

\* The count is only compared with the threshold, so it stops there.
Bump(n) == IF n < FailureThreshold THEN n + 1 ELSE n

Opened(c) == [c EXCEPT !.state = "OPEN", !.recovered = FALSE]

\* Mutant of Recorded: a failed probe keeps its place in half_open_calls.
RecordedKeepsCalls(c, ok) ==
    IF ok = "success"
    THEN [c EXCEPT !.state = "CLOSED", !.failures = 0]
    ELSE IF c.state = "HALF_OPEN"
    THEN Opened(c)
    ELSE LET n == Bump(c.failures)
         IN  [c EXCEPT !.failures = n,
                       !.state = IF n >= FailureThreshold THEN "OPEN" ELSE @,
                       !.recovered = IF n >= FailureThreshold THEN FALSE ELSE @]

\* _RECORD_SCRIPT, and _record_fallback, which mirrors it.
Recorded(c, ok) ==
    IF ok = "success"
    THEN [c EXCEPT !.state = "CLOSED", !.failures = 0, !.calls = 0]
    ELSE IF c.state = "HALF_OPEN"
    THEN [Opened(c) EXCEPT !.calls = 0]
    ELSE LET counted == [c EXCEPT !.failures = Bump(@)]
         IN  IF counted.failures >= FailureThreshold THEN Opened(counted) ELSE counted

\* Redis will not hear of the request's outcome.
Vanish(r) ==
    /\ phase' = [phase EXCEPT ![r] = "idle"]
    /\ probes' = probes \ {r}
    /\ lost' = (lost \/ r \in probes)
    /\ UNCHANGED <<shared, streak>>

-----------------------------------------------------------------------------
(* _check_fallback and _record_fallback                                    *)

HalfOpened(c) ==
    IF c.state = "OPEN" /\ c.recovered
    THEN [c EXCEPT !.state = "HALF_OPEN", !.calls = 0] ELSE c

\* Mutant of FitsLocally: one probe too many.
FitsLocallyOffByOne(c) == c.calls <= HalfOpenMaxCalls

FitsLocally(c) == c.calls < HalfOpenMaxCalls

CheckFallback(r) ==
    LET p == Home[r]
        c == HalfOpened(local[p])
        old == IF local[p].state = "HALF_OPEN" THEN localProbes[p] ELSE {}
    IN  \/ /\ c.state = "CLOSED"
           /\ Goto(r, "inner")
           /\ UNCHANGED <<local, localProbes>>
        \/ /\ c.state = "HALF_OPEN" /\ FitsLocally(c)
           /\ Goto(r, "inner")
           /\ local' = [local EXCEPT ![p] = [c EXCEPT !.calls = @ + 1]]
           /\ localProbes' = [localProbes EXCEPT ![p] = old \cup {r}]
        \/ /\ c.state = "OPEN" \/ (c.state = "HALF_OPEN" /\ ~FitsLocally(c))
           /\ Goto(r, "rejected")
           /\ local' = [local EXCEPT ![p] = c]
           /\ localProbes' = [localProbes EXCEPT ![p] = old]

RecordFallback(r, ok) ==
    /\ local' = [local EXCEPT ![Home[r]] = Recorded(@, ok)]
    /\ localProbes' = [localProbes EXCEPT ![Home[r]] = {}]
    /\ Goto(r, "idle")

Disconnect(r) == available' = [available EXCEPT ![Home[r]] = FALSE]

-----------------------------------------------------------------------------
(* __call__                                                                *)

Arrive(r) ==
    /\ pc[r] = "idle"
    /\ IF available[Home[r]]
         THEN Goto(r, "checking") /\ UNCHANGED <<local, localProbes>>
         ELSE CheckFallback(r)
    /\ UNCHANGED <<redisView, connected, available, outcome>>

\* _get_redis: the first request to get the lock connects and loads the
\* scripts.  _redis_available stays as an earlier failure left it.
Connect(r) ==
    /\ pc[r] = "checking" /\ ~connected[Home[r]]
    /\ connected' = [connected EXCEPT ![Home[r]] = TRUE]
    /\ UNCHANGED <<redisView, local, localProbes, available, pc, outcome>>

RunCheck(r) ==
    /\ pc[r] = "checking" /\ connected[Home[r]]
    /\ shared' = Checked(shared)
    /\ phase' = [phase EXCEPT ![r] =
                    IF ~Granted(shared) THEN "rejected"
                    ELSE IF Probing(shared) THEN "probe" ELSE "normal"]
    /\ IF Granted(shared) /\ Probing(shared)
         THEN /\ probes' = (IF shared.state = "HALF_OPEN" THEN probes ELSE {}) \cup {r}
              /\ lost' = (shared.state = "HALF_OPEN" /\ lost)
         ELSE UNCHANGED <<probes, lost>>
    /\ Goto(r, "checked")
    /\ UNCHANGED <<streak, processState, outcome>>

CheckReply(r) ==
    /\ pc[r] = "checked"
    /\ Goto(r, IF phase[r] = "rejected" THEN "rejected" ELSE "inner")
    /\ UNCHANGED <<redisView, processState, outcome>>

\* Connecting, the script or its reply failed: decide in memory.
CheckFails(r) ==
    /\ pc[r] \in {"checking", "checked"}
    /\ Vanish(r)
    /\ Disconnect(r)
    /\ CheckFallback(r)
    /\ UNCHANGED <<connected, outcome>>

Send503(r) ==
    /\ pc[r] = "rejected"
    /\ Goto(r, "idle")
    /\ Vanish(r)
    /\ UNCHANGED <<processState, outcome>>

\* The inner application raised or answered; _record looks at
\* _redis_available again.
InnerEnds(r) ==
    /\ pc[r] = "inner"
    /\ \E ok \in {"success", "failure"} :
          IF available[Home[r]]
          THEN /\ outcome' = [outcome EXCEPT ![r] = ok]
               /\ Goto(r, "recording")
               /\ UNCHANGED <<redisView, local, localProbes>>
          ELSE /\ RecordFallback(r, ok)
               /\ Vanish(r)
               /\ UNCHANGED outcome
    /\ UNCHANGED <<connected, available>>

RunRecord(r) ==
    /\ pc[r] = "recording"
    /\ shared' = Recorded(shared, outcome[r])
    /\ phase' = [phase EXCEPT ![r] = "idle"]
    /\ probes' = {} /\ lost' = FALSE
    /\ streak' = IF outcome[r] = "success" THEN 0 ELSE Bump(streak)
    /\ Goto(r, "recorded")
    /\ UNCHANGED <<processState, outcome>>

RecordReply(r) ==
    /\ pc[r] = "recorded"
    /\ Goto(r, "idle")
    /\ outcome' = [outcome EXCEPT ![r] = "none"]
    /\ UNCHANGED <<redisView, processState>>

\* The script or its reply failed: record in memory, perhaps once more.
RecordFails(r) ==
    /\ pc[r] \in {"recording", "recorded"}
    /\ Disconnect(r)
    /\ RecordFallback(r, outcome[r])
    /\ Vanish(r)
    /\ outcome' = [outcome EXCEPT ![r] = "none"]
    /\ UNCHANGED connected

\* CancelledError passes every except clause, a call without a response start
\* records nothing, and a request of a process that crashed is gone.
Abandon(r) ==
    /\ pc[r] \notin {"idle", "rejected"}
    /\ Goto(r, "idle")
    /\ Vanish(r)
    /\ outcome' = [outcome EXCEPT ![r] = "none"]
    /\ UNCHANGED processState

\* A process starts anew once its requests have ended or died with it.
Restart(p) ==
    /\ \A r \in Requests : Home[r] = p => pc[r] = "idle"
    /\ local' = [local EXCEPT ![p] = Fresh]
    /\ localProbes' = [localProbes EXCEPT ![p] = {}]
    /\ connected' = [connected EXCEPT ![p] = FALSE]
    /\ available' = [available EXCEPT ![p] = TRUE]
    /\ UNCHANGED <<redisView, pc, outcome>>

\* recovery_timeout seconds have gone by since opened_at.
SharedRecovers ==
    /\ shared.state = "OPEN" /\ ~shared.recovered
    /\ shared' = [shared EXCEPT !.recovered = TRUE]
    /\ UNCHANGED <<phase, probes, lost, streak, processState, pc, outcome>>

LocalRecovers(p) ==
    /\ local[p].state = "OPEN" /\ ~local[p].recovered
    /\ local' = [local EXCEPT ![p].recovered = TRUE]
    /\ UNCHANGED <<redisView, localProbes, connected, available, pc, outcome>>

-----------------------------------------------------------------------------
Next ==
    \/ \E r \in Requests :
          \/ Arrive(r) \/ Connect(r) \/ RunCheck(r) \/ CheckReply(r) \/ CheckFails(r)
          \/ Send503(r) \/ InnerEnds(r) \/ RunRecord(r) \/ RecordReply(r)
          \/ RecordFails(r) \/ Abandon(r)
    \/ \E p \in Processes : Restart(p) \/ LocalRecovers(p)
    \/ SharedRecovers

Spec == Init /\ [][Next]_vars

-----------------------------------------------------------------------------
Circuits ==
    [state : {"CLOSED", "OPEN", "HALF_OPEN"}, failures : 0..FailureThreshold,
     calls : 0..HalfOpenMaxCalls, recovered : BOOLEAN]

\* Every variable stays in its range, and Redis knows of no request that its
\* process has not asked it about.
TypeOK ==
    /\ shared \in Circuits /\ local \in [Processes -> Circuits]
    /\ connected \in [Processes -> BOOLEAN] /\ available \in [Processes -> BOOLEAN]
    /\ pc \in [Requests -> {"idle", "checking", "checked", "inner", "rejected",
                            "recording", "recorded"}]
    /\ outcome \in [Requests -> {"none", "success", "failure"}]
    /\ phase \in [Requests -> {"idle", "normal", "probe", "rejected"}]
    /\ probes \in SUBSET Requests /\ lost \in BOOLEAN
    /\ streak \in 0..FailureThreshold
    /\ localProbes \in [Processes -> SUBSET Requests]
    /\ \A r \in Requests : /\ pc[r] \in {"idle", "checking"} => phase[r] = "idle"
                           /\ pc[r] = "checked" => phase[r] # "idle"
                           /\ pc[r] = "recording" => phase[r] \in {"normal", "probe"}
                           /\ pc[r] = "recording" => outcome[r] # "none"

\* "Circuit state is shared across all application instances": the hash, as
\* seen by the requests of all processes, is a circuit breaker of one process.
\* A request whose outcome goes elsewhere (Redis failed meanwhile, the task was
\* cancelled, the process died) is to Redis a request that was abandoned.
Circuit == INSTANCE CircuitBreaker
              WITH state <- shared.state, failure_count <- shared.failures,
                   half_open_calls <- shared.calls, recovered <- shared.recovered
ImplementsCircuit == Circuit!Spec

\* "Same semantics as CircuitBreakerMiddleware": a fall-back, although outcomes
\* of requests that Redis admitted are recorded in it, lets no more than
\* half_open_max_calls probes run in one period, stays closed only below the
\* threshold, and starts from scratch when Redis first fails.
FallbackBounded ==
    \A p \in Processes :
        /\ Cardinality(localProbes[p]) <= HalfOpenMaxCalls
        /\ local[p].state = "CLOSED" => local[p].failures < FailureThreshold
        /\ available[p] => local[p] = Fresh
=============================================================================
