---------------------- MODULE RedisCircuitBreakerProofs ----------------------
(***************************************************************************)
(* Theorems about RedisCircuitBreaker, for any number of requests and      *)
(* processes, every threshold and every positive probe limit.              *)
(*                                                                         *)
(* SharedInv ties what Redis knows of a request to where the request is: a *)
(* request whose outcome a record script will be given was admitted by a   *)
(* check script, since a process never returns to Redis once it has failed *)
(* it.  With it every step at Redis is a step of CircuitBreaker.  LocalInv *)
(* bounds the probes of a fall-back by its counter, and says that a        *)
(* process which has not been failed by Redis has not touched it.          *)
(***************************************************************************)
EXTENDS RedisCircuitBreaker, FiniteSetTheorems, TLAPS

SharedInv ==
    /\ \A r \in Requests :
          pc[r] = "inner" /\ available[Home[r]] => phase[r] \in {"normal", "probe"}
    /\ \A r \in probes : phase[r] = "probe"
    /\ \A r \in Requests : pc[r] = "recorded" => phase[r] = "idle"

LocalInv ==
    \A p \in Processes :
        /\ local[p].state = "HALF_OPEN" => Cardinality(localProbes[p]) <= local[p].calls
        /\ local[p].state # "HALF_OPEN" => localProbes[p] = {}
        /\ local[p].state = "CLOSED" => local[p].failures < FailureThreshold
        /\ available[p] => local[p] = Fresh

IInv == TypeOK /\ SharedInv /\ LocalInv

\* The empty circuits satisfy the inductive invariant.
LEMMA InitIInv == Init => IInv
  <1> SUFFICES ASSUME Init PROVE IInv
    OBVIOUS
  <1> USE ThresholdAssumption, ProbesAssumption DEF Init, Fresh
  <1>1. TypeOK
    <2>1. 0 \in 0..FailureThreshold /\ 0 \in 0..HalfOpenMaxCalls
      OBVIOUS
    <2> QED
      BY <2>1 DEF TypeOK, Circuits
  <1>2. SharedInv
    BY DEF SharedInv
  <1>3. LocalInv
    BY DEF LocalInv
  <1> QED
    BY <1>1, <1>2, <1>3 DEF IInv

\* Recording an outcome ends a half-open period, and leaves a circuit closed
\* only below the threshold.
LEMMA RecordedFacts ==
  ASSUME NEW c \in Circuits, NEW ok \in {"none", "success", "failure"}
  PROVE  /\ Recorded(c, ok) \in Circuits
         /\ Recorded(c, ok).state # "HALF_OPEN"
         /\ Recorded(c, ok).state = "CLOSED" => Recorded(c, ok).failures < FailureThreshold
  <1>1. /\ 0 \in 0..FailureThreshold /\ 0 \in 0..HalfOpenMaxCalls
        /\ 0 < FailureThreshold
    BY ThresholdAssumption, ProbesAssumption
  <1>2. CASE ok = "success"
    BY <1>1, <1>2 DEF Recorded, Circuits
  <1>3. CASE ok # "success" /\ c.state = "HALF_OPEN"
    BY <1>1, <1>3 DEF Recorded, Opened, Circuits
  <1>4. CASE ok # "success" /\ c.state # "HALF_OPEN"
    <2> DEFINE counted == [c EXCEPT !.failures = Bump(c.failures)]
    <2>1. Recorded(c, ok) =
            IF counted.failures >= FailureThreshold THEN Opened(counted) ELSE counted
      BY <1>4 DEF Recorded
    <2>2. Bump(c.failures) \in 0..FailureThreshold
      <3>1. c.failures \in 0..FailureThreshold
        BY DEF Circuits
      <3> QED
        BY <3>1, ThresholdAssumption DEF Bump
    <2>3. /\ counted \in Circuits
          /\ counted.failures = Bump(c.failures) /\ counted.state = c.state
      BY <2>2 DEF Circuits
    <2>4. Opened(counted) \in Circuits /\ Opened(counted).state = "OPEN"
      BY <2>3 DEF Circuits, Opened
    <2>5. counted.failures >= FailureThreshold \/ counted.failures < FailureThreshold
      BY <2>2, <2>3, ThresholdAssumption
    <2> QED
      BY <1>4, <2>1, <2>3, <2>4, <2>5
  <1> QED
    BY <1>2, <1>3, <1>4

\* A check script changes a circuit only to count a probe that fits.
LEMMA CheckedType ==
  ASSUME NEW c \in Circuits
  PROVE  Checked(c) \in Circuits
  <1>1. CASE ~(Granted(c) /\ Probing(c))
    BY <1>1 DEF Checked
  <1>2. CASE Granted(c) /\ Probing(c)
    <2>1. GrantedCalls(c) \in 0..HalfOpenMaxCalls
      BY <1>2, ProbesAssumption DEF Granted, Probing, GrantedCalls, Circuits
    <2> QED
      BY <1>2, <2>1 DEF Checked, Circuits
  <1> QED
    BY <1>1, <1>2

\* One probe more is one more at most.
LEMMA OneMore ==
  ASSUME NEW S \in SUBSET Requests, NEW r \in Requests, NEW n \in Nat, Cardinality(S) <= n
  PROVE  Cardinality(S \cup {r}) <= n + 1
  <1>1. IsFiniteSet(S)
    BY RequestsAssumption, FS_Subset
  <1>2. Cardinality(S \cup {r}) \in {Cardinality(S), Cardinality(S) + 1}
    BY <1>1, FS_AddElement
  <1> QED
    BY <1>1, <1>2, FS_CardinalityType

\* What _check_fallback does to the circuit of the request's process, and to
\* none else.
LEMMA FallbackFacts ==
  ASSUME TypeOK, LocalInv, NEW r \in Requests, CheckFallback(r), ~available'[Home[r]],
         \A p \in Processes : available'[p] => available[p]
  PROVE  /\ local' \in [Processes -> Circuits]
         /\ localProbes' \in [Processes -> SUBSET Requests]
         /\ LocalInv'
         /\ pc' = [pc EXCEPT ![r] = "inner"] \/ pc' = [pc EXCEPT ![r] = "rejected"]
  <1> DEFINE p == Home[r]
             c == HalfOpened(local[p])
             old == IF local[p].state = "HALF_OPEN" THEN localProbes[p] ELSE {}
  <1> USE HomeAssumption, ProbesAssumption
  <1>1. /\ p \in Processes /\ local[p] \in Circuits
        /\ localProbes[p] \in SUBSET Requests
    BY DEF TypeOK
  <1>2. /\ c \in Circuits /\ old \in SUBSET Requests
        /\ c.state = "HALF_OPEN" => Cardinality(old) <= c.calls
        /\ c.state # "HALF_OPEN" => c = local[p] /\ old = {}
        /\ localProbes[p] = {} => old = {}
    <2>1. 0 \in 0..HalfOpenMaxCalls /\ Cardinality({}) = 0
      BY FS_EmptySet
    <2>2. CASE local[p].state = "OPEN" /\ local[p].recovered
      <3>1. c \in Circuits /\ c.state = "HALF_OPEN" /\ c.calls = 0
        BY <1>1, <2>1, <2>2 DEF HalfOpened, Circuits
      <3>2. old = {}
        BY <2>2
      <3> HIDE DEF c, old
      <3> QED
        BY <2>1, <3>1, <3>2
    <2>3. CASE ~(local[p].state = "OPEN" /\ local[p].recovered)
      BY <1>1, <2>3 DEF HalfOpened, LocalInv
    <2> QED
      BY <2>2, <2>3
  <1>3. \A q \in Processes \ {p} : local'[q] = local[q] /\ localProbes'[q] = localProbes[q]
    BY DEF CheckFallback, TypeOK
  <1>4. CASE c.state = "CLOSED"
    BY <1>1, <1>2, <1>4 DEF CheckFallback, Goto, LocalInv, TypeOK
  <1>5. CASE c.state = "HALF_OPEN" /\ FitsLocally(c)
    <2>1. /\ local' = [local EXCEPT ![p] = [c EXCEPT !.calls = @ + 1]]
          /\ localProbes' = [localProbes EXCEPT ![p] = old \cup {r}]
          /\ pc' = [pc EXCEPT ![r] = "inner"]
      BY <1>5 DEF CheckFallback, Goto
    <2>2. [c EXCEPT !.calls = @ + 1] \in Circuits
      BY <1>2, <1>5 DEF FitsLocally, Circuits
    <2>3. Cardinality(old \cup {r}) <= c.calls + 1
      BY <1>2, <1>5, OneMore DEF Circuits
    <2>4. /\ local'[p].calls = c.calls + 1 /\ local'[p].state = "HALF_OPEN"
          /\ localProbes'[p] = old \cup {r}
      BY <1>1, <1>2, <1>5, <2>1 DEF TypeOK, Circuits
    <2>5. /\ local' \in [Processes -> Circuits]
          /\ localProbes' \in [Processes -> SUBSET Requests]
      BY <1>1, <1>2, <2>1, <2>2 DEF TypeOK
    <2> QED
      BY <1>3, <2>1, <2>3, <2>4, <2>5 DEF LocalInv
  <1>6. CASE c.state = "OPEN" \/ (c.state = "HALF_OPEN" /\ ~FitsLocally(c))
    <2>1. /\ local' = [local EXCEPT ![p] = c]
          /\ localProbes' = [localProbes EXCEPT ![p] = old]
          /\ pc' = [pc EXCEPT ![r] = "rejected"]
      BY <1>6 DEF CheckFallback, Goto
    <2>2. local'[p] = c /\ localProbes'[p] = old
      BY <1>1, <2>1 DEF TypeOK
    <2>3. /\ local' \in [Processes -> Circuits]
          /\ localProbes' \in [Processes -> SUBSET Requests]
      BY <1>1, <1>2, <2>1 DEF TypeOK
    <2> QED
      BY <1>2, <1>3, <1>6, <2>1, <2>2, <2>3 DEF LocalInv
  <1> QED
    BY <1>4, <1>5, <1>6, <1>2 DEF Circuits

\* What _record_fallback does, likewise.
LEMMA RecordFacts ==
  ASSUME TypeOK, LocalInv, NEW r \in Requests, NEW ok \in {"none", "success", "failure"},
         RecordFallback(r, ok), ~available'[Home[r]],
         \A p \in Processes : available'[p] => available[p]
  PROVE  /\ local' \in [Processes -> Circuits]
         /\ localProbes' \in [Processes -> SUBSET Requests]
         /\ LocalInv'
         /\ pc' = [pc EXCEPT ![r] = "idle"]
  <1> DEFINE p == Home[r]
  <1>1. p \in Processes /\ local[p] \in Circuits
    BY HomeAssumption DEF TypeOK
  <1>2. /\ local' = [local EXCEPT ![p] = Recorded(local[p], ok)]
        /\ localProbes' = [localProbes EXCEPT ![p] = {}]
        /\ pc' = [pc EXCEPT ![r] = "idle"]
    BY DEF RecordFallback, Goto
  <1>3. /\ Recorded(local[p], ok) \in Circuits
        /\ Recorded(local[p], ok).state # "HALF_OPEN"
        /\ Recorded(local[p], ok).state = "CLOSED" =>
             Recorded(local[p], ok).failures < FailureThreshold
    BY <1>1, RecordedFacts DEF LocalInv
  <1>4. /\ local' \in [Processes -> Circuits]
        /\ localProbes' \in [Processes -> SUBSET Requests]
    BY <1>1, <1>2, <1>3 DEF TypeOK
  <1>5. /\ local'[p] = Recorded(local[p], ok) /\ localProbes'[p] = {}
        /\ \A q \in Processes \ {p} :
             local'[q] = local[q] /\ localProbes'[q] = localProbes[q]
    BY <1>1, <1>2 DEF TypeOK
  <1>6. LocalInv'
    BY <1>3, <1>5 DEF LocalInv
  <1> QED
    BY <1>2, <1>4, <1>6

\* Every step keeps the ranges, and what a request's place in its process
\* says of its place at Redis.
LEMMA TypeStep ==
  ASSUME TypeOK, SharedInv, LocalInv, [Next]_vars
  PROVE  TypeOK' /\ SharedInv' /\ LocalInv'
  <1> USE HomeAssumption DEF TypeOK, SharedInv
  <1>1. ASSUME NEW r \in Requests, Arrive(r) PROVE TypeOK' /\ SharedInv' /\ LocalInv'
    <2>1. CASE available[Home[r]]
      BY <1>1, <2>1 DEF Arrive, Goto, redisView, LocalInv
    <2>2. CASE ~available[Home[r]]
      <3>1. CheckFallback(r) /\ available' = available
        BY <1>1, <2>2 DEF Arrive
      <3>2. /\ local' \in [Processes -> Circuits]
            /\ localProbes' \in [Processes -> SUBSET Requests]
            /\ LocalInv'
            /\ pc' = [pc EXCEPT ![r] = "inner"] \/ pc' = [pc EXCEPT ![r] = "rejected"]
        BY <2>2, <3>1, FallbackFacts
      <3> QED
        BY <1>1, <2>2, <3>2 DEF Arrive, redisView
    <2> QED
      BY <2>1, <2>2
  <1>2. ASSUME NEW r \in Requests, Connect(r) PROVE TypeOK' /\ SharedInv' /\ LocalInv'
    BY <1>2 DEF Connect, redisView, LocalInv
  <1>3. ASSUME NEW r \in Requests, RunCheck(r) PROVE TypeOK' /\ SharedInv' /\ LocalInv'
    <2>1. Checked(shared) \in Circuits
      BY CheckedType
    <2>2. /\ phase' \in [Requests -> {"idle", "normal", "probe", "rejected"}]
          /\ phase'[r] # "idle"
          /\ \A q \in Requests \ {r} : phase'[q] = phase[q]
      BY <1>3 DEF RunCheck
    <2>3. probes' \in SUBSET Requests
      <3>1. CASE Granted(shared) /\ Probing(shared)
        BY <1>3, <3>1 DEF RunCheck
      <3>2. CASE ~(Granted(shared) /\ Probing(shared))
        BY <1>3, <3>2 DEF RunCheck
      <3> QED
        BY <3>1, <3>2
    <2>5. lost' \in BOOLEAN
      <3>1. CASE Granted(shared) /\ Probing(shared)
        BY <1>3, <3>1, Zenon DEF RunCheck
      <3>2. CASE ~(Granted(shared) /\ Probing(shared))
        BY <1>3, <3>2, Zenon DEF RunCheck
      <3> QED
        BY <3>1, <3>2
    <2>4. \A q \in probes' : phase'[q] = "probe"
      BY <1>3 DEF RunCheck
    <2> QED
      BY <1>3, <2>1, <2>2, <2>3, <2>4, <2>5 DEF RunCheck, Goto, processState, LocalInv
  <1>4. ASSUME NEW r \in Requests, CheckReply(r) PROVE TypeOK' /\ SharedInv' /\ LocalInv'
    BY <1>4 DEF CheckReply, Goto, redisView, processState, LocalInv
  <1>5. ASSUME NEW r \in Requests, CheckFails(r) PROVE TypeOK' /\ SharedInv' /\ LocalInv'
    <2>1. /\ CheckFallback(r) /\ ~available'[Home[r]]
          /\ available' \in [Processes -> BOOLEAN]
          /\ \A p \in Processes : available'[p] => available[p]
      BY <1>5 DEF CheckFails, Disconnect
    <2>2. /\ local' \in [Processes -> Circuits]
          /\ localProbes' \in [Processes -> SUBSET Requests]
          /\ LocalInv'
          /\ pc' = [pc EXCEPT ![r] = "inner"] \/ pc' = [pc EXCEPT ![r] = "rejected"]
      BY <2>1, FallbackFacts
    <2> QED
      BY <1>5, <2>1, <2>2 DEF CheckFails, Vanish
  <1>6. ASSUME NEW r \in Requests, Send503(r) PROVE TypeOK' /\ SharedInv' /\ LocalInv'
    BY <1>6 DEF Send503, Goto, Vanish, processState, LocalInv
  <1>7. ASSUME NEW r \in Requests, InnerEnds(r) PROVE TypeOK' /\ SharedInv' /\ LocalInv'
    <2>1. CASE available[Home[r]]
      BY <1>7, <2>1 DEF InnerEnds, Goto, redisView, LocalInv
    <2>2. CASE ~available[Home[r]]
      <3>1. PICK ok \in {"success", "failure"} : RecordFallback(r, ok)
        BY <1>7, <2>2 DEF InnerEnds
      <3>2. available' = available /\ connected' = connected /\ Vanish(r) /\ outcome' = outcome
        BY <1>7, <2>2 DEF InnerEnds
      <3>3. /\ local' \in [Processes -> Circuits]
            /\ localProbes' \in [Processes -> SUBSET Requests]
            /\ LocalInv'
            /\ pc' = [pc EXCEPT ![r] = "idle"]
        BY <2>2, <3>1, <3>2, RecordFacts
      <3> QED
        BY <3>2, <3>3 DEF Vanish
    <2> QED
      BY <2>1, <2>2
  <1>8. ASSUME NEW r \in Requests, RunRecord(r) PROVE TypeOK' /\ SharedInv' /\ LocalInv'
    <2>1. Recorded(shared, outcome[r]) \in Circuits
      BY RecordedFacts
    <2>2. streak' \in 0..FailureThreshold
      BY <1>8, ThresholdAssumption DEF RunRecord, Bump
    <2>3. TypeOK'
      BY <1>8, <2>1, <2>2 DEF RunRecord, Goto, processState
    <2>4. SharedInv'
      BY <1>8 DEF RunRecord, Goto, processState
    <2>5. LocalInv'
      BY <1>8 DEF RunRecord, processState, LocalInv
    <2> QED
      BY <2>3, <2>4, <2>5
  <1>9. ASSUME NEW r \in Requests, RecordReply(r) PROVE TypeOK' /\ SharedInv' /\ LocalInv'
    BY <1>9 DEF RecordReply, Goto, redisView, processState, LocalInv
  <1>10. ASSUME NEW r \in Requests, RecordFails(r) PROVE TypeOK' /\ SharedInv' /\ LocalInv'
    <2>1. /\ RecordFallback(r, outcome[r]) /\ ~available'[Home[r]]
          /\ available' \in [Processes -> BOOLEAN]
          /\ \A p \in Processes : available'[p] => available[p]
      BY <1>10 DEF RecordFails, Disconnect
    <2>2. /\ local' \in [Processes -> Circuits]
          /\ localProbes' \in [Processes -> SUBSET Requests]
          /\ LocalInv'
          /\ pc' = [pc EXCEPT ![r] = "idle"]
      BY <2>1, RecordFacts
    <2> QED
      BY <1>10, <2>1, <2>2 DEF RecordFails, Vanish
  <1>11. ASSUME NEW r \in Requests, Abandon(r) PROVE TypeOK' /\ SharedInv' /\ LocalInv'
    BY <1>11 DEF Abandon, Goto, Vanish, processState, LocalInv
  <1>12. ASSUME NEW p \in Processes, Restart(p) PROVE TypeOK' /\ SharedInv' /\ LocalInv'
    <2>1. Fresh \in Circuits /\ Fresh.state = "CLOSED" /\ Fresh.failures < FailureThreshold
      <3>1. 0 \in 0..FailureThreshold /\ 0 \in 0..HalfOpenMaxCalls /\ 0 < FailureThreshold
        BY ThresholdAssumption, ProbesAssumption
      <3> QED
        BY <3>1 DEF Fresh, Circuits
    <2>2. LocalInv'
      BY <1>12, <2>1 DEF Restart, LocalInv
    <2>3. TypeOK'
      BY <1>12, <2>1 DEF Restart, redisView
    <2>4. SharedInv'
      BY <1>12 DEF Restart, redisView
    <2> QED
      BY <2>2, <2>3, <2>4
  <1>13. ASSUME NEW p \in Processes, LocalRecovers(p) PROVE TypeOK' /\ SharedInv' /\ LocalInv'
    <2>1. /\ local' \in [Processes -> Circuits]
          /\ local'[p].state = "OPEN" /\ localProbes' = localProbes
          /\ \A q \in Processes \ {p} : local'[q] = local[q]
      <3>1. [local[p] EXCEPT !.recovered = TRUE] \in Circuits
        <4>1. local[p] \in Circuits
          OBVIOUS
        <4>2. TRUE \in BOOLEAN
          OBVIOUS
        <4> QED
          BY ONLY <4>1, <4>2 DEF Circuits
      <3>2. local' = [local EXCEPT ![p] = [local[p] EXCEPT !.recovered = TRUE]]
        BY <1>13 DEF LocalRecovers
      <3> QED
        BY <1>13, <3>1, <3>2 DEF LocalRecovers, Circuits
    <2>2. ~available[p]
      BY <1>13 DEF LocalRecovers, LocalInv, Fresh
    <2>3. LocalInv'
      BY <1>13, <2>1, <2>2 DEF LocalRecovers, LocalInv
    <2> QED
      BY <1>13, <2>1, <2>3 DEF LocalRecovers, redisView
  <1>14. CASE SharedRecovers
    BY <1>14 DEF SharedRecovers, processState, LocalInv, Circuits
  <1>15. CASE UNCHANGED vars
    BY <1>15 DEF vars, redisView, processState, LocalInv
  <1> QED
    BY <1>1, <1>2, <1>3, <1>4, <1>5, <1>6, <1>7, <1>8, <1>9, <1>10, <1>11, <1>12,
       <1>13, <1>14, <1>15 DEF Next

\* The inductive invariant holds of every reachable state.
THEOREM Invariance == Spec => []IInv
  <1>1. IInv /\ [Next]_vars => IInv'
    BY TypeStep DEF IInv
  <1> QED
    BY InitIInv, <1>1, PTL DEF Spec

\* Every variable stays in its range.
THEOREM TypeCorrect == Spec => []TypeOK
  <1>1. IInv => TypeOK
    BY DEF IInv
  <1> QED
    BY Invariance, <1>1, PTL

\* The fall-back of every process keeps to the probe limit and the threshold,
\* and is untouched until Redis fails.
THEOREM FallbacksBounded == Spec => []FallbackBounded
  <1>1. IInv => FallbackBounded
    <2> SUFFICES ASSUME IInv, NEW p \in Processes
                 PROVE  /\ Cardinality(localProbes[p]) <= HalfOpenMaxCalls
                        /\ local[p].state = "CLOSED" => local[p].failures < FailureThreshold
                        /\ available[p] => local[p] = Fresh
      BY DEF FallbackBounded
    <2>1. CASE local[p].state = "HALF_OPEN"
      <3>1. Cardinality(localProbes[p]) <= local[p].calls /\ local[p].calls \in 0..HalfOpenMaxCalls
        BY <2>1 DEF IInv, LocalInv, TypeOK, Circuits
      <3>2. Cardinality(localProbes[p]) \in Nat
        BY RequestsAssumption, FS_Subset, FS_CardinalityType DEF IInv, TypeOK
      <3> QED
        BY <3>1, <3>2, ProbesAssumption DEF IInv, LocalInv
    <2>2. CASE local[p].state # "HALF_OPEN"
      BY <2>2, FS_EmptySet, ProbesAssumption DEF IInv, LocalInv
    <2> QED
      BY <2>1, <2>2
  <1> QED
    BY Invariance, <1>1, PTL

-----------------------------------------------------------------------------
(* Every step at Redis is a step of CircuitBreaker.                        *)

\* A script that admits or refuses a request is an arrival at the circuit.
LEMMA CheckIsEnter ==
  ASSUME NEW r \in Requests, TypeOK, RunCheck(r)
  PROVE  Circuit!Enter(r)
  <1> USE DEF RunCheck, TypeOK, Circuits, Circuit!circuit
  <1>1. phase[r] = "idle" /\ streak' = streak
    OBVIOUS
  <1>2. CASE shared.state = "CLOSED"
    <2>1. Granted(shared) /\ ~Probing(shared) /\ Checked(shared) = shared
      BY <1>2 DEF Granted, Probing, Checked
    <2> QED
      BY <1>1, <1>2, <2>1 DEF Circuit!Enter, Circuit!AdmitClosed
  <1>3. CASE shared.state = "OPEN" /\ ~shared.recovered
    <2>1. ~Granted(shared) /\ Checked(shared) = shared
      BY <1>3 DEF Granted, Probing, Checked
    <2> QED
      BY <1>1, <1>3, <2>1 DEF Circuit!Enter, Circuit!RejectOpen
  <1>4. CASE Probing(shared) /\ Granted(shared)
    <2>1. /\ shared'.state = "HALF_OPEN" /\ shared'.calls = GrantedCalls(shared)
          /\ shared'.failures = shared.failures /\ shared'.recovered = shared.recovered
      BY <1>4 DEF Checked
    <2>2. Circuit!Probing
      BY <1>4 DEF Probing, Circuit!Probing
    <2>3. Circuit!ProbeAllowed /\ GrantedCalls(shared) = Circuit!ProbeCalls + 1
      BY <1>4, ProbesAssumption
         DEF Granted, Probing, GrantedCalls, Circuit!ProbeAllowed, Circuit!ProbeCalls
    <2>4. probes' = Circuit!PeriodProbes \cup {r} /\ phase' = [phase EXCEPT ![r] = "probe"]
      BY <1>4 DEF Circuit!PeriodProbes
    <2>5. lost' = Circuit!PeriodLost
      BY <1>4, Zenon DEF Circuit!PeriodLost
    <2> QED
      BY <1>1, <2>1, <2>2, <2>3, <2>4, <2>5 DEF Circuit!Enter, Circuit!AdmitProbe
  <1>5. CASE Probing(shared) /\ ~Granted(shared)
    <2>1. shared.state = "HALF_OPEN" /\ Checked(shared) = shared
      BY <1>5, ProbesAssumption DEF Granted, Probing, GrantedCalls, Checked
    <2>2. Circuit!Probing /\ ~Circuit!ProbeAllowed /\ Circuit!ProbeCalls = shared.calls
      BY <1>5, <2>1, ProbesAssumption
         DEF Granted, GrantedCalls, Circuit!Probing, Circuit!ProbeAllowed, Circuit!ProbeCalls
    <2>3. Circuit!PeriodProbes = probes /\ probes' = probes
      BY <1>5, <2>1 DEF Circuit!PeriodProbes
    <2>4. Circuit!PeriodLost = lost /\ lost' = lost
      BY <1>5, <2>1, Zenon DEF Circuit!PeriodLost
    <2> QED
      BY <1>1, <1>5, <2>1, <2>2, <2>3, <2>4 DEF Circuit!Enter, Circuit!RejectHalfOpen
  <1> QED
    BY <1>2, <1>3, <1>4, <1>5 DEF Probing

\* A script that records an outcome is the end of a request the circuit let in.
LEMMA RecordIsFinish ==
  ASSUME NEW r \in Requests, TypeOK, RunRecord(r)
  PROVE  Circuit!Finish(r)
  <1> USE DEF RunRecord, TypeOK, Circuits
  <1>1. Circuit!Forwarded(r)
    BY DEF Circuit!Forwarded
  <1>2. CASE outcome[r] = "success"
    <2>1. Circuit!RecordSuccess
      BY <1>2 DEF Recorded, Circuit!RecordSuccess
    <2> QED
      BY <1>1, <1>2, <2>1 DEF Circuit!Finish, Circuit!Succeed
  <1>3. CASE outcome[r] # "success"
    <2>1. Circuit!RecordFailure
      <3>1. CASE shared.state = "HALF_OPEN"
        BY <1>3, <3>1 DEF Recorded, Opened, Circuit!RecordFailure
      <3>2. CASE shared.state # "HALF_OPEN"
        <4> DEFINE counted == [shared EXCEPT !.failures = Bump(@)]
        <4>1. /\ counted.failures = Bump(shared.failures) /\ counted.state = shared.state
              /\ counted.calls = shared.calls /\ counted.recovered = shared.recovered
              /\ counted \in [state : {"CLOSED", "OPEN", "HALF_OPEN"}, failures : Nat,
                              calls : 0..HalfOpenMaxCalls, recovered : BOOLEAN]
          BY ThresholdAssumption, SMTT(30) DEF Bump
        <4>2. shared' = IF counted.failures >= FailureThreshold THEN Opened(counted) ELSE counted
          BY <1>3, <3>2 DEF Recorded
        <4>3. Circuit!Bump(shared.failures) = Bump(shared.failures)
          BY DEF Bump, Circuit!Bump
        <4> HIDE DEF counted
        <4>4. CASE counted.failures >= FailureThreshold
          BY <3>2, <4>1, <4>2, <4>3, <4>4, ZenonT(60) DEF Opened, Circuit!RecordFailure, Circuit!Tripped
        <4>5. CASE ~(counted.failures >= FailureThreshold)
          BY <3>2, <4>1, <4>2, <4>3, <4>5 DEF Circuit!RecordFailure, Circuit!Tripped
        <4> QED
          BY <4>4, <4>5
      <3> QED
        BY <3>1, <3>2
    <2>2. streak' = Circuit!Bump(streak)
      BY <1>3 DEF Bump, Circuit!Bump
    <2> QED
      BY <1>1, <2>1, <2>2 DEF Circuit!Finish, Circuit!Fail
  <1> QED
    BY <1>2, <1>3

\* A request Redis will hear no more of is abandoned, refused, or was never
\* known to it.
LEMMA VanishIsAllowed ==
  ASSUME NEW r \in Requests, TypeOK, SharedInv, Vanish(r)
  PROVE  \/ Circuit!Send503(r) \/ Circuit!Finish(r)
         \/ UNCHANGED <<shared, phase, probes, lost, streak>>
  <1> USE DEF Vanish, TypeOK, SharedInv
  <1>1. CASE phase[r] = "idle"
    <2>1. r \notin probes
      BY <1>1
    <2>2. phase' = phase /\ probes' = probes
      BY <1>1, <2>1
    <2>3. lost' = lost
      BY <2>1, Zenon
    <2> QED
      BY <2>2, <2>3
  <1>2. CASE phase[r] = "rejected"
    <2>1. r \notin probes
      BY <1>2
    <2>2. probes' = probes
      BY <2>1
    <2>3. lost' = lost
      BY <2>1, Zenon
    <2> QED
      BY <1>2, <2>2, <2>3 DEF Circuit!Send503, Circuit!circuit
  <1>3. CASE phase[r] \in {"normal", "probe"}
    BY <1>3 DEF Circuit!Finish, Circuit!Abandon, Circuit!Forwarded, Circuit!circuit
  <1> QED
    BY <1>1, <1>2, <1>3

\* Every step is one of the circuit, or none.
LEMMA StepImplemented == TypeOK /\ SharedInv /\ [Next]_vars => [Circuit!Next]_(Circuit!vars)
  <1> SUFFICES ASSUME TypeOK, SharedInv, [Next]_vars
               PROVE  Circuit!Next \/ UNCHANGED Circuit!vars
    OBVIOUS
  <1>1. ASSUME UNCHANGED redisView PROVE UNCHANGED Circuit!vars
    BY <1>1 DEF redisView, Circuit!vars
  <1>2. ASSUME NEW r \in Requests, Vanish(r) PROVE Circuit!Next \/ UNCHANGED Circuit!vars
    <2>1. CASE UNCHANGED <<shared, phase, probes, lost, streak>>
      BY <1>1, <2>1 DEF redisView
    <2> QED
      BY <1>2, <2>1, VanishIsAllowed DEF Circuit!Next
  <1>3. ASSUME NEW r \in Requests, Arrive(r) \/ Connect(r) \/ CheckReply(r) \/ RecordReply(r)
        PROVE  UNCHANGED redisView
    BY <1>3 DEF Arrive, Connect, CheckReply, RecordReply, redisView
  <1>4. ASSUME NEW r \in Requests, RunCheck(r) PROVE Circuit!Next
    BY <1>4, CheckIsEnter DEF Circuit!Next
  <1>5. ASSUME NEW r \in Requests, RunRecord(r) PROVE Circuit!Next
    BY <1>5, RecordIsFinish DEF Circuit!Next
  <1>6. ASSUME NEW r \in Requests,
               CheckFails(r) \/ Send503(r) \/ RecordFails(r) \/ Abandon(r)
        PROVE  Vanish(r)
    BY <1>6 DEF CheckFails, Send503, RecordFails, Abandon
  <1>7. ASSUME NEW r \in Requests, InnerEnds(r) PROVE Vanish(r) \/ UNCHANGED redisView
    BY <1>7 DEF InnerEnds
  <1>8. ASSUME NEW p \in Processes, Restart(p) \/ LocalRecovers(p) PROVE UNCHANGED redisView
    BY <1>8 DEF Restart, LocalRecovers
  <1>9. CASE SharedRecovers
    <2>1. Circuit!RecoveryElapses
      BY <1>9 DEF SharedRecovers, TypeOK, Circuits, Circuit!RecoveryElapses
    <2> QED
      BY <2>1 DEF Circuit!Next
  <1>10. CASE UNCHANGED vars
    BY <1>1, <1>10 DEF vars
  <1> QED
    BY <1>1, <1>2, <1>3, <1>4, <1>5, <1>6, <1>7, <1>8, <1>9, <1>10 DEF Next

\* The Redis hash is a circuit breaker of one process: every script is an atomic
\* admission or outcome of CircuitBreaker, and a failure of Redis, a crash or a
\* restart of a process in between is at most an abandoned request.
THEOREM CircuitImplemented == Spec => ImplementsCircuit
  <1>1. Init => Circuit!Init
    BY DEF Init, Fresh, Circuit!Init
  <1>2. IInv /\ [Next]_vars => [Circuit!Next]_(Circuit!vars)
    BY StepImplemented DEF IInv
  <1> QED
    BY Invariance, <1>1, <1>2, PTL DEF Spec, ImplementsCircuit, Circuit!Spec
=============================================================================
