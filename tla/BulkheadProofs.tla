--------------------------- MODULE BulkheadProofs ---------------------------
(***************************************************************************)
(* Theorems about Bulkhead, whichever of its backends it has, for every    *)
(* finite set of callers, calls and leases and every limit.                *)
(*                                                                         *)
(* In this process, NoSlotLost is inductive but for what connects a call's *)
(* future with where it is, which LocalOK adds: a future exists while its  *)
(* call waits, and a cancelled one belongs to a call that will not go      *)
(* inside.  In which order futures are granted does not matter.            *)
(*                                                                         *)
(* In Redis, WithinLimit is not inductive: HLEN counts fields, not calls.  *)
(* RedisIInv says that every lease a call knows of, once lease_ttl has     *)
(* caught up with it or not, is no other call's, and that a lease which is *)
(* not old is a field of the hash and not among those a reaper has         *)
(* collected.  The punctual calls then inject into the hash the pipeline   *)
(* has counted.                                                            *)
(*                                                                         *)
(* Of the token stacks, Separate says that a list with tokens is its       *)
(* task's alone unless tasks were spawned inside a block, and a pigeonhole *)
(* that there always is a dict nobody refers to.                           *)
(***************************************************************************)
EXTENDS Bulkhead, BulkheadTokens, FiniteSetTheorems, TLAPS

\* A bulkhead whose backend is the other one leaves the semaphore alone.
LEMMA LocalPart == BulkheadSpec => LocalSpec
  <1>1. BulkheadInit => LocalInit
    BY DEF BulkheadInit
  <1>2. [Local \/ Redis]_bulkheadVars => [LocalNext]_localVars
    BY DEF Local, Redis, bulkheadVars
  <1> QED
    BY <1>1, <1>2, PTL DEF BulkheadSpec, LocalSpec

\* Nor does the semaphore touch the leases.
LEMMA RedisPart == BulkheadSpec => Spec
  <1>1. BulkheadInit => Init
    BY DEF BulkheadInit
  <1>2. [Local \/ Redis]_bulkheadVars => [Next]_vars
    BY DEF Local, Redis, bulkheadVars
  <1> QED
    BY <1>1, <1>2, PTL DEF BulkheadSpec, Spec

-----------------------------------------------------------------------------
(* The semaphore of this process                                           *)

LocalOK ==
    /\ limit \in Limits \cup {0}
    /\ value \in Nat
    /\ fut \in [Callers -> {"none", "pending", "granted", "cancelled"}]
    /\ why \in [Callers -> {"no", "timeout", "cancel"}]
    /\ at \in [Callers -> {"idle", "waiting", "inside", "full"}]
    /\ \A c \in Callers :
          /\ fut[c] # "none" <=> at[c] = "waiting"
          /\ fut[c] = "cancelled" => why[c] # "no"
          /\ why[c] # "no" => at[c] = "waiting"
          /\ limit = 0 => at[c] # "waiting"

LocalIInv == LocalOK /\ NoSlotLost

\* No bulkhead and no calls satisfy the inductive invariant.
LEMMA LocalInitIInv == LocalInit => LocalIInv
  <1> SUFFICES ASSUME LocalInit PROVE LocalIInv
    OBVIOUS
  <1> USE DEF LocalInit
  <1>1. LocalOK
    BY DEF LocalOK
  <1>2. Running = {} /\ Granted = {} /\ Pending = {}
    BY DEF Running, LocalAt, Granted, Pending
  <1>3. Cardinality({}) = 0
    BY FS_EmptySet
  <1> QED
    BY <1>1, <1>2, <1>3 DEF LocalIInv, NoSlotLost

\* The sets that are counted are finite.
LEMMA Counts ==
  /\ IsFiniteSet(Running) /\ Cardinality(Running) \in Nat
  /\ IsFiniteSet(Granted) /\ Cardinality(Granted) \in Nat
  <1>1. Running \subseteq Callers /\ Granted \subseteq Callers
    BY DEF Running, LocalAt, Granted
  <1> QED
    BY <1>1, CallersAssumption, FS_Subset, FS_CardinalityType

\* Waking others moves slots from the count to futures, and stops only where
\* there are no more slots or no more futures to grant.
LEMMA WakeUpFacts ==
  ASSUME NEW v \in Nat, NEW queue,
         NEW f \in [Callers -> {"none", "pending", "granted", "cancelled"}],
         WakeUp(v, queue, f)
  PROVE  /\ value' \in Nat
         /\ fut' \in [Callers -> {"none", "pending", "granted", "cancelled"}]
         /\ \A c \in Callers : fut'[c] # f[c] => f[c] = "pending" /\ fut'[c] = "granted"
         /\ value' + Cardinality(Granted')
              = v + Cardinality({c \in Callers : f[c] = "granted"})
         /\ value' > 0 => Pending' = {}
  <1> DEFINE pending == {c \in Callers : f[c] = "pending"}
             granted == {c \in Callers : f[c] = "granted"}
             left == Cardinality(pending)
  <1>1. PICK chosen \in SUBSET pending :
            /\ Cardinality(chosen) = IF v < left THEN v ELSE left
            /\ value' = v - Cardinality(chosen)
            /\ fut' = [c \in Callers |-> IF c \in chosen THEN "granted" ELSE f[c]]
    BY DEF WakeUp
  <1>2. IsFiniteSet(pending) /\ IsFiniteSet(granted) /\ IsFiniteSet(chosen)
    <2>1. pending \subseteq Callers /\ granted \subseteq Callers /\ chosen \subseteq Callers
      OBVIOUS
    <2> QED
      BY <2>1, CallersAssumption, FS_Subset
  <1>3. left \in Nat /\ Cardinality(granted) \in Nat /\ Cardinality(chosen) \in Nat
    BY <1>2, FS_CardinalityType
  <1>4. Cardinality(granted \cup chosen) = Cardinality(granted) + Cardinality(chosen)
    <2>1. granted \cap chosen = {}
      OBVIOUS
    <2>2. Cardinality(granted \cap chosen) = 0
      BY <2>1, FS_EmptySet
    <2>3. Cardinality(granted \cup chosen)
            = Cardinality(granted) + Cardinality(chosen) - Cardinality(granted \cap chosen)
      BY <1>2, FS_Union
    <2> QED
      BY <2>2, <2>3, <1>3
  <1>5. Granted' = granted \cup chosen
    BY <1>1 DEF Granted
  <1>6. value' > 0 => Pending' = {}
    <2> SUFFICES ASSUME value' > 0 PROVE Pending' = {}
      OBVIOUS
    <2>1. Cardinality(chosen) = left
      BY <1>1, <1>3
    <2>2. chosen = pending
      BY <2>1, <1>2, FS_Subset
    <2> QED
      BY <1>1, <2>2 DEF Pending
  <1>7. value' \in Nat /\ value' + Cardinality(chosen) = v
    BY <1>1, <1>3
  <1> QED
    BY <1>1, <1>3, <1>4, <1>5, <1>6, <1>7

\* A call that gives a limit finds as many slots, counted and given away, as
\* that limit says; and nobody waits or is inside if it is the first.
LEMMA Registered ==
  ASSUME LocalIInv, NEW l \in Limits, Register(l)
  PROVE  /\ l \in Nat \ {0} /\ limit' = l
         /\ Slots(l) \in Nat
         /\ Slots(l) + Cardinality(Running) + Cardinality(Granted) = l
         /\ limit = 0 => \A c \in Callers : at[c] # "waiting"
  <1> USE DEF LocalIInv, LocalOK, Register, Slots
  <1>1. l \in Nat \ {0} /\ limit' = l
    BY LimitsAssumption
  <1>2. /\ value + Cardinality(Running) + Cardinality(Granted) = limit
        /\ value \in Nat /\ limit \in {0, l}
    BY DEF NoSlotLost
  <1>3. CASE limit = 0
    <2>1. Cardinality(Running) = 0 /\ Cardinality(Granted) = 0
      BY <1>2, <1>3, Counts
    <2> QED
      BY <1>1, <1>3, <2>1
  <1>4. CASE limit = l
    BY <1>1, <1>2, <1>4
  <1> QED
    BY <1>1, <1>2, <1>3, <1>4

\* acquire() without waiting: a slot of the count goes to the call.
LEMMA AcquireStep ==
  ASSUME LocalIInv, NEW c \in Callers, NEW l \in Limits, Acquire(c, l)
  PROVE  LocalIInv' /\ Running' = Running \cup {c} /\ c \notin Running
         /\ Cardinality(Running) < limit'
  <1> USE DEF LocalIInv, Acquire
  <1>1. /\ l \in Nat \ {0} /\ limit' = l
        /\ Slots(l) \in Nat
        /\ Slots(l) + Cardinality(Running) + Cardinality(Granted) = l
        /\ limit = 0 => \A d \in Callers : at[d] # "waiting"
    BY Registered
  <1>2. /\ Slots(l) # 0
        /\ \A d \in Callers : fut[d] \notin {"pending", "granted"}
    BY DEF Locked
  <1>3. value' \in Nat /\ value' = Slots(l) - 1
    BY <1>1, <1>2
  <1>4. LocalOK'
    BY <1>1, <1>3 DEF LocalOK
  <1>5. Running' = Running \cup {c} /\ c \notin Running
    BY DEF LocalOK, Running, LocalAt
  <1>6. Cardinality(Running') = Cardinality(Running) + 1
    BY <1>5, Counts, FS_AddElement
  <1>7. Granted' = Granted /\ Pending' = {}
    BY <1>2 DEF Granted, Pending
  <1>8. NoSlotLost'
    BY <1>1, <1>3, <1>6, <1>7, Counts DEF NoSlotLost
  <1> QED
    BY <1>1, <1>2, <1>4, <1>5, <1>8, Counts

\* A call that has to wait finds somebody to hand it a slot.
LEMMA EnqueueStep ==
  ASSUME LocalIInv, NEW c \in Callers, NEW l \in Limits, Enqueue(c, l)
  PROVE  LocalIInv' /\ Running' = Running /\ limit' = limit
  <1> USE DEF LocalIInv, Enqueue
  <1>1. /\ l \in Nat \ {0} /\ limit' = l
        /\ Slots(l) \in Nat
        /\ Slots(l) + Cardinality(Running) + Cardinality(Granted) = l
        /\ limit = 0 => \A d \in Callers : at[d] # "waiting"
    BY Registered
  <1>2. limit = l
    <2> SUFFICES ASSUME limit = 0 PROVE FALSE
      BY DEF Register
    <2>1. PICK d \in Callers : fut[d] \in {"pending", "granted"}
      BY <1>1 DEF Locked, Slots
    <2> QED
      BY <1>1, <2>1 DEF LocalOK
  <1>3. Slots(l) = value /\ value' = value
    BY <1>1, <1>2 DEF Slots
  <1>4. LocalOK'
    BY <1>1, <1>2, <1>3 DEF LocalOK
  <1>5. Running' = Running /\ Granted' = Granted
    BY DEF LocalOK, Running, LocalAt, Granted
  <1>6. value > 0 => \E d \in Callers : at[d] = "waiting" /\ fut[d] \in {"granted", "cancelled"}
    <2> SUFFICES ASSUME value > 0
                 PROVE  \E d \in Callers : at[d] = "waiting" /\ fut[d] \in {"granted", "cancelled"}
      OBVIOUS
    <2>1. PICK d \in Callers : fut[d] \in {"pending", "granted"}
      BY <1>3 DEF Locked
    <2>2. CASE fut[d] = "granted"
      BY <2>2 DEF LocalOK
    <2>3. CASE fut[d] = "pending"
      BY <2>3 DEF NoSlotLost, Pending
    <2> QED
      BY <2>1, <2>2, <2>3
  <1>7. value' > 0 =>
          \E d \in Callers : at'[d] = "waiting" /\ fut'[d] \in {"granted", "cancelled"}
    <2>1. \A d \in Callers : at[d] = "waiting" => d # c
      OBVIOUS
    <2> QED
      BY <1>3, <1>6, <2>1 DEF LocalOK
  <1>8. NoSlotLost'
    BY <1>1, <1>2, <1>3, <1>5, <1>7 DEF NoSlotLost
  <1> QED
    BY <1>1, <1>2, <1>4, <1>5, <1>8

\* What interrupts a waiting call leaves a slot that it was handed with it.
LEMMA InterruptStep ==
  ASSUME LocalIInv, NEW c \in Callers, NEW reason \in {"timeout", "cancel"}, Interrupt(c, reason)
  PROVE  LocalIInv' /\ Running' = Running /\ limit' = limit
  <1> USE DEF LocalIInv, Interrupt
  <1>1. LocalOK'
    BY DEF LocalOK
  <1>2. Running' = Running /\ Granted' = Granted
    BY DEF LocalOK, Running, LocalAt, Granted
  <1>3. value' > 0 /\ Pending' # {} =>
          \E d \in Callers : at'[d] = "waiting" /\ fut'[d] \in {"granted", "cancelled"}
    <2>1. fut'[c] \in {"granted", "cancelled"} /\ at'[c] = "waiting"
      BY DEF LocalOK
    <2> QED
      BY <2>1
  <1>4. NoSlotLost'
    BY <1>2, <1>3 DEF NoSlotLost
  <1> QED
    BY <1>1, <1>2, <1>4

\* acquire() resumes: the call goes inside with the slot it was handed, or
\* gives it back; what slots there are go to others that wait.
LEMMA ResumeStep ==
  ASSUME LocalIInv, NEW c \in Callers, Resume(c)
  PROVE  /\ LocalIInv' /\ limit' = limit
         /\ \/ Running' = Running
            \/ /\ Running' = Running \cup {c} /\ c \notin Running
               /\ Cardinality(Running) < limit
  <1> USE DEF LocalIInv, Resume
  <1> DEFINE f == [fut EXCEPT ![c] = "none"]
             v == GiveBack(c)
             granted == {d \in Callers : f[d] = "granted"}
  <1>1. v \in Nat /\ f \in [Callers -> {"none", "pending", "granted", "cancelled"}]
    BY DEF LocalOK, GiveBack
  <1>2. WakeUp(v, waiters', f)
    OBVIOUS
  <1> HIDE DEF f, v
  <1>3. /\ value' \in Nat
        /\ fut' \in [Callers -> {"none", "pending", "granted", "cancelled"}]
        /\ \A d \in Callers : fut'[d] # f[d] => f[d] = "pending" /\ fut'[d] = "granted"
        /\ value' + Cardinality(Granted') = v + Cardinality(granted)
        /\ value' > 0 => Pending' = {}
    BY <1>1, <1>2, WakeUpFacts
  <1>4. \A d \in Callers : f[d] = IF d = c THEN "none" ELSE fut[d]
    BY DEF f, LocalOK
  <1>5. LocalOK'
    <2>1. at' = [at EXCEPT ![c] = CASE why[c] = "no" -> "inside"
                                    [] why[c] = "timeout" -> "full"
                                    [] why[c] = "cancel" -> "idle"]
      OBVIOUS
    <2>2. /\ at' \in [Callers -> {"idle", "waiting", "inside", "full"}]
          /\ at'[c] # "waiting" /\ \A d \in Callers \ {c} : at'[d] = at[d]
      BY <2>1 DEF LocalOK
    <2>3. /\ why' \in [Callers -> {"no", "timeout", "cancel"}]
          /\ why'[c] = "no" /\ \A d \in Callers \ {c} : why'[d] = why[d]
      BY DEF LocalOK
    <2>4. limit' = limit
      OBVIOUS
    <2>5. ASSUME NEW d \in Callers
          PROVE  /\ fut'[d] # "none" <=> at'[d] = "waiting"
                 /\ fut'[d] = "cancelled" => why'[d] # "no"
                 /\ why'[d] # "no" => at'[d] = "waiting"
                 /\ limit' = 0 => at'[d] # "waiting"
      BY <1>3, <1>4, <2>2, <2>3, <2>4 DEF LocalOK
    <2> QED
      BY <1>3, <2>2, <2>3, <2>4, <2>5 DEF LocalOK
  <1>6. granted = Granted \ {c}
    BY <1>4 DEF Granted
  <1>7. /\ c \notin Running /\ fut[c] \in {"granted", "cancelled"}
        /\ Running' = IF why[c] = "no" THEN Running \cup {c} ELSE Running
    BY DEF Running, LocalAt, LocalOK
  <1>8. /\ value + Cardinality(Running) + Cardinality(Granted) = limit
        /\ value \in Nat /\ limit' = limit
    BY DEF NoSlotLost, LocalOK
  <1>9. Cardinality(granted) = IF c \in Granted THEN Cardinality(Granted) - 1 ELSE Cardinality(Granted)
    BY <1>6, Counts, FS_RemoveElement
  <1>10. Cardinality(Running \cup {c}) = Cardinality(Running) + 1
    BY <1>7, Counts, FS_AddElement
  <1>11. Cardinality(granted) \in Nat /\ Cardinality(Granted') \in Nat
    <2>1. granted \subseteq Callers /\ Granted' \subseteq Callers
      BY DEF Granted
    <2> QED
      BY <2>1, CallersAssumption, FS_Subset, FS_CardinalityType
  <1> HIDE DEF granted
  <1>12. CASE why[c] = "no"
    <2>1. c \in Granted /\ v = value
      BY <1>7, <1>12 DEF v, GiveBack, Granted, LocalOK
    <2>2. Cardinality(Granted) # 0
      BY <2>1, Counts, FS_EmptySet
    <2>3. Cardinality(Running) < limit
      BY <1>8, <2>2, Counts
    <2>4. value' + Cardinality(Running') + Cardinality(Granted') = limit'
      <3>1. Cardinality(Running') = Cardinality(Running) + 1
        BY <1>7, <1>10, <1>12
      <3>2. Cardinality(granted) = Cardinality(Granted) - 1
        BY <1>9, <2>1
      <3>3. value' + Cardinality(Granted') = value + Cardinality(granted) /\ value' \in Nat
        BY <1>3, <2>1
      <3> HIDE DEF LocalIInv, Resume
      <3> QED
        BY <1>8, <1>11, <3>1, <3>2, <3>3, Counts
    <2>5. NoSlotLost'
      BY <1>3, <2>4 DEF NoSlotLost
    <2> QED
      BY <1>5, <1>7, <1>8, <1>12, <2>3, <2>5
  <1>13. CASE why[c] # "no"
    <2>1. v = IF c \in Granted THEN value + 1 ELSE value
      BY <1>13 DEF v, GiveBack, Granted
    <2>2. value' + Cardinality(Running') + Cardinality(Granted') = limit'
      <3>1. Cardinality(Running') = Cardinality(Running)
        BY <1>7, <1>13
      <3>2. v + Cardinality(granted) = value + Cardinality(Granted)
        <4>1. CASE c \in Granted
          BY <1>8, <1>9, <1>11, <2>1, <4>1, Counts
        <4>2. CASE c \notin Granted
          BY <1>9, <2>1, <4>2
        <4> QED
          BY <4>1, <4>2
      <3>3. value' + Cardinality(Granted') = v + Cardinality(granted) /\ value' \in Nat
        BY <1>3
      <3> HIDE DEF LocalIInv, Resume
      <3> QED
        BY <1>8, <1>11, <3>1, <3>2, <3>3, Counts
    <2>3. NoSlotLost'
      BY <1>3, <2>2 DEF NoSlotLost
    <2> QED
      BY <1>5, <1>7, <1>8, <1>13, <2>3
  <1> QED
    BY <1>12, <1>13

\* Leaving hands the slot to one that waits, or adds it to the count.
LEMMA ExitStep ==
  ASSUME LocalIInv, NEW c \in Callers, Exit(c)
  PROVE  LocalIInv' /\ Running' = Running \ {c} /\ c \in Running /\ limit' = limit
  <1> USE DEF LocalIInv, Exit
  <1>1. Running' = Running \ {c} /\ c \in Running
    BY DEF Running, LocalAt, LocalOK
  <1>2. Cardinality(Running') = Cardinality(Running) - 1
    BY <1>1, Counts, FS_RemoveElement
  <1>3. /\ value + Cardinality(Running) + Cardinality(Granted) = limit
        /\ value \in Nat /\ limit' = limit
    BY DEF NoSlotLost, LocalOK
  <1>4. CASE Pending = {} /\ value' = value + 1 /\ UNCHANGED fut
    <2>1. LocalOK'
      BY <1>4 DEF LocalOK
    <2>2. Granted' = Granted /\ Pending' = {}
      BY <1>4 DEF Granted, Pending
    <2>3. NoSlotLost'
      BY <1>2, <1>3, <1>4, <2>2, Counts DEF NoSlotLost
    <2> QED
      BY <1>1, <1>3, <2>1, <2>3
  <1>5. ASSUME NEW first \in Pending, fut' = [fut EXCEPT ![first] = "granted"], UNCHANGED value
        PROVE  LocalIInv'
    <2>1. first \in Callers /\ fut[first] = "pending" /\ first \notin Granted
      BY DEF Pending, Granted
    <2>2. at[first] = "waiting" /\ first # c
      BY <2>1 DEF LocalOK
    <2>3. LocalOK'
      BY <1>5, <2>1, <2>2 DEF LocalOK
    <2>4. Granted' = Granted \cup {first}
      BY <1>5, <2>1 DEF Granted, LocalOK
    <2>5. Cardinality(Granted') = Cardinality(Granted) + 1
      BY <2>1, <2>4, Counts, FS_AddElement
    <2>6. at'[first] = "waiting" /\ fut'[first] \in {"granted", "cancelled"}
      BY <1>5, <2>1, <2>2 DEF LocalOK
    <2>7. value' + Cardinality(Running') + Cardinality(Granted') = limit'
      BY <1>2, <1>3, <1>5, <2>5, Counts
    <2> QED
      BY <2>1, <2>3, <2>6, <2>7 DEF NoSlotLost
  <1>6. \/ Pending = {} /\ value' = value + 1 /\ UNCHANGED fut
        \/ \E first \in Pending : fut' = [fut EXCEPT ![first] = "granted"] /\ UNCHANGED value
    BY DEF Hand
  <1> QED
    BY <1>1, <1>3, <1>4, <1>5, <1>6

\* A refusal changes nothing that is counted.
LEMMA RejectStep ==
  ASSUME LocalIInv, NEW c \in Callers, Reject(c)
  PROVE  LocalIInv' /\ Running' = Running /\ limit' = limit
  <1> USE DEF LocalIInv, Reject
  <1>1. LocalOK'
    BY DEF LocalOK
  <1>2. Running' = Running /\ Granted' = Granted /\ Pending' = Pending
    BY DEF LocalOK, Running, LocalAt, Granted, Pending
  <1>3. \A d \in Callers : at[d] = "waiting" => at'[d] = "waiting" /\ fut'[d] = fut[d]
    BY DEF LocalOK
  <1>4. NoSlotLost'
    BY <1>2, <1>3 DEF NoSlotLost
  <1> QED
    BY <1>1, <1>2, <1>4

-----------------------------------------------------------------------------
\* Every step preserves the inductive invariant and is a step of the pool, or
\* one the pool does not see.
LEMMA LocalStep ==
  ASSUME LocalIInv, [LocalNext]_localVars
  PROVE  LocalIInv' /\ [LocalPool!Next]_<<Running, limit>>
  <1> USE DEF LocalPool!Next
  <1>0. LocalPool!Cardinality(Running) = Cardinality(Running)
    BY DEF LocalPool!Cardinality, Cardinality
  <1>1. ASSUME NEW c \in Callers, NEW l \in Limits, Acquire(c, l)
        PROVE  LocalIInv' /\ LocalPool!Acquire(c)
    <2>1. limit \in {0, l} /\ limit' = l
      BY <1>1 DEF Acquire, Register
    <2>2. limit' \in LocalPool!Created
      BY <2>1 DEF LocalPool!Created
    <2> QED
      BY <1>0, <1>1, <2>2, AcquireStep DEF LocalPool!Acquire
  <1>2. ASSUME NEW c \in Callers, NEW l \in Limits, Enqueue(c, l)
        PROVE  LocalIInv' /\ UNCHANGED <<Running, limit>>
    BY <1>2, EnqueueStep
  <1>3. ASSUME NEW c \in Callers, NEW reason \in {"timeout", "cancel"}, Interrupt(c, reason)
        PROVE  LocalIInv' /\ UNCHANGED <<Running, limit>>
    BY <1>3, InterruptStep
  <1>4. ASSUME NEW c \in Callers, Resume(c)
        PROVE  LocalIInv' /\ (LocalPool!Acquire(c) \/ UNCHANGED <<Running, limit>>)
    <2>1. CASE Running' = Running
      BY <1>4, <2>1, ResumeStep
    <2>2. CASE Running' # Running
      <3>1. LocalIInv' /\ limit' = limit
        BY <1>4, ResumeStep
      <3>2. Running' = Running \cup {c} /\ c \notin Running /\ Cardinality(Running) < limit
        BY <1>4, <2>2, ResumeStep
      <3>3. limit \in Nat
        BY LimitsAssumption DEF LocalIInv, LocalOK
      <3>4. limit # 0
        BY <3>2, <3>3, Counts
      <3>5. limit' \in LocalPool!Created
        BY <3>1, <3>4 DEF LocalPool!Created
      <3> QED
        BY <1>0, <3>1, <3>2, <3>5 DEF LocalPool!Acquire
    <2> QED
      BY <2>1, <2>2
  <1>5. ASSUME NEW c \in Callers, Reject(c)
        PROVE  LocalIInv' /\ UNCHANGED <<Running, limit>>
    BY <1>5, RejectStep
  <1>6. ASSUME NEW c \in Callers, Exit(c)
        PROVE  LocalIInv' /\ LocalPool!Release(c)
    BY <1>6, ExitStep DEF LocalPool!Release
  <1>7. CASE UNCHANGED localVars
    <2>1. UNCHANGED <<Running, Granted, Pending, limit>>
      BY <1>7 DEF localVars, Running, LocalAt, Granted, Pending
    <2> QED
      BY <1>7, <2>1 DEF LocalIInv, LocalOK, NoSlotLost, localVars
  <1>8. CASE LocalNext
    <2>1. PICK c \in Callers :
             \/ \E l \in Limits : Acquire(c, l) \/ Enqueue(c, l)
             \/ \E reason \in {"timeout", "cancel"} : Interrupt(c, reason)
             \/ Resume(c) \/ Reject(c) \/ Exit(c)
      BY <1>8 DEF LocalNext
    <2> QED
      BY <1>1, <1>2, <1>3, <1>4, <1>5, <1>6, <2>1
  <1> QED
    BY <1>7, <1>8

\* What the other theorems rest on: the inductive invariant always holds.
THEOREM LocalInvariance == LocalSpec => []LocalIInv
  <1>1. LocalInit => LocalIInv
    BY LocalInitIInv
  <1>2. LocalIInv /\ [LocalNext]_localVars => LocalIInv'
    BY LocalStep
  <1> QED
    BY <1>1, <1>2, PTL DEF LocalSpec

\* However timeouts and cancellations race the hand-over of a slot, acquire()
\* and release() of the local backend neither lose a slot nor make one, and
\* no free slot is forgotten while a call waits for one.
THEOREM SlotsKept == BulkheadSpec => []NoSlotLost
  <1>1. LocalIInv => NoSlotLost
    BY DEF LocalIInv
  <1> QED
    BY <1>1, LocalPart, LocalInvariance, PTL

\* The local backend is a pool: never more calls inside the protected block
\* than the limit that the first of them gave, which no later call changes.
THEOREM LocalPoolImplemented == BulkheadSpec => ImplementsLocalPool
  <1>1. LocalInit => LocalPool!Init
    <2> SUFFICES ASSUME LocalInit PROVE LocalPool!Init
      OBVIOUS
    <2>1. Running = {} /\ limit = 0
      BY DEF LocalInit, Running, LocalAt
    <2> QED
      BY <2>1 DEF LocalPool!Init
  <1>2. LocalIInv /\ [LocalNext]_localVars => [LocalPool!Next]_<<Running, limit>>
    BY LocalStep
  <1> QED
    BY <1>1, <1>2, LocalPart, LocalInvariance, PTL DEF LocalSpec, ImplementsLocalPool, LocalPool!Spec

-----------------------------------------------------------------------------
(* The leases in Redis                                                     *)

Knows(c) == lease[c] # NoLease

LeasesKept ==
    \A c \in Calls : Knows(c) /\ lease[c] \notin old =>
        lease[c] \in hash /\ lease[c] \notin stale

LeasesDistinct ==
    \A c, d \in Calls : Knows(c) /\ lease[c] = lease[d] => c = d

RedisIInv ==
    /\ TypeOK
    /\ LeasesKept
    /\ LeasesDistinct
    /\ Cardinality(Punctual) <= Limit

\* The empty hash satisfies the inductive invariant.
LEMMA RedisInitIInv == Init => RedisIInv
  <1> SUFFICES ASSUME Init PROVE RedisIInv
    OBVIOUS
  <1>1. Punctual = {}
    BY DEF Init, Punctual, Inside, At
  <1>2. Cardinality(Punctual) <= Limit
    BY <1>1, FS_EmptySet, LimitAssumption
  <1>3. TypeOK
    BY DEF Init, TypeOK
  <1> QED
    BY <1>2, <1>3 DEF Init, RedisIInv, LeasesKept, LeasesDistinct, Knows

\* Every step preserves the ranges, and that a call knows a lease exactly
\* while it has written one and not deleted it.
LEMMA TypeStep == TypeOK /\ [Next]_vars => TypeOK'
  <1> SUFFICES ASSUME TypeOK, [Next]_vars PROVE TypeOK'
    OBVIOUS
  <1> USE DEF TypeOK
  <1>1. ASSUME NEW c \in Calls, Attempt(c) PROVE TypeOK'
    <2>1. PICK l \in Fresh : /\ hash' = hash \cup {l}
                             /\ lease' = [lease EXCEPT ![c] = l]
                             /\ old' = old \ {l}
      BY <1>1 DEF Attempt
    <2>2. l \in Leases /\ l # NoLease
      BY LeasesAssumption DEF Fresh
    <2>3. /\ pc' = [pc EXCEPT ![c] = IF Fits(hash') THEN "admitted" ELSE "refused"]
          /\ stale' = stale
      BY <1>1 DEF Attempt
    <2> QED
      BY <2>1, <2>2, <2>3
  <1>2. ASSUME NEW c \in Calls, Return(c) PROVE TypeOK'
    BY <1>2 DEF Return
  <1>3. ASSUME NEW c \in Calls, RollBack(c) PROVE TypeOK'
    <2>1. PICK next \in {"polling", "idle"} : pc' = [pc EXCEPT ![c] = next]
      BY <1>3 DEF RollBack
    <2> QED
      BY <1>3, <2>1 DEF RollBack, Withdraw, Forget
  <1>4. ASSUME NEW c \in Calls, GiveUp(c) PROVE TypeOK'
    BY <1>4 DEF GiveUp
  <1>5. ASSUME NEW c \in Calls, Release(c) PROVE TypeOK'
    BY <1>5 DEF Release, Withdraw, Forget
  <1>6. ASSUME NEW c \in Calls, Die(c) PROVE TypeOK'
    BY <1>6 DEF Die, Forget
  <1>7. ASSUME NEW l \in Leases, Age(l) PROVE TypeOK'
    BY <1>7 DEF Age
  <1>8. CASE KeyExpires
    BY <1>8 DEF KeyExpires
  <1>9. CASE ReapScan
    BY <1>9 DEF ReapScan, Reapable
  <1>10. CASE ReapDelete
    BY <1>10 DEF ReapDelete, Reaped
  <1>11. CASE UNCHANGED vars
    BY <1>11 DEF vars
  <1> QED
    BY <1>1, <1>2, <1>3, <1>4, <1>5, <1>6, <1>7, <1>8, <1>9, <1>10, <1>11 DEF Next

\* The leases calls know of stay distinct and, until they are old, in the
\* hash and out of the reaper's hands.
LEMMA LeasesStep ==
  ASSUME TypeOK, LeasesKept, LeasesDistinct, [Next]_vars
  PROVE  LeasesKept' /\ LeasesDistinct'
  <1> USE DEF TypeOK, LeasesKept, LeasesDistinct, Knows
  <1>1. ASSUME NEW c \in Calls, Attempt(c) PROVE LeasesKept' /\ LeasesDistinct'
    <2>1. PICK l \in Fresh : /\ hash' = hash \cup {l}
                             /\ lease' = [lease EXCEPT ![c] = l]
                             /\ old' = old \ {l}
      BY <1>1 DEF Attempt
    <2>2. l \notin stale /\ stale' = stale /\ \A d \in Calls : lease[d] # l
      BY <1>1 DEF Attempt, Fresh, Owned
    <2> QED
      BY <2>1, <2>2
  <1>2. ASSUME NEW c \in Calls, Return(c) PROVE LeasesKept' /\ LeasesDistinct'
    BY <1>2 DEF Return
  <1>3. ASSUME NEW c \in Calls, RollBack(c) PROVE LeasesKept' /\ LeasesDistinct'
    BY <1>3 DEF RollBack, Withdraw, Forget
  <1>4. ASSUME NEW c \in Calls, GiveUp(c) PROVE LeasesKept' /\ LeasesDistinct'
    BY <1>4 DEF GiveUp
  <1>5. ASSUME NEW c \in Calls, Release(c) PROVE LeasesKept' /\ LeasesDistinct'
    BY <1>5 DEF Release, Withdraw, Forget
  <1>6. ASSUME NEW c \in Calls, Die(c) PROVE LeasesKept' /\ LeasesDistinct'
    BY <1>6 DEF Die, Forget
  <1>7. ASSUME NEW l \in Leases, Age(l) PROVE LeasesKept' /\ LeasesDistinct'
    BY <1>7 DEF Age, Owned
  <1>8. CASE KeyExpires
    BY <1>8 DEF KeyExpires
  <1>9. CASE ReapScan
    BY <1>9 DEF ReapScan, Reapable
  <1>10. CASE ReapDelete
    BY <1>10 DEF ReapDelete, Reaped
  <1>11. CASE UNCHANGED vars
    BY <1>11 DEF vars
  <1> QED
    BY <1>1, <1>2, <1>3, <1>4, <1>5, <1>6, <1>7, <1>8, <1>9, <1>10, <1>11 DEF Next

\* The punctual calls inject into the hash, so they are no more than its
\* fields.
LEMMA PunctualFitsHash ==
  ASSUME TypeOK', LeasesKept', LeasesDistinct'
  PROVE  Cardinality(Punctual') <= Cardinality(hash')
  <1> DEFINE S == Punctual'
             T == hash'
             f == [c \in S |-> lease'[c]]
  <1>1. \A c \in S : c \in Calls /\ lease'[c] # NoLease /\ lease'[c] \notin old'
    BY DEF TypeOK, Punctual, Inside, At
  <1>2. f \in [S -> T]
    BY <1>1 DEF LeasesKept, Knows
  <1>3. \A c, d \in S : f[c] = f[d] => c = d
    BY <1>1 DEF LeasesDistinct, Knows
  <1>4. IsFiniteSet(T)
    BY FS_Subset, LeasesAssumption DEF TypeOK
  <1> HIDE DEF S, T, f
  <1>5. f \in Injection(S, T)
    BY <1>2, <1>3 DEF Injection, IsInjective
  <1>6. Cardinality(S) <= Cardinality(T)
    BY <1>4, <1>5, FS_Injection
  <1> QED
    BY <1>6 DEF S, T

\* What a step does to the punctual calls: it leaves them alone, lets in one
\* whose field fits, or takes one away, because the call ends or is late.
LEMMA PunctualMoves ==
  ASSUME TypeOK, TypeOK', LeasesDistinct, [Next]_vars
  PROVE  \/ Punctual' = Punctual
         \/ \E c \in Calls : /\ c \notin Punctual
                             /\ Punctual' = Punctual \cup {c}
                             /\ Fits(hash')
         \/ \E c \in Punctual : Punctual' = Punctual \ {c}
  <1> DEFINE Goal == \/ Punctual' = Punctual
                     \/ \E c \in Calls : /\ c \notin Punctual
                                         /\ Punctual' = Punctual \cup {c}
                                         /\ Fits(hash')
                     \/ \E c \in Punctual : Punctual' = Punctual \ {c}
  <1> USE DEF TypeOK, Punctual, Inside, At
  <1>1. ASSUME NEW c \in Calls, Attempt(c) PROVE Goal
    <2>1. PICK l \in Fresh : /\ lease' = [lease EXCEPT ![c] = l]
                             /\ old' = old \ {l}
      BY <1>1 DEF Attempt
    <2>2. \A d \in Calls : lease[d] # l
      BY DEF Fresh, Owned
    <2>3. c \notin Punctual
      BY <1>1 DEF Attempt
    <2>4. \A d \in Calls \ {c} : d \in Punctual' <=> d \in Punctual
      BY <1>1, <2>1, <2>2 DEF Attempt
    <2>5. CASE Fits(hash')
      <3>1. c \in Punctual'
        BY <1>1, <2>1, <2>5 DEF Attempt
      <3>2. Punctual' = Punctual \cup {c}
        BY <2>4, <3>1
      <3> QED
        BY <2>3, <2>5, <3>2
    <2>6. CASE ~Fits(hash')
      <3>1. c \notin Punctual'
        BY <1>1, <2>6 DEF Attempt
      <3>2. Punctual' = Punctual
        BY <2>3, <2>4, <3>1
      <3> QED
        BY <3>2
    <2> QED
      BY <2>5, <2>6
  <1>2. ASSUME NEW c \in Calls, Return(c) PROVE Punctual' = Punctual
    BY <1>2 DEF Return
  <1>3. ASSUME NEW c \in Calls, RollBack(c) PROVE Punctual' = Punctual
    BY <1>3 DEF RollBack, Forget
  <1>4. ASSUME NEW c \in Calls, GiveUp(c) PROVE Punctual' = Punctual
    BY <1>4 DEF GiveUp
  <1>5. ASSUME NEW c \in Calls, Release(c) \/ Die(c) PROVE Goal
    <2>1. Punctual' = Punctual \ {c}
      BY <1>5 DEF Release, Die, Forget
    <2> QED
      BY <2>1
  <1>6. ASSUME NEW l \in Leases, Age(l) PROVE Goal
    <2>1. Punctual' = {c \in Punctual : lease[c] # l}
      BY <1>6 DEF Age
    <2>2. CASE \E c \in Punctual : lease[c] = l
      <3>1. PICK c \in Punctual : lease[c] = l
        BY <2>2
      <3>2. \A d \in Punctual : lease[d] = l => d = c
        BY <3>1 DEF LeasesDistinct, Knows
      <3>3. Punctual' = Punctual \ {c}
        BY <2>1, <3>1, <3>2
      <3> QED
        BY <3>1, <3>3
    <2>3. CASE ~\E c \in Punctual : lease[c] = l
      BY <2>1, <2>3
    <2> QED
      BY <2>2, <2>3
  <1>7. CASE pc' = pc /\ lease' = lease /\ old' = old
    BY <1>7
  <1> QED
    BY <1>1, <1>2, <1>3, <1>4, <1>5, <1>6, <1>7
    DEF Next, KeyExpires, ReapScan, ReapDelete, vars

\* RedisIInv is inductive.
LEMMA RedisStep == RedisIInv /\ [Next]_vars => RedisIInv'
  <1> SUFFICES ASSUME RedisIInv, [Next]_vars PROVE RedisIInv'
    OBVIOUS
  <1>1. TypeOK /\ TypeOK'
    BY TypeStep DEF RedisIInv
  <1>2. LeasesKept' /\ LeasesDistinct'
    BY LeasesStep DEF RedisIInv
  <1>3. IsFiniteSet(Punctual) /\ IsFiniteSet(Punctual') /\ IsFiniteSet(hash')
    <2>1. Punctual \subseteq Calls /\ Punctual' \subseteq Calls /\ hash' \subseteq Leases
      BY <1>1 DEF Punctual, Inside, At, TypeOK
    <2> QED
      BY <2>1, FS_Subset, CallsAssumption, LeasesAssumption
  <1>4. /\ Cardinality(Punctual) \in Nat /\ Cardinality(Punctual') \in Nat
        /\ Cardinality(hash') \in Nat
    BY <1>3, FS_CardinalityType
  <1>5. CASE Punctual' \subseteq Punctual
    <2>1. Cardinality(Punctual') <= Cardinality(Punctual)
      BY <1>3, <1>5, FS_Subset
    <2> QED
      BY <1>1, <1>2, <1>4, <2>1, LimitAssumption DEF RedisIInv
  <1>6. CASE Fits(hash')
    <2>1. Cardinality(Punctual') <= Cardinality(hash')
      BY <1>1, <1>2, PunctualFitsHash
    <2> QED
      BY <1>1, <1>2, <1>4, <1>6, <2>1, LimitAssumption DEF Fits, RedisIInv
  <1>7. Punctual' \subseteq Punctual \/ Fits(hash')
    BY <1>1, PunctualMoves DEF RedisIInv
  <1> QED
    BY <1>5, <1>6, <1>7

\* RedisIInv holds of every reachable state.
THEOREM RedisInvariance == Spec => []RedisIInv
  BY RedisInitIInv, RedisStep, PTL DEF Spec

\* The variables keep their ranges, and a call knows of a lease exactly from
\* the pipeline that writes it to the HDEL that deletes it.
THEOREM TypeCorrect == BulkheadSpec => []TypeOK
  <1>1. RedisIInv => TypeOK
    BY DEF RedisIInv
  <1> QED
    BY <1>1, RedisPart, RedisInvariance, PTL

\* Only late calls exceed the distributed limit, whatever is reaped, expires
\* or dies and in whichever order.
THEOREM LimitHolds == BulkheadSpec => []WithinLimit
  <1>1. RedisIInv => WithinLimit
    BY DEF RedisIInv, WithinLimit
  <1> QED
    BY <1>1, RedisPart, RedisInvariance, PTL

\* Every punctual call owns a field of the hash that no other call owns: no
\* reaper takes it away.
THEOREM HoldersAreSafe == BulkheadSpec => []HoldersKeepLease
  <1>1. RedisIInv => HoldersKeepLease
    <2> SUFFICES ASSUME RedisIInv
                 PROVE  /\ \A c \in Punctual : lease[c] \in hash
                        /\ \A c, d \in Inside : lease[c] = lease[d] => c = d
      BY DEF HoldersKeepLease
    <2>1. \A c \in Inside : c \in Calls /\ Knows(c)
      BY DEF RedisIInv, TypeOK, Inside, At, Knows
    <2> QED
      BY <2>1 DEF RedisIInv, LeasesKept, LeasesDistinct, Punctual
  <1> QED
    BY <1>1, RedisPart, RedisInvariance, PTL

\* The initial state is that of a pool of Limit slots with no holder.
LEMMA PoolInit == Init => Pool!Init
  BY DEF Init, Pool!Init, Punctual, Inside, At

\* A call that gets inside takes a slot that was free.
LEMMA AdmitIsAcquire ==
  ASSUME NEW c \in Calls, c \notin Punctual, Punctual' = Punctual \cup {c},
         Cardinality(Punctual') <= Limit
  PROVE  Pool!Acquire(c)
  <1>1. IsFiniteSet(Punctual)
    <2>1. Punctual \subseteq Calls
      BY DEF Punctual, Inside, At
    <2> QED
      BY <2>1, FS_Subset, CallsAssumption
  <1>2. /\ Cardinality(Punctual') = Cardinality(Punctual) + 1
        /\ Cardinality(Punctual) \in Nat
    BY <1>1, FS_AddElement, FS_CardinalityType
  <1>3. Cardinality(Punctual) < Limit
    BY <1>2, LimitAssumption
  <1>4. Pool!Cardinality(Punctual) = Cardinality(Punctual)
    BY DEF Pool!Cardinality, Cardinality
  <1> QED
    BY <1>3, <1>4 DEF Pool!Acquire, Pool!Created

\* Every step of the backend is a step of the pool or leaves it alone.
LEMMA PoolStep ==
  ASSUME RedisIInv, RedisIInv', [Next]_vars
  PROVE  [Pool!Next]_<<Punctual, Limit>>
  <1>1. CASE Punctual' = Punctual
    BY <1>1
  <1>2. ASSUME NEW c \in Calls, c \notin Punctual, Punctual' = Punctual \cup {c}
        PROVE  Pool!Next
    BY <1>2, AdmitIsAcquire DEF RedisIInv, Pool!Next
  <1>3. ASSUME NEW c \in Punctual, Punctual' = Punctual \ {c} PROVE Pool!Next
    <2>1. c \in Calls
      BY DEF Punctual, Inside, At
    <2> QED
      BY <1>3, <2>1 DEF Pool!Next, Pool!Release
  <1> QED
    BY <1>1, <1>2, <1>3, PunctualMoves DEF RedisIInv

\* The backend implements the pool of the calls that are not late.
THEOREM PoolImplemented == BulkheadSpec => ImplementsPool
  <1>1. RedisIInv /\ RedisIInv' /\ [Next]_vars => [Pool!Next]_<<Punctual, Limit>>
    BY PoolStep
  <1> QED
    BY <1>1, RedisPart, RedisInvariance, PoolInit, PTL DEF Spec, ImplementsPool, Pool!Spec

-----------------------------------------------------------------------------
(* The token stacks                                                        *)

TokensOK ==
    /\ alive \subseteq Tasks /\ mixed \subseteq Tasks
    /\ depth \in [Tasks -> 0..MaxDepth]
    /\ ctx \in [Tasks -> Dicts \cup {NoDict}]
    /\ stack \in [Dicts -> Seq(Tasks)]
    /\ \A t \in Tasks :
          /\ ctx[t] = NoDict => depth[t] = 0
          /\ t \notin alive => ctx[t] = NoDict

\* A list with tokens is its task's alone, unless that task was spawned inside
\* a block or has spawned one there.
Separate ==
    \A t \in Tasks : Stack(t) # <<>> /\ t \notin mixed =>
        /\ \A i \in DOMAIN Stack(t) : Stack(t)[i] = t
        /\ \A u \in Tasks \ {t} : ctx[u] # ctx[t]

TokensIInv == TokensOK /\ StackPaired /\ Separate /\ OwnUnlessMixed

\* The blocks open on a dict are finitely many.
LEMMA OpenBlocksFinite ==
  ASSUME NEW d
  PROVE  IsFiniteSet(OpenBlocks(d)) /\ Cardinality(OpenBlocks(d)) \in Nat
  <1>1. IsFiniteSet(1..MaxDepth)
    BY FS_Interval, DepthAssumption
  <1>2. IsFiniteSet(Tasks \X (1..MaxDepth))
    BY <1>1, FS_Product, TasksAssumption
  <1>3. OpenBlocks(d) \in SUBSET (Tasks \X (1..MaxDepth))
    BY DEF OpenBlocks
  <1> QED
    BY <1>2, <1>3, FS_Subset, FS_CardinalityType

\* There is always a dict that no other task refers to.
LEMMA NewDictFree ==
  ASSUME TokensOK, NEW t \in Tasks
  PROVE  NewDict(t) \in Dicts /\ \A u \in Tasks \ {t} : ctx[u] # NewDict(t)
  <1>1. IsFiniteSet(Tasks) /\ Cardinality(Tasks) \in Nat
    BY TasksAssumption, FS_CardinalityType
  <1>2. IsFiniteSet(Tasks \ {t}) /\ Cardinality(Tasks \ {t}) = Cardinality(Tasks) - 1
    BY <1>1, FS_RemoveElement
  <1>3. Cardinality(Tasks) # 0
    BY <1>1, FS_EmptySet
  <1>4. IsFiniteSet(Dicts) /\ Cardinality(Dicts) = Cardinality(Tasks)
    BY <1>1, <1>3, FS_Interval DEF Dicts
  <1>5. \E d \in Dicts : \A u \in Tasks \ {t} : ctx[u] # d
    <2> SUFFICES ASSUME \A d \in Dicts : \E u \in Tasks \ {t} : ctx[u] = d
                 PROVE  FALSE
      OBVIOUS
    <2> DEFINE f == [d \in Dicts |-> CHOOSE u \in Tasks \ {t} : ctx[u] = d]
    <2>1. f \in [Dicts -> Tasks \ {t}] /\ \A d \in Dicts : ctx[f[d]] = d
      OBVIOUS
    <2>2. Cardinality(Tasks \ {t}) < Cardinality(Dicts)
      BY <1>1, <1>2, <1>4
    <2> HIDE DEF f
    <2>3. \E x, y \in Dicts : x # y /\ f[x] = f[y]
      BY <1>2, <1>4, <2>1, <2>2, FS_PigeonHole
    <2> QED
      BY <2>1, <2>3
  <1> QED
    BY <1>5 DEF NewDict

\* Nothing is open before the first block.
LEMMA TokensInitIInv == TokensInit => TokensIInv
  <1> SUFFICES ASSUME TokensInit PROVE TokensIInv
    OBVIOUS
  <1> USE DEF TokensInit
  <1>1. TokensOK
    BY TasksAssumption, DepthAssumption DEF TokensOK
  <1>2. \A d \in Dicts : OpenBlocks(d) = {}
    BY DEF OpenBlocks, Dicts, NoDict
  <1>3. StackPaired
    BY <1>2, FS_EmptySet DEF StackPaired
  <1>4. Separate /\ OwnUnlessMixed
    BY DEF Separate, Stack, OwnUnlessMixed
  <1> QED
    BY <1>1, <1>3, <1>4 DEF TokensIInv

\* A task without tokens in its list has no block open, and neither has any
\* task that shares the list.
LEMMA EmptyMeansNoBlock ==
  ASSUME TokensOK, StackPaired, NEW d \in Dicts, stack[d] = <<>>
  PROVE  OpenBlocks(d) = {} /\ \A t \in Tasks : ctx[t] = d => depth[t] = 0
  <1>1. Cardinality(OpenBlocks(d)) = 0
    BY DEF StackPaired
  <1>2. OpenBlocks(d) = {}
    BY <1>1, OpenBlocksFinite, FS_EmptySet
  <1>3. ASSUME NEW t \in Tasks, ctx[t] = d, depth[t] # 0 PROVE FALSE
    <2>1. depth[t] \in 1..MaxDepth
      BY <1>3, DepthAssumption DEF TokensOK
    <2>2. <<t, depth[t]>> \in OpenBlocks(d)
      BY <1>3, <2>1 DEF OpenBlocks
    <2> QED
      BY <1>2, <2>2
  <1> QED
    BY <1>2, <1>3

\* A block opened on top of others adds its token to their list.
LEMMA EnterOnTop ==
  ASSUME TokensIInv, NEW t \in Tasks, EnterBlock(t), Stack(t) # <<>>
  PROVE  TokensIInv'
  <1> DEFINE e == ctx[t]
  <1>1. e \in Dicts /\ Stack(t) = stack[e] /\ e # NoDict
    BY DEF TokensIInv, TokensOK, Stack
  <1>2. /\ stack' = [stack EXCEPT ![e] = Append(@, t)]
        /\ depth' = [depth EXCEPT ![t] = @ + 1]
        /\ UNCHANGED <<ctx, alive, released, mixed>>
        /\ depth[t] < MaxDepth
    BY <1>1 DEF EnterBlock, PushToken
  <1>3. TokensOK'
    BY <1>1, <1>2, DepthAssumption DEF TokensIInv, TokensOK, Dicts, NoDict
  <1>4. ASSUME NEW d \in Dicts PROVE Len(stack'[d]) = Cardinality(OpenBlocks(d)')
    <2>1. depth[t] + 1 \in 1..MaxDepth
      BY <1>2, DepthAssumption DEF TokensIInv, TokensOK
    <2>2. \A u \in Tasks : depth[u] \in Nat /\ depth'[u] = IF u = t THEN depth[t] + 1 ELSE depth[u]
      BY <1>2 DEF TokensIInv, TokensOK
    <2>3. CASE d = e
      <3>1. OpenBlocks(d)' = OpenBlocks(d) \cup {<<t, depth[t] + 1>>}
        BY <1>2, <2>1, <2>2, <2>3 DEF OpenBlocks
      <3>2. <<t, depth[t] + 1>> \notin OpenBlocks(d)
        BY <2>2 DEF OpenBlocks
      <3>3. Cardinality(OpenBlocks(d)') = Cardinality(OpenBlocks(d)) + 1
        BY <3>1, <3>2, OpenBlocksFinite, FS_AddElement
      <3>4. Len(stack'[d]) = Len(stack[d]) + 1
        BY <1>1, <1>2, <2>3 DEF TokensIInv, TokensOK
      <3> QED
        BY <3>3, <3>4 DEF TokensIInv, StackPaired
    <2>4. CASE d # e
      <3>1. OpenBlocks(d)' = OpenBlocks(d)
        BY <1>2, <2>2, <2>4 DEF OpenBlocks
      <3>2. stack'[d] = stack[d]
        BY <1>2, <2>4 DEF TokensIInv, TokensOK
      <3> QED
        BY <3>1, <3>2 DEF TokensIInv, StackPaired
    <2> QED
      BY <2>3, <2>4
  <1>5. Separate'
    <2> SUFFICES ASSUME NEW u \in Tasks, Stack(u)' # <<>>, u \notin mixed
                 PROVE  /\ \A i \in DOMAIN Stack(u)' : Stack(u)'[i] = u
                        /\ \A v \in Tasks \ {u} : ctx[v] # ctx[u]
      BY <1>2 DEF Separate
    <2>1. CASE ctx[u] # e
      <3>1. Stack(u)' = Stack(u)
        BY <1>1, <1>2, <2>1 DEF Stack, TokensIInv, TokensOK
      <3> QED
        BY <3>1 DEF TokensIInv, Separate
    <2>2. CASE ctx[u] = e
      <3>1. Stack(u) = stack[e] /\ Stack(u) # <<>>
        BY <1>1, <2>2 DEF Stack
      <3>2. u = t /\ \A v \in Tasks \ {u} : ctx[v] # ctx[u]
        BY <2>2, <3>1 DEF TokensIInv, Separate
      <3>3. stack[e] \in Seq(Tasks) /\ \A i \in 1..Len(stack[e]) : stack[e][i] = u
        BY <1>1, <3>1 DEF TokensIInv, TokensOK, Separate
      <3>4. Stack(u)' = Append(stack[e], u)
        BY <1>1, <1>2, <2>2, <3>2 DEF Stack, TokensIInv, TokensOK
      <3> QED
        BY <3>2, <3>3, <3>4
    <2> QED
      BY <2>1, <2>2
  <1> QED
    BY <1>2, <1>3, <1>4, <1>5 DEF TokensIInv, StackPaired, OwnUnlessMixed

\* A block opened on an empty list starts one that no other task has.
LEMMA EnterAfresh ==
  ASSUME TokensIInv, NEW t \in Tasks, EnterBlock(t), Stack(t) = <<>>
  PROVE  TokensIInv'
  <1> DEFINE e == NewDict(t)
  <1>1. e \in Dicts /\ e # NoDict /\ \A u \in Tasks \ {t} : ctx[u] # e
    BY NewDictFree DEF TokensIInv, Dicts, NoDict
  <1> HIDE DEF e
  <1>2. /\ stack' = [stack EXCEPT ![e] = <<t>>]
        /\ ctx' = [ctx EXCEPT ![t] = e]
        /\ depth' = [depth EXCEPT ![t] = @ + 1]
        /\ UNCHANGED <<alive, released, mixed>>
        /\ depth[t] < MaxDepth /\ t \in alive
    BY DEF EnterBlock, PushToken, e
  <1>3. depth[t] = 0
    <2>1. CASE ctx[t] = NoDict
      BY <2>1 DEF TokensIInv, TokensOK
    <2>2. CASE ctx[t] # NoDict
      BY <2>2, EmptyMeansNoBlock DEF TokensIInv, TokensOK, Stack
    <2> QED
      BY <2>1, <2>2
  <1>4. TokensOK'
    BY <1>1, <1>2, DepthAssumption DEF TokensIInv, TokensOK
  <1>5. \A u \in Tasks : depth[u] \in Nat /\ depth'[u] = (IF u = t THEN 1 ELSE depth[u])
                         /\ ctx'[u] = (IF u = t THEN e ELSE ctx[u])
    BY <1>2, <1>3 DEF TokensIInv, TokensOK
  <1>6. ASSUME NEW d \in Dicts PROVE Len(stack'[d]) = Cardinality(OpenBlocks(d)')
    <2>1. CASE d = e
      <3>1. OpenBlocks(d)' = {<<t, 1>>}
        BY <1>1, <1>5, <2>1, DepthAssumption DEF OpenBlocks
      <3>2. Len(stack'[d]) = 1
        BY <1>1, <1>2, <2>1 DEF TokensIInv, TokensOK
      <3> QED
        BY <3>1, <3>2, FS_Singleton
    <2>2. CASE d # e
      <3>1. OpenBlocks(d)' = OpenBlocks(d)
        BY <1>3, <1>5, <2>2 DEF OpenBlocks
      <3>2. stack'[d] = stack[d]
        BY <1>2, <2>2 DEF TokensIInv, TokensOK
      <3> QED
        BY <3>1, <3>2 DEF TokensIInv, StackPaired
    <2> QED
      BY <2>1, <2>2
  <1>7. Separate'
    <2> SUFFICES ASSUME NEW u \in Tasks, Stack(u)' # <<>>, u \notin mixed
                 PROVE  /\ \A i \in DOMAIN Stack(u)' : Stack(u)'[i] = u
                        /\ \A v \in Tasks \ {u} : ctx'[v] # ctx'[u]
      BY <1>2 DEF Separate
    <2>1. CASE u = t
      <3>1. Stack(u)' = <<t>>
        BY <1>1, <1>2, <1>5, <2>1 DEF Stack, TokensIInv, TokensOK
      <3> QED
        BY <1>1, <1>5, <2>1, <3>1
    <2>2. CASE u # t
      <3>1. ctx'[u] = ctx[u] /\ ctx[u] # e
        BY <1>1, <1>5, <2>2
      <3>2. Stack(u)' = Stack(u)
        BY <1>2, <3>1 DEF Stack, TokensIInv, TokensOK
      <3> QED
        BY <1>5, <3>1, <3>2 DEF TokensIInv, Separate
    <2> QED
      BY <2>1, <2>2
  <1> QED
    BY <1>2, <1>4, <1>6, <1>7 DEF TokensIInv, StackPaired, OwnUnlessMixed

\* A block that ends takes the last token of its list, one of its own unless
\* the task is mixed.
LEMMA LeaveStep ==
  ASSUME TokensIInv, NEW t \in Tasks, LeaveBlock(t)
  PROVE  TokensIInv'
  <1> DEFINE e == ctx[t]
  <1>1. /\ e \in Dicts /\ Stack(t) = stack[e] /\ e # NoDict
        /\ stack[e] \in Seq(Tasks) /\ stack[e] # <<>>
    BY DEF LeaveBlock, TokensIInv, TokensOK, Stack
  <1>2. /\ stack' = [stack EXCEPT ![e] = Rest(@)]
        /\ depth' = [depth EXCEPT ![t] = @ - 1]
        /\ UNCHANGED <<ctx, alive, mixed>>
        /\ depth[t] > 0
        /\ released' = [by |-> t, of |-> Stack(t)[Len(Stack(t))], shared |-> t \in mixed]
    BY DEF LeaveBlock
  <1>3. /\ Rest(stack[e]) \in Seq(Tasks)
        /\ Len(Rest(stack[e])) = Len(stack[e]) - 1
        /\ \A i \in 1..(Len(stack[e]) - 1) : Rest(stack[e])[i] = stack[e][i]
    BY <1>1 DEF Rest
  <1>4. TokensOK'
    BY <1>1, <1>2, <1>3, DepthAssumption DEF TokensIInv, TokensOK
  <1>5. ASSUME NEW d \in Dicts PROVE Len(stack'[d]) = Cardinality(OpenBlocks(d)')
    <2>1. depth[t] \in 1..MaxDepth
      BY <1>2, DepthAssumption DEF TokensIInv, TokensOK
    <2>2. \A u \in Tasks : depth[u] \in Nat /\ depth'[u] = IF u = t THEN depth[t] - 1 ELSE depth[u]
      BY <1>2 DEF TokensIInv, TokensOK
    <2>3. CASE d = e
      <3>1. OpenBlocks(d)' = OpenBlocks(d) \ {<<t, depth[t]>>}
        BY <1>2, <2>1, <2>2, <2>3 DEF OpenBlocks
      <3>2. <<t, depth[t]>> \in OpenBlocks(d)
        BY <2>1, <2>2, <2>3 DEF OpenBlocks
      <3>3. Cardinality(OpenBlocks(d)') = Cardinality(OpenBlocks(d)) - 1
        BY <3>1, <3>2, OpenBlocksFinite, FS_RemoveElement
      <3>4. Len(stack'[d]) = Len(stack[d]) - 1
        BY <1>1, <1>2, <1>3, <2>3 DEF TokensIInv, TokensOK
      <3> QED
        BY <3>3, <3>4 DEF TokensIInv, StackPaired
    <2>4. CASE d # e
      <3>1. OpenBlocks(d)' = OpenBlocks(d)
        BY <1>2, <2>2, <2>4 DEF OpenBlocks
      <3>2. stack'[d] = stack[d]
        BY <1>2, <2>4 DEF TokensIInv, TokensOK
      <3> QED
        BY <3>1, <3>2 DEF TokensIInv, StackPaired
    <2> QED
      BY <2>3, <2>4
  <1>6. Separate'
    <2> SUFFICES ASSUME NEW u \in Tasks, Stack(u)' # <<>>, u \notin mixed
                 PROVE  /\ \A i \in DOMAIN Stack(u)' : Stack(u)'[i] = u
                        /\ \A v \in Tasks \ {u} : ctx[v] # ctx[u]
      BY <1>2 DEF Separate
    <2>1. CASE ctx[u] # e
      <3>1. Stack(u)' = Stack(u)
        BY <1>1, <1>2, <2>1 DEF Stack, TokensIInv, TokensOK
      <3> QED
        BY <3>1 DEF TokensIInv, Separate
    <2>2. CASE ctx[u] = e
      <3>1. Stack(u) = stack[e] /\ Stack(u) # <<>>
        BY <1>1, <2>2 DEF Stack
      <3>2. /\ \A i \in 1..Len(stack[e]) : stack[e][i] = u
            /\ \A v \in Tasks \ {u} : ctx[v] # ctx[u]
        BY <1>1, <2>2, <3>1 DEF TokensIInv, Separate
      <3>3. Stack(u)' = Rest(stack[e])
        BY <1>1, <1>2, <2>2 DEF Stack, TokensIInv, TokensOK
      <3> QED
        BY <1>1, <1>3, <3>2, <3>3
    <2> QED
      BY <2>1, <2>2
  <1>7. OwnUnlessMixed'
    <2> SUFFICES ASSUME t \notin mixed PROVE stack[e][Len(stack[e])] = t
      BY <1>1, <1>2 DEF OwnUnlessMixed
    <2>1. Len(stack[e]) \in 1..Len(stack[e])
      BY <1>1
    <2> QED
      BY <1>1, <2>1 DEF TokensIInv, Separate
  <1> QED
    BY <1>4, <1>5, <1>6, <1>7 DEF TokensIInv, StackPaired

\* A task spawned outside the blocks shares no token, one spawned inside is
\* mixed, and so is its parent.
LEMMA SpawnStep ==
  ASSUME TokensIInv, NEW t \in Tasks, NEW u \in Tasks, Spawn(t, u)
  PROVE  TokensIInv'
  <1>1. /\ t # u /\ ctx[u] = NoDict /\ depth[u] = 0
        /\ ctx' = [ctx EXCEPT ![u] = ctx[t]]
        /\ alive' = alive \cup {u} /\ UNCHANGED <<depth, stack, released>>
        /\ mixed' = IF Stack(t) = <<>> THEN mixed ELSE mixed \cup {t, u}
    BY DEF Spawn, TokensIInv, TokensOK
  <1>2. TokensOK'
    BY <1>1 DEF TokensIInv, TokensOK
  <1>3. \A v \in Tasks : depth[v] \in Nat /\ ctx'[v] = IF v = u THEN ctx[t] ELSE ctx[v]
    BY <1>1 DEF TokensIInv, TokensOK
  <1>4. \A d \in Dicts : OpenBlocks(d)' = OpenBlocks(d)
    BY <1>1, <1>3 DEF OpenBlocks, Dicts, NoDict
  <1>5. StackPaired'
    BY <1>1, <1>4 DEF TokensIInv, StackPaired
  <1>6. \A v \in Tasks : Stack(v)' = IF v = u THEN Stack(t) ELSE Stack(v)
    BY <1>1, <1>3 DEF Stack
  <1>7. Separate'
    <2> SUFFICES ASSUME NEW v \in Tasks, Stack(v)' # <<>>, v \notin mixed'
                 PROVE  /\ \A i \in DOMAIN Stack(v)' : Stack(v)'[i] = v
                        /\ \A w \in Tasks \ {v} : ctx'[w] # ctx'[v]
      BY DEF Separate
    <2>1. v # u /\ v \notin mixed
      <3>1. CASE v = u
        BY <1>1, <1>6, <3>1
      <3> QED
        BY <1>1, <3>1
    <2>2. Stack(v)' = Stack(v) /\ ctx'[v] = ctx[v]
      BY <1>3, <1>6, <2>1
    <2>3. /\ \A i \in DOMAIN Stack(v) : Stack(v)[i] = v
          /\ \A w \in Tasks \ {v} : ctx[w] # ctx[v]
      BY <2>1, <2>2 DEF TokensIInv, Separate
    <2>4. ctx[t] # ctx[v]
      <3>1. CASE v = t
        BY <1>1, <2>1, <2>2, <3>1
      <3> QED
        BY <2>3, <3>1
    <2> QED
      BY <1>3, <2>2, <2>3, <2>4
  <1> QED
    BY <1>1, <1>2, <1>5, <1>7 DEF TokensIInv, OwnUnlessMixed

\* A task that ends has no block open.
LEMMA EndStep ==
  ASSUME TokensIInv, NEW t \in Tasks, End(t)
  PROVE  TokensIInv'
  <1>1. /\ depth[t] = 0
        /\ ctx' = [ctx EXCEPT ![t] = NoDict]
        /\ alive' = alive \ {t} /\ UNCHANGED <<depth, stack, released>>
        /\ mixed' = mixed \ {t}
    BY DEF End
  <1>2. TokensOK'
    BY <1>1 DEF TokensIInv, TokensOK
  <1>3. \A v \in Tasks : depth[v] \in Nat /\ ctx'[v] = IF v = t THEN NoDict ELSE ctx[v]
    BY <1>1 DEF TokensIInv, TokensOK
  <1>4. \A d \in Dicts : OpenBlocks(d)' = OpenBlocks(d)
    BY <1>1, <1>3 DEF OpenBlocks, Dicts, NoDict
  <1>5. StackPaired'
    BY <1>1, <1>4 DEF TokensIInv, StackPaired
  <1>6. \A v \in Tasks : Stack(v)' = IF v = t THEN <<>> ELSE Stack(v)
    BY <1>1, <1>3 DEF Stack
  <1>7. Separate'
    <2> SUFFICES ASSUME NEW v \in Tasks, Stack(v)' # <<>>, v \notin mixed'
                 PROVE  /\ \A i \in DOMAIN Stack(v)' : Stack(v)'[i] = v
                        /\ \A w \in Tasks \ {v} : ctx'[w] # ctx'[v]
      BY DEF Separate
    <2>1. v # t /\ v \notin mixed /\ Stack(v)' = Stack(v) /\ Stack(v) # <<>> /\ ctx'[v] = ctx[v]
      BY <1>1, <1>3, <1>6
    <2>2. ctx[v] # NoDict
      BY <2>1 DEF Stack
    <2> QED
      BY <1>3, <2>1, <2>2 DEF TokensIInv, Separate
  <1> QED
    BY <1>1, <1>2, <1>5, <1>7 DEF TokensIInv, OwnUnlessMixed

\* Every step preserves the inductive invariant of the token stacks.
LEMMA TokensStep == TokensIInv /\ [TokensNext]_tokenVars => TokensIInv'
  <1> SUFFICES ASSUME TokensIInv, [TokensNext]_tokenVars PROVE TokensIInv'
    OBVIOUS
  <1>1. ASSUME NEW t \in Tasks, EnterBlock(t) PROVE TokensIInv'
    BY <1>1, EnterOnTop, EnterAfresh
  <1>2. ASSUME NEW t \in Tasks, LeaveBlock(t) PROVE TokensIInv'
    BY <1>2, LeaveStep
  <1>3. ASSUME NEW t \in Tasks, End(t) PROVE TokensIInv'
    BY <1>3, EndStep
  <1>4. ASSUME NEW t \in Tasks, NEW u \in Tasks, Spawn(t, u) PROVE TokensIInv'
    BY <1>4, SpawnStep
  <1>5. CASE UNCHANGED tokenVars
    <2>1. \A d \in Dicts : OpenBlocks(d)' = OpenBlocks(d)
      BY <1>5 DEF tokenVars, OpenBlocks
    <2>2. \A t \in Tasks : Stack(t)' = Stack(t)
      BY <1>5 DEF tokenVars, Stack
    <2>3. Separate'
      BY <1>5, <2>2 DEF tokenVars, Separate, TokensIInv
    <2> QED
      BY <1>5, <2>1, <2>3 DEF tokenVars, TokensIInv, TokensOK, StackPaired, OwnUnlessMixed
  <1> QED
    BY <1>1, <1>2, <1>3, <1>4, <1>5 DEF TokensNext

\* Every block that ends releases one token, acquired by it or, where tasks
\* share a list of _TOKEN_STACKS, by another block of theirs: _pop_token finds
\* one for every open block, however tasks spawn, nest and end.
THEOREM EveryTokenReleased == TokensSpec => []TokensPaired
  <1>1. TokensIInv => TokensPaired
    BY DEF TokensIInv, TokensPaired
  <1> QED
    BY <1>1, TokensInitIInv, TokensStep, PTL DEF TokensSpec
=============================================================================
