---------------------------- MODULE LocalBulkhead ----------------------------
(***************************************************************************)
(* One name of middleware/bulkhead.py's LocalBulkheadBackend as used by    *)
(* Bulkhead.__aenter__/__aexit__: an asyncio.Semaphore created by the first*)
(* call, acquired under asyncio.timeout(max_wait) and released on exit.    *)
(*                                                                         *)
(* The semaphore is Python's (3.12 or later), modelled from its documented *)
(* behaviour: a FIFO queue of futures, a slot handed over by granting the  *)
(* first pending one, and a granted waiter that runs only in a later turn  *)
(* of the event loop, by which time it may have been timed out.  A zero    *)
(* max_wait differs from a positive one only in how soon Timeout comes.    *)
(***************************************************************************)
EXTENDS Integers, Sequences, FiniteSets

CONSTANTS
    Callers,      \* activations of `async with bulkhead`, reusable slots
    Limits      \* the limits callers pass for this name

ASSUME CallersAssumption == IsFiniteSet(Callers)
ASSUME LimitsAssumption == Limits \subseteq Nat \ {0}

VARIABLES
    limit,      \* _limits[name], 0 before registration
    value,      \* Semaphore._value
    waiters,    \* Semaphore._waiters
    fut,        \* the future each waiting call awaits
    why,        \* why a waiting call was interrupted
    at

localVars == <<limit, value, waiters, fut, why, at>>

LocalInit ==
    /\ limit = 0
    /\ value = 0
    /\ waiters = <<>>
    /\ fut = [c \in Callers |-> "none"]
    /\ why = [c \in Callers |-> "no"]
    /\ at = [c \in Callers |-> "idle"]

LocalAt(label) == {c \in Callers : at[c] = label}
Running == LocalAt("inside")
Granted == {c \in Callers : fut[c] = "granted"}
Pending == {c \in Callers : fut[c] = "pending"}

-----------------------------------------------------------------------------
(* asyncio.Semaphore                                                       *)

\* Mutant of Locked: neither the count nor the queue is looked at.
LockedNever(v) == FALSE

\* Semaphore.locked(): cancelled futures do not count.
Locked(v) == v = 0 \/ \E c \in Callers : fut[c] \in {"pending", "granted"}

Ahead(c, d, queue) == \E i, j \in DOMAIN queue : i < j /\ queue[i] = c /\ queue[j] = d

\* The first in a queue of the pending futures in f are granted, as many as
\* there are slots in v.
WakeUp(v, queue, f) ==
    LET pending == {c \in Callers : f[c] = "pending"}
        left == Cardinality(pending)
    IN  \E chosen \in SUBSET pending :
            /\ Cardinality(chosen) = IF v < left THEN v ELSE left
            /\ \A c \in chosen, d \in pending \ chosen : Ahead(c, d, queue)
            /\ value' = v - Cardinality(chosen)
            /\ fut' = [c \in Callers |-> IF c \in chosen THEN "granted" ELSE f[c]]

\* Mutant of GiveBack: an interrupted waiter keeps the slot it was granted.
GiveBackNothing(c) == value

\* What acquire() leaves in _value before it wakes others: a waiter that was
\* granted a slot and interrupted before it could run returns it.
GiveBack(c) == IF fut[c] = "granted" /\ why[c] # "no" THEN value + 1 ELSE value

-----------------------------------------------------------------------------
(* Bulkhead.__aenter__ and LocalBulkheadBackend.acquire                    *)

\* _get_semaphore: the first limit wins, another one is a ValueError.
Register(l) == limit \in {0, l} /\ limit' = l
Slots(l) == IF limit = 0 THEN l ELSE value

Acquire(c, l) ==
    /\ at[c] = "idle"
    /\ Register(l)
    /\ ~Locked(Slots(l))
    /\ value' = Slots(l) - 1
    /\ at' = [at EXCEPT ![c] = "inside"]
    /\ UNCHANGED <<waiters, fut, why>>

Enqueue(c, l) ==
    /\ at[c] = "idle"
    /\ Register(l)
    /\ Locked(Slots(l))
    /\ value' = Slots(l)
    /\ waiters' = Append(waiters, c)
    /\ fut' = [fut EXCEPT ![c] = "pending"]
    /\ at' = [at EXCEPT ![c] = "waiting"]
    /\ UNCHANGED why

\* The timeout, or whoever cancels the task, interrupts a waiting call: a
\* pending future is cancelled with it, a granted one stays granted.
Interrupt(c, reason) ==
    /\ at[c] = "waiting" /\ why[c] = "no"
    /\ why' = [why EXCEPT ![c] = reason]
    /\ fut' = [fut EXCEPT ![c] = IF @ = "pending" THEN "cancelled" ELSE @]
    /\ UNCHANGED <<limit, value, waiters, at>>

\* acquire() resumes once its future is done, leaves the queue and wakes as
\* many others as there are slots; interrupted by the timeout the call ends
\* in BulkheadFullError.
Resume(c) ==
    /\ at[c] = "waiting" /\ fut[c] # "pending"
    /\ waiters' = SelectSeq(waiters, LAMBDA x : x # c)
    /\ WakeUp(GiveBack(c), waiters', [fut EXCEPT ![c] = "none"])
    /\ at' = [at EXCEPT ![c] = CASE why[c] = "no" -> "inside"
                                 [] why[c] = "timeout" -> "full"
                                 [] why[c] = "cancel" -> "idle"]
    /\ why' = [why EXCEPT ![c] = "no"]
    /\ UNCHANGED limit

\* The BulkheadFullError reaches the caller, as a 503 through the decorator.
Reject(c) ==
    /\ at[c] = "full"
    /\ at' = [at EXCEPT ![c] = "idle"]
    /\ UNCHANGED <<limit, value, waiters, fut, why>>

\* Mutant of Hand: release() wakes nobody.
HandToNobody == value' = value + 1 /\ UNCHANGED fut

\* Semaphore.release(): one slot more, handed to the first pending waiter.
Hand ==
    \/ Pending = {} /\ value' = value + 1 /\ UNCHANGED fut
    \/ \E first \in Pending :
          /\ \A c \in Pending \ {first} : Ahead(first, c, waiters)
          /\ fut' = [fut EXCEPT ![first] = "granted"]
          /\ UNCHANGED value

\* Bulkhead.__aexit__, whether the block returned, raised or was cancelled.
Exit(c) ==
    /\ at[c] = "inside"
    /\ Hand
    /\ at' = [at EXCEPT ![c] = "idle"]
    /\ UNCHANGED <<limit, waiters, why>>

-----------------------------------------------------------------------------
LocalNext == \E c \in Callers :
    \/ \E l \in Limits : Acquire(c, l) \/ Enqueue(c, l)
    \/ \E reason \in {"timeout", "cancel"} : Interrupt(c, reason)
    \/ Resume(c) \/ Reject(c) \/ Exit(c)

LocalSpec == LocalInit /\ [][LocalNext]_localVars

\* The event loop runs a task whose future is done, and the protected blocks
\* end; nothing is assumed of timeouts.
LocalFairness == \A c \in Callers : WF_localVars(Resume(c)) /\ WF_localVars(Exit(c))

-----------------------------------------------------------------------------
\* Slots are neither lost nor made: each is free, held by a call inside, or
\* on its way to a waiter, whichever way timeouts and cancellations race the
\* hand-over. Nor is a wake-up lost: while a slot is free and a call waits
\* for one, the future of another waiter is done, and that one will pass the
\* slot on when it runs.
NoSlotLost ==
    /\ value + Cardinality(Running) + Cardinality(Granted) = limit
    /\ value > 0 /\ Pending # {} =>
          \E c \in Callers : at[c] = "waiting" /\ fut[c] \in {"granted", "cancelled"}

\* A waiting call is served or gives up, with no help from its own timeout:
\* newcomers cannot overtake it for ever.
NoStarvation == \A c \in Callers : (at[c] = "waiting") ~> (at[c] # "waiting")

\* The backend implements the pool: a call is a holder while it is inside.
LocalPool == INSTANCE CapacityPool
            WITH Calls <- Callers, holders <- Running, capacity <- limit, Capacities <- Limits
ImplementsLocalPool == LocalPool!Spec
=============================================================================
