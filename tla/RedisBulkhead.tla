---------------------------- MODULE RedisBulkhead ----------------------------
(***************************************************************************)
(* One name of middleware/bulkhead_redis.py: the hash whose fields are the *)
(* leases of the calls inside, shared by the calls of every process, and   *)
(* the reaper an operator runs.  The pipeline HSET, HLEN, PEXPIRE is a     *)
(* MULTI/EXEC transaction, hence one step; between it and the caller's     *)
(* next command the reply travels, and the caller may never see it.        *)
(*                                                                         *)
(* Time is what the code compares it with: a lease is old once lease_ttl   *)
(* has passed since its timestamp, and a call whose lease is old is late.  *)
(***************************************************************************)
EXTENDS Naturals, FiniteSets

CONSTANTS
    Calls,      \* activations of `async with bulkhead`, reusable slots
    Leases,     \* lease ids; bounds how many fields exist at once
    NoLease,
    Limit,      \* limit
    Reaper      \* does anybody call reap_expired_leases

ASSUME CallsAssumption == IsFiniteSet(Calls)
ASSUME LeasesAssumption == IsFiniteSet(Leases) /\ NoLease \notin Leases
ASSUME LimitAssumption == Limit \in Nat \ {0}
ASSUME ReaperAssumption == Reaper \in BOOLEAN

VARIABLES
    hash,       \* fields of the Redis hash
    old,        \* leases written more than lease_ttl ago
    lease,      \* the lease id each call knows of or is about to
    pc,
    stale       \* what a running reap_expired_leases has collected

vars == <<hash, old, lease, pc, stale>>

Init ==
    /\ hash = {}
    /\ old = {}
    /\ lease = [c \in Calls |-> NoLease]
    /\ pc = [c \in Calls |-> "idle"]
    /\ stale = {}

At(label) == {c \in Calls : pc[c] = label}
\* Calls that have been given a slot: they run, or their reply is under way.
Inside == At("admitted") \cup At("inside")
\* Those of them that lease_ttl has not yet caught up with.
Punctual == {c \in Inside : lease[c] \notin old}
Owned == {lease[c] : c \in Calls}
Fresh == Leases \ (hash \cup Owned \cup stale)

Forget(c) == lease' = [lease EXCEPT ![c] = NoLease]

-----------------------------------------------------------------------------
(* RedisBulkheadBackend.acquire and release                                *)

\* Mutant of Fits: the call's own field is not counted.
FitsBefore(h) == Cardinality(h) - 1 <= Limit

\* occupancy <= limit, with the call's own field in the hash.
Fits(h) == Cardinality(h) <= Limit

\* The pipeline of _try_acquire_once: first attempt, or the next one of the
\* polling loop.
Attempt(c) ==
    /\ pc[c] \in {"idle", "polling"}
    /\ \E l \in Fresh :
          /\ hash' = hash \cup {l}
          /\ lease' = [lease EXCEPT ![c] = l]
          /\ old' = old \ {l}
    /\ pc' = [pc EXCEPT ![c] = IF Fits(hash') THEN "admitted" ELSE "refused"]
    /\ UNCHANGED stale

Return(c) ==
    /\ pc[c] = "admitted"
    /\ pc' = [pc EXCEPT ![c] = "inside"]
    /\ UNCHANGED <<hash, old, lease, stale>>

\* HDEL of the call's own field.
Withdraw(c) == hash' = hash \ {lease[c]}

\* Too many holders: roll back; then BulkheadFullError, at once or after
\* polling up to max_wait.
RollBack(c) ==
    /\ pc[c] = "refused"
    /\ Withdraw(c)
    /\ Forget(c)
    /\ \E next \in {"polling", "idle"} : pc' = [pc EXCEPT ![c] = next]
    /\ UNCHANGED <<old, stale>>

GiveUp(c) ==
    /\ pc[c] = "polling"
    /\ pc' = [pc EXCEPT ![c] = "idle"]
    /\ UNCHANGED <<hash, old, lease, stale>>

Release(c) ==
    /\ pc[c] = "inside"
    /\ Withdraw(c)
    /\ Forget(c)
    /\ pc' = [pc EXCEPT ![c] = "idle"]
    /\ UNCHANGED <<old, stale>>

\* A call ends without its HDEL: the process crashed, the connection was lost,
\* or the task was cancelled before Bulkhead knew of the lease.
Die(c) ==
    /\ pc[c] \in {"admitted", "refused", "inside"}
    /\ Forget(c)
    /\ pc' = [pc EXCEPT ![c] = "idle"]
    /\ UNCHANGED <<hash, old, stale>>

-----------------------------------------------------------------------------
(* Time, and reap_expired_leases                                           *)

\* lease_ttl passes for a lease, be its call alive or not.
Age(l) ==
    /\ l \in hash \ old
    /\ old' = old \cup {l}
    /\ UNCHANGED <<hash, lease, pc, stale>>

\* The hash's own PEXPIRE, ten lease_ttl after the last attempt; every lease
\* is old by then.
KeyExpires ==
    /\ hash # {} /\ hash \subseteq old
    /\ hash' = {}
    /\ UNCHANGED <<old, lease, pc, stale>>

\* Mutant of Reapable: the timestamp is not compared with the cutoff.
ReapableAll == hash

Reapable == hash \cap old

\* HGETALL and the scan ...
ReapScan ==
    /\ Reaper /\ stale = {} /\ Reapable # {}
    /\ stale' = Reapable
    /\ UNCHANGED <<hash, old, lease, pc>>

\* Mutant of Reaped: what was collected is not deleted.
ReapedNothing == {}

Reaped == stale

\* ... and HDEL of what it found.
ReapDelete ==
    /\ stale # {}
    /\ hash' = hash \ Reaped
    /\ stale' = {}
    /\ UNCHANGED <<old, lease, pc>>

-----------------------------------------------------------------------------
Next ==
    \/ \E c \in Calls : Attempt(c) \/ Return(c) \/ RollBack(c) \/ GiveUp(c)
                          \/ Release(c) \/ Die(c)
    \/ \E l \in Leases : Age(l)
    \/ KeyExpires \/ ReapScan \/ ReapDelete

Spec == Init /\ [][Next]_vars

\* Time passes, the operator's reaper runs again and again, and a key whose
\* time to live has run out is removed.
Fairness ==
    /\ \A l \in Leases : WF_vars(Age(l))
    /\ WF_vars(ReapScan) /\ WF_vars(ReapDelete) /\ WF_vars(KeyExpires)

-----------------------------------------------------------------------------
\* Every variable stays in its range, and a call knows a lease id exactly
\* between the pipeline that wrote it and the HDEL.
TypeOK ==
    /\ hash \subseteq Leases /\ old \subseteq Leases /\ stale \subseteq Leases
    /\ lease \in [Calls -> Leases \cup {NoLease}]
    /\ pc \in [Calls -> {"idle", "admitted", "refused", "polling", "inside"}]
    /\ \A c \in Calls : lease[c] # NoLease <=> pc[c] \in {"admitted", "refused", "inside"}

\* Every call that was given a slot and is not late has a field of its own in
\* the hash, whatever is reaped, expires or dies.
HoldersKeepLease ==
    /\ \A c \in Punctual : lease[c] \in hash
    /\ \A c, d \in Inside : lease[c] = lease[d] => c = d

\* The backend implements the pool: a call is a holder from the pipeline that
\* admits it until it leaves, dies or is late.
Pool == INSTANCE CapacityPool
            WITH holders <- Punctual, capacity <- Limit, Capacities <- {Limit}
ImplementsPool == Pool!Spec

\* The distributed limit is exceeded by late calls only.
WithinLimit == Cardinality(Punctual) <= Limit

\* Bulkhead guide, "If a worker crashes mid-hold, its lease expires after
\* `lease_ttl`": a field whose call is gone does not stay for ever, so the
\* capacity lost to a crash, a cancellation or a failed release comes back.
OrphansReclaimed ==
    \A l \in Leases : (l \in hash \ Owned) ~> (l \notin hash)
=============================================================================
