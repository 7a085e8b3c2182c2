------------------------------ MODULE Bulkhead ------------------------------
(***************************************************************************)
(* Bulkhead of middleware/bulkhead.py: it has one backend for its life, a  *)
(* semaphore of this process or the leases in Redis, and with either it    *)
(* keeps the promise of CapacityPool.                                      *)
(***************************************************************************)
EXTENDS LocalBulkhead, RedisBulkhead

VARIABLE backend    \* the Bulkhead._backend

bulkheadVars == <<backend, localVars, vars>>

BulkheadInit ==
    /\ backend \in {"local", "redis"}
    /\ LocalInit /\ Init

Local == backend = "local" /\ LocalNext /\ UNCHANGED <<backend, vars>>

Redis == backend = "redis" /\ Next /\ UNCHANGED <<backend, localVars>>

BulkheadSpec ==
    /\ BulkheadInit /\ [][Local \/ Redis]_bulkheadVars
    /\ LocalFairness /\ Fairness
=============================================================================
