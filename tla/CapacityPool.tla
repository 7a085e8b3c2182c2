---------------------------- MODULE CapacityPool ----------------------------
(***************************************************************************)
(* What a bulkhead promises, whatever its backend: a pool with a capacity, *)
(* set once (by the first call that names the pool, or from the start),    *)
(* never has more calls inside than that.                                  *)
(***************************************************************************)
EXTENDS Naturals, FiniteSets

CONSTANTS
    Calls,          \* activations of the protected block
    Capacities      \* limits the pool may be created with

VARIABLES
    holders,        \* calls that hold a slot
    capacity        \* 0 as long as the pool does not exist

Init == holders = {} /\ capacity \in Capacities \cup {0}

Created == IF capacity = 0 THEN Capacities ELSE {capacity}

Acquire(c) ==
    /\ c \notin holders
    /\ capacity' \in Created
    /\ Cardinality(holders) < capacity'
    /\ holders' = holders \cup {c}

Release(c) ==
    /\ c \in holders
    /\ holders' = holders \ {c}
    /\ UNCHANGED capacity

Next == \E c \in Calls : Acquire(c) \/ Release(c)

Spec == Init /\ [][Next]_<<holders, capacity>>
=============================================================================
