------------------------------ MODULE InFlight ------------------------------
(***************************************************************************)
(* What the application promises about HawkAPI._in_flight: it is the       *)
(* number of requests that have entered _core_handler and not left it, and *)
(* every request that has entered leaves.  RouteExecution implements this  *)
(* module and AppLifecycle relies on it.                                   *)
(***************************************************************************)
EXTENDS Naturals, FiniteSets

CONSTANT Requests

VARIABLES
    active,     \* requests inside _core_handler
    inFlight    \* HawkAPI._in_flight

Init == active = {} /\ inFlight = 0

Enter(r) ==
    /\ r \notin active
    /\ active' = active \cup {r}
    /\ inFlight' = inFlight + 1

Leave(r) ==
    /\ r \in active
    /\ active' = active \ {r}
    /\ inFlight' = inFlight - 1

Next == \E r \in Requests : Enter(r) \/ Leave(r)

Spec == Init /\ [][Next]_<<active, inFlight>>

FairSpec == Spec /\ \A r \in Requests : WF_<<active, inFlight>>(Leave(r))
=============================================================================
