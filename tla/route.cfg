SPECIFICATION FairSpec
CONSTANTS
    Requests = {q1, q2}
    Routes <- MixedRoutes
    Faults = {"cancel", "plugin", "head"}
INVARIANTS LastStartedFirst OutcomeAgrees LeaksExplained ScopeOutlivesUse
PROPERTIES ImplementsInFlight
