SPECIFICATION FairSpec
CONSTANTS
    Tasks = {t1, t2}
    Keys <- MCKeys
    Unnamed <- MCUnnamed
    Lifecycle <- MCLifecycle
    Needs <- MCNeeds
    Overrides <- MCOverrides
    OverrideKey <- MCOverrideKey
    FromScope = {"pool", "session"}
    FromContainer = {"service_named"}
    MaxMade = 2
INVARIANTS InstancesShared ScopeClosed OverridesNest
PROPERTIES ResolveEnds
