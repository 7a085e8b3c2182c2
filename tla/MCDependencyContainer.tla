----------------------- MODULE MCDependencyContainer -----------------------
(* A singleton that needs another and is asked for under a name nobody     *)
(* registered, a scoped service, and two overrides of the needed one.      *)
EXTENDS DependencyContainer

MCKeys == {"service", "pool", "session", "service_named"}
MCUnnamed == [k \in MCKeys |-> IF k = "service_named" THEN "service" ELSE k]
MCLifecycle == [k \in MCKeys |-> CASE k \in {"service", "pool"} -> "singleton"
                                   [] k = "session" -> "scoped"
                                   [] OTHER -> "none"]
MCNeeds == [k \in MCKeys |-> IF k = "service" THEN <<"pool">> ELSE <<>>]
MCOverrides == <<"outer", "inner">>
MCOverrideKey == [o \in {"outer", "inner"} |-> "pool"]
=============================================================================
