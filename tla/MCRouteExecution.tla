-------------------------- MODULE MCRouteExecution --------------------------
(* Small instances of RouteExecution for TLC.                              *)
EXTENDS RouteExecution

Route(params, deps, guarded, threaded, background) ==
    [params |-> params, deps |-> deps, guarded |-> guarded,
     threaded |-> threaded, background |-> background]

\* Two generators around a scoped service and a third one among the route's
\* own dependencies; a sync handler with two scoped services and background
\* tasks; a route with nothing.
MixedRoutes == {
    Route(<<"gen", "scoped", "gen">>, <<"gen">>, TRUE, FALSE, FALSE),
    Route(<<"scoped", "gen", "plain", "scoped">>, <<"plain">>, FALSE, TRUE, TRUE),
    NoRoute}
=============================================================================
