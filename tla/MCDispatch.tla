---------------------------- MODULE MCDispatch ----------------------------
(* Two kinds of programs: three registrations of overlapping paths,   *)
(* and one route with each signature a parameter can have, registered on   *)
(* the application or included from a router.                              *)
EXTENDS Dispatch

Plain == [marker |-> "none", dep |-> "none", base |-> "str", alias |-> FALSE,
          markerDefault |-> FALSE, default |-> "none", name |-> "q"]

Route(router, name, path, methods) ==
    [kind |-> "route", router |-> router, name |-> name, path |-> path, methods |-> methods,
     sig |-> <<>>, deps |-> <<>>, attrs |-> {}]

GP == {"GET", "POST"}
Piece(name) == Param(name, "str")

Overlapping == {
    Route(App, "ab", <<Static("a"), Static("b")>>, GP),
    Route(App, "ax", <<Static("a"), Piece("x")>>, {"GET"}),
    Route(App, "xb", <<Piece("x"), Static("b")>>, {"GET"}),
    Route(App, "xb2", <<Piece("x"), Static("b")>>, GP),
    Route(App, "xy", <<Piece("x"), Piece("y")>>, {"POST"}),
    Route(App, "an", <<Static("a"), Param("x", "int")>>, GP),
    Route(App, "y", <<Piece("y")>>, {"GET"}),
    Route(App, "abz", <<Static("a"), Static("b"), Piece("x")>>, {"GET"}),
    Route(App, "root", <<>>, {"GET"}),
    Route("router", "sub", <<Static("b")>>, {"GET"}),
    [kind |-> "include", router |-> App, child |-> "router"],
    [kind |-> "mount", router |-> "router", path |-> <<"b">>, name |-> "files"],
    [kind |-> "controller", router |-> App, path |-> <<Static("a")>>,
     actions |-> <<Route(App, "drop", <<Piece("x")>>, {"POST"}), Route(App, "list", <<>>, {"GET"}),
                   Route(App, "show", <<Piece("x")>>, {"GET"})>>]}

RoutingPrograms == {s \in SUBSET Overlapping : Cardinality(s) = 3}

Parameters ==
    {[Plain EXCEPT !.marker = "path", !.name = n, !.markerDefault = d] :
        n \in {"id", "q"}, d \in BOOLEAN}
    \cup {[Plain EXCEPT !.marker = m, !.base = b, !.alias = a, !.markerDefault = d, !.default = e] :
        m \in {"query", "header", "cookie"}, b \in {"str", "int"}, a \in BOOLEAN, d \in BOOLEAN,
        e \in {"none", "value"}}
    \cup {[Plain EXCEPT !.marker = "depends", !.dep = d, !.base = "service", !.default = e] :
        d \in {"none"} \cup Dependencies, e \in {"none", "value"}}
    \cup {[Plain EXCEPT !.name = n, !.base = b, !.default = e] :
        n \in {"request", "id", "q"},
        b \in {"str", "int", "bool", "body", "background", "service", Unannotated},
        e \in {"none", "value", "user"}}

Both == {<<[Plain EXCEPT !.marker = "depends", !.base = "service", !.default = "value"],
           [Plain EXCEPT !.name = "id", !.base = "other"]>>}

Signatures == {<<p>> : p \in Parameters} \cup Both

One(router, sig, attrs, deps) ==
    [Route(router, "one", <<Param("id", "str")>>, {"GET"})
        EXCEPT !.sig = sig, !.attrs = attrs, !.deps = deps]

Included == [kind |-> "include", router |-> App, child |-> "router"]
Service == [kind |-> "provider", type |-> "service"]

SignaturePrograms ==
    {{One(App, sig, {}, <<>>), Service} : sig \in Signatures}
    \cup {{One("router", sig, {}, <<>>), Included, Service} : sig \in Signatures}
    \cup {{One(App, IF "static" \in attrs THEN <<>> ELSE <<Plain>>, attrs, deps)} :
            attrs \in SUBSET {"permissions", "deprecated", "exclude", "static", "middleware", "hidden"},
            deps \in {<<>>, <<"user">>}}

MCPrograms == RoutingPrograms \cup SignaturePrograms

MCPrefix == [r \in Routers |-> IF r = App THEN <<>> ELSE <<Static("a")>>]
MCRouterDeps == [r \in Routers |-> IF r = App THEN <<>> ELSE <<"scoped">>]

MCVersion == [r \in Routers |-> IF r = App THEN "none" ELSE "v1"]

\* Every marker and none, as a string and as a number, and the empty signature.
MCRevisions ==
    {<<>>} \cup {<<[Plain EXCEPT !.marker = m, !.base = b, !.default = e]>> :
        m \in {"none", "query", "header"}, b \in {"str", "int"}, e \in {"none", "value"}}

\* All paths of one or two segments, and those one deeper than a/b or b/a.
Text == {"a", "b", "7", ""}
MCPaths == [1..1 -> Text] \cup [1..2 -> Text]
             \cup {<<p[1], p[2], t>> : p \in {<<"a", "b">>, <<"b", "a">>}, t \in Text}

MCDepParams == [d \in Dependencies |-> CASE d = "user" -> <<"request", "session", "bearer">>
                                         [] d = "bearer" -> <<"request">>
                                         [] d = "session" -> <<"default">>
                                         [] d = "scoped" -> <<"scopes">>
                                         [] OTHER -> <<"bare">>]

\* A client without the permission is refused whatever it sends, and a handler
\* that raises does so whatever it was given.
MCRequests ==
    {r \in [given : {{"query", "header", "cookie"} \X keys : keys \in SUBSET {"id", "q", "alias"}},
            numeral : BOOLEAN, body : {"good", "bad", "empty"}, permitted : BOOLEAN,
         handler : Endings] :
        /\ ~r.permitted => r.handler = "returns"
        /\ ~r.permitted \/ r.handler # "returns" =>
              r.given = {} /\ r.numeral /\ r.body = "good"}
=============================================================================
