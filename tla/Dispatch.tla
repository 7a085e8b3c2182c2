------------------------------ MODULE Dispatch ------------------------------
(***************************************************************************)
(* routing/router.py, version_router.py, controllers.py and the dispatch   *)
(* of app.py: an application registers routes on itself and on routers,    *)
(* includes the routers, mounts other applications, and answers requests   *)
(* in between.  What a request is answered with is a function of the       *)
(* tables, so the actions are the registrations and the properties speak   *)
(* of every request there can be.                                          *)
(***************************************************************************)
EXTENDS OpenApi

CONSTANTS
    Routers,       \* the application "app" and the routers
    Prefix,        \* of each, with the version of a VersionRouter in front
    RouterDeps,    \* dependencies of each
    Version,       \* the API version of each, or "none"
    Programs,      \* what an application may register, see Init
    Paths,         \* of requests
    Methods,
    Revisions,     \* signatures a handler may be changed to
    Requests       \* what else a request brings along, see ParamPlan

App == "app"

\* How the handler may end, and the status its client is told by the except
\* clauses of _execute_route; "500" is whatever _handle_exception answers, "own"
\* the status of an HTTPException. A handler raises RequestEntityTooLarge when
\* it reads a body that is too large itself.
FullClauses == [returns |-> "ok", TimeoutError |-> "504", RequestValidationError |-> "422",
                MissingCredentialError |-> "401", RequestEntityTooLarge |-> "413",
                HTTPException |-> "own", Exception |-> "500"]

Endings == DOMAIN FullClauses

\* _execute_trivial_route has no clause of their own for two of them.
TrivialClauses == [FullClauses EXCEPT !.MissingCredentialError = FullClauses.Exception,
                                      !.RequestEntityTooLarge = FullClauses.Exception]

ASSUME RoutersAssumption ==
    /\ App \in Routers
    /\ Prefix \in [Routers -> Seq(Segment)]
    /\ RouterDeps \in [Routers -> Seq(STRING)]
    /\ Version \in [Routers -> STRING]

Attributes == {"permissions", "model", "exclude", "deprecated", "middleware", "streaming", "sync",
               "static", "hidden"}

\* What may be registered. Only a handler without parameters has its answer
\* built at registration.
RouteDeclarations ==
    {g \in [kind : {"route"}, router : Routers, name : STRING, path : Seq(Segment),
            methods : SUBSET Methods, sig : Seq(Parameter), deps : Seq(STRING),
            attrs : SUBSET Attributes] :
        "static" \in g.attrs => g.sig = <<>>}
Registrations ==
    RouteDeclarations
    \cup [kind : {"controller"}, router : Routers, path : Seq(Segment),
          actions : Seq(RouteDeclarations)]
    \cup [kind : {"include"}, router : Routers, child : Routers]
    \cup [kind : {"mount"}, router : Routers, path : Seq(STRING), name : STRING]
    \cup [kind : {"provider"}, type : STRING \ {Unannotated}]

ASSUME ProgramsAssumption == \A p \in Programs : \A g \in p : g \in Registrations
ASSUME RequestsAssumption ==
    /\ \A path \in Paths : path \in Seq(STRING) /\ path # <<>>
    /\ \A sig \in Revisions : sig \in Seq(Parameter)
    /\ \A r \in Requests :
          /\ \A part \in r.given : part \in {"query", "header", "cookie"} \X STRING
          /\ r = [given |-> r.given, numeral |-> r.numeral, body |-> r.body,
                  permitted |-> r.permitted, handler |-> r.handler]
          /\ r.handler \in Endings

VARIABLES
    program,       \* what is registered, in any order
    done,          \* registrations that were made or were refused
    tree,          \* Router._tree of each router
    routes,        \* RadixTree._routes
    mounts,        \* Router._mounts, in order
    services,      \* Container._providers
    schema,        \* HawkAPI._openapi_cache: no or one document by version
    refused        \* history: routes whose registration raised

registered == <<tree, routes, mounts>>
vars == <<program, done, registered, services, schema, refused>>

Versions == {"__all__"} \cup ({Version[r] : r \in Routers} \ {"none"})
NoSchema == [v \in Versions |-> {}]

\* A program is a set of registrations: routes and mounts on a router, whole
\* controllers, routers to include, and providers.
Init ==
    /\ program \in Programs
    /\ done = {}
    /\ tree = [r \in Routers |-> EmptyTree]
    /\ routes = [r \in Routers |-> <<>>]
    /\ mounts = [r \in Routers |-> <<>>]
    /\ services = {}
    /\ schema = NoSchema
    /\ refused = {}

-----------------------------------------------------------------------------
(* What a route is made of                                                 *)

\* What keeps a route from the trivial path; "static" does not.
Features == {"permissions", "model", "exclude", "deprecated", "middleware", "streaming", "sync"}

\* Mutant of ComputeTrivial: the dependencies are not looked at.
ComputeTrivialForgetsDeps(plan, attrs, deps) ==
    attrs \cap Features = {} /\ \A i \in DOMAIN plan : plan[i].source \in TrivialSources

ComputeTrivial(plan, attrs, deps) ==
    /\ attrs \cap Features = {} /\ deps = <<>>
    /\ \A i \in DOMAIN plan : plan[i].source \in TrivialSources

\* Only the application has a container.
Known(router) == IF router = App THEN services ELSE {}

\* dependencies=[...] of the router, then those of the route.
SideEffects(router, deps) == RouterDeps[router] \o deps

\* Router.add_route: registration g on a router. planned keeps what the plan
\* was made from.
MakeRoute(router, g) ==
    LET path == Prefix[router] \o g.path
        planned == [services |-> Known(router), names |-> ParamNames(path)]
        plan == BuildHandlerPlan(g.sig, planned.services, planned.names)
        deps == SideEffects(router, g.deps)
    IN  [name |-> g.name, path |-> path, methods |-> g.methods, sig |-> g.sig, deps |-> deps,
         version |-> Version[router], attrs |-> g.attrs, plan |-> plan, planned |-> planned,
         trivial |-> ComputeTrivial(plan, g.attrs, deps)]

\* Mutant of Rebuilt: the router's plan is good enough.
RebuiltNever(route, planned) == route.plan

Rebuilt(route, planned) == BuildHandlerPlan(route.sig, planned.services, planned.names)

\* Router.include_router: a copy of the route, with a plan made again if it is
\* the application that includes it, unless the plan needed a scope already. The
\* exclude flags are not copied, although the choice of the path still looks at
\* them.
Merged(parent, route) ==
    LET path == Prefix[parent] \o route.path
        again == parent = App /\ ~NeedsScope(route.plan)
        planned == IF again THEN [services |-> services, names |-> ParamNames(path)]
                   ELSE route.planned
        plan == IF again THEN Rebuilt(route, planned) ELSE route.plan
        deps == SideEffects(parent, route.deps)
    IN  [name |-> route.name, path |-> path, methods |-> route.methods, sig |-> route.sig,
         deps |-> deps, version |-> route.version, attrs |-> route.attrs \ {"exclude"},
         plan |-> plan, planned |-> planned,
         trivial |-> ComputeTrivial(plan, route.attrs, deps)]

-----------------------------------------------------------------------------
(* Registration                                                            *)

\* Every way one route can be inserted, unless one before it raised.
InsertedInto(table, route) ==
    IF table.raised THEN {table}
    ELSE {[tree |-> r.tree, raised |-> r.raised,
           routes |-> IF r.raised THEN table.routes ELSE Append(table.routes, route),
           refused |-> IF r.raised THEN table.refused \cup {route} ELSE table.refused] :
          r \in Insert(table.tree, route)}

\* Routes inserted one after the other.
InsertedAll(start, new) ==
    LET tables[n \in 0..Len(new)] ==
            IF n = 0 THEN {start}
            ELSE UNION {InsertedInto(table, new[n]) : table \in tables[n - 1]}
    IN  tables

\* Routes registered on a router, and its mounts if none of them raises.
Register(router, new, joined) ==
    \E table \in InsertedAll([tree |-> tree[router], routes |-> routes[router],
                              refused |-> refused, raised |-> FALSE], new)[Len(new)] :
        /\ tree' = [tree EXCEPT ![router] = table.tree]
        /\ routes' = [routes EXCEPT ![router] = table.routes]
        /\ refused' = table.refused
        /\ mounts' = IF table.raised THEN mounts ELSE [mounts EXCEPT ![router] = joined]

\* Mutant of Invalidated: what was generated stays.
InvalidatedNever(router) == schema

Invalidated(router) == IF router = App THEN NoSchema ELSE schema

Begin(g) == g \in program \ done /\ done' = done \cup {g}

AddRoute(g) ==
    /\ Begin(g) /\ g.kind = "route"
    /\ Register(g.router, <<MakeRoute(g.router, g)>>, mounts[g.router])
    /\ schema' = Invalidated(g.router)
    /\ UNCHANGED <<program, services>>

\* Controller.collect_routes: its decorated methods, by their names.
CollectRoutes(g) == [i \in DOMAIN g.actions |-> [g.actions[i] EXCEPT !.path = g.path \o @]]

\* include_controller: every one of them, under the controller's prefix.
IncludeController(g) ==
    /\ Begin(g) /\ g.kind = "controller"
    /\ Register(g.router, [i \in DOMAIN g.actions |-> MakeRoute(g.router, CollectRoutes(g)[i])],
                mounts[g.router])
    /\ schema' = Invalidated(g.router)
    /\ UNCHANGED <<program, services>>

\* Mounts are compared with the path as it is, a parameter matches nothing.
MountPath(router, path) ==
    [i \in DOMAIN Prefix[router] |->
        IF IsParam(Prefix[router][i]) THEN "{}" ELSE Prefix[router][i].text] \o path

\* A dict by path: what is there already keeps its place.
AddMount(table, m) ==
    IF \E i \in DOMAIN table : table[i].path = m.path
    THEN [i \in DOMAIN table |-> IF table[i].path = m.path THEN m ELSE table[i]]
    ELSE Append(table, m)

MergeMounts(router, table, of) ==
    FoldLeft(LAMBDA merged, m : AddMount(merged, [m EXCEPT !.path = MountPath(router, @)]),
             table, of)

\* include_router: the routes first, and the mounts only if none of them raises.
IncludeRouter(g) ==
    LET new == [i \in DOMAIN routes[g.child] |-> Merged(g.router, routes[g.child][i])]
    IN  /\ Begin(g) /\ g.kind = "include"
        /\ Register(g.router, new, MergeMounts(g.router, mounts[g.router], mounts[g.child]))
        /\ schema' = Invalidated(g.router)
        /\ UNCHANGED <<program, services>>

\* The path of a mount at "/" is prefix + "/", with an empty last segment.
Mount(g) ==
    /\ Begin(g) /\ g.kind = "mount"
    /\ mounts' = [mounts EXCEPT ![g.router] =
           AddMount(@, [path |-> MountPath(g.router, IF g.path = <<>> THEN <<"">> ELSE g.path),
                        name |-> g.name])]
    /\ UNCHANGED <<program, tree, routes, services, schema, refused>>

\* A provider is registered before or after the routes that want it.
Provide(g) ==
    /\ Begin(g) /\ g.kind = "provider"
    /\ services' = services \cup {g.type}
    /\ UNCHANGED <<program, registered, schema, refused>>

\* HawkAPI.openapi: generated once, then cached.
Openapi(version) ==
    /\ schema[version] = {}
    /\ schema' = [schema EXCEPT ![version] = {Document(routes[App], version)}]
    /\ UNCHANGED <<program, done, registered, services, refused>>

Next ==
    \/ \E g \in program :
          AddRoute(g) \/ IncludeController(g) \/ IncludeRouter(g) \/ Mount(g) \/ Provide(g)
    \/ \E version \in Versions : Openapi(version)

Spec == Init /\ [][Next]_vars

-----------------------------------------------------------------------------
(* _core_handler_inner                                                     *)

\* The mounts a path begins with, in order.
MountedAt(path) == SelectSeq(mounts[App], LAMBDA m : IsPrefix(m.path, path))

Target(path, method) ==
    LET result == Lookup(tree[App], path, method)
        allowed == FindAllowedMethods(tree[App], path)
        mounted == MountedAt(path)
    IN  CASE result.found -> [by |-> "route", route |-> result.route]
          [] ~result.found /\ mounted # <<>> ->
                [by |-> "mount", mount |-> Head(mounted).name,
                 rest |-> SubSeq(path, Len(Head(mounted).path) + 1, Len(path))]
          [] ~result.found /\ mounted = <<>> /\ allowed # {} -> [by |-> "405", allowed |-> allowed]
          [] OTHER -> [by |-> "404"]

\* A request that was led to the route carries the parameters of its path.
For(route, req) ==
    [req EXCEPT !.given = @ \cup {<<"path", name>> : name \in ParamNames(route.path)}]

\* What a route does with a request: which of the things its registration asks
\* for happen, and what the client is answered.
Answer(status, kwargs, ran, headers) ==
    [status |-> status, kwargs |-> kwargs, ran |-> ran, headers |-> headers]

\* How the handler ends this time; that of a static route only returns.
Ending(route, req) == IF "static" \in route.attrs THEN "returns" ELSE req.handler

\* The handler is called and ends with a status; a parameter without value and
\* default raises.
Called(sig, kwargs, ran, headers, status) ==
    LET broken == \E i \in DOMAIN sig : kwargs[i] = Omitted /\ ~HasDefault(sig[i])
        given == [i \in DOMAIN sig |-> IF kwargs[i] = Omitted THEN Default ELSE kwargs[i]]
    IN  CASE Invalid \in ToSet(kwargs) -> Answer("422", <<>>, ran, headers)
          [] Unresolved \in ToSet(kwargs) \/ broken -> Answer("500", <<>>, ran, headers)
          [] OTHER -> Answer(status, given, ran, headers)

FullAnswer(route, req) ==
    LET headers == route.attrs \cap {"deprecated"}
        permitted == "permissions" \in route.attrs => req.permitted
        kwargs == ResolveFromPlan(route.plan, req, services)
        status == FullClauses[Ending(route, req)]
    IN  CASE ~permitted -> Answer("403", <<>>, <<>>, headers)
          [] permitted /\ ToSet(kwargs) \cap Failure # {} ->
                Called(route.sig, kwargs, <<>>, headers, status)
          [] OTHER -> Called(route.sig, kwargs, route.deps, headers, status)

TrivialAnswer(route, req) ==
    Called(route.sig, ResolveTrivial(route.plan, req), <<>>, {},
           TrivialClauses[Ending(route, req)])

\* The handler would take nothing and return what was built at registration.
StaticAnswer == Answer("ok", <<>>, <<>>, {})

FastAnswer(route, req) ==
    CASE "middleware" \in route.attrs -> FullAnswer(route, req)
      [] "static" \in route.attrs /\ "middleware" \notin route.attrs -> StaticAnswer
      [] route.trivial /\ "static" \notin route.attrs -> TrivialAnswer(route, req)
      [] OTHER -> FullAnswer(route, req)

-----------------------------------------------------------------------------
\* Every route that was registered, included ones too, and nothing else but
\* parts of a route whose registration raised answers a request, whatever was
\* registered before and after it.
RoutesAnswer ==
    LET answering == {<<h.route, h.method>> : h \in tree[App].handlers}
    IN  /\ \A r \in ToSet(routes[App]) : \A m \in r.methods : <<r, m>> \in answering
        /\ \A a \in answering : a[1] \in ToSet(routes[App]) \cup refused

\* The tree finds, for every path and method, the most specific template that
\* fits, with the parameters of that template and of no other, in whichever
\* order the routes came; and where it finds nothing no template fits.
LookupMostSpecific ==
    \A path \in Paths, method \in Methods :
        LET segs == Segments(path)
            result == Lookup(tree[App], path, method)
            answering == Answering(tree[App].handlers, segs, method)
        IN  IF result.found
            THEN /\ result.route \in answering
                 /\ \A r \in answering : ~MoreSpecific(r.path, result.route.path)
                 /\ result.params = Bound(result.route.path, segs)
            ELSE answering = {}

\* A path is "not found" only if no method is answered there, "not allowed"
\* only for a method that is not, and the methods named are those that are;
\* a mount takes what no route of the same path and method answers.
AllowedIsTrue ==
    \A path \in Paths :
        LET answered == {m \in Methods : Target(path, m).by = "route"}
        IN  \A method \in Methods \ answered :
                LET target == Target(path, method)
                IN  /\ target.by = "404" => answered = {}
                    /\ target.by = "405" => target.allowed = answered

\* The routing of an application, after any sequence of registrations, is what
\* the templates alone say.
RoutingCorrect == RoutesAnswer /\ LookupMostSpecific /\ AllowedIsTrue

\* A parameter with Query() that has no default at all is None to the full
\* path and missing to the trivial one.
MissingQuery(route, req) ==
    \E i \in DOMAIN route.plan :
        /\ route.plan[i].source = "query"
        /\ FromPlan(route.plan[i], req, services) = Nothing

\* A static route ignores whatever else was asked for at its registration.
StaticIgnores(route) ==
    "static" \in route.attrs /\ (route.deps # <<>> \/ route.attrs \cap {"permissions", "deprecated"} # {})

\* A handler on the trivial path that raises itself what only the full path has
\* a clause for, such as one that reads a body that is too large.
WithoutClause(route, req) ==
    route.trivial /\ Ending(route, req) \in {"MissingCredentialError", "RequestEntityTooLarge"}

\* "Only safe to call when route._trivial is True": the short ways answer as
\* the full execution would, for every request and every end of the handler,
\* but for the first two cases above; in the third they call the handler with
\* the same arguments, and tell its client 500 instead of 401 or 413.
FastPathsAgree ==
    \A i \in DOMAIN routes[App] :
        LET route == routes[App][i]
        IN  \A req \in Requests :
                LET fast == FastAnswer(route, For(route, req))
                    full == FullAnswer(route, For(route, req))
                IN  \/ MissingQuery(route, req) \/ StaticIgnores(route)
                    \/ fast = full
                    \/ /\ WithoutClause(route, req) /\ full.status \in {"401", "413"}
                       /\ fast = [full EXCEPT !.status = "500"]

\* What the legacy resolver has no notion of: Depends(f) as a default value and
\* SecurityScopes.
OnlyInPlans(sig) ==
    \E i \in DOMAIN sig :
        \/ sig[i].default \in Dependencies
        \/ sig[i].dep \in Dependencies /\ ExecuteDepPlan[sig[i].dep] # ResolveCallableDep[sig[i].dep]

\* A plan that was made when the container knew other types, or before the path
\* had all of its parameters, and was not made again.
Stale(route) == route.planned # [services |-> services, names |-> ParamNames(route.path)]

\* "Same logic as resolver.py but run once at registration time": a plan gives
\* every parameter what its signature would give it at the request, on a route
\* of the application as on one that came from a router.
PlanFollowsSignature ==
    \A i \in DOMAIN routes[App] :
        LET route == routes[App][i]
        IN  Stale(route) \/ OnlyInPlans(route.sig) \/
            \A req \in Requests :
                ResolveFromPlan(route.plan, For(route, req), services)
                    = ResolveDependencies(route.sig, For(route, req), services)

\* Where a plan reads a parameter from the request.
ReadFrom(spec) ==
    CASE spec.source \in {"path", "query", "header", "cookie"} -> <<spec.source, Key(spec.param)>>
      [] spec.source = "implicit path" -> <<"path", spec.param.name>>
      [] spec.source = "implicit query" -> <<"query", spec.param.name>>
      [] OTHER -> <<"nowhere">>

\* What schema.py sees differently: a parameter without annotation, which it
\* skips although it may be one of the path; one with the name of one of the
\* path, or called request, that its marker or its type has read elsewhere;
\* one with a simple type and a default that is a Depends or whose type the
\* container provides, listed as a query parameter; a parameter of the query
\* without a default or without a simple type.
SeenDifferently(spec, pathNames) ==
    LET p == spec.param
    IN  \/ p.base = Unannotated /\ spec.source = "implicit path"
        \/ p.name \in pathNames /\ spec.source \notin {"path", "implicit path"}
        \/ p.name = "request" /\ spec.source # "request"
        \/ spec.source = "default callable"
        \/ spec.source = "service" /\ HasDefault(p) /\ p.base \in Simple
        \/ spec.source = "implicit query" /\ (~HasDefault(p) \/ p.base \notin Simple)

ListedWhereRead(route) ==
    \A i \in DOMAIN route.plan :
        LET spec == route.plan[i]
            listed == Listed(spec.param, ParamNames(route.path))
        IN  \/ SeenDifferently(spec, ParamNames(route.path))
            \/ ReadFrom(spec) =
                   IF listed.in \in {"nowhere", "body"} THEN <<"nowhere">>
                   ELSE <<listed.in, listed.name>>

\* A SecurityScheme that a parameter brings in is shown; one that comes by
\* dependencies=[...] alone is not.
SecurityTold(route) ==
    LET op == Operation(route.sig, ParamNames(route.path))
        ran == UNION {ToSet(ExecuteDepPlan[d].ran) : d \in UNION {Named(p) : p \in ToSet(route.sig)}}
    IN  ran \cap Schemes # {} => op.secured

\* The OpenAPI documents in the cache, by version, show the routes there are,
\* with their parameters where the plans of these routes read them and the
\* security schemes their handlers ask for; but for what is said above.
SchemaTrue ==
    /\ \A v \in Versions : schema[v] \subseteq {Document(routes[App], v)}
    /\ \A i \in DOMAIN routes[App] :
          ListedWhereRead(routes[App][i]) /\ SecurityTold(routes[App][i])

\* The route after its handler has got another signature.
Revised(route, sig) ==
    LET planned == [services |-> services, names |-> ParamNames(route.path)]
        plan == BuildHandlerPlan(sig, planned.services, planned.names)
    IN  [route EXCEPT !.sig = sig, !.plan = plan, !.planned = planned,
                      !.trivial = ComputeTrivial(plan, route.attrs, route.deps)]

\* What a client sends that knows the parameters of a document, and their
\* types, and no other.
Spoken(req, op) ==
    [req EXCEPT !.given = @ \cap {<<p.in, p.name>> : p \in op.params},
                !.numeral = @ \/ \E p \in op.params : p.type \in {"int", "float"}]

\* What no document shows of a route: a body (that there is one is shown, but
\* not compared), a parameter of the query without a default, services and
\* dependencies; what schema.py sees differently; HEAD, and routes that are to
\* be left out.
NotShown(route) ==
    LET names == ParamNames(route.path)
    IN  \/ \E p \in ToSet(route.sig) : Listed(p, names).in \in {"nowhere", "body"}
        \/ \E i \in DOMAIN route.plan : SeenDifferently(route.plan[i], names)
        \/ "hidden" \in route.attrs \/ route.methods \subseteq {"HEAD"}

\* What is shown but not compared: a type that is none of the simple ones, with
\* its successor, and all but one of the parameters that share name and place.
NotCompared(old, new) ==
    LET same(p, q) == p.name = q.name /\ p.in = q.in
    IN  \/ \E p \in old.params, q \in new.params :
              same(p, q) /\ p.type \notin Simple /\ p.type # q.type
        \/ \E p, q \in new.params : same(p, q) /\ p # q

\* "Detect API breaking changes": when a handler is changed so that a client of
\* the old document, answered before, is no longer, the comparison of the two
\* documents reports something as breaking; unless the change is in what is
\* not shown or not compared.
BreaksReported ==
    \A i \in DOMAIN routes[App] : \A sig \in Revisions :
        LET old == routes[App][i]
            new == Revised(old, sig)
            Doc(route) == Document(<<route>>, "__all__")
            Shown(route) == Operation(route.sig, ParamNames(route.path))
            serves(route, req) == FullAnswer(route, For(route, req)).status = "ok"
        IN  \/ NotShown(new) \/ NotCompared(Shown(old), Shown(new))
            \/ \E c \in DetectBreakingChanges(Doc(old), Doc(new)) : c.breaking
            \/ \A req \in {Spoken(r, Shown(old)) : r \in Requests} :
                  serves(old, req) => serves(new, req)
=============================================================================
