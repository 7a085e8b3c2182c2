----------------------------- MODULE ParamPlan -----------------------------
(***************************************************************************)
(* di/param_plan.py and di/resolver.py: what a handler's parameters are    *)
(* given.  A plan made at registration says where each comes from;         *)
(* resolve_from_plan and the trivial path of app.py follow it, and         *)
(* resolve_dependencies reads the signature again for every request.       *)
(*                                                                         *)
(* A parameter is a record of what its declaration says: its name, the     *)
(* marker in its annotation, its type, its default.  A request gives one   *)
(* raw value under some keys of its path, query, headers and cookies.      *)
(***************************************************************************)
EXTENDS Naturals, FiniteSets, Sequences, SequencesExt

CONSTANTS
    Dependencies,  \* functions a Depends(...) names
    DepParams,     \* what each takes: "request", "scopes", "default", "bare"
                   \* or a dependency of its own
    Generators     \* those that yield, and are closed after the request

\* A Depends names a function that was there before it.
ASSUME DependenciesAssumption ==
    /\ IsFiniteSet(Dependencies)
    /\ DepParams \in [Dependencies -> Seq(STRING)]
    /\ \E rank \in [Dependencies -> 1..Cardinality(Dependencies)] :
          \A d \in Dependencies : \A a \in ToSet(DepParams[d]) \cap Dependencies :
              rank[a] < rank[d]

\* The type of a parameter that has no annotation, and so no marker.
Unannotated == "unannotated"

\* What the declaration of a parameter says. Only markers for a part of the
\* request have an alias and a default.
Parameter ==
    {p \in [name : STRING, marker : {"none", "path", "query", "header", "cookie", "depends", "body"},
            dep : STRING, base : STRING, alias : BOOLEAN, markerDefault : BOOLEAN,
            default : STRING] :
        /\ p.alias \/ p.markerDefault => p.marker \in {"path", "query", "header", "cookie"}
        /\ p.base = Unannotated => p.marker = "none"}

Default == <<"default">>            \* what the signature gives
MarkerDefault == <<"marker default">>
Nothing == <<"None">>
Omitted == <<"omitted">>            \* no such keyword argument
Invalid == <<"422">>                \* RequestValidationError
Unresolved == <<"LookupError">>
Failure == {Invalid, Unresolved}

-----------------------------------------------------------------------------
(* The request                                                             *)

Given(req, place, key) == <<place, key>> \in req.given

Key(p) == IF p.alias THEN "alias" ELSE p.name

\* Only numerals are numbers; each string is some truth value.
Coerce(req, type) ==
    CASE type \in {"int", "float"} -> IF req.numeral THEN <<type>> ELSE Invalid
      [] type = "bool" -> <<"bool">>
      [] OTHER -> <<"str">>

\* Path parameters were converted by the router.
PathValue == <<"converted">>

-----------------------------------------------------------------------------
(* Callables of Depends(...)                                               *)

\* The functions that ran, in order, the generators among them that are to be
\* closed, and whether one of them could not be called.
NoCalls == [ran |-> <<>>, cleanup |-> <<>>, broken |-> FALSE]

\* One more argument, after what the others did; calls says what a dependency
\* of its own does.
Argument(done, a, calls) ==
    IF done.broken \/ a \notin Dependencies THEN done
    ELSE [ran |-> done.ran \o calls[a].ran, cleanup |-> done.cleanup \o calls[a].cleanup,
          broken |-> calls[a].broken]

Arguments(params, calls) ==
    LET done[n \in 0..Len(params)] ==
            IF n = 0 THEN NoCalls ELSE Argument(done[n - 1], params[n], calls)
    IN  done[Len(params)]

\* A function is called once its dependencies have run; the call raises if an
\* argument is missing.
CallDependency(d, calls, supplied) ==
    LET args == Arguments(DepParams[d], calls)
    IN  IF args.broken \/ ~(ToSet(DepParams[d]) \subseteq Dependencies \cup supplied)
        THEN [args EXCEPT !.broken = TRUE]
        ELSE [args EXCEPT !.ran = Append(@, d),
                          !.cleanup = IF d \in Generators THEN Append(@, d) ELSE @]

\* No dependency is deeper than there are dependencies.
Depth == Cardinality(Dependencies)

CallsTo(depth, supplied) ==
    LET calls[n \in 0..depth] ==
            IF n = 0 THEN [d \in Dependencies |-> NoCalls]
            ELSE [d \in Dependencies |-> CallDependency(d, calls[n - 1], supplied)]
    IN  calls

\* _build_dep_callable_plan and _execute_dep_plan; a parameter without a
\* default gets nothing.
ExecuteDepPlan == CallsTo(Depth, {"request", "scopes", "default"})[Depth]

\* _resolve_callable_dep does not know SecurityScopes.
ResolveCallableDep == CallsTo(Depth, {"request", "default"})[Depth]

DependencyValue(calls) == IF calls.broken THEN Unresolved ELSE <<"dependency">> \o calls.ran

-----------------------------------------------------------------------------
(* build_handler_plan                                                      *)

\* Where the value comes from; markers first, then what the type and the name
\* say.
Source(p, services, pathNames) ==
    IF p.marker \in {"path", "query", "header", "cookie"} THEN p.marker
    ELSE IF p.marker = "depends" THEN IF p.dep \in Dependencies THEN "callable" ELSE "container"
    ELSE IF p.default \in Dependencies THEN "default callable"
    ELSE IF p.marker = "body" \/ p.base = "body" THEN "body"
    ELSE IF p.name = "request" THEN "request"
    ELSE IF p.base = "background" THEN "background"
    ELSE IF p.name \in pathNames THEN "implicit path"
    ELSE IF p.base \in services THEN "service"
    ELSE "implicit query"

CoerceType(p) == IF p.base \in {"int", "float", "bool"} THEN p.base ELSE "none"

\* ParamSpec: the declaration with what was found out about it.
SpecOf(p, services, pathNames) ==
    [param |-> p, source |-> Source(p, services, pathNames), coerce |-> CoerceType(p)]

BuildHandlerPlan(sig, services, pathNames) ==
    [i \in DOMAIN sig |-> SpecOf(sig[i], services, pathNames)]

NeedsScope(plan) == \E i \in DOMAIN plan : plan[i].source \in {"container", "service"}

-----------------------------------------------------------------------------
(* resolve_from_plan                                                       *)

HasDefault(p) == p.default # "none"

\* Marker's default, then the signature's, then None.
Fallback(p) ==
    IF p.markerDefault THEN MarkerDefault ELSE IF HasDefault(p) THEN Default ELSE Nothing

BodyValue(req, p) ==
    IF req.body = "good" THEN <<"decoded">>
    ELSE IF req.body = "bad" THEN Invalid
    ELSE IF HasDefault(p) THEN Default
    ELSE Invalid

\* The scope or the container knows the type, or the default steps in.
ContainerValue(p, services) ==
    IF p.base \in services THEN <<"instance">>
    ELSE IF HasDefault(p) THEN Default
    ELSE Unresolved

\* A parameter with Path(): the default of its marker, then None.
MarkedPath(req, p) ==
    IF Given(req, "path", Key(p)) THEN PathValue
    ELSE IF p.markerDefault THEN MarkerDefault ELSE Nothing

FromPlan(spec, req, services) ==
    LET p == spec.param
    IN  CASE spec.source = "path" -> MarkedPath(req, p)
          [] spec.source = "query" ->
               IF Given(req, "query", Key(p)) THEN Coerce(req, spec.coerce) ELSE Fallback(p)
          [] spec.source \in {"header", "cookie"} ->
               IF Given(req, spec.source, Key(p)) THEN <<"str">> ELSE Fallback(p)
          [] spec.source = "body" -> BodyValue(req, p)
          [] spec.source = "callable" -> DependencyValue(ExecuteDepPlan[p.dep])
          [] spec.source = "default callable" -> DependencyValue(ExecuteDepPlan[p.default])
          [] spec.source = "container" -> ContainerValue(p, services)
          [] spec.source = "service" -> IF p.base \in services THEN <<"instance">> ELSE Unresolved
          [] spec.source \in {"request", "background"} -> <<spec.source>>
          [] spec.source = "implicit path" ->
               IF Given(req, "path", p.name) THEN PathValue ELSE Nothing
          [] OTHER ->
               IF Given(req, "query", p.name) THEN Coerce(req, spec.coerce)
               ELSE IF HasDefault(p) THEN Default ELSE Omitted

ResolveFromPlan(plan, req, services) ==
    [i \in DOMAIN plan |-> FromPlan(plan[i], req, services)]

-----------------------------------------------------------------------------
(* resolve_dependencies                                                    *)

\* _coerce_value, after the type has lost its None.
CoerceValue(req, type) ==
    IF type = "bool" THEN <<"bool">>
    ELSE IF type \notin {"int", "float"} THEN <<"str">>
    ELSE IF req.numeral THEN <<type>> ELSE Invalid

\* What a parameter is given when the signature is read at request time.
FromSignature(p, req, services) ==
    LET coerced == CoerceValue(req, p.base)
    IN  IF p.marker = "path" THEN MarkedPath(req, p)
        ELSE IF p.marker = "query"
          THEN IF Given(req, "query", Key(p)) THEN coerced ELSE Fallback(p)
        ELSE IF p.marker \in {"header", "cookie"}
          THEN IF Given(req, p.marker, Key(p)) THEN <<"str">> ELSE Fallback(p)
        ELSE IF p.marker = "depends"
          THEN IF p.dep \in Dependencies THEN DependencyValue(ResolveCallableDep[p.dep])
               ELSE ContainerValue(p, services)
        ELSE IF p.marker = "body" \/ p.base = "body" THEN BodyValue(req, p)
        ELSE IF p.name = "request" THEN <<"request">>
        ELSE IF p.base = "background" THEN <<"background">>
        ELSE IF Given(req, "path", p.name) THEN PathValue
        ELSE IF p.base \in services THEN <<"instance">>
        ELSE IF Given(req, "query", p.name) THEN coerced
        ELSE IF HasDefault(p) THEN Default
        ELSE Omitted

ResolveDependencies(sig, req, services) ==
    [i \in DOMAIN sig |-> FromSignature(sig[i], req, services)]

-----------------------------------------------------------------------------
(* The trivial path of app.py has a resolver of its own                    *)

TrivialSources == {"request", "path", "implicit path", "query", "implicit query"}

TrivialValue(spec, req) ==
    LET p == spec.param
        default == IF p.markerDefault THEN MarkerDefault ELSE Nothing
    IN  CASE spec.source = "request" -> <<"request">>
          [] spec.source \in {"path", "implicit path"} ->
               IF Given(req, "path", Key(p)) THEN PathValue ELSE default
          [] OTHER ->
               IF Given(req, "query", Key(p)) THEN Coerce(req, spec.coerce)
               ELSE IF p.markerDefault THEN MarkerDefault
               ELSE IF HasDefault(p) THEN Default ELSE Omitted

ResolveTrivial(plan, req) == [i \in DOMAIN plan |-> TrivialValue(plan[i], req)]
=============================================================================
