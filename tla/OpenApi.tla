------------------------------ MODULE OpenApi ------------------------------
(***************************************************************************)
(* openapi/schema.py and openapi/breaking_changes.py: the document that is *)
(* made of the routes, from the signatures of their handlers and not from  *)
(* the plans that serve them, and what a comparison of two documents       *)
(* reports.                                                                *)
(*                                                                         *)
(* Of an operation the model keeps its parameters, whether it has a body   *)
(* and whether it is secured. Responses are left out: what is reported of  *)
(* them are warnings.                                                      *)
(***************************************************************************)
EXTENDS Routing, ParamPlan

CONSTANT Schemes   \* the dependencies that are instances of SecurityScheme

Simple == {"str", "int", "float", "bool"}

\* Where the document puts a parameter; "nowhere" if it leaves it out, as it
\* does with one that has no annotation, wherever that one is read.
Place(p, pathNames) ==
    IF p.name = "request" \/ p.base = Unannotated THEN "nowhere"
    ELSE IF p.marker = "path" \/ p.name \in pathNames THEN "path"
    ELSE IF p.marker \in {"query", "header", "cookie"} THEN p.marker
    ELSE IF p.marker = "depends" THEN "nowhere"
    ELSE IF p.marker = "body" \/ p.base = "body" THEN "body"
    ELSE IF HasDefault(p) /\ p.base \in Simple THEN "query"
    ELSE "nowhere"

\* _build_parameter
Listed(p, pathNames) ==
    LET place == Place(p, pathNames)
    IN  [in |-> place,
         name |-> IF p.marker = place THEN Key(p) ELSE p.name,
         required |-> \/ place = "path"
                      \/ p.marker = place /\ ~HasDefault(p) /\ ~p.markerDefault,
         type |-> p.base]

\* Whether a SecurityScheme is among what a dependency asks for. Nothing is
\* seen twice on one way down.
AsksForScheme ==
    LET asks[n \in 0..Depth] ==
            IF n = 0 THEN [d \in Dependencies |-> FALSE]
            ELSE [d \in Dependencies |-> \E a \in ToSet(DepParams[d]) \cap Dependencies :
                                            a \in Schemes \/ asks[n - 1][a]]
    IN  asks[Depth]

\* The function a parameter names in Depends(...), wherever it does so.
Named(p) == {p.dep, p.default} \cap Dependencies

\* _build_operation
Operation(sig, pathNames) ==
    LET at(places) == {p \in ToSet(sig) : Place(p, pathNames) \in places}
    IN  [params |-> {Listed(p, pathNames) : p \in at({"path", "query", "header", "cookie"})},
         body |-> at({"body"}) # {},
         secured |-> \E p \in ToSet(sig) : \E d \in Named(p) :
                        d \in Schemes \/ AsksForScheme[d]]

\* _convert_path: the converter of a parameter is not shown.
Converted(path) == [i \in DOMAIN path |-> <<path[i].converter = "static", path[i].text>>]

\* Where the document shows a route.
Slots(route) == {<<Converted(route.path), m>> : m \in route.methods \ {"HEAD"}}

\* generate_openapi over the routes of a version, later routes over earlier.
Document(routes, version) ==
    LET shown == {i \in DOMAIN routes : /\ "hidden" \notin routes[i].attrs
                                       /\ version \in {"__all__", routes[i].version}}
        latest(slot) == CHOOSE i \in shown :
                            /\ slot \in Slots(routes[i])
                            /\ \A j \in shown : slot \in Slots(routes[j]) => j <= i
    IN  [slot \in UNION {Slots(routes[i]) : i \in shown} |->
            LET route == routes[latest(slot)] IN Operation(route.sig, ParamNames(route.path))]

-----------------------------------------------------------------------------
(* detect_breaking_changes                                                 *)

Change(kind, breaking, slot) == [kind |-> kind, breaking |-> breaking, slot |-> slot]

ById(op) == {<<p.name, p.in>> : p \in op.params}
Of(op, id) == CHOOSE p \in op.params : <<p.name, p.in>> = id

\* Mutant of TypesDiffer: the comparison of types is forgotten.
TypesDifferNever(old, new) == FALSE

TypesDiffer(old, new) == old.type \in Simple /\ new.type \in Simple /\ old.type # new.type

\* _compare_operation. A parameter that both have is compared by its type, not
\* by whether it is required; a body is not compared.
CompareOperation(slot, old, new) ==
    {Change("parameter_removed", Of(old, id).required, slot) : id \in ById(old) \ ById(new)}
    \cup {Change("parameter_added_required", TRUE, slot) :
            id \in {i \in ById(new) \ ById(old) : Of(new, i).required}}
    \cup {Change("parameter_type_changed", TRUE, slot) :
            id \in {i \in ById(new) \cap ById(old) : TypesDiffer(Of(old, i), Of(new, i))}}

DetectBreakingChanges(old, new) ==
    {Change("path_or_method_removed", TRUE, slot) : slot \in DOMAIN old \ DOMAIN new}
    \cup UNION {CompareOperation(slot, old[slot], new[slot]) :
                    slot \in DOMAIN old \cap DOMAIN new}

=============================================================================
