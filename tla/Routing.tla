------------------------------ MODULE Routing ------------------------------
(***************************************************************************)
(* routing/_radix_tree.py: registration and lookup of paths in a tree.     *)
(*                                                                         *)
(* A template is a sequence of segments, a request's path what stands      *)
(* between its slashes.  A node of the tree is named by the edges that     *)
(* lead to it.                                                             *)
(***************************************************************************)
EXTENDS Naturals, FiniteSets, Sequences, SequencesExt

CONSTANT Numerals       \* the segments that `int` accepts

Segment == [text : STRING, converter : STRING]

Static(text) == [text |-> text, converter |-> "static"]
Param(name, converter) == [text |-> name, converter |-> converter]
IsParam(seg) == seg.converter # "static"

Converters == {"str", "int"}
Converts(converter, text) == converter = "int" => text \in Numerals

ParamNames(template) == {seg.text : seg \in {s \in ToSet(template) : IsParam(s)}}

\* The function f, and v for x.
With(f, x, v) == [y \in DOMAIN f \cup {x} |-> IF y = x THEN v ELSE f[y]]

-----------------------------------------------------------------------------
(* insert                                                                  *)

\* The one edge of a node for parameters, and those for the texts.
ParamEdge == <<>>
TextEdge(text) == <<text>>
Edge(seg) == IF IsParam(seg) THEN ParamEdge ELSE TextEdge(seg.text)

\* param says name and converter of the parameter nodes; a handler is the
\* route that answers a method at a node.
EmptyTree == [nodes |-> {<<>>}, param |-> <<>>, handlers |-> {}]

\* One segment further down, to a node that is there or is made.
Descend(way, seg) ==
    LET node == Append(way.node, Edge(seg))
        known == node \in DOMAIN way.tree.param
    IN  IF way.conflict \/ (IsParam(seg) /\ seg.converter \notin Converters)
             \/ (IsParam(seg) /\ known /\ way.tree.param[node] # seg)
        THEN [way EXCEPT !.conflict = TRUE]
        ELSE [node |-> node, conflict |-> FALSE,
              tree |-> [nodes |-> way.tree.nodes \cup {node},
                        param |-> IF IsParam(seg) THEN With(way.tree.param, node, seg)
                                  ELSE way.tree.param,
                        handlers |-> way.tree.handlers]]

\* After each of the segments of a path.
Descended(tree, path) ==
    LET way[n \in 0..Len(path)] ==
            IF n = 0 THEN [tree |-> tree, node |-> <<>>, conflict |-> FALSE]
            ELSE Descend(way[n - 1], path[n])
    IN  way

Taken(tree, node) == {h.method : h \in {h \in tree.handlers : h.node = node}}

\* The tree in which a route answers some methods at a node.
Handling(tree, node, route, methods) ==
    [nodes |-> tree.nodes, param |-> tree.param,
     handlers |-> tree.handlers
         \cup {[node |-> node, method |-> m, route |-> route] : m \in methods}]

\* Registering a route raises at a parameter of another name or converter and
\* at a method that is taken.  What was put into the tree before that stays
\* there; the methods come in any order.
Insert(tree, route) ==
    LET way == Descended(tree, route.path)[Len(route.path)]
        free == route.methods \ Taken(way.tree, way.node)
        handling(methods) == Handling(way.tree, way.node, route, methods)
    IN  CASE way.conflict -> {[tree |-> way.tree, raised |-> TRUE]}
          [] ~way.conflict /\ free = route.methods ->
                {[tree |-> handling(route.methods), raised |-> FALSE]}
          [] OTHER -> {[tree |-> handling(some), raised |-> TRUE] : some \in SUBSET free}

-----------------------------------------------------------------------------
(* lookup                                                                  *)

\* The first slash and one last slash are cut off: "/" and "//" have no
\* segment, "/a//" has two.
Segments(path) ==
    LET cut == IF Last(path) = "" THEN Front(path) ELSE path
    IN  IF cut = <<"">> THEN <<>> ELSE cut

NotFound == [found |-> FALSE]

\* All segments are consumed: the route of this method at a node.
HandlerAt(tree, method, node) ==
    LET here == {h \in tree.handlers : h.node = node /\ h.method = method}
    IN  IF here = {} THEN NotFound
        ELSE [found |-> TRUE, route |-> (CHOOSE h \in here : TRUE).route, params |-> <<>>]

CanBind(tree, node, text) ==
    /\ node \in DOMAIN tree.param
    /\ Converts(tree.param[node].converter, text)

\* What is found below a parameter node, with the segment bound.  A parameter
\* of the same name further down was bound later.
Bind(param, text, result) ==
    IF result.found /\ param.text \notin DOMAIN result.params
    THEN [found |-> TRUE, route |-> result.route,
          params |-> With(result.params, param.text, <<param.converter, text>>)]
    ELSE result

\* Mutant of OrElse: nothing to come back to.
OrElseNever(first, alternative) == first

\* The alternatives of the backtrack stack, the latest first.
OrElse(first, alternative) == IF first.found THEN first ELSE alternative

\* What is found from each node on, if below is found one segment further down:
\* the way down the text is tried first, then the parameter beside it, with what
\* was bound above.
Onward(tree, text, below) ==
    [node \in tree.nodes |->
        LET static == Append(node, TextEdge(text))
            dynamic == Append(node, ParamEdge)
        IN  OrElse(IF static \in tree.nodes THEN below[static] ELSE NotFound,
                   IF CanBind(tree, dynamic, text)
                   THEN Bind(tree.param[dynamic], text, below[dynamic])
                   ELSE NotFound)]

\* With some segments left.
Search(tree, segs, method) ==
    LET below[left \in 0..Len(segs)] ==
            IF left = 0 THEN [node \in tree.nodes |-> HandlerAt(tree, method, node)]
            ELSE Onward(tree, segs[Len(segs) - left + 1], below[left - 1])
    IN  below

Lookup(tree, path, method) ==
    LET segs == Segments(path) IN Search(tree, segs, method)[Len(segs)][<<>>]

\* All branches, for the answer "method not allowed".
MethodsOnward(tree, text, below) ==
    [node \in tree.nodes |->
        LET static == Append(node, TextEdge(text))
            dynamic == Append(node, ParamEdge)
        IN  (IF static \in tree.nodes THEN below[static] ELSE {})
            \cup (IF CanBind(tree, dynamic, text) THEN below[dynamic] ELSE {})]

CollectMethods(tree, segs) ==
    LET below[left \in 0..Len(segs)] ==
            IF left = 0 THEN [node \in tree.nodes |-> Taken(tree, node)]
            ELSE MethodsOnward(tree, segs[Len(segs) - left + 1], below[left - 1])
    IN  below

FindAllowedMethods(tree, path) ==
    LET segs == Segments(path) IN CollectMethods(tree, segs)[Len(segs)][<<>>]

-----------------------------------------------------------------------------
(* What a lookup is for, said of the templates alone                       *)

Matches(seg, text) == IF IsParam(seg) THEN Converts(seg.converter, text) ELSE seg.text = text

Fits(template, segs) ==
    Len(template) = Len(segs) /\ \A i \in 1..Len(segs) : Matches(template[i], segs[i])

\* The first segment where only one of them has a parameter decides.
MoreSpecific(a, b) ==
    \E i \in 1..Len(a) :
        /\ ~IsParam(a[i]) /\ IsParam(b[i])
        /\ \A j \in 1..(i - 1) : IsParam(a[j]) <=> IsParam(b[j])

\* The last parameter of a name.
LastNamed(template, name) ==
    LET here(i) == IsParam(template[i]) /\ template[i].text = name
    IN  CHOOSE i \in 1..Len(template) :
            here(i) /\ \A j \in 1..Len(template) : here(j) => j <= i

Bound(template, segs) ==
    [name \in ParamNames(template) |->
        LET i == LastNamed(template, name) IN <<template[i].converter, segs[i]>>]

Answering(handlers, segs, method) ==
    {h.route : h \in {h \in handlers : h.method = method /\ Fits(h.route.path, segs)}}
=============================================================================
