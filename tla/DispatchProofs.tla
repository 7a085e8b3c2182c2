--------------------------- MODULE DispatchProofs ---------------------------
(***************************************************************************)
(* Theorems about Dispatch, for every set of routers with their prefixes,  *)
(* dependencies and versions, every program of registrations, every graph  *)
(* of dependencies, and every set of paths, signatures and requests.       *)
(*                                                                         *)
(* What is said of a request is a function of the tables, so the invariant *)
(* is about these: a tree has a node for every beginning of the template   *)
(* of each of its handlers, with the parameter that stands there (TreeOK); *)
(* a route that was made or included has the plan of its signature for     *)
(* what was known when the plan was made (Planned); every route answers    *)
(* its methods and no other route does (TableOK); a cached document is     *)
(* that of the routes there are (CacheOK).                                 *)
(*                                                                         *)
(* A lookup goes over the nodes by the number of segments that are left;   *)
(* what it finds from each of them is the best of the handlers below which *)
(* fit the rest of the path (ResultOK).                                    *)
(***************************************************************************)
EXTENDS Dispatch, FiniteSetTheorems, WellFoundedInduction, TLAPS

\* A set that has 0, and the next number of each it has up to N, has 0..N.
LEMMA UpTo ==
  ASSUME NEW S, NEW N \in Nat, 0 \in S, \A n \in 0..N : n \in S /\ n < N => n + 1 \in S
  PROVE  \A n \in 0..N : n \in S
  <1> DEFINE T == {n \in 0..N : n \notin S}
             R == OpToRel(<, Nat)
  <1> SUFFICES ASSUME T # {} PROVE FALSE
    OBVIOUS
  <1>1. T \subseteq Nat
    OBVIOUS
  <1>2. PICK x \in T : \A y \in T : <<y, x>> \notin R
    <2>1. IsWellFoundedOn(R, Nat)
      BY NatLessThanWellFounded
    <2> HIDE DEF T, R
    <2> QED
      BY <1>1, <2>1, WFMin
  <1>3. x \in 1..N /\ x - 1 \in 0..N /\ x - 1 < x /\ x - 1 < N /\ (x - 1) + 1 = x
    OBVIOUS
  <1>4. <<x - 1, x>> \in R
    BY <1>3 DEF OpToRel
  <1>5. x - 1 \in S
    <2>1. x - 1 \notin T
      BY <1>2, <1>4
    <2> QED
      BY <1>3, <2>1
  <1>6. (x - 1) + 1 \in S
    BY <1>3, <1>5
  <1> QED
    BY <1>3, <1>6

\* The way down a template.
LEMMA DescendedFacts ==
  ASSUME NEW T, NEW path, Len(path) \in Nat
  PROVE  /\ Descended(T, path)[0] = [tree |-> T, node |-> <<>>, conflict |-> FALSE]
         /\ \A n \in 1..Len(path) :
               Descended(T, path)[n] = Descend(Descended(T, path)[n - 1], path[n])
  <1> DEFINE Base == [tree |-> T, node |-> <<>>, conflict |-> FALSE]
             After(x, n) == Descend(x, path[n])
             Is(f, N) == f = [n \in 0..N |-> IF n = 0 THEN Base ELSE After(f[n - 1], n)]
             S == {N \in Nat : \E f : Is(f, N)}
             it == Descended(T, path)
  <1>1. 0 \in S
    <2> DEFINE g == [n \in 0..0 |-> Base]
    <2> HIDE DEF Base, After
    <2>1. Is(g, 0)
      OBVIOUS
    <2> QED
      BY <2>1
  <1>2. ASSUME NEW N \in Nat, N \in S PROVE N + 1 \in S
    <2>1. PICK f : Is(f, N)
      BY <1>2
    <2> DEFINE g == [n \in 0..N + 1 |-> IF n = N + 1 THEN After(f[N], N + 1) ELSE f[n]]
    <2> HIDE DEF Base, After
    <2>2. ASSUME NEW n \in 0..N + 1
          PROVE  g[n] = IF n = 0 THEN Base ELSE After(g[n - 1], n)
      <3>1. CASE n = N + 1
        BY <3>1
      <3>2. CASE n # N + 1
        <4>1. n \in 0..N /\ g[n] = f[n] /\ (n # 0 => n - 1 \in 0..N /\ g[n - 1] = f[n - 1])
          BY <3>2
        <4> QED
          BY <2>1, <4>1
      <3> QED
        BY <3>1, <3>2
    <2>3. Is(g, N + 1)
      BY <2>2
    <2> HIDE DEF g, Is
    <2> QED
      BY <2>3
  <1>3. Len(path) \in S
    <2> HIDE DEF S, Is
    <2>1. \A n \in 0..Len(path) : n \in S /\ n < Len(path) => n + 1 \in S
      BY <1>2
    <2>2. \A n \in 0..Len(path) : n \in S
      BY <1>1, <2>1, UpTo
    <2> QED
      BY <2>2
  <1>4. Is(it, Len(path))
    <2>1. it = CHOOSE f : Is(f, Len(path))
      BY DEF Descended
    <2> HIDE DEF Is, it
    <2> QED
      BY <1>3, <2>1
  <1>5. ASSUME NEW n \in 0..Len(path)
        PROVE  it[n] = IF n = 0 THEN Base ELSE After(it[n - 1], n)
    <2> HIDE DEF it, Base, After
    <2> QED
      BY <1>4
  <1> HIDE DEF it, Is, S, Base, After
  <1>6. it[0] = Base
    BY <1>5
  <1>7. ASSUME NEW n \in 1..Len(path) PROVE it[n] = After(it[n - 1], n)
    <2>1. n \in 0..Len(path) /\ n # 0
      OBVIOUS
    <2> QED
      BY <1>5, <2>1
  <1> QED
    BY <1>6, <1>7 DEF it, Base, After

\* What is found from each node on.
LEMMA SearchFacts ==
  ASSUME NEW T, NEW method, NEW segs \in Seq(STRING)
  PROVE  /\ \A node \in T.nodes : Search(T, segs, method)[0][node] = HandlerAt(T, method, node)
         /\ \A n \in 1..Len(segs) :
               Search(T, segs, method)[n]
                   = Onward(T, segs[Len(segs) - n + 1], Search(T, segs, method)[n - 1])
  <1> DEFINE Base == [node \in T.nodes |-> HandlerAt(T, method, node)]
             After(x, n) == Onward(T, segs[Len(segs) - n + 1], x)
             Is(f, N) == f = [n \in 0..N |-> IF n = 0 THEN Base ELSE After(f[n - 1], n)]
             S == {N \in Nat : \E f : Is(f, N)}
             it == Search(T, segs, method)
  <1>1. 0 \in S
    <2> DEFINE g == [n \in 0..0 |-> Base]
    <2> HIDE DEF Base, After
    <2>1. Is(g, 0)
      OBVIOUS
    <2> QED
      BY <2>1
  <1>2. ASSUME NEW N \in Nat, N \in S PROVE N + 1 \in S
    <2>1. PICK f : Is(f, N)
      BY <1>2
    <2> DEFINE g == [n \in 0..N + 1 |-> IF n = N + 1 THEN After(f[N], N + 1) ELSE f[n]]
    <2> HIDE DEF Base, After
    <2>2. ASSUME NEW n \in 0..N + 1
          PROVE  g[n] = IF n = 0 THEN Base ELSE After(g[n - 1], n)
      <3>1. CASE n = N + 1
        BY <3>1
      <3>2. CASE n # N + 1
        <4>1. n \in 0..N /\ g[n] = f[n] /\ (n # 0 => n - 1 \in 0..N /\ g[n - 1] = f[n - 1])
          BY <3>2
        <4> QED
          BY <2>1, <4>1
      <3> QED
        BY <3>1, <3>2
    <2>3. Is(g, N + 1)
      BY <2>2
    <2> HIDE DEF g, Is
    <2> QED
      BY <2>3
  <1>3. Len(segs) \in S
    <2> HIDE DEF S, Is
    <2>1. \A n \in 0..Len(segs) : n \in S /\ n < Len(segs) => n + 1 \in S
      BY <1>2
    <2>2. \A n \in 0..Len(segs) : n \in S
      BY <1>1, <2>1, UpTo
    <2> QED
      BY <2>2
  <1>4. Is(it, Len(segs))
    <2>1. it = CHOOSE f : Is(f, Len(segs))
      BY DEF Search
    <2> HIDE DEF Is, it
    <2> QED
      BY <1>3, <2>1
  <1>5. ASSUME NEW n \in 0..Len(segs)
        PROVE  it[n] = IF n = 0 THEN Base ELSE After(it[n - 1], n)
    <2> HIDE DEF it, Base, After
    <2> QED
      BY <1>4
  <1> HIDE DEF it, Is, S, Base, After
  <1>6. it[0] = Base
    BY <1>5
  <1>7. ASSUME NEW n \in 1..Len(segs) PROVE it[n] = After(it[n - 1], n)
    <2>1. n \in 0..Len(segs) /\ n # 0
      OBVIOUS
    <2> QED
      BY <1>5, <2>1
  <1> QED
    BY <1>6, <1>7 DEF it, Base, After

\* The methods that are answered from each node on.
LEMMA CollectFacts ==
  ASSUME NEW T, NEW segs \in Seq(STRING)
  PROVE  /\ \A node \in T.nodes : CollectMethods(T, segs)[0][node] = Taken(T, node)
         /\ \A n \in 1..Len(segs) :
               CollectMethods(T, segs)[n]
                   = MethodsOnward(T, segs[Len(segs) - n + 1], CollectMethods(T, segs)[n - 1])
  <1> DEFINE Base == [node \in T.nodes |-> Taken(T, node)]
             After(x, n) == MethodsOnward(T, segs[Len(segs) - n + 1], x)
             Is(f, N) == f = [n \in 0..N |-> IF n = 0 THEN Base ELSE After(f[n - 1], n)]
             S == {N \in Nat : \E f : Is(f, N)}
             it == CollectMethods(T, segs)
  <1>1. 0 \in S
    <2> DEFINE g == [n \in 0..0 |-> Base]
    <2> HIDE DEF Base, After
    <2>1. Is(g, 0)
      OBVIOUS
    <2> QED
      BY <2>1
  <1>2. ASSUME NEW N \in Nat, N \in S PROVE N + 1 \in S
    <2>1. PICK f : Is(f, N)
      BY <1>2
    <2> DEFINE g == [n \in 0..N + 1 |-> IF n = N + 1 THEN After(f[N], N + 1) ELSE f[n]]
    <2> HIDE DEF Base, After
    <2>2. ASSUME NEW n \in 0..N + 1
          PROVE  g[n] = IF n = 0 THEN Base ELSE After(g[n - 1], n)
      <3>1. CASE n = N + 1
        BY <3>1
      <3>2. CASE n # N + 1
        <4>1. n \in 0..N /\ g[n] = f[n] /\ (n # 0 => n - 1 \in 0..N /\ g[n - 1] = f[n - 1])
          BY <3>2
        <4> QED
          BY <2>1, <4>1
      <3> QED
        BY <3>1, <3>2
    <2>3. Is(g, N + 1)
      BY <2>2
    <2> HIDE DEF g, Is
    <2> QED
      BY <2>3
  <1>3. Len(segs) \in S
    <2> HIDE DEF S, Is
    <2>1. \A n \in 0..Len(segs) : n \in S /\ n < Len(segs) => n + 1 \in S
      BY <1>2
    <2>2. \A n \in 0..Len(segs) : n \in S
      BY <1>1, <2>1, UpTo
    <2> QED
      BY <2>2
  <1>4. Is(it, Len(segs))
    <2>1. it = CHOOSE f : Is(f, Len(segs))
      BY DEF CollectMethods
    <2> HIDE DEF Is, it
    <2> QED
      BY <1>3, <2>1
  <1>5. ASSUME NEW n \in 0..Len(segs)
        PROVE  it[n] = IF n = 0 THEN Base ELSE After(it[n - 1], n)
    <2> HIDE DEF it, Base, After
    <2> QED
      BY <1>4
  <1> HIDE DEF it, Is, S, Base, After
  <1>6. it[0] = Base
    BY <1>5
  <1>7. ASSUME NEW n \in 1..Len(segs) PROVE it[n] = After(it[n - 1], n)
    <2>1. n \in 0..Len(segs) /\ n # 0
      OBVIOUS
    <2> QED
      BY <1>5, <2>1
  <1> QED
    BY <1>6, <1>7 DEF it, Base, After

\* The tables after each of a number of routes.
LEMMA InsertedAllFacts ==
  ASSUME NEW start, NEW new, Len(new) \in Nat
  PROVE  /\ InsertedAll(start, new)[0] = {start}
         /\ \A n \in 1..Len(new) :
               InsertedAll(start, new)[n]
                   = UNION {InsertedInto(table, new[n]) : table \in InsertedAll(start, new)[n - 1]}
  <1> DEFINE Base == {start}
             After(x, n) == UNION {InsertedInto(table, new[n]) : table \in x}
             Is(f, N) == f = [n \in 0..N |-> IF n = 0 THEN Base ELSE After(f[n - 1], n)]
             S == {N \in Nat : \E f : Is(f, N)}
             it == InsertedAll(start, new)
  <1>1. 0 \in S
    <2> DEFINE g == [n \in 0..0 |-> Base]
    <2> HIDE DEF Base, After
    <2>1. Is(g, 0)
      OBVIOUS
    <2> QED
      BY <2>1
  <1>2. ASSUME NEW N \in Nat, N \in S PROVE N + 1 \in S
    <2>1. PICK f : Is(f, N)
      BY <1>2
    <2> DEFINE g == [n \in 0..N + 1 |-> IF n = N + 1 THEN After(f[N], N + 1) ELSE f[n]]
    <2> HIDE DEF Base, After
    <2>2. ASSUME NEW n \in 0..N + 1
          PROVE  g[n] = IF n = 0 THEN Base ELSE After(g[n - 1], n)
      <3>1. CASE n = N + 1
        BY <3>1
      <3>2. CASE n # N + 1
        <4>1. n \in 0..N /\ g[n] = f[n] /\ (n # 0 => n - 1 \in 0..N /\ g[n - 1] = f[n - 1])
          BY <3>2
        <4> QED
          BY <2>1, <4>1
      <3> QED
        BY <3>1, <3>2
    <2>3. Is(g, N + 1)
      BY <2>2
    <2> HIDE DEF g, Is
    <2> QED
      BY <2>3
  <1>3. Len(new) \in S
    <2> HIDE DEF S, Is
    <2>1. \A n \in 0..Len(new) : n \in S /\ n < Len(new) => n + 1 \in S
      BY <1>2
    <2>2. \A n \in 0..Len(new) : n \in S
      BY <1>1, <2>1, UpTo
    <2> QED
      BY <2>2
  <1>4. Is(it, Len(new))
    <2>1. it = CHOOSE f : Is(f, Len(new))
      BY DEF InsertedAll
    <2> HIDE DEF Is, it
    <2> QED
      BY <1>3, <2>1
  <1>5. ASSUME NEW n \in 0..Len(new)
        PROVE  it[n] = IF n = 0 THEN Base ELSE After(it[n - 1], n)
    <2> HIDE DEF it, Base, After
    <2> QED
      BY <1>4
  <1> HIDE DEF it, Is, S, Base, After
  <1>6. it[0] = Base
    BY <1>5
  <1>7. ASSUME NEW n \in 1..Len(new) PROVE it[n] = After(it[n - 1], n)
    <2>1. n \in 0..Len(new) /\ n # 0
      OBVIOUS
    <2> QED
      BY <1>5, <2>1
  <1> QED
    BY <1>6, <1>7 DEF it, Base, After

-----------------------------------------------------------------------------
(* Registration.  A tree in which the nodes along the template of each of  *)
(* its handlers are there, with the parameters of that template.           *)

Nodes == Seq(Seq(STRING))

\* The node that the first n segments of a template lead to.
NodeOf(path, n) == [i \in 1..n |-> Edge(path[i])]

Laid(T, path, n) ==
    \A i \in 0..n :
        /\ NodeOf(path, i) \in T.nodes
        /\ i > 0 /\ IsParam(path[i]) =>
              NodeOf(path, i) \in DOMAIN T.param /\ T.param[NodeOf(path, i)] = path[i]

TreeShape(T) ==
    /\ T.nodes \subseteq Nodes /\ <<>> \in T.nodes
    /\ DOMAIN T.param \subseteq T.nodes

HandlerOK(T, h) ==
    /\ h.route.path \in Seq(Segment) /\ h.method \in h.route.methods
    /\ h.node = NodeOf(h.route.path, Len(h.route.path))
    /\ Laid(T, h.route.path, Len(h.route.path))

TreeOK(T) == TreeShape(T) /\ \A h \in T.handlers : HandlerOK(T, h)

\* Nothing of a tree goes away or changes.
Extends(T, U) ==
    /\ T.nodes \subseteq U.nodes /\ DOMAIN T.param \subseteq DOMAIN U.param
    /\ \A x \in DOMAIN T.param : U.param[x] = T.param[x]

\* The edges of a node tell texts and parameters apart.
LEMMA EdgeFacts ==
  /\ \A text : TextEdge(text) # ParamEdge
  /\ \A text, other : TextEdge(text) = TextEdge(other) => text = other
  /\ \A seg : Edge(seg) = IF IsParam(seg) THEN ParamEdge ELSE TextEdge(seg.text)
  /\ \A seg \in Segment : Edge(seg) \in Seq(STRING)
  <1>1. ASSUME NEW text PROVE TextEdge(text) # ParamEdge
    <2>1. Len(TextEdge(text)) = 1 /\ Len(ParamEdge) = 0
      BY DEF TextEdge, ParamEdge
    <2> QED
      BY <2>1
  <1>2. ASSUME NEW text, NEW other, TextEdge(text) = TextEdge(other) PROVE text = other
    <2>1. TextEdge(text)[1] = text /\ TextEdge(other)[1] = other
      BY DEF TextEdge
    <2> QED
      BY <1>2, <2>1
  <1>3. ASSUME NEW seg \in Segment PROVE Edge(seg) \in Seq(STRING)
    <2>1. <<>> \in Seq(STRING)
      OBVIOUS
    <2>2. ASSUME NEW S PROVE \A text \in S : <<text>> \in Seq(S)
      OBVIOUS
    <2>3. seg.text \in STRING
      BY DEF Segment
    <2> QED
      BY <2>1, <2>2, <2>3 DEF Edge, ParamEdge, TextEdge
  <1> QED
    BY <1>1, <1>2, <1>3 DEF Edge

\* A node is the one before it and an edge more.
LEMMA NodeFacts ==
  ASSUME NEW path \in Seq(Segment)
  PROVE  /\ Len(path) \in Nat /\ NodeOf(path, 0) = <<>>
         /\ \A n \in 0..Len(path) : NodeOf(path, n) \in Nodes /\ Len(NodeOf(path, n)) = n
         /\ \A n \in 1..Len(path) : NodeOf(path, n) = Append(NodeOf(path, n - 1), Edge(path[n]))
  <1>1. Len(path) \in Nat /\ \A n \in 1..Len(path) : path[n] \in Segment
    OBVIOUS
  <1>2. \A n \in 1..Len(path) : Edge(path[n]) \in Seq(STRING)
    BY <1>1, EdgeFacts
  <1>3. ASSUME NEW n \in 0..Len(path) PROVE NodeOf(path, n) \in Nodes /\ Len(NodeOf(path, n)) = n
    BY <1>1, <1>2 DEF NodeOf, Nodes
  <1>4. ASSUME NEW n \in 1..Len(path)
        PROVE  NodeOf(path, n) = Append(NodeOf(path, n - 1), Edge(path[n]))
    <2>1. n - 1 \in 0..Len(path) /\ n \in Nat
      BY <1>1
    <2>2. NodeOf(path, n - 1) \in Nodes /\ Len(NodeOf(path, n - 1)) = n - 1
      BY <1>3, <2>1
    <2> QED
      BY <2>1, <2>2 DEF NodeOf, Nodes
  <1>5. NodeOf(path, 0) = <<>>
    BY DEF NodeOf
  <1> QED
    BY <1>1, <1>3, <1>4, <1>5

\* A node and an edge of it make up the next node.
LEMMA AppendFacts ==
  ASSUME NEW S, NEW a \in Seq(S), NEW b \in Seq(S), NEW x \in S, NEW y \in S
  PROVE  /\ Append(a, x) = Append(b, y) <=> a = b /\ x = y
         /\ Append(a, x) \in Seq(S) /\ Len(Append(a, x)) = Len(a) + 1
  <1>1. ASSUME Append(a, x) = Append(b, y) PROVE a = b /\ x = y
    <2>1. Len(a) = Len(b)
      BY <1>1
    <2>2. x = y
      <3>1. Append(a, x)[Len(a) + 1] = x /\ Append(b, y)[Len(b) + 1] = y
        OBVIOUS
      <3> QED
        BY <1>1, <2>1, <3>1
    <2>3. ASSUME NEW i \in 1..Len(a) PROVE a[i] = b[i]
      <3>1. Append(a, x)[i] = a[i] /\ Append(b, y)[i] = b[i]
        BY <2>1
      <3> QED
        BY <1>1, <3>1
    <2>4. a = b
      BY <2>1, <2>3
    <2> QED
      BY <2>2, <2>4
  <1> QED
    BY <1>1

\* What a way down has made after n segments.
WayOK(T, path, n, way) ==
    /\ TreeShape(way.tree) /\ Extends(T, way.tree) /\ way.tree.handlers = T.handlers
    /\ way.conflict \in BOOLEAN
    /\ ~way.conflict => way.node = NodeOf(path, n) /\ Laid(way.tree, path, n)

\* One segment of a template.
LEMMA DescendStep ==
  ASSUME NEW T, NEW path \in Seq(Segment), NEW n \in 1..Len(path), NEW way,
         way = [tree |-> way.tree, node |-> way.node, conflict |-> way.conflict],
         WayOK(T, path, n - 1, way)
  PROVE  LET next == Descend(way, path[n])
         IN  /\ WayOK(T, path, n, next)
             /\ next = [tree |-> next.tree, node |-> next.node, conflict |-> next.conflict]
  <1> DEFINE seg == path[n]
             node == Append(way.node, Edge(seg))
             param == IF IsParam(seg) THEN With(way.tree.param, node, seg) ELSE way.tree.param
             U == [nodes |-> way.tree.nodes \cup {node}, param |-> param,
                   handlers |-> way.tree.handlers]
             clash == \/ way.conflict \/ (IsParam(seg) /\ seg.converter \notin Converters)
                      \/ (IsParam(seg) /\ node \in DOMAIN way.tree.param
                            /\ way.tree.param[node] # seg)
             next == Descend(way, path[n])
  <1>1. next = IF clash THEN [way EXCEPT !.conflict = TRUE]
               ELSE [node |-> node, conflict |-> FALSE, tree |-> U]
    BY DEF Descend
  <1>2. CASE clash
    <2>1. next = [tree |-> way.tree, node |-> way.node, conflict |-> TRUE]
      BY <1>1, <1>2
    <2> QED
      BY <2>1 DEF WayOK
  <1>3. CASE ~clash
    <2>1. next = [node |-> node, conflict |-> FALSE, tree |-> U]
      BY <1>1, <1>3
    <2>2. ~way.conflict /\ way.node = NodeOf(path, n - 1) /\ Laid(way.tree, path, n - 1)
      BY <1>3 DEF WayOK
    <2>3. node = NodeOf(path, n) /\ node \in Nodes
      <3>1. n \in 0..Len(path)
        OBVIOUS
      <3> QED
        BY <2>2, <3>1, NodeFacts
    <2>4. TreeShape(way.tree) /\ Extends(T, way.tree) /\ way.tree.handlers = T.handlers
      BY DEF WayOK
    <2>5. /\ DOMAIN param \subseteq DOMAIN way.tree.param \cup {node}
          /\ DOMAIN way.tree.param \subseteq DOMAIN param
          /\ \A x \in DOMAIN way.tree.param : param[x] = way.tree.param[x]
          /\ IsParam(seg) => node \in DOMAIN param /\ param[node] = seg
      <3>1. CASE IsParam(seg)
        BY <1>3, <3>1 DEF With
      <3>2. CASE ~IsParam(seg)
        BY <3>2
      <3> QED
        BY <3>1, <3>2
    <2> HIDE DEF param, node, seg
    <2>6. TreeShape(U)
      BY <2>3, <2>4, <2>5 DEF TreeShape
    <2>7. Extends(way.tree, U)
      BY <2>5 DEF Extends
    <2>8. Extends(T, U)
      BY <2>4, <2>7 DEF Extends
    <2>9. ASSUME NEW i \in 0..n
          PROVE  /\ NodeOf(path, i) \in U.nodes
                 /\ i > 0 /\ IsParam(path[i]) =>
                      NodeOf(path, i) \in DOMAIN U.param /\ U.param[NodeOf(path, i)] = path[i]
      <3>1. CASE i = n
        BY <2>3, <2>5, <3>1 DEF seg
      <3>2. CASE i # n
        <4>1. i \in 0..(n - 1)
          BY <3>2
        <4> QED
          BY <2>2, <2>7, <4>1 DEF Laid, Extends
      <3> QED
        BY <3>1, <3>2
    <2>10. Laid(U, path, n)
      BY <2>9 DEF Laid
    <2> HIDE DEF U
    <2> QED
      <3>1. U.handlers = T.handlers
        BY <2>4 DEF U
      <3> QED
        BY <2>1, <2>3, <2>6, <2>8, <2>10, <3>1 DEF WayOK
  <1> QED
    BY <1>2, <1>3

\* All of its segments.
LEMMA DescendedOK ==
  ASSUME NEW T, TreeShape(T), NEW path \in Seq(Segment)
  PROVE  WayOK(T, path, Len(path), Descended(T, path)[Len(path)])
  <1> DEFINE way == Descended(T, path)
             Fine == {n \in 0..Len(path) :
                        /\ WayOK(T, path, n, way[n])
                        /\ way[n] = [tree |-> way[n].tree, node |-> way[n].node,
                                     conflict |-> way[n].conflict]}
  <1>1. Len(path) \in Nat
    OBVIOUS
  <1>2. 0 \in Fine
    <2>1. way[0] = [tree |-> T, node |-> <<>>, conflict |-> FALSE]
      BY <1>1, DescendedFacts
    <2>2. Laid(T, path, 0)
      BY NodeFacts DEF Laid, TreeShape
    <2>3. Extends(T, T)
      BY DEF Extends
    <2>4. NodeOf(path, 0) = <<>>
      BY NodeFacts
    <2> HIDE DEF way
    <2>5. way[0].tree = T /\ way[0].node = <<>> /\ way[0].conflict = FALSE
      BY <2>1
    <2>6. WayOK(T, path, 0, way[0])
      BY <2>2, <2>3, <2>4, <2>5 DEF WayOK
    <2> QED
      BY <1>1, <2>1, <2>5, <2>6
  <1>3. ASSUME NEW n \in 0..Len(path), n \in Fine, n < Len(path) PROVE n + 1 \in Fine
    <2>1. n + 1 \in 1..Len(path) /\ (n + 1) - 1 = n
      BY <1>1, <1>3
    <2>2. way[n + 1] = Descend(way[n], path[n + 1])
      <3>1. \A m \in 1..Len(path) : way[m] = Descend(way[m - 1], path[m])
        BY <1>1, DescendedFacts
      <3> HIDE DEF way
      <3>2. way[n + 1] = Descend(way[(n + 1) - 1], path[n + 1])
        BY <2>1, <3>1
      <3> QED
        BY <2>1, <3>2
    <2> HIDE DEF way
    <2>3. WayOK(T, path, (n + 1) - 1, way[n])
      BY <1>3, <2>1
    <2>4. way[n] = [tree |-> way[n].tree, node |-> way[n].node, conflict |-> way[n].conflict]
      BY <1>3
    <2> QED
      BY <2>1, <2>2, <2>3, <2>4, DescendStep
  <1>4. \A n \in 0..Len(path) : n \in Fine
    <2> HIDE DEF Fine
    <2> QED
      BY <1>1, <1>2, <1>3, UpTo
  <1>5. Len(path) \in Fine
    <2> HIDE DEF Fine
    <2> QED
      BY <1>1, <1>4
  <1> QED
    BY <1>5

\* A route is inserted, or some of its methods are before it is refused.
LEMMA InsertOK ==
  ASSUME NEW T, TreeOK(T), NEW route, route.path \in Seq(Segment), NEW r \in Insert(T, route)
  PROVE  /\ TreeOK(r.tree) /\ T.handlers \subseteq r.tree.handlers
         /\ \A h \in r.tree.handlers : h \in T.handlers \/ h.route = route
         /\ ~r.raised => \A m \in route.methods :
               \E h \in r.tree.handlers : h.route = route /\ h.method = m
         /\ r = [tree |-> r.tree, raised |-> r.raised] /\ r.raised \in BOOLEAN
  <1> DEFINE path == route.path
             way == Descended(T, path)[Len(path)]
             free == route.methods \ Taken(way.tree, way.node)
             handling(methods) == Handling(way.tree, way.node, route, methods)
  <1>1. WayOK(T, path, Len(path), way)
    BY DescendedOK DEF TreeOK
  <1>2. TreeOK(way.tree) /\ way.tree.handlers = T.handlers
    <2>1. ASSUME NEW h \in T.handlers PROVE HandlerOK(way.tree, h)
      BY <1>1 DEF WayOK, TreeOK, HandlerOK, Laid, Extends
    <2> QED
      BY <1>1, <2>1 DEF WayOK, TreeOK
  <1>3. ASSUME ~way.conflict, NEW methods \in SUBSET route.methods
        PROVE  LET U == handling(methods)
               IN  /\ TreeOK(U) /\ T.handlers \subseteq U.handlers
                   /\ \A h \in U.handlers : h \in T.handlers \/ h.route = route
                   /\ \A m \in methods : \E h \in U.handlers : h.route = route /\ h.method = m
    <2> DEFINE U == handling(methods)
               new == {[node |-> way.node, method |-> m, route |-> route] : m \in methods}
    <2>1. /\ U.nodes = way.tree.nodes /\ U.param = way.tree.param
          /\ U.handlers = T.handlers \cup new
      BY <1>2 DEF Handling
    <2>2. way.node = NodeOf(path, Len(path)) /\ Laid(way.tree, path, Len(path))
      BY <1>1, <1>3 DEF WayOK
    <2>3. TreeShape(U) /\ \A p, n : Laid(U, p, n) <=> Laid(way.tree, p, n)
      BY <1>2, <2>1 DEF TreeOK, TreeShape, Laid
    <2>4. ASSUME NEW h \in U.handlers PROVE HandlerOK(U, h)
      <3>1. CASE h \in T.handlers
        BY <1>2, <2>3, <3>1 DEF TreeOK, HandlerOK
      <3>2. CASE h \in new
        <4> HIDE DEF U, way
        <4>1. PICK m \in methods : h = [node |-> way.node, method |-> m, route |-> route]
          BY <3>2
        <4>2. h.route = route /\ h.method \in route.methods /\ h.node = way.node
          BY <4>1
        <4> QED
          BY <2>2, <2>3, <4>2 DEF HandlerOK
      <3> QED
        BY <2>1, <3>1, <3>2
    <2> HIDE DEF U, way
    <2>5. ASSUME NEW m \in methods PROVE \E h \in new : h.route = route /\ h.method = m
      <3> DEFINE h == [node |-> way.node, method |-> m, route |-> route]
      <3>1. h \in new /\ h.route = route /\ h.method = m
        OBVIOUS
      <3> QED
        BY <3>1
    <2>6. \A h \in new : h.route = route
      OBVIOUS
    <2> QED
      <3> HIDE DEF new, handling
      <3>1. TreeOK(U) /\ T.handlers \subseteq U.handlers
        BY <2>1, <2>3, <2>4 DEF TreeOK
      <3> QED
        BY <2>1, <2>5, <2>6, <3>1 DEF U
  <1>4. Insert(T, route) =
          CASE way.conflict -> {[tree |-> way.tree, raised |-> TRUE]}
            [] ~way.conflict /\ free = route.methods ->
                  {[tree |-> handling(route.methods), raised |-> FALSE]}
            [] OTHER -> {[tree |-> handling(some), raised |-> TRUE] : some \in SUBSET free}
    BY DEF Insert
  <1> HIDE DEF way, handling
  <1>5. CASE way.conflict
    <2>1. r = [tree |-> way.tree, raised |-> TRUE]
      BY <1>4, <1>5
    <2> QED
      BY <1>2, <2>1
  <1>6. CASE ~way.conflict /\ free = route.methods
    <2>1. r = [tree |-> handling(route.methods), raised |-> FALSE]
      BY <1>4, <1>6
    <2> QED
      BY <1>3, <1>6, <2>1
  <1>7. CASE ~way.conflict /\ free # route.methods
    <2>1. PICK some \in SUBSET free : r = [tree |-> handling(some), raised |-> TRUE]
      BY <1>4, <1>7
    <2> QED
      BY <1>3, <1>7, <2>1
  <1> QED
    BY <1>5, <1>6, <1>7

-----------------------------------------------------------------------------
(* Lookup.  What is found from a node on is the best of the handlers that  *)
(* are below it and fit what is left of the path.                          *)

Fitting(T, segs, k, node) ==
    {h \in T.handlers :
        /\ Len(h.route.path) = Len(segs) /\ NodeOf(h.route.path, k) = node
        /\ \A i \in k + 1..Len(segs) : Matches(h.route.path[i], segs[i])}

NamesFrom(path, k) == {path[i].text : i \in {i \in k + 1..Len(path) : IsParam(path[i])}}

BoundFrom(path, segs, k) ==
    [name \in NamesFrom(path, k) |->
        LET i == LastNamed(path, name) IN <<path[i].converter, segs[i]>>]

BeatsFrom(a, b, k) ==
    \E i \in k + 1..Len(a) :
        /\ ~IsParam(a[i]) /\ IsParam(b[i])
        /\ \A j \in k + 1..(i - 1) : IsParam(a[j]) <=> IsParam(b[j])

\* One segment down, by its text or as a parameter.
LEMMA FittingFacts ==
  ASSUME NEW T, TreeOK(T), NEW segs \in Seq(STRING), NEW k \in Nat, k < Len(segs),
         NEW node \in T.nodes, Len(node) = k
  PROVE  LET text == segs[k + 1]
             static == Append(node, TextEdge(text))
             dynamic == Append(node, ParamEdge)
         IN  /\ \A h \in Fitting(T, segs, k, node) :
                   IF IsParam(h.route.path[k + 1])
                   THEN h \in Fitting(T, segs, k + 1, dynamic) /\ CanBind(T, dynamic, text)
                   ELSE h \in Fitting(T, segs, k + 1, static) /\ static \in T.nodes
             /\ \A h \in Fitting(T, segs, k + 1, static) :
                   h \in Fitting(T, segs, k, node) /\ ~IsParam(h.route.path[k + 1])
             /\ \A h \in Fitting(T, segs, k + 1, dynamic) :
                   /\ IsParam(h.route.path[k + 1]) /\ T.param[dynamic] = h.route.path[k + 1]
                   /\ CanBind(T, dynamic, text) => h \in Fitting(T, segs, k, node)
             /\ Len(static) = k + 1 /\ Len(dynamic) = k + 1
             /\ dynamic \in DOMAIN T.param => dynamic \in T.nodes
  <1> DEFINE text == segs[k + 1]
             static == Append(node, TextEdge(text))
             dynamic == Append(node, ParamEdge)
  <1>1. Len(segs) \in Nat /\ k + 1 \in 1..Len(segs) /\ k \in 0..Len(segs) /\ (k + 1) - 1 = k
    OBVIOUS
  <1>2. node \in Nodes
    BY DEF TreeOK, TreeShape
  <1>3. text \in STRING
    BY <1>1
  <1>4. TextEdge(text) \in Seq(STRING) /\ ParamEdge \in Seq(STRING)
    <2>1. ASSUME NEW S PROVE <<>> \in Seq(S) /\ \A x \in S : <<x>> \in Seq(S)
      OBVIOUS
    <2> QED
      BY <1>3, <2>1 DEF TextEdge, ParamEdge
  <1>5. Len(static) = k + 1 /\ Len(dynamic) = k + 1
    BY <1>2, <1>4, AppendFacts DEF Nodes
  <1>6. ASSUME NEW h \in T.handlers, Len(h.route.path) = Len(segs)
        PROVE  LET path == h.route.path
               IN  /\ path \in Seq(Segment) /\ path[k + 1] \in Segment
                   /\ NodeOf(path, k) \in Nodes /\ Edge(path[k + 1]) \in Seq(STRING)
                   /\ NodeOf(path, k + 1) = Append(NodeOf(path, k), Edge(path[k + 1]))
                   /\ NodeOf(path, k + 1) \in T.nodes
                   /\ IsParam(path[k + 1]) =>
                        /\ NodeOf(path, k + 1) \in DOMAIN T.param
                        /\ T.param[NodeOf(path, k + 1)] = path[k + 1]
    <2> DEFINE path == h.route.path
    <2>1. path \in Seq(Segment) /\ Laid(T, path, Len(path))
      BY DEF TreeOK, HandlerOK
    <2> HIDE DEF path
    <2>2. Len(path) = Len(segs)
      BY <1>6 DEF path
    <2>3. path[k + 1] \in Segment
      BY <1>1, <2>1, <2>2
    <2>4. NodeOf(path, k) \in Nodes
      BY <1>1, <2>1, <2>2, NodeFacts
    <2>5. NodeOf(path, k + 1) = Append(NodeOf(path, k), Edge(path[k + 1]))
      BY <1>1, <2>1, <2>2, NodeFacts
    <2>6. k + 1 \in 0..Len(path) /\ k + 1 > 0
      BY <1>1, <2>2
    <2>7. Edge(path[k + 1]) \in Seq(STRING)
      BY <2>3, EdgeFacts
    <2> QED
      BY <2>1, <2>3, <2>4, <2>5, <2>6, <2>7 DEF Laid, path
  <1>7. \A i : i \in k + 1..Len(segs) <=> i = k + 1 \/ i \in (k + 1) + 1..Len(segs)
    BY <1>1
  <1> HIDE DEF text, static, dynamic
  <1>8. ASSUME NEW h \in Fitting(T, segs, k, node)
        PROVE  IF IsParam(h.route.path[k + 1])
               THEN h \in Fitting(T, segs, k + 1, dynamic) /\ CanBind(T, dynamic, text)
               ELSE h \in Fitting(T, segs, k + 1, static) /\ static \in T.nodes
    <2> DEFINE path == h.route.path
    <2>1. h \in T.handlers /\ Len(path) = Len(segs) /\ NodeOf(path, k) = node
      BY DEF Fitting
    <2>2. Matches(path[k + 1], text)
      BY <1>7 DEF Fitting, text
    <2>3. \A i \in (k + 1) + 1..Len(segs) : Matches(path[i], segs[i])
      BY <1>7 DEF Fitting
    <2>4. NodeOf(path, k + 1) = Append(node, Edge(path[k + 1])) /\ NodeOf(path, k + 1) \in T.nodes
      BY <1>6, <2>1
    <2>5. CASE IsParam(path[k + 1])
      <3>1. NodeOf(path, k + 1) = dynamic
        BY <2>4, <2>5, EdgeFacts DEF dynamic
      <3>2. dynamic \in DOMAIN T.param /\ T.param[dynamic] = path[k + 1]
        BY <1>6, <2>1, <2>5, <3>1
      <3>3. Converts(path[k + 1].converter, text)
        BY <2>2, <2>5 DEF Matches
      <3> QED
        BY <2>1, <2>3, <2>5, <3>1, <3>2, <3>3 DEF Fitting, CanBind
    <2>6. CASE ~IsParam(path[k + 1])
      <3>1. path[k + 1].text = text
        BY <2>2, <2>6 DEF Matches
      <3>2. NodeOf(path, k + 1) = static
        BY <2>4, <2>6, <3>1, EdgeFacts DEF static
      <3> QED
        BY <2>1, <2>3, <2>4, <2>6, <3>2 DEF Fitting
    <2> QED
      BY <2>5, <2>6
  <1>9. ASSUME NEW h \in Fitting(T, segs, k + 1, static)
        PROVE  h \in Fitting(T, segs, k, node) /\ ~IsParam(h.route.path[k + 1])
    <2> DEFINE path == h.route.path
    <2>1. h \in T.handlers /\ Len(path) = Len(segs) /\ NodeOf(path, k + 1) = static
      BY DEF Fitting
    <2>2. Append(NodeOf(path, k), Edge(path[k + 1])) = Append(node, TextEdge(text))
      BY <1>6, <2>1 DEF static
    <2>3. NodeOf(path, k) = node /\ Edge(path[k + 1]) = TextEdge(text)
      <3> DEFINE S == Seq(STRING)
      <3>1. /\ NodeOf(path, k) \in Seq(S) /\ Edge(path[k + 1]) \in S
            /\ node \in Seq(S) /\ TextEdge(text) \in S
        BY <1>2, <1>4, <1>6, <2>1 DEF Nodes
      <3> HIDE DEF S, path
      <3> QED
        BY <2>2, <3>1, AppendFacts
    <2>4. ~IsParam(path[k + 1]) /\ path[k + 1].text = text
      BY <2>3, EdgeFacts
    <2>5. Matches(path[k + 1], segs[k + 1])
      BY <2>4 DEF Matches, text
    <2>6. \A i \in k + 1..Len(segs) : Matches(path[i], segs[i])
      BY <1>7, <2>5 DEF Fitting
    <2> QED
      BY <2>1, <2>3, <2>4, <2>6 DEF Fitting
  <1>10. ASSUME NEW h \in Fitting(T, segs, k + 1, dynamic)
         PROVE  /\ IsParam(h.route.path[k + 1]) /\ T.param[dynamic] = h.route.path[k + 1]
                /\ CanBind(T, dynamic, text) => h \in Fitting(T, segs, k, node)
    <2> DEFINE path == h.route.path
    <2>1. h \in T.handlers /\ Len(path) = Len(segs) /\ NodeOf(path, k + 1) = dynamic
      BY DEF Fitting
    <2>2. Append(NodeOf(path, k), Edge(path[k + 1])) = Append(node, ParamEdge)
      BY <1>6, <2>1 DEF dynamic
    <2>3. NodeOf(path, k) = node /\ Edge(path[k + 1]) = ParamEdge
      <3> DEFINE S == Seq(STRING)
      <3>1. /\ NodeOf(path, k) \in Seq(S) /\ Edge(path[k + 1]) \in S
            /\ node \in Seq(S) /\ ParamEdge \in S
        BY <1>2, <1>4, <1>6, <2>1 DEF Nodes
      <3> HIDE DEF S, path
      <3> QED
        BY <2>2, <3>1, AppendFacts
    <2>4. IsParam(path[k + 1])
      BY <2>3, EdgeFacts
    <2>5. T.param[dynamic] = path[k + 1]
      BY <1>6, <2>1, <2>4
    <2>6. ASSUME CanBind(T, dynamic, text) PROVE h \in Fitting(T, segs, k, node)
      <3>1. Matches(path[k + 1], segs[k + 1])
        BY <2>4, <2>5, <2>6 DEF Matches, CanBind, text
      <3>2. \A i \in k + 1..Len(segs) : Matches(path[i], segs[i])
        BY <1>7, <3>1 DEF Fitting
      <3> QED
        BY <2>1, <2>3, <3>2 DEF Fitting
    <2> QED
      BY <2>4, <2>5, <2>6
  <1>11. dynamic \in DOMAIN T.param => dynamic \in T.nodes
    BY DEF TreeOK, TreeShape
  <1> QED
    BY <1>5, <1>8, <1>9, <1>10, <1>11 DEF text, static, dynamic

\* At the end of the path.
LEMMA FittingHere ==
  ASSUME NEW T, TreeOK(T), NEW segs \in Seq(STRING), NEW node \in T.nodes, Len(node) = Len(segs)
  PROVE  {h \in T.handlers : h.node = node} = Fitting(T, segs, Len(segs), node)
  <1>1. Len(segs) \in Nat /\ Len(segs) + 1..Len(segs) = {}
    OBVIOUS
  <1>2. ASSUME NEW h \in T.handlers
        PROVE  h.node = NodeOf(h.route.path, Len(h.route.path)) /\ Len(h.node) = Len(h.route.path)
    <2>1. h.route.path \in Seq(Segment) /\ h.node = NodeOf(h.route.path, Len(h.route.path))
      BY DEF TreeOK, HandlerOK
    <2>2. Len(h.route.path) \in 0..Len(h.route.path)
      BY <2>1
    <2> QED
      BY <2>1, <2>2, NodeFacts
  <1> QED
    BY <1>1, <1>2 DEF Fitting

\* The first of the remaining segments is a text for both: the others decide.
LEMMA BeatsBelow ==
  ASSUME NEW a \in Seq(Segment), NEW b \in Seq(Segment), NEW k \in Nat, k < Len(a),
         IsParam(a[k + 1]) <=> IsParam(b[k + 1]), BeatsFrom(a, b, k)
  PROVE  BeatsFrom(a, b, k + 1)
  <1>1. Len(a) \in Nat
    OBVIOUS
  <1>2. PICK i \in k + 1..Len(a) :
           /\ ~IsParam(a[i]) /\ IsParam(b[i])
           /\ \A j \in k + 1..(i - 1) : IsParam(a[j]) <=> IsParam(b[j])
    BY DEF BeatsFrom
  <1>3. i # k + 1
    BY <1>2
  <1>4. i \in (k + 1) + 1..Len(a) /\ \A j \in (k + 1) + 1..(i - 1) : j \in k + 1..(i - 1)
    BY <1>1, <1>3
  <1> QED
    BY <1>2, <1>4 DEF BeatsFrom

\* A text is never beaten by a parameter.
LEMMA TextFirst ==
  ASSUME NEW a \in Seq(Segment), NEW b \in Seq(Segment), NEW k \in Nat, k < Len(a),
         IsParam(a[k + 1]), ~IsParam(b[k + 1])
  PROVE  ~BeatsFrom(a, b, k)
  <1> SUFFICES ASSUME BeatsFrom(a, b, k) PROVE FALSE
    OBVIOUS
  <1>1. Len(a) \in Nat
    OBVIOUS
  <1>2. PICK i \in k + 1..Len(a) :
           /\ ~IsParam(a[i]) /\ IsParam(b[i])
           /\ \A j \in k + 1..(i - 1) : IsParam(a[j]) <=> IsParam(b[j])
    BY DEF BeatsFrom
  <1>3. i # k + 1
    BY <1>2
  <1>4. k + 1 \in k + 1..(i - 1)
    BY <1>1, <1>3
  <1> QED
    BY <1>2, <1>4

\* What is bound below a text, and below a parameter.
LEMMA BoundBelow ==
  ASSUME NEW path \in Seq(Segment), NEW segs, NEW k \in Nat, k < Len(path)
  PROVE  /\ ~IsParam(path[k + 1]) => BoundFrom(path, segs, k) = BoundFrom(path, segs, k + 1)
         /\ IsParam(path[k + 1]) =>
              IF path[k + 1].text \in DOMAIN BoundFrom(path, segs, k + 1)
              THEN BoundFrom(path, segs, k) = BoundFrom(path, segs, k + 1)
              ELSE BoundFrom(path, segs, k)
                     = With(BoundFrom(path, segs, k + 1), path[k + 1].text,
                            <<path[k + 1].converter, segs[k + 1]>>)
  <1> DEFINE name == path[k + 1].text
             value == <<path[k + 1].converter, segs[k + 1]>>
  <1>1. Len(path) \in Nat /\ k + 1 \in 1..Len(path)
    OBVIOUS
  <1>2. \A i : i \in k + 1..Len(path) <=> i = k + 1 \/ i \in (k + 1) + 1..Len(path)
    BY <1>1
  <1>3. \A x : x \in NamesFrom(path, k) <=>
                 x \in NamesFrom(path, k + 1) \/ (IsParam(path[k + 1]) /\ x = name)
    BY <1>2 DEF NamesFrom
  <1>4. \A n : DOMAIN BoundFrom(path, segs, n) = NamesFrom(path, n)
    BY DEF BoundFrom
  <1>5. ASSUME NamesFrom(path, k) = NamesFrom(path, k + 1)
        PROVE  BoundFrom(path, segs, k) = BoundFrom(path, segs, k + 1)
    BY <1>5 DEF BoundFrom
  <1>6. ASSUME IsParam(path[k + 1]), name \notin NamesFrom(path, k + 1)
        PROVE  BoundFrom(path, segs, k) = With(BoundFrom(path, segs, k + 1), name, value)
    <2> DEFINE here(i) == IsParam(path[i]) /\ path[i].text = name
               Latest(i) == here(i) /\ \A j \in 1..Len(path) : here(j) => j <= i
    <2>1. \A j \in (k + 1) + 1..Len(path) : ~here(j)
      BY <1>6 DEF NamesFrom
    <2>2. here(k + 1)
      BY <1>6
    <2> HIDE DEF here
    <2>3. Latest(k + 1)
      BY <1>1, <2>1, <2>2
    <2>4. \A i \in 1..Len(path) : Latest(i) => i = k + 1
      BY <1>1, <2>2, <2>3
    <2>5. LastNamed(path, name) = CHOOSE i \in 1..Len(path) : Latest(i)
      BY DEF LastNamed, here
    <2> HIDE DEF Latest
    <2>6. LastNamed(path, name) = k + 1
      BY <1>1, <2>3, <2>4, <2>5
    <2>7. NamesFrom(path, k) = NamesFrom(path, k + 1) \cup {name}
      BY <1>3, <1>6
    <2> HIDE DEF name
    <2> QED
      BY <2>6, <2>7 DEF BoundFrom, With
  <1>7. CASE ~IsParam(path[k + 1])
    BY <1>3, <1>5, <1>7
  <1>8. CASE IsParam(path[k + 1])
    <2>1. CASE name \in NamesFrom(path, k + 1)
      <3>1. NamesFrom(path, k) = NamesFrom(path, k + 1)
        BY <1>3, <2>1
      <3> QED
        BY <1>4, <1>5, <1>8, <2>1, <3>1
    <2>2. CASE name \notin NamesFrom(path, k + 1)
      BY <1>4, <1>6, <1>8, <2>2
    <2> QED
      BY <2>1, <2>2
  <1> QED
    BY <1>7, <1>8

\* A handler below a node that answers a method and that no other one beats.
Best(T, segs, method, k, node, h) ==
    /\ h \in Fitting(T, segs, k, node) /\ h.method = method
    /\ \A g \in Fitting(T, segs, k, node) :
          g.method = method => ~BeatsFrom(g.route.path, h.route.path, k)

Results(h, segs, k) ==
    [found |-> TRUE, route |-> h.route, params |-> BoundFrom(h.route.path, segs, k)]

ResultOK(T, segs, method, k, node, result) ==
    \/ \E h \in T.handlers : Best(T, segs, method, k, node, h) /\ result = Results(h, segs, k)
    \/ result = NotFound /\ \A h \in Fitting(T, segs, k, node) : h.method # method

\* No segment is left.
LEMMA HandlerAtOK ==
  ASSUME NEW T, TreeOK(T), NEW segs \in Seq(STRING), NEW method, NEW node \in T.nodes,
         Len(node) = Len(segs)
  PROVE  ResultOK(T, segs, method, Len(segs), node, HandlerAt(T, method, node))
  <1> DEFINE k == Len(segs)
             here == {h \in T.handlers : h.node = node /\ h.method = method}
  <1>1. \A h : h \in here <=> h \in Fitting(T, segs, k, node) /\ h.method = method
    BY FittingHere DEF Fitting
  <1>2. CASE here = {}
    BY <1>1, <1>2 DEF ResultOK, HandlerAt
  <1>3. CASE here # {}
    <2> DEFINE h == CHOOSE h \in here : TRUE
    <2>1. h \in here
      BY <1>3
    <2>2. HandlerAt(T, method, node) = [found |-> TRUE, route |-> h.route, params |-> <<>>]
      BY <1>3 DEF HandlerAt
    <2> HIDE DEF h, here
    <2>3. h \in Fitting(T, segs, k, node) /\ h.method = method /\ h \in T.handlers
      BY <1>1, <2>1 DEF Fitting
    <2>4. k \in Nat /\ k + 1..k = {} /\ Len(h.route.path) = k
      BY <2>3 DEF Fitting
    <2>5. BoundFrom(h.route.path, segs, k) = <<>>
      <3>1. NamesFrom(h.route.path, k) = {}
        BY <2>4 DEF NamesFrom
      <3>2. ASSUME NEW f, NEW S, S = {} PROVE [x \in S |-> f[x]] = <<>>
        BY <3>2
      <3> QED
        BY <3>1 DEF BoundFrom
    <2>6. ASSUME NEW g \in Fitting(T, segs, k, node) PROVE ~BeatsFrom(g.route.path, h.route.path, k)
      <3>1. Len(g.route.path) = k
        BY DEF Fitting
      <3> QED
        BY <2>4, <3>1 DEF BeatsFrom
    <2> QED
      BY <2>2, <2>3, <2>5, <2>6 DEF ResultOK, Best, Results
  <1> QED
    BY <1>2, <1>3

\* One segment further up.
LEMMA OnwardOK ==
  ASSUME NEW T, TreeOK(T), NEW segs \in Seq(STRING), NEW method, NEW k \in Nat, k < Len(segs),
         NEW below,
         \A node \in T.nodes : Len(node) = k + 1 =>
             ResultOK(T, segs, method, k + 1, node, below[node]),
         NEW node \in T.nodes, Len(node) = k
  PROVE  ResultOK(T, segs, method, k, node, Onward(T, segs[k + 1], below)[node])
  <1> DEFINE text == segs[k + 1]
             static == Append(node, TextEdge(text))
             dynamic == Append(node, ParamEdge)
             param == T.param[dynamic]
             first == IF static \in T.nodes THEN below[static] ELSE NotFound
             second == IF CanBind(T, dynamic, text) THEN Bind(param, text, below[dynamic])
                       ELSE NotFound
             F(n, at) == Fitting(T, segs, n, at)
  <1>1. Onward(T, text, below)[node] = OrElse(first, second)
    BY DEF Onward
  <1>2. /\ Len(segs) \in Nat /\ k + 1 \in Nat /\ k + 1 <= Len(segs)
        /\ ~NotFound.found
    BY DEF NotFound
  <1>3. /\ \A h \in F(k, node) :
              IF IsParam(h.route.path[k + 1])
              THEN h \in F(k + 1, dynamic) /\ CanBind(T, dynamic, text)
              ELSE h \in F(k + 1, static) /\ static \in T.nodes
        /\ \A h \in F(k + 1, static) : h \in F(k, node) /\ ~IsParam(h.route.path[k + 1])
        /\ \A h \in F(k + 1, dynamic) :
              /\ IsParam(h.route.path[k + 1]) /\ param = h.route.path[k + 1]
              /\ CanBind(T, dynamic, text) => h \in F(k, node)
        /\ Len(static) = k + 1 /\ Len(dynamic) = k + 1
        /\ dynamic \in DOMAIN T.param => dynamic \in T.nodes
    BY FittingFacts
  <1>4. \A n, at : \A h \in F(n, at) :
           h \in T.handlers /\ h.route.path \in Seq(Segment) /\ Len(h.route.path) = Len(segs)
    BY DEF Fitting, TreeOK, HandlerOK
  <1> HIDE DEF text, static, dynamic, F
  <1>5. \/ /\ static \in T.nodes /\ first = below[static]
           /\ \E h \in T.handlers :
                 Best(T, segs, method, k + 1, static, h) /\ below[static] = Results(h, segs, k + 1)
        \/ first = NotFound /\ \A h \in F(k + 1, static) : static \in T.nodes => h.method # method
    <2>1. CASE static \in T.nodes
      <3>1. ResultOK(T, segs, method, k + 1, static, below[static])
        BY <1>3, <2>1
      <3> QED
        BY <2>1, <3>1 DEF ResultOK, F
    <2>2. CASE static \notin T.nodes
      BY <2>2
    <2> QED
      BY <2>1, <2>2
  <1>6. ASSUME NEW h \in T.handlers, Best(T, segs, method, k + 1, static, h),
               first = Results(h, segs, k + 1)
        PROVE  ResultOK(T, segs, method, k, node, OrElse(first, second))
    <2>1. h \in F(k + 1, static) /\ h.method = method
      BY <1>6 DEF Best, F
    <2>2. h \in F(k, node) /\ ~IsParam(h.route.path[k + 1])
      BY <1>3, <2>1
    <2>3. OrElse(first, second) = first
      BY <1>6 DEF OrElse, Results
    <2>4. Results(h, segs, k + 1) = Results(h, segs, k)
      <3>1. h.route.path \in Seq(Segment) /\ k < Len(h.route.path)
        BY <1>4, <2>1
      <3>2. BoundFrom(h.route.path, segs, k) = BoundFrom(h.route.path, segs, k + 1)
        BY <2>2, <3>1, BoundBelow
      <3> QED
        BY <3>2 DEF Results
    <2>5. ASSUME NEW g \in F(k, node), g.method = method
          PROVE  ~BeatsFrom(g.route.path, h.route.path, k)
      <3>1. CASE IsParam(g.route.path[k + 1])
        BY <1>2, <1>4, <2>2, <3>1, TextFirst
      <3>2. CASE ~IsParam(g.route.path[k + 1])
        <4>1. g \in F(k + 1, static)
          BY <1>3, <3>2
        <4>2. ~BeatsFrom(g.route.path, h.route.path, k + 1)
          BY <1>6, <2>5, <4>1 DEF Best, F
        <4> QED
          BY <1>2, <1>4, <2>2, <3>2, <4>2, BeatsBelow
      <3> QED
        BY <3>1, <3>2
    <2>6. Best(T, segs, method, k, node, h)
      BY <2>1, <2>2, <2>5 DEF Best, F
    <2> HIDE DEF first, second
    <2> QED
      BY <1>6, <2>3, <2>4, <2>6 DEF ResultOK
  <1>7. ASSUME first = NotFound, \A h \in F(k + 1, static) : static \in T.nodes => h.method # method
        PROVE  ResultOK(T, segs, method, k, node, OrElse(first, second))
    <2>1. OrElse(first, second) = second
      BY <1>2, <1>7 DEF OrElse
    <2>2. \A h \in F(k, node) :
             h.method = method => h \in F(k + 1, dynamic) /\ CanBind(T, dynamic, text)
      BY <1>3, <1>7
    <2>3. CASE ~CanBind(T, dynamic, text)
      <3>1. second = NotFound
        BY <2>3
      <3>2. \A h \in F(k, node) : h.method # method
        BY <2>2, <2>3
      <3> QED
        BY <2>1, <3>1, <3>2 DEF ResultOK, F
    <2>4. CASE CanBind(T, dynamic, text)
      <3>1. second = Bind(param, text, below[dynamic])
        BY <2>4
      <3>2. dynamic \in T.nodes
        BY <1>3, <2>4 DEF CanBind
      <3>3. ResultOK(T, segs, method, k + 1, dynamic, below[dynamic])
        BY <1>3, <3>2
      <3> HIDE DEF second, param
      <3>4. CASE below[dynamic] = NotFound /\ \A h \in F(k + 1, dynamic) : h.method # method
        <4>1. Bind(param, text, NotFound) = NotFound
          BY <1>2 DEF Bind
        <4>2. \A h \in F(k, node) : h.method # method
          BY <2>2, <3>4
        <4> QED
          BY <2>1, <3>1, <3>4, <4>1, <4>2 DEF ResultOK, F
      <3>5. ASSUME NEW h \in T.handlers, Best(T, segs, method, k + 1, dynamic, h),
                   below[dynamic] = Results(h, segs, k + 1)
            PROVE  ResultOK(T, segs, method, k, node, OrElse(first, second))
        <4>1. h \in F(k + 1, dynamic) /\ h.method = method
          BY <3>5 DEF Best, F
        <4>2. h \in F(k, node) /\ IsParam(h.route.path[k + 1]) /\ param = h.route.path[k + 1]
          BY <1>3, <2>4, <4>1 DEF param
        <4>3. Bind(param, text, below[dynamic]) = Results(h, segs, k)
          <5> DEFINE path == h.route.path
                     deep == BoundFrom(path, segs, k + 1)
          <5>1. path \in Seq(Segment) /\ k < Len(path)
            BY <1>2, <1>4, <4>1
          <5>2. below[dynamic] = [found |-> TRUE, route |-> h.route, params |-> deep]
            BY <3>5 DEF Results
          <5> HIDE DEF deep
          <5>3. Bind(param, text, below[dynamic])
                  = IF param.text \notin DOMAIN deep
                    THEN [found |-> TRUE, route |-> h.route,
                          params |-> With(deep, param.text, <<param.converter, text>>)]
                    ELSE [found |-> TRUE, route |-> h.route, params |-> deep]
            BY <5>2 DEF Bind
          <5>4. BoundFrom(path, segs, k)
                  = IF param.text \in DOMAIN deep THEN deep
                    ELSE With(deep, param.text, <<param.converter, text>>)
            BY <4>2, <5>1, BoundBelow DEF deep, text
          <5> QED
            BY <5>3, <5>4 DEF Results
        <4>4. ASSUME NEW g \in F(k, node), g.method = method
              PROVE  ~BeatsFrom(g.route.path, h.route.path, k)
          <5>1. g \in F(k + 1, dynamic)
            BY <2>2, <4>4
          <5>2. IsParam(g.route.path[k + 1])
            BY <1>3, <5>1
          <5>3. ~BeatsFrom(g.route.path, h.route.path, k + 1)
            BY <3>5, <4>4, <5>1 DEF Best, F
          <5> QED
            BY <1>2, <1>4, <4>2, <5>2, <5>3, BeatsBelow
        <4>5. Best(T, segs, method, k, node, h)
          BY <4>1, <4>2, <4>4 DEF Best, F
        <4> QED
          BY <2>1, <3>1, <4>3, <4>5 DEF ResultOK
      <3> QED
        BY <3>3, <3>4, <3>5 DEF ResultOK, F
    <2> QED
      BY <2>3, <2>4
  <1>8. ResultOK(T, segs, method, k, node, OrElse(first, second))
    <2> HIDE DEF first, second
    <2> QED
      BY <1>5, <1>6, <1>7
  <1> QED
    BY <1>1, <1>8 DEF text

\* What is found from each node on is the best there is below it.
LEMMA SearchOK ==
  ASSUME NEW T, TreeOK(T), NEW segs \in Seq(STRING), NEW method
  PROVE  ResultOK(T, segs, method, 0, <<>>, Search(T, segs, method)[Len(segs)][<<>>])
  <1> DEFINE N == Len(segs)
             below == Search(T, segs, method)
             Fine == {left \in 0..N : \A node \in T.nodes :
                        Len(node) = N - left =>
                            ResultOK(T, segs, method, N - left, node, below[left][node])}
  <1>1. N \in Nat
    OBVIOUS
  <1>2. 0 \in Fine
    <2>1. \A node \in T.nodes : below[0][node] = HandlerAt(T, method, node)
      BY <1>1, SearchFacts
    <2> HIDE DEF below
    <2>2. ASSUME NEW node \in T.nodes, Len(node) = N - 0
          PROVE  ResultOK(T, segs, method, N - 0, node, below[0][node])
      <3>1. ResultOK(T, segs, method, N, node, HandlerAt(T, method, node))
        BY <1>1, <2>2, HandlerAtOK
      <3>2. N - 0 = N /\ below[0][node] = HandlerAt(T, method, node)
        BY <1>1, <2>1
      <3> QED
        BY <3>1, <3>2
    <2> QED
      BY <1>1, <2>2
  <1>3. ASSUME NEW left \in 0..N, left \in Fine, left < N PROVE left + 1 \in Fine
    <2>1. left + 1 \in 1..N
      BY <1>1, <1>3
    <2> DEFINE k == N - (left + 1)
    <2>2. k \in Nat /\ k < Len(segs) /\ k + 1 = N - left /\ N - (left + 1) + 1 = k + 1
          /\ (left + 1) - 1 = left
      BY <1>1, <2>1
    <2>3. below[left + 1] = Onward(T, segs[k + 1], below[left])
      <3>1. \A n \in 1..N : below[n] = Onward(T, segs[N - n + 1], below[n - 1])
        BY <1>1, SearchFacts
      <3> HIDE DEF below, k
      <3>2. below[left + 1] = Onward(T, segs[N - (left + 1) + 1], below[(left + 1) - 1])
        BY <2>1, <3>1
      <3> QED
        BY <2>2, <3>2
    <2> HIDE DEF below, k
    <2>4. \A node \in T.nodes : Len(node) = k + 1 =>
             ResultOK(T, segs, method, k + 1, node, below[left][node])
      BY <1>3, <2>2
    <2>5. ASSUME NEW node \in T.nodes, Len(node) = k
          PROVE  ResultOK(T, segs, method, k, node, below[left + 1][node])
      BY <2>2, <2>3, <2>4, <2>5, OnwardOK
    <2> QED
      BY <1>1, <2>1, <2>5 DEF k
  <1>4. N \in Fine
    <2> HIDE DEF Fine
    <2>1. \A left \in 0..N : left \in Fine
      BY <1>1, <1>2, <1>3, UpTo
    <2> QED
      BY <1>1, <2>1
  <1> HIDE DEF below
  <1>5. <<>> \in T.nodes /\ Len(<<>>) = 0 /\ N - N = 0
    BY <1>1 DEF TreeOK, TreeShape
  <1> QED
    BY <1>4, <1>5 DEF below

\* The methods below a node are those of the handlers that fit.
LEMMA CollectOK ==
  ASSUME NEW T, TreeOK(T), NEW segs \in Seq(STRING)
  PROVE  CollectMethods(T, segs)[Len(segs)][<<>>] = {h.method : h \in Fitting(T, segs, 0, <<>>)}
  <1> DEFINE N == Len(segs)
             below == CollectMethods(T, segs)
             Fine == {left \in 0..N : \A node \in T.nodes :
                        Len(node) = N - left =>
                            below[left][node] = {h.method : h \in Fitting(T, segs, N - left, node)}}
  <1>1. N \in Nat
    OBVIOUS
  <1>2. 0 \in Fine
    <2>1. \A node \in T.nodes : below[0][node] = Taken(T, node)
      BY <1>1, CollectFacts
    <2> HIDE DEF below
    <2>2. ASSUME NEW node \in T.nodes, Len(node) = N - 0
          PROVE  below[0][node] = {h.method : h \in Fitting(T, segs, N - 0, node)}
      <3>1. N - 0 = N /\ below[0][node] = Taken(T, node)
        BY <1>1, <2>1
      <3> QED
        BY <2>2, <3>1, FittingHere DEF Taken
    <2> QED
      BY <1>1, <2>2
  <1>3. ASSUME NEW left \in 0..N, left \in Fine, left < N PROVE left + 1 \in Fine
    <2>1. left + 1 \in 1..N
      BY <1>1, <1>3
    <2> DEFINE k == N - (left + 1)
    <2>2. k \in Nat /\ k < Len(segs) /\ k + 1 = N - left /\ N - (left + 1) + 1 = k + 1
          /\ (left + 1) - 1 = left
      BY <1>1, <2>1
    <2>3. below[left + 1] = MethodsOnward(T, segs[k + 1], below[left])
      <3>1. \A n \in 1..N : below[n] = MethodsOnward(T, segs[N - n + 1], below[n - 1])
        BY <1>1, CollectFacts
      <3> HIDE DEF below, k
      <3>2. below[left + 1] = MethodsOnward(T, segs[N - (left + 1) + 1], below[(left + 1) - 1])
        BY <2>1, <3>1
      <3> QED
        BY <2>2, <3>2
    <2> HIDE DEF below, k
    <2>4. \A node \in T.nodes : Len(node) = k + 1 =>
             below[left][node] = {h.method : h \in Fitting(T, segs, k + 1, node)}
      BY <1>3, <2>2
    <2>5. ASSUME NEW node \in T.nodes, Len(node) = k
          PROVE  below[left + 1][node] = {h.method : h \in Fitting(T, segs, k, node)}
      <3> DEFINE text == segs[k + 1]
                 static == Append(node, TextEdge(text))
                 dynamic == Append(node, ParamEdge)
                 F(n, at) == Fitting(T, segs, n, at)
      <3>1. below[left + 1][node]
              = (IF static \in T.nodes THEN below[left][static] ELSE {})
                \cup (IF CanBind(T, dynamic, text) THEN below[left][dynamic] ELSE {})
        BY <2>3 DEF MethodsOnward
      <3>2. /\ \A h \in F(k, node) :
                  IF IsParam(h.route.path[k + 1])
                  THEN h \in F(k + 1, dynamic) /\ CanBind(T, dynamic, text)
                  ELSE h \in F(k + 1, static) /\ static \in T.nodes
            /\ \A h \in F(k + 1, static) : h \in F(k, node)
            /\ \A h \in F(k + 1, dynamic) : CanBind(T, dynamic, text) => h \in F(k, node)
            /\ Len(static) = k + 1 /\ Len(dynamic) = k + 1
            /\ dynamic \in DOMAIN T.param => dynamic \in T.nodes
        BY <2>2, <2>5, FittingFacts
      <3> HIDE DEF text, static, dynamic, F
      <3>3. static \in T.nodes => below[left][static] = {h.method : h \in F(k + 1, static)}
        BY <2>4, <3>2 DEF F
      <3>4. CanBind(T, dynamic, text) =>
               below[left][dynamic] = {h.method : h \in F(k + 1, dynamic)}
        BY <2>4, <3>2 DEF CanBind, F
      <3>5. below[left + 1][node] = {h.method : h \in F(k, node)}
        BY <3>1, <3>2, <3>3, <3>4
      <3> QED
        BY <3>5 DEF F
    <2> QED
      BY <1>1, <2>1, <2>5 DEF k
  <1>4. N \in Fine
    <2> HIDE DEF Fine
    <2>1. \A left \in 0..N : left \in Fine
      BY <1>1, <1>2, <1>3, UpTo
    <2> QED
      BY <1>1, <2>1
  <1> HIDE DEF below
  <1>5. <<>> \in T.nodes /\ Len(<<>>) = 0 /\ N - N = 0
    BY <1>1 DEF TreeOK, TreeShape
  <1> QED
    BY <1>4, <1>5 DEF below

-----------------------------------------------------------------------------
(* The routing of an application.                                          *)

\* A path is a sequence of texts with its slashes cut off, too.
LEMMA SegmentsType ==
  ASSUME NEW path \in Seq(STRING), path # <<>>
  PROVE  Segments(path) \in Seq(STRING)
  <1>1. Len(path) \in Nat /\ Len(path) # 0
    OBVIOUS
  <1>2. Front(path) \in Seq(STRING)
    BY <1>1 DEF Front
  <1>3. <<>> \in Seq(STRING)
    OBVIOUS
  <1> QED
    BY <1>2, <1>3 DEF Segments

\* The whole of a path is what is left of it at the root.
LEMMA FromTheRoot ==
  ASSUME NEW T, TreeOK(T), NEW segs \in Seq(STRING)
  PROVE  /\ \A h : h \in Fitting(T, segs, 0, <<>>) <=> h \in T.handlers /\ Fits(h.route.path, segs)
         /\ \A h \in T.handlers :
              /\ BoundFrom(h.route.path, segs, 0) = Bound(h.route.path, segs)
              /\ \A g \in T.handlers :
                    MoreSpecific(g.route.path, h.route.path)
                        => BeatsFrom(g.route.path, h.route.path, 0)
  <1>1. \A h \in T.handlers : h.route.path \in Seq(Segment) /\ NodeOf(h.route.path, 0) = <<>>
    BY NodeFacts DEF TreeOK, HandlerOK
  <1>2. \A n : 0 + 1..n = 1..n
    OBVIOUS
  <1>3. \A h : h \in Fitting(T, segs, 0, <<>>) <=> h \in T.handlers /\ Fits(h.route.path, segs)
    BY <1>1, <1>2 DEF Fitting, Fits
  <1>4. ASSUME NEW path \in Seq(Segment) PROVE BoundFrom(path, segs, 0) = Bound(path, segs)
    <2>1. NamesFrom(path, 0) = ParamNames(path)
      BY <1>2 DEF NamesFrom, ParamNames, ToSet
    <2> QED
      BY <2>1 DEF BoundFrom, Bound
  <1>5. ASSUME NEW a, NEW b, MoreSpecific(a, b) PROVE BeatsFrom(a, b, 0)
    BY <1>2, <1>5 DEF MoreSpecific, BeatsFrom
  <1> QED
    BY <1>1, <1>3, <1>4, <1>5

\* A lookup finds the most specific of the templates that fit.
LEMMA LookupOK ==
  ASSUME NEW T, TreeOK(T), NEW path \in Seq(STRING), path # <<>>, NEW method
  PROVE  LET segs == Segments(path)
             result == Lookup(T, path, method)
             answering == Answering(T.handlers, segs, method)
         IN  /\ result.found \in BOOLEAN
             /\ IF result.found
                THEN /\ result.route \in answering
                     /\ \A r \in answering : ~MoreSpecific(r.path, result.route.path)
                     /\ result.params = Bound(result.route.path, segs)
                ELSE answering = {}
  <1> DEFINE segs == Segments(path)
             result == Lookup(T, path, method)
             answering == Answering(T.handlers, segs, method)
  <1>1. segs \in Seq(STRING)
    BY SegmentsType
  <1>2. ResultOK(T, segs, method, 0, <<>>, result)
    BY <1>1, SearchOK DEF Lookup
  <1> HIDE DEF segs, result
  <1>3. answering = {h.route : h \in {h \in T.handlers : h.method = method /\ Fits(h.route.path, segs)}}
    BY DEF Answering
  <1>4. ASSUME NEW h \in T.handlers, Best(T, segs, method, 0, <<>>, h), result = Results(h, segs, 0)
        PROVE  /\ result.found = TRUE /\ result.route \in answering
               /\ \A r \in answering : ~MoreSpecific(r.path, result.route.path)
               /\ result.params = Bound(result.route.path, segs)
    <2>1. /\ result.found = TRUE /\ result.route = h.route
          /\ result.params = BoundFrom(h.route.path, segs, 0)
      BY <1>4 DEF Results
    <2>2. result.params = Bound(result.route.path, segs)
      BY <1>1, <2>1, FromTheRoot
    <2>3. h.route \in answering
      BY <1>1, <1>3, <1>4, FromTheRoot DEF Best
    <2>4. ASSUME NEW r \in answering PROVE ~MoreSpecific(r.path, h.route.path)
      <3>1. PICK g \in T.handlers : g.method = method /\ Fits(g.route.path, segs) /\ r = g.route
        BY <1>3
      <3>2. g \in Fitting(T, segs, 0, <<>>)
        BY <1>1, <3>1, FromTheRoot
      <3>3. ~BeatsFrom(g.route.path, h.route.path, 0)
        BY <1>4, <3>1, <3>2 DEF Best
      <3> QED
        BY <1>1, <3>1, <3>3, FromTheRoot
    <2> QED
      BY <2>1, <2>2, <2>3, <2>4
  <1>5. ASSUME result = NotFound, \A h \in Fitting(T, segs, 0, <<>>) : h.method # method
        PROVE  result.found = FALSE /\ answering = {}
    <2>1. result.found = FALSE
      BY <1>5 DEF NotFound
    <2>2. \A h \in T.handlers : ~(h.method = method /\ Fits(h.route.path, segs))
      BY <1>1, <1>5, FromTheRoot
    <2> QED
      BY <1>3, <2>1, <2>2
  <1> HIDE DEF answering
  <1>6. /\ result.found \in BOOLEAN
        /\ IF result.found
           THEN /\ result.route \in answering
                /\ \A r \in answering : ~MoreSpecific(r.path, result.route.path)
                /\ result.params = Bound(result.route.path, segs)
           ELSE answering = {}
    BY <1>2, <1>4, <1>5 DEF ResultOK
  <1> QED
    BY <1>6 DEF segs, result, answering

\* The methods that are allowed at a path are those it is answered for.
LEMMA AllowedOK ==
  ASSUME NEW T, TreeOK(T), NEW path \in Seq(STRING), path # <<>>, NEW method
  PROVE  method \in FindAllowedMethods(T, path) <=> Lookup(T, path, method).found
  <1> DEFINE segs == Segments(path)
             result == Lookup(T, path, method)
  <1>1. segs \in Seq(STRING)
    BY SegmentsType
  <1>2. FindAllowedMethods(T, path) = {h.method : h \in Fitting(T, segs, 0, <<>>)}
    BY <1>1, CollectOK DEF FindAllowedMethods
  <1>3. /\ result.found \in BOOLEAN
        /\ result.found <=> Answering(T.handlers, segs, method) # {}
    BY LookupOK
  <1>4. Answering(T.handlers, segs, method) # {}
          <=> \E h \in Fitting(T, segs, 0, <<>>) : h.method = method
    <2> HIDE DEF segs
    <2> QED
      BY <1>1, FromTheRoot DEF Answering
  <1> HIDE DEF segs, result
  <1> QED
    BY <1>2, <1>3, <1>4 DEF result

-----------------------------------------------------------------------------
(* Registration: what is true of every route and of the tables of every    *)
(* router.                                                                 *)

Sources == {"path", "query", "header", "cookie", "callable", "container", "default callable", "body",
            "request", "background", "implicit path", "service", "implicit query"}

ParamSpec == [param : Parameter, source : Sources, coerce : {"int", "float", "bool", "none"}]

Route == [name : STRING, path : Seq(Segment), methods : SUBSET Methods, sig : Seq(Parameter),
          deps : Seq(STRING), version : STRING, attrs : SUBSET Attributes, plan : Seq(ParamSpec),
          planned : [services : SUBSET STRING, names : SUBSET STRING], trivial : BOOLEAN]

\* The plan is that of the signature, for what was known when it was made; a
\* trivial route has none of what the trivial path leaves out.
Planned(r) ==
    /\ r.plan = BuildHandlerPlan(r.sig, r.planned.services, r.planned.names)
    /\ r.planned.names \subseteq ParamNames(r.path)
    /\ r.trivial => /\ r.attrs \cap Features = {} /\ r.deps = <<>>
                    /\ \A i \in DOMAIN r.plan : r.plan[i].source \in TrivialSources
    /\ "static" \in r.attrs => r.sig = <<>>

Routes == {r \in Route : Planned(r)}

\* The tree and the list of a router.
TableOK(T, list, bad) ==
    /\ TreeOK(T) /\ list \in Seq(Routes)
    /\ \A i \in DOMAIN list : \A m \in list[i].methods :
          \E h \in T.handlers : h.route = list[i] /\ h.method = m
    /\ \A h \in T.handlers : h.route \in ToSet(list) \cup bad

\* A document is that of the routes there are.
CacheOK ==
    /\ DOMAIN schema = Versions
    /\ \A v \in Versions : schema[v] \subseteq {Document(routes[App], v)}

IInv ==
    /\ program \in Programs /\ services \subseteq STRING
    /\ DOMAIN tree = Routers /\ DOMAIN routes = Routers /\ refused \subseteq Routes
    /\ \A r \in Routers : TableOK(tree[r], routes[r], refused)
    /\ CacheOK

\* A plan has an entry for each parameter.
LEMMA PlanType ==
  ASSUME NEW sig \in Seq(Parameter), NEW known \in SUBSET STRING, NEW names \in SUBSET STRING
  PROVE  /\ BuildHandlerPlan(sig, known, names) \in Seq(ParamSpec)
         /\ DOMAIN BuildHandlerPlan(sig, known, names) = DOMAIN sig
  <1> DEFINE spec(i) == SpecOf(sig[i], known, names)
  <1>1. Len(sig) \in Nat /\ DOMAIN sig = 1..Len(sig) /\ \A i \in DOMAIN sig : sig[i] \in Parameter
    OBVIOUS
  <1>2. ASSUME NEW p \in Parameter PROVE SpecOf(p, known, names) \in ParamSpec
    <2>1. Source(p, known, names) \in Sources
      BY DEF Source, Sources
    <2>2. CoerceType(p) \in {"int", "float", "bool", "none"}
      BY DEF CoerceType
    <2> QED
      BY <2>1, <2>2 DEF SpecOf, ParamSpec
  <1>3. \A i \in 1..Len(sig) : spec(i) \in ParamSpec
    BY <1>1, <1>2
  <1>4. BuildHandlerPlan(sig, known, names) = [i \in 1..Len(sig) |-> spec(i)]
    BY <1>1 DEF BuildHandlerPlan
  <1> HIDE DEF spec
  <1> QED
    BY <1>1, <1>3, <1>4

\* The parameters of a template have names.
LEMMA NamesType ==
  ASSUME NEW path \in Seq(Segment)
  PROVE  ParamNames(path) \subseteq STRING
  <1>1. \A i \in DOMAIN path : path[i] \in Segment
    OBVIOUS
  <1>2. \A seg \in Segment : seg.text \in STRING
    BY DEF Segment
  <1> QED
    BY <1>1, <1>2 DEF ParamNames, ToSet

\* A prefix takes no parameter away.
LEMMA NamesConcat ==
  ASSUME NEW a \in Seq(Segment), NEW b \in Seq(Segment)
  PROVE  a \o b \in Seq(Segment) /\ ParamNames(b) \subseteq ParamNames(a \o b)
  <1>1. a \o b \in Seq(Segment)
    OBVIOUS
  <1>2. ToSet(b) \subseteq ToSet(a \o b)
    <2>1. Len(a) \in Nat /\ Len(b) \in Nat /\ Len(a \o b) = Len(a) + Len(b)
      OBVIOUS
    <2>2. ASSUME NEW i \in DOMAIN b
          PROVE  i + Len(a) \in DOMAIN (a \o b) /\ (a \o b)[i + Len(a)] = b[i]
      BY <2>1
    <2> QED
      BY <2>2 DEF ToSet
  <1> QED
    BY <1>1, <1>2 DEF ParamNames

\* A registration makes such a route.
LEMMA MadeOK ==
  ASSUME NEW router \in Routers, NEW g \in RouteDeclarations, services \subseteq STRING
  PROVE  MakeRoute(router, g) \in Routes
  <1> DEFINE path == Prefix[router] \o g.path
             planned == [services |-> Known(router), names |-> ParamNames(path)]
             plan == BuildHandlerPlan(g.sig, planned.services, planned.names)
             deps == SideEffects(router, g.deps)
             r == MakeRoute(router, g)
  <1>1. /\ g.name \in STRING /\ g.path \in Seq(Segment) /\ g.methods \subseteq Methods
        /\ g.sig \in Seq(Parameter) /\ g.deps \in Seq(STRING) /\ g.attrs \subseteq Attributes
        /\ "static" \in g.attrs => g.sig = <<>>
    BY DEF RouteDeclarations
  <1>2. Prefix[router] \in Seq(Segment) /\ RouterDeps[router] \in Seq(STRING)
        /\ Version[router] \in STRING
    BY RoutersAssumption
  <1>3. path \in Seq(Segment) /\ ParamNames(path) \subseteq STRING
    BY <1>1, <1>2, NamesConcat, NamesType
  <1>4. deps \in Seq(STRING)
    BY <1>1, <1>2 DEF SideEffects
  <1>5. Known(router) \subseteq STRING
    BY DEF Known
  <1>6. planned \in [services : SUBSET STRING, names : SUBSET STRING]
    BY <1>3, <1>5
  <1>7. plan \in Seq(ParamSpec)
    BY <1>1, <1>3, <1>5, PlanType
  <1> HIDE DEF path, deps, planned, plan
  <1>8. r = [name |-> g.name, path |-> path, methods |-> g.methods, sig |-> g.sig, deps |-> deps,
             version |-> Version[router], attrs |-> g.attrs, plan |-> plan, planned |-> planned,
             trivial |-> ComputeTrivial(plan, g.attrs, deps)]
    BY DEF MakeRoute, path, deps, planned, plan
  <1>9. ComputeTrivial(plan, g.attrs, deps) \in BOOLEAN
    BY DEF ComputeTrivial
  <1>10. r \in Route
    BY <1>1, <1>2, <1>3, <1>4, <1>6, <1>7, <1>8, <1>9 DEF Route
  <1>11. Planned(r)
    <2>1. plan = BuildHandlerPlan(g.sig, planned.services, planned.names)
          /\ planned.names = ParamNames(path)
      BY DEF plan, planned
    <2> QED
      BY <1>1, <1>8, <2>1 DEF Planned, ComputeTrivial
  <1> HIDE DEF r
  <1> QED
    BY <1>10, <1>11 DEF Routes, r

\* A copy of such a route is such a route.
LEMMA MergedOK ==
  ASSUME NEW parent \in Routers, NEW route \in Routes, services \subseteq STRING
  PROVE  Merged(parent, route) \in Routes
  <1> DEFINE path == Prefix[parent] \o route.path
             again == parent = App /\ ~NeedsScope(route.plan)
             planned == IF again THEN [services |-> services, names |-> ParamNames(path)]
                        ELSE route.planned
             plan == IF again THEN Rebuilt(route, planned) ELSE route.plan
             deps == SideEffects(parent, route.deps)
             r == Merged(parent, route)
  <1>1. route \in Route /\ Planned(route)
    BY DEF Routes
  <1>2. /\ route.name \in STRING /\ route.path \in Seq(Segment) /\ route.methods \subseteq Methods
        /\ route.sig \in Seq(Parameter) /\ route.deps \in Seq(STRING) /\ route.version \in STRING
        /\ route.attrs \subseteq Attributes /\ route.plan \in Seq(ParamSpec)
        /\ route.planned \in [services : SUBSET STRING, names : SUBSET STRING]
    BY <1>1 DEF Route
  <1>3. Prefix[parent] \in Seq(Segment) /\ RouterDeps[parent] \in Seq(STRING)
    BY RoutersAssumption
  <1>4. /\ path \in Seq(Segment) /\ ParamNames(path) \subseteq STRING
        /\ ParamNames(route.path) \subseteq ParamNames(path)
    BY <1>2, <1>3, NamesConcat, NamesType
  <1>5. deps \in Seq(STRING)
    BY <1>2, <1>3 DEF SideEffects
  <1>6. /\ planned \in [services : SUBSET STRING, names : SUBSET STRING]
        /\ planned.names \subseteq ParamNames(path)
        /\ plan = BuildHandlerPlan(route.sig, planned.services, planned.names)
    <2>1. CASE again
      <3>1. planned = [services |-> services, names |-> ParamNames(path)]
            /\ plan = Rebuilt(route, planned)
        BY <2>1
      <3> HIDE DEF planned, plan, path
      <3> QED
        BY <1>4, <3>1 DEF Rebuilt
    <2>2. CASE ~again
      BY <1>1, <1>2, <1>4, <2>2 DEF Planned
    <2> QED
      BY <2>1, <2>2
  <1> HIDE DEF path, deps, planned, plan
  <1>7. plan \in Seq(ParamSpec)
    <2>1. planned.services \subseteq STRING /\ planned.names \subseteq STRING
      BY <1>6
    <2> QED
      BY <1>2, <1>6, <2>1, PlanType
  <1>8. r = [name |-> route.name, path |-> path, methods |-> route.methods, sig |-> route.sig,
             deps |-> deps, version |-> route.version, attrs |-> route.attrs \ {"exclude"},
             plan |-> plan, planned |-> planned,
             trivial |-> ComputeTrivial(plan, route.attrs, deps)]
    BY DEF Merged, path, deps, planned, plan
  <1>9. ComputeTrivial(plan, route.attrs, deps) \in BOOLEAN
    BY DEF ComputeTrivial
  <1>10. r \in Route
    BY <1>2, <1>4, <1>5, <1>6, <1>7, <1>8, <1>9 DEF Route
  <1>11. Planned(r)
    BY <1>1, <1>6, <1>8 DEF Planned, ComputeTrivial
  <1> HIDE DEF r
  <1> QED
    BY <1>10, <1>11 DEF Routes, r

\* A table on which some routes are being registered.
Filling(start, t) ==
    /\ t = [tree |-> t.tree, routes |-> t.routes, refused |-> t.refused, raised |-> t.raised]
    /\ t.raised \in BOOLEAN /\ t.refused \subseteq Routes /\ start.refused \subseteq t.refused
    /\ TableOK(t.tree, t.routes, t.refused)

\* One route more, or one that is refused.
LEMMA InsertedIntoOK ==
  ASSUME NEW start, NEW table, Filling(start, table), NEW route \in Routes,
         NEW t \in InsertedInto(table, route)
  PROVE  Filling(start, t)
  <1>1. CASE table.raised
    BY <1>1 DEF InsertedInto
  <1>2. CASE ~table.raised
    <2>1. PICK r \in Insert(table.tree, route) :
             t = [tree |-> r.tree, raised |-> r.raised,
                  routes |-> IF r.raised THEN table.routes ELSE Append(table.routes, route),
                  refused |-> IF r.raised THEN table.refused \cup {route} ELSE table.refused]
      BY <1>2 DEF InsertedInto
    <2>2. TreeOK(table.tree) /\ table.routes \in Seq(Routes)
      BY DEF Filling, TableOK
    <2>3. route.path \in Seq(Segment)
      BY DEF Routes, Route
    <2>4. /\ TreeOK(r.tree) /\ table.tree.handlers \subseteq r.tree.handlers
          /\ \A h \in r.tree.handlers : h \in table.tree.handlers \/ h.route = route
          /\ ~r.raised => \A m \in route.methods :
                \E h \in r.tree.handlers : h.route = route /\ h.method = m
          /\ r.raised \in BOOLEAN
      BY <2>2, <2>3, InsertOK
    <2> DEFINE old == table.routes
               n == Len(old)
    <2>5. CASE r.raised
      <3>1. t = [tree |-> r.tree, raised |-> TRUE, routes |-> old,
                 refused |-> table.refused \cup {route}]
        BY <2>1, <2>4, <2>5
      <3>2. TableOK(r.tree, old, table.refused \cup {route})
        BY <2>2, <2>4 DEF Filling, TableOK
      <3> QED
        BY <3>1, <3>2 DEF Filling
    <2>6. CASE ~r.raised
      <3>1. t = [tree |-> r.tree, raised |-> FALSE, routes |-> Append(old, route),
                 refused |-> table.refused]
        BY <2>1, <2>4, <2>6
      <3>2. /\ Append(old, route) \in Seq(Routes) /\ n \in Nat
            /\ DOMAIN Append(old, route) = DOMAIN old \cup {n + 1}
            /\ Append(old, route)[n + 1] = route
            /\ \A i \in DOMAIN old : Append(old, route)[i] = old[i]
        BY <2>2
      <3>3. ToSet(Append(old, route)) = ToSet(old) \cup {route}
        BY <3>2 DEF ToSet
      <3> DEFINE list == Append(old, route)
      <3> HIDE DEF list, n
      <3>4. ASSUME NEW i \in DOMAIN list, NEW m \in list[i].methods
            PROVE  \E h \in r.tree.handlers : h.route = list[i] /\ h.method = m
        <4>1. CASE i \in DOMAIN old
          <5>1. list[i] = old[i]
            BY <3>2, <4>1 DEF list
          <5>2. \E h \in table.tree.handlers : h.route = old[i] /\ h.method = m
            BY <3>4, <4>1, <5>1 DEF Filling, TableOK
          <5> QED
            BY <2>4, <5>1, <5>2
        <4>2. CASE i = n + 1
          <5>1. list[i] = route
            BY <3>2, <4>2 DEF list
          <5> QED
            BY <2>4, <2>6, <3>4, <5>1
        <4> QED
          BY <3>2, <4>1, <4>2 DEF list
      <3>5. \A h \in r.tree.handlers : h.route \in ToSet(list) \cup table.refused
        BY <2>4, <3>3 DEF Filling, TableOK, list
      <3>6. TableOK(r.tree, list, table.refused)
        BY <2>4, <3>2, <3>4, <3>5 DEF TableOK, list
      <3> QED
        BY <3>1, <3>6 DEF Filling, list
    <2> QED
      BY <2>4, <2>5, <2>6
  <1> QED
    BY <1>1, <1>2 DEF Filling

\* Some routes more, up to one that is refused.
LEMMA InsertedAllOK ==
  ASSUME NEW start, Filling(start, start), NEW new \in Seq(Routes),
         NEW t \in InsertedAll(start, new)[Len(new)]
  PROVE  Filling(start, t)
  <1> DEFINE tables == InsertedAll(start, new)
             Fine == {n \in 0..Len(new) : \A u \in tables[n] : Filling(start, u)}
  <1>1. Len(new) \in Nat /\ \A n \in 1..Len(new) : new[n] \in Routes
    OBVIOUS
  <1>2. /\ tables[0] = {start}
        /\ \A n \in 1..Len(new) :
              tables[n] = UNION {InsertedInto(table, new[n]) : table \in tables[n - 1]}
    BY <1>1, InsertedAllFacts
  <1> HIDE DEF tables
  <1>3. 0 \in Fine
    BY <1>1, <1>2
  <1>4. ASSUME NEW n \in 0..Len(new), n \in Fine, n < Len(new) PROVE n + 1 \in Fine
    <2>1. n + 1 \in 1..Len(new) /\ (n + 1) - 1 = n
      BY <1>1, <1>4
    <2>2. tables[n + 1] = UNION {InsertedInto(table, new[n + 1]) : table \in tables[n]}
      BY <1>2, <2>1
    <2>3. ASSUME NEW u \in tables[n + 1] PROVE Filling(start, u)
      <3>1. PICK table \in tables[n] : u \in InsertedInto(table, new[n + 1])
        BY <2>2
      <3>2. Filling(start, table)
        BY <1>4
      <3>3. new[n + 1] \in Routes
        BY <1>1, <2>1
      <3> QED
        BY <3>1, <3>2, <3>3, InsertedIntoOK
    <2> QED
      BY <1>1, <2>1, <2>3
  <1>5. Len(new) \in Fine
    <2> HIDE DEF Fine
    <2>1. \A n \in 0..Len(new) : n \in Fine
      BY <1>1, <1>3, <1>4, UpTo
    <2> QED
      BY <1>1, <2>1
  <1> QED
    BY <1>5 DEF tables

\* What a table keeps as other routes are refused elsewhere.
LEMMA StillOK ==
  ASSUME NEW T, NEW list, NEW bad, NEW more, bad \subseteq more, TableOK(T, list, bad)
  PROVE  TableOK(T, list, more)
  BY DEF TableOK

\* Registering on one router leaves the tables of all of them right.
LEMMA RegisterOK ==
  ASSUME IInv, NEW router \in Routers, NEW new \in Seq(Routes), NEW joined,
         Register(router, new, joined)
  PROVE  /\ DOMAIN tree' = Routers /\ DOMAIN routes' = Routers /\ refused' \subseteq Routes
         /\ \A r \in Routers : TableOK(tree'[r], routes'[r], refused')
         /\ router # App => routes'[App] = routes[App]
  <1> DEFINE start == [tree |-> tree[router], routes |-> routes[router],
                       refused |-> refused, raised |-> FALSE]
  <1>1. PICK table \in InsertedAll(start, new)[Len(new)] :
           /\ tree' = [tree EXCEPT ![router] = table.tree]
           /\ routes' = [routes EXCEPT ![router] = table.routes]
           /\ refused' = table.refused
    BY DEF Register
  <1>2. Filling(start, start)
    BY DEF Filling, IInv
  <1>3. start.refused = refused
    OBVIOUS
  <1> HIDE DEF start
  <1>4. Filling(start, table)
    BY <1>2, InsertedAllOK
  <1>5. refused \subseteq refused' /\ refused' \subseteq Routes
        /\ TableOK(table.tree, table.routes, refused')
    BY <1>1, <1>3, <1>4 DEF Filling
  <1>6. ASSUME NEW r \in Routers PROVE TableOK(tree'[r], routes'[r], refused')
    <2>1. CASE r = router
      <3>1. tree'[r] = table.tree /\ routes'[r] = table.routes
        BY <1>1, <2>1 DEF IInv
      <3> QED
        BY <1>5, <3>1
    <2>2. CASE r # router
      <3>1. tree'[r] = tree[r] /\ routes'[r] = routes[r]
        BY <1>1, <2>2 DEF IInv
      <3>2. TableOK(tree[r], routes[r], refused)
        BY DEF IInv
      <3> QED
        BY <1>5, <3>1, <3>2, StillOK
    <2> QED
      BY <2>1, <2>2
  <1>7. DOMAIN tree' = Routers /\ DOMAIN routes' = Routers
    BY <1>1 DEF IInv
  <1>8. router # App => routes'[App] = routes[App]
    BY <1>1, RoutersAssumption DEF IInv
  <1> QED
    BY <1>5, <1>6, <1>7, <1>8

\* The empty cache.
LEMMA NoDocuments ==
  /\ DOMAIN NoSchema = Versions
  /\ \A v \in Versions : NoSchema[v] = {}
  BY DEF NoSchema

\* Nothing is registered in the beginning.
LEMMA InitOK == Init => IInv
  <1> SUFFICES ASSUME Init PROVE IInv
    OBVIOUS
  <1> USE DEF Init
  <1>1. TreeOK(EmptyTree)
    <2>1. <<>> \in Nodes
      BY DEF Nodes
    <2>2. DOMAIN EmptyTree.param = {} /\ EmptyTree.handlers = {} /\ EmptyTree.nodes = {<<>>}
      BY DEF EmptyTree
    <2> QED
      BY <2>1, <2>2 DEF TreeOK, TreeShape
  <1>2. EmptyTree.handlers = {}
    BY DEF EmptyTree
  <1>3. <<>> \in Seq(Routes) /\ DOMAIN <<>> = {}
    OBVIOUS
  <1>4. ASSUME NEW r \in Routers PROVE TableOK(tree[r], routes[r], refused)
    <2>1. tree[r] = EmptyTree /\ routes[r] = <<>>
      OBVIOUS
    <2> QED
      BY <1>1, <1>2, <1>3, <2>1 DEF TableOK
  <1>5. CacheOK
    BY NoDocuments DEF CacheOK
  <1> QED
    BY <1>4, <1>5 DEF IInv

\* The documents after a registration.
LEMMA InvalidatedOK ==
  ASSUME CacheOK, NEW router, schema' = Invalidated(router),
         router # App => routes'[App] = routes[App]
  PROVE  CacheOK'
  <1>1. CASE router = App
    BY <1>1, NoDocuments DEF CacheOK, Invalidated
  <1>2. CASE router # App
    <2>1. schema' = schema /\ routes'[App] = routes[App]
      BY <1>2 DEF Invalidated
    <2> QED
      BY <2>1 DEF CacheOK
  <1> QED
    BY <1>1, <1>2

\* Whatever registers routes and forgets the documents of the application.
LEMMA Registered ==
  ASSUME IInv, NEW router \in Routers, NEW new \in Seq(Routes), NEW joined,
         Register(router, new, joined),
         schema' = Invalidated(router), UNCHANGED <<program, services>>
  PROVE  IInv'
  <1>1. CacheOK'
    BY RegisterOK, InvalidatedOK DEF IInv
  <1> QED
    BY <1>1, RegisterOK DEF IInv

\* Every step keeps the tables right.
LEMMA NextOK == IInv /\ [Next]_vars => IInv'
  <1> SUFFICES ASSUME IInv, [Next]_vars PROVE IInv'
    OBVIOUS
  <1>1. \A g \in program : g \in Registrations
    BY ProgramsAssumption DEF IInv
  <1>2. services \subseteq STRING
    BY DEF IInv
  <1>3. ASSUME NEW g \in program, AddRoute(g) PROVE IInv'
    <2>1. g \in RouteDeclarations /\ g.router \in Routers
      BY <1>1, <1>3 DEF AddRoute, Registrations, RouteDeclarations
    <2>2. MakeRoute(g.router, g) \in Routes
      BY <1>2, <2>1, MadeOK
    <2>3. <<MakeRoute(g.router, g)>> \in Seq(Routes)
      BY <2>2
    <2> QED
      BY <1>3, <2>1, <2>3, Registered DEF AddRoute
  <1>4. ASSUME NEW g \in program, IncludeController(g) PROVE IInv'
    <2> DEFINE new == [i \in DOMAIN g.actions |-> MakeRoute(g.router, CollectRoutes(g)[i])]
    <2>1. g.router \in Routers /\ g.path \in Seq(Segment) /\ g.actions \in Seq(RouteDeclarations)
      BY <1>1, <1>4 DEF IncludeController, Registrations, RouteDeclarations
    <2>2. ASSUME NEW i \in DOMAIN g.actions PROVE MakeRoute(g.router, CollectRoutes(g)[i]) \in Routes
      <3>1. g.actions[i] \in RouteDeclarations
        BY <2>1
      <3>2. CollectRoutes(g)[i] = [g.actions[i] EXCEPT !.path = g.path \o @]
        BY DEF CollectRoutes
      <3>3. g.path \o g.actions[i].path \in Seq(Segment)
        BY <2>1, <3>1, NamesConcat DEF RouteDeclarations
      <3>4. CollectRoutes(g)[i] \in RouteDeclarations
        BY <3>1, <3>2, <3>3 DEF RouteDeclarations
      <3> QED
        BY <1>2, <2>1, <3>4, MadeOK
    <2>3. new \in Seq(Routes)
      <3> DEFINE made(i) == MakeRoute(g.router, CollectRoutes(g)[i])
      <3>1. Len(g.actions) \in Nat /\ DOMAIN g.actions = 1..Len(g.actions)
        BY <2>1
      <3>2. \A i \in 1..Len(g.actions) : made(i) \in Routes
        BY <2>2, <3>1
      <3>3. new = [i \in 1..Len(g.actions) |-> made(i)]
        BY <3>1
      <3> HIDE DEF made, new
      <3> QED
        BY <3>1, <3>2, <3>3
    <2>4. Register(g.router, new, mounts[g.router]) /\ schema' = Invalidated(g.router)
          /\ UNCHANGED <<program, services>>
      BY <1>4 DEF IncludeController
    <2> HIDE DEF new
    <2> QED
      BY <2>1, <2>3, <2>4, Registered
  <1>5. ASSUME NEW g \in program, IncludeRouter(g) PROVE IInv'
    <2> DEFINE old == routes[g.child]
               merged(i) == Merged(g.router, old[i])
               new == [i \in DOMAIN old |-> merged(i)]
    <2>1. g.router \in Routers /\ g.child \in Routers
      BY <1>1, <1>5 DEF IncludeRouter, Registrations, RouteDeclarations
    <2>2. old \in Seq(Routes)
      BY <2>1 DEF IInv, TableOK
    <2>3. Register(g.router, new, MergeMounts(g.router, mounts[g.router], mounts[g.child]))
          /\ schema' = Invalidated(g.router)
          /\ UNCHANGED <<program, services>>
      BY <1>5 DEF IncludeRouter
    <2>4. new \in Seq(Routes)
      <3> HIDE DEF old
      <3>1. Len(old) \in Nat /\ DOMAIN old = 1..Len(old)
        BY <2>2
      <3>2. \A i \in 1..Len(old) : merged(i) \in Routes
        BY <1>2, <2>1, <2>2, MergedOK
      <3> HIDE DEF merged
      <3> QED
        BY <3>1, <3>2
    <2> HIDE DEF new
    <2> QED
      BY <2>1, <2>3, <2>4, Registered
  <1>6. ASSUME NEW g \in program, Mount(g) PROVE IInv'
    BY <1>6 DEF Mount, IInv, CacheOK
  <1>7. ASSUME NEW g \in program, Provide(g) PROVE IInv'
    <2>1. g.type \in STRING
      BY <1>1, <1>7 DEF Provide, Registrations, RouteDeclarations
    <2> QED
      BY <1>7, <2>1 DEF Provide, IInv, CacheOK, registered
  <1>8. ASSUME NEW version \in Versions, Openapi(version) PROVE IInv'
    <2>1. CacheOK'
      BY <1>8 DEF Openapi, IInv, CacheOK, registered
    <2> QED
      BY <1>8, <2>1 DEF Openapi, IInv, registered
  <1>9. CASE UNCHANGED vars
    BY <1>9 DEF vars, registered, IInv, CacheOK
  <1> QED
    BY <1>3, <1>4, <1>5, <1>6, <1>7, <1>8, <1>9 DEF Next

\* Types, trees, plans and the cache stay right, whatever is registered.
THEOREM Invariant == Spec => []IInv
  BY InitOK, NextOK, PTL DEF Spec

-----------------------------------------------------------------------------
(* What the tables say of a request.                                       *)

\* What this says of the application itself.
LEMMA AppOK ==
  ASSUME IInv
  PROVE  /\ TreeOK(tree[App]) /\ routes[App] \in Seq(Routes) /\ refused \subseteq Routes
         /\ \A i \in DOMAIN routes[App] : routes[App][i] \in Routes
  <1>1. TableOK(tree[App], routes[App], refused)
    BY RoutersAssumption DEF IInv
  <1> QED
    BY <1>1 DEF TableOK, IInv

\* The list of routes and the handlers of the tree.
LEMMA RoutesAnswerOK == IInv => RoutesAnswer
  <1> SUFFICES ASSUME IInv PROVE RoutesAnswer
    OBVIOUS
  <1> DEFINE answering == {<<h.route, h.method>> : h \in tree[App].handlers}
  <1>1. TableOK(tree[App], routes[App], refused)
    BY RoutersAssumption DEF IInv
  <1>2. ASSUME NEW r \in ToSet(routes[App]), NEW m \in r.methods PROVE <<r, m>> \in answering
    <2>1. PICK i \in DOMAIN routes[App] : r = routes[App][i]
      BY DEF ToSet
    <2>2. PICK h \in tree[App].handlers : h.route = r /\ h.method = m
      BY <1>1, <1>2, <2>1 DEF TableOK
    <2> QED
      BY <2>2
  <1>3. ASSUME NEW a \in answering PROVE a[1] \in ToSet(routes[App]) \cup refused
    BY <1>1 DEF TableOK
  <1> QED
    BY <1>2, <1>3 DEF RoutesAnswer

\* Which answer says what of a lookup.
LEMMA TargetFacts ==
  ASSUME NEW path, NEW method, Lookup(tree[App], path, method).found \in BOOLEAN
  PROVE  LET target == Target(path, method)
             found == Lookup(tree[App], path, method).found
         IN  /\ target.by = "route" <=> found
             /\ target.by = "404" => ~found /\ FindAllowedMethods(tree[App], path) = {}
             /\ target.by = "405" => target.allowed = FindAllowedMethods(tree[App], path)
  BY DEF Target

\* Not found, not allowed and the methods that are.
LEMMA AllowedIsTrueOK == IInv => AllowedIsTrue
  <1> SUFFICES ASSUME IInv, NEW path \in Paths
               PROVE  LET answered == {m \in Methods : Target(path, m).by = "route"}
                      IN  \A method \in Methods \ answered :
                             LET target == Target(path, method)
                             IN  /\ target.by = "404" => answered = {}
                                 /\ target.by = "405" => target.allowed = answered
    BY DEF AllowedIsTrue
  <1> DEFINE T == tree[App]
             answered == {m \in Methods : Target(path, m).by = "route"}
             allowed == FindAllowedMethods(T, path)
  <1>1. path \in Seq(STRING) /\ path # <<>> /\ TreeOK(T)
    BY RequestsAssumption, AppOK
  <1>2. \A m : Lookup(T, path, m).found \in BOOLEAN
    BY <1>1, LookupOK
  <1>3. \A m : m \in allowed <=> Target(path, m).by = "route"
    BY <1>1, <1>2, AllowedOK, TargetFacts
  <1>4. allowed \subseteq Methods
    <2>1. ASSUME NEW h \in T.handlers PROVE h.method \in Methods
      <3>1. TableOK(T, routes[App], refused)
        BY RoutersAssumption DEF IInv
      <3>2. h.route \in ToSet(routes[App]) \cup refused
        BY <3>1 DEF TableOK
      <3>3. h.route \in Routes
        BY <3>2, AppOK DEF ToSet
      <3>4. h.method \in h.route.methods
        BY <1>1 DEF TreeOK, HandlerOK
      <3> QED
        BY <3>3, <3>4 DEF Routes, Route
    <2>2. Segments(path) \in Seq(STRING)
      BY <1>1, SegmentsType
    <2>3. allowed = {h.method : h \in Fitting(T, Segments(path), 0, <<>>)}
      BY <1>1, <2>2, CollectOK DEF FindAllowedMethods
    <2> QED
      BY <2>1, <2>3 DEF Fitting
  <1> HIDE DEF allowed, T
  <1>5. allowed = answered
    BY <1>3, <1>4
  <1>6. ASSUME NEW method \in Methods
        PROVE  LET target == Target(path, method)
               IN  /\ target.by = "404" => allowed = {}
                   /\ target.by = "405" => target.allowed = allowed
    BY <1>2, TargetFacts DEF allowed, T
  <1> HIDE DEF answered
  <1>7. \A method \in Methods \ answered :
           LET target == Target(path, method)
           IN  /\ target.by = "404" => answered = {}
               /\ target.by = "405" => target.allowed = answered
    BY <1>5, <1>6
  <1> QED
    BY <1>7 DEF answered

\* The same for the tree of the application.
LEMMA LookupMostSpecificOK == IInv => LookupMostSpecific
  <1> SUFFICES ASSUME IInv PROVE LookupMostSpecific
    OBVIOUS
  <1>1. ASSUME NEW path \in Paths, NEW method \in Methods
        PROVE  LET segs == Segments(path)
                   result == Lookup(tree[App], path, method)
                   answering == Answering(tree[App].handlers, segs, method)
               IN  IF result.found
                   THEN /\ result.route \in answering
                        /\ \A r \in answering : ~MoreSpecific(r.path, result.route.path)
                        /\ result.params = Bound(result.route.path, segs)
                   ELSE answering = {}
    <2>1. path \in Seq(STRING) /\ path # <<>> /\ TreeOK(tree[App])
      BY RequestsAssumption, AppOK
    <2> QED
      BY <2>1, LookupOK
  <1> QED
    BY <1>1 DEF LookupMostSpecific

\* Whatever is registered, in whatever order, on routers that are included and
\* mounted in whatever way: routing is what the templates alone say.
THEOREM RoutingIsCorrect == Spec => []RoutingCorrect
  <1>1. IInv => RoutingCorrect
    BY RoutesAnswerOK, LookupMostSpecificOK, AllowedIsTrueOK DEF RoutingCorrect
  <1> QED
    BY <1>1, Invariant, PTL

-----------------------------------------------------------------------------
(* Plans.                                                                  *)

\* Only markers for a part of the request have an alias and a default.
LEMMA ParameterFacts ==
  ASSUME NEW p \in Parameter
  PROVE  /\ p.marker \in {"none", "path", "query", "header", "cookie", "depends", "body"}
         /\ p.marker \notin {"path", "query", "header", "cookie"} =>
               p.markerDefault = FALSE /\ p.alias = FALSE /\ Key(p) = p.name
         /\ p.markerDefault \in BOOLEAN
         /\ p.base = Unannotated => p.marker = "none"
  BY DEF Parameter, Key

\* An entry of a plan is that of its parameter.
LEMMA PlanOf ==
  ASSUME NEW r \in Routes
  PROVE  /\ r.sig \in Seq(Parameter) /\ DOMAIN r.plan = DOMAIN r.sig
         /\ \A i \in DOMAIN r.sig :
               /\ r.sig[i] \in Parameter
               /\ r.plan[i] = SpecOf(r.sig[i], r.planned.services, r.planned.names)
  <1>1. /\ r.sig \in Seq(Parameter)
        /\ r.plan = BuildHandlerPlan(r.sig, r.planned.services, r.planned.names)
    BY DEF Routes, Route, Planned
  <1>2. \A i \in DOMAIN r.sig : r.sig[i] \in Parameter
    BY <1>1
  <1> QED
    BY <1>1, <1>2 DEF BuildHandlerPlan

\* What is given of a request that was led to a route.
LEMMA ForFacts ==
  ASSUME NEW r, NEW req \in Requests
  PROVE  LET led == For(r, req)
         IN  /\ \A key : Given(led, "path", key) <=> key \in ParamNames(r.path)
             /\ \A place \in {"query", "header", "cookie"} : \A key :
                   Given(led, place, key) <=> Given(req, place, key)
             /\ led.numeral = req.numeral /\ led.body = req.body /\ led.permitted = req.permitted
             /\ led.handler = req.handler /\ req.handler \in Endings
  <1>1. \A part \in req.given : part \in {"query", "header", "cookie"} \X STRING
    BY RequestsAssumption
  <1>2. /\ req = [given |-> req.given, numeral |-> req.numeral, body |-> req.body,
                  permitted |-> req.permitted, handler |-> req.handler]
        /\ req.handler \in Endings
    BY RequestsAssumption
  <1> DEFINE led == For(r, req)
  <1>3. /\ led.given = req.given \cup {<<"path", name>> : name \in ParamNames(r.path)}
        /\ led.numeral = req.numeral /\ led.body = req.body /\ led.permitted = req.permitted
        /\ led.handler = req.handler
    BY <1>2 DEF For
  <1> HIDE DEF led
  <1>4. ASSUME NEW key PROVE Given(led, "path", key) <=> key \in ParamNames(r.path)
    <2>1. <<"path", key>> \notin req.given
      BY <1>1
    <2> QED
      BY <1>3, <2>1 DEF Given
  <1>5. ASSUME NEW place \in {"query", "header", "cookie"}, NEW key
        PROVE  Given(led, place, key) <=> Given(req, place, key)
    BY <1>3 DEF Given
  <1> QED
    BY <1>2, <1>3, <1>4, <1>5 DEF led

\* How a handler may end, in either execution of the route.
LEMMA ClauseFacts ==
  /\ "returns" \in Endings /\ FullClauses["returns"] = "ok"
  /\ \A e \in Endings : FullClauses[e] = "ok" => e = "returns"
  /\ \A e \in Endings \ {"MissingCredentialError", "RequestEntityTooLarge"} :
        TrivialClauses[e] = FullClauses[e]
  /\ \A e \in {"MissingCredentialError", "RequestEntityTooLarge"} :
        FullClauses[e] \in {"401", "413"} /\ TrivialClauses[e] = "500"
  <1>1. Endings = {"returns", "TimeoutError", "RequestValidationError", "MissingCredentialError",
                   "RequestEntityTooLarge", "HTTPException", "Exception"}
    BY DEF Endings, FullClauses
  <1>2. /\ FullClauses["returns"] = "ok" /\ FullClauses["TimeoutError"] = "504"
        /\ FullClauses["RequestValidationError"] = "422"
        /\ FullClauses["MissingCredentialError"] = "401"
        /\ FullClauses["RequestEntityTooLarge"] = "413"
        /\ FullClauses["HTTPException"] = "own" /\ FullClauses["Exception"] = "500"
    BY DEF FullClauses
  <1>3. TrivialClauses = [e \in Endings |->
                              IF e \in {"MissingCredentialError", "RequestEntityTooLarge"}
                              THEN FullClauses["Exception"] ELSE FullClauses[e]]
    BY DEF TrivialClauses, Endings, FullClauses
  <1> HIDE DEF FullClauses, TrivialClauses, Endings
  <1> QED
    BY <1>1, <1>2, <1>3

\* The arguments are looked at before the end of the handler.
LEMMA CalledFacts ==
  ASSUME NEW sig, NEW kwargs, NEW ran, NEW headers, NEW status, NEW other
  PROVE  \/ Called(sig, kwargs, ran, headers, status) = Called(sig, kwargs, ran, headers, other)
         \/ /\ Called(sig, kwargs, ran, headers, status).status = status
            /\ Called(sig, kwargs, ran, headers, other)
                  = [Called(sig, kwargs, ran, headers, status) EXCEPT !.status = other]
  BY DEF Called, Answer

\* The type of a parameter and what its value is converted to.
LEMMA CoerceAgree ==
  ASSUME NEW req, NEW p
  PROVE  Coerce(req, CoerceType(p)) = CoerceValue(req, p.base)
  BY DEF Coerce, CoerceType, CoerceValue

\* One parameter, from a plan that is not stale.
LEMMA ValueAgrees ==
  ASSUME NEW p \in Parameter, NEW known, NEW names, NEW led,
         \A key : Given(led, "path", key) <=> key \in names,
         p.default \notin Dependencies,
         p.dep \in Dependencies => ExecuteDepPlan[p.dep] = ResolveCallableDep[p.dep]
  PROVE  FromPlan(SpecOf(p, known, names), led, known) = FromSignature(p, led, known)
  <1> DEFINE spec == SpecOf(p, known, names)
             source == Source(p, known, names)
             Same == FromPlan(spec, led, known) = FromSignature(p, led, known)
  <1>1. spec.param = p /\ spec.source = source /\ spec.coerce = CoerceType(p)
    BY DEF SpecOf
  <1> SUFFICES Same
    OBVIOUS
  <1> HIDE DEF spec
  <1>2. Coerce(led, spec.coerce) = CoerceValue(led, p.base)
    BY <1>1, CoerceAgree
  <1>3. CASE p.marker \in {"path", "query", "header", "cookie"}
    BY <1>1, <1>2, <1>3 DEF FromPlan, FromSignature, Source
  <1>4. CASE p.marker = "depends"
    BY <1>1, <1>4 DEF FromPlan, FromSignature, Source
  <1>5. CASE p.marker \in {"none", "body"}
    <2>1. CASE p.marker = "body" \/ p.base = "body"
      BY <1>1, <1>5, <2>1 DEF FromPlan, FromSignature, Source
    <2>2. CASE ~(p.marker = "body" \/ p.base = "body")
      BY <1>1, <1>2, <1>5, <2>2 DEF FromPlan, FromSignature, Source
    <2> QED
      BY <2>1, <2>2
  <1> QED
    BY <1>3, <1>4, <1>5, ParameterFacts

\* All parameters of all routes.
LEMMA PlansAgree == IInv => PlanFollowsSignature
  <1> SUFFICES ASSUME IInv PROVE PlanFollowsSignature
    OBVIOUS
  <1>1. ASSUME NEW route \in Routes, ~Stale(route), ~OnlyInPlans(route.sig), NEW req \in Requests
        PROVE  ResolveFromPlan(route.plan, For(route, req), services)
                 = ResolveDependencies(route.sig, For(route, req), services)
    <2> DEFINE led == For(route, req)
               names == ParamNames(route.path)
    <2>1. route.planned.services = services /\ route.planned.names = names
      BY <1>1 DEF Stale
    <2>2. /\ DOMAIN route.plan = DOMAIN route.sig
          /\ \A i \in DOMAIN route.sig :
                route.sig[i] \in Parameter
                /\ route.plan[i] = SpecOf(route.sig[i], services, names)
      BY <2>1, PlanOf
    <2>3. \A key : Given(led, "path", key) <=> key \in names
      BY ForFacts
    <2> HIDE DEF led, names
    <2>4. ASSUME NEW i \in DOMAIN route.sig
          PROVE  FromPlan(route.plan[i], led, services) = FromSignature(route.sig[i], led, services)
      <3>1. /\ route.sig[i].default \notin Dependencies
            /\ route.sig[i].dep \in Dependencies =>
                 ExecuteDepPlan[route.sig[i].dep] = ResolveCallableDep[route.sig[i].dep]
        BY <1>1 DEF OnlyInPlans
      <3> QED
        BY <2>2, <2>3, <3>1, ValueAgrees
    <2>5. ResolveFromPlan(route.plan, led, services) = ResolveDependencies(route.sig, led, services)
      BY <2>2, <2>4 DEF ResolveFromPlan, ResolveDependencies
    <2> QED
      BY <2>5 DEF led
  <1> QED
    BY <1>1, AppOK DEF PlanFollowsSignature

\* A plan that was made at registration and the signature that is read at
\* request time give a handler the same arguments, on every route there can be,
\* however it came to the application.
THEOREM PlanIsFollowed == Spec => []PlanFollowsSignature
  BY PlansAgree, Invariant, PTL

-----------------------------------------------------------------------------
(* The short ways of a request.                                            *)

\* One parameter of a trivial plan.
LEMMA TrivialValueAgrees ==
  ASSUME NEW p \in Parameter, NEW known, NEW names, NEW led, NEW now,
         \A key \in names : Given(led, "path", key),
         SpecOf(p, known, names).source \in TrivialSources,
         SpecOf(p, known, names).source = "query" =>
             FromPlan(SpecOf(p, known, names), led, now) # Nothing
  PROVE  FromPlan(SpecOf(p, known, names), led, now) = TrivialValue(SpecOf(p, known, names), led)
  <1> DEFINE spec == SpecOf(p, known, names)
             Same == FromPlan(spec, led, now) = TrivialValue(spec, led)
  <1>1. spec.param = p /\ spec.source = Source(p, known, names)
    BY DEF SpecOf
  <1>2. /\ spec.source = "implicit path" => p.name \in names
        /\ spec.source \in {"implicit path", "implicit query"} =>
              p.marker \notin {"path", "query", "header", "cookie"}
    BY <1>1 DEF Source
  <1>3. spec.source \in TrivialSources
    OBVIOUS
  <1>4. spec.source = "query" => FromPlan(spec, led, now) # Nothing
    OBVIOUS
  <1> SUFFICES Same
    OBVIOUS
  <1> HIDE DEF spec
  <1>5. CASE spec.source = "request"
    BY <1>5 DEF FromPlan, TrivialValue
  <1>6. CASE spec.source = "path"
    BY <1>1, <1>6 DEF FromPlan, TrivialValue, MarkedPath
  <1>7. CASE spec.source = "implicit path"
    BY <1>1, <1>2, <1>7, ParameterFacts DEF FromPlan, TrivialValue
  <1>8. CASE spec.source = "query"
    BY <1>1, <1>4, <1>8 DEF FromPlan, TrivialValue, Fallback
  <1>9. CASE spec.source = "implicit query"
    BY <1>1, <1>2, <1>9, ParameterFacts DEF FromPlan, TrivialValue
  <1> QED
    BY <1>3, <1>5, <1>6, <1>7, <1>8, <1>9 DEF TrivialSources

\* A static answer, the trivial path and the full one.
LEMMA FastAgree == IInv => FastPathsAgree
  <1> SUFFICES ASSUME IInv PROVE FastPathsAgree
    OBVIOUS
  <1>1. ASSUME NEW route \in Routes, NEW req \in Requests, ~MissingQuery(route, req),
               ~StaticIgnores(route)
        PROVE  LET fast == FastAnswer(route, For(route, req))
                   full == FullAnswer(route, For(route, req))
               IN  \/ fast = full
                   \/ /\ WithoutClause(route, req) /\ full.status \in {"401", "413"}
                      /\ fast = [full EXCEPT !.status = "500"]
    <2> DEFINE led == For(route, req)
               end == Ending(route, led)
               kwargs == ResolveFromPlan(route.plan, led, services)
    <2>1. CASE "static" \in route.attrs /\ "middleware" \notin route.attrs
      <3>1. route.sig = <<>> /\ DOMAIN route.plan = {}
        <4>1. route.sig = <<>>
          BY <2>1 DEF Routes, Planned
        <4> QED
          BY <4>1, PlanOf
      <3>2. route.deps = <<>> /\ "permissions" \notin route.attrs /\ "deprecated" \notin route.attrs
        BY <1>1, <2>1 DEF StaticIgnores
      <3>3. ToSet(kwargs) = {}
        BY <3>1 DEF ResolveFromPlan, ToSet
      <3>4. route.attrs \cap {"deprecated"} = {}
        BY <3>2
      <3>5. FullAnswer(route, led) = Called(route.sig, kwargs, route.deps, {}, FullClauses[end])
        BY <3>2, <3>3, <3>4 DEF FullAnswer
      <3>6. Called(<<>>, kwargs, <<>>, {}, FullClauses[end]) = Answer("ok", <<>>, <<>>, {})
        <4>1. FullClauses[end] = "ok"
          BY <2>1, ClauseFacts DEF Ending
        <4> QED
          BY <3>3, <4>1 DEF Called
      <3>7. FastAnswer(route, led) = StaticAnswer
        BY <2>1 DEF FastAnswer
      <3> QED
        BY <3>1, <3>2, <3>5, <3>6, <3>7 DEF StaticAnswer
    <2>2. CASE route.trivial /\ "static" \notin route.attrs /\ "middleware" \notin route.attrs
      <3>1. /\ route.attrs \cap Features = {} /\ route.deps = <<>>
            /\ \A i \in DOMAIN route.plan : route.plan[i].source \in TrivialSources
        BY <2>2 DEF Routes, Planned
      <3>2. /\ DOMAIN route.plan = DOMAIN route.sig
            /\ \A i \in DOMAIN route.sig :
                  /\ route.sig[i] \in Parameter
                  /\ route.plan[i] = SpecOf(route.sig[i], route.planned.services, route.planned.names)
        BY PlanOf
      <3>3. \A key \in route.planned.names : Given(led, "path", key)
        BY ForFacts DEF Routes, Planned
      <3>4. ASSUME NEW i \in DOMAIN route.plan
            PROVE  FromPlan(route.plan[i], led, services) = TrivialValue(route.plan[i], led)
        <4>1. ASSUME route.plan[i].source = "query"
              PROVE  FromPlan(route.plan[i], led, services) # Nothing
          <5>1. FromPlan(route.plan[i], req, services) # Nothing
            BY <1>1, <4>1 DEF MissingQuery
          <5>2. FromPlan(route.plan[i], led, services) = FromPlan(route.plan[i], req, services)
            <6>1. /\ \A key : Given(led, "query", key) <=> Given(req, "query", key)
                  /\ led.numeral = req.numeral
              BY ForFacts
            <6> HIDE DEF led
            <6> QED
              BY <4>1, <6>1 DEF FromPlan, Coerce
          <5> QED
            BY <5>1, <5>2
        <4> HIDE DEF led
        <4> QED
          BY <3>1, <3>2, <3>3, <3>4, <4>1, TrivialValueAgrees
      <3>5. kwargs = ResolveTrivial(route.plan, led)
        <4> HIDE DEF led
        <4> QED
          BY <3>4 DEF ResolveFromPlan, ResolveTrivial
      <3>6. FastAnswer(route, led) = Called(route.sig, kwargs, <<>>, {}, TrivialClauses[end])
        BY <2>2, <3>5 DEF FastAnswer, TrivialAnswer
      <3>7. route.attrs \cap {"deprecated"} = {} /\ "permissions" \notin route.attrs
        BY <3>1 DEF Features
      <3>8. FullAnswer(route, led) = Called(route.sig, kwargs, <<>>, {}, FullClauses[end])
        BY <3>1, <3>7 DEF FullAnswer
      <3>9. end = Ending(route, req) /\ end \in Endings
        BY <2>2, ForFacts DEF Ending
      <3> HIDE DEF led, kwargs, end
      <3>10. CASE end \in {"MissingCredentialError", "RequestEntityTooLarge"}
        <4>1. WithoutClause(route, req)
          BY <2>2, <3>9, <3>10 DEF WithoutClause
        <4>2. FullClauses[end] \in {"401", "413"} /\ TrivialClauses[end] = "500"
          BY <3>10, ClauseFacts
        <4> QED
          BY <3>6, <3>8, <4>1, <4>2, CalledFacts DEF led
      <3>11. CASE end \notin {"MissingCredentialError", "RequestEntityTooLarge"}
        BY <3>6, <3>8, <3>9, <3>11, ClauseFacts DEF led
      <3> QED
        BY <3>10, <3>11
    <2>3. CASE /\ ~("static" \in route.attrs /\ "middleware" \notin route.attrs)
               /\ ~(route.trivial /\ "static" \notin route.attrs /\ "middleware" \notin route.attrs)
      <3>1. "middleware" \in route.attrs => ~route.trivial
        BY DEF Routes, Planned, Features
      <3> QED
        BY <2>3, <3>1 DEF FastAnswer
    <2> QED
      BY <2>1, <2>2, <2>3
  <1> QED
    BY <1>1, AppOK DEF FastPathsAgree

\* The path without dependencies, permissions and headers that a route was
\* given at registration answers every request as the full path would, but for
\* a Query() without any default, for what a static route is told to ignore, and
\* for a handler that raises itself what only the full path answers 401 or 413.
THEOREM FastPathsAreSafe == Spec => []FastPathsAgree
  BY FastAgree, Invariant, PTL

-----------------------------------------------------------------------------
(* What dependencies ask for, and what is run for them.                    *)

\* What a call of each dependency does, to some depth.
LEMMA CallsToFacts ==
  ASSUME NEW depth \in Nat, NEW supplied
  PROVE  /\ \A d \in Dependencies : CallsTo(depth, supplied)[0][d] = NoCalls
         /\ \A n \in 1..depth : \A d \in Dependencies :
               CallsTo(depth, supplied)[n][d]
                   = CallDependency(d, CallsTo(depth, supplied)[n - 1], supplied)
  <1> DEFINE Base == [d \in Dependencies |-> NoCalls]
             After(x, n) == [d \in Dependencies |-> CallDependency(d, x, supplied)]
             Is(f, N) == f = [n \in 0..N |-> IF n = 0 THEN Base ELSE After(f[n - 1], n)]
             S == {N \in Nat : \E f : Is(f, N)}
             it == CallsTo(depth, supplied)
  <1>1. 0 \in S
    <2> DEFINE g == [n \in 0..0 |-> Base]
    <2> HIDE DEF Base, After
    <2>1. Is(g, 0)
      OBVIOUS
    <2> QED
      BY <2>1
  <1>2. ASSUME NEW N \in Nat, N \in S PROVE N + 1 \in S
    <2>1. PICK f : Is(f, N)
      BY <1>2
    <2> DEFINE g == [n \in 0..N + 1 |-> IF n = N + 1 THEN After(f[N], N + 1) ELSE f[n]]
    <2> HIDE DEF Base, After
    <2>2. ASSUME NEW n \in 0..N + 1
          PROVE  g[n] = IF n = 0 THEN Base ELSE After(g[n - 1], n)
      <3>1. CASE n = N + 1
        BY <3>1
      <3>2. CASE n # N + 1
        <4>1. n \in 0..N /\ g[n] = f[n] /\ (n # 0 => n - 1 \in 0..N /\ g[n - 1] = f[n - 1])
          BY <3>2
        <4> QED
          BY <2>1, <4>1
      <3> QED
        BY <3>1, <3>2
    <2>3. Is(g, N + 1)
      BY <2>2
    <2> HIDE DEF g, Is
    <2> QED
      BY <2>3
  <1>3. depth \in S
    <2> HIDE DEF S, Is
    <2>1. \A n \in 0..depth : n \in S /\ n < depth => n + 1 \in S
      BY <1>2
    <2>2. \A n \in 0..depth : n \in S
      BY <1>1, <2>1, UpTo
    <2> QED
      BY <2>2
  <1>4. Is(it, depth)
    <2>1. it = CHOOSE f : Is(f, depth)
      BY DEF CallsTo
    <2> HIDE DEF Is, it
    <2> QED
      BY <1>3, <2>1
  <1>5. ASSUME NEW n \in 0..depth
        PROVE  it[n] = IF n = 0 THEN Base ELSE After(it[n - 1], n)
    <2> HIDE DEF it, Base, After
    <2> QED
      BY <1>4
  <1> HIDE DEF it, Is, S, Base, After
  <1>6. it[0] = Base
    BY <1>5
  <1>7. ASSUME NEW n \in 1..depth PROVE it[n] = After(it[n - 1], n)
    <2>1. n \in 0..depth /\ n # 0
      OBVIOUS
    <2> QED
      BY <1>5, <2>1
  <1> QED
    BY <1>6, <1>7 DEF it, Base, After

\* What was done after each of the arguments of a dependency.
TakenInTurn(taken, params, calls) ==
    /\ taken[0] = NoCalls
    /\ \A n \in 1..Len(params) : taken[n] = Argument(taken[n - 1], params[n], calls)
    /\ Arguments(params, calls) = taken[Len(params)]

\* One argument of a dependency after the other.
LEMMA ArgumentsFacts ==
  ASSUME NEW params \in Seq(STRING), NEW calls
  PROVE  \E taken : TakenInTurn(taken, params, calls)
  <1> DEFINE Base == NoCalls
             After(x, n) == Argument(x, params[n], calls)
             Is(f, N) == f = [n \in 0..N |-> IF n = 0 THEN Base ELSE After(f[n - 1], n)]
             S == {N \in Nat : \E f : Is(f, N)}
             it == CHOOSE f : Is(f, Len(params))
  <1>1. 0 \in S
    <2> DEFINE g == [n \in 0..0 |-> Base]
    <2> HIDE DEF Base, After
    <2>1. Is(g, 0)
      OBVIOUS
    <2> QED
      BY <2>1
  <1>2. ASSUME NEW N \in Nat, N \in S PROVE N + 1 \in S
    <2>1. PICK f : Is(f, N)
      BY <1>2
    <2> DEFINE g == [n \in 0..N + 1 |-> IF n = N + 1 THEN After(f[N], N + 1) ELSE f[n]]
    <2> HIDE DEF Base, After
    <2>2. ASSUME NEW n \in 0..N + 1
          PROVE  g[n] = IF n = 0 THEN Base ELSE After(g[n - 1], n)
      <3>1. CASE n = N + 1
        BY <3>1
      <3>2. CASE n # N + 1
        <4>1. n \in 0..N /\ g[n] = f[n] /\ (n # 0 => n - 1 \in 0..N /\ g[n - 1] = f[n - 1])
          BY <3>2
        <4> QED
          BY <2>1, <4>1
      <3> QED
        BY <3>1, <3>2
    <2>3. Is(g, N + 1)
      BY <2>2
    <2> HIDE DEF g, Is
    <2> QED
      BY <2>3
  <1>3. Len(params) \in S
    <2> HIDE DEF S, Is
    <2>1. \A n \in 0..Len(params) : n \in S /\ n < Len(params) => n + 1 \in S
      BY <1>2
    <2>2. \A n \in 0..Len(params) : n \in S
      BY <1>1, <2>1, UpTo
    <2> QED
      BY <2>2
  <1>4. Is(it, Len(params))
    <2> HIDE DEF Is
    <2> QED
      BY <1>3
  <1>5. ASSUME NEW n \in 0..Len(params)
        PROVE  it[n] = IF n = 0 THEN Base ELSE After(it[n - 1], n)
    <2> HIDE DEF it, Base, After
    <2> QED
      BY <1>4
  <1>8. Arguments(params, calls) = it[Len(params)]
    BY DEF Arguments
  <1> HIDE DEF it, Is, S, Base, After
  <1>6. it[0] = Base
    BY <1>5
  <1>7. ASSUME NEW n \in 1..Len(params) PROVE it[n] = After(it[n - 1], n)
    <2>1. n \in 0..Len(params) /\ n # 0
      OBVIOUS
    <2> QED
      BY <1>5, <2>1
  <1>9. TakenInTurn(it, params, calls)
    BY <1>6, <1>7, <1>8 DEF Base, After, TakenInTurn
  <1> QED
    BY <1>9

\* What a dependency asks for, to some depth.
LEMMA AsksFacts ==
  ASSUME Depth \in Nat
  PROVE  \E asks : /\ \A n \in 1..Depth : \A d \in Dependencies :
                         asks[n][d] = \E a \in ToSet(DepParams[d]) \cap Dependencies :
                                         a \in Schemes \/ asks[n - 1][a]
                   /\ AsksForScheme = asks[Depth]
  <1> DEFINE Base == [d \in Dependencies |-> FALSE]
             After(x, n) == [d \in Dependencies |-> \E a \in ToSet(DepParams[d]) \cap Dependencies :
                                                a \in Schemes \/ x[a]]
             Is(f, N) == f = [n \in 0..N |-> IF n = 0 THEN Base ELSE After(f[n - 1], n)]
             S == {N \in Nat : \E f : Is(f, N)}
             it == CHOOSE f : Is(f, Depth)
  <1>1. 0 \in S
    <2> DEFINE g == [n \in 0..0 |-> Base]
    <2> HIDE DEF Base, After
    <2>1. Is(g, 0)
      OBVIOUS
    <2> QED
      BY <2>1
  <1>2. ASSUME NEW N \in Nat, N \in S PROVE N + 1 \in S
    <2>1. PICK f : Is(f, N)
      BY <1>2
    <2> DEFINE g == [n \in 0..N + 1 |-> IF n = N + 1 THEN After(f[N], N + 1) ELSE f[n]]
    <2> HIDE DEF Base, After
    <2>2. ASSUME NEW n \in 0..N + 1
          PROVE  g[n] = IF n = 0 THEN Base ELSE After(g[n - 1], n)
      <3>1. CASE n = N + 1
        BY <3>1
      <3>2. CASE n # N + 1
        <4>1. n \in 0..N /\ g[n] = f[n] /\ (n # 0 => n - 1 \in 0..N /\ g[n - 1] = f[n - 1])
          BY <3>2
        <4> QED
          BY <2>1, <4>1
      <3> QED
        BY <3>1, <3>2
    <2>3. Is(g, N + 1)
      BY <2>2
    <2> HIDE DEF g, Is
    <2> QED
      BY <2>3
  <1>3. Depth \in S
    <2> HIDE DEF S, Is
    <2>1. \A n \in 0..Depth : n \in S /\ n < Depth => n + 1 \in S
      BY <1>2
    <2>2. \A n \in 0..Depth : n \in S
      BY <1>1, <2>1, UpTo
    <2> QED
      BY <2>2
  <1>4. Is(it, Depth)
    <2> HIDE DEF Is
    <2> QED
      BY <1>3
  <1>5. ASSUME NEW n \in 0..Depth
        PROVE  it[n] = IF n = 0 THEN Base ELSE After(it[n - 1], n)
    <2> HIDE DEF it, Base, After
    <2> QED
      BY <1>4
  <1>8. AsksForScheme = it[Depth]
    BY DEF AsksForScheme
  <1> HIDE DEF it, Is, S, Base, After
  <1>6. it[0] = Base
    BY <1>5
  <1>7. ASSUME NEW n \in 1..Depth PROVE it[n] = After(it[n - 1], n)
    <2>1. n \in 0..Depth /\ n # 0
      OBVIOUS
    <2> QED
      BY <1>5, <2>1
  <1>9. ASSUME NEW n \in 1..Depth, NEW d \in Dependencies
        PROVE  it[n][d] = \E a \in ToSet(DepParams[d]) \cap Dependencies : a \in Schemes \/ it[n - 1][a]
    <2>1. it[n] = After(it[n - 1], n)
      BY <1>7
    <2> QED
      BY <2>1 DEF After
  <1> QED
    BY <1>8, <1>9

\* What is in a longer sequence.
LEMMA ToSetFacts ==
  ASSUME NEW S, NEW s \in Seq(S)
  PROVE  /\ \A t \in Seq(S) : s \o t \in Seq(S) /\ ToSet(s \o t) = ToSet(s) \cup ToSet(t)
         /\ \A x \in S : Append(s, x) \in Seq(S) /\ ToSet(Append(s, x)) = ToSet(s) \cup {x}
  <1>1. ASSUME NEW t \in Seq(S) PROVE s \o t \in Seq(S) /\ ToSet(s \o t) = ToSet(s) \cup ToSet(t)
    <2>1. /\ Len(s) \in Nat /\ Len(t) \in Nat /\ Len(s \o t) = Len(s) + Len(t)
          /\ DOMAIN s = 1..Len(s) /\ DOMAIN t = 1..Len(t)
          /\ DOMAIN (s \o t) = 1..(Len(s) + Len(t))
          /\ \A i \in 1..(Len(s) + Len(t)) :
                (s \o t)[i] = IF i <= Len(s) THEN s[i] ELSE t[i - Len(s)]
      OBVIOUS
    <2>2. ASSUME NEW x \in ToSet(s \o t) PROVE x \in ToSet(s) \cup ToSet(t)
      <3>1. PICK i \in 1..(Len(s) + Len(t)) : x = (s \o t)[i]
        BY <2>1 DEF ToSet
      <3>2. CASE i <= Len(s)
        BY <2>1, <3>1, <3>2 DEF ToSet
      <3>3. CASE i > Len(s)
        <4>1. i - Len(s) \in 1..Len(t) /\ x = t[i - Len(s)]
          BY <2>1, <3>1, <3>3
        <4> QED
          BY <2>1, <4>1 DEF ToSet
      <3> QED
        BY <2>1, <3>2, <3>3
    <2>3. \A x \in ToSet(s) : x \in ToSet(s \o t)
      BY <2>1 DEF ToSet
    <2>4. ASSUME NEW x \in ToSet(t) PROVE x \in ToSet(s \o t)
      <3>1. PICK i \in 1..Len(t) : x = t[i]
        BY <2>1 DEF ToSet
      <3>2. i + Len(s) \in 1..(Len(s) + Len(t)) /\ (s \o t)[i + Len(s)] = x
        BY <2>1, <3>1
      <3> QED
        BY <2>1, <3>2 DEF ToSet
    <2> QED
      BY <2>2, <2>3, <2>4
  <1>2. ASSUME NEW x \in S PROVE Append(s, x) \in Seq(S) /\ ToSet(Append(s, x)) = ToSet(s) \cup {x}
    <2>1. /\ Len(s) \in Nat /\ DOMAIN s = 1..Len(s) /\ DOMAIN Append(s, x) = 1..Len(s) + 1
          /\ Append(s, x)[Len(s) + 1] = x /\ \A i \in 1..Len(s) : Append(s, x)[i] = s[i]
      OBVIOUS
    <2> QED
      BY <2>1 DEF ToSet
  <1> QED
    BY <1>1, <1>2

CallsType == [ran : Seq(Dependencies), cleanup : Seq(Dependencies), broken : BOOLEAN]

\* Nothing has been called.
LEMMA NoCallsOK == NoCalls \in CallsType /\ ToSet(NoCalls.ran) = {}
  BY DEF NoCalls, CallsType, ToSet

\* What runs for the arguments runs for one of them.
LEMMA ArgumentsOK ==
  ASSUME NEW params \in Seq(STRING), NEW calls,
         \A a \in Dependencies : calls[a] \in CallsType
  PROVE  LET args == Arguments(params, calls)
         IN  /\ args \in CallsType
             /\ \A x \in ToSet(args.ran) : \E a \in ToSet(params) \cap Dependencies :
                   x \in ToSet(calls[a].ran)
  <1>0. PICK taken : TakenInTurn(taken, params, calls)
    BY ArgumentsFacts
  <1>1. /\ taken[0] = NoCalls
        /\ \A n \in 1..Len(params) : taken[n] = Argument(taken[n - 1], params[n], calls)
        /\ Arguments(params, calls) = taken[Len(params)]
    BY <1>0 DEF TakenInTurn
  <1> DEFINE Of1(x) == \E a \in ToSet(params) \cap Dependencies : x \in ToSet(calls[a].ran)
             Good(c) == c \in CallsType /\ \A x \in ToSet(c.ran) : Of1(x)
             Fine == {n \in 0..Len(params) : Good(taken[n])}
  <1>2. Len(params) \in Nat /\ DOMAIN params = 1..Len(params)
    OBVIOUS
  <1>3. 0 \in Fine
    BY <1>1, <1>2, NoCallsOK
  <1>4. ASSUME NEW n \in 0..Len(params), n \in Fine, n < Len(params) PROVE n + 1 \in Fine
    <2> DEFINE c == taken[n]
               a == params[n + 1]
    <2>1. n + 1 \in 1..Len(params) /\ (n + 1) - 1 = n
      BY <1>2, <1>4
    <2>2. taken[n + 1] = Argument(c, a, calls)
      BY <1>1, <2>1
    <2>3. Good(c)
      BY <1>4
    <2>4. a \in ToSet(params)
      BY <1>2, <2>1 DEF ToSet
    <2> HIDE DEF c, a, Of1
    <2>5. Good(Argument(c, a, calls))
      <3>1. CASE c.broken \/ a \notin Dependencies
        BY <2>3, <3>1 DEF Argument
      <3>2. CASE ~c.broken /\ a \in Dependencies
        <4> DEFINE d == calls[a]
        <4>1. d \in CallsType
          BY <3>2
        <4>2. \A x \in ToSet(d.ran) : Of1(x)
          BY <2>4, <3>2 DEF Of1
        <4> HIDE DEF d
        <4>3. Argument(c, a, calls)
                = [ran |-> c.ran \o d.ran, cleanup |-> c.cleanup \o d.cleanup, broken |-> d.broken]
          BY <3>2 DEF Argument, d
        <4>4. /\ c.ran \in Seq(Dependencies) /\ c.cleanup \in Seq(Dependencies)
              /\ d.ran \in Seq(Dependencies) /\ d.cleanup \in Seq(Dependencies)
              /\ d.broken \in BOOLEAN
          BY <2>3, <4>1 DEF CallsType
        <4>5. /\ c.ran \o d.ran \in Seq(Dependencies) /\ c.cleanup \o d.cleanup \in Seq(Dependencies)
              /\ ToSet(c.ran \o d.ran) = ToSet(c.ran) \cup ToSet(d.ran)
          BY <4>4, ToSetFacts
        <4> QED
          BY <2>3, <4>2, <4>3, <4>4, <4>5 DEF CallsType
      <3> QED
        BY <3>1, <3>2
    <2> HIDE DEF Good
    <2> QED
      BY <1>2, <2>1, <2>2, <2>5
  <1>5. Len(params) \in Fine
    <2> HIDE DEF Fine
    <2>1. \A n \in 0..Len(params) : n \in Fine
      BY <1>2, <1>3, <1>4, UpTo
    <2> QED
      BY <1>2, <2>1
  <1> HIDE DEF Of1
  <1>6. Good(Arguments(params, calls))
    BY <1>1, <1>5
  <1> QED
    BY <1>6 DEF Of1

\* A scheme that runs for a dependency is the dependency or is asked for by it.
LEMMA SchemesAsked ==
  ASSUME NEW d \in Dependencies, ToSet(ExecuteDepPlan[d].ran) \cap Schemes # {}
  PROVE  d \in Schemes \/ AsksForScheme[d]
  <1> DEFINE supplied == {"request", "scopes", "default"}
             calls == CallsTo(Depth, supplied)
  <1>1. Depth \in Nat
    BY DependenciesAssumption, FS_CardinalityType DEF Depth
  <1>2. PICK asks : /\ \A n \in 1..Depth : \A e \in Dependencies :
                          asks[n][e] = \E a \in ToSet(DepParams[e]) \cap Dependencies :
                                          a \in Schemes \/ asks[n - 1][a]
                    /\ AsksForScheme = asks[Depth]
    BY <1>1, AsksFacts
  <1>3. /\ \A e \in Dependencies : calls[0][e] = NoCalls
        /\ \A n \in 1..Depth : \A e \in Dependencies :
              calls[n][e] = CallDependency(e, calls[n - 1], supplied)
    BY <1>1, CallsToFacts
  <1>4. ExecuteDepPlan = calls[Depth]
    BY DEF ExecuteDepPlan
  <1> DEFINE Told(c, e, n) == ToSet(c.ran) \cap Schemes # {} => e \in Schemes \/ asks[n][e]
             Fine == {n \in 0..Depth : \A e \in Dependencies :
                        calls[n][e] \in CallsType /\ Told(calls[n][e], e, n)}
  <1> HIDE DEF calls, supplied
  <1>5. 0 \in Fine
    BY <1>1, <1>3, NoCallsOK
  <1>6. ASSUME NEW n \in 0..Depth, n \in Fine, n < Depth PROVE n + 1 \in Fine
    <2>1. n + 1 \in 1..Depth /\ (n + 1) - 1 = n
      BY <1>1, <1>6
    <2>2. ASSUME NEW e \in Dependencies
          PROVE  calls[n + 1][e] \in CallsType /\ Told(calls[n + 1][e], e, n + 1)
      <3> DEFINE args == Arguments(DepParams[e], calls[n])
                 c == calls[n + 1][e]
      <3>1. c = CallDependency(e, calls[n], supplied)
        BY <1>3, <2>1
      <3>2. DepParams[e] \in Seq(STRING)
        BY DependenciesAssumption
      <3>3. /\ args \in CallsType
            /\ \A x \in ToSet(args.ran) : \E a \in ToSet(DepParams[e]) \cap Dependencies :
                  x \in ToSet(calls[n][a].ran)
        BY <1>6, <3>2, ArgumentsOK
      <3>4. asks[n + 1][e] = \E a \in ToSet(DepParams[e]) \cap Dependencies :
                                a \in Schemes \/ asks[n][a]
        BY <1>2, <2>1
      <3>5. c = IF args.broken \/ ~(ToSet(DepParams[e]) \subseteq Dependencies \cup supplied)
                THEN [args EXCEPT !.broken = TRUE]
                ELSE [args EXCEPT !.ran = Append(@, e),
                                  !.cleanup = IF e \in Generators THEN Append(@, e) ELSE @]
        BY <3>1 DEF CallDependency
      <3> HIDE DEF args, c
      <3>6. /\ args.ran \in Seq(Dependencies) /\ args.cleanup \in Seq(Dependencies)
            /\ args.broken \in BOOLEAN
        BY <3>3 DEF CallsType
      <3>7. /\ Append(args.ran, e) \in Seq(Dependencies)
            /\ Append(args.cleanup, e) \in Seq(Dependencies)
            /\ ToSet(Append(args.ran, e)) = ToSet(args.ran) \cup {e}
        BY <3>6, ToSetFacts
      <3>8. c \in CallsType /\ ToSet(c.ran) \subseteq ToSet(args.ran) \cup {e}
        BY <3>3, <3>5, <3>6, <3>7 DEF CallsType
      <3>9. Told(c, e, n + 1)
        <4> SUFFICES ASSUME NEW x \in ToSet(c.ran), x \in Schemes, e \notin Schemes
                     PROVE  asks[n + 1][e]
          OBVIOUS
        <4>1. PICK a \in ToSet(DepParams[e]) \cap Dependencies : x \in ToSet(calls[n][a].ran)
          BY <3>3, <3>8
        <4>2. Told(calls[n][a], a, n)
          BY <1>6
        <4> QED
          BY <3>4, <4>1, <4>2
      <3> QED
        BY <3>8, <3>9 DEF c
    <2> QED
      BY <1>1, <2>1, <2>2
  <1>7. Depth \in Fine
    <2> HIDE DEF Fine
    <2>1. \A n \in 0..Depth : n \in Fine
      BY <1>1, <1>5, <1>6, UpTo
    <2> QED
      BY <1>1, <2>1
  <1> QED
    BY <1>2, <1>4, <1>7

\* Where a plan reads a parameter and where the document lists it.
LEMMA ListedOK ==
  ASSUME NEW p \in Parameter, NEW known, NEW names, NEW shown, names \subseteq shown,
         ~SeenDifferently(SpecOf(p, known, names), shown)
  PROVE  ReadFrom(SpecOf(p, known, names))
           = IF Listed(p, shown).in \in {"nowhere", "body"} THEN <<"nowhere">>
             ELSE <<Listed(p, shown).in, Listed(p, shown).name>>
  <1> DEFINE spec == SpecOf(p, known, names)
             listed == Listed(p, shown)
             place == Place(p, shown)
             Right == ReadFrom(spec) = IF listed.in \in {"nowhere", "body"} THEN <<"nowhere">>
                                       ELSE <<listed.in, listed.name>>
  <1>1. spec.param = p /\ spec.source = Source(p, known, names)
    BY DEF SpecOf
  <1>2. listed.in = place /\ listed.name = IF p.marker = place THEN Key(p) ELSE p.name
    BY DEF Listed
  <1>3. /\ p.name \in shown => spec.source \in {"path", "implicit path"}
        /\ p.name = "request" => spec.source = "request"
        /\ spec.source # "default callable"
        /\ ~(spec.source = "service" /\ HasDefault(p) /\ p.base \in Simple)
        /\ spec.source = "implicit query" => HasDefault(p) /\ p.base \in Simple
        /\ p.base = Unannotated => spec.source # "implicit path"
    BY <1>1 DEF SeenDifferently
  <1>4. /\ p.marker \in {"none", "path", "query", "header", "cookie", "depends", "body"}
        /\ p.base = Unannotated => p.marker = "none"
    BY ParameterFacts
  <1> SUFFICES Right
    OBVIOUS
  <1> HIDE DEF spec, listed, place
  <1>5. CASE p.name = "request"
    <2>1. place = "nowhere"
      BY <1>5 DEF Place, place
    <2> QED
      BY <1>2, <1>3, <1>5, <2>1 DEF ReadFrom
  <1>6. CASE p.name # "request" /\ p.marker \in {"path", "query", "header", "cookie"}
    <2>1. spec.source = p.marker
      BY <1>1, <1>6 DEF Source
    <2>2. place = p.marker
      BY <1>3, <1>4, <1>6, <2>1 DEF Place, place
    <2> QED
      BY <1>1, <1>2, <1>6, <2>1, <2>2 DEF ReadFrom
  <1>7. CASE p.name # "request" /\ p.marker = "depends"
    <2>1. spec.source \in {"callable", "container"}
      BY <1>1, <1>7 DEF Source
    <2>2. place = "nowhere"
      BY <1>3, <1>7, <2>1 DEF Place, place
    <2> QED
      BY <1>2, <2>1, <2>2 DEF ReadFrom
  <1>8. CASE p.name # "request" /\ p.marker \in {"none", "body"}
    <2>1. CASE p.marker = "body" \/ p.base = "body"
      <3>1. spec.source = "body"
        BY <1>1, <1>3, <1>8, <2>1 DEF Source
      <3>2. place = "body"
        BY <1>3, <1>4, <1>8, <2>1, <3>1 DEF Place, Unannotated, place
      <3> QED
        BY <1>2, <3>1, <3>2 DEF ReadFrom
    <2>2. CASE p.marker = "none" /\ p.base # "body" /\ p.base = "background"
      <3>1. spec.source = "background"
        BY <1>1, <1>3, <1>8, <2>2 DEF Source
      <3>2. place = "nowhere"
        BY <1>3, <1>8, <2>2, <3>1 DEF Place, Simple, place
      <3> QED
        BY <1>2, <3>1, <3>2 DEF ReadFrom
    <2>3. CASE /\ p.marker = "none" /\ p.base # "body" /\ p.base # "background"
               /\ p.name \in names
      <3>1. spec.source = "implicit path"
        BY <1>1, <1>3, <1>8, <2>3 DEF Source
      <3>2. place = "path" /\ listed.name = p.name
        BY <1>2, <1>3, <1>8, <2>3, <3>1 DEF Place, place
      <3> QED
        BY <1>1, <1>2, <3>1, <3>2 DEF ReadFrom
    <2>4. CASE /\ p.marker = "none" /\ p.base # "body" /\ p.base # "background"
               /\ p.name \notin names
      <3>1. spec.source = IF p.base \in known THEN "service" ELSE "implicit query"
        BY <1>1, <1>3, <1>8, <2>4 DEF Source
      <3>2. p.name \notin shown
        BY <1>3, <3>1
      <3>3. place = IF HasDefault(p) /\ p.base \in Simple THEN "query" ELSE "nowhere"
        BY <1>8, <2>4, <3>2 DEF Place, Simple, Unannotated, place
      <3> QED
        BY <1>1, <1>2, <1>3, <2>4, <3>1, <3>3 DEF ReadFrom
    <2> QED
      BY <1>8, <2>1, <2>2, <2>3, <2>4
  <1> QED
    BY <1>4, <1>5, <1>6, <1>7, <1>8

\* The cache, the parameters and the security of an operation.
LEMMA SchemaOK == IInv => SchemaTrue
  <1> SUFFICES ASSUME IInv PROVE SchemaTrue
    OBVIOUS
  <1>1. ASSUME NEW route \in Routes PROVE ListedWhereRead(route)
    <2> DEFINE names == ParamNames(route.path)
    <2>1. /\ DOMAIN route.plan = DOMAIN route.sig
          /\ \A i \in DOMAIN route.sig :
                /\ route.sig[i] \in Parameter
                /\ route.plan[i] = SpecOf(route.sig[i], route.planned.services, route.planned.names)
      BY PlanOf
    <2>2. route.planned.names \subseteq names
      BY DEF Routes, Planned
    <2>3. ASSUME NEW i \in DOMAIN route.plan, ~SeenDifferently(route.plan[i], names)
          PROVE  LET listed == Listed(route.plan[i].param, names)
                 IN  ReadFrom(route.plan[i]) = IF listed.in \in {"nowhere", "body"} THEN <<"nowhere">>
                                               ELSE <<listed.in, listed.name>>
      <3>1. route.plan[i].param = route.sig[i]
        <4>1. \A p, known, of : SpecOf(p, known, of).param = p
          BY DEF SpecOf
        <4> QED
          BY <2>1, <4>1
      <3> HIDE DEF names
      <3> QED
        BY <2>1, <2>2, <2>3, <3>1, ListedOK
    <2> QED
      BY <2>3 DEF ListedWhereRead
  <1>2. ASSUME NEW route \in Routes PROVE SecurityTold(route)
    <2> DEFINE op == Operation(route.sig, ParamNames(route.path))
               called == UNION {Named(p) : p \in ToSet(route.sig)}
               ran == UNION {ToSet(ExecuteDepPlan[d].ran) : d \in called}
    <2>1. ASSUME NEW x \in ran, x \in Schemes PROVE op.secured
      <3>1. PICK p \in ToSet(route.sig) : \E d \in Named(p) : x \in ToSet(ExecuteDepPlan[d].ran)
        OBVIOUS
      <3>2. PICK d \in Named(p) : x \in ToSet(ExecuteDepPlan[d].ran)
        BY <3>1
      <3>3. d \in Dependencies
        BY DEF Named
      <3>4. d \in Schemes \/ AsksForScheme[d]
        BY <2>1, <3>2, <3>3, SchemesAsked
      <3>5. op.secured = \E q \in ToSet(route.sig) : \E e \in Named(q) : e \in Schemes \/ AsksForScheme[e]
        BY DEF Operation
      <3> HIDE DEF op
      <3> QED
        BY <3>4, <3>5
    <2> HIDE DEF op
    <2>2. ran \cap Schemes # {} => op.secured
      BY <2>1
    <2> QED
      BY <2>2 DEF SecurityTold, op
  <1>3. \A v \in Versions : schema[v] \subseteq {Document(routes[App], v)}
    BY DEF IInv, CacheOK
  <1> QED
    BY <1>1, <1>2, <1>3, AppOK DEF SchemaTrue

\* What is generated and cached is what is served.
THEOREM SchemaIsTrue == Spec => []SchemaTrue
  BY SchemaOK, Invariant, PTL

-----------------------------------------------------------------------------
(* What a comparison of two documents reports.                             *)

\* A document of one route.
LEMMA OneRoute ==
  ASSUME NEW route, "hidden" \notin route.attrs
  PROVE  LET doc == Document(<<route>>, "__all__")
         IN  /\ DOMAIN doc = Slots(route)
             /\ \A slot \in Slots(route) :
                   doc[slot] = Operation(route.sig, ParamNames(route.path))
  <1> DEFINE routes1 == <<route>>
             shown == {i \in DOMAIN routes1 : /\ "hidden" \notin routes1[i].attrs
                                            /\ "__all__" \in {"__all__", routes1[i].version}}
             latest(slot) == CHOOSE i \in shown :
                                 /\ slot \in Slots(routes1[i])
                                 /\ \A j \in shown : slot \in Slots(routes1[j]) => j <= i
             op(slot) == LET r == routes1[latest(slot)] IN Operation(r.sig, ParamNames(r.path))
             slots == UNION {Slots(routes1[i]) : i \in shown}
  <1>1. Document(routes1, "__all__") = [slot \in slots |-> op(slot)]
    BY DEF Document
  <1>2. shown = {1} /\ routes1[1] = route
    <2>1. DOMAIN routes1 = {1} /\ routes1[1] = route
      OBVIOUS
    <2> HIDE DEF routes1
    <2> QED
      BY <2>1
  <1> HIDE DEF routes1, shown
  <1>3. slots = Slots(route)
    BY <1>2
  <1>4. ASSUME NEW slot \in Slots(route) PROVE op(slot) = Operation(route.sig, ParamNames(route.path))
    <2>1. latest(slot) = 1
      BY <1>2
    <2> HIDE DEF latest
    <2> QED
      BY <1>2, <2>1
  <1> HIDE DEF op, slots
  <1> QED
    BY <1>1, <1>3, <1>4 DEF routes1

\* A type that differs is reported.
LEMMA TypeReported ==
  ASSUME NEW old, NEW new, NEW slot, NEW p \in old.params, NEW q \in new.params,
         p.name = q.name, p.in = q.in, q.type \in Simple,
         ~NotCompared(old, new),
         \A o \in old.params : o.name = q.name /\ o.in = q.in => o.type # q.type
  PROVE  Change("parameter_type_changed", TRUE, slot) \in CompareOperation(slot, old, new)
  <1> DEFINE id == <<q.name, q.in>>
             o == Of(old, id)
             n == Of(new, id)
  <1>1. \A a, b : <<a.name, a.in>> = <<b.name, b.in>> <=> a.name = b.name /\ a.in = b.in
    OBVIOUS
  <1>2. o \in old.params /\ o.name = q.name /\ o.in = q.in
    <2>1. \E x \in old.params : <<x.name, x.in>> = id
      BY <1>1
    <2>2. o = CHOOSE x \in old.params : <<x.name, x.in>> = id
      BY DEF Of
    <2> HIDE DEF o
    <2>3. o \in old.params /\ <<o.name, o.in>> = id
      BY <2>1, <2>2
    <2> QED
      BY <1>1, <2>3
  <1>3. n = q
    <2>1. \E x \in new.params : <<x.name, x.in>> = id
      OBVIOUS
    <2>2. n = CHOOSE x \in new.params : <<x.name, x.in>> = id
      BY DEF Of
    <2> HIDE DEF n
    <2>3. n \in new.params /\ <<n.name, n.in>> = id
      BY <2>1, <2>2
    <2> QED
      BY <1>1, <2>3 DEF NotCompared
  <1>4. id \in ById(new) \cap ById(old)
    BY <1>1 DEF ById
  <1> HIDE DEF o, n
  <1>5. o.type # q.type
    BY <1>2
  <1>6. o.type \in Simple
    BY <1>2, <1>5 DEF NotCompared
  <1>7. TypesDiffer(o, n)
    BY <1>3, <1>5, <1>6 DEF TypesDiffer
  <1>8. id \in {i \in ById(new) \cap ById(old) : TypesDiffer(Of(old, i), Of(new, i))}
    BY <1>4, <1>7 DEF o, n
  <1> HIDE DEF id
  <1> QED
    BY <1>8 DEF CompareOperation

\* A parameter that is neither missing nor refused.
Served(value) == value \notin {Invalid, Unresolved, Omitted}

\* Of what a document lists, only a value that is no number is refused.
LEMMA OnlyNumbers ==
  ASSUME NEW p \in Parameter, NEW known, NEW names, NEW led,
         LET spec == SpecOf(p, known, names)
         IN  /\ ~SeenDifferently(spec, names)
             /\ Listed(p, names).in \notin {"nowhere", "body"}
             /\ ~Served(FromPlan(spec, led, known))
  PROVE  LET listed == Listed(p, names)
         IN  /\ listed.in = "query" /\ Given(led, "query", listed.name)
             /\ p.base \in {"int", "float"} /\ ~led.numeral
  <1> DEFINE spec == SpecOf(p, known, names)
             listed == Listed(p, names)
             value == FromPlan(spec, led, known)
  <1>1. spec.param = p /\ spec.source = Source(p, known, names) /\ spec.coerce = CoerceType(p)
    BY DEF SpecOf
  <1>2. ReadFrom(spec) = <<listed.in, listed.name>>
    BY ListedOK
  <1>3. listed.in \notin {"nowhere", "body"} /\ ~Served(value) /\ ~SeenDifferently(spec, names)
    OBVIOUS
  <1>4. \A v : v \in {PathValue, MarkerDefault, Default, Nothing, <<"str">>} => Served(v)
    <2>1. /\ Served(PathValue) /\ Served(MarkerDefault) /\ Served(Default) /\ Served(Nothing)
          /\ Served(<<"str">>)
      BY DEF Served, PathValue, MarkerDefault, Default, Nothing, Invalid, Unresolved, Omitted
    <2> QED
      BY <2>1
  <1>5. Fallback(p) \in {MarkerDefault, Default, Nothing}
    BY DEF Fallback
  <1> HIDE DEF spec, listed
  <1>6. \A type : ~Served(Coerce(led, type)) => type \in {"int", "float"} /\ ~led.numeral
    BY DEF Served, Coerce, Invalid, Unresolved, Omitted
  <1>7. spec.coerce \in {"int", "float"} => p.base \in {"int", "float"}
    BY <1>1 DEF CoerceType
  <1>8. CASE spec.source = "path"
    BY <1>1, <1>3, <1>4, <1>8 DEF FromPlan, MarkedPath
  <1>9. CASE spec.source \in {"header", "cookie"}
    BY <1>1, <1>3, <1>4, <1>5, <1>9 DEF FromPlan
  <1>10. CASE spec.source = "implicit path"
    BY <1>1, <1>3, <1>4, <1>10 DEF FromPlan
  <1>11. CASE spec.source = "query"
    <2>1. value = IF Given(led, "query", Key(p)) THEN Coerce(led, spec.coerce) ELSE Fallback(p)
      BY <1>1, <1>11 DEF FromPlan
    <2>2. listed.in = "query" /\ listed.name = Key(p)
      BY <1>1, <1>2, <1>11 DEF ReadFrom
    <2> QED
      BY <1>3, <1>4, <1>5, <1>6, <1>7, <2>1, <2>2 DEF listed
  <1>12. CASE spec.source = "implicit query"
    <2>1. HasDefault(p)
      BY <1>1, <1>3, <1>12 DEF SeenDifferently
    <2>2. value = IF Given(led, "query", p.name) THEN Coerce(led, spec.coerce) ELSE Default
      BY <1>1, <1>12, <2>1 DEF FromPlan
    <2>3. listed.in = "query" /\ listed.name = p.name
      BY <1>1, <1>2, <1>12 DEF ReadFrom
    <2> QED
      BY <1>3, <1>4, <1>6, <1>7, <2>2, <2>3 DEF listed
  <1>13. spec.source \in {"path", "header", "cookie", "implicit path", "query", "implicit query"}
    <2>1. ReadFrom(spec) # <<"nowhere">>
      BY <1>2
    <2>2. spec.source \in Sources
      BY <1>1 DEF Source, Sources
    <2> QED
      BY <2>1, <2>2 DEF ReadFrom, Sources
  <1> QED
    BY <1>8, <1>9, <1>10, <1>11, <1>12, <1>13

\* What a route needs to answer.
LEMMA AnswerFacts ==
  ASSUME NEW route, NEW led, Ending(route, led) \in Endings
  PROVE  LET permitted == "permissions" \in route.attrs => led.permitted
             kwargs == ResolveFromPlan(route.plan, led, services)
         IN  /\ FullAnswer(route, led).status = "ok" =>
                   permitted /\ Ending(route, led) = "returns"
             /\ permitted /\ Ending(route, led) = "returns" /\ DOMAIN route.plan = DOMAIN route.sig
                  /\ (\A i \in DOMAIN route.plan : Served(kwargs[i]))
                    => FullAnswer(route, led).status = "ok"
  <1> DEFINE permitted == "permissions" \in route.attrs => led.permitted
             kwargs == ResolveFromPlan(route.plan, led, services)
             headers == route.attrs \cap {"deprecated"}
             status == FullClauses[Ending(route, led)]
  <1>1. FullAnswer(route, led) =
          CASE ~permitted -> Answer("403", <<>>, <<>>, headers)
            [] permitted /\ ToSet(kwargs) \cap Failure # {} ->
                  Called(route.sig, kwargs, <<>>, headers, status)
            [] OTHER -> Called(route.sig, kwargs, route.deps, headers, status)
    BY DEF FullAnswer
  <1>2. DOMAIN kwargs = DOMAIN route.plan
    BY DEF ResolveFromPlan
  <1> HIDE DEF permitted, kwargs, headers, status
  <1>3. \A s, k, ran, h : Answer(s, k, ran, h).status = s
    BY DEF Answer
  <1>4. ASSUME FullAnswer(route, led).status = "ok" PROVE Ending(route, led) = "returns"
    <2>1. \A ran : Called(route.sig, kwargs, ran, headers, status).status \in {"422", "500", status}
      BY <1>3 DEF Called
    <2>2. status = "ok"
      BY <1>1, <1>3, <1>4, <2>1
    <2> QED
      BY <2>2, ClauseFacts DEF status
  <1>5. ASSUME FullAnswer(route, led).status = "ok" PROVE permitted
    <2> SUFFICES ASSUME ~permitted PROVE FALSE
      OBVIOUS
    <2>1. FullAnswer(route, led) = Answer("403", <<>>, <<>>, headers)
      BY <1>1
    <2> QED
      BY <1>3, <1>5, <2>1
  <1>6. ASSUME permitted, Ending(route, led) = "returns", DOMAIN route.plan = DOMAIN route.sig,
               \A i \in DOMAIN route.plan : Served(kwargs[i])
        PROVE  FullAnswer(route, led).status = "ok"
    <2>1. /\ Invalid \notin ToSet(kwargs) /\ Unresolved \notin ToSet(kwargs)
          /\ \A i \in DOMAIN route.sig : kwargs[i] # Omitted
      BY <1>2, <1>6 DEF ToSet, Served
    <2>2. ToSet(kwargs) \cap Failure = {}
      BY <2>1 DEF Failure
    <2>3. FullAnswer(route, led) = Called(route.sig, kwargs, route.deps, headers, status)
      BY <1>1, <1>6, <2>2
    <2>4. status = "ok"
      BY <1>6, ClauseFacts DEF status
    <2>5. \E given : Called(route.sig, kwargs, route.deps, headers, status)
                       = Answer("ok", given, route.deps, headers)
      BY <2>1, <2>4 DEF Called
    <2> QED
      BY <1>3, <2>3, <2>5
  <1> QED
    BY <1>4, <1>5, <1>6 DEF permitted, kwargs

\* What a new signature changes of a route.
LEMMA RevisedFacts ==
  ASSUME NEW old \in Routes, NEW sig \in Seq(Parameter)
  PROVE  LET new == Revised(old, sig)
         IN  /\ new.sig = sig /\ new.path = old.path /\ new.methods = old.methods
             /\ new.attrs = old.attrs
             /\ DOMAIN new.plan = DOMAIN sig
             /\ \A i \in DOMAIN sig : new.plan[i] = SpecOf(sig[i], services, ParamNames(old.path))
  <1> DEFINE planned == [services |-> services, names |-> ParamNames(old.path)]
             plan == BuildHandlerPlan(sig, planned.services, planned.names)
             trivial == ComputeTrivial(plan, old.attrs, old.deps)
             new == Revised(old, sig)
  <1>1. new = [old EXCEPT !.sig = sig, !.plan = plan, !.planned = planned, !.trivial = trivial]
    BY DEF Revised
  <1>2. plan = [i \in DOMAIN sig |-> SpecOf(sig[i], services, ParamNames(old.path))]
    BY DEF BuildHandlerPlan
  <1> HIDE DEF plan, planned, trivial, new
  <1>3. /\ new.sig = sig /\ new.path = old.path /\ new.methods = old.methods
        /\ new.attrs = old.attrs /\ new.plan = plan
    BY <1>1 DEF Routes, Route
  <1> QED
    BY <1>2, <1>3 DEF new

\* What is given of a request of a client that knows a document.
LEMMA SpokenFacts ==
  ASSUME NEW r \in Requests, NEW op, NEW route
  PROVE  LET req == Spoken(r, op)
             led == For(route, req)
         IN  /\ led.permitted = r.permitted
             /\ led.handler = r.handler /\ r.handler \in Endings
             /\ \A name : Given(led, "query", name) =>
                   \E q \in op.params : q.in = "query" /\ q.name = name
             /\ ~led.numeral => \A q \in op.params : q.type \notin {"int", "float"}
  <1> DEFINE req == Spoken(r, op)
             led == For(route, req)
             numeral == r.numeral \/ \E p \in op.params : p.type \in {"int", "float"}
             given == r.given \cap {<<p.in, p.name>> : p \in op.params}
  <1>1. /\ r = [given |-> r.given, numeral |-> r.numeral, body |-> r.body,
                permitted |-> r.permitted, handler |-> r.handler]
        /\ r.handler \in Endings
    BY RequestsAssumption
  <1>2. req = [r EXCEPT !.given = given, !.numeral = numeral]
    BY DEF Spoken
  <1> HIDE DEF numeral, given, req
  <1>3. req = [given |-> given, numeral |-> numeral, body |-> r.body, permitted |-> r.permitted,
               handler |-> r.handler]
    BY <1>1, <1>2
  <1>4. led = [req EXCEPT !.given = req.given \cup {<<"path", name>> : name \in ParamNames(route.path)}]
    BY DEF For
  <1> HIDE DEF led
  <1>5. /\ led.given = given \cup {<<"path", name>> : name \in ParamNames(route.path)}
        /\ led.numeral = numeral /\ led.permitted = r.permitted /\ led.handler = r.handler
    BY <1>3, <1>4
  <1>6. ASSUME NEW name, Given(led, "query", name)
        PROVE  \E q \in op.params : q.in = "query" /\ q.name = name
    <2>1. <<"query", name>> \in given
      BY <1>5, <1>6 DEF Given
    <2> QED
      BY <2>1 DEF given
  <1>7. ~led.numeral => \A q \in op.params : q.type \notin {"int", "float"}
    BY <1>5 DEF numeral
  <1> QED
    BY <1>1, <1>5, <1>6, <1>7 DEF led, req

\* Such a request is refused for a number of the query, whose type has changed.
LEMMA ReportedOK == IInv => BreaksReported
  <1> SUFFICES ASSUME IInv PROVE BreaksReported
    OBVIOUS
  <1>1. ASSUME NEW old \in Routes, NEW sig \in Revisions,
               ~NotShown(Revised(old, sig)),
               ~NotCompared(Operation(old.sig, ParamNames(old.path)),
                            Operation(Revised(old, sig).sig, ParamNames(Revised(old, sig).path))),
               NEW r \in Requests,
               LET req == Spoken(r, Operation(old.sig, ParamNames(old.path)))
               IN  /\ FullAnswer(old, For(old, req)).status = "ok"
                   /\ FullAnswer(Revised(old, sig), For(Revised(old, sig), req)).status # "ok"
        PROVE  \E c \in DetectBreakingChanges(Document(<<old>>, "__all__"),
                                              Document(<<Revised(old, sig)>>, "__all__")) : c.breaking
    <2> DEFINE new == Revised(old, sig)
               names == ParamNames(old.path)
               before == Operation(old.sig, names)
               after == Operation(sig, names)
               req == Spoken(r, before)
               led == For(new, req)
    <2>1. sig \in Seq(Parameter)
      BY RequestsAssumption
    <2>2. /\ new.sig = sig /\ new.path = old.path /\ new.methods = old.methods
          /\ new.attrs = old.attrs /\ DOMAIN new.plan = DOMAIN sig
          /\ \A i \in DOMAIN sig : new.plan[i] = SpecOf(sig[i], services, names)
      BY <2>1, RevisedFacts
    <2> HIDE DEF new
    <2>3. ~NotShown(new) /\ ~NotCompared(before, after)
      BY <1>1, <2>2 DEF new
    <2>4. FullAnswer(old, For(old, req)).status = "ok" /\ FullAnswer(new, led).status # "ok"
      BY <1>1 DEF new
    <2>5. /\ led.permitted = r.permitted /\ For(old, req).permitted = r.permitted
          /\ led.handler = r.handler /\ For(old, req).handler = r.handler
          /\ r.handler \in Endings
          /\ \A name : Given(led, "query", name) =>
                \E q \in before.params : q.in = "query" /\ q.name = name
          /\ ~led.numeral => \A q \in before.params : q.type \notin {"int", "float"}
      BY SpokenFacts
    <2> HIDE DEF led, req, before, after, names
    <2>6. PICK i \in DOMAIN sig : ~Served(FromPlan(new.plan[i], led, services))
      <3>0. /\ Ending(old, For(old, req)) \in Endings
            /\ Ending(new, led) = Ending(old, For(old, req))
        BY <2>2, <2>5, ClauseFacts DEF Ending
      <3>1. /\ "permissions" \in new.attrs => led.permitted
            /\ Ending(new, led) = "returns"
        BY <2>2, <2>4, <2>5, <3>0, AnswerFacts
      <3>2. ~ \A i \in DOMAIN new.plan : Served(ResolveFromPlan(new.plan, led, services)[i])
        BY <2>2, <2>4, <3>0, <3>1, AnswerFacts
      <3> QED
        BY <2>2, <3>2 DEF ResolveFromPlan
    <2> DEFINE p == sig[i]
               listed == Listed(p, names)
    <2>7. p \in Parameter /\ p \in ToSet(sig)
      BY <2>1 DEF ToSet
    <2>8. new.plan[i] = SpecOf(p, services, names)
      BY <2>2
    <2>9. listed.in \notin {"nowhere", "body"} /\ ~SeenDifferently(SpecOf(p, services, names), names)
      <3>1. /\ \A x \in ToSet(new.sig) : Listed(x, ParamNames(new.path)).in \notin {"nowhere", "body"}
            /\ \A j \in DOMAIN new.plan : ~SeenDifferently(new.plan[j], ParamNames(new.path))
        BY <2>3 DEF NotShown
      <3> QED
        BY <2>2, <2>7, <2>8, <3>1 DEF names
    <2>10. /\ listed.in = "query" /\ Given(led, "query", listed.name)
           /\ p.base \in {"int", "float"} /\ ~led.numeral
      <3> HIDE DEF p
      <3> QED
        BY <2>6, <2>7, <2>8, <2>9, OnlyNumbers
    <2>11. listed \in after.params /\ listed.type = p.base
      <3>1. Place(p, names) = "query"
        BY <2>10 DEF Listed
      <3>2. after.params = {Listed(x, names) : x \in {x \in ToSet(sig) :
                              Place(x, names) \in {"path", "query", "header", "cookie"}}}
        BY DEF after, Operation
      <3> HIDE DEF p
      <3>3. listed \in after.params
        BY <2>7, <3>1, <3>2
      <3>4. listed.type = p.base
        BY DEF Listed
      <3> QED
        BY <3>3, <3>4
    <2> HIDE DEF p, listed
    <2>12. PICK q \in before.params : q.in = "query" /\ q.name = listed.name
      BY <2>5, <2>10
    <2>13. \A slot : Change("parameter_type_changed", TRUE, slot)
                        \in CompareOperation(slot, before, after)
      <3>1. \A o \in before.params : o.type # listed.type
        BY <2>5, <2>10, <2>11
      <3>2. listed.type \in Simple
        BY <2>10, <2>11 DEF Simple
      <3> QED
        BY <2>3, <2>10, <2>11, <2>12, <3>1, <3>2, TypeReported
    <2>14. PICK slot : slot \in Slots(old) /\ slot \in Slots(new)
      <3>1. PICK m \in old.methods : m # "HEAD"
        BY <2>2, <2>3 DEF NotShown
      <3>2. Slots(old) = Slots(new)
        BY <2>2 DEF Slots
      <3>3. <<Converted(old.path), m>> \in Slots(old)
        BY <3>1 DEF Slots
      <3> QED
        BY <3>2, <3>3
    <2> DEFINE older == Document(<<old>>, "__all__")
               newer == Document(<<new>>, "__all__")
    <2>15. "hidden" \notin old.attrs /\ "hidden" \notin new.attrs
      BY <2>2, <2>3 DEF NotShown
    <2>16. /\ slot \in DOMAIN older \cap DOMAIN newer
           /\ older[slot] = before /\ newer[slot] = after
      BY <2>2, <2>14, <2>15, OneRoute DEF before, after, names
    <2> HIDE DEF older, newer
    <2>17. Change("parameter_type_changed", TRUE, slot) \in DetectBreakingChanges(older, newer)
      BY <2>13, <2>16 DEF DetectBreakingChanges
    <2>18. Change("parameter_type_changed", TRUE, slot).breaking
      BY DEF Change
    <2> QED
      BY <2>17, <2>18 DEF older, newer, new
  <1>2. ASSUME NEW i \in DOMAIN routes[App], NEW sig \in Revisions
        PROVE  LET old == routes[App][i]
                   new == Revised(old, sig)
                   Doc(route) == Document(<<route>>, "__all__")
                   Shown(route) == Operation(route.sig, ParamNames(route.path))
                   serves(route, req) == FullAnswer(route, For(route, req)).status = "ok"
               IN  \/ NotShown(new) \/ NotCompared(Shown(old), Shown(new))
                   \/ \E c \in DetectBreakingChanges(Doc(old), Doc(new)) : c.breaking
                   \/ \A req \in {Spoken(r, Shown(old)) : r \in Requests} :
                         serves(old, req) => serves(new, req)
    <2> DEFINE old == routes[App][i]
    <2>1. old \in Routes
      BY AppOK
    <2> HIDE DEF old
    <2>2. LET new == Revised(old, sig)
              Doc(route) == Document(<<route>>, "__all__")
              Shown(route) == Operation(route.sig, ParamNames(route.path))
              serves(route, req) == FullAnswer(route, For(route, req)).status = "ok"
          IN  \/ NotShown(new) \/ NotCompared(Shown(old), Shown(new))
              \/ \E c \in DetectBreakingChanges(Doc(old), Doc(new)) : c.breaking
              \/ \A req \in {Spoken(r, Shown(old)) : r \in Requests} :
                    serves(old, req) => serves(new, req)
      BY <1>1, <2>1
    <2> QED
      BY <2>2 DEF old
  <1> QED
    BY <1>2 DEF BreaksReported

\* A change of a handler that a client of the old document is hurt by is
\* reported as breaking.
THEOREM BreaksAreReported == Spec => []BreaksReported
  BY ReportedOK, Invariant, PTL
=============================================================================
