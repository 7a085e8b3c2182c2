------------------------ MODULE RouteExecutionProofs ------------------------
(***************************************************************************)
(* Theorems about RouteExecution, for every set of requests and routes and *)
(* every combination of faults.                                            *)
(*                                                                         *)
(* The frames of different requests share only the counter, so the         *)
(* invariant is one of frames: FrameInv(req[r]) for every r.  The safety   *)
(* properties are not inductive because they look at the end of a request; *)
(* FrameInv says what each stretch of the code has established when it     *)
(* ends: resolution has a live generator for every one it passed, cleanup  *)
(* has finalised those that left the stack, and so on.                     *)
(***************************************************************************)
EXTENDS RouteExecution, SequenceTheorems, FiniteSetTheorems, WellFoundedInduction, TLAPS

Working == {"permission", "resolve", "handler"}
Over == {"send", "background", "teardown", "leave", "done"}

Size(q) == Len(Plan(q.route))
Scoped(q) == {d \in DOMAIN q.res : Plan(q.route)[d] = "scoped"}

Shape(q) ==
    /\ q = [field \in DOMAIN q |-> q[field]]
    /\ DOMAIN q = {"pc", "route", "next", "res", "stack", "succeeded",
                   "response", "sent", "tasks", "escaped", "thread"}

Fields(q) ==
    /\ q.pc \in {"idle", "except", "cleanup"} \cup Working \cup Over
    /\ q.route \in Routes \cup {NoRoute}
    /\ q.next \in 1..Size(q) + 1
    /\ q.res \in [1..Size(q) -> {"none", "live", "resumed", "raised", "closed"}]
    /\ q.succeeded \in BOOLEAN /\ q.thread \in BOOLEAN
    /\ q.response \in {"none", "ok", "error"}
    /\ q.sent \in {"none", "ok", "error", "broken"}

\* The stack holds live generators, and nothing once cleanup is over.
Stacked(q) ==
    /\ q.stack \subseteq Gens(q)
    /\ \A d \in q.stack : q.res[d] = "live"
    /\ q.pc \in Over \cup {"idle"} => q.stack = {}

\* Up to the end of the handler nothing is finalised, and what was passed by
\* resolution is live.
Progress(q) ==
    /\ q.pc \in Working =>
          /\ \A d \in Gens(q) : q.res[d] = (IF d < q.next THEN "live" ELSE "none")
          /\ q.stack = Tracked(q.route, q.next - 1)
    /\ q.pc = "permission" => q.next = 1
    /\ q.pc = "resolve" => q.next <= Size(q)
    /\ q.pc = "handler" => q.next = Size(q) + 1
    /\ q.pc \in Working \cup {"except"} =>
          ~q.succeeded /\ ~q.thread /\ q.response = "none" /\ q.escaped = "no"

\* Unless the stack was lost, it holds every live generator, and of two
\* generators the later is off it before the earlier is finalised.
Ordered(q) ==
    Resolved(q) /\ q.escaped # "cleanup" =>
        /\ \A d \in Gens(q) : q.res[d] = "live" => d \in q.stack
        /\ \A d, e \in Gens(q) : d < e /\ Finalised(q, d) => e \notin q.stack

\* Generators are resumed for a handler that succeeded, and for such a handler
\* all of them are before anything is sent.
Outcome(q) ==
    /\ q.succeeded => q.response = "ok"
    /\ q.response = "ok" => q.succeeded \/ Gens(q) = {}
    /\ \A d \in Gens(q) : q.res[d] \in {"resumed", "raised"} => q.succeeded
    /\ q.succeeded /\ q.pc = "cleanup" =>
          /\ q.escaped = "no"
          /\ \A d \in Gens(q) : d \in q.stack \/ q.res[d] \in {"resumed", "raised"}
    /\ q.succeeded /\ (q.pc \in {"send", "background", "teardown"} \/ q.sent # "none") =>
          \A d \in Gens(q) : q.res[d] \in {"resumed", "raised"}
    /\ q.succeeded =>
          \/ q.pc \in {"cleanup", "send"} \/ q.sent \in {"ok", "broken"}
          \/ q.escaped \in {"cleanup", "head"}
    /\ q.sent # "none" => q.pc \in {"background", "teardown", "leave", "done"}
    /\ q.sent = "ok" => q.response = "ok"

\* What each stage of the way out knows of the stages before it.
WayOut(q) ==
    /\ q.pc = "cleanup" =>
          /\ q.escaped \in {"no", "try"}
          /\ q.escaped = "no" => q.response \in {"ok", "error"}
    /\ q.pc = "send" => q.response \in {"ok", "error"}
    /\ q.pc \in {"send", "background"} => q.escaped = "no"
    /\ q.pc = "background" => q.sent \in {"ok", "error"}
    /\ q.pc = "teardown" => q.escaped \in {"no", "send", "background"}
    /\ q.tasks = "ran" => q.sent \in {"ok", "error"}
    /\ q.thread => q.pc \in {"cleanup", "leave", "done"} /\ q.escaped # "no"
    /\ q.pc = "teardown" /\ HasTasks(q) => q.tasks = "ran" \/ q.sent = "broken"
    /\ q.pc \in {"leave", "done"} /\ LiveScoped(q) # {} =>
          q.escaped \in {"try", "cleanup", "head", "teardown"}
    /\ (\E d \in Scoped(q) : q.res[d] = "closed") =>
          /\ q.pc \in {"teardown", "leave", "done"}
          /\ ~q.thread
          /\ HasTasks(q) => q.tasks = "ran" \/ q.sent = "broken"

FrameInv(q) ==
    Shape(q) /\ Fields(q) /\ Stacked(q) /\ Progress(q) /\ Ordered(q)
       /\ Outcome(q) /\ WayOut(q)

IInv ==
    /\ req = [r \in Requests |-> req[r]]
    /\ \A r \in Requests : FrameInv(req[r])

-----------------------------------------------------------------------------
\* A nonempty set of dependencies has a last one.
LEMMA LastExists ==
  ASSUME NEW n \in Nat, NEW S \in SUBSET (1..n), S # {}
  PROVE  Max(S) \in S /\ \A y \in S : Max(S) >= y
  <1> DEFINE T == {n - x : x \in S}
             R == OpToRel(<, Nat)
  <1>1. T \subseteq Nat
    OBVIOUS
  <1>2. T # {}
    OBVIOUS
  <1>3. PICK k \in T : \A j \in T : <<j, k>> \notin R
    <2>1. IsWellFoundedOn(R, Nat)
      BY NatLessThanWellFounded
    <2> HIDE DEF T, R
    <2> QED
      BY <1>1, <1>2, <2>1, WFMin
  <1>4. \A j \in T : k <= j
    <2> TAKE j \in T
    <2>1. j \in Nat /\ k \in Nat
      BY <1>1, <1>3
    <2>2. ~(j < k)
      BY <1>3, <2>1 DEF OpToRel
    <2> QED
      BY <2>1, <2>2
  <1>5. PICK x \in S : k = n - x
    BY <1>3
  <1>6. \A y \in S : x >= y
    <2> TAKE y \in S
    <2>1. n - y \in T
      OBVIOUS
    <2>2. n - x <= n - y
      BY <1>4, <1>5, <2>1
    <2> QED
      BY <2>2
  <1> QED
    BY <1>5, <1>6 DEF Max

\* The plan of a route is a finite sequence that starts with its parameters.
LEMMA PlanFacts ==
  ASSUME NEW rt \in Routes \cup {NoRoute}
  PROVE  /\ Plan(rt) \in Seq(Kinds)
         /\ Len(Plan(rt)) \in Nat /\ DOMAIN Plan(rt) = 1..Len(Plan(rt))
         /\ Len(rt.params) \in Nat /\ Len(rt.params) <= Len(Plan(rt))
  <1>1. rt.params \in Seq(Kinds) /\ rt.deps \in Seq(Kinds)
    <2>1. CASE rt \in Routes
      <3>1. rt \in RouteShape
        BY <2>1, RoutesAssumption
      <3> QED
        BY <3>1 DEF RouteShape
    <2>2. CASE rt = NoRoute
      <3>1. rt.params = <<>> /\ rt.deps = <<>>
        BY <2>2 DEF NoRoute
      <3> QED
        BY <3>1
    <2> QED
      BY <2>1, <2>2
  <1>2. /\ Plan(rt) \in Seq(Kinds)
        /\ Len(Plan(rt)) = Len(rt.params) + Len(rt.deps)
    BY <1>1 DEF Plan
  <1>3. Len(rt.params) \in Nat /\ Len(rt.deps) \in Nat
    BY <1>1, LenProperties
  <1>4. Len(Plan(rt)) \in Nat /\ DOMAIN Plan(rt) = 1..Len(Plan(rt))
    BY <1>2, LenProperties
  <1>5. \A a, b \in Nat : a <= a + b
    OBVIOUS
  <1> QED
    BY <1>2, <1>3, <1>4, <1>5

\* A frame that a request starts with.
LEMMA NewFrame ==
  ASSUME NEW rt \in Routes \cup {NoRoute}, NEW pc, NEW response,
         \/ pc = FirstStep(rt) /\ response = "none"
         \/ rt = NoRoute /\ pc = "idle" /\ response = "none"
         \/ rt = NoRoute /\ pc = "send" /\ response \in {"ok", "error"}
  PROVE  FrameInv(Frame(rt, pc, response))
  <1> DEFINE q == Frame(rt, pc, response)
             n == Len(Plan(rt))
  <1>1. /\ q.pc = pc /\ q.route = rt /\ q.next = 1 /\ q.stack = {}
        /\ q.res = [d \in DOMAIN Plan(rt) |-> "none"]
        /\ q.succeeded = FALSE /\ q.thread = FALSE /\ q.response = response
        /\ q.sent = "none" /\ q.tasks = "no" /\ q.escaped = "no"
        /\ Shape(q)
    BY DEF Frame, Shape
  <1> HIDE DEF q
  <1>2. n \in Nat /\ DOMAIN Plan(rt) = 1..n /\ Len(rt.params) \in Nat
    BY PlanFacts
  <1>3. Gens(q) \subseteq 1..n /\ Tracked(rt, 0) = {}
    BY <1>1, <1>2 DEF Gens, GensUpTo, Tracked
  <1>4. rt = NoRoute => Plan(rt) = <<>> /\ n = 0
    BY DEF NoRoute, Plan
  <1>5. Plan(rt) = <<>> <=> n = 0
    BY PlanFacts
  <1>6. pc \in {"idle", "send"} => rt = NoRoute /\ Gens(q) = {} /\ n = 0
    <2>1. pc \in {"idle", "send"} => rt = NoRoute
      BY DEF FirstStep, AfterPermission
    <2> QED
      BY <2>1, <1>2, <1>3, <1>4
  <1>7. pc \in Working \cup {"idle", "send"}
    BY DEF FirstStep, AfterPermission, Working
  <1>8. Fields(q)
    <2>1. q.res \in [1..n -> {"none", "live", "resumed", "raised", "closed"}]
      BY <1>1, <1>2
    <2>2. q.next \in 1..n + 1
      BY <1>1, <1>2
    <2>3. q.response \in {"none", "ok", "error"}
      BY <1>1
    <2> QED
      BY <1>1, <1>7, <2>1, <2>2, <2>3 DEF Fields, Size, Working, Over
  <1>9. Progress(q)
    BY <1>1, <1>2, <1>3, <1>4, <1>5
    DEF Progress, Size, FirstStep, AfterPermission, Working
  <1>10. Stacked(q)
    BY <1>1 DEF Stacked
  <1>11. Ordered(q)
    BY <1>1, <1>2, <1>3 DEF Ordered
  <1>12. Outcome(q)
    BY <1>1, <1>2, <1>3, <1>6 DEF Outcome, FirstStep, AfterPermission
  <1>13. WayOut(q)
    <2>1. \A d \in DOMAIN q.res : q.res[d] = "none"
      BY <1>1
    <2>2. (\E d \in Scoped(q) : q.res[d] = "closed") = FALSE /\ LiveScoped(q) = {}
      BY <2>1 DEF Scoped, LiveScoped
    <2>3. pc = "send" => response \in {"ok", "error"}
      BY <1>6 DEF FirstStep, AfterPermission
    <2> QED
      BY <1>1, <1>7, <2>2, <2>3 DEF WayOut, Working
  <1> QED
    BY <1>1, <1>8, <1>9, <1>10, <1>11, <1>12, <1>13 DEF FrameInv, q

\* What the parts of the invariant are made of depends on the route, on how
\* far resolution got and on the generators' states only.
LEMMA SameGenerators ==
  ASSUME NEW p, NEW q, p.route = q.route, p.next = q.next
  PROVE  /\ Gens(p) = Gens(q) /\ Size(p) = Size(q)
         /\ Resolved(p) = Resolved(q) /\ HasTasks(p) = HasTasks(q)
         /\ p.res = q.res => Scoped(p) = Scoped(q) /\ LiveScoped(p) = LiveScoped(q)
  BY DEF Gens, Size, Resolved, HasTasks, Scoped, LiveScoped

-----------------------------------------------------------------------------
(* The try block                                                           *)

\* Permission granted: on to the dependencies or, if there are none, to the
\* handler.
LEMMA PermitFrame ==
  ASSUME NEW q, FrameInv(q), q.pc = "permission"
  PROVE  FrameInv([q EXCEPT !.pc = AfterPermission(q.route)])
  <1> DEFINE p == [q EXCEPT !.pc = AfterPermission(q.route)]
  <1>1. /\ p.pc = AfterPermission(q.route) /\ p.route = q.route
        /\ p.next = q.next /\ p.res = q.res /\ p.stack = q.stack
        /\ p.succeeded = q.succeeded /\ p.response = q.response
        /\ p.sent = q.sent /\ p.tasks = q.tasks /\ p.escaped = q.escaped
        /\ p.thread = q.thread /\ Shape(p)
    BY DEF FrameInv, Shape
  <1> HIDE DEF p
  <1>2. /\ Gens(p) = Gens(q) /\ Size(p) = Size(q)
        /\ Resolved(p) = Resolved(q) /\ HasTasks(p) = HasTasks(q)
        /\ Scoped(p) = Scoped(q) /\ LiveScoped(p) = LiveScoped(q)
    BY <1>1, SameGenerators
  <1>3. Size(q) \in Nat /\ (Plan(q.route) = <<>> <=> Size(q) = 0)
    BY PlanFacts DEF FrameInv, Fields, Size
  <1>4. p.pc \in {"resolve", "handler"}
    BY <1>1 DEF AfterPermission
  <1>5. Fields(p) /\ Stacked(p) /\ Ordered(p) /\ Outcome(p) /\ WayOut(p)
    BY <1>1, <1>2, <1>4
    DEF FrameInv, Fields, Stacked, Ordered, Outcome, WayOut, Finalised, Ran, Working, Over
  <1>6. Progress(p)
    BY <1>1, <1>2, <1>3, <1>4 DEF FrameInv, Progress, AfterPermission, Working
  <1> QED
    BY <1>1, <1>5, <1>6 DEF FrameInv, p

\* An exception that becomes a response, in the block or in
\* _handle_exception.
LEMMA ErrorFrame ==
  ASSUME NEW q, FrameInv(q), q.pc \in Working \cup {"except"}
  PROVE  FrameInv([q EXCEPT !.pc = "cleanup", !.response = "error"])
  <1> DEFINE p == [q EXCEPT !.pc = "cleanup", !.response = "error"]
  <1>1. /\ p.pc = "cleanup" /\ p.route = q.route /\ p.next = q.next
        /\ p.res = q.res /\ p.stack = q.stack /\ p.succeeded = q.succeeded
        /\ p.response = "error" /\ p.sent = q.sent /\ p.tasks = q.tasks
        /\ p.escaped = q.escaped /\ p.thread = q.thread /\ Shape(p)
    BY DEF FrameInv, Shape
  <1> HIDE DEF p
  <1>2. /\ Gens(p) = Gens(q) /\ Size(p) = Size(q)
        /\ Resolved(p) = Resolved(q) /\ HasTasks(p) = HasTasks(q)
        /\ Scoped(p) = Scoped(q) /\ LiveScoped(p) = LiveScoped(q)
    BY <1>1, SameGenerators
  <1>3. Fields(p) /\ Stacked(p) /\ Progress(p)
    BY <1>1, <1>2 DEF FrameInv, Fields, Stacked, Progress, Working, Over
  <1>4. Ordered(p) /\ Outcome(p)
    BY <1>1, <1>2
    DEF FrameInv, Fields, Stacked, Progress, Ordered, Outcome, Finalised, Ran, Working, Over
  <1>5. WayOut(p)
    BY <1>1, <1>2 DEF FrameInv, Fields, Progress, Outcome, WayOut, Working, Over
  <1> QED
    BY <1>1, <1>3, <1>4, <1>5 DEF FrameInv, p

\* An exception that _handle_exception is called for.
LEMMA RaiseFrame ==
  ASSUME NEW q, FrameInv(q), q.pc \in Working
  PROVE  FrameInv([q EXCEPT !.pc = "except"])
  <1> DEFINE p == [q EXCEPT !.pc = "except"]
  <1>1. /\ p.pc = "except" /\ p.route = q.route /\ p.next = q.next
        /\ p.res = q.res /\ p.stack = q.stack /\ p.succeeded = q.succeeded
        /\ p.response = q.response /\ p.sent = q.sent /\ p.tasks = q.tasks
        /\ p.escaped = q.escaped /\ p.thread = q.thread /\ Shape(p)
    BY DEF FrameInv, Shape
  <1> HIDE DEF p
  <1>2. /\ Gens(p) = Gens(q) /\ Size(p) = Size(q)
        /\ Resolved(p) = Resolved(q) /\ HasTasks(p) = HasTasks(q)
        /\ Scoped(p) = Scoped(q) /\ LiveScoped(p) = LiveScoped(q)
    BY <1>1, SameGenerators
  <1>3. Fields(p) /\ Stacked(p) /\ Progress(p)
    BY <1>1, <1>2 DEF FrameInv, Fields, Stacked, Progress, Working, Over
  <1>4. Ordered(p) /\ Outcome(p)
    BY <1>1, <1>2
    DEF FrameInv, Fields, Stacked, Progress, Ordered, Outcome, Finalised, Ran, Working, Over
  <1>5. WayOut(p)
    BY <1>1, <1>2 DEF FrameInv, Fields, Progress, Outcome, WayOut, Working, Over
  <1> QED
    BY <1>1, <1>3, <1>4, <1>5 DEF FrameInv, p

\* An exception that nothing in the block catches; a handler's thread may
\* live on.
LEMMA EscapeFrame ==
  ASSUME NEW q, FrameInv(q), q.pc \in Working \cup {"except"}, NEW t \in BOOLEAN
  PROVE  FrameInv([[q EXCEPT !.thread = t] EXCEPT !.pc = "cleanup", !.escaped = "try"])
  <1> DEFINE p == [[q EXCEPT !.thread = t] EXCEPT !.pc = "cleanup", !.escaped = "try"]
  <1>1. /\ p.pc = "cleanup" /\ p.route = q.route /\ p.next = q.next
        /\ p.res = q.res /\ p.stack = q.stack /\ p.succeeded = q.succeeded
        /\ p.response = q.response /\ p.sent = q.sent /\ p.tasks = q.tasks
        /\ p.escaped = "try" /\ p.thread = t /\ Shape(p)
    BY DEF FrameInv, Shape
  <1> HIDE DEF p
  <1>2. /\ Gens(p) = Gens(q) /\ Size(p) = Size(q)
        /\ Resolved(p) = Resolved(q) /\ HasTasks(p) = HasTasks(q)
        /\ Scoped(p) = Scoped(q) /\ LiveScoped(p) = LiveScoped(q)
    BY <1>1, SameGenerators
  <1>3. Fields(p) /\ Stacked(p) /\ Progress(p)
    BY <1>1, <1>2 DEF FrameInv, Fields, Stacked, Progress, Working, Over
  <1>4. Ordered(p) /\ Outcome(p)
    BY <1>1, <1>2
    DEF FrameInv, Fields, Stacked, Progress, Ordered, Outcome, Finalised, Ran, Working, Over
  <1>5. WayOut(p)
    BY <1>1, <1>2 DEF FrameInv, Fields, Progress, Outcome, WayOut, Working, Over
  <1> QED
    BY <1>1, <1>3, <1>4, <1>5 DEF FrameInv, p

\* A dependency is resolved.
LEMMA ResolveFrame ==
  ASSUME NEW q, FrameInv(q), q.pc = "resolve", NEW d, d = q.next, NEW kind,
         kind = Plan(q.route)[d]
  PROVE  FrameInv([q EXCEPT
             !.res[d] = IF kind = "plain" THEN "none" ELSE "live",
             !.stack = Tracked(q.route, d),
             !.next = d + 1,
             !.pc = IF d = Len(Plan(q.route)) THEN "handler" ELSE "resolve"])
  <1> DEFINE p == [q EXCEPT
             !.res[d] = IF kind = "plain" THEN "none" ELSE "live",
             !.stack = Tracked(q.route, d),
             !.next = d + 1,
             !.pc = IF d = Len(Plan(q.route)) THEN "handler" ELSE "resolve"]
             v == IF kind = "plain" THEN "none" ELSE "live"
  <1>1. /\ p.pc = (IF d = Size(q) THEN "handler" ELSE "resolve")
        /\ p.route = q.route /\ p.next = d + 1 /\ p.res = [q.res EXCEPT ![d] = v]
        /\ p.stack = Tracked(q.route, d) /\ p.succeeded = q.succeeded
        /\ p.response = q.response /\ p.sent = q.sent /\ p.tasks = q.tasks
        /\ p.escaped = q.escaped /\ p.thread = q.thread /\ Shape(p)
    BY DEF FrameInv, Shape, Size
  <1>2. v \in {"none", "live"} /\ (kind = "gen" => v = "live")
    OBVIOUS
  <1> HIDE DEF p, v
  <1>3. /\ Gens(p) = Gens(q) /\ Size(p) = Size(q)
        /\ Plan(p.route) = Plan(q.route)
    BY <1>1 DEF Gens, Size
  <1>4. /\ Size(q) \in Nat /\ d \in 1..Size(q) /\ q.next = d
        /\ Len(q.route.params) \in Nat
    <2>1. /\ Size(q) \in Nat /\ Len(q.route.params) \in Nat
          /\ q.next \in 1..Size(q) + 1 /\ q.next <= Size(q)
      BY PlanFacts DEF FrameInv, Fields, Progress, Size
    <2> QED
      BY <2>1
  <1>5. /\ q.res \in [1..Size(q) -> {"none", "live", "resumed", "raised", "closed"}]
        /\ \A e \in Gens(q) : q.res[e] = IF e < d THEN "live" ELSE "none"
        /\ ~q.succeeded /\ ~q.thread /\ q.response = "none" /\ q.escaped = "no"
    BY <1>4 DEF FrameInv, Fields, Progress, Working
  <1>6. /\ p.res \in [1..Size(q) -> {"none", "live", "resumed", "raised", "closed"}]
        /\ p.res[d] = v
        /\ \A e \in 1..Size(q) : e # d => p.res[e] = q.res[e]
    BY <1>1, <1>2, <1>4, <1>5
  <1>7. Gens(q) = {e \in 1..Size(q) : Plan(q.route)[e] = "gen"}
    BY DEF Gens, GensUpTo, Size
  <1>8. \A e \in Gens(p) : p.res[e] = IF e < p.next THEN "live" ELSE "none"
    <2> TAKE e \in Gens(p)
    <2>1. e \in 1..Size(q) /\ e \in Gens(q) /\ Plan(q.route)[e] = "gen"
      BY <1>3, <1>7
    <2>2. CASE e = d
      BY <2>1, <2>2, <1>1, <1>2, <1>4, <1>6
    <2>3. CASE e # d
      BY <2>1, <2>3, <1>1, <1>4, <1>5, <1>6
    <2> QED
      BY <2>2, <2>3
  <1>9. p.next \in 1..Size(p) + 1 /\ p.next - 1 = d
        /\ (p.pc = "resolve" => p.next <= Size(p))
        /\ (p.pc = "handler" => p.next = Size(p) + 1)
        /\ p.pc \in {"resolve", "handler"}
    BY <1>1, <1>3, <1>4
  <1>10. Fields(p)
    BY <1>1, <1>3, <1>6, <1>9 DEF FrameInv, Fields, Working
  <1>11. Progress(p)
    BY <1>1, <1>5, <1>8, <1>9 DEF Progress, Working
  <1>12. /\ p.stack \subseteq {e \in Gens(p) : e < p.next}
         /\ Resolved(p) => {e \in Gens(p) : e < p.next} \subseteq p.stack
    BY <1>1, <1>3, <1>4, <1>7 DEF Tracked, GensUpTo, Resolved
  <1>13. Stacked(p)
    BY <1>8, <1>9, <1>12 DEF Stacked, Over
  <1>14. Ordered(p)
    BY <1>8, <1>12 DEF Ordered, Finalised, Ran
  <1>15. p.sent = "none" /\ p.tasks # "ran"
    BY <1>1 DEF FrameInv, Outcome, WayOut
  <1>16. Outcome(p)
    BY <1>1, <1>5, <1>8, <1>9, <1>15 DEF Outcome
  <1>17. ~(\E e \in Scoped(p) : p.res[e] = "closed")
    <2>1. \A e \in Scoped(p) : e \in 1..Size(q) /\ e \in DOMAIN q.res
                               /\ Plan(q.route)[e] = "scoped"
      BY <1>3, <1>5, <1>6 DEF Scoped
    <2>2. \A e \in Scoped(p) : q.res[e] # "closed"
      BY <2>1 DEF FrameInv, WayOut, Scoped
    <2> QED
      BY <2>1, <2>2, <1>2, <1>6
  <1>18. WayOut(p)
    BY <1>1, <1>5, <1>9, <1>15, <1>17 DEF WayOut
  <1> QED
    BY <1>1, <1>10, <1>11, <1>13, <1>14, <1>16, <1>18 DEF FrameInv, p

\* The handler returned.
LEMMA SucceedFrame ==
  ASSUME NEW q, FrameInv(q), q.pc = "handler"
  PROVE  FrameInv([q EXCEPT !.pc = "cleanup", !.response = "ok", !.succeeded = TRUE])
  <1> DEFINE p == [q EXCEPT !.pc = "cleanup", !.response = "ok", !.succeeded = TRUE]
  <1>1. /\ p.pc = "cleanup" /\ p.route = q.route /\ p.next = q.next
        /\ p.res = q.res /\ p.stack = q.stack /\ p.succeeded = TRUE
        /\ p.response = "ok" /\ p.sent = q.sent /\ p.tasks = q.tasks
        /\ p.escaped = q.escaped /\ p.thread = q.thread /\ Shape(p)
    BY DEF FrameInv, Shape
  <1> HIDE DEF p
  <1>2. /\ Gens(p) = Gens(q) /\ Size(p) = Size(q)
        /\ Resolved(p) = Resolved(q) /\ HasTasks(p) = HasTasks(q)
        /\ Scoped(p) = Scoped(q) /\ LiveScoped(p) = LiveScoped(q)
    BY <1>1, SameGenerators
  <1>3. q.stack = Gens(q) /\ \A d \in Gens(q) : q.res[d] = "live"
    <2>1. Size(q) \in Nat /\ Len(q.route.params) \in Nat /\ Len(q.route.params) <= Size(q)
      BY PlanFacts DEF FrameInv, Fields, Size
    <2>2. q.next - 1 = Size(q) /\ q.next = Size(q) + 1
      BY <2>1 DEF FrameInv, Progress
    <2>3. Tracked(q.route, Size(q)) = Gens(q) /\ \A d \in Gens(q) : d \in 1..Size(q)
      BY <2>1 DEF Tracked, Gens, GensUpTo, Size
    <2> QED
      BY <2>1, <2>2, <2>3 DEF FrameInv, Progress, Working
  <1>4. Fields(p) /\ Stacked(p) /\ Progress(p)
    <2>1. Fields(p)
      BY <1>1, <1>2 DEF FrameInv, Fields, Stacked, Progress, Working, Over
    <2>2. Stacked(p)
      BY <1>1, <1>2 DEF FrameInv, Fields, Stacked, Progress, Working, Over
    <2>3. Progress(p)
      BY <1>1, <1>2 DEF FrameInv, Fields, Stacked, Progress, Working, Over
    <2> QED
      BY <2>1, <2>2, <2>3
  <1>5. Ordered(p) /\ Outcome(p)
    BY <1>1, <1>2, <1>3
    DEF FrameInv, Fields, Progress, Ordered, Outcome, Finalised, Ran, Working, Over
  <1>6. WayOut(p)
    BY <1>1, <1>2 DEF FrameInv, Fields, Progress, Outcome, WayOut, Working, Over
  <1> QED
    BY <1>1, <1>4, <1>5, <1>6 DEF FrameInv, p

-----------------------------------------------------------------------------
(* The way out                                                             *)

\* Cancelled while a generator is being finalised.
LEMMA LoseStackFrame ==
  ASSUME NEW q, FrameInv(q), q.pc = "cleanup", NEW d \in q.stack
  PROVE  FrameInv([q EXCEPT !.stack = {}, !.res[d] = CutOff(q), !.pc = "leave", !.escaped = "cleanup"])
  <1> DEFINE p == [q EXCEPT !.stack = {}, !.res[d] = CutOff(q), !.pc = "leave", !.escaped = "cleanup"]
  <1>1. /\ p.pc = "leave" /\ p.route = q.route /\ p.next = q.next
        /\ p.res = [q.res EXCEPT ![d] = CutOff(q)] /\ p.stack = {}
        /\ p.succeeded = q.succeeded /\ p.response = q.response
        /\ p.sent = q.sent /\ p.tasks = q.tasks /\ p.escaped = "cleanup"
        /\ p.thread = q.thread /\ Shape(p)
    BY DEF FrameInv, Shape
  <1> HIDE DEF p
  <1>2. /\ Gens(p) = Gens(q) /\ Size(p) = Size(q)
        /\ Resolved(p) = Resolved(q) /\ HasTasks(p) = HasTasks(q)
    BY <1>1, SameGenerators
  <1>3. d \in Gens(q) /\ d \notin Scoped(q) /\ Scoped(p) = Scoped(q)
    BY <1>1 DEF FrameInv, Stacked, Fields, Gens, GensUpTo, Scoped, Size
  <1>4. Fields(p) /\ Stacked(p) /\ Progress(p)
    <2>1. Fields(p)
      <3>1. q.res \in [1..Size(q) -> {"none", "live", "resumed", "raised", "closed"}]
        BY DEF FrameInv, Fields
      <3>2. p.res \in [1..Size(p) -> {"none", "live", "resumed", "raised", "closed"}]
        BY <3>1, <1>1, <1>2 DEF CutOff
      <3> QED
        BY <3>2, <1>1, <1>2 DEF FrameInv, Fields, Over
    <2>2. Stacked(p)
      BY <1>1, <1>2 DEF FrameInv, Fields, Stacked, Progress, Working, Over
    <2>3. Progress(p)
      BY <1>1, <1>2 DEF FrameInv, Fields, Stacked, Progress, Working, Over
    <2> QED
      BY <2>1, <2>2, <2>3
  <1>5. Ordered(p) /\ Outcome(p)
    BY <1>1, <1>2, <1>3
    DEF FrameInv, Fields, Ordered, Outcome, CutOff
  <1>6. WayOut(p)
    BY <1>1, <1>2, <1>3 DEF FrameInv, Fields, Outcome, WayOut, Scoped, CutOff
  <1> QED
    BY <1>1, <1>4, <1>5, <1>6 DEF FrameInv, p

\* The last generator on the stack is finalised.
LEMMA FinaliseFrame ==
  ASSUME NEW q, FrameInv(q), q.pc = "cleanup", NEW d \in q.stack,
         \A e \in q.stack : d >= e, NEW final \in Finals(q)
  PROVE  FrameInv([q EXCEPT !.stack = @ \ {d}, !.res[d] = final])
  <1> DEFINE p == [q EXCEPT !.stack = @ \ {d}, !.res[d] = final]
  <1>0. \/ q.succeeded /\ final \in {"resumed", "raised"}
        \/ ~q.succeeded /\ final = "closed"
    BY DEF Finals
  <1>1. /\ p.pc = q.pc /\ p.route = q.route /\ p.next = q.next
        /\ p.res = [q.res EXCEPT ![d] = final]
        /\ p.stack = q.stack \ {d} /\ p.succeeded = q.succeeded
        /\ p.response = q.response /\ p.sent = q.sent /\ p.tasks = q.tasks
        /\ p.escaped = q.escaped /\ p.thread = q.thread /\ Shape(p)
    BY DEF FrameInv, Shape
  <1> HIDE DEF p
  <1>2. /\ Gens(p) = Gens(q) /\ Size(p) = Size(q)
        /\ Resolved(p) = Resolved(q) /\ HasTasks(p) = HasTasks(q)
    BY <1>1, SameGenerators
  <1>3. d \in Gens(q) /\ d \notin Scoped(q) /\ Scoped(p) = Scoped(q)
    BY <1>1 DEF FrameInv, Stacked, Fields, Gens, GensUpTo, Scoped, Size
  <1>4. Gens(q) \subseteq 1..Size(q) /\ Size(q) \in Nat
    <2>1. Size(q) \in Nat
      BY PlanFacts DEF FrameInv, Fields, Size
    <2> QED
      BY <2>1 DEF Gens, GensUpTo, Size
  <1>5. Fields(p) /\ Stacked(p) /\ Progress(p)
    <2>1. Fields(p)
      <3>1. q.res \in [1..Size(q) -> {"none", "live", "resumed", "raised", "closed"}]
        BY DEF FrameInv, Fields
      <3>2. p.res \in [1..Size(p) -> {"none", "live", "resumed", "raised", "closed"}]
        BY <3>1, <1>0, <1>1, <1>2
      <3> QED
        BY <3>2, <1>1, <1>2 DEF FrameInv, Fields, Over
    <2>2. Stacked(p)
      BY <1>1, <1>2 DEF FrameInv, Fields, Stacked, Progress, Working, Over
    <2>3. Progress(p)
      BY <1>1, <1>2 DEF FrameInv, Fields, Stacked, Progress, Working, Over
    <2> QED
      BY <2>1, <2>2, <2>3
  <1>6. Ordered(p)
    BY <1>0, <1>1, <1>2, <1>3, <1>4 DEF FrameInv, Fields, Stacked, Ordered, Finalised, Ran
  <1>7. Outcome(p)
    BY <1>0, <1>1, <1>2, <1>3, <1>4 DEF FrameInv, Fields, Outcome
  <1>8. WayOut(p)
    BY <1>0, <1>1, <1>2, <1>3 DEF FrameInv, Fields, Outcome, WayOut, Scoped
  <1> QED
    BY <1>1, <1>5, <1>6, <1>7, <1>8 DEF FrameInv, p

\* The stack is empty: to the response, or out with what escaped.
LEMMA FinalisedFrame ==
  ASSUME NEW q, FrameInv(q), q.pc = "cleanup", q.stack = {}
  PROVE  FrameInv([q EXCEPT !.pc = IF q.escaped = "no" THEN "send" ELSE "leave"])
  <1> DEFINE p == [q EXCEPT !.pc = IF q.escaped = "no" THEN "send" ELSE "leave"]
  <1>1. /\ p.pc = (IF q.escaped = "no" THEN "send" ELSE "leave")
        /\ p.route = q.route /\ p.next = q.next /\ p.res = q.res
        /\ p.stack = q.stack /\ p.succeeded = q.succeeded
        /\ p.response = q.response /\ p.sent = q.sent /\ p.tasks = q.tasks
        /\ p.escaped = q.escaped /\ p.thread = q.thread /\ Shape(p)
    BY DEF FrameInv, Shape
  <1> HIDE DEF p
  <1>2. /\ Gens(p) = Gens(q) /\ Size(p) = Size(q)
        /\ Resolved(p) = Resolved(q) /\ HasTasks(p) = HasTasks(q)
        /\ Scoped(p) = Scoped(q) /\ LiveScoped(p) = LiveScoped(q)
    BY <1>1, SameGenerators
  <1>3. Fields(p) /\ Stacked(p) /\ Progress(p)
    BY <1>1, <1>2 DEF FrameInv, Fields, Stacked, Progress, Working, Over
  <1>4. Ordered(p) /\ Outcome(p)
    BY <1>1, <1>2
    DEF FrameInv, Fields, Stacked, Progress, Ordered, Outcome, Finalised, Ran, Working, Over
  <1>5. WayOut(p)
    BY <1>1, <1>2 DEF FrameInv, Fields, Progress, Outcome, WayOut, Working, Over
  <1> QED
    BY <1>1, <1>3, <1>4, <1>5 DEF FrameInv, p

\* Closing an unsent streaming body raised.
LEMMA HeadFrame ==
  ASSUME NEW q, FrameInv(q), q.pc = "cleanup", q.stack = {}
  PROVE  FrameInv([q EXCEPT !.pc = "leave", !.escaped = "head"])
  <1> DEFINE p == [q EXCEPT !.pc = "leave", !.escaped = "head"]
  <1>1. /\ p.pc = "leave" /\ p.route = q.route /\ p.next = q.next
        /\ p.res = q.res /\ p.stack = q.stack /\ p.succeeded = q.succeeded
        /\ p.response = q.response /\ p.sent = q.sent /\ p.tasks = q.tasks
        /\ p.escaped = "head" /\ p.thread = q.thread /\ Shape(p)
    BY DEF FrameInv, Shape
  <1> HIDE DEF p
  <1>2. /\ Gens(p) = Gens(q) /\ Size(p) = Size(q)
        /\ Resolved(p) = Resolved(q) /\ HasTasks(p) = HasTasks(q)
        /\ Scoped(p) = Scoped(q) /\ LiveScoped(p) = LiveScoped(q)
    BY <1>1, SameGenerators
  <1>3. Fields(p) /\ Stacked(p) /\ Progress(p)
    BY <1>1, <1>2 DEF FrameInv, Fields, Stacked, Progress, Working, Over
  <1>4. Ordered(p) /\ Outcome(p)
    <2>1. Ordered(p)
      BY <1>1, <1>2 DEF FrameInv, Ordered, WayOut, Finalised, Ran
    <2>2. Outcome(p)
      BY <1>1, <1>2
      DEF FrameInv, Fields, Stacked, Progress, Ordered, Outcome, Finalised, Ran, Working, Over
    <2> QED
      BY <2>1, <2>2
  <1>5. WayOut(p)
    BY <1>1, <1>2 DEF FrameInv, Fields, Progress, Outcome, WayOut, Working, Over
  <1> QED
    BY <1>1, <1>3, <1>4, <1>5 DEF FrameInv, p

\* The interpreter closes a generator that is on no stack.
LEMMA RuntimeFrame ==
  ASSUME NEW q, FrameInv(q), q.pc \in {"cleanup"} \cup Over, NEW d \in Gens(q) \ q.stack,
         q.res[d] = "live"
  PROVE  FrameInv([q EXCEPT !.res[d] = "closed"])
  <1> DEFINE p == [q EXCEPT !.res[d] = "closed"]
  <1>1. /\ p.pc = q.pc /\ p.route = q.route /\ p.next = q.next
        /\ p.res = [q.res EXCEPT ![d] = "closed"] /\ p.stack = q.stack
        /\ p.succeeded = q.succeeded /\ p.response = q.response
        /\ p.sent = q.sent /\ p.tasks = q.tasks /\ p.escaped = q.escaped
        /\ p.thread = q.thread /\ Shape(p)
    BY DEF FrameInv, Shape
  <1> HIDE DEF p
  <1>2. /\ Gens(p) = Gens(q) /\ Size(p) = Size(q)
        /\ Resolved(p) = Resolved(q) /\ HasTasks(p) = HasTasks(q)
    BY <1>1, SameGenerators
  <1>3. d \in 1..Size(q) /\ d \notin Scoped(q)
    <2>1. Size(q) \in Nat
      BY PlanFacts DEF FrameInv, Fields, Size
    <2> QED
      BY <2>1 DEF Gens, GensUpTo, Scoped, Size
  <1>4. Scoped(p) = Scoped(q) /\ LiveScoped(p) = LiveScoped(q)
    BY <1>1, <1>3 DEF FrameInv, Fields, Scoped, LiveScoped
  <1>5. ~(Resolved(q) /\ q.escaped # "cleanup")
    BY DEF FrameInv, Ordered
  <1>6. Fields(p) /\ Stacked(p) /\ Progress(p) /\ Ordered(p)
    <2>1. Fields(p)
      <3>1. q.res \in [1..Size(q) -> {"none", "live", "resumed", "raised", "closed"}]
        BY DEF FrameInv, Fields
      <3>2. p.res \in [1..Size(p) -> {"none", "live", "resumed", "raised", "closed"}]
        BY <3>1, <1>1, <1>2
      <3> QED
        BY <3>2, <1>1, <1>2 DEF FrameInv, Fields, Over
    <2>2. Stacked(p)
      BY <1>1, <1>2, <1>5 DEF FrameInv, Fields, Stacked, Progress, Ordered, Working, Over
    <2>3. Progress(p)
      BY <1>1, <1>2, <1>5 DEF FrameInv, Fields, Stacked, Progress, Ordered, Working, Over
    <2>4. Ordered(p)
      BY <1>1, <1>2, <1>5 DEF FrameInv, Fields, Stacked, Progress, Ordered, Working, Over
    <2> QED
      BY <2>1, <2>2, <2>3, <2>4
  <1>7. Outcome(p)
    BY <1>1, <1>2, <1>3 DEF FrameInv, Fields, Outcome
  <1>8. WayOut(p)
    BY <1>1, <1>2, <1>3, <1>4 DEF FrameInv, Fields, WayOut
  <1> QED
    BY <1>1, <1>6, <1>7, <1>8 DEF FrameInv, p

\* The response is sent.
LEMMA SendFrame ==
  ASSUME NEW q, FrameInv(q), q.pc = "send"
  PROVE  FrameInv([q EXCEPT !.sent = q.response, !.pc = AfterSend(q)])
  <1> DEFINE p == [q EXCEPT !.sent = q.response, !.pc = AfterSend(q)]
  <1>1. /\ p.pc = AfterSend(q) /\ p.route = q.route /\ p.next = q.next
        /\ p.res = q.res /\ p.stack = q.stack /\ p.succeeded = q.succeeded
        /\ p.response = q.response /\ p.sent = q.response /\ p.tasks = q.tasks
        /\ p.escaped = q.escaped /\ p.thread = q.thread /\ Shape(p)
    BY DEF FrameInv, Shape
  <1> HIDE DEF p
  <1>2. /\ Gens(p) = Gens(q) /\ Size(p) = Size(q)
        /\ Resolved(p) = Resolved(q) /\ HasTasks(p) = HasTasks(q)
        /\ Scoped(p) = Scoped(q) /\ LiveScoped(p) = LiveScoped(q)
    BY <1>1, SameGenerators
  <1>3. AfterSend(q) \in {"background", "teardown"} /\ (AfterSend(q) = "teardown" <=> ~HasTasks(q))
    BY DEF AfterSend
  <1>4. Fields(p) /\ Stacked(p) /\ Progress(p)
    BY <1>1, <1>2, <1>3 DEF FrameInv, Fields, Stacked, Progress, Working, Over
  <1>5. Ordered(p) /\ Outcome(p)
    BY <1>1, <1>2, <1>3 DEF FrameInv, Fields, Stacked, Ordered, Outcome, Finalised, Ran, Over
  <1>6. WayOut(p)
    BY <1>1, <1>2, <1>3 DEF FrameInv, Fields, Outcome, WayOut
  <1> QED
    BY <1>1, <1>4, <1>5, <1>6 DEF FrameInv, p

\* The connection or a streaming body failed.
LEMMA BrokenFrame ==
  ASSUME NEW q, FrameInv(q), q.pc = "send"
  PROVE  FrameInv([q EXCEPT !.sent = "broken", !.escaped = "send", !.pc = "teardown"])
  <1> DEFINE p == [q EXCEPT !.sent = "broken", !.escaped = "send", !.pc = "teardown"]
  <1>1. /\ p.pc = "teardown" /\ p.route = q.route /\ p.next = q.next
        /\ p.res = q.res /\ p.stack = q.stack /\ p.succeeded = q.succeeded
        /\ p.response = q.response /\ p.sent = "broken" /\ p.tasks = q.tasks
        /\ p.escaped = "send" /\ p.thread = q.thread /\ Shape(p)
    BY DEF FrameInv, Shape
  <1> HIDE DEF p
  <1>2. /\ Gens(p) = Gens(q) /\ Size(p) = Size(q)
        /\ Resolved(p) = Resolved(q) /\ HasTasks(p) = HasTasks(q)
        /\ Scoped(p) = Scoped(q) /\ LiveScoped(p) = LiveScoped(q)
    BY <1>1, SameGenerators
  <1>3. Fields(p) /\ Stacked(p) /\ Progress(p)
    BY <1>1, <1>2 DEF FrameInv, Fields, Stacked, Progress, Working, Over
  <1>4. Ordered(p) /\ Outcome(p)
    <2>1. Ordered(p)
      BY <1>1, <1>2 DEF FrameInv, Ordered, WayOut, Finalised, Ran
    <2>2. Outcome(p)
      BY <1>1, <1>2
      DEF FrameInv, Fields, Stacked, Progress, Ordered, Outcome, Finalised, Ran, Working, Over
    <2> QED
      BY <2>1, <2>2
  <1>5. WayOut(p)
    BY <1>1, <1>2 DEF FrameInv, Fields, Progress, Outcome, WayOut, Working, Over
  <1> QED
    BY <1>1, <1>3, <1>4, <1>5 DEF FrameInv, p

\* The background tasks are over.
LEMMA BackgroundFrame ==
  ASSUME NEW q, FrameInv(q), q.pc = "background"
  PROVE  FrameInv([q EXCEPT !.tasks = "ran", !.pc = "teardown"])
  <1> DEFINE p == [q EXCEPT !.tasks = "ran", !.pc = "teardown"]
  <1>1. /\ p.pc = "teardown" /\ p.route = q.route /\ p.next = q.next
        /\ p.res = q.res /\ p.stack = q.stack /\ p.succeeded = q.succeeded
        /\ p.response = q.response /\ p.sent = q.sent /\ p.tasks = "ran"
        /\ p.escaped = q.escaped /\ p.thread = q.thread /\ Shape(p)
    BY DEF FrameInv, Shape
  <1> HIDE DEF p
  <1>2. /\ Gens(p) = Gens(q) /\ Size(p) = Size(q)
        /\ Resolved(p) = Resolved(q) /\ HasTasks(p) = HasTasks(q)
        /\ Scoped(p) = Scoped(q) /\ LiveScoped(p) = LiveScoped(q)
    BY <1>1, SameGenerators
  <1>3. Fields(p) /\ Stacked(p) /\ Progress(p)
    BY <1>1, <1>2 DEF FrameInv, Fields, Stacked, Progress, Working, Over
  <1>4. Ordered(p) /\ Outcome(p)
    BY <1>1, <1>2
    DEF FrameInv, Fields, Stacked, Progress, Ordered, Outcome, Finalised, Ran, Working, Over
  <1>5. WayOut(p)
    BY <1>1, <1>2 DEF FrameInv, Fields, Progress, Outcome, WayOut, Working, Over
  <1> QED
    BY <1>1, <1>3, <1>4, <1>5 DEF FrameInv, p

\* ... or were cancelled.
LEMMA CancelledBackgroundFrame ==
  ASSUME NEW q, FrameInv(q), q.pc = "background"
  PROVE  FrameInv([q EXCEPT !.tasks = "ran", !.pc = "teardown",
                             !.escaped = "background"])
  <1> DEFINE p == [q EXCEPT !.tasks = "ran", !.pc = "teardown",
                             !.escaped = "background"]
  <1>1. /\ p.pc = "teardown" /\ p.route = q.route /\ p.next = q.next
        /\ p.res = q.res /\ p.stack = q.stack /\ p.succeeded = q.succeeded
        /\ p.response = q.response /\ p.sent = q.sent /\ p.tasks = "ran"
        /\ p.escaped = "background" /\ p.thread = q.thread /\ Shape(p)
    BY DEF FrameInv, Shape
  <1> HIDE DEF p
  <1>2. /\ Gens(p) = Gens(q) /\ Size(p) = Size(q)
        /\ Resolved(p) = Resolved(q) /\ HasTasks(p) = HasTasks(q)
        /\ Scoped(p) = Scoped(q) /\ LiveScoped(p) = LiveScoped(q)
    BY <1>1, SameGenerators
  <1>3. Fields(p) /\ Stacked(p) /\ Progress(p)
    BY <1>1, <1>2 DEF FrameInv, Fields, Stacked, Progress, Working, Over
  <1>4. Ordered(p) /\ Outcome(p)
    <2>1. Ordered(p)
      BY <1>1, <1>2 DEF FrameInv, Ordered, WayOut, Finalised, Ran
    <2>2. Outcome(p)
      BY <1>1, <1>2
      DEF FrameInv, Fields, Stacked, Progress, Ordered, Outcome, WayOut, Finalised, Ran, Working, Over
    <2> QED
      BY <2>1, <2>2
  <1>5. WayOut(p)
    BY <1>1, <1>2 DEF FrameInv, Fields, Progress, Outcome, WayOut, Working, Over
  <1> QED
    BY <1>1, <1>3, <1>4, <1>5 DEF FrameInv, p

\* A scoped instance is closed.
LEMMA CloseFrame ==
  ASSUME NEW q, FrameInv(q), q.pc = "teardown", NEW d \in LiveScoped(q)
  PROVE  FrameInv([q EXCEPT !.res[d] = "closed"])
  <1> DEFINE p == [q EXCEPT !.res[d] = "closed"]
  <1>1. /\ p.pc = q.pc /\ p.route = q.route /\ p.next = q.next
        /\ p.res = [q.res EXCEPT ![d] = "closed"] /\ p.stack = q.stack
        /\ p.succeeded = q.succeeded /\ p.response = q.response
        /\ p.sent = q.sent /\ p.tasks = q.tasks /\ p.escaped = q.escaped
        /\ p.thread = q.thread /\ Shape(p)
    BY DEF FrameInv, Shape
  <1> HIDE DEF p
  <1>2. /\ Gens(p) = Gens(q) /\ Size(p) = Size(q)
        /\ Resolved(p) = Resolved(q) /\ HasTasks(p) = HasTasks(q)
    BY <1>1, SameGenerators
  <1>3. d \in 1..Size(q) /\ d \in Scoped(q) /\ d \notin Gens(q) /\ Scoped(p) = Scoped(q)
    BY <1>1 DEF FrameInv, Fields, Gens, GensUpTo, Scoped, LiveScoped, Size
  <1>4. Fields(p) /\ Stacked(p) /\ Progress(p)
    BY <1>1, <1>2, <1>3 DEF FrameInv, Fields, Stacked, Progress, Working, Over
  <1>5. Ordered(p) /\ Outcome(p)
    BY <1>1, <1>2, <1>3 DEF FrameInv, Fields, Stacked, Ordered, Outcome, Finalised, Ran, Over
  <1>6. WayOut(p)
    BY <1>1, <1>2, <1>3 DEF FrameInv, Fields, Outcome, WayOut
  <1> QED
    BY <1>1, <1>4, <1>5, <1>6 DEF FrameInv, p

\* ... and the rest are not.
LEMMA CancelledCloseFrame ==
  ASSUME NEW q, FrameInv(q), q.pc = "teardown", NEW d \in LiveScoped(q)
  PROVE  FrameInv([q EXCEPT !.res[d] = "closed", !.pc = "leave", !.escaped = "teardown"])
  <1> DEFINE p == [q EXCEPT !.res[d] = "closed", !.pc = "leave", !.escaped = "teardown"]
  <1>1. /\ p.pc = "leave" /\ p.route = q.route /\ p.next = q.next
        /\ p.res = [q.res EXCEPT ![d] = "closed"] /\ p.stack = q.stack
        /\ p.succeeded = q.succeeded /\ p.response = q.response
        /\ p.sent = q.sent /\ p.tasks = q.tasks /\ p.escaped = "teardown"
        /\ p.thread = q.thread /\ Shape(p)
    BY DEF FrameInv, Shape
  <1> HIDE DEF p
  <1>2. /\ Gens(p) = Gens(q) /\ Size(p) = Size(q)
        /\ Resolved(p) = Resolved(q) /\ HasTasks(p) = HasTasks(q)
    BY <1>1, SameGenerators
  <1>3. d \in 1..Size(q) /\ d \in Scoped(q) /\ d \notin Gens(q) /\ Scoped(p) = Scoped(q)
    BY <1>1 DEF FrameInv, Fields, Gens, GensUpTo, Scoped, LiveScoped, Size
  <1>4. Fields(p) /\ Stacked(p) /\ Progress(p)
    BY <1>1, <1>2, <1>3 DEF FrameInv, Fields, Stacked, Progress, Working, Over
  <1>5. Ordered(p) /\ Outcome(p)
    <2>1. Ordered(p)
      BY <1>1, <1>2, <1>3 DEF FrameInv, Ordered, WayOut, Finalised, Ran
    <2>2. Outcome(p)
      BY <1>1, <1>2, <1>3 DEF FrameInv, Fields, Stacked, Ordered, Outcome, WayOut, Finalised, Ran, Over
    <2> QED
      BY <2>1, <2>2
  <1>6. WayOut(p)
    BY <1>1, <1>2, <1>3 DEF FrameInv, Fields, Outcome, WayOut
  <1> QED
    BY <1>1, <1>4, <1>5, <1>6 DEF FrameInv, p

\* The scope is closed.
LEMMA ClosedFrame ==
  ASSUME NEW q, FrameInv(q), q.pc = "teardown", LiveScoped(q) = {}
  PROVE  FrameInv([q EXCEPT !.pc = "leave"])
  <1> DEFINE p == [q EXCEPT !.pc = "leave"]
  <1>1. /\ p.pc = "leave" /\ p.route = q.route /\ p.next = q.next
        /\ p.res = q.res /\ p.stack = q.stack /\ p.succeeded = q.succeeded
        /\ p.response = q.response /\ p.sent = q.sent /\ p.tasks = q.tasks
        /\ p.escaped = q.escaped /\ p.thread = q.thread /\ Shape(p)
    BY DEF FrameInv, Shape
  <1> HIDE DEF p
  <1>2. /\ Gens(p) = Gens(q) /\ Size(p) = Size(q)
        /\ Resolved(p) = Resolved(q) /\ HasTasks(p) = HasTasks(q)
        /\ Scoped(p) = Scoped(q) /\ LiveScoped(p) = LiveScoped(q)
    BY <1>1, SameGenerators
  <1>3. Fields(p) /\ Stacked(p) /\ Progress(p)
    BY <1>1, <1>2 DEF FrameInv, Fields, Stacked, Progress, Working, Over
  <1>4. Ordered(p) /\ Outcome(p)
    BY <1>1, <1>2
    DEF FrameInv, Fields, Stacked, Progress, Ordered, Outcome, Finalised, Ran, Working, Over
  <1>5. WayOut(p)
    BY <1>1, <1>2 DEF FrameInv, Fields, Progress, Outcome, WayOut, Working, Over
  <1> QED
    BY <1>1, <1>3, <1>4, <1>5 DEF FrameInv, p

\* The request is over.
LEMMA LeaveFrame ==
  ASSUME NEW q, FrameInv(q), q.pc = "leave"
  PROVE  FrameInv([q EXCEPT !.pc = "done"])
  <1> DEFINE p == [q EXCEPT !.pc = "done"]
  <1>1. /\ p.pc = "done" /\ p.route = q.route /\ p.next = q.next
        /\ p.res = q.res /\ p.stack = q.stack /\ p.succeeded = q.succeeded
        /\ p.response = q.response /\ p.sent = q.sent /\ p.tasks = q.tasks
        /\ p.escaped = q.escaped /\ p.thread = q.thread /\ Shape(p)
    BY DEF FrameInv, Shape
  <1> HIDE DEF p
  <1>2. /\ Gens(p) = Gens(q) /\ Size(p) = Size(q)
        /\ Resolved(p) = Resolved(q) /\ HasTasks(p) = HasTasks(q)
        /\ Scoped(p) = Scoped(q) /\ LiveScoped(p) = LiveScoped(q)
    BY <1>1, SameGenerators
  <1>3. Fields(p) /\ Stacked(p) /\ Progress(p)
    BY <1>1, <1>2 DEF FrameInv, Fields, Stacked, Progress, Working, Over
  <1>4. Ordered(p) /\ Outcome(p)
    BY <1>1, <1>2
    DEF FrameInv, Fields, Stacked, Progress, Ordered, Outcome, Finalised, Ran, Working, Over
  <1>5. WayOut(p)
    BY <1>1, <1>2 DEF FrameInv, Fields, Progress, Outcome, WayOut, Working, Over
  <1> QED
    BY <1>1, <1>3, <1>4, <1>5 DEF FrameInv, p

\* The handler's thread ends.
LEMMA ThreadFrame ==
  ASSUME NEW q, FrameInv(q), q.thread
  PROVE  FrameInv([q EXCEPT !.thread = FALSE])
  <1> DEFINE p == [q EXCEPT !.thread = FALSE]
  <1>1. /\ p.pc = q.pc /\ p.route = q.route /\ p.next = q.next /\ p.res = q.res
        /\ p.stack = q.stack /\ p.succeeded = q.succeeded
        /\ p.response = q.response /\ p.sent = q.sent /\ p.tasks = q.tasks
        /\ p.escaped = q.escaped /\ p.thread = FALSE /\ Shape(p)
    BY DEF FrameInv, Shape
  <1> HIDE DEF p
  <1>2. /\ Gens(p) = Gens(q) /\ Size(p) = Size(q)
        /\ Resolved(p) = Resolved(q) /\ HasTasks(p) = HasTasks(q)
        /\ Scoped(p) = Scoped(q) /\ LiveScoped(p) = LiveScoped(q)
    BY <1>1, SameGenerators
  <1>3. Fields(p) /\ Stacked(p) /\ Progress(p)
    <2>1. Fields(p)
      BY <1>1, <1>2 DEF FrameInv, Fields, Stacked, Progress, Working, Over
    <2>2. Stacked(p)
      BY <1>1, <1>2 DEF FrameInv, Fields, Stacked, Progress, Working, Over
    <2>3. Progress(p)
      BY <1>1, <1>2 DEF FrameInv, Fields, Stacked, Progress, Working, Over
    <2> QED
      BY <2>1, <2>2, <2>3
  <1>4. Ordered(p) /\ Outcome(p)
    BY <1>1, <1>2
    DEF FrameInv, Fields, Stacked, Progress, Ordered, Outcome, Finalised, Ran, Working, Over
  <1>5. WayOut(p)
    BY <1>1, <1>2 DEF FrameInv, Fields, Progress, Outcome, WayOut, Working, Over
  <1> QED
    BY <1>1, <1>3, <1>4, <1>5 DEF FrameInv, p

-----------------------------------------------------------------------------
(* Steps of the specification                                              *)

Outside == {"idle", "done"}

\* A request moves to another frame that satisfies the invariant, and is in
\* flight if and only if it was.
Moves(r) ==
    \E p : /\ FrameInv(p)
           /\ p.pc \in Outside <=> req[r].pc \in Outside
           /\ Become(r, p)

\* What fails in the try block moves to its finally block.
LEMMA FailMoves ==
  ASSUME NEW r \in Requests, NEW q, q = req[r], FrameInv(q), q.pc \in Working, Fail(r, q)
  PROVE  Moves(r)
  <1>1. CASE Become(r, [q EXCEPT !.pc = "cleanup", !.response = "error"])
    <2> DEFINE p == [q EXCEPT !.pc = "cleanup", !.response = "error"]
    <2>1. FrameInv(p)
      BY ErrorFrame
    <2>2. p.pc = "cleanup"
      BY DEF FrameInv, Shape
    <2> QED
      BY <1>1, <2>1, <2>2 DEF Moves, Outside, Working
  <1>2. CASE Become(r, [q EXCEPT !.pc = "except"])
    <2> DEFINE p == [q EXCEPT !.pc = "except"]
    <2>1. FrameInv(p)
      BY RaiseFrame
    <2>2. p.pc = "except"
      BY DEF FrameInv, Shape
    <2> QED
      BY <1>2, <2>1, <2>2 DEF Moves, Outside, Working
  <1> QED
    BY <1>1, <1>2 DEF Fail

\* So does what is cancelled in it.
LEMMA CancelMoves ==
  ASSUME NEW r \in Requests, NEW q, q = req[r], FrameInv(q), q.pc \in Working \cup {"except"},
         NEW t \in BOOLEAN,
         Become(r, [[q EXCEPT !.thread = t] EXCEPT !.pc = "cleanup", !.escaped = "try"])
  PROVE  Moves(r)
  <1> DEFINE p == [[q EXCEPT !.thread = t] EXCEPT !.pc = "cleanup", !.escaped = "try"]
  <1>1. FrameInv(p)
    BY EscapeFrame
  <1>2. p.pc = "cleanup"
    BY DEF FrameInv, Shape
  <1> QED
    BY <1>1, <1>2 DEF Moves, Outside, Working

\* The same where no thread is concerned.
LEMMA SameThread ==
  ASSUME NEW q, FrameInv(q)
  PROVE  q.thread \in BOOLEAN /\ q = [q EXCEPT !.thread = q.thread]
  BY DEF FrameInv, Fields, Shape

\* The permission check is over.
LEMMA PermissionMoves ==
  ASSUME NEW r \in Requests, FrameInv(req[r]), CheckPermission(r)
  PROVE  Moves(r)
  <1> DEFINE q == req[r]
  <1>0. q.pc = "permission"
    BY DEF CheckPermission
  <1>1. CASE Become(r, [q EXCEPT !.pc = AfterPermission(q.route)])
    <2> DEFINE p == [q EXCEPT !.pc = AfterPermission(q.route)]
    <2>1. FrameInv(p)
      BY <1>0, PermitFrame
    <2>2. p.pc \in {"resolve", "handler"}
      BY DEF FrameInv, Shape, AfterPermission
    <2> QED
      BY <1>1, <2>1, <2>2, <1>0 DEF Moves, Outside
  <1>2. CASE Fail(r, q)
    BY <1>2, <1>0, FailMoves DEF Working
  <1>3. CASE Cancel(r, q)
    BY <1>3, <1>0, SameThread, CancelMoves DEF Cancel, Working
  <1> QED
    BY <1>0, <1>1, <1>2, <1>3 DEF CheckPermission

\* A dependency is resolved, or is not.
LEMMA ResolveMoves ==
  ASSUME NEW r \in Requests, FrameInv(req[r]), ResolveNext(r)
  PROVE  Moves(r)
  <1> DEFINE q == req[r]
             d == q.next
             kind == Plan(q.route)[d]
  <1>0. q.pc = "resolve"
    BY DEF ResolveNext
  <1>1. CASE Become(r, [q EXCEPT
                 !.res[d] = IF kind = "plain" THEN "none" ELSE "live",
                 !.stack = Tracked(q.route, d),
                 !.next = d + 1,
                 !.pc = IF d = Len(Plan(q.route)) THEN "handler" ELSE "resolve"])
    <2> DEFINE p == [q EXCEPT
                 !.res[d] = IF kind = "plain" THEN "none" ELSE "live",
                 !.stack = Tracked(q.route, d),
                 !.next = d + 1,
                 !.pc = IF d = Len(Plan(q.route)) THEN "handler" ELSE "resolve"]
    <2>1. FrameInv(p)
      BY <1>0, ResolveFrame
    <2>2. p.pc \in {"resolve", "handler"}
      BY DEF FrameInv, Shape
    <2> QED
      BY <1>1, <2>1, <2>2, <1>0 DEF Moves, Outside
  <1>2. CASE Fail(r, q)
    BY <1>2, <1>0, FailMoves DEF Working
  <1>3. CASE Cancel(r, q)
    BY <1>3, <1>0, SameThread, CancelMoves DEF Cancel, Working
  <1> QED
    BY <1>0, <1>1, <1>2, <1>3 DEF ResolveNext

\* The handler returns, raises or is cancelled.
LEMMA HandlerMoves ==
  ASSUME NEW r \in Requests, FrameInv(req[r]), RunHandler(r)
  PROVE  Moves(r)
  <1> DEFINE q == req[r]
  <1>0. q.pc = "handler"
    BY DEF RunHandler
  <1>1. CASE Become(r, [q EXCEPT !.pc = "cleanup", !.response = "ok", !.succeeded = TRUE])
    <2> DEFINE p == [q EXCEPT !.pc = "cleanup", !.response = "ok", !.succeeded = TRUE]
    <2>1. FrameInv(p)
      BY <1>0, SucceedFrame
    <2>2. p.pc = "cleanup"
      BY DEF FrameInv, Shape
    <2> QED
      BY <1>1, <2>1, <2>2, <1>0 DEF Moves, Outside
  <1>2. CASE Fail(r, q)
    BY <1>2, <1>0, FailMoves DEF Working
  <1>3. CASE Cancel(r, [q EXCEPT !.thread = q.route.threaded])
    <2>1. q.route \in Routes \cup {NoRoute}
      BY DEF FrameInv, Fields
    <2>2. \A rt \in Routes : rt.threaded \in BOOLEAN
      BY RoutesAssumption DEF RouteShape
    <2>3. NoRoute.threaded \in BOOLEAN
      BY DEF NoRoute
    <2>4. q.route.threaded \in BOOLEAN
      BY <2>1, <2>2, <2>3
    <2> QED
      BY <1>3, <1>0, <2>4, CancelMoves DEF Cancel, Working
  <1> QED
    BY <1>0, <1>1, <1>2, <1>3 DEF RunHandler, Succeed

\* _handle_exception returns a response or raises.
LEMMA ExceptionMoves ==
  ASSUME NEW r \in Requests, FrameInv(req[r]), HandleException(r)
  PROVE  Moves(r)
  <1> DEFINE q == req[r]
  <1>0. q.pc = "except"
    BY DEF HandleException
  <1>1. CASE Become(r, [q EXCEPT !.pc = "cleanup", !.response = "error"])
    <2> DEFINE p == [q EXCEPT !.pc = "cleanup", !.response = "error"]
    <2>1. FrameInv(p)
      BY <1>0, ErrorFrame
    <2>2. p.pc = "cleanup"
      BY DEF FrameInv, Shape
    <2> QED
      BY <1>1, <2>1, <2>2, <1>0 DEF Moves, Outside
  <1>2. CASE Become(r, [q EXCEPT !.pc = "cleanup", !.escaped = "try"])
    BY <1>2, <1>0, SameThread, CancelMoves
  <1> QED
    BY <1>0, <1>1, <1>2 DEF HandleException

\* A generator is finalised.
LEMMA FinaliseMoves ==
  ASSUME NEW r \in Requests, FrameInv(req[r]), FinaliseNext(r)
  PROVE  Moves(r)
  <1> DEFINE q == req[r]
             d == FirstToFinalise(q.stack)
  <1>0. q.pc = "cleanup"
    BY DEF FinaliseNext
  <1>1. d \in q.stack /\ \A e \in q.stack : d >= e
    <2>1. Size(q) \in Nat /\ q.stack \subseteq 1..Size(q)
      BY PlanFacts DEF FrameInv, Fields, Stacked, Size, Gens, GensUpTo
    <2>2. q.stack # {}
      BY DEF FinaliseNext
    <2> QED
      BY <2>1, <2>2, LastExists DEF FirstToFinalise
  <1>2. ASSUME NEW final \in Finals(q), Become(r, [q EXCEPT !.stack = @ \ {d}, !.res[d] = final])
        PROVE  Moves(r)
    <2> DEFINE p == [q EXCEPT !.stack = @ \ {d}, !.res[d] = final]
    <2>1. FrameInv(p)
      BY <1>0, <1>1, FinaliseFrame
    <2>2. p.pc = "cleanup"
      BY <1>0 DEF FrameInv, Shape
    <2> QED
      BY <1>2, <2>1, <2>2, <1>0 DEF Moves, Outside
  <1>3. CASE Become(r, [q EXCEPT !.stack = {}, !.res[d] = CutOff(q),
                                     !.pc = "leave", !.escaped = "cleanup"])
    <2> DEFINE p == [q EXCEPT !.stack = {}, !.res[d] = CutOff(q),
                                     !.pc = "leave", !.escaped = "cleanup"]
    <2>1. FrameInv(p)
      BY <1>0, <1>1, LoseStackFrame
    <2>2. p.pc = "leave"
      BY DEF FrameInv, Shape
    <2> QED
      BY <1>3, <2>1, <2>2, <1>0 DEF Moves, Outside
  <1> QED
    BY <1>0, <1>2, <1>3 DEF FinaliseNext

\* The finally block ends.
LEMMA FinalisedMoves ==
  ASSUME NEW r \in Requests, FrameInv(req[r]), FinalisedAll(r)
  PROVE  Moves(r)
  <1> DEFINE q == req[r]
  <1>0. q.pc = "cleanup"
    BY DEF FinalisedAll
  <1>1. q.stack = {}
    BY DEF FinalisedAll
  <1>2. CASE Become(r, [q EXCEPT !.pc = IF q.escaped = "no" THEN "send" ELSE "leave"])
    <2> DEFINE p == [q EXCEPT !.pc = IF q.escaped = "no" THEN "send" ELSE "leave"]
    <2>1. FrameInv(p)
      BY <1>0, <1>1, FinalisedFrame
    <2>2. p.pc \in {"send", "leave"}
      BY DEF FrameInv, Shape
    <2> QED
      BY <1>2, <2>1, <2>2, <1>0 DEF Moves, Outside
  <1>3. CASE Become(r, [q EXCEPT !.pc = "leave", !.escaped = "head"])
    <2> DEFINE p == [q EXCEPT !.pc = "leave", !.escaped = "head"]
    <2>1. FrameInv(p)
      BY <1>0, <1>1, HeadFrame
    <2>2. p.pc = "leave"
      BY DEF FrameInv, Shape
    <2> QED
      BY <1>3, <2>1, <2>2, <1>0 DEF Moves, Outside
  <1> QED
    BY <1>0, <1>2, <1>3 DEF FinalisedAll

\* The response is sent, or breaks off.
LEMMA SendMoves ==
  ASSUME NEW r \in Requests, FrameInv(req[r]), SendResponse(r)
  PROVE  Moves(r)
  <1> DEFINE q == req[r]
  <1>0. q.pc = "send"
    BY DEF SendResponse
  <1>1. CASE Become(r, [q EXCEPT !.sent = q.response, !.pc = AfterSend(q)])
    <2> DEFINE p == [q EXCEPT !.sent = q.response, !.pc = AfterSend(q)]
    <2>1. FrameInv(p)
      BY <1>0, SendFrame
    <2>2. p.pc \in {"background", "teardown"}
      BY DEF FrameInv, Shape, AfterSend
    <2> QED
      BY <1>1, <2>1, <2>2, <1>0 DEF Moves, Outside
  <1>2. CASE Become(r, [q EXCEPT !.sent = "broken", !.escaped = "send",
                 !.pc = "teardown"])
    <2> DEFINE p == [q EXCEPT !.sent = "broken", !.escaped = "send",
                 !.pc = "teardown"]
    <2>1. FrameInv(p)
      BY <1>0, BrokenFrame
    <2>2. p.pc = "teardown"
      BY DEF FrameInv, Shape
    <2> QED
      BY <1>2, <2>1, <2>2, <1>0 DEF Moves, Outside
  <1> QED
    BY <1>0, <1>1, <1>2 DEF SendResponse

\* The background tasks end.
LEMMA BackgroundMoves ==
  ASSUME NEW r \in Requests, FrameInv(req[r]), RunBackground(r)
  PROVE  Moves(r)
  <1> DEFINE q == req[r]
  <1>0. q.pc = "background"
    BY DEF RunBackground
  <1>1. CASE Become(r, [q EXCEPT !.tasks = "ran", !.pc = "teardown"])
    <2> DEFINE p == [q EXCEPT !.tasks = "ran", !.pc = "teardown"]
    <2>1. FrameInv(p)
      BY <1>0, BackgroundFrame
    <2>2. p.pc = "teardown"
      BY DEF FrameInv, Shape
    <2> QED
      BY <1>1, <2>1, <2>2, <1>0 DEF Moves, Outside
  <1>2. CASE Become(r, [q EXCEPT !.tasks = "ran", !.pc = "teardown",
                                 !.escaped = "background"])
    <2> DEFINE p == [q EXCEPT !.tasks = "ran", !.pc = "teardown",
                                 !.escaped = "background"]
    <2>1. FrameInv(p)
      BY <1>0, CancelledBackgroundFrame
    <2>2. p.pc = "teardown"
      BY DEF FrameInv, Shape
    <2> QED
      BY <1>2, <2>1, <2>2, <1>0 DEF Moves, Outside
  <1> QED
    BY <1>0, <1>1, <1>2 DEF RunBackground

\* An instance of the scope is closed.
LEMMA CloseMoves ==
  ASSUME NEW r \in Requests, FrameInv(req[r]), CloseNext(r)
  PROVE  Moves(r)
  <1> DEFINE q == req[r]
             d == Max(LiveScoped(q))
  <1>0. q.pc = "teardown"
    BY DEF CloseNext
  <1>1. d \in LiveScoped(q)
    <2>1. Size(q) \in Nat /\ LiveScoped(q) \subseteq 1..Size(q)
      BY PlanFacts DEF FrameInv, Fields, LiveScoped, Size
    <2>2. LiveScoped(q) # {}
      BY DEF CloseNext
    <2> QED
      BY <2>1, <2>2, LastExists
  <1>2. CASE Become(r, [q EXCEPT !.res[d] = "closed"])
    <2> DEFINE p == [q EXCEPT !.res[d] = "closed"]
    <2>1. FrameInv(p)
      BY <1>0, <1>1, CloseFrame
    <2>2. p.pc = "teardown"
      BY <1>0 DEF FrameInv, Shape
    <2> QED
      BY <1>2, <2>1, <2>2, <1>0 DEF Moves, Outside
  <1>3. CASE Become(r, [q EXCEPT !.res[d] = "closed", !.pc = "leave",
                                     !.escaped = "teardown"])
    <2> DEFINE p == [q EXCEPT !.res[d] = "closed", !.pc = "leave",
                                     !.escaped = "teardown"]
    <2>1. FrameInv(p)
      BY <1>0, <1>1, CancelledCloseFrame
    <2>2. p.pc = "leave"
      BY DEF FrameInv, Shape
    <2> QED
      BY <1>3, <2>1, <2>2, <1>0 DEF Moves, Outside
  <1> QED
    BY <1>0, <1>2, <1>3 DEF CloseNext

\* The scope is closed.
LEMMA ClosedMoves ==
  ASSUME NEW r \in Requests, FrameInv(req[r]), ClosedAll(r)
  PROVE  Moves(r)
  <1> DEFINE q == req[r]
  <1>0. q.pc = "teardown"
    BY DEF ClosedAll
  <1>1. CASE Become(r, [q EXCEPT !.pc = "leave"])
    <2> DEFINE p == [q EXCEPT !.pc = "leave"]
    <2>1. FrameInv(p)
      BY <1>0, ClosedFrame DEF ClosedAll
    <2>2. p.pc = "leave"
      BY DEF FrameInv, Shape
    <2> QED
      BY <1>1, <2>1, <2>2, <1>0 DEF Moves, Outside
  <1> QED
    BY <1>0, <1>1 DEF ClosedAll

\* The handler's thread ends.
LEMMA ThreadMoves ==
  ASSUME NEW r \in Requests, FrameInv(req[r]), ThreadEnds(r)
  PROVE  Moves(r)
  <1> DEFINE p == [req[r] EXCEPT !.thread = FALSE]
  <1>1. FrameInv(p)
    BY ThreadFrame DEF ThreadEnds
  <1>2. p.pc = req[r].pc
    BY DEF FrameInv, Shape
  <1> QED
    BY <1>1, <1>2 DEF Moves, ThreadEnds

\* The interpreter finalises a generator.
LEMMA RuntimeMoves ==
  ASSUME NEW r \in Requests, FrameInv(req[r]), RuntimeFinalises(r)
  PROVE  Moves(r)
  <1> DEFINE q == req[r]
  <1>1. PICK d \in Gens(q) \ q.stack :
           q.res[d] = "live" /\ Become(r, [q EXCEPT !.res[d] = "closed"])
    BY DEF RuntimeFinalises, Gens
  <1> DEFINE p == [q EXCEPT !.res[d] = "closed"]
  <1>2. FrameInv(p)
    BY <1>1, RuntimeFrame DEF RuntimeFinalises, Over
  <1>3. p.pc = q.pc
    BY DEF FrameInv, Shape
  <1> QED
    BY <1>1, <1>2, <1>3 DEF Moves

\* Every step of a request but the first and the last.
LEMMA StepMoves ==
  ASSUME NEW r \in Requests, FrameInv(req[r]),
         Step(r) \/ ThreadEnds(r) \/ RuntimeFinalises(r), ~Leave(r)
  PROVE  Moves(r)
  BY PermissionMoves, ResolveMoves, HandlerMoves, ExceptionMoves, FinaliseMoves,
     FinalisedMoves, SendMoves, BackgroundMoves, CloseMoves, ClosedMoves,
     ThreadMoves, RuntimeMoves DEF Step

-----------------------------------------------------------------------------
(* The invariant                                                           *)

\* inFlight counts the requests in flight.
Counted == inFlight = Cardinality(Active)

\* No request has arrived.
LEMMA InitIInv == Init => IInv /\ Counted
  <1> SUFFICES ASSUME Init PROVE IInv /\ Counted
    OBVIOUS
  <1>1. req = [r \in Requests |-> Frame(NoRoute, "idle", "none")]
    BY DEF Init
  <1>2. FrameInv(Frame(NoRoute, "idle", "none"))
    BY NewFrame
  <1>3. IInv
    BY <1>1, <1>2 DEF IInv
  <1>4. \A r \in Requests : req[r].pc = "idle"
    BY <1>1 DEF Frame
  <1>5. Active = {}
    BY <1>4 DEF Active
  <1> QED
    BY <1>3, <1>5, FS_EmptySet DEF Counted, Init

\* One frame is replaced by another that satisfies the invariant.
LEMMA ReplaceFrame ==
  ASSUME IInv, NEW r \in Requests, NEW p, FrameInv(p), req' = [req EXCEPT ![r] = p]
  PROVE  /\ IInv'
         /\ Active' = IF p.pc \in Outside THEN Active \ {r} ELSE Active \cup {r}
  <1>1. /\ req' = [s \in Requests |-> req'[s]]
        /\ \A s \in Requests : req'[s] = IF s = r THEN p ELSE req[s]
    BY DEF IInv
  <1>2. \A s \in Requests : FrameInv(req'[s])
    BY <1>1 DEF IInv
  <1>3. IInv'
    BY <1>1, <1>2 DEF IInv
  <1>4. CASE p.pc \in Outside
    BY <1>1, <1>3, <1>4 DEF Active, Outside
  <1>5. CASE p.pc \notin Outside
    BY <1>1, <1>3, <1>5 DEF Active, Outside
  <1> QED
    BY <1>3, <1>4, <1>5

\* What an action does to the requests in flight.
LEMMA NextSteps ==
  ASSUME IInv, [Next]_vars
  PROVE  /\ IInv'
         /\ \/ UNCHANGED <<Active, inFlight>>
            \/ \E r \in Requests :
                  r \notin Active /\ Active' = Active \cup {r} /\ inFlight' = inFlight + 1
            \/ \E r \in Requests :
                  r \in Active /\ Active' = Active \ {r} /\ inFlight' = inFlight - 1
  <1>1. CASE UNCHANGED vars
    BY <1>1 DEF vars, IInv, Active
  <1>2. ASSUME NEW r \in Requests, Enter(r)
        PROVE  IInv' /\ r \notin Active /\ Active' = Active \cup {r}
                     /\ inFlight' = inFlight + 1
    <2>1. PICK rt \in Routes : req' = [req EXCEPT ![r] = Frame(rt, FirstStep(rt), "none")]
      BY <1>2 DEF Enter
    <2> DEFINE p == Frame(rt, FirstStep(rt), "none")
    <2>2. FrameInv(p)
      BY NewFrame
    <2>3. p.pc \notin Outside
      BY DEF Frame, FirstStep, AfterPermission, Outside
    <2> HIDE DEF p
    <2> QED
      BY <1>2, <2>1, <2>2, <2>3, ReplaceFrame DEF Enter, Active, p
  <1>3. ASSUME NEW r \in Requests, EnterDirect(r)
        PROVE  IInv' /\ r \notin Active /\ Active' = Active \cup {r}
                     /\ inFlight' = inFlight + 1
    <2>1. PICK response \in {"ok", "error"} :
             req' = [req EXCEPT ![r] = Frame(NoRoute, "send", response)]
      BY <1>3 DEF EnterDirect
    <2> DEFINE p == Frame(NoRoute, "send", response)
    <2>2. FrameInv(p)
      BY NewFrame
    <2>3. p.pc \notin Outside
      BY DEF Frame, Outside
    <2> HIDE DEF p
    <2> QED
      BY <1>3, <2>1, <2>2, <2>3, ReplaceFrame DEF EnterDirect, Active, p
  <1>4. ASSUME NEW r \in Requests, Leave(r)
        PROVE  IInv' /\ r \in Active /\ Active' = Active \ {r}
                     /\ inFlight' = inFlight - 1
    <2> DEFINE p == [req[r] EXCEPT !.pc = "done"]
    <2>1. FrameInv(p)
      BY <1>4, LeaveFrame DEF IInv, Leave
    <2>2. p.pc \in Outside
      BY DEF IInv, FrameInv, Shape, Outside
    <2>3. req' = [req EXCEPT ![r] = p]
      BY <1>4 DEF Leave
    <2> HIDE DEF p
    <2> QED
      BY <1>4, <2>1, <2>2, <2>3, ReplaceFrame DEF Leave, Active, CountOut
  <1>5. ASSUME NEW r \in Requests, Moves(r)
        PROVE  IInv' /\ UNCHANGED <<Active, inFlight>>
    <2>1. PICK p : /\ FrameInv(p)
                   /\ p.pc \in Outside <=> req[r].pc \in Outside
                   /\ Become(r, p)
      BY <1>5 DEF Moves
    <2>2. /\ IInv'
          /\ Active' = IF p.pc \in Outside THEN Active \ {r} ELSE Active \cup {r}
      BY <2>1, ReplaceFrame DEF Become
    <2> QED
      BY <2>1, <2>2 DEF Active, Outside, Become
  <1>6. ASSUME NEW r \in Requests,
               Enter(r) \/ EnterDirect(r) \/ Step(r) \/ ThreadEnds(r) \/ RuntimeFinalises(r)
        PROVE  Enter(r) \/ EnterDirect(r) \/ Leave(r) \/ Moves(r)
    <2>1. FrameInv(req[r])
      BY DEF IInv
    <2> QED
      BY <1>6, <2>1, StepMoves
  <1> QED
    BY <1>1, <1>2, <1>3, <1>4, <1>5, <1>6 DEF Next

\* Every step keeps the counter of requests in flight.
LEMMA NextCounted ==
  ASSUME IInv, Counted, [Next]_vars
  PROVE  Counted'
  <1>1. IsFiniteSet(Active)
    BY RequestsAssumption, FS_Subset DEF Active
  <1>2. CASE UNCHANGED <<Active, inFlight>>
    BY <1>2 DEF Counted
  <1>3. ASSUME NEW r \in Requests, r \notin Active, Active' = Active \cup {r},
               inFlight' = inFlight + 1
        PROVE  Counted'
    BY <1>1, <1>3, FS_AddElement DEF Counted
  <1>4. ASSUME NEW r \in Requests, r \in Active, Active' = Active \ {r},
               inFlight' = inFlight - 1
        PROVE  Counted'
    BY <1>1, <1>4, FS_RemoveElement DEF Counted
  <1> QED
    BY <1>2, <1>3, <1>4, NextSteps

\* The invariant holds of every reachable state, and _in_flight counts the
\* requests between entering and leaving _core_handler.
THEOREM Invariance == Spec => [](IInv /\ Counted)
  <1>1. Init => IInv /\ Counted
    BY InitIInv
  <1>2. IInv /\ Counted /\ [Next]_vars => (IInv /\ Counted)'
    BY NextSteps, NextCounted
  <1> QED
    BY <1>1, <1>2, PTL DEF Spec

\* Every reachable frame is well formed: TypeOK always holds.
THEOREM TypeCorrect == Spec => []TypeOK
  <1>1. IInv /\ Counted => TypeOK
    <2> SUFFICES ASSUME IInv, Counted PROVE TypeOK
      OBVIOUS
    <2>1. inFlight \in Nat
      BY RequestsAssumption, FS_Subset, FS_CardinalityType DEF Counted, Active
    <2>2. ASSUME NEW r \in Requests
          PROVE  /\ DOMAIN Plan(req[r].route) = 1..Size(req[r])
                 /\ FrameInv(req[r])
      BY PlanFacts DEF IInv, FrameInv, Fields, Size
    <2> QED
      BY <2>1, <2>2
      DEF TypeOK, FrameInv, Fields, Stacked, Size, Working, Over
  <1> QED
    BY <1>1, Invariance, PTL

\* A generator is finalised only after every generator started later, unless
\* the stack was lost: LastStartedFirst always holds.
THEOREM GeneratorOrder == Spec => []LastStartedFirst
  <1>1. IInv => LastStartedFirst
    <2> SUFFICES ASSUME IInv, NEW r \in Requests,
                        Resolved(req[r]), req[r].escaped # "cleanup",
                        NEW d \in Gens(req[r]), NEW e \in Gens(req[r]),
                        d < e, Finalised(req[r], d)
                 PROVE  req[r].res[e] # "live"
      BY DEF LastStartedFirst
    <2> QED
      BY DEF IInv, FrameInv, Ordered
  <1> QED
    BY <1>1, Invariance, PTL

\* Whoever is sent the handler's response is sent it after every generator was
\* resumed, whether or not it raised then; and one is resumed behind such a
\* response only, which is sent unless the cleanup is cancelled, closing an
\* unsent body raises or the sending breaks off: OutcomeAgrees always holds.
THEOREM OutcomeAgreement == Spec => []OutcomeAgrees
  <1>1. IInv => OutcomeAgrees
    <2> SUFFICES ASSUME IInv, NEW r \in Requests
                 PROVE  /\ req[r].sent = "ok" => \A d \in Gens(req[r]) : Ran(req[r], d)
                        /\ (\E d \in Gens(req[r]) : Ran(req[r], d)) =>
                             /\ req[r].response = "ok"
                             /\ \/ req[r].pc \in {"cleanup", "send"}
                                \/ req[r].sent \in {"ok", "broken"}
                                \/ req[r].escaped \in {"cleanup", "head"}
      BY DEF OutcomeAgrees
    <2>1. Outcome(req[r])
      BY DEF IInv, FrameInv
    <2> QED
      BY <2>1 DEF Outcome, Ran
  <1> QED
    BY <1>1, Invariance, PTL

\* A request that is over left open only what the way it ended explains:
\* LeaksExplained always holds.
THEOREM LeaksAreExplained == Spec => []LeaksExplained
  <1>1. IInv => LeaksExplained
    <2> SUFFICES ASSUME IInv, NEW r \in Requests, req[r].pc = "done"
                 PROVE  /\ LiveScoped(req[r]) # {} =>
                             req[r].escaped \in {"try", "cleanup", "head", "teardown"}
                        /\ (\E d \in Gens(req[r]) : req[r].res[d] = "live") =>
                             req[r].escaped = "cleanup" \/ ~Resolved(req[r])
      BY DEF LeaksExplained
    <2>1. Stacked(req[r]) /\ Ordered(req[r]) /\ WayOut(req[r])
      BY DEF IInv, FrameInv
    <2> QED
      BY <2>1 DEF Stacked, Ordered, WayOut, Over
  <1> QED
    BY <1>1, Invariance, PTL

\* A scoped instance is closed only when nothing of its request can still use
\* it: ScopeOutlivesUse always holds.
THEOREM ScopeSafe == Spec => []ScopeOutlivesUse
  <1>1. IInv => ScopeOutlivesUse
    <2> SUFFICES ASSUME IInv, NEW r \in Requests
                 PROVE  /\ req[r].tasks = "ran" => req[r].sent \in {"ok", "error"}
                        /\ (\E d \in DOMAIN req[r].res :
                               Plan(req[r].route)[d] = "scoped" /\ req[r].res[d] = "closed")
                           => /\ req[r].stack = {}
                              /\ ~req[r].thread
                              /\ HasTasks(req[r]) =>
                                    req[r].tasks = "ran" \/ req[r].sent = "broken"
      BY DEF ScopeOutlivesUse
    <2>1. Stacked(req[r]) /\ WayOut(req[r])
      BY DEF IInv, FrameInv
    <2> QED
      BY <2>1 DEF Stacked, WayOut, Scoped, Over
  <1> QED
    BY <1>1, Invariance, PTL

\* The safety part of ImplementsInFlight: _in_flight behaves as InFlight
\* specifies (its fairness is left to the model checker).
THEOREM CountsInFlight == Spec => Counter!Spec
  <1>1. Init => Counter!Init
    <2> SUFFICES ASSUME Init PROVE Counter!Init
      OBVIOUS
    <2>1. \A r \in Requests : req[r].pc = "idle"
      BY DEF Init, Frame
    <2> QED
      BY <2>1 DEF Init, Counter!Init, Active
  <1>2. IInv /\ [Next]_vars => [Counter!Next]_(<<Active, inFlight>>)
    BY NextSteps DEF Counter!Next, Counter!Enter, Counter!Leave
  <1> QED
    BY <1>1, <1>2, Invariance, PTL DEF Spec, Counter!Spec

=============================================================================
