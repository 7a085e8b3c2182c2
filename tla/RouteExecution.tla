--------------------------- MODULE RouteExecution ---------------------------
(***************************************************************************)
(* One HTTP request inside app.py: _core_handler, _core_handler_inner,     *)
(* _execute_route (and _execute_trivial_route, which is the same flow for  *)
(* a route without dependencies), with what they call to resolve and to    *)
(* finalise dependencies: resolve_from_plan and _execute_dep_plan, the DI  *)
(* Scope, BackgroundTasks, _handle_exception.                              *)
(*                                                                         *)
(* Every await is a point where another request may run and, when          *)
(* "cancel" is among the Faults, where CancelledError may be thrown; it is *)
(* a BaseException, so none of the handlers below catches it.              *)
(***************************************************************************)
EXTENDS Integers, Sequences, FiniteSets, FiniteSetsExt

CONSTANTS
    Requests,   \* request slots; a slot that is done may serve again
    Routes,     \* registered routes, records of the shape in RouteShape
    Faults      \* which rare failures may happen, see FaultKinds

\* params: the handler's dependencies in the order they are started (one
\* that another depends on first); deps: route.dependencies; guarded:
\* permissions are set; threaded: a sync handler, run by asyncio.to_thread;
\* background: the handler takes a BackgroundTasks parameter.
Kinds == {"gen", "scoped", "plain"}
RouteShape == [params : Seq(Kinds), deps : Seq(Kinds), guarded : BOOLEAN,
               threaded : BOOLEAN, background : BOOLEAN]

\* cancel: the request's task is cancelled; plugin: Plugin.on_exception
\* raises; head: closing an unsent streaming body raises.
FaultKinds == {"cancel", "plugin", "head"}

ASSUME RequestsAssumption == IsFiniteSet(Requests)
ASSUME RoutesAssumption == \A rt \in Routes : rt \in RouteShape
ASSUME FaultsAssumption == Faults \subseteq FaultKinds

VARIABLES
    req,        \* the frame of each request, see TypeOK
    inFlight    \* HawkAPI._in_flight

vars == <<req, inFlight>>

Plan(rt) == rt.params \o rt.deps

NoRoute == [params |-> <<>>, deps |-> <<>>, guarded |-> FALSE,
            threaded |-> FALSE, background |-> FALSE]

Frame(rt, pc, response) ==
    [pc |-> pc, route |-> rt,
     next |-> 1,                \* dependency to be resolved next
     res |-> [d \in DOMAIN Plan(rt) |-> "none"],
     stack |-> {},              \* cleanup_stack: generators by start order
     succeeded |-> FALSE,       \* handler_succeeded
     response |-> response,     \* the response object
     sent |-> "none",           \* what the client was sent
     tasks |-> "no",            \* has background_tasks.run() begun
     escaped |-> "no",          \* where an exception began to escape from
     thread |-> FALSE]          \* the worker thread outlived the request

Init ==
    /\ req = [r \in Requests |-> Frame(NoRoute, "idle", "none")]
    /\ inFlight = 0

Become(r, q) == req' = [req EXCEPT ![r] = q] /\ UNCHANGED inFlight

Cancellable == "cancel" \in Faults

-----------------------------------------------------------------------------
(* _core_handler                                                           *)

AfterPermission(rt) == IF Plan(rt) = <<>> THEN "handler" ELSE "resolve"
FirstStep(rt) == IF rt.guarded THEN "permission" ELSE AfterPermission(rt)

\* Mutant of CountOut: the decrement is not in a finally block.
CountOutOnReturn(escaped, n) == IF escaped = "no" THEN n - 1 ELSE n

CountOut(escaped, n) == n - 1

\* A slot starts over with a request that a route serves ...
Enter(r) ==
    /\ req[r].pc \in {"idle", "done"} /\ ~req[r].thread
    /\ \E rt \in Routes :
          req' = [req EXCEPT ![r] = Frame(rt, FirstStep(rt), "none")]
    /\ inFlight' = inFlight + 1

\* ... or that needs none: a static response, 404, 405.
EnterDirect(r) ==
    /\ req[r].pc \in {"idle", "done"} /\ ~req[r].thread
    /\ \E response \in {"ok", "error"} :
          req' = [req EXCEPT ![r] = Frame(NoRoute, "send", response)]
    /\ inFlight' = inFlight + 1

Leave(r) ==
    /\ req[r].pc = "leave"
    /\ req' = [req EXCEPT ![r].pc = "done"]
    /\ inFlight' = CountOut(req[r].escaped, inFlight)

-----------------------------------------------------------------------------
(* The try block of _execute_route                                         *)

\* An Exception leaves an await of the block: one with a response of its own
\* (HTTPException, validation error, TimeoutError ...) or any other.
Fail(r, q) ==
    \/ Become(r, [q EXCEPT !.pc = "cleanup", !.response = "error"])
    \/ Become(r, [q EXCEPT !.pc = "except"])

Cancel(r, q) ==
    Cancellable /\ Become(r, [q EXCEPT !.pc = "cleanup", !.escaped = "try"])

CheckPermission(r) ==
    LET q == req[r] IN
    /\ q.pc = "permission"
    /\ \/ Become(r, [q EXCEPT !.pc = AfterPermission(q.route)])
       \/ Fail(r, q)
       \/ Cancel(r, q)

GensUpTo(rt, n) == {d \in 1..n : Plan(rt)[d] = "gen"}

\* Mutant of Tracked: side-effect generators are not put on the stack.
TrackedParams(rt, n) == {d \in GensUpTo(rt, n) : d <= Len(rt.params)}

\* The generators _execute_route knows of once n dependencies are resolved:
\* resolve_from_plan keeps its own list and hands it over when it returns,
\* route.dependencies append to the list of _execute_route.
Tracked(rt, n) == IF n < Len(rt.params) THEN {} ELSE GensUpTo(rt, n)

ResolveNext(r) ==
    LET q == req[r]
        d == q.next
        kind == Plan(q.route)[d]
    IN  /\ q.pc = "resolve"
        /\ \/ Become(r, [q EXCEPT
                 !.res[d] = IF kind = "plain" THEN "none" ELSE "live",
                 !.stack = Tracked(q.route, d),
                 !.next = d + 1,
                 !.pc = IF d = Len(Plan(q.route)) THEN "handler" ELSE "resolve"])
           \/ Fail(r, q)
           \/ Cancel(r, q)

\* Mutant of Succeed: the flag is set before the response is
\* built, whose failure then still counts as success.
SucceedEarly(r, q) ==
    \/ Become(r, [q EXCEPT !.pc = "cleanup", !.response = "ok", !.succeeded = TRUE])
    \/ Become(r, [q EXCEPT !.pc = "except", !.succeeded = TRUE])

Succeed(r, q) ==
    Become(r, [q EXCEPT !.pc = "cleanup", !.response = "ok", !.succeeded = TRUE])

\* A cancelled to_thread returns at once; its thread runs on.
RunHandler(r) ==
    LET q == req[r] IN
    /\ q.pc = "handler"
    /\ \/ Succeed(r, q)
       \/ Fail(r, q)
       \/ Cancel(r, [q EXCEPT !.thread = q.route.threaded])

ThreadEnds(r) == req[r].thread /\ Become(r, [req[r] EXCEPT !.thread = FALSE])

\* _handle_exception: a custom handler's own exception becomes the 500
\* response, a plugin's escapes.
HandleException(r) ==
    LET q == req[r] IN
    /\ q.pc = "except"
    /\ \/ Become(r, [q EXCEPT !.pc = "cleanup", !.response = "error"])
       \/ /\ Cancellable \/ "plugin" \in Faults
          /\ Become(r, [q EXCEPT !.pc = "cleanup", !.escaped = "try"])

-----------------------------------------------------------------------------
(* Its finally block: generator dependencies, last started first           *)

\* Mutant of FirstToFinalise: the stack is walked in start order.
OldestFirst(stack) == Min(stack)
FirstToFinalise(stack) == Max(stack)

\* After a success a generator is resumed behind its yield, to its end or
\* until it raises, which is logged and changes nothing; otherwise it is closed.
Finals(q) == IF q.succeeded THEN {"resumed", "raised"} ELSE {"closed"}

\* The await of it is cancelled.
CutOff(q) == IF q.succeeded THEN "raised" ELSE "closed"

FinaliseNext(r) ==
    LET q == req[r]
        d == FirstToFinalise(q.stack)
    IN  /\ q.pc = "cleanup" /\ q.stack # {}
        /\ \/ \E final \in Finals(q) :
                 Become(r, [q EXCEPT !.stack = @ \ {d}, !.res[d] = final])
           \/ /\ Cancellable
              /\ Become(r, [q EXCEPT !.stack = {}, !.res[d] = CutOff(q),
                                     !.pc = "leave", !.escaped = "cleanup"])

FinalisedAll(r) ==
    LET q == req[r] IN
    /\ q.pc = "cleanup" /\ q.stack = {}
    /\ \/ Become(r, [q EXCEPT !.pc = IF q.escaped = "no" THEN "send" ELSE "leave"])
       \/ /\ "head" \in Faults /\ q.escaped = "no" /\ q.response = "ok"
          /\ Become(r, [q EXCEPT !.pc = "leave", !.escaped = "head"])

\* Generators nobody refers to any more are closed by the interpreter's
\* asyncgen finalizer: each in a task of its own, when the collector gets
\* to it.
RuntimeFinalises(r) ==
    LET q == req[r] IN
    /\ q.pc \in {"cleanup", "send", "background", "teardown", "leave", "done"}
    /\ \E d \in GensUpTo(q.route, Len(Plan(q.route))) \ q.stack :
          /\ q.res[d] = "live"
          /\ Become(r, [q EXCEPT !.res[d] = "closed"])

-----------------------------------------------------------------------------
(* The response, the background tasks and the DI scope                     *)

\* background_tasks is bound as soon as resolve_from_plan has returned, so
\* tasks queued before the handler failed run too.
HasTasks(q) == q.route.background /\ q.next > Len(q.route.params)

\* Mutant of AfterSend: the tasks are not awaited before the scope closes.
AfterSendTeardown(q) == "teardown"

AfterSend(q) == IF HasTasks(q) THEN "background" ELSE "teardown"

SendResponse(r) ==
    LET q == req[r] IN
    /\ q.pc = "send"
    /\ \/ Become(r, [q EXCEPT !.sent = q.response, !.pc = AfterSend(q)])
       \/ Become(r, [q EXCEPT !.sent = "broken", !.escaped = "send",
                 !.pc = "teardown"])

\* A task's Exception is logged.
RunBackground(r) ==
    LET q == req[r] IN
    /\ q.pc = "background"
    /\ \/ Become(r, [q EXCEPT !.tasks = "ran", !.pc = "teardown"])
       \/ /\ Cancellable
          /\ Become(r, [q EXCEPT !.tasks = "ran", !.pc = "teardown",
                                 !.escaped = "background"])

LiveScoped(q) == {d \in DOMAIN q.res :
                     Plan(q.route)[d] = "scoped" /\ q.res[d] = "live"}

\* Scope.close: instances in reverse order; an instance's Exception is kept
\* for the log and the loop goes on.
CloseNext(r) ==
    LET q == req[r]
        d == Max(LiveScoped(q))
    IN  /\ q.pc = "teardown" /\ LiveScoped(q) # {}
        /\ \/ Become(r, [q EXCEPT !.res[d] = "closed"])
           \/ /\ Cancellable
              /\ Become(r, [q EXCEPT !.res[d] = "closed", !.pc = "leave",
                                     !.escaped = "teardown"])

ClosedAll(r) ==
    LET q == req[r] IN
    /\ q.pc = "teardown" /\ LiveScoped(q) = {}
    /\ Become(r, [q EXCEPT !.pc = "leave"])

-----------------------------------------------------------------------------
Step(r) ==
    \/ CheckPermission(r) \/ ResolveNext(r) \/ RunHandler(r)
    \/ HandleException(r) \/ FinaliseNext(r) \/ FinalisedAll(r)
    \/ SendResponse(r) \/ RunBackground(r) \/ CloseNext(r) \/ ClosedAll(r)
    \/ Leave(r)

Next == \E r \in Requests :
    Enter(r) \/ EnterDirect(r) \/ Step(r) \/ ThreadEnds(r) \/ RuntimeFinalises(r)

Spec == Init /\ [][Next]_vars

\* The event loop resumes every task whose await is over; dependencies,
\* handlers and tasks of the application are taken to end.
FairSpec == Spec /\ \A r \in Requests : WF_vars(Step(r))
-----------------------------------------------------------------------------
Gens(q) == GensUpTo(q.route, Len(Plan(q.route)))
Resolved(q) == q.next > Len(q.route.params)
Ran(q, d) == q.res[d] \in {"resumed", "raised"}    \* the code behind its yield
Finalised(q, d) == Ran(q, d) \/ q.res[d] = "closed"

\* Every field of every frame stays in its range.
TypeOK ==
    /\ inFlight \in Nat
    /\ \A r \in Requests :
          /\ req[r].pc \in {"idle", "permission", "resolve", "handler", "except",
                            "cleanup", "send", "background", "teardown",
                            "leave", "done"}
          /\ req[r].route \in Routes \cup {NoRoute}
          /\ req[r].next \in 1..Len(Plan(req[r].route)) + 1
          /\ \A d \in DOMAIN Plan(req[r].route) :
                req[r].res[d] \in {"none", "live", "resumed", "raised", "closed"}
          /\ req[r].stack \subseteq {d \in Gens(req[r]) : req[r].res[d] = "live"}
          /\ req[r].response \in {"none", "ok", "error"}
          /\ req[r].sent \in {"none", "ok", "error", "broken"}

\* A generator dependency is finalised only when every generator started
\* after it (which may be built on it) already is, unless the framework lost
\* the stack: resolution failed half way, or the cleanup was cancelled.
LastStartedFirst ==
    \A r \in Requests : LET q == req[r] IN
        Resolved(q) /\ q.escaped # "cleanup" =>
            \A d, e \in Gens(q) :
                d < e /\ Finalised(q, d) => q.res[e] # "live"

\* Client and generators agree on the outcome as far as the code makes them.
\* Whoever is sent the handler's response is sent it after the code behind
\* every yield ran (where a session commits), not before, as
\* docs/guide/dependency-injection.md:43 has it.  And that code runs behind
\* the handler's response only, never behind an error: it is sent, unless the
\* cleanup is cancelled, closing the body for a HEAD request raises, or the
\* sending breaks off, when it ran for a client who is told nothing or half.
\* Agreement ends where that code raises: the exception is logged
\* (app.py:796), and a success is told over a commit that failed.
OutcomeAgrees ==
    \A r \in Requests : LET q == req[r] IN
        /\ q.sent = "ok" => \A d \in Gens(q) : Ran(q, d)
        /\ (\E d \in Gens(q) : Ran(q, d)) =>
              /\ q.response = "ok"
              /\ \/ q.pc \in {"cleanup", "send"} \/ q.sent \in {"ok", "broken"}
                 \/ q.escaped \in {"cleanup", "head"}

\* What a request leaves open behind it is explained by where an exception
\* escaped: before the response a scope is never closed, during its teardown
\* the rest of it is not; generators are lost only to a cancelled cleanup or
\* to a resolution that did not finish.
LeaksExplained ==
    \A r \in Requests : LET q == req[r] IN
        q.pc = "done" =>
            /\ LiveScoped(q) # {} =>
                  q.escaped \in {"try", "cleanup", "head", "teardown"}
            /\ (\E d \in Gens(q) : q.res[d] = "live") =>
                  q.escaped = "cleanup" \/ ~Resolved(q)

\* A scoped instance is closed only when nothing of its request can use it:
\* no generator awaits its cleanup, no thread runs the handler, and the
\* background tasks are over, which run only once a response was sent.
ScopeOutlivesUse ==
    \A r \in Requests : LET q == req[r] IN
        /\ q.tasks = "ran" => q.sent \in {"ok", "error"}
        /\ (\E d \in DOMAIN q.res :
               Plan(q.route)[d] = "scoped" /\ q.res[d] = "closed")
           => /\ q.stack = {}
              /\ ~q.thread
              /\ HasTasks(q) => q.tasks = "ran" \/ q.sent = "broken"

\* _in_flight counts the requests between entering and leaving, and each of
\* them leaves whatever happens to it: the module implements InFlight.
Active == {r \in Requests : req[r].pc \notin {"idle", "done"}}
Counter == INSTANCE InFlight WITH active <- Active
ImplementsInFlight == Counter!FairSpec
=============================================================================
