---------------------------- MODULE AppLifecycle ----------------------------
(***************************************************************************)
(* The life of a HawkAPI application in one server process: registration   *)
(* of plugins, gRPC mounts and hooks, and lifespan/manager.py running the  *)
(* HookRegistry of lifespan/hooks.py and the lifespan context manager,     *)
(* while requests are counted by _core_handler (module InFlight).          *)
(*                                                                         *)
(* The ASGI server is external: it accepts requests only between           *)
(* lifespan.startup.complete and lifespan.shutdown, and requests may still *)
(* be running when it sends the latter.                                    *)
(***************************************************************************)
EXTENDS Naturals, Sequences, FiniteSets, SequencesExt

CONSTANTS
    Requests,
    Plugins,        \* plugins that may be added
    Mounts,         \* gRPC mounts (ports) that may be mounted
    UserHooks,      \* things the application may open and close by hooks
    HasContext      \* was a lifespan context manager given

ASSUME RequestsAssumption == IsFiniteSet(Requests)
ASSUME ContextAssumption == HasContext \in BOOLEAN
\* A thing is one of these and no other.
ASSUME NamesAssumption ==
    /\ Plugins \cap Mounts = {} /\ (Plugins \cup Mounts) \cap UserHooks = {}
    /\ (Plugins \cup Mounts \cup UserHooks) \cap {"plugins", "grpc", "drain", "context"} = {}

VARIABLES
    phase,          \* where LifespanManager.handle is
    plugins,        \* HawkAPI._plugins
    mounts,         \* HawkAPI._grpc_mounts
    startup_hooks,  \* HookRegistry._startup_hooks, by name
    shutdown_hooks, \* HookRegistry._shutdown_hooks, by name
    agenda,         \* the hooks still to run, and what each has left to do
    opened,         \* what startup has opened, in order
    closed,         \* what shutdown has closed
    broken,         \* what raised when shutdown came to close it
    timedOut,       \* _wait_for_in_flight gave up
    active,         \* requests inside _core_handler
    inFlight        \* HawkAPI._in_flight

registry == <<plugins, mounts, startup_hooks, shutdown_hooks>>
counter == <<active, inFlight>>
vars == <<phase, registry, agenda, opened, closed, broken, timedOut, counter>>

Counter == INSTANCE InFlight

\* HawkAPI.__init__ registers the drain and the plugins' hooks first.
Init ==
    /\ phase = "building"
    /\ plugins = <<>> /\ mounts = <<>>
    /\ startup_hooks = <<"plugins">>
    /\ shutdown_hooks = <<"drain", "plugins">>
    /\ agenda = <<>> /\ opened = <<>> /\ closed = {} /\ broken = {}
    /\ timedOut = FALSE
    /\ Counter!Init

-----------------------------------------------------------------------------
(* Registration                                                            *)

Register(startup, shutdown) ==
    /\ phase = "building"
    /\ startup_hooks' = startup_hooks \o startup
    /\ shutdown_hooks' = shutdown_hooks \o shutdown
    /\ UNCHANGED <<phase, agenda, opened, closed, broken, timedOut, counter>>

AddPlugin(p) ==
    /\ p \notin Range(plugins)
    /\ plugins' = Append(plugins, p)
    /\ Register(<<>>, <<>>)
    /\ UNCHANGED mounts

\* The first mount installs the hooks of all.
MountGrpc(m) ==
    /\ m \notin Range(mounts)
    /\ mounts' = Append(mounts, m)
    /\ LET hook == IF mounts = <<>> THEN <<"grpc">> ELSE <<>>
       IN Register(hook, hook)
    /\ UNCHANGED plugins

OnStartup(h) ==
    /\ h \notin Range(startup_hooks)
    /\ Register(<<h>>, <<>>)
    /\ UNCHANGED <<plugins, mounts>>

OnShutdown(h) ==
    /\ h \notin Range(shutdown_hooks)
    /\ Register(<<>>, <<h>>)
    /\ UNCHANGED <<plugins, mounts>>

-----------------------------------------------------------------------------
(* What the hooks do: the framework's own go through a list                *)

Things(h) == CASE h = "plugins" -> plugins
               [] h = "grpc"    -> mounts
               [] OTHER         -> <<h>>

Calls(hooks) == [i \in DOMAIN hooks |-> [hook |-> hooks[i], left |-> Things(hooks[i])]]

ContextCall == IF HasContext THEN <<[hook |-> "context", left |-> <<"context">>]>> ELSE <<>>

\* The hook that runs goes on to its next plugin or mount.
GoOn == agenda' = [agenda EXCEPT ![1].left = Tail(@)]

Unchanged == UNCHANGED <<registry, counter>>

-----------------------------------------------------------------------------
(* lifespan.startup: run_startup, then the context manager                 *)

Startup ==
    /\ phase = "building"
    /\ phase' = "starting"
    /\ agenda' = Calls(startup_hooks) \o ContextCall
    /\ UNCHANGED <<opened, closed, broken, timedOut>> /\ Unchanged

\* One plugin, mount, hook or the context starts; or it raises, startup.failed
\* is sent and handle returns.
StartNext ==
    /\ phase = "starting" /\ agenda # <<>> /\ agenda[1].left # <<>>
    /\ \/ /\ opened' = Append(opened, Head(agenda[1].left))
          /\ GoOn
          /\ UNCHANGED phase
       \/ /\ phase' = "failed"
          /\ agenda' = <<>>
          /\ UNCHANGED opened
    /\ UNCHANGED <<closed, broken, timedOut>> /\ Unchanged

StartupComplete ==
    /\ phase = "starting" /\ agenda = <<>>
    /\ phase' = "serving"
    /\ UNCHANGED <<agenda, opened, closed, broken, timedOut>> /\ Unchanged

EnterRequest(r) ==
    /\ phase = "serving"
    /\ Counter!Enter(r)
    /\ UNCHANGED <<phase, registry, agenda, opened, closed, broken, timedOut>>

LeaveRequest(r) ==
    /\ Counter!Leave(r)
    /\ UNCHANGED <<phase, registry, agenda, opened, closed, broken, timedOut>>

-----------------------------------------------------------------------------
(* lifespan.shutdown: the context manager, then run_shutdown               *)

\* Mutant of StopOrder: the hooks run in registration order.
StopOrderForward(hooks) == hooks

StopOrder(hooks) == Reverse(hooks)

Shutdown ==
    /\ phase = "serving"
    /\ phase' = "stopping"
    /\ agenda' = ContextCall \o Calls(StopOrder(shutdown_hooks))
    /\ UNCHANGED <<opened, closed, broken, timedOut>> /\ Unchanged

\* Mutant of AfterFailure: the exception ends run_shutdown.
AfterFailureNothing == <<>>

\* A hook that raises is over, the rest of its plugins or mounts included;
\* the next hook runs.
AfterFailure == Tail(agenda)

StopNext ==
    /\ phase = "stopping" /\ agenda # <<>> /\ agenda[1].left # <<>>
    /\ agenda[1].hook # "drain"
    /\ \/ /\ closed' = closed \cup {Head(agenda[1].left)}
          /\ GoOn
          /\ UNCHANGED broken
       \/ /\ broken' = broken \cup {Head(agenda[1].left)}
          /\ agenda' = AfterFailure
          /\ UNCHANGED closed
    /\ UNCHANGED <<phase, opened, timedOut>> /\ Unchanged

\* Mutant of GivesUp: the wait has no deadline.
GivesUpNever == FALSE

\* Ten seconds pass.
GivesUp == inFlight > 0 /\ timedOut' = TRUE

\* _wait_for_in_flight.
Drain ==
    /\ phase = "stopping" /\ agenda # <<>> /\ agenda[1].left # <<>>
    /\ agenda[1].hook = "drain"
    /\ \/ inFlight <= 0 /\ UNCHANGED timedOut
       \/ GivesUp
    /\ GoOn
    /\ UNCHANGED <<phase, opened, closed, broken>> /\ Unchanged

\* A hook returns, and the loop over the hooks goes on.
HookReturns ==
    /\ phase \in {"starting", "stopping"} /\ agenda # <<>> /\ agenda[1].left = <<>>
    /\ agenda' = Tail(agenda)
    /\ UNCHANGED <<phase, opened, closed, broken, timedOut>> /\ Unchanged

ShutdownComplete ==
    /\ phase = "stopping" /\ agenda = <<>>
    /\ phase' = "stopped"
    /\ UNCHANGED <<agenda, opened, closed, broken, timedOut>> /\ Unchanged

-----------------------------------------------------------------------------
Handle ==
    \/ StartNext \/ StartupComplete \/ HookReturns
    \/ StopNext \/ Drain \/ ShutdownComplete

Next ==
    \/ \E p \in Plugins : AddPlugin(p)
    \/ \E m \in Mounts : MountGrpc(m)
    \/ \E h \in UserHooks : OnStartup(h) \/ OnShutdown(h)
    \/ Startup \/ Shutdown \/ Handle
    \/ \E r \in Requests : EnterRequest(r) \/ LeaveRequest(r)

Spec == Init /\ [][Next]_vars

\* The lifespan task runs and hooks end; nothing is assumed of requests.
FairSpec == Spec /\ WF_vars(Handle)

-----------------------------------------------------------------------------
HookOf(x) == CASE x \in Plugins -> "plugins"
               [] x \in Mounts  -> "grpc"
               [] OTHER         -> x

Before(hooks, g, h) ==
    \E i, j \in DOMAIN hooks : i < j /\ hooks[i] = g /\ hooks[j] = h

\* Opened in this order, to be closed in the other: y is the context, or the
\* shutdown hooks were registered in the order the startup hooks were.
Stacked(x, y) ==
    \/ y = "context"
    \/ Before(shutdown_hooks, HookOf(x), HookOf(y))

\* Two plugins, or two gRPC mounts: one hook opens them, one closes them.
OfOneHook(x, y) == HookOf(x) = HookOf(y)

\* Registered in this order with the hook that opens and closes both.
Precedes(x, y) == OfOneHook(x, y) /\ Before(Things(HookOf(x)), x, y)

Pending(x) == \E k \in DOMAIN agenda : x \in Range(agenda[k].left)

\* Whatever raises: what one hook opened on top of what another opened is
\* closed, or has failed to close, before what it may be built on, however
\* registration interleaved hooks, gRPC servers, plugins and the context
\* manager.  But plugins among themselves, and gRPC servers among themselves,
\* are closed in the SAME order as they were opened: the one opened first
\* goes first, from under those opened on top of it, although
\* lifespan/manager.py:82 calls shutdown the reverse.
ClosesInOrder ==
    [][phase = "stopping" =>
         \A x, y \in Range(opened) :
            Before(opened, x, y) =>
              /\ Stacked(x, y) /\ x \in closed' \ closed => ~Pending(y)'
              /\ OfOneHook(x, y) /\ y \in closed' \ closed => ~Pending(x)']_vars

\* No shutdown hook closes x, or closing it raised, or closing what the same
\* hook closes before it did.
LeftOpenExplained ==
    \A x \in Range(opened) \ closed :
        \/ x # "context" /\ HookOf(x) \notin Range(shutdown_hooks)
        \/ \E y \in broken : y = x \/ Precedes(y, x)

\* A hook that raises keeps no other from running, a plugin or a mount that
\* raises keeps those registered after it open and no other: what is open
\* after shutdown has no shutdown hook, or it raised, or one before it in the
\* same list did; and requests are in flight then only if the wait for them
\* gave up.
StopsClean ==
    phase = "stopped" => LeftOpenExplained /\ (inFlight = 0 \/ timedOut)

\* Shutdown ends although hooks raise and requests never leave.
ShutdownEnds == (phase = "stopping") ~> (phase = "stopped")
=============================================================================
