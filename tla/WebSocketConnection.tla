------------------------ MODULE WebSocketConnection ------------------------
(***************************************************************************)
(* One WebSocket connection: HawkAPI._handle_websocket, which runs the     *)
(* handler, and the WebSocket object that the handler and the tasks it     *)
(* starts use. Its methods look at _state before they await the server and *)
(* change it after: in between the other tasks run.                        *)
(***************************************************************************)
EXTENDS Naturals, FiniteSets

CONSTANTS Tasks, \* the tasks that use the connection
          Main   \* the one that runs the handler

ASSUME TaskAssumption == Main \in Tasks

VARIABLES route,    \* what is registered for the path
          wsPc,     \* where _handle_websocket is
          wsState,  \* WebSocket._state
          calls,    \* the method of the connection each task awaits
          scope,    \* the DI scope of the connection
          holder,   \* whether _handle_websocket knows that scope
          told,     \* what the server was sent
          peerLeft, \* the client has disconnected
          ended,    \* how the handler ended
          torn      \* history: accept or close was overtaken, or accept cut off

wsVars == <<route, wsPc, wsState, calls, scope, holder, told, peerLeft, ended, torn>>

Routes == [handler : BOOLEAN, guarded : BOOLEAN, needsScope : BOOLEAN]
Methods == {"accept", "send", "close", "receive"}

NothingTold == [accepts |-> 0, closes |-> 0, disorder |-> FALSE]

WsTypeOK ==
  /\ route \in Routes
  /\ wsPc \in {"connect", "check", "resolve", "handler", "close", "teardown", "done"}
  /\ wsState \in {"connecting", "connected", "disconnected"}
  /\ calls \in [Tasks -> Methods \cup {"none"}]
  /\ scope \in {"none", "open", "closed", "cut"}
  /\ holder \in BOOLEAN
  /\ told \in [accepts : {0, 1}, closes : {0, 1}, disorder : BOOLEAN]
  /\ peerLeft \in BOOLEAN
  /\ ended \in {"no", "returned", "raised", "cancelled", "unresolved", "abandoned"}
  /\ torn \in BOOLEAN

WsInit ==
  /\ route \in Routes
  /\ wsPc = "connect"
  /\ wsState = "connecting"
  /\ calls = [t \in Tasks |-> "none"]
  /\ scope = "none" /\ holder = FALSE
  /\ told = NothingTold
  /\ peerLeft = FALSE
  /\ ended = "no"
  /\ torn = FALSE

-----------------------------------------------------------------------------
(* The server. external: websocket.accept once and first, then             *)
(* websocket.send, then websocket.close once; close alone rejects.          *)

Legal(message) ==
  /\ told.closes = 0
  /\ message = "accept" => told.accepts = 0
  /\ message = "send" => told.accepts = 1

Tell(message) ==
  told' = IF peerLeft THEN told
          ELSE IF ~Legal(message) THEN [told EXCEPT !.disorder = TRUE]
          ELSE IF message = "accept" THEN [told EXCEPT !.accepts = 1]
          ELSE IF message = "close" THEN [told EXCEPT !.closes = 1]
          ELSE told

\* external: the client goes away; nothing can be told any more.
PeerLeaves ==
  /\ ~peerLeft
  /\ peerLeft' = TRUE
  /\ UNCHANGED <<route, wsPc, wsState, calls, scope, holder, told, ended, torn>>

-----------------------------------------------------------------------------
(* HawkAPI._handle_websocket up to the handler                              *)

\* The first message: websocket.connect, or something else.
Connect ==
  /\ wsPc = "connect"
  /\ \/ /\ ~route.handler /\ Tell("close") /\ wsPc' = "done"
     \/ /\ route.handler /\ wsPc' = (IF route.guarded THEN "check" ELSE "resolve")
        /\ UNCHANGED told
     \/ /\ peerLeft /\ wsPc' = "done" /\ UNCHANGED told
  /\ UNCHANGED <<route, wsState, calls, scope, holder, peerLeft, ended, torn>>

\* PermissionPolicy.check: an HTTPException refuses; any other exception
\* escapes, and the server closes.
CheckPermission ==
  /\ wsPc = "check"
  /\ \/ wsPc' = "resolve" /\ UNCHANGED told
     \/ wsPc' = "done" /\ Tell("close")
     \/ wsPc' = "done" /\ UNCHANGED told
  /\ UNCHANGED <<route, wsState, calls, scope, holder, peerLeft, ended, torn>>

\* _resolve_ws_dependencies enters the scope and resolves in it; its caller
\* learns of the scope when it returns.
OpenScope ==
  /\ wsPc = "resolve" /\ route.needsScope /\ scope = "none"
  /\ scope' = "open"
  /\ UNCHANGED <<route, wsPc, wsState, calls, holder, told, peerLeft, ended, torn>>

Resolved ==
  /\ wsPc = "resolve" /\ (route.needsScope => scope = "open")
  /\ wsPc' = "handler"
  /\ holder' = route.needsScope
  /\ UNCHANGED <<route, wsState, calls, scope, told, peerLeft, ended, torn>>

ResolveRaises ==
  /\ wsPc = "resolve" /\ scope = "open"
  /\ \/ wsPc' = "close" /\ ended' = "unresolved"
     \/ wsPc' = "teardown" /\ ended' = "abandoned"
  /\ UNCHANGED <<route, wsState, calls, scope, holder, told, peerLeft, torn>>

-----------------------------------------------------------------------------
(* The methods of WebSocket, each in two steps around its await.            *)

\* The handler's own task, while it runs; the tasks it started, also when it
\* has ended and left them behind.
HandlerRan == ended \in {"returned", "raised", "cancelled"}

MayCall(t) ==
  /\ calls[t] = "none"
  /\ wsPc = "handler" \/ (t # Main /\ HandlerRan)

\* What _state permits; in any other state the method raises at once, or, for
\* close, does nothing.
Permits(method) ==
  CASE method = "accept" -> wsState = "connecting"
    [] method = "send" -> wsState = "connected"
    [] OTHER -> wsState # "disconnected"

Begin(t, method) ==
  /\ Permits(method)
  /\ calls' = [calls EXCEPT ![t] = method]
  /\ torn' = (torn \/ \E u \in Tasks \ {t} : calls[u] \in {"accept", "close"})
  /\ IF method = "receive" THEN UNCHANGED told ELSE Tell(method)

BeginCall(t) ==
  /\ MayCall(t)
  /\ \E method \in Methods : Begin(t, method)
  /\ UNCHANGED <<route, wsPc, wsState, scope, holder, peerLeft, ended>>

\* Mutant of AfterCall: close leaves _state alone.
AfterCallNoClose(method, disconnected) ==
  CASE method = "accept" -> "connected"
    [] method = "receive" /\ disconnected -> "disconnected"
    [] OTHER -> wsState

\* How _state changes when the call of t returns: after accept and close, and
\* when what was received is websocket.disconnect.
AfterCall(method, disconnected) ==
  CASE method = "accept" -> "connected"
    [] method = "close" -> "disconnected"
    [] method = "receive" /\ disconnected -> "disconnected"
    [] OTHER -> wsState

EndCall(t) ==
  /\ calls[t] # "none" /\ (t = Main => wsPc = "handler")
  /\ \E disconnected \in {FALSE, peerLeft} :
       wsState' = AfterCall(calls[t], disconnected)
  /\ calls' = [calls EXCEPT ![t] = "none"]
  /\ UNCHANGED <<route, wsPc, scope, holder, told, peerLeft, ended, torn>>

\* The server refuses a message: accept and send raise and leave _state alone;
\* close ignores it (EndCall).
CallRaises(t) ==
  /\ calls[t] \in {"accept", "send"} /\ (t = Main => wsPc = "handler")
  /\ peerLeft \/ told.disorder
  /\ calls' = [calls EXCEPT ![t] = "none"]
  /\ UNCHANGED <<route, wsPc, wsState, scope, holder, told, peerLeft, ended, torn>>

\* Task t is cancelled in its call: close has a finally, accept has none.
CutOff(t) ==
  /\ calls' = [calls EXCEPT ![t] = "none"]
  /\ wsState' = IF calls[t] = "close" THEN "disconnected" ELSE wsState
  /\ torn' = (torn \/ calls[t] = "accept")

ChildCancelled(t) ==
  /\ t # Main /\ calls[t] # "none"
  /\ CutOff(t)
  /\ UNCHANGED <<route, wsPc, scope, holder, told, peerLeft, ended>>

-----------------------------------------------------------------------------
(* The end of _handle_websocket                                             *)

\* The handler may end between any two of its calls; an exception it does not
\* catch, WebSocketDisconnect included, makes it raise.
HandlerEnds ==
  /\ wsPc = "handler" /\ calls[Main] = "none"
  /\ \/ wsPc' = "teardown" /\ ended' = "returned"
     \/ wsPc' = "close" /\ ended' = "raised"
  /\ UNCHANGED <<route, wsState, calls, scope, holder, told, peerLeft, torn>>

HandlerCancelled ==
  /\ wsPc = "handler"
  /\ CutOff(Main)
  /\ wsPc' = "teardown" /\ ended' = "cancelled"
  /\ UNCHANGED <<route, scope, holder, told, peerLeft>>

\* ws.close(code=1011)
BeginFinalClose ==
  /\ wsPc = "close" /\ calls[Main] = "none"
  /\ IF Permits("close")
       THEN Begin(Main, "close") /\ UNCHANGED wsPc
       ELSE wsPc' = "teardown" /\ UNCHANGED <<calls, told, torn>>
  /\ UNCHANGED <<route, wsState, scope, holder, peerLeft, ended>>

\* It returns, or is cancelled: its finally does the same.
EndFinalClose ==
  /\ wsPc = "close" /\ calls[Main] = "close"
  /\ wsState' = AfterCall("close", FALSE)
  /\ calls' = [calls EXCEPT ![Main] = "none"]
  /\ wsPc' = "teardown"
  /\ UNCHANGED <<route, scope, holder, told, peerLeft, ended, torn>>

\* Mutant of Closable: an exception of the handler skips the finally block.
ClosableUnlessRaised == holder /\ ended = "returned"

\* The scope the finally block closes, if it knows of one.
Closable == holder

\* Scope.close awaits its instances one after the other and gathers what they
\* raise, Exceptions only: a cancellation in one of these awaits cuts the walk
\* off, and the instances behind it are never closed.
Teardown ==
  /\ wsPc = "teardown"
  /\ scope' \in IF Closable THEN {"closed", "cut"} ELSE {scope}
  /\ wsPc' = "done"
  /\ UNCHANGED <<route, wsState, calls, holder, told, peerLeft, ended, torn>>

WsNext ==
  \/ Connect \/ CheckPermission \/ OpenScope \/ Resolved \/ ResolveRaises
  \/ \E t \in Tasks : BeginCall(t) \/ EndCall(t) \/ CallRaises(t) \/ ChildCancelled(t)
  \/ HandlerEnds \/ HandlerCancelled \/ BeginFinalClose \/ EndFinalClose \/ Teardown
  \/ PeerLeaves

WsSpec == WsInit /\ [][WsNext]_wsVars

-----------------------------------------------------------------------------
(* Properties *)

(* The messages of one connection keep the order of ASGI, whatever the      *)
(* handler and its tasks call and however they end, as long as no task      *)
(* calls a method while another one awaits accept or close, whose effect on *)
(* _state comes after the await, and no accept is cancelled.                *)
MessagesInOrder == told.disorder => torn

FailureTold == ended \in {"raised", "unresolved"} => told.closes = 1 \/ peerLeft

ScopeReleased == scope = "open" => ended \in {"unresolved", "abandoned"}

(* A connection leaves nothing behind. A handler that raised has told its   *)
(* client: the connection is closed or the client has left, also if the     *)
(* exception came before accept or out of a dependency. And the scope it    *)
(* was served with has been closed, unless resolving in it raised or was    *)
(* cancelled, for then nobody knows of it. The walk over its instances goes *)
(* to the end whatever they raise, but not if the task is cancelled in it:  *)
(* such a scope is "cut", after any end of the handler.                     *)
NothingLeftBehind == wsPc = "done" => FailureTold /\ ScopeReleased

=============================================================================
