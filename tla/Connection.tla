----------------------------- MODULE Connection -----------------------------
(***************************************************************************)
(* HawkAPI.__call__: a connection is an HTTP request, which goes through   *)
(* the middleware pipeline, or a WebSocket, which goes straight to         *)
(* _handle_websocket. The third type of scope, lifespan, is AppLifecycle.  *)
(***************************************************************************)
EXTENDS HttpExchange, WebSocketConnection

VARIABLE scopeType \* scope["type"]

connectionVars == <<scopeType, vars, wsVars>>

\* The half that this connection is not.
NoExchange ==
  /\ pipe = <<>> /\ req = CHOOSE r \in Requests : TRUE
  /\ phase = "done" /\ depth = 0 /\ mw = <<>>
  /\ view = [client |-> req.peer, scheme |-> req.scheme, host |-> req.host]
  /\ core = NotBegun
  /\ client = [left |-> 0, gone |-> FALSE]
  /\ reader = [got |-> 0, replay |-> <<>>, seen |-> <<>>, taken |-> FALSE]
  /\ file = {} /\ exc = "none" /\ sent = <<NoAnswer>>

NoWebSocket ==
  /\ route = [handler |-> FALSE, guarded |-> FALSE, needsScope |-> FALSE]
  /\ wsPc = "done" /\ wsState = "connecting"
  /\ calls = [t \in Tasks |-> "none"]
  /\ scope = "none" /\ holder = FALSE
  /\ told = NothingTold /\ peerLeft = TRUE /\ ended = "no" /\ torn = FALSE

ConnectionInit ==
  \/ scopeType = "http" /\ Init /\ NoWebSocket
  \/ scopeType = "websocket" /\ NoExchange /\ WsInit

ConnectionNext ==
  /\ UNCHANGED scopeType
  /\ \/ scopeType = "http" /\ Next /\ UNCHANGED wsVars
     \/ scopeType = "websocket" /\ WsNext /\ UNCHANGED vars

ConnectionSpec == ConnectionInit /\ [][ConnectionNext]_connectionVars

=============================================================================
