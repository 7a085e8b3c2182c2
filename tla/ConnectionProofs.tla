-------------------------- MODULE ConnectionProofs --------------------------
(***************************************************************************)
(* Theorems about a connection, for every pipeline of middleware, every    *)
(* set of requests, limits and tasks: first its WebSocket half, then its   *)
(* HTTP half, each with the inductive invariant it needs.                  *)
(*                                                                         *)
(* A message passes a pipeline of any length by recursive functions, so    *)
(* what is said of a pipeline is proved by induction over its positions,   *)
(* and what is said of the messages one middleware sends by induction over *)
(* them. Both are arguments over a set of numbers that has 0, and the next *)
(* of each it has (Induction below).                                       *)
(***************************************************************************)
EXTENDS Connection, FiniteSetTheorems, SequenceTheorems, WellFoundedInduction, TLAPS

-----------------------------------------------------------------------------
(* The WebSocket. Neither property is inductive. _state lags behind what   *)
(* the server was told while accept or close is awaited, so OrderInv       *)
(* relates the two only when no task awaits either, and says beside it     *)
(* what is true meanwhile; ClosedInv says that _state is not               *)
(* "disconnected", and nobody awaits a close, unless the connection really *)
(* is over; LifeInv follows _handle_websocket and its scope.               *)

Turning(t) == calls[t] \in {"accept", "close"}

Over == told.closes = 1 \/ peerLeft

\* The handler has been or may still be run.
Served == wsPc # "done" \/ ended # "no"

ClosedInv ==
  /\ wsState = "disconnected" => Over
  /\ \A t \in Tasks : calls[t] = "close" => Over

LifeInv ==
  /\ wsPc \in {"connect", "check", "resolve"} =>
       /\ ended = "no" /\ ~holder /\ ~torn
       /\ told = NothingTold /\ wsState = "connecting"
       /\ \A t \in Tasks : calls[t] = "none"
  /\ wsPc \in {"connect", "check"} => scope = "none"
  /\ wsPc = "resolve" /\ scope = "open" => route.needsScope
  /\ wsPc = "handler" => ended = "no"
  /\ wsPc = "close" => ended \in {"raised", "unresolved"}
  /\ wsPc = "teardown" => ended # "no"
  /\ wsPc \in {"teardown", "done"} => FailureTold
  /\ scope = "open" => holder \/ wsPc = "resolve" \/ ended \in {"unresolved", "abandoned"}
  /\ wsPc = "done" => ScopeReleased

OrderInv ==
  ~torn =>
    /\ ~told.disorder
    /\ \A t, u \in Tasks : Turning(t) /\ Turning(u) => t = u
    /\ Served /\ ~peerLeft =>
         /\ \A t \in Tasks : calls[t] = "accept" => told.accepts = 1 /\ told.closes = 0
         /\ (\A t \in Tasks : ~Turning(t)) =>
              /\ wsState = "connecting" => told.accepts = 0 /\ told.closes = 0
              /\ wsState = "connected" => told.accepts = 1 /\ told.closes = 0

WsInv == WsTypeOK /\ ClosedInv /\ LifeInv /\ OrderInv

\* A connection that has not begun satisfies the inductive invariant.
LEMMA WsInvBegins == WsInit => WsInv
  <1> SUFFICES ASSUME WsInit PROVE WsInv
    OBVIOUS
  <1> USE DEF WsInit
  <1>1. WsTypeOK
    BY DEF WsTypeOK, NothingTold
  <1>2. ClosedInv
    BY DEF ClosedInv
  <1>3. LifeInv
    BY DEF LifeInv, FailureTold
  <1>4. OrderInv
    BY DEF OrderInv, Turning, NothingTold
  <1> QED
    BY <1>1, <1>2, <1>3, <1>4 DEF WsInv

\* What telling the server a message does to what it was told.
LEMMA TellFacts ==
  ASSUME WsTypeOK, NEW m \in Methods, Tell(m)
  PROVE  /\ told' \in [accepts : {0, 1}, closes : {0, 1}, disorder : BOOLEAN]
         /\ told.closes = 1 => told'.closes = 1
         /\ m = "close" => told'.closes = 1 \/ peerLeft
         /\ peerLeft => told' = told
         /\ Legal(m) => /\ told'.disorder = told.disorder
                        /\ m = "accept" /\ ~peerLeft =>
                             told'.accepts = 1 /\ told'.closes = told.closes
                        /\ m \in {"send", "receive"} => told' = told
  <1> USE DEF WsTypeOK, Methods
  <1>1. CASE peerLeft
    BY <1>1 DEF Tell
  <1>2. CASE ~peerLeft /\ ~Legal(m)
    BY <1>2 DEF Tell, Legal
  <1>3. CASE ~peerLeft /\ Legal(m)
    BY <1>3 DEF Tell, Legal
  <1> QED
    BY <1>1, <1>2, <1>3

\* What the end of a call does to _state.
LEMMA AfterCallFacts ==
  ASSUME WsTypeOK, NEW method \in Methods, NEW d \in BOOLEAN
  PROVE  /\ AfterCall(method, d) \in {"connecting", "connected", "disconnected"}
         /\ method = "accept" => AfterCall(method, d) = "connected"
         /\ method = "close" => AfterCall(method, d) = "disconnected"
         /\ method = "send" => AfterCall(method, d) = wsState
         /\ method = "receive" =>
              AfterCall(method, d) = IF d THEN "disconnected" ELSE wsState
  <1> USE DEF WsTypeOK, Methods
  <1>1. CASE method = "accept"
    BY <1>1 DEF AfterCall
  <1>2. CASE method = "close"
    BY <1>2 DEF AfterCall
  <1>3. CASE method = "send"
    BY <1>3 DEF AfterCall
  <1>4. CASE method = "receive"
    BY <1>4 DEF AfterCall
  <1> QED
    BY <1>1, <1>2, <1>3, <1>4

\* Every step keeps the ranges.
LEMMA TypeStep == WsTypeOK /\ [WsNext]_wsVars => WsTypeOK'
  <1> SUFFICES ASSUME WsTypeOK, [WsNext]_wsVars PROVE WsTypeOK'
    OBVIOUS
  <1> USE TaskAssumption DEF WsTypeOK, Methods
  <1>1. CASE Connect
    BY <1>1, ZenonT(60) DEF Connect, Tell, Legal
  <1>2. CASE CheckPermission
    BY <1>2, ZenonT(60) DEF CheckPermission, Tell, Legal
  <1>3. CASE OpenScope
    BY <1>3 DEF OpenScope
  <1>4. CASE Resolved
    BY <1>4 DEF Resolved, Routes
  <1>5. CASE ResolveRaises
    BY <1>5 DEF ResolveRaises
  <1>6. CASE HandlerEnds
    BY <1>6 DEF HandlerEnds
  <1>7. CASE HandlerCancelled
    BY <1>7 DEF HandlerCancelled, CutOff
  <1>8. CASE BeginFinalClose
    <2>1. CASE ~Permits("close")
      BY <1>8, <2>1 DEF BeginFinalClose, Permits
    <2>2. CASE Permits("close")
      <3>1. Tell("close") /\ "close" \in Methods
        BY <1>8, <2>2 DEF BeginFinalClose, Begin
      <3> QED
        BY <1>8, <2>2, <3>1, TellFacts DEF BeginFinalClose, Begin, Permits
    <2> QED
      BY <2>1, <2>2
  <1>9. CASE EndFinalClose
    <2>1. wsState' = "disconnected"
      BY <1>9, AfterCallFacts DEF EndFinalClose
    <2> QED
      BY <1>9, <2>1, ZenonT(60) DEF EndFinalClose
  <1>10. CASE Teardown
    BY <1>10 DEF Teardown, Closable
  <1>11. CASE PeerLeaves
    BY <1>11 DEF PeerLeaves
  <1>12. ASSUME NEW t \in Tasks, BeginCall(t) PROVE WsTypeOK'
    <2>1. PICK method \in Methods : Begin(t, method)
      BY <1>12 DEF BeginCall
    <2>2. CASE method = "receive"
      BY <1>12, <2>1, <2>2 DEF BeginCall, MayCall, HandlerRan, Begin, Permits
    <2>3. CASE method # "receive"
      <3>1. Tell(method)
        BY <2>1, <2>3 DEF Begin
      <3> QED
        BY <1>12, <2>1, <2>3, <3>1, TellFacts DEF BeginCall, MayCall, HandlerRan, Begin, Permits
    <2> QED
      BY <2>2, <2>3
  <1>13. ASSUME NEW t \in Tasks, EndCall(t) PROVE WsTypeOK'
    <2>1. PICK d \in BOOLEAN : (d => peerLeft) /\ wsState' = AfterCall(calls[t], d)
      BY <1>13 DEF EndCall
    <2>2. calls[t] \in Methods
      BY <1>13 DEF EndCall
    <2> QED
      BY <1>13, <2>1, <2>2, AfterCallFacts DEF EndCall
  <1>14. ASSUME NEW t \in Tasks, CallRaises(t) PROVE WsTypeOK'
    BY <1>14 DEF CallRaises
  <1>15. ASSUME NEW t \in Tasks, ChildCancelled(t) PROVE WsTypeOK'
    BY <1>15 DEF ChildCancelled, CutOff
  <1>16. CASE UNCHANGED wsVars
    BY <1>16 DEF wsVars
  <1> QED
    BY <1>1, <1>2, <1>3, <1>4, <1>5, <1>6, <1>7, <1>8, <1>9, <1>10, <1>11, <1>12, <1>13, <1>14, <1>15, <1>16 DEF WsNext

\* What makes _state "disconnected" ends the connection, and it stays ended.
LEMMA ClosedStep == WsTypeOK /\ ClosedInv /\ [WsNext]_wsVars => ClosedInv'
  <1> SUFFICES ASSUME WsTypeOK, ClosedInv, [WsNext]_wsVars PROVE ClosedInv'
    OBVIOUS
  <1> USE TaskAssumption DEF WsTypeOK, ClosedInv, Over, Methods
  <1>1. CASE Connect
    BY <1>1 DEF Connect, Tell, Legal
  <1>2. CASE CheckPermission
    BY <1>2 DEF CheckPermission, Tell, Legal
  <1>3. CASE OpenScope
    BY <1>3 DEF OpenScope
  <1>4. CASE Resolved
    BY <1>4 DEF Resolved, Routes
  <1>5. CASE ResolveRaises
    BY <1>5 DEF ResolveRaises
  <1>6. CASE HandlerEnds
    BY <1>6 DEF HandlerEnds
  <1>7. CASE HandlerCancelled
    BY <1>7 DEF HandlerCancelled, CutOff
  <1>8. CASE BeginFinalClose
    <2>1. CASE ~Permits("close")
      BY <1>8, <2>1 DEF BeginFinalClose, Permits
    <2>2. CASE Permits("close")
      <3>1. Tell("close") /\ "close" \in Methods
        BY <1>8, <2>2 DEF BeginFinalClose, Begin
      <3> QED
        BY <1>8, <2>2, <3>1, TellFacts DEF BeginFinalClose, Begin, Permits
    <2> QED
      BY <2>1, <2>2
  <1>9. CASE EndFinalClose
    <2>1. wsState' = "disconnected"
      BY <1>9, AfterCallFacts DEF EndFinalClose
    <2> QED
      BY <1>9, <2>1 DEF EndFinalClose
  <1>10. CASE Teardown
    BY <1>10 DEF Teardown, Closable
  <1>11. CASE PeerLeaves
    BY <1>11 DEF PeerLeaves
  <1>12. ASSUME NEW t \in Tasks, BeginCall(t) PROVE ClosedInv'
    <2>1. PICK method \in Methods : Begin(t, method)
      BY <1>12 DEF BeginCall
    <2>2. CASE method = "receive"
      BY <1>12, <2>1, <2>2 DEF BeginCall, MayCall, HandlerRan, Begin, Permits
    <2>3. CASE method # "receive"
      <3>1. Tell(method)
        BY <2>1, <2>3 DEF Begin
      <3> QED
        BY <1>12, <2>1, <2>3, <3>1, TellFacts DEF BeginCall, MayCall, HandlerRan, Begin, Permits
    <2> QED
      BY <2>2, <2>3
  <1>13. ASSUME NEW t \in Tasks, EndCall(t) PROVE ClosedInv'
    <2>1. PICK d \in BOOLEAN : (d => peerLeft) /\ wsState' = AfterCall(calls[t], d)
      BY <1>13 DEF EndCall
    <2>2. calls[t] \in Methods
      BY <1>13 DEF EndCall
    <2> QED
      BY <1>13, <2>1, <2>2, AfterCallFacts DEF EndCall
  <1>14. ASSUME NEW t \in Tasks, CallRaises(t) PROVE ClosedInv'
    BY <1>14 DEF CallRaises
  <1>15. ASSUME NEW t \in Tasks, ChildCancelled(t) PROVE ClosedInv'
    BY <1>15 DEF ChildCancelled, CutOff
  <1>16. CASE UNCHANGED wsVars
    BY <1>16 DEF wsVars
  <1> QED
    BY <1>1, <1>2, <1>3, <1>4, <1>5, <1>6, <1>7, <1>8, <1>9, <1>10, <1>11, <1>12, <1>13, <1>14, <1>15, <1>16 DEF WsNext

\* _handle_websocket tells of a failure before it tears down, and closes the
\* scope it knows of.
LEMMA LifeStep == WsTypeOK /\ ClosedInv /\ LifeInv /\ [WsNext]_wsVars => LifeInv'
  <1> SUFFICES ASSUME WsTypeOK, ClosedInv, LifeInv, [WsNext]_wsVars PROVE LifeInv'
    OBVIOUS
  <1> USE TaskAssumption DEF WsTypeOK, ClosedInv, LifeInv, Over, FailureTold, ScopeReleased, NothingTold, Methods
  <1>1. CASE Connect
    BY <1>1 DEF Connect, Tell, Legal
  <1>2. CASE CheckPermission
    BY <1>2 DEF CheckPermission, Tell, Legal
  <1>3. CASE OpenScope
    BY <1>3 DEF OpenScope
  <1>4. CASE Resolved
    BY <1>4 DEF Resolved, Routes
  <1>5. CASE ResolveRaises
    BY <1>5 DEF ResolveRaises
  <1>6. CASE HandlerEnds
    BY <1>6 DEF HandlerEnds
  <1>7. CASE HandlerCancelled
    BY <1>7 DEF HandlerCancelled, CutOff
  <1>8. CASE BeginFinalClose
    <2>1. CASE ~Permits("close")
      BY <1>8, <2>1 DEF BeginFinalClose, Permits
    <2>2. CASE Permits("close")
      <3>1. Tell("close") /\ "close" \in Methods
        BY <1>8, <2>2 DEF BeginFinalClose, Begin
      <3> QED
        BY <1>8, <2>2, <3>1, TellFacts DEF BeginFinalClose, Begin, Permits
    <2> QED
      BY <2>1, <2>2
  <1>9. CASE EndFinalClose
    <2>1. wsState' = "disconnected"
      BY <1>9, AfterCallFacts DEF EndFinalClose
    <2> QED
      BY <1>9, <2>1 DEF EndFinalClose
  <1>10. CASE Teardown
    BY <1>10 DEF Teardown, Closable
  <1>11. CASE PeerLeaves
    BY <1>11 DEF PeerLeaves
  <1>12. ASSUME NEW t \in Tasks, BeginCall(t) PROVE LifeInv'
    <2>1. PICK method \in Methods : Begin(t, method)
      BY <1>12 DEF BeginCall
    <2>2. CASE method = "receive"
      BY <1>12, <2>1, <2>2 DEF BeginCall, MayCall, HandlerRan, Begin, Permits
    <2>3. CASE method # "receive"
      <3>1. Tell(method)
        BY <2>1, <2>3 DEF Begin
      <3> QED
        BY <1>12, <2>1, <2>3, <3>1, TellFacts DEF BeginCall, MayCall, HandlerRan, Begin, Permits
    <2> QED
      BY <2>2, <2>3
  <1>13. ASSUME NEW t \in Tasks, EndCall(t) PROVE LifeInv'
    <2>1. PICK d \in BOOLEAN : (d => peerLeft) /\ wsState' = AfterCall(calls[t], d)
      BY <1>13 DEF EndCall
    <2>2. calls[t] \in Methods
      BY <1>13 DEF EndCall
    <2> QED
      BY <1>13, <2>1, <2>2, AfterCallFacts DEF EndCall
  <1>14. ASSUME NEW t \in Tasks, CallRaises(t) PROVE LifeInv'
    BY <1>14 DEF CallRaises
  <1>15. ASSUME NEW t \in Tasks, ChildCancelled(t) PROVE LifeInv'
    BY <1>15 DEF ChildCancelled, CutOff
  <1>16. CASE UNCHANGED wsVars
    BY <1>16 DEF wsVars
  <1> QED
    BY <1>1, <1>2, <1>3, <1>4, <1>5, <1>6, <1>7, <1>8, <1>9, <1>10, <1>11, <1>12, <1>13, <1>14, <1>15, <1>16 DEF WsNext

\* Unless accept or close was overtaken, _state says what may be sent.
LEMMA OrderStep == WsTypeOK /\ LifeInv /\ OrderInv /\ [WsNext]_wsVars => OrderInv'
  <1> SUFFICES ASSUME WsTypeOK, LifeInv, OrderInv, [WsNext]_wsVars PROVE OrderInv'
    OBVIOUS
  <1> USE TaskAssumption DEF WsTypeOK, LifeInv, OrderInv, Turning, Served, NothingTold, Methods
  <1>1. CASE Connect
    BY <1>1 DEF Connect, Tell, Legal
  <1>2. CASE CheckPermission
    BY <1>2 DEF CheckPermission, Tell, Legal
  <1>3. CASE OpenScope
    BY <1>3 DEF OpenScope
  <1>4. CASE Resolved
    BY <1>4 DEF Resolved, Routes
  <1>5. CASE ResolveRaises
    BY <1>5 DEF ResolveRaises
  <1>6. CASE HandlerEnds
    BY <1>6 DEF HandlerEnds
  <1>7. CASE HandlerCancelled
    BY <1>7 DEF HandlerCancelled, CutOff
  <1>8. CASE BeginFinalClose
    <2>1. CASE ~Permits("close")
      BY <1>8, <2>1 DEF BeginFinalClose, Permits
    <2>2. CASE Permits("close")
      <3>1. Tell("close") /\ "close" \in Methods
        BY <1>8, <2>2 DEF BeginFinalClose, Begin
      <3> QED
        BY <1>8, <2>2, <3>1, TellFacts, ZenonT(60) DEF BeginFinalClose, Begin, Permits, Legal
    <2> QED
      BY <2>1, <2>2
  <1>9. CASE EndFinalClose
    <2>1. wsState' = "disconnected"
      BY <1>9, AfterCallFacts DEF EndFinalClose
    <2> QED
      BY <1>9, <2>1 DEF EndFinalClose
  <1>10. CASE Teardown
    BY <1>10 DEF Teardown, Closable
  <1>11. CASE PeerLeaves
    BY <1>11 DEF PeerLeaves
  <1>12. ASSUME NEW t \in Tasks, BeginCall(t) PROVE OrderInv'
    <2>1. PICK method \in Methods : Begin(t, method)
      BY <1>12 DEF BeginCall
    <2>2. CASE method = "receive"
      BY <1>12, <2>1, <2>2 DEF BeginCall, MayCall, HandlerRan, Begin, Permits
    <2>3. CASE method # "receive"
      <3>1. Tell(method)
        BY <2>1, <2>3 DEF Begin
      <3> QED
        BY <1>12, <2>1, <2>3, <3>1, TellFacts, ZenonT(60) DEF BeginCall, MayCall, HandlerRan, Begin, Permits, Legal
    <2> QED
      BY <2>2, <2>3
  <1>13. ASSUME NEW t \in Tasks, EndCall(t) PROVE OrderInv'
    <2>1. PICK d \in BOOLEAN : (d => peerLeft) /\ wsState' = AfterCall(calls[t], d)
      BY <1>13 DEF EndCall
    <2>2. calls[t] \in Methods
      BY <1>13 DEF EndCall
    <2> QED
      BY <1>13, <2>1, <2>2, AfterCallFacts DEF EndCall
  <1>14. ASSUME NEW t \in Tasks, CallRaises(t) PROVE OrderInv'
    BY <1>14 DEF CallRaises
  <1>15. ASSUME NEW t \in Tasks, ChildCancelled(t) PROVE OrderInv'
    BY <1>15 DEF ChildCancelled, CutOff
  <1>16. CASE UNCHANGED wsVars
    BY <1>16 DEF wsVars
  <1> QED
    BY <1>1, <1>2, <1>3, <1>4, <1>5, <1>6, <1>7, <1>8, <1>9, <1>10, <1>11, <1>12, <1>13, <1>14, <1>15, <1>16 DEF WsNext

\* A request over HTTP is no WebSocket, and leaves that half alone.
LEMMA NoWebSocketKept == NoWebSocket => WsInv
  <1> SUFFICES ASSUME NoWebSocket PROVE WsInv
    OBVIOUS
  <1> USE DEF NoWebSocket
  <1>1. WsTypeOK
    BY DEF WsTypeOK, NothingTold, Routes
  <1>2. ClosedInv
    BY DEF ClosedInv
  <1>3. LifeInv
    BY DEF LifeInv, FailureTold, ScopeReleased
  <1>4. OrderInv
    BY DEF OrderInv, Turning, NothingTold, Served
  <1> QED
    BY <1>1, <1>2, <1>3, <1>4 DEF WsInv

\* The inductive invariant holds of every reachable state of a connection.
THEOREM WebSocketInvariant == ConnectionSpec => []WsInv
  <1>1. ConnectionInit => WsInv
    BY WsInvBegins, NoWebSocketKept DEF ConnectionInit
  <1>2. WsInv /\ [WsNext]_wsVars => WsInv'
    BY TypeStep, ClosedStep, LifeStep, OrderStep DEF WsInv
  <1>3. [ConnectionNext]_connectionVars => [WsNext]_wsVars
    BY DEF ConnectionNext, connectionVars
  <1> QED
    BY <1>1, <1>2, <1>3, PTL DEF ConnectionSpec

\* Every variable stays in its range.
THEOREM WsTypeCorrect == ConnectionSpec => []WsTypeOK
  <1>1. WsInv => WsTypeOK
    BY DEF WsInv
  <1> QED
    BY WebSocketInvariant, <1>1, PTL

\* The server is sent messages in the order of ASGI, unless a task called a
\* method while another one awaited accept or close, or an accept was cancelled.
THEOREM OrderKept == ConnectionSpec => []MessagesInOrder
  <1>1. WsInv => MessagesInOrder
    BY DEF WsInv, OrderInv, MessagesInOrder
  <1> QED
    BY WebSocketInvariant, <1>1, PTL

\* A failed handler's client is told, and the scope of a connection does not
\* stay open unless resolving in it raised or was cancelled. It is closed to its
\* last instance if no cancellation cuts the closing itself off ("cut").
THEOREM ConnectionEnds == ConnectionSpec => []NothingLeftBehind
  <1>1. WsInv => NothingLeftBehind
    BY DEF WsInv, LifeInv, NothingLeftBehind
  <1> QED
    BY WebSocketInvariant, <1>1, PTL

-----------------------------------------------------------------------------
(* Induction. The well-foundedness of the natural numbers, for sets.        *)

\* A set of numbers has a least one.
LEMMA LeastNumber ==
  ASSUME NEW T \in SUBSET Nat, T # {}
  PROVE  \E x \in T : \A y \in T : ~(y < x)
  <1>1. \E x \in T : \A y \in T : ~(<<y, x>> \in OpToRel(<, Nat))
    BY NatLessThanWellFounded, WFMin
  <1>2. PICK x \in T : \A y \in T : ~(<<y, x>> \in OpToRel(<, Nat))
    BY <1>1
  <1>3. ASSUME NEW y \in T, y < x PROVE FALSE
    <2>1. <<y, x>> \in Nat \X Nat
      OBVIOUS
    <2>2. <<y, x>> \in OpToRel(<, Nat)
      BY <1>3, <2>1 DEF OpToRel
    <2> QED
      BY <2>2, <1>2
  <1> QED
    BY <1>3

\* A set that has 0, and the next number of each it has up to N, has 0..N.
LEMMA Induction ==
  ASSUME NEW S, NEW N \in Nat, 0 \in S, \A n \in 0..N : n \in S /\ n < N => n + 1 \in S
  PROVE  \A n \in 0..N : n \in S
  <1> DEFINE T == {n \in 0..N : n \notin S}
  <1> SUFFICES ASSUME T # {} PROVE FALSE
    OBVIOUS
  <1>1. T \in SUBSET Nat
    OBVIOUS
  <1>2. PICK x \in T : \A y \in T : ~(y < x)
    <2> HIDE DEF T
    <2> QED
      BY <1>1, LeastNumber
  <1>3. x \in 1..N /\ x \notin S
    OBVIOUS
  <1>4. x - 1 \in 0..N /\ x - 1 < x /\ x - 1 < N
    BY <1>3
  <1>5. x - 1 \in S
    BY <1>2, <1>4
  <1>6. (x - 1) + 1 \in S
    BY <1>4, <1>5
  <1> QED
    BY <1>3, <1>6

\* Downwards.
LEMMA Descent ==
  ASSUME NEW S, NEW N \in Nat, N \in S, \A n \in 1..N : n \in S /\ n > 1 => n - 1 \in S
  PROVE  \A n \in 1..N : n \in S
  <1> DEFINE T == {n \in 0..N : N - n \in S \/ n = N}
  <1>1. 0 \in T
    OBVIOUS
  <1>2. ASSUME NEW n \in 0..N, n \in T, n < N PROVE n + 1 \in T
    <2>1. N - n \in 1..N /\ N - n \in S
      BY <1>2
    <2>2. CASE N - n > 1
      <3>1. (N - n) - 1 \in S
        BY <2>1, <2>2
      <3>2. (N - n) - 1 = N - (n + 1) /\ n + 1 \in 0..N
        BY <1>2
      <3> QED
        BY <3>1, <3>2
    <2>3. CASE ~(N - n > 1)
      <3>1. n + 1 = N
        BY <1>2, <2>1, <2>3
      <3> QED
        BY <3>1
    <2> QED
      BY <2>2, <2>3
  <1>3. \A n \in 0..N : n \in T
    <2> HIDE DEF T
    <2> QED
      BY <1>1, <1>2, Induction
  <1>4. ASSUME NEW n \in 1..N PROVE n \in S
    <2>1. N - n \in 0..N /\ N - n # N /\ N - (N - n) = n
      OBVIOUS
    <2>2. N - n \in T
      BY <1>3, <2>1
    <2> QED
      BY <2>1, <2>2
  <1> QED
    BY <1>4

-----------------------------------------------------------------------------
(* The recursive functions of HttpExchange are what they are written as.    *)

\* The answer after each of a number of messages.
LEMMA DeliveredFacts ==
  ASSUME NEW w, NEW ms, Len(ms) \in Nat
  PROVE  /\ DOMAIN Delivered(w, ms) = 0..Len(ms)
         /\ Delivered(w, ms)[0] = w
         /\ \A n \in 1..Len(ms) : Delivered(w, ms)[n] = Deliver(Delivered(w, ms)[n - 1], ms[n])
  <1> DEFINE Is(f, N) == f = [n \in 0..N |-> IF n = 0 THEN w ELSE Deliver(f[n - 1], ms[n])]
             S == {N \in Nat : \E f : Is(f, N)}
  <1>1. 0 \in S
    <2> DEFINE g == [n \in 0..0 |-> w]
    <2>1. Is(g, 0)
      OBVIOUS
    <2> QED
      BY <2>1
  <1>2. ASSUME NEW N \in Nat, N \in S PROVE N + 1 \in S
    <2>1. PICK f : Is(f, N)
      BY <1>2
    <2> DEFINE g == [n \in 0..N + 1 |-> IF n = N + 1 THEN Deliver(f[N], ms[N + 1]) ELSE f[n]]
    <2>2. ASSUME NEW n \in 0..N + 1
          PROVE  g[n] = IF n = 0 THEN w ELSE Deliver(g[n - 1], ms[n])
      <3>1. CASE n = N + 1
        BY <3>1
      <3>2. CASE n # N + 1
        <4>1. n \in 0..N /\ g[n] = f[n] /\ (n # 0 => n - 1 \in 0..N /\ g[n - 1] = f[n - 1])
          BY <3>2
        <4> QED
          BY <2>1, <4>1
      <3> QED
        BY <3>1, <3>2
    <2>3. Is(g, N + 1)
      BY <2>2
    <2> HIDE DEF g, Is
    <2> QED
      BY <2>3
  <1>3. Len(ms) \in S
    <2> HIDE DEF S, Is
    <2>1. \A n \in 0..Len(ms) : n \in S /\ n < Len(ms) => n + 1 \in S
      BY <1>2
    <2>2. \A n \in 0..Len(ms) : n \in S
      BY <1>1, <2>1, Induction
    <2> QED
      BY <2>2
  <1>4. Is(Delivered(w, ms), Len(ms))
    BY <1>3 DEF Delivered
  <1>5. ASSUME NEW n \in 0..Len(ms)
        PROVE  Delivered(w, ms)[n] = IF n = 0 THEN w ELSE Deliver(Delivered(w, ms)[n - 1], ms[n])
    BY <1>4
  <1>6. DOMAIN Delivered(w, ms) = 0..Len(ms)
    BY <1>4
  <1> QED
    BY <1>5, <1>6

\* A middleware and what has gone on after each of a number of messages.
LEMMA RelayedFacts ==
  ASSUME NEW k, NEW st, NEW ms, Len(ms) \in Nat
  PROVE  /\ Relayed(k, st, ms)[0] = Gives(st, <<>>)
         /\ \A n \in 1..Len(ms) :
              LET before == Relayed(k, st, ms)[n - 1]
                  r == Relay(k, before.st, ms[n])
              IN Relayed(k, st, ms)[n] = Gives(r.st, before.out \o r.out)
  <1> DEFINE Next1(g, m) == LET r == Relay(k, g.st, m) IN Gives(r.st, g.out \o r.out)
             Is(f, N) == f = [n \in 0..N |-> IF n = 0 THEN Gives(st, <<>>) ELSE Next1(f[n - 1], ms[n])]
             S == {N \in Nat : \E f : Is(f, N)}
  <1>0. Is(Relayed(k, st, ms), Len(ms)) <=> Len(ms) \in S
    <2>1. Relayed(k, st, ms) = CHOOSE f : Is(f, Len(ms))
      BY DEF Relayed, After
    <2> HIDE DEF Is
    <2> QED
      BY <2>1
  <1> HIDE DEF Next1
  <1>1. 0 \in S
    <2> DEFINE g == [n \in 0..0 |-> Gives(st, <<>>)]
    <2>1. Is(g, 0)
      OBVIOUS
    <2> HIDE DEF g, Is
    <2> QED
      BY <2>1
  <1>2. ASSUME NEW N \in Nat, N \in S PROVE N + 1 \in S
    <2>1. PICK f : Is(f, N)
      BY <1>2
    <2> DEFINE g == [n \in 0..N + 1 |-> IF n = N + 1 THEN Next1(f[N], ms[N + 1]) ELSE f[n]]
    <2>2. ASSUME NEW n \in 0..N + 1
          PROVE  g[n] = IF n = 0 THEN Gives(st, <<>>) ELSE Next1(g[n - 1], ms[n])
      <3>1. CASE n = N + 1
        BY <3>1
      <3>2. CASE n # N + 1
        <4>1. n \in 0..N /\ g[n] = f[n] /\ (n # 0 => n - 1 \in 0..N /\ g[n - 1] = f[n - 1])
          BY <3>2
        <4> QED
          BY <2>1, <4>1
      <3> QED
        BY <3>1, <3>2
    <2>3. Is(g, N + 1)
      BY <2>2
    <2> HIDE DEF g, Is
    <2> QED
      BY <2>3
  <1>3. Len(ms) \in S
    <2> HIDE DEF S, Is
    <2>1. \A n \in 0..Len(ms) : n \in S /\ n < Len(ms) => n + 1 \in S
      BY <1>2
    <2>2. \A n \in 0..Len(ms) : n \in S
      BY <1>1, <2>1, Induction
    <2> QED
      BY <2>2
  <1>4. Is(Relayed(k, st, ms), Len(ms))
    BY <1>0, <1>3
  <1>5. /\ Relayed(k, st, ms)[0] = Gives(st, <<>>)
        /\ \A n \in 1..Len(ms) : Relayed(k, st, ms)[n] = Next1(Relayed(k, st, ms)[n - 1], ms[n])
    BY <1>4
  <1> QED
    BY <1>5 DEF Next1

\* What leaves each position.
LEMMA OutwardFacts ==
  ASSUME NEW states, NEW d \in Nat, NEW ms
  PROVE  /\ Outward(states, d, ms)[d + 1] = ms
         /\ \A i \in 1..d : Outward(states, d, ms)[i] =
                               RelayAll(pipe[i], states[i], Outward(states, d, ms)[i + 1]).out
  <1> DEFINE Step1(i, f) == RelayAll(pipe[i], states[i], f[i + 1]).out
             Is(f, l) == f = [i \in l..d + 1 |-> IF i = d + 1 THEN ms ELSE Step1(i, f)]
             S == {N \in 0..d : \E f : Is(f, d + 1 - N)}
  <1>0. Is(Outward(states, d, ms), 1) <=> d \in S
    <2>1. Outward(states, d, ms) = CHOOSE f : Is(f, 1)
      BY DEF Outward
    <2>2. d + 1 - d = 1 /\ d \in 0..d
      OBVIOUS
    <2> HIDE DEF Is
    <2> QED
      BY <2>1, <2>2
  <1>1. 0 \in S
    <2> DEFINE g == [i \in d + 1..d + 1 |-> ms]
    <2>1. Is(g, d + 1)
      OBVIOUS
    <2>2. d + 1 - 0 = d + 1 /\ 0 \in 0..d
      OBVIOUS
    <2> HIDE DEF g, Is
    <2> QED
      BY <2>1, <2>2
  <1>2. ASSUME NEW N \in 0..d, N \in S, N < d PROVE N + 1 \in S
    <2> DEFINE l == d + 1 - N
    <2>1. PICK f : Is(f, l)
      BY <1>2
    <2> DEFINE g == [i \in l - 1..d + 1 |-> IF i = l - 1 THEN Step1(i, f) ELSE f[i]]
    <2>2. l \in 2..d + 1 /\ d + 1 - (N + 1) = l - 1 /\ N + 1 \in 0..d
      BY <1>2
    <2>3. ASSUME NEW i \in l - 1..d + 1
          PROVE  g[i] = IF i = d + 1 THEN ms ELSE Step1(i, g)
      <3> HIDE DEF l
      <3>1. i # d + 1 => i + 1 \in l..d + 1 /\ g[i + 1] = f[i + 1]
        BY <2>2
      <3>2. i # d + 1 => Step1(i, g) = Step1(i, f)
        BY <3>1
      <3>3. CASE i = l - 1
        <4>1. i # d + 1 /\ g[i] = Step1(i, f)
          BY <2>2, <3>3
        <4> QED
          BY <3>2, <4>1
      <3>4. CASE i # l - 1
        <4>1. i \in l..d + 1 /\ g[i] = f[i]
          BY <2>2, <3>4
        <4>2. f[i] = IF i = d + 1 THEN ms ELSE Step1(i, f)
          BY <2>1, <4>1
        <4> QED
          BY <3>2, <4>1, <4>2
      <3> QED
        BY <3>3, <3>4
    <2> HIDE DEF l
    <2>4. Is(g, l - 1)
      BY <2>3
    <2> HIDE DEF g, Is
    <2> QED
      BY <2>2, <2>4
  <1>3. d \in S
    <2> HIDE DEF S
    <2>1. \A n \in 0..d : n \in S
      BY <1>1, <1>2, Induction
    <2> QED
      BY <2>1
  <1>4. Is(Outward(states, d, ms), 1)
    BY <1>0, <1>3
  <1> QED
    BY <1>4

-----------------------------------------------------------------------------
(* What a message, an answer and the state of a middleware are.             *)

\* At most one of the elements of a set.
Optional(S) == {<<>>} \cup {<<x>> : x \in S}

LineSet ==
  [name : {"set-cookie", "vary", "x-frame-options", "x-process-time", "x-request-id"},
   by : {"session", "csrf", "cors", "headers", "timing", "client", "requestid", "observe", "gzip"}]

Starts == [kind : {"start"}, status : Nat, lens : Seq(Nat), lines : Seq(LineSet), coded : BOOLEAN]

Bodies == [kind : {"body"}, raw : Nat, size : Nat, more : BOOLEAN]

Messages == Starts \cup Bodies

\* An answer that has not started is empty; out of order are only answers that
\* are encoded.
Answers ==
  {w \in [start : Optional(Starts), raw : Nat, size : Nat, ended : BOOLEAN, disorder : BOOLEAN] :
     /\ w.start = <<>> => w = NoAnswer
     /\ w.disorder => w.start # <<>> /\ w.start[1].coded}

States == [held : Optional(Starts), raw : Nat, size : Nat, started : BOOLEAN, pass : BOOLEAN,
           zip : BOOLEAN, status : Nat, inside : Nat, counts : Seq(Nat), spoilt : BOOLEAN]

\* A message that may follow: in the order of ASGI, or one of those that
\* GZipMiddleware repeats when an answer was encoded already.
Fits(w, m) ==
  IF m.kind = "start"
    THEN w.start = <<>> \/ (w.start = <<m>> /\ m.coded)
    ELSE w.start # <<>> /\ (w.ended => m.raw = 0 /\ m.size = 0 /\ w.start[1].coded)

FitsAll(w, ms) == \A n \in 1..Len(ms) : Fits(Delivered(w, ms)[n - 1], ms[n])

\* Less than that holds when a send is cut off: an answer that has not started is
\* empty, and what starts it or starts it again tells one status.
Outputs ==
  {w \in [start : Optional(Starts), raw : Nat, size : Nat, ended : BOOLEAN, disorder : BOOLEAN] :
     w.start = <<>> => w = NoAnswer}

Opens(start) == IF start = <<>> THEN {} ELSE {start[1].status}

Suits(w, m) ==
  IF m.kind = "start" THEN Opens(w.start) \subseteq {m.status} ELSE w.start # <<>>

SuitsAll(w, ms) == \A n \in 1..Len(ms) : Suits(Delivered(w, ms)[n - 1], ms[n])

\* What is in an answer that has started.
LEMMA AnswerFacts ==
  ASSUME NEW w \in Answers
  PROVE  /\ w.start # <<>> => /\ w.start = <<w.start[1]>> /\ w.start[1] \in Starts
                              /\ Len(w.start) = 1
         /\ w.raw \in Nat /\ w.size \in Nat /\ w.ended \in BOOLEAN /\ w.disorder \in BOOLEAN
         /\ w.start \in Optional(Starts)
         /\ w.start = <<>> => w = NoAnswer
         /\ w.disorder => w.start # <<>> /\ w.start[1].coded
         /\ w = [start |-> w.start, raw |-> w.raw, size |-> w.size, ended |-> w.ended,
                 disorder |-> w.disorder]
  BY DEF Answers, Optional

\* And in a middleware's state.
LEMMA StateFacts ==
  ASSUME NEW st \in States
  PROVE  /\ st.held # <<>> => /\ st.held = <<st.held[1]>> /\ st.held[1] \in Starts
                              /\ Len(st.held) = 1
         /\ st.raw \in Nat /\ st.size \in Nat /\ st.status \in Nat /\ st.inside \in Nat
         /\ st.held \in Optional(Starts) /\ st.counts \in Seq(Nat)
  BY DEF States, Optional

\* The messages of the application are messages.
LEMMA MessageFacts ==
  /\ \A status \in Nat, lens \in Seq(Nat), coded \in BOOLEAN : StartMsg(status, lens, coded) \in Starts
  /\ \A raw \in Nat, size \in Nat, more \in BOOLEAN : BodyMsg(raw, size, more) \in Bodies
  /\ \A m \in Starts : m.kind = "start" /\ m.coded \in BOOLEAN /\ m.status \in Nat
  /\ \A m \in Bodies : m.kind = "body" /\ m.raw \in Nat /\ m.size \in Nat /\ m.more \in BOOLEAN
  /\ NoAnswer \in Answers
  /\ \A m \in Starts : <<m>> \in Optional(Starts) /\ <<m>> # <<>> /\ <<m>>[1] = m
  BY DEF StartMsg, BodyMsg, Starts, Bodies, NoAnswer, Answers, Optional

\* An answer put together.
Made(start, raw, size, over, disorder) ==
  [start |-> start, raw |-> raw, size |-> size, ended |-> over, disorder |-> disorder]

\* Answers by their parts.
LEMMA AnswerMade ==
  ASSUME NEW start \in Optional(Starts), NEW raw \in Nat, NEW size \in Nat, NEW over \in BOOLEAN,
         NEW disorder \in BOOLEAN,
         start = <<>> => raw = 0 /\ size = 0 /\ ~over /\ ~disorder,
         disorder => start[1].coded
  PROVE  /\ Made(start, raw, size, over, disorder) \in Answers
         /\ Made(start, raw, size, over, disorder).start = start
         /\ Made(start, raw, size, over, disorder).raw = raw
         /\ Made(start, raw, size, over, disorder).size = size
         /\ Made(start, raw, size, over, disorder).ended = over
         /\ Made(start, raw, size, over, disorder).disorder = disorder
  <1> DEFINE w == [start |-> start, raw |-> raw, size |-> size, ended |-> over, disorder |-> disorder]
  <1>1. w \in [start : Optional(Starts), raw : Nat, size : Nat, ended : BOOLEAN, disorder : BOOLEAN]
    OBVIOUS
  <1>2. w.start = <<>> => w = NoAnswer
    BY DEF NoAnswer
  <1>3. w.disorder => w.start # <<>> /\ w.start[1].coded
    OBVIOUS
  <1> QED
    BY <1>1, <1>2, <1>3 DEF Answers, Made

\* A message that fits keeps an answer an answer.
LEMMA DeliverStart ==
  ASSUME NEW w \in Answers, NEW m \in Starts, Fits(w, m)
  PROVE  /\ Deliver(w, m) \in Answers
         /\ Deliver(w, m).start = <<m>>
         /\ Deliver(w, m).raw = w.raw /\ Deliver(w, m).size = w.size
         /\ Deliver(w, m).ended = w.ended
         /\ Deliver(w, m).disorder <=> w.start # <<>>
         /\ w.start = <<>> => Deliver(w, m) = Made(<<m>>, 0, 0, FALSE, FALSE)
         /\ w.start # <<>> => w.start = <<m>> /\ m.coded
  <1>1. m.kind = "start" /\ <<m>> \in Optional(Starts) /\ <<m>> # <<>> /\ <<m>>[1] = m
    BY MessageFacts
  <1>2. CASE w.start = <<>>
    <2>1. w = NoAnswer
      BY <1>2, AnswerFacts
    <2>2. Deliver(w, m) = [w EXCEPT !.start = <<m>>]
      BY <1>1, <1>2, <2>1 DEF Deliver, NoAnswer
    <2>3. Deliver(w, m) = Made(<<m>>, 0, 0, FALSE, FALSE)
      BY <2>1, <2>2 DEF NoAnswer, Made
    <2>4. w.raw = 0 /\ w.size = 0 /\ w.ended = FALSE
      BY <2>1 DEF NoAnswer
    <2> DEFINE no == FALSE
               zero == 0
               s == <<m>>
    <2>5. /\ Deliver(w, m) = Made(s, zero, zero, no, no) /\ w.ended = no
          /\ no \in BOOLEAN /\ ~no /\ zero \in Nat /\ s \in Optional(Starts)
          /\ s = <<>> => zero = 0 /\ ~no
          /\ no => s[1].coded
      BY <1>1, <2>3, <2>4
    <2>6. /\ Deliver(w, m) \in Answers
          /\ Deliver(w, m).start = s /\ Deliver(w, m).raw = zero /\ Deliver(w, m).size = zero
          /\ Deliver(w, m).ended = no /\ Deliver(w, m).disorder = no
      <3> HIDE DEF no, zero, s
      <3> QED
        BY <2>5, AnswerMade
    <2> QED
      BY <1>1, <1>2, <2>3, <2>4, <2>5, <2>6
  <1>3. CASE w.start # <<>>
    <2>1. w.start = <<m>> /\ m.coded
      BY <1>1, <1>3 DEF Fits
    <2>2. Deliver(w, m) = [w EXCEPT !.disorder = TRUE]
      BY <1>1, <1>3 DEF Deliver
    <2>3. Deliver(w, m) = Made(w.start, w.raw, w.size, w.ended, TRUE)
      BY <2>2, AnswerFacts DEF Made
    <2>4. w.start[1].coded /\ w.start \in Optional(Starts) /\ w.raw \in Nat /\ w.size \in Nat /\ w.ended \in BOOLEAN
      BY <1>1, <2>1, AnswerFacts
    <2> DEFINE yes == TRUE
    <2>5. Deliver(w, m) = Made(w.start, w.raw, w.size, w.ended, yes) /\ yes \in BOOLEAN /\ yes
      BY <2>3
    <2> HIDE DEF yes
    <2>6. /\ Deliver(w, m) \in Answers
          /\ Deliver(w, m).start = w.start /\ Deliver(w, m).raw = w.raw /\ Deliver(w, m).size = w.size
          /\ Deliver(w, m).ended = w.ended /\ Deliver(w, m).disorder = yes
      <3>1. w.start = <<>> => w.raw = 0 /\ w.size = 0 /\ ~w.ended /\ ~yes
        BY <1>3
      <3>2. yes => w.start[1].coded
        BY <2>4
      <3>3. Made(w.start, w.raw, w.size, w.ended, yes) \in Answers
        BY <2>4, <2>5, <3>1, <3>2, AnswerMade
      <3> QED
        BY <2>5, <3>3 DEF Made
    <2> QED
      BY <1>3, <2>1, <2>4, <2>5, <2>6
  <1> QED
    BY <1>2, <1>3

\* A part of the body adds to it.
LEMMA DeliverBody ==
  ASSUME NEW w \in Answers, NEW m \in Bodies, Fits(w, m)
  PROVE  /\ Deliver(w, m) \in Answers
         /\ w.start # <<>>
         /\ Deliver(w, m).start = w.start
         /\ Deliver(w, m).raw = w.raw + m.raw /\ Deliver(w, m).size = w.size + m.size
         /\ Deliver(w, m).ended <=> (w.ended \/ ~m.more)
         /\ Deliver(w, m).disorder <=> (w.disorder \/ w.ended)
         /\ w.ended => m.raw = 0 /\ m.size = 0 /\ w.start[1].coded
  <1>1. m.kind = "body" /\ m.raw \in Nat /\ m.size \in Nat /\ m.more \in BOOLEAN
    BY MessageFacts
  <1>2. w.start # <<>> /\ (w.ended => m.raw = 0 /\ m.size = 0 /\ w.start[1].coded)
    BY <1>1 DEF Fits
  <1>3. w.start \in Optional(Starts) /\ w.raw \in Nat /\ w.size \in Nat /\ w.ended \in BOOLEAN /\ w.disorder \in BOOLEAN
    BY AnswerFacts
  <1>4. w.disorder => w.start[1].coded
    BY AnswerFacts
  <1>5. CASE w.ended
    <2>1. Deliver(w, m) = [w EXCEPT !.disorder = TRUE]
      BY <1>5 DEF Deliver
    <2>2. Deliver(w, m) = Made(w.start, w.raw, w.size, w.ended, TRUE)
      BY <2>1, AnswerFacts DEF Made
    <2>3. w.raw + m.raw = w.raw /\ w.size + m.size = w.size
      BY <1>2, <1>3, <1>5
    <2> DEFINE yes == TRUE
    <2>4. Deliver(w, m) = Made(w.start, w.raw, w.size, w.ended, yes) /\ yes \in BOOLEAN /\ yes
      BY <2>2
    <2> HIDE DEF yes
    <2>6. w.start[1].coded
      BY <1>2, <1>5
    <2>5. /\ Deliver(w, m) \in Answers
          /\ Deliver(w, m).start = w.start /\ Deliver(w, m).raw = w.raw /\ Deliver(w, m).size = w.size
          /\ Deliver(w, m).ended = w.ended /\ Deliver(w, m).disorder = yes
      <3>1. w.start = <<>> => w.raw = 0 /\ w.size = 0 /\ ~w.ended /\ ~yes
        BY <1>2
      <3>2. yes => w.start[1].coded
        BY <2>6
      <3>3. Made(w.start, w.raw, w.size, w.ended, yes) \in Answers
        BY <1>3, <2>4, <3>1, <3>2, AnswerMade
      <3> QED
        BY <2>4, <3>3 DEF Made
    <2> QED
      BY <1>2, <1>3, <1>5, <2>3, <2>4, <2>5
  <1>6. CASE ~w.ended
    <2>1. Deliver(w, m) = [w EXCEPT !.raw = @ + m.raw, !.size = @ + m.size, !.ended = ~m.more]
      BY <1>1, <1>2, <1>6 DEF Deliver
    <2> DEFINE e == ~m.more
    <2>2. Deliver(w, m) = Made(w.start, w.raw + m.raw, w.size + m.size, e, w.disorder)
      BY <2>1, AnswerFacts DEF Made
    <2>3. w.raw + m.raw \in Nat /\ w.size + m.size \in Nat /\ e \in BOOLEAN
      BY <1>1, <1>3
    <2>4. e <=> ~m.more
      OBVIOUS
    <2> HIDE DEF e
    <2> QED
      BY <1>2, <1>3, <1>4, <1>6, <2>2, <2>3, <2>4, AnswerMade, SMTT(30)
  <1> QED
    BY <1>5, <1>6

\* No message, one, two.
LEMMA FewDelivered ==
  /\ \A w : DeliverAll(w, <<>>) = w /\ FitsAll(w, <<>>) /\ SuitsAll(w, <<>>)
  /\ \A w, m : /\ DeliverAll(w, <<m>>) = Deliver(w, m)
               /\ FitsAll(w, <<m>>) <=> Fits(w, m)
               /\ SuitsAll(w, <<m>>) <=> Suits(w, m)
  /\ \A w, m, n : /\ DeliverAll(w, <<m, n>>) = Deliver(Deliver(w, m), n)
                  /\ FitsAll(w, <<m, n>>) <=> Fits(w, m) /\ Fits(Deliver(w, m), n)
                  /\ SuitsAll(w, <<m, n>>) <=> Suits(w, m) /\ Suits(Deliver(w, m), n)
  <1>1. ASSUME NEW w PROVE DeliverAll(w, <<>>) = w /\ FitsAll(w, <<>>) /\ SuitsAll(w, <<>>)
    <2>1. Len(<<>>) = 0 /\ Len(<<>>) \in Nat
      OBVIOUS
    <2>2. Delivered(w, <<>>)[0] = w
      BY <2>1, DeliveredFacts
    <2> QED
      BY <2>1, <2>2 DEF DeliverAll, FitsAll, SuitsAll
  <1>2. ASSUME NEW w, NEW m
        PROVE  /\ DeliverAll(w, <<m>>) = Deliver(w, m)
               /\ FitsAll(w, <<m>>) <=> Fits(w, m)
               /\ SuitsAll(w, <<m>>) <=> Suits(w, m)
    <2> DEFINE ms == <<m>>
    <2>1. Len(ms) = 1 /\ Len(ms) \in Nat /\ ms[1] = m /\ 1 - 1 = 0
      OBVIOUS
    <2> HIDE DEF ms
    <2>2. /\ Delivered(w, ms)[0] = w
          /\ \A i \in 1..Len(ms) : Delivered(w, ms)[i] = Deliver(Delivered(w, ms)[i - 1], ms[i])
      BY <2>1, DeliveredFacts
    <2>3. 1 \in 1..Len(ms) /\ \A i \in 1..Len(ms) : i = 1
      BY <2>1
    <2>4. Delivered(w, ms)[1] = Deliver(w, m)
      BY <2>1, <2>2, <2>3
    <2>5. FitsAll(w, ms) <=> Fits(w, m)
      BY <2>1, <2>2, <2>3 DEF FitsAll
    <2>6. DeliverAll(w, ms) = Deliver(w, m)
      BY <2>1, <2>4 DEF DeliverAll
    <2>7. SuitsAll(w, ms) <=> Suits(w, m)
      BY <2>1, <2>2, <2>3 DEF SuitsAll
    <2> QED
      BY <2>5, <2>6, <2>7 DEF ms
  <1>3. ASSUME NEW w, NEW m, NEW n
        PROVE  /\ DeliverAll(w, <<m, n>>) = Deliver(Deliver(w, m), n)
               /\ FitsAll(w, <<m, n>>) <=> Fits(w, m) /\ Fits(Deliver(w, m), n)
               /\ SuitsAll(w, <<m, n>>) <=> Suits(w, m) /\ Suits(Deliver(w, m), n)
    <2> DEFINE ms == <<m, n>>
    <2>1. Len(ms) = 2 /\ Len(ms) \in Nat /\ ms[1] = m /\ ms[2] = n /\ 1 - 1 = 0 /\ 2 - 1 = 1
      OBVIOUS
    <2> HIDE DEF ms
    <2>2. /\ Delivered(w, ms)[0] = w
          /\ \A i \in 1..Len(ms) : Delivered(w, ms)[i] = Deliver(Delivered(w, ms)[i - 1], ms[i])
      BY <2>1, DeliveredFacts
    <2>3. 1 \in 1..Len(ms) /\ 2 \in 1..Len(ms) /\ \A i \in 1..Len(ms) : i = 1 \/ i = 2
      BY <2>1
    <2>4. Delivered(w, ms)[1] = Deliver(w, m)
      BY <2>1, <2>2, <2>3
    <2>5. Delivered(w, ms)[2] = Deliver(Deliver(w, m), n)
      BY <2>1, <2>2, <2>3, <2>4
    <2>6. FitsAll(w, ms) <=> Fits(w, m) /\ Fits(Deliver(w, m), n)
      BY <2>1, <2>2, <2>3, <2>4 DEF FitsAll
    <2>7. DeliverAll(w, ms) = Deliver(Deliver(w, m), n)
      BY <2>1, <2>5 DEF DeliverAll
    <2>8. SuitsAll(w, ms) <=> Suits(w, m) /\ Suits(Deliver(w, m), n)
      BY <2>1, <2>2, <2>3, <2>4 DEF SuitsAll
    <2> QED
      BY <2>6, <2>7, <2>8 DEF ms
  <1> QED
    BY <1>1, <1>2, <1>3

\* Some messages and then some more.
LEMMA ConcatDelivered ==
  ASSUME NEW w, NEW s \in Seq(Messages), NEW t \in Seq(Messages)
  PROVE  /\ DeliverAll(w, s \o t) = DeliverAll(DeliverAll(w, s), t)
         /\ FitsAll(w, s) /\ FitsAll(DeliverAll(w, s), t) => FitsAll(w, s \o t)
         /\ SuitsAll(w, s) /\ SuitsAll(DeliverAll(w, s), t) => SuitsAll(w, s \o t)
  <1> DEFINE u == s \o t
             v == DeliverAll(w, s)
             l == Len(s)
             k == Len(t)
  <1>1. /\ l \in Nat /\ k \in Nat /\ Len(u) = l + k /\ Len(u) \in Nat
        /\ \A i \in 1..l : u[i] = s[i]
        /\ \A i \in 1..k : u[l + i] = t[i]
    <2>1. l \in Nat /\ k \in Nat
      OBVIOUS
    <2>2. Len(u) = l + k /\ \A i \in 1..(l + k) : u[i] = IF i <= l THEN s[i] ELSE t[i - l]
      BY ConcatProperties
    <2> HIDE DEF u, l, k
    <2>3. \A i \in 1..l : i \in 1..(l + k) /\ i <= l
      BY <2>1
    <2>4. \A i \in 1..k : l + i \in 1..(l + k) /\ ~(l + i <= l) /\ (l + i) - l = i
      BY <2>1
    <2> QED
      BY <2>1, <2>2, <2>3, <2>4
  <1>2. /\ Delivered(w, s)[0] = w
        /\ \A n \in 1..l : Delivered(w, s)[n] = Deliver(Delivered(w, s)[n - 1], s[n])
    BY <1>1, DeliveredFacts
  <1>3. /\ Delivered(v, t)[0] = v
        /\ \A n \in 1..k : Delivered(v, t)[n] = Deliver(Delivered(v, t)[n - 1], t[n])
    BY <1>1, DeliveredFacts
  <1>4. /\ Delivered(w, u)[0] = w
        /\ \A n \in 1..(l + k) : Delivered(w, u)[n] = Deliver(Delivered(w, u)[n - 1], u[n])
    <2>1. Len(u) \in Nat
      BY <1>1
    <2> HIDE DEF u
    <2>2. /\ Delivered(w, u)[0] = w
          /\ \A n \in 1..Len(u) : Delivered(w, u)[n] = Deliver(Delivered(w, u)[n - 1], u[n])
      BY <2>1, DeliveredFacts
    <2>3. Len(u) = l + k
      BY <1>1
    <2> HIDE DEF l, k
    <2> QED
      BY <2>2, <2>3
  <1>5. v = Delivered(w, s)[l]
    BY DEF DeliverAll
  <1> HIDE DEF u, v, l, k
  <1>6. \A n \in 0..l : Delivered(w, u)[n] = Delivered(w, s)[n]
    <2> DEFINE S == {n \in 0..l : Delivered(w, u)[n] = Delivered(w, s)[n]}
    <2>1. 0 \in S
      BY <1>1, <1>2, <1>4
    <2>2. ASSUME NEW n \in 0..l, n \in S, n < l PROVE n + 1 \in S
      <3>1. n + 1 \in 1..l /\ n + 1 \in 1..(l + k) /\ (n + 1) - 1 = n
        BY <1>1, <2>2
      <3>2. Delivered(w, u)[n + 1] = Deliver(Delivered(w, u)[n], s[n + 1])
        BY <1>1, <1>4, <3>1
      <3>3. Delivered(w, s)[n + 1] = Deliver(Delivered(w, s)[n], s[n + 1])
        BY <1>2, <3>1
      <3> QED
        BY <2>2, <3>1, <3>2, <3>3
    <2>3. \A n \in 0..l : n \in S
      <3> HIDE DEF S
      <3> QED
        BY <1>1, <2>1, <2>2, Induction
    <2> QED
      BY <2>3
  <1>7. \A n \in 0..k : Delivered(w, u)[l + n] = Delivered(v, t)[n]
    <2> DEFINE S == {n \in 0..k : Delivered(w, u)[l + n] = Delivered(v, t)[n]}
    <2>1. 0 \in S
      <3>1. l + 0 = l /\ l \in 0..l /\ 0 \in 0..k
        BY <1>1
      <3> QED
        BY <1>3, <1>5, <1>6, <3>1
    <2>2. ASSUME NEW n \in 0..k, n \in S, n < k PROVE n + 1 \in S
      <3>1. /\ n + 1 \in 1..k /\ n + 1 \in 0..k /\ l + (n + 1) \in 1..(l + k)
            /\ (n + 1) - 1 = n /\ (l + (n + 1)) - 1 = l + n
        BY <1>1, <2>2, SMTT(30)
      <3>2. Delivered(w, u)[l + (n + 1)] = Deliver(Delivered(w, u)[l + n], t[n + 1])
        BY <1>1, <1>4, <3>1
      <3>3. Delivered(v, t)[n + 1] = Deliver(Delivered(v, t)[n], t[n + 1])
        BY <1>3, <3>1
      <3> QED
        BY <2>2, <3>1, <3>2, <3>3
    <2>3. \A n \in 0..k : n \in S
      <3> HIDE DEF S
      <3> QED
        BY <1>1, <2>1, <2>2, Induction
    <2> QED
      BY <2>3
  <1>8. DeliverAll(w, u) = DeliverAll(v, t)
    <2>1. k \in 0..k
      BY <1>1
    <2> QED
      BY <1>1, <1>7, <2>1 DEF DeliverAll, k
  <1>9. ASSUME FitsAll(w, s), FitsAll(v, t), NEW n \in 1..Len(u)
        PROVE  Fits(Delivered(w, u)[n - 1], u[n])
    <2>1. CASE n <= l
      <3>1. n \in 1..l /\ n - 1 \in 0..l
        BY <1>1, <2>1
      <3> QED
        BY <1>1, <1>6, <1>9, <3>1 DEF FitsAll, l
    <2>2. CASE ~(n <= l)
      <3>1. n - l \in 1..k /\ (n - l) - 1 \in 0..k /\ l + (n - l) = n /\ l + ((n - l) - 1) = n - 1
        BY <1>1, <2>2
      <3>2. Fits(Delivered(v, t)[(n - l) - 1], t[n - l])
        BY <1>9, <3>1 DEF FitsAll, k
      <3>3. Delivered(w, u)[n - 1] = Delivered(v, t)[(n - l) - 1] /\ u[n] = t[n - l]
        BY <1>1, <1>7, <3>1
      <3> QED
        BY <3>2, <3>3
    <2> QED
      BY <2>1, <2>2
  <1>10. FitsAll(w, s) /\ FitsAll(v, t) => FitsAll(w, u)
    BY <1>9 DEF FitsAll
  <1>11. ASSUME SuitsAll(w, s), SuitsAll(v, t), NEW n \in 1..Len(u)
         PROVE  Suits(Delivered(w, u)[n - 1], u[n])
    <2>1. CASE n <= l
      <3>1. n \in 1..l /\ n - 1 \in 0..l
        BY <1>1, <2>1
      <3> QED
        BY <1>1, <1>6, <1>11, <3>1 DEF SuitsAll, l
    <2>2. CASE ~(n <= l)
      <3>1. n - l \in 1..k /\ (n - l) - 1 \in 0..k /\ l + (n - l) = n /\ l + ((n - l) - 1) = n - 1
        BY <1>1, <2>2
      <3>2. Suits(Delivered(v, t)[(n - l) - 1], t[n - l])
        BY <1>11, <3>1 DEF SuitsAll, k
      <3>3. Delivered(w, u)[n - 1] = Delivered(v, t)[(n - l) - 1] /\ u[n] = t[n - l]
        BY <1>1, <1>7, <3>1
      <3> QED
        BY <3>2, <3>3
    <2> QED
      BY <2>1, <2>2
  <1>12. SuitsAll(w, s) /\ SuitsAll(v, t) => SuitsAll(w, u)
    BY <1>11 DEF SuitsAll
  <1> QED
    BY <1>8, <1>10, <1>12 DEF u, v

\* A message that fits keeps an answer an answer.
LEMMA DeliverKeeps ==
  ASSUME NEW w \in Answers, NEW m \in Messages, Fits(w, m)
  PROVE  Deliver(w, m) \in Answers
  <1>1. m \in Starts \/ m \in Bodies
    BY DEF Messages
  <1> QED
    BY <1>1, DeliverStart, DeliverBody

\* So do messages.
LEMMA DeliverAllKeeps ==
  ASSUME NEW w \in Answers, NEW ms \in Seq(Messages), FitsAll(w, ms)
  PROVE  /\ \A n \in 0..Len(ms) : Delivered(w, ms)[n] \in Answers
         /\ DeliverAll(w, ms) \in Answers
  <1> DEFINE S == {n \in 0..Len(ms) : Delivered(w, ms)[n] \in Answers}
  <1>1. Len(ms) \in Nat /\ \A n \in 1..Len(ms) : ms[n] \in Messages
    OBVIOUS
  <1>2. /\ Delivered(w, ms)[0] = w
        /\ \A n \in 1..Len(ms) : Delivered(w, ms)[n] = Deliver(Delivered(w, ms)[n - 1], ms[n])
    BY <1>1, DeliveredFacts
  <1>3. 0 \in S
    BY <1>1, <1>2
  <1>4. ASSUME NEW n \in 0..Len(ms), n \in S, n < Len(ms) PROVE n + 1 \in S
    <2>1. n + 1 \in 1..Len(ms) /\ (n + 1) - 1 = n /\ n + 1 \in 0..Len(ms)
      BY <1>1, <1>4
    <2>2. Fits(Delivered(w, ms)[n], ms[n + 1])
      BY <2>1 DEF FitsAll
    <2>3. Deliver(Delivered(w, ms)[n], ms[n + 1]) \in Answers
      BY <1>1, <1>4, <2>1, <2>2, DeliverKeeps
    <2> QED
      BY <1>2, <2>1, <2>3
  <1>5. \A n \in 0..Len(ms) : n \in S
    <2> HIDE DEF S
    <2> QED
      BY <1>1, <1>3, <1>4, Induction
  <1>6. Len(ms) \in 0..Len(ms)
    BY <1>1
  <1> QED
    BY <1>5, <1>6 DEF DeliverAll

-----------------------------------------------------------------------------
(* What a middleware has sent on, given what it was sent.                   *)

StatusOf(w) == IF w.start = <<>> THEN 500 ELSE w.start[1].status

\* GZipMiddleware has seen nothing yet; forwards what is encoded already;
\* buffers; streams; has compressed all at once, or has not because it is small.
Waits(st, in, o) ==
  /\ in = NoAnswer /\ o = NoAnswer
  /\ st.held = <<>> /\ st.raw = 0 /\ st.size = 0 /\ ~st.started /\ ~st.pass

Forwards(st, in, o) ==
  /\ in.start # <<>> /\ in.start[1].coded
  /\ o = in /\ st.held = in.start /\ st.raw = 0 /\ st.size = 0 /\ ~st.started /\ st.pass

Uncoded(w) == w.start # <<>> /\ ~w.start[1].coded

Buffers(st, in, o) ==
  /\ Uncoded(in) /\ ~in.ended
  /\ o = NoAnswer
  /\ st.held = in.start /\ st.raw = in.raw /\ st.size = in.size /\ ~st.started /\ ~st.pass

Streams(st, in, o) ==
  /\ Uncoded(in)
  /\ o.start = <<Compressed(in.start[1], <<>>)>>
  /\ o.raw = in.raw /\ (o.ended <=> in.ended) /\ ~o.disorder
  /\ st.started /\ st.zip /\ ~st.pass

Flushes(st, in, o) ==
  /\ Uncoded(in) /\ in.ended
  /\ \/ o.start = in.start /\ o.size = in.size
     \/ o.start = <<Compressed(in.start[1], <<o.size>>)>>
  /\ o.raw = in.raw /\ o.ended /\ ~o.disorder
  /\ st.started

Zips(st, in, o) ==
  Waits(st, in, o) \/ Forwards(st, in, o) \/ Buffers(st, in, o) \/ Streams(st, in, o)
    \/ Flushes(st, in, o)

\* The others capture the answer, note whether or how it starts, add lines to it.
Captures(st, in, o) ==
  o = NoAnswer /\ st.held = in.start /\ st.raw = in.raw /\ st.size = in.size

Guards(st, in, o) == o = in /\ (st.started <=> in.start # <<>>)

Lined(k, in, o) ==
  /\ o.start = IF in.start = <<>> THEN <<>> ELSE <<WithLines(in.start[1], AddedLines(k))>>
  /\ o.raw = in.raw /\ o.size = in.size
  /\ (o.ended <=> in.ended) /\ (o.disorder <=> in.disorder)

Adds(k, st, in, o) == Lined(k, in, o) /\ (k \in Counting => st.status = StatusOf(in))

Passes(k, st, in, o) ==
  CASE k = "gzip"   -> Zips(st, in, o)
    [] k = "hooks"  -> Captures(st, in, o)
    [] k = "errors" -> Guards(st, in, o)
    [] OTHER        -> Adds(k, st, in, o)

\* A message goes on as it should, and what counts requests is left alone.
RelayOK(k, st, in, o, m) ==
  LET r == Relay(k, st, m) IN
  /\ r.st \in States /\ r.st.inside = st.inside /\ r.st.counts = st.counts
  /\ r.out \in Seq(Messages) /\ FitsAll(o, r.out)
  /\ Passes(k, r.st, Deliver(in, m), DeliverAll(o, r.out))

-----------------------------------------------------------------------------
(* One message                                                              *)

\* What a wrapper of send keeps and what it passes on.
LEMMA GivesFacts == \A st, out : Gives(st, out).st = st /\ Gives(st, out).out = out
  BY DEF Gives

\* Sequences of no, one and two messages.
LEMMA FewMessages ==
  /\ <<>> \in Seq(Messages)
  /\ \A m \in Messages : <<m>> \in Seq(Messages)
  /\ \A m, n \in Messages : <<m, n>> \in Seq(Messages)
  OBVIOUS

\* Two messages in a row.
LEMMA InARow ==
  ASSUME NEW s \in Messages, NEW b \in Messages
  PROVE  <<s>> \o <<b>> = <<s, b>>
  <1> DEFINE u == <<s>>
             v == <<b>>
             t == <<s, b>>
  <1>1. /\ u \in Seq(Messages) /\ Len(u) = 1 /\ u[1] = s
        /\ v \in Seq(Messages) /\ Len(v) = 1 /\ v[1] = b
        /\ t \in Seq(Messages) /\ Len(t) = 2 /\ t[1] = s /\ t[2] = b
    OBVIOUS
  <1> HIDE DEF u, v, t
  <1>2. /\ u \o v \in Seq(Messages) /\ Len(u \o v) = Len(u) + Len(v)
        /\ \A i \in 1..Len(u) + Len(v) : (u \o v)[i] = IF i <= Len(u) THEN u[i] ELSE v[i - Len(u)]
    BY <1>1, ConcatProperties
  <1>3. \A i \in 1..2 : (u \o v)[i] = t[i]
    <2>1. \A i \in 1..2 : (i = 1 \/ i = 2) /\ 2 - 1 = 1
      OBVIOUS
    <2> QED
      BY <1>1, <1>2, <2>1
  <1>4. Len(u \o v) = 2
    BY <1>1, <1>2
  <1>5. u \o v = t
    BY <1>1, <1>2, <1>3, <1>4, SeqEqual
  <1> QED
    BY <1>5 DEF u, v, t

\* Buffering adds to the counts and leaves the rest.
LEMMA BufferedFacts ==
  ASSUME NEW st \in States, NEW m \in Bodies
  PROVE  LET b == Buffered(st, m) IN
         /\ b \in States /\ b.inside = st.inside /\ b.counts = st.counts /\ b.status = st.status
         /\ b.held = st.held /\ b.raw = st.raw + m.raw /\ b.size = st.size + m.size
         /\ (b.started <=> st.started) /\ (b.pass <=> st.pass) /\ (b.zip <=> st.zip)
  <1> DEFINE raw == st.raw + m.raw
             size == st.size + m.size
  <1>1. raw \in Nat /\ size \in Nat
    <2>1. st.raw \in Nat /\ st.size \in Nat /\ m.raw \in Nat /\ m.size \in Nat
      BY StateFacts, MessageFacts
    <2> QED
      BY <2>1
  <1>2. Buffered(st, m) = [st EXCEPT !.raw = raw, !.size = size]
    BY DEF Buffered
  <1> HIDE DEF raw, size
  <1>3. [st EXCEPT !.raw = raw, !.size = size] \in States
    BY <1>1 DEF States
  <1> QED
    BY <1>2, <1>3 DEF States, raw, size

\* ErrorHandlerMiddleware passes on what it gets.
LEMMA RelayErrors ==
  ASSUME NEW st \in States, NEW in \in Answers, NEW o \in Answers, NEW m \in Messages,
         Fits(in, m), Guards(st, in, o)
  PROVE  RelayOK("errors", st, in, o, m)
  <1> DEFINE r == Relay("errors", st, m)
  <1>1. r = Gives(IF m.kind = "start" THEN [st EXCEPT !.started = TRUE] ELSE st, <<m>>)
    BY DEF Relay, GuardedSend
  <1>2. r.out = <<m>> /\ r.out \in Seq(Messages)
    <2>1. r.out = <<m>>
      BY <1>1, GivesFacts
    <2>2. <<m>> \in Seq(Messages)
      BY FewMessages
    <2> HIDE DEF r
    <2> QED
      BY <2>1, <2>2
  <1>3. FitsAll(o, r.out) /\ DeliverAll(o, r.out) = Deliver(in, m)
    BY <1>2, FewDelivered DEF Guards
  <1>4. CASE m \in Starts
    <2>1. m.kind = "start" /\ <<m>> # <<>>
      BY <1>4, MessageFacts
    <2>2. r.st = [st EXCEPT !.started = TRUE]
      BY <1>1, <2>1, GivesFacts
    <2>3. r.st \in States /\ r.st.inside = st.inside /\ r.st.counts = st.counts /\ r.st.started
      BY <2>2 DEF States
    <2>4. Deliver(in, m).start # <<>>
      BY <1>4, <2>1, DeliverStart
    <2>5. Passes("errors", r.st, Deliver(in, m), DeliverAll(o, r.out))
      BY <1>3, <2>3, <2>4 DEF Passes, Guards
    <2> QED
      BY <1>2, <1>3, <2>3, <2>5 DEF RelayOK
  <1>5. CASE m \in Bodies
    <2>1. m.kind = "body"
      BY <1>5, MessageFacts
    <2>2. r.st = st
      BY <1>1, <2>1, GivesFacts
    <2>3. Deliver(in, m).start = in.start
      BY <1>5, DeliverBody
    <2>4. Passes("errors", r.st, Deliver(in, m), DeliverAll(o, r.out))
      BY <1>3, <2>2, <2>3 DEF Passes, Guards
    <2> QED
      BY <1>2, <1>3, <2>2, <2>4 DEF RelayOK
  <1> QED
    BY <1>4, <1>5 DEF Messages

\* A hook middleware captures it.
LEMMA RelayHooks ==
  ASSUME NEW st \in States, NEW in \in Answers, NEW o \in Answers, NEW m \in Messages,
         Fits(in, m), Captures(st, in, o)
  PROVE  RelayOK("hooks", st, in, o, m)
  <1> DEFINE r == Relay("hooks", st, m)
  <1>1. r = IF m.kind = "start" THEN Gives([st EXCEPT !.held = <<m>>], <<>>)
                               ELSE Gives(Buffered(st, m), <<>>)
    BY DEF Relay, Capture
  <1>2. r.out = <<>> /\ r.out \in Seq(Messages)
    <2>1. r.out = <<>>
      BY <1>1, GivesFacts
    <2>2. <<>> \in Seq(Messages)
      BY FewMessages
    <2> HIDE DEF r
    <2> QED
      BY <2>1, <2>2
  <1>3. FitsAll(o, r.out) /\ DeliverAll(o, r.out) = NoAnswer
    BY <1>2, FewDelivered DEF Captures
  <1>4. st.raw \in Nat /\ st.size \in Nat
    BY StateFacts
  <1>5. CASE m \in Starts
    <2>1. m.kind = "start" /\ <<m>> \in Optional(Starts)
      BY <1>5, MessageFacts
    <2>2. r.st = [st EXCEPT !.held = <<m>>]
      BY <1>1, <2>1, GivesFacts
    <2>3. /\ r.st \in States /\ r.st.inside = st.inside /\ r.st.counts = st.counts
          /\ r.st.held = <<m>> /\ r.st.raw = st.raw /\ r.st.size = st.size
      BY <2>1, <2>2 DEF States
    <2>4. /\ Deliver(in, m).start = <<m>>
          /\ Deliver(in, m).raw = in.raw /\ Deliver(in, m).size = in.size
      BY <1>5, DeliverStart
    <2>5. Passes("hooks", r.st, Deliver(in, m), DeliverAll(o, r.out))
      BY <1>3, <2>3, <2>4 DEF Passes, Captures
    <2> QED
      BY <1>2, <1>3, <2>3, <2>5 DEF RelayOK
  <1>6. CASE m \in Bodies
    <2>1. m.kind = "body" /\ m.raw \in Nat /\ m.size \in Nat
      BY <1>6, MessageFacts
    <2>2. r.st = Buffered(st, m)
      BY <1>1, <2>1, GivesFacts
    <2>3. /\ r.st \in States /\ r.st.inside = st.inside /\ r.st.counts = st.counts
          /\ r.st.held = st.held /\ r.st.raw = st.raw + m.raw /\ r.st.size = st.size + m.size
      BY <1>6, <2>2, BufferedFacts
    <2>4. /\ Deliver(in, m).start = in.start
          /\ Deliver(in, m).raw = in.raw + m.raw /\ Deliver(in, m).size = in.size + m.size
      BY <1>6, DeliverBody
    <2>5. Passes("hooks", r.st, Deliver(in, m), DeliverAll(o, r.out))
      BY <1>3, <2>3, <2>4 DEF Passes, Captures
    <2> QED
      BY <1>2, <1>3, <2>3, <2>5 DEF RelayOK
  <1> QED
    BY <1>5, <1>6 DEF Messages

\* The lines a middleware adds are lines.
LEMMA AddedLinesFacts ==
  ASSUME NEW k
  PROVE  AddedLines(k) \in Seq(LineSet)
  <1>1. \A l \in LineSet : <<l>> \in Seq(LineSet)
    OBVIOUS
  <1>2. <<>> \in Seq(LineSet)
    OBVIOUS
  <1> USE DEF Line, LineSet
  <1>3. SessionLines \in Seq(LineSet)
    <2>1. <<Line("set-cookie", "session")>> \in Seq(LineSet)
      BY <1>1
    <2> QED
      BY <1>2, <2>1 DEF SessionLines
  <1>4. CsrfLines \in Seq(LineSet)
    <2>1. <<Line("set-cookie", "csrf")>> \in Seq(LineSet)
      BY <1>1
    <2> QED
      BY <1>2, <2>1 DEF CsrfLines
  <1>5. CorsLines \in Seq(LineSet)
    <2>1. <<Line("vary", "cors")>> \in Seq(LineSet)
      BY <1>1
    <2> QED
      BY <1>2, <2>1 DEF CorsLines
  <1>6. SecurityLines \in Seq(LineSet)
    BY <1>1 DEF SecurityLines
  <1>7. TimingLines \in Seq(LineSet)
    BY <1>1 DEF TimingLines
  <1>8. ASSUME k \in {"requestid", "observe"}
        PROVE  <<Line("x-request-id", Identified(k))>> \in Seq(LineSet)
    <2>1. Line("x-request-id", Identified(k)) \in LineSet
      BY <1>8 DEF Identified
    <2> QED
      BY <1>1, <2>1
  <1> QED
    BY <1>2, <1>3, <1>4, <1>5, <1>6, <1>7, <1>8 DEF AddedLines

\* A start message with more lines.
LEMMA WithLinesFacts ==
  ASSUME NEW lines \in Seq(LineSet)
  PROVE  /\ \A m \in Starts : LET n == WithLines(m, lines) IN
               /\ n \in Starts /\ n.lines = m.lines \o lines
               /\ n.status = m.status /\ n.lens = m.lens /\ (n.coded <=> m.coded)
         /\ \A m \in Bodies : WithLines(m, lines) = m
  <1>1. ASSUME NEW m \in Starts
        PROVE  LET n == WithLines(m, lines) IN
               /\ n \in Starts /\ n.lines = m.lines \o lines
               /\ n.status = m.status /\ n.lens = m.lens /\ (n.coded <=> m.coded)
    <2> DEFINE more == m.lines \o lines
    <2>1. m.kind = "start" /\ m.lines \in Seq(LineSet)
      BY DEF Starts
    <2>2. more \in Seq(LineSet)
      BY <2>1
    <2>3. WithLines(m, lines) = [m EXCEPT !.lines = more]
      BY <2>1 DEF WithLines
    <2> HIDE DEF more
    <2>4. [m EXCEPT !.lines = more] \in Starts
      BY <2>2 DEF Starts
    <2> QED
      BY <2>3, <2>4 DEF Starts, more
  <1>2. ASSUME NEW m \in Bodies PROVE WithLines(m, lines) = m
    BY DEF WithLines, Bodies
  <1> QED
    BY <1>1, <1>2

\* Without lines to add, a message stays as it is.
LEMMA NoLines == \A m \in Messages : WithLines(m, <<>>) = m
  <1>1. ASSUME NEW m \in Starts PROVE WithLines(m, <<>>) = m
    <2>1. m.lines \in Seq(LineSet) /\ m.kind = "start"
      BY DEF Starts
    <2>2. m.lines \o <<>> = m.lines
      BY <2>1
    <2> QED
      BY <2>1, <2>2 DEF WithLines, Starts
  <1>2. ASSUME NEW m \in Bodies PROVE WithLines(m, <<>>) = m
    BY DEF WithLines, Bodies
  <1> QED
    BY <1>1, <1>2 DEF Messages

Lining == Kinds \ {"gzip", "hooks", "errors"}

\* What the middlewares that only add lines do to a message.
LEMMA LiningRelay ==
  ASSUME NEW k \in Lining, NEW st \in States, NEW m \in Messages
  PROVE  /\ Relay(k, st, m).out = <<WithLines(m, AddedLines(k))>>
         /\ Relay(k, st, m).st = IF k \in Counting /\ m.kind = "start"
                                   THEN [st EXCEPT !.status = m.status] ELSE st
  <1>1. CASE k \in {"metrics", "debug"}
    <2>1. AddedLines(k) = <<>>
      BY <1>1 DEF AddedLines
    <2>2. WithLines(m, AddedLines(k)) = m
      BY <2>1, NoLines
    <2>3. Relay(k, st, m) = Gives(IF m.kind = "start" THEN [st EXCEPT !.status = m.status] ELSE st, <<m>>)
      BY <1>1 DEF Relay, NoteStatus
    <2> QED
      BY <1>1, <2>2, <2>3, GivesFacts DEF Counting
  <1>2. CASE k = "observe"
    <2> DEFINE n == WithLines(m, AddedLines("observe"))
    <2>1. Relay(k, st, m) = NoteStatus(st, n)
      BY <1>2 DEF Relay, ObservedSend
    <2>2. (n.kind = "start" <=> m.kind = "start") /\ (m.kind = "start" => n.status = m.status)
      <3>1. CASE m \in Starts
        <4>1. n \in Starts /\ n.status = m.status
          BY <3>1, AddedLinesFacts, WithLinesFacts
        <4> QED
          BY <3>1, <4>1, MessageFacts
      <3>2. CASE m \in Bodies
        <4>1. n = m
          BY <3>2, AddedLinesFacts, WithLinesFacts
        <4> QED
          BY <3>2, <4>1, MessageFacts
      <3> QED
        BY <3>1, <3>2 DEF Messages
    <2> HIDE DEF n
    <2>3. Relay(k, st, m).st = IF n.kind = "start" THEN [st EXCEPT !.status = n.status] ELSE st
      BY <2>1, GivesFacts DEF NoteStatus
    <2>4. Relay(k, st, m).out = <<n>>
      BY <2>1, GivesFacts DEF NoteStatus
    <2> QED
      BY <1>2, <2>2, <2>3, <2>4 DEF Counting, n
  <1>3. CASE k \notin Counting
    <2>1. Relay(k, st, m) = Gives(st, <<WithLines(m, AddedLines(k))>>)
      BY <1>3 DEF Relay, AddLines, Lining, Kinds, Counting
    <2> QED
      BY <1>3, <2>1, GivesFacts
  <1> QED
    BY <1>1, <1>2, <1>3 DEF Counting

\* Those that add lines, and those that count.
LEMMA RelayLining ==
  ASSUME NEW k \in Lining, NEW st \in States, NEW in \in Answers, NEW o \in Answers,
         NEW m \in Messages, Fits(in, m), Adds(k, st, in, o)
  PROVE  RelayOK(k, st, in, o, m)
  <1> DEFINE r == Relay(k, st, m)
             n == WithLines(m, AddedLines(k))
             lines == AddedLines(k)
  <1>1. lines \in Seq(LineSet)
    BY AddedLinesFacts
  <1>2. /\ r.out = <<n>>
        /\ r.st = IF k \in Counting /\ m.kind = "start" THEN [st EXCEPT !.status = m.status] ELSE st
    BY LiningRelay
  <1>3. /\ FitsAll(o, r.out) <=> Fits(o, n)
        /\ DeliverAll(o, r.out) = Deliver(o, n)
    BY <1>2, FewDelivered
  <1>4. Lined(k, in, o) /\ (k \in Counting => st.status = StatusOf(in))
    BY DEF Adds
  <1>5. CASE m \in Starts
    <2>1. /\ n \in Starts /\ (n.coded <=> m.coded)
          /\ m.kind = "start" /\ m.status \in Nat /\ n.kind = "start"
      BY <1>1, <1>5, WithLinesFacts, MessageFacts
    <2>2. /\ Deliver(in, m).start = <<m>>
          /\ Deliver(in, m).raw = in.raw /\ Deliver(in, m).size = in.size
          /\ Deliver(in, m).ended = in.ended
          /\ Deliver(in, m).disorder <=> in.start # <<>>
          /\ in.start # <<>> => in.start = <<m>> /\ m.coded
      BY <1>5, DeliverStart
    <2>3. in.start # <<>> => o.start = <<n>>
      <3>1. in.start # <<>> => in.start[1] = m
        BY <2>2
      <3> QED
        BY <1>4, <3>1 DEF Lined
    <2>4. Fits(o, n)
      BY <1>4, <2>1, <2>2, <2>3 DEF Fits, Lined
    <2>5. /\ Deliver(o, n).start = <<n>>
          /\ Deliver(o, n).raw = o.raw /\ Deliver(o, n).size = o.size
          /\ Deliver(o, n).ended = o.ended
          /\ Deliver(o, n).disorder <=> o.start # <<>>
      BY <2>1, <2>4, DeliverStart
    <2>6. o.start # <<>> <=> in.start # <<>>
      BY <1>4 DEF Lined
    <2>7. <<m>> # <<>> /\ <<m>>[1] = m
      OBVIOUS
    <2>8. Lined(k, Deliver(in, m), Deliver(o, n))
      BY <1>4, <2>2, <2>5, <2>6, <2>7 DEF Lined
    <2>9. r.st = IF k \in Counting THEN [st EXCEPT !.status = m.status] ELSE st
      BY <1>2, <2>1
    <2>10. /\ r.st \in States /\ r.st.inside = st.inside /\ r.st.counts = st.counts
           /\ k \in Counting => r.st.status = m.status
      <3> HIDE DEF r
      <3> QED
        BY <2>1, <2>9 DEF States
    <2>11. StatusOf(Deliver(in, m)) = m.status
      BY <2>2, <2>7 DEF StatusOf
    <2>12. Passes(k, r.st, Deliver(in, m), DeliverAll(o, r.out))
      BY <1>3, <2>8, <2>10, <2>11 DEF Passes, Adds, Lining
    <2>13. r.out \in Seq(Messages)
      <3>1. n \in Messages
        BY <2>1 DEF Messages
      <3>2. <<n>> \in Seq(Messages)
        BY <3>1, FewMessages
      <3> HIDE DEF n, r
      <3> QED
        BY <1>2, <3>2
    <2> QED
      BY <1>3, <2>4, <2>10, <2>12, <2>13 DEF RelayOK
  <1>6. CASE m \in Bodies
    <2>1. n = m /\ m.kind = "body"
      BY <1>1, <1>6, WithLinesFacts, MessageFacts
    <2>2. r.st = st
      BY <1>2, <2>1
    <2>3. /\ in.start # <<>>
          /\ Deliver(in, m).start = in.start
          /\ Deliver(in, m).raw = in.raw + m.raw /\ Deliver(in, m).size = in.size + m.size
          /\ Deliver(in, m).ended <=> (in.ended \/ ~m.more)
          /\ Deliver(in, m).disorder <=> (in.disorder \/ in.ended)
          /\ in.ended => m.raw = 0 /\ m.size = 0 /\ in.start[1].coded
      BY <1>6, DeliverBody
    <2>4. o.start = <<WithLines(in.start[1], lines)>> /\ o.start # <<>>
      BY <1>4, <2>3 DEF Lined
    <2>5. o.start[1].coded <=> in.start[1].coded
      <3>1. in.start[1] \in Starts
        BY <2>3, AnswerFacts
      <3> HIDE DEF lines
      <3> QED
        BY <1>1, <2>4, <3>1, WithLinesFacts
    <2>6. Fits(o, n)
      BY <1>4, <2>1, <2>3, <2>4, <2>5 DEF Fits, Lined
    <2>7. /\ Deliver(o, n).start = o.start
          /\ Deliver(o, n).raw = o.raw + m.raw /\ Deliver(o, n).size = o.size + m.size
          /\ Deliver(o, n).ended <=> (o.ended \/ ~m.more)
          /\ Deliver(o, n).disorder <=> (o.disorder \/ o.ended)
      BY <1>6, <2>1, <2>6, DeliverBody
    <2>8. Lined(k, Deliver(in, m), Deliver(o, n))
      BY <1>4, <2>3, <2>4, <2>7 DEF Lined
    <2>9. StatusOf(Deliver(in, m)) = StatusOf(in)
      BY <2>3 DEF StatusOf
    <2>10. Passes(k, r.st, Deliver(in, m), DeliverAll(o, r.out))
      BY <1>3, <1>4, <2>2, <2>8, <2>9 DEF Passes, Adds, Lining
    <2>11. r.out \in Seq(Messages)
      <3>1. <<m>> \in Seq(Messages)
        BY FewMessages
      <3> HIDE DEF n, r
      <3> QED
        BY <1>2, <2>1, <3>1
    <2> QED
      BY <1>3, <2>2, <2>6, <2>10, <2>11 DEF RelayOK
  <1> QED
    BY <1>5, <1>6 DEF Messages

\* A start message and a body make an answer.
LEMMA WholeAnswer ==
  ASSUME NEW s \in Starts, NEW raw \in Nat, NEW size \in Nat, NEW more \in BOOLEAN
  PROVE  LET ms == <<s, BodyMsg(raw, size, more)>>
             w == DeliverAll(NoAnswer, ms)
         IN  /\ ms \in Seq(Messages) /\ FitsAll(NoAnswer, ms)
             /\ w \in Answers /\ w.start = <<s>> /\ w.raw = raw /\ w.size = size
             /\ (w.ended <=> ~more) /\ ~w.disorder
  <1> DEFINE b == BodyMsg(raw, size, more)
             ms == <<s, b>>
             v == Deliver(NoAnswer, s)
             w == Deliver(v, b)
  <1>1. /\ s.kind = "start" /\ b \in Bodies /\ b.kind = "body" /\ b.raw = raw /\ b.size = size
        /\ (b.more <=> more) /\ <<s>> # <<>> /\ NoAnswer \in Answers
    BY MessageFacts DEF BodyMsg
  <1>2. NoAnswer.start = <<>> /\ NoAnswer.raw = 0 /\ NoAnswer.size = 0 /\ ~NoAnswer.ended /\ ~NoAnswer.disorder
    BY DEF NoAnswer
  <1>3. Fits(NoAnswer, s)
    BY <1>1, <1>2 DEF Fits
  <1>4. /\ v \in Answers /\ v.start = <<s>> /\ v.raw = 0 /\ v.size = 0 /\ (v.ended <=> NoAnswer.ended)
        /\ v.disorder <=> NoAnswer.start # <<>>
    BY <1>1, <1>2, <1>3, DeliverStart, ZenonT(60)
  <1> HIDE DEF b, v
  <1>5. Fits(v, b)
    BY <1>1, <1>2, <1>4 DEF Fits
  <1>6. /\ w \in Answers /\ w.start = v.start /\ w.raw = v.raw + b.raw /\ w.size = v.size + b.size
        /\ w.ended <=> (v.ended \/ ~b.more)
        /\ w.disorder <=> (v.disorder \/ v.ended)
    BY <1>1, <1>4, <1>5, DeliverBody
  <1>7. w.raw = raw /\ w.size = size
    BY <1>1, <1>4, <1>6
  <1>8. DeliverAll(NoAnswer, ms) = w /\ (FitsAll(NoAnswer, ms) <=> Fits(NoAnswer, s) /\ Fits(v, b))
    BY FewDelivered DEF v
  <1>9. ms \in Seq(Messages)
    <2>1. s \in Messages /\ b \in Messages
      BY <1>1 DEF Messages
    <2> QED
      BY <2>1, FewMessages
  <1> HIDE DEF ms, w
  <1>10. /\ ms \in Seq(Messages) /\ FitsAll(NoAnswer, ms)
         /\ DeliverAll(NoAnswer, ms) = w
         /\ w \in Answers /\ w.start = <<s>> /\ w.raw = raw /\ w.size = size
         /\ (w.ended <=> ~more) /\ ~w.disorder
    BY <1>1, <1>2, <1>3, <1>4, <1>5, <1>6, <1>7, <1>8, <1>9
  <1> QED
    BY <1>10 DEF ms, b

\* A start message with compressed content keeps its status.
LEMMA CompressedFacts ==
  ASSUME NEW m \in Starts, NEW lens \in Seq(Nat)
  PROVE  LET c == Compressed(m, lens) IN
         /\ c \in Starts /\ c.status = m.status /\ c.lens = lens /\ c.coded
         /\ c.lines = m.lines \o <<Line("vary", "gzip")>>
  <1> DEFINE n == [m EXCEPT !.lens = lens, !.coded = TRUE]
             lines == <<Line("vary", "gzip")>>
  <1>1. n \in Starts /\ n.status = m.status /\ n.lens = lens /\ n.coded /\ n.lines = m.lines
    BY DEF Starts
  <1>2. lines \in Seq(LineSet)
    BY DEF Line, LineSet
  <1>3. Compressed(m, lens) = WithLines(n, lines)
    BY DEF Compressed
  <1> HIDE DEF n, lines
  <1>4. /\ WithLines(n, lines) \in Starts /\ WithLines(n, lines).lines = n.lines \o lines
        /\ WithLines(n, lines).status = n.status /\ WithLines(n, lines).lens = n.lens
        /\ (WithLines(n, lines).coded <=> n.coded)
    BY <1>1, <1>2, WithLinesFacts
  <1> QED
    BY <1>1, <1>3, <1>4 DEF lines

\* What is buffered, at once.
LEMMA FlushedFacts ==
  ASSUME NEW st \in States, st.held # <<>>
  PROVE  LET f == Flushed(st) IN
         /\ f.st \in States /\ f.st.inside = st.inside /\ f.st.counts = st.counts
         /\ \E s \in Starts, n \in Nat :
              /\ f.out = <<s, BodyMsg(st.raw, n, FALSE)>>
              /\ \/ s = st.held[1] /\ n = st.size
                 \/ s = Compressed(st.held[1], <<n>>) /\ st.size >= MinimumSize
  <1> DEFINE s == st.held[1]
             f == Flushed(st)
  <1>1. /\ st.held = <<s>> /\ s \in Starts /\ st.raw \in Nat /\ st.size \in Nat /\ Last(st.held) = s
        /\ MinimumSize \in Nat
    <2>1. st.held = <<s>> /\ s \in Starts /\ st.raw \in Nat /\ st.size \in Nat /\ Len(st.held) = 1
      BY StateFacts
    <2> QED
      BY <2>1, ExchangeAssumption DEF Last, ExchangeAssumption
  <1>2. CASE st.size < MinimumSize
    <2>1. f = Gives([st EXCEPT !.pass = TRUE], PassedThrough(st, st.size))
      BY <1>2 DEF Flushed
    <2>2. f.st = [st EXCEPT !.pass = TRUE] /\ f.out = PassedThrough(st, st.size)
      BY <2>1, GivesFacts
    <2>3. <<s>> \o <<BodyMsg(st.raw, st.size, FALSE)>> = <<s, BodyMsg(st.raw, st.size, FALSE)>>
      <3>1. BodyMsg(st.raw, st.size, FALSE) \in Messages /\ s \in Messages
        BY <1>1, MessageFacts DEF Messages
      <3> QED
        BY <3>1, InARow
    <2>4. PassedThrough(st, st.size) = <<s>> \o <<BodyMsg(st.raw, st.size, FALSE)>>
      BY <1>1 DEF PassedThrough
    <2>5. [st EXCEPT !.pass = TRUE] \in States /\ [st EXCEPT !.pass = TRUE].inside = st.inside
          /\ [st EXCEPT !.pass = TRUE].counts = st.counts
      BY DEF States
    <2> HIDE DEF f
    <2>6. f.st \in States /\ f.st.inside = st.inside /\ f.st.counts = st.counts
      BY <2>2, <2>5
    <2> QED
      BY <1>1, <2>2, <2>3, <2>4, <2>6 DEF f
  <1>3. CASE ~(st.size < MinimumSize)
    <2> DEFINE n == Zipped(st.size)
               c == Compressed(s, <<n>>)
    <2>1. f = Gives(st, <<Compressed(Last(st.held), <<n>>), BodyMsg(st.raw, n, FALSE)>>)
      BY <1>3 DEF Flushed
    <2>2. f.st = st /\ f.out = <<c, BodyMsg(st.raw, n, FALSE)>>
      <3>1. Compressed(Last(st.held), <<n>>) = c
        BY <1>1
      <3> HIDE DEF c, n, f
      <3>2. f = Gives(st, <<c, BodyMsg(st.raw, n, FALSE)>>)
        BY <2>1, <3>1
      <3> QED
        BY <3>2, GivesFacts
    <2>3. n \in Nat /\ <<n>> \in Seq(Nat)
      BY <1>1 DEF Zipped
    <2>4. c \in Starts
      BY <1>1, <2>3, CompressedFacts
    <2>5. st.size >= MinimumSize
      BY <1>1, <1>3
    <2> HIDE DEF n, c, f
    <2> QED
      BY <2>2, <2>3, <2>4, <2>5 DEF c, f
  <1> QED
    BY <1>2, <1>3

\* GZipMiddleware forwards what is encoded.
LEMMA GzipForwards ==
  ASSUME NEW st \in States, NEW in \in Answers, NEW m \in Messages, Fits(in, m),
         \/ Waits(st, in, in) /\ m \in Starts /\ m.coded
         \/ Forwards(st, in, in)
  PROVE  RelayOK("gzip", st, in, in, m)
  <1> DEFINE r == Relay("gzip", st, m)
  <1>1. r = GzipSend(st, m)
    BY DEF Relay
  <1>2. FitsAll(in, <<m>>) /\ DeliverAll(in, <<m>>) = Deliver(in, m) /\ <<m>> \in Seq(Messages)
    BY FewDelivered, FewMessages
  <1>3. CASE m \in Starts
    <2>1. m.kind = "start" /\ <<m>> \in Optional(Starts) /\ <<m>> # <<>> /\ <<m>>[1] = m
      BY <1>3, MessageFacts
    <2>2. m.coded
      BY <1>3, DeliverStart DEF Forwards
    <2>3. r = Gives([st EXCEPT !.held = <<m>>, !.pass = TRUE], <<m>>)
      BY <1>1, <2>1, <2>2 DEF GzipSend
    <2>4. r.st = [st EXCEPT !.held = <<m>>, !.pass = TRUE] /\ r.out = <<m>>
      BY <2>3, GivesFacts
    <2>5. st.raw = 0 /\ st.size = 0 /\ ~st.started
      BY DEF Waits, Forwards
    <2> HIDE DEF r
    <2>6. /\ r.st \in States /\ r.st.inside = st.inside /\ r.st.counts = st.counts
          /\ r.st.held = <<m>> /\ r.st.pass /\ r.st.raw = 0 /\ r.st.size = 0 /\ ~r.st.started
      BY <2>1, <2>4, <2>5 DEF States
    <2>7. Deliver(in, m).start = <<m>>
      BY <1>3, DeliverStart
    <2>8. Forwards(r.st, Deliver(in, m), Deliver(in, m))
      BY <2>1, <2>2, <2>6, <2>7 DEF Forwards
    <2>9. Passes("gzip", r.st, Deliver(in, m), Deliver(in, m))
      BY <2>8 DEF Passes, Zips
    <2> QED
      BY <1>2, <2>4, <2>6, <2>9 DEF RelayOK, r
  <1>4. CASE m \in Bodies
    <2>1. m.kind = "body" /\ Forwards(st, in, in)
      BY <1>4, MessageFacts
    <2>2. r = Gives(st, <<m>>)
      BY <1>1, <2>1 DEF GzipSend, Forwards
    <2>3. r.st = st /\ r.out = <<m>>
      BY <2>2, GivesFacts
    <2>4. Deliver(in, m).start = in.start
      BY <1>4, DeliverBody
    <2>5. Forwards(st, Deliver(in, m), Deliver(in, m))
      BY <2>1, <2>4 DEF Forwards
    <2>6. Passes("gzip", st, Deliver(in, m), Deliver(in, m))
      BY <2>5 DEF Passes, Zips
    <2> HIDE DEF r
    <2> QED
      BY <1>2, <2>3, <2>6 DEF RelayOK, r
  <1> QED
    BY <1>3, <1>4 DEF Messages

\* It holds back the start of an answer that is not.
LEMMA GzipHolds ==
  ASSUME NEW st \in States, NEW in \in Answers, NEW o \in Answers, NEW m \in Starts, ~m.coded,
         Waits(st, in, o)
  PROVE  RelayOK("gzip", st, in, o, m)
  <1> DEFINE r == Relay("gzip", st, m)
  <1>1. r = GzipSend(st, m)
    BY DEF Relay
  <1>2. m.kind = "start" /\ <<m>> \in Optional(Starts) /\ <<m>> # <<>> /\ <<m>>[1] = m
    BY MessageFacts
  <1>3. r = Gives([st EXCEPT !.held = <<m>>], <<>>)
    BY <1>1, <1>2 DEF GzipSend
  <1>4. r.st = [st EXCEPT !.held = <<m>>] /\ r.out = <<>>
    BY <1>3, GivesFacts
  <1>5. FitsAll(o, <<>>) /\ DeliverAll(o, <<>>) = o /\ <<>> \in Seq(Messages)
    BY FewDelivered, FewMessages
  <1>6. st.raw = 0 /\ st.size = 0 /\ ~st.started /\ ~st.pass /\ in = NoAnswer /\ o = NoAnswer
    BY DEF Waits
  <1> HIDE DEF r
  <1>7. /\ r.st \in States /\ r.st.inside = st.inside /\ r.st.counts = st.counts
        /\ r.st.held = <<m>> /\ ~r.st.pass /\ r.st.raw = 0 /\ r.st.size = 0 /\ ~r.st.started
    BY <1>2, <1>4, <1>6 DEF States
  <1>8. in.start = <<>> /\ in.raw = 0 /\ in.size = 0 /\ ~in.ended
    BY <1>6 DEF NoAnswer
  <1>9. Fits(in, m)
    BY <1>2, <1>8 DEF Fits
  <1>10. /\ Deliver(in, m).start = <<m>> /\ Deliver(in, m).raw = 0 /\ Deliver(in, m).size = 0
         /\ ~Deliver(in, m).ended
    BY <1>8, <1>9, DeliverStart
  <1>11. Buffers(r.st, Deliver(in, m), o)
    BY <1>2, <1>6, <1>7, <1>10 DEF Buffers, Uncoded
  <1>12. Passes("gzip", r.st, Deliver(in, m), o)
    BY <1>11 DEF Passes, Zips
  <1> QED
    BY <1>4, <1>5, <1>7, <1>12 DEF RelayOK, r

\* Only body messages follow the start of an answer that is not encoded, and
\* none its end.
LEMMA AfterUncoded ==
  ASSUME NEW in \in Answers, NEW m \in Messages, Fits(in, m), Uncoded(in)
  PROVE  /\ m \in Bodies /\ ~in.ended
         /\ Uncoded(Deliver(in, m)) /\ Deliver(in, m).start = in.start
         /\ Deliver(in, m).raw = in.raw + m.raw /\ Deliver(in, m).size = in.size + m.size
         /\ Deliver(in, m).ended <=> ~m.more
  <1>1. m \in Bodies
    <2> SUFFICES ASSUME m \in Starts PROVE FALSE
      BY DEF Messages
    <2>1. m.kind = "start" /\ <<m>>[1] = m
      BY MessageFacts
    <2>2. in.start = <<m>> /\ m.coded
      BY <2>1 DEF Fits, Uncoded
    <2> QED
      BY <2>1, <2>2 DEF Uncoded
  <1>2. /\ Deliver(in, m).start = in.start
        /\ Deliver(in, m).raw = in.raw + m.raw /\ Deliver(in, m).size = in.size + m.size
        /\ Deliver(in, m).ended <=> (in.ended \/ ~m.more)
        /\ in.ended => in.start[1].coded
    BY <1>1, DeliverBody
  <1>3. ~in.ended
    BY <1>2 DEF Uncoded
  <1> QED
    BY <1>1, <1>2, <1>3 DEF Uncoded

\* It compresses what follows once it streams.
LEMMA GzipStreams ==
  ASSUME NEW st \in States, NEW in \in Answers, NEW o \in Answers, NEW m \in Messages, Fits(in, m),
         Streams(st, in, o)
  PROVE  RelayOK("gzip", st, in, o, m)
  <1> DEFINE r == Relay("gzip", st, m)
             z == [m EXCEPT !.size = Zipped(@)]
  <1>1. /\ m \in Bodies /\ ~in.ended /\ Uncoded(Deliver(in, m)) /\ Deliver(in, m).start = in.start
        /\ Deliver(in, m).raw = in.raw + m.raw
        /\ Deliver(in, m).ended <=> ~m.more
    BY AfterUncoded DEF Streams
  <1>2. m.kind = "body" /\ m.raw \in Nat /\ m.size \in Nat /\ m.more \in BOOLEAN
    BY <1>1, MessageFacts
  <1>3. Zipped(m.size) \in Nat
    BY <1>2 DEF Zipped
  <1>4. /\ z \in Bodies /\ z.raw = m.raw /\ (z.more <=> m.more)
    BY <1>1, <1>3 DEF Bodies
  <1>5. r = Gives(st, <<z>>)
    BY <1>2 DEF Relay, GzipSend, Streams
  <1>6. r.st = st /\ r.out = <<z>>
    BY <1>5, GivesFacts
  <1>7. o.start # <<>> /\ ~o.ended /\ ~o.disorder
    BY <1>1 DEF Streams
  <1>8. z.kind = "body"
    BY <1>4, MessageFacts
  <1> HIDE DEF r, z
  <1>9. Fits(o, z)
    BY <1>7, <1>8 DEF Fits
  <1>10. /\ Deliver(o, z).start = o.start /\ Deliver(o, z).raw = o.raw + z.raw
         /\ Deliver(o, z).ended <=> (o.ended \/ ~z.more)
         /\ Deliver(o, z).disorder <=> (o.disorder \/ o.ended)
    BY <1>4, <1>9, DeliverBody
  <1>11. Streams(st, Deliver(in, m), Deliver(o, z))
    BY <1>1, <1>4, <1>7, <1>10 DEF Streams
  <1>12. Passes("gzip", st, Deliver(in, m), Deliver(o, z))
    BY <1>11 DEF Passes, Zips
  <1>13. FitsAll(o, <<z>>) /\ DeliverAll(o, <<z>>) = Deliver(o, z)
    BY <1>9, FewDelivered
  <1>14. <<z>> \in Seq(Messages)
    BY <1>4, FewMessages DEF Messages
  <1> QED
    BY <1>6, <1>12, <1>13, <1>14 DEF RelayOK, r

\* Until then it buffers, or compresses the whole body when it is at its end.
LEMMA GzipBuffers ==
  ASSUME NEW st \in States, NEW in \in Answers, NEW o \in Answers, NEW m \in Messages, Fits(in, m),
         Buffers(st, in, o)
  PROVE  RelayOK("gzip", st, in, o, m)
  <1> DEFINE r == Relay("gzip", st, m)
             b == Buffered(st, m)
             new == Deliver(in, m)
  <1>1. /\ m \in Bodies /\ Uncoded(new) /\ new.start = in.start
        /\ new.raw = in.raw + m.raw /\ new.size = in.size + m.size
        /\ new.ended <=> ~m.more
    BY AfterUncoded DEF Buffers
  <1>2. m.kind = "body" /\ m.raw \in Nat /\ m.size \in Nat /\ m.more \in BOOLEAN
    BY <1>1, MessageFacts
  <1>3. /\ st.held = in.start /\ st.raw = in.raw /\ st.size = in.size /\ ~st.started /\ ~st.pass
        /\ o = NoAnswer /\ in.start # <<>>
    BY DEF Buffers, Uncoded
  <1>4. /\ b \in States /\ b.inside = st.inside /\ b.counts = st.counts
        /\ b.held = new.start /\ b.raw = new.raw /\ b.size = new.size
        /\ ~b.started /\ ~b.pass /\ b.held # <<>>
    BY <1>1, <1>3, BufferedFacts
  <1>5. /\ r = IF ~m.more
                THEN Gives([Flushed(b).st EXCEPT !.started = TRUE], Flushed(b).out)
                ELSE IF b.size >= MinimumSize THEN Streaming(b) ELSE Gives(b, <<>>)
    BY <1>2, <1>3 DEF Relay, GzipSend
  <1>6. new \in Answers
    BY DeliverKeeps
  <1>7. /\ b.held = <<b.held[1]>> /\ b.held[1] \in Starts /\ Len(b.held) = 1
        /\ b.raw \in Nat /\ b.size \in Nat
    BY <1>4, StateFacts
  <1> HIDE DEF r, b, new
  <1>8. CASE ~m.more
    <2> DEFINE f == Flushed(b)
    <2>1. r.st = [f.st EXCEPT !.started = TRUE] /\ r.out = f.out
      BY <1>5, <1>8, GivesFacts
    <2>2. /\ f.st \in States /\ f.st.inside = b.inside /\ f.st.counts = b.counts
          /\ \E s \in Starts, n \in Nat :
              /\ f.out = <<s, BodyMsg(b.raw, n, FALSE)>>
              /\ \/ s = b.held[1] /\ n = b.size
                 \/ s = Compressed(b.held[1], <<n>>)
      BY <1>4, FlushedFacts
    <2> HIDE DEF f
    <2>3. /\ r.st \in States /\ r.st.inside = st.inside /\ r.st.counts = st.counts /\ r.st.started
      BY <1>4, <2>1, <2>2 DEF States
    <2>4. PICK s \in Starts, n \in Nat :
              /\ f.out = <<s, BodyMsg(b.raw, n, FALSE)>>
              /\ \/ s = b.held[1] /\ n = b.size
                 \/ s = Compressed(b.held[1], <<n>>)
      BY <2>2
    <2> DEFINE no == FALSE
               ms == <<s, BodyMsg(b.raw, n, no)>>
               w == DeliverAll(NoAnswer, ms)
    <2>5. no \in BOOLEAN /\ ~no /\ r.out = ms
      BY <2>1, <2>4
    <2> HIDE DEF no
    <2>6. /\ ms \in Seq(Messages) /\ FitsAll(NoAnswer, ms)
          /\ w \in Answers /\ w.start = <<s>> /\ w.raw = b.raw /\ w.size = n
          /\ (w.ended <=> ~no) /\ ~w.disorder
      BY <1>7, <2>5, WholeAnswer
    <2> HIDE DEF ms, w
    <2>7. Flushes(r.st, new, w)
      <3>1. \/ w.start = new.start /\ w.size = new.size
            \/ w.start = <<Compressed(new.start[1], <<w.size>>)>>
        BY <1>4, <1>7, <2>4, <2>6
      <3> QED
        BY <1>1, <1>4, <1>8, <2>3, <2>5, <2>6, <3>1 DEF Flushes
    <2>8. Passes("gzip", r.st, new, w)
      BY <2>7 DEF Passes, Zips
    <2> QED
      BY <1>3, <2>3, <2>5, <2>6, <2>8 DEF RelayOK, r, new, w
  <1>9. CASE m.more /\ b.size >= MinimumSize
    <2> DEFINE c == Compressed(b.held[1], <<>>)
               z == Zipped(b.size)
               yes == TRUE
               ms == <<c, BodyMsg(b.raw, z, yes)>>
    <2>1. Last(b.held) = b.held[1]
      BY <1>7 DEF Last
    <2>2. r = Gives([b EXCEPT !.started = TRUE, !.zip = TRUE], ms)
      BY <1>5, <1>9, <2>1 DEF Streaming
    <2>3. r.st = [b EXCEPT !.started = TRUE, !.zip = TRUE] /\ r.out = ms
      BY <2>2, GivesFacts
    <2>4. c \in Starts /\ z \in Nat
      <3>1. <<>> \in Seq(Nat)
        OBVIOUS
      <3>2. c \in Starts
        BY <1>7, <3>1, CompressedFacts
      <3>3. z \in Nat
        BY <1>7 DEF Zipped
      <3> QED
        BY <3>2, <3>3
    <2>5. yes \in BOOLEAN /\ yes
      OBVIOUS
    <2>6. /\ r.st \in States /\ r.st.inside = st.inside /\ r.st.counts = st.counts
          /\ r.st.started /\ r.st.zip /\ ~r.st.pass
      <3> HIDE DEF ms
      <3> QED
        BY <1>4, <2>3 DEF States
    <2> HIDE DEF yes, c, z
    <2>10. PICK s \in Starts, n \in Nat, y \in BOOLEAN :
             s = c /\ n = z /\ y /\ r.out = <<s, BodyMsg(b.raw, n, y)>>
      BY <2>3, <2>4, <2>5
    <2> HIDE DEF ms
    <2> DEFINE ns == <<s, BodyMsg(b.raw, n, y)>>
               v == DeliverAll(NoAnswer, ns)
    <2>11. r.out = ns
      BY <2>10
    <2>7. /\ ns \in Seq(Messages) /\ FitsAll(NoAnswer, ns)
          /\ v \in Answers /\ v.start = <<s>> /\ v.raw = b.raw
          /\ (v.ended <=> ~y) /\ ~v.disorder
      BY <1>7, WholeAnswer
    <2> HIDE DEF ns
    <2> HIDE DEF v
    <2>8. Streams(r.st, new, v)
      BY <1>1, <1>4, <1>9, <2>6, <2>7, <2>10 DEF Streams, c
    <2>9. Passes("gzip", r.st, new, v)
      BY <2>8 DEF Passes, Zips
    <2> QED
      BY <1>3, <2>6, <2>7, <2>9, <2>11 DEF RelayOK, r, new, v
  <1>10. CASE m.more /\ ~(b.size >= MinimumSize)
    <2>1. r.st = b /\ r.out = <<>>
      BY <1>5, <1>10, GivesFacts
    <2>2. FitsAll(o, <<>>) /\ DeliverAll(o, <<>>) = o /\ <<>> \in Seq(Messages)
      BY FewDelivered, FewMessages
    <2>3. Buffers(b, new, o)
      BY <1>1, <1>3, <1>4, <1>10 DEF Buffers
    <2>4. Passes("gzip", b, new, o)
      BY <2>3 DEF Passes, Zips
    <2> QED
      BY <1>4, <2>1, <2>2, <2>4 DEF RelayOK, r, new
  <1> QED
    BY <1>8, <1>9, <1>10

\* GZipMiddleware, in each of its states.
LEMMA RelayGzip ==
  ASSUME NEW st \in States, NEW in \in Answers, NEW o \in Answers, NEW m \in Messages, Fits(in, m),
         Zips(st, in, o)
  PROVE  RelayOK("gzip", st, in, o, m)
  <1>1. CASE Waits(st, in, o)
    <2>1. in.start = <<>> /\ o = in
      BY <1>1 DEF Waits, NoAnswer
    <2>2. m \in Starts
      <3> SUFFICES ASSUME m \in Bodies PROVE FALSE
        BY DEF Messages
      <3> QED
        BY <2>1, MessageFacts DEF Fits
    <2>3. CASE m.coded
      BY <1>1, <2>1, <2>2, <2>3, GzipForwards
    <2>4. CASE ~m.coded
      BY <1>1, <2>2, <2>4, GzipHolds
    <2> QED
      BY <2>3, <2>4
  <1>2. CASE Forwards(st, in, o)
    <2>1. o = in
      BY <1>2 DEF Forwards
    <2> QED
      BY <1>2, <2>1, GzipForwards
  <1>3. CASE Buffers(st, in, o)
    BY <1>3, GzipBuffers
  <1>4. CASE Streams(st, in, o)
    BY <1>4, GzipStreams
  <1>5. CASE Flushes(st, in, o)
    BY <1>5, AfterUncoded DEF Flushes
  <1> QED
    BY <1>1, <1>2, <1>3, <1>4, <1>5 DEF Zips

\* Every middleware keeps to what it passes on, message by message,
LEMMA RelayStep ==
  ASSUME NEW k \in Kinds, NEW st \in States, NEW in \in Answers, NEW o \in Answers,
         NEW m \in Messages, Fits(in, m), Passes(k, st, in, o)
  PROVE  RelayOK(k, st, in, o, m)
  <1>1. CASE k = "gzip"
    BY <1>1, RelayGzip DEF Passes
  <1>2. CASE k = "hooks"
    BY <1>2, RelayHooks DEF Passes
  <1>3. CASE k = "errors"
    BY <1>3, RelayErrors DEF Passes
  <1>4. CASE k \in Lining
    BY <1>4, RelayLining DEF Passes, Lining
  <1> QED
    BY <1>1, <1>2, <1>3, <1>4 DEF Lining

-----------------------------------------------------------------------------
(* Several messages                                                         *)

\* Where a middleware is after some messages.
RelayedOK(k, st, in, o, r, now) ==
  /\ r.st \in States /\ r.st.inside = st.inside /\ r.st.counts = st.counts
  /\ r.out \in Seq(Messages) /\ FitsAll(o, r.out)
  /\ Passes(k, r.st, now, DeliverAll(o, r.out))

\* and for a sequence of messages.
LEMMA RelayAllStep ==
  ASSUME NEW k \in Kinds, NEW st \in States, NEW in \in Answers, NEW o \in Answers,
         NEW ms \in Seq(Messages), FitsAll(in, ms), Passes(k, st, in, o)
  PROVE  RelayedOK(k, st, in, o, RelayAll(k, st, ms), DeliverAll(in, ms))
  <1> DEFINE after == Relayed(k, st, ms)
             now == Delivered(in, ms)
             S == {n \in 0..Len(ms) : RelayedOK(k, st, in, o, after[n], now[n])}
  <1>1. Len(ms) \in Nat /\ \A n \in 1..Len(ms) : ms[n] \in Messages
    OBVIOUS
  <1>2. /\ now[0] = in
        /\ \A n \in 1..Len(ms) : now[n] = Deliver(now[n - 1], ms[n])
    BY <1>1, DeliveredFacts
  <1>3. /\ after[0] = Gives(st, <<>>)
        /\ \A n \in 1..Len(ms) :
             after[n] = Gives(Relay(k, after[n - 1].st, ms[n]).st,
                              after[n - 1].out \o Relay(k, after[n - 1].st, ms[n]).out)
    BY <1>1, RelayedFacts
  <1>4. \A n \in 0..Len(ms) : now[n] \in Answers
    BY DeliverAllKeeps
  <1>5. RelayAll(k, st, ms) = after[Len(ms)] /\ DeliverAll(in, ms) = now[Len(ms)]
    BY DEF RelayAll, DeliverAll
  <1>6. \A n \in 1..Len(ms) : Fits(now[n - 1], ms[n])
    BY DEF FitsAll
  <1> HIDE DEF after, now
  <1>7. 0 \in S
    <2>1. after[0].st = st /\ after[0].out = <<>>
      BY <1>3, GivesFacts
    <2>2. FitsAll(o, <<>>) /\ DeliverAll(o, <<>>) = o /\ <<>> \in Seq(Messages)
      BY FewDelivered, FewMessages
    <2>3. RelayedOK(k, st, in, o, after[0], now[0])
      BY <1>2, <2>1, <2>2 DEF RelayedOK
    <2> QED
      BY <1>1, <2>3
  <1>8. ASSUME NEW n \in 0..Len(ms), n \in S, n < Len(ms) PROVE n + 1 \in S
    <2> DEFINE a == after[n]
               r == Relay(k, a.st, ms[n + 1])
               v == DeliverAll(o, a.out)
    <2>1. n + 1 \in 1..Len(ms) /\ (n + 1) - 1 = n /\ n + 1 \in 0..Len(ms)
      BY <1>1, <1>8
    <2>2. /\ a.st \in States /\ a.st.inside = st.inside /\ a.st.counts = st.counts
          /\ a.out \in Seq(Messages) /\ FitsAll(o, a.out)
          /\ Passes(k, a.st, now[n], v)
      BY <1>8 DEF RelayedOK
    <2>3. now[n] \in Answers /\ v \in Answers /\ Fits(now[n], ms[n + 1]) /\ ms[n + 1] \in Messages
          /\ now[n + 1] = Deliver(now[n], ms[n + 1])
      BY <1>1, <1>2, <1>4, <1>6, <2>1, <2>2, DeliverAllKeeps
    <2>4. /\ after[n + 1].st = r.st /\ after[n + 1].out = a.out \o r.out
      <3>1. after[n + 1] = Gives(Relay(k, after[n].st, ms[n + 1]).st,
                                 after[n].out \o Relay(k, after[n].st, ms[n + 1]).out)
        BY <1>3, <2>1
      <3> DEFINE st1 == r.st
                 out1 == a.out \o r.out
      <3>2. after[n + 1] = Gives(st1, out1)
        BY <3>1
      <3> HIDE DEF st1, out1
      <3>3. after[n + 1].st = st1 /\ after[n + 1].out = out1
        BY <3>2, GivesFacts
      <3> QED
        BY <3>3 DEF st1, out1
    <2> HIDE DEF a, v
    <2>5. RelayOK(k, a.st, now[n], v, ms[n + 1])
      BY <2>2, <2>3, RelayStep
    <2>6. /\ r.st \in States /\ r.st.inside = a.st.inside /\ r.st.counts = a.st.counts
          /\ r.out \in Seq(Messages) /\ FitsAll(v, r.out)
          /\ Passes(k, r.st, Deliver(now[n], ms[n + 1]), DeliverAll(v, r.out))
      BY <2>5 DEF RelayOK
    <2> HIDE DEF r
    <2>7. /\ DeliverAll(o, a.out \o r.out) = DeliverAll(v, r.out)
          /\ FitsAll(o, a.out \o r.out)
      BY <2>2, <2>6, ConcatDelivered DEF v
    <2>8. a.out \o r.out \in Seq(Messages)
      BY <2>2, <2>6, ConcatProperties
    <2>9. RelayedOK(k, st, in, o, after[n + 1], now[n + 1])
      BY <2>2, <2>3, <2>4, <2>6, <2>7, <2>8 DEF RelayedOK
    <2> QED
      BY <2>1, <2>9
  <1>9. \A n \in 0..Len(ms) : n \in S
    <2> HIDE DEF S
    <2> QED
      BY <1>1, <1>7, <1>8, Induction
  <1>10. Len(ms) \in 0..Len(ms)
    BY <1>1
  <1> QED
    BY <1>5, <1>9, <1>10

-----------------------------------------------------------------------------
(* The pipeline                                                             *)

\* The pipeline, what it keeps and what it has sent.
Pipeline(states) ==
  /\ pipe \in Seq(Kinds)
  /\ states \in [1..Len(pipe) -> States]
  /\ sent \in [1..Inner -> Answers]

\* What position d + 1 sends passes all of the middlewares of d .. 1, which
\* pass on what they were sent.
LEMMA SendStep ==
  ASSUME NEW states, Pipeline(states), NEW d \in 0..Len(pipe), UNCHANGED pipe,
         NEW ms \in Seq(Messages), FitsAll(sent[d + 1], ms),
         \A i \in 1..d : Passes(pipe[i], states[i], sent[i + 1], sent[i]),
         SendWith(states, d, ms)
  PROVE  /\ mw' \in [1..Len(pipe) -> States] /\ sent' \in [1..Inner -> Answers]
         /\ sent'[d + 1] = DeliverAll(sent[d + 1], ms)
         /\ \A i \in d + 2..Inner : sent'[i] = sent[i]
         /\ \A i \in d + 1..Len(pipe) : mw'[i] = states[i]
         /\ \A i \in 1..Len(pipe) :
              mw'[i].inside = states[i].inside /\ mw'[i].counts = states[i].counts
         /\ \A i \in 1..d : Passes(pipe[i], mw'[i], sent'[i + 1], sent'[i])
  <1> DEFINE leaving == Outward(states, d, ms)
             all(i) == RelayAll(pipe[i], states[i], leaving[i + 1])
             OK(i) == leaving[i] \in Seq(Messages) /\ FitsAll(sent[i], leaving[i])
             S == {i \in 1..d + 1 : OK(i)}
  <1>1. /\ Len(pipe) \in Nat /\ Inner = Len(pipe) + 1 /\ d \in Nat /\ d <= Len(pipe)
        /\ \A i \in 1..Len(pipe) : pipe[i] \in Kinds /\ states[i] \in States
        /\ \A i \in 1..Inner : sent[i] \in Answers
    <2>1. pipe \in Seq(Kinds) /\ states \in [1..Len(pipe) -> States] /\ sent \in [1..Inner -> Answers]
      BY DEF Pipeline
    <2>2. Len(pipe) \in Nat /\ \A i \in 1..Len(pipe) : pipe[i] \in Kinds
      BY <2>1
    <2> QED
      BY <2>1, <2>2, SMTT(30) DEF Inner
  <1>2. leaving[d + 1] = ms /\ \A i \in 1..d : leaving[i] = all(i).out
    <2>1. d \in Nat
      BY <1>1
    <2>2. Outward(states, d, ms)[d + 1] = ms
      BY <2>1, OutwardFacts
    <2>3. \A i \in 1..d : Outward(states, d, ms)[i] =
                            RelayAll(pipe[i], states[i], Outward(states, d, ms)[i + 1]).out
      BY <2>1, OutwardFacts
    <2> QED
      BY <2>2, <2>3
  <1>3. ASSUME NEW i \in 1..d, OK(i + 1)
        PROVE  RelayedOK(pipe[i], states[i], sent[i + 1], sent[i], all(i),
                         DeliverAll(sent[i + 1], leaving[i + 1]))
    <2>1. /\ i \in 1..Len(pipe) /\ i \in 1..Inner /\ i + 1 \in 1..Inner
      BY <1>1
    <2>2. /\ pipe[i] \in Kinds /\ states[i] \in States /\ sent[i] \in Answers /\ sent[i + 1] \in Answers
      BY <1>1, <2>1
    <2> HIDE DEF leaving
    <2> QED
      BY <1>3, <2>2, RelayAllStep
  <1>4. d + 1 \in S
    BY <1>1, <1>2
  <1>5. ASSUME NEW n \in 1..d + 1, n \in S, n > 1 PROVE n - 1 \in S
    <2>1. n - 1 \in 1..d /\ (n - 1) + 1 = n /\ n - 1 \in 1..d + 1
      BY <1>1, <1>5
    <2> HIDE DEF leaving
    <2>2. RelayedOK(pipe[n - 1], states[n - 1], sent[n], sent[n - 1], all(n - 1),
                    DeliverAll(sent[n], leaving[n]))
      BY <1>3, <1>5, <2>1
    <2>3. OK(n - 1)
      BY <1>2, <2>1, <2>2 DEF RelayedOK
    <2> QED
      BY <2>1, <2>3
  <1>6. \A i \in 1..d + 1 : OK(i)
    <2>1. \A i \in 1..d + 1 : i \in S
      <3>1. d + 1 \in Nat
        BY <1>1
      <3> HIDE DEF S
      <3> QED
        BY <1>4, <1>5, <3>1, Descent
    <2> QED
      BY <2>1
  <1> HIDE DEF leaving
  <1>7. \A i \in 1..d :
          RelayedOK(pipe[i], states[i], sent[i + 1], sent[i], all(i),
                    DeliverAll(sent[i + 1], leaving[i + 1]))
    <2>1. ASSUME NEW i \in 1..d PROVE i + 1 \in 1..d + 1
      BY <1>1
    <2> HIDE DEF OK, all
    <2> QED
      BY <1>3, <1>6, <2>1
  <1>8. /\ mw' = [i \in 1..Len(pipe) |-> IF i <= d THEN all(i).st ELSE states[i]]
        /\ sent' = [i \in 1..Inner |-> IF i <= d + 1 THEN DeliverAll(sent[i], leaving[i]) ELSE sent[i]]
    BY DEF SendWith, leaving, PassOn, SentOn
  <1>9. /\ \A i \in 1..d : mw'[i] = all(i).st
        /\ \A i \in d + 1..Len(pipe) : mw'[i] = states[i]
        /\ \A i \in 1..d + 1 : sent'[i] = DeliverAll(sent[i], leaving[i])
        /\ \A i \in d + 2..Inner : sent'[i] = sent[i]
    BY <1>1, <1>8
  <1>10. mw' \in [1..Len(pipe) -> States]
    <2>1. \A i \in 1..Len(pipe) : IF i <= d THEN all(i).st \in States ELSE states[i] \in States
      BY <1>1, <1>7 DEF RelayedOK
    <2> HIDE DEF all
    <2> QED
      BY <1>8, <2>1
  <1>11. sent' \in [1..Inner -> Answers]
    <2>1. \A i \in 1..Inner : i <= d + 1 => DeliverAll(sent[i], leaving[i]) \in Answers
      <3>1. ASSUME NEW i \in 1..Inner, i <= d + 1 PROVE DeliverAll(sent[i], leaving[i]) \in Answers
        <4>1. i \in 1..d + 1 /\ sent[i] \in Answers
          BY <1>1, <3>1
        <4>2. leaving[i] \in Seq(Messages) /\ FitsAll(sent[i], leaving[i])
          BY <1>6, <4>1
        <4> QED
          BY <4>1, <4>2, DeliverAllKeeps
      <3> QED
        BY <3>1
    <2> QED
      BY <1>1, <1>8, <2>1
  <1>12. sent'[d + 1] = DeliverAll(sent[d + 1], ms)
    BY <1>1, <1>2, <1>9
  <1>13. ASSUME NEW i \in 1..d PROVE Passes(pipe[i], mw'[i], sent'[i + 1], sent'[i])
    <2>1. /\ i + 1 \in 1..d + 1 /\ i \in 1..d + 1
      BY <1>1
    <2>2. /\ Passes(pipe[i], all(i).st, DeliverAll(sent[i + 1], leaving[i + 1]), DeliverAll(sent[i], all(i).out))
      BY <1>7 DEF RelayedOK
    <2>3. /\ leaving[i] = all(i).out /\ mw'[i] = all(i).st
          /\ sent'[i] = DeliverAll(sent[i], leaving[i])
          /\ sent'[i + 1] = DeliverAll(sent[i + 1], leaving[i + 1])
      BY <1>2, <1>9, <2>1
    <2> HIDE DEF all
    <2> QED
      BY <2>2, <2>3
  <1>14. ASSUME NEW i \in 1..Len(pipe)
         PROVE  mw'[i].inside = states[i].inside /\ mw'[i].counts = states[i].counts
    <2>1. CASE i <= d
      <3>1. i \in 1..d
        BY <1>1, <2>1
      <3> QED
        BY <1>7, <1>9, <3>1 DEF RelayedOK
    <2>2. CASE ~(i <= d)
      <3>1. i \in d + 1..Len(pipe)
        BY <1>1, <2>2
      <3> QED
        BY <1>9, <3>1
    <2> QED
      BY <2>1, <2>2
  <1> QED
    BY <1>9, <1>10, <1>11, <1>12, <1>13, <1>14

-----------------------------------------------------------------------------
(* Where the request is                                                     *)

Phases ==
  \/ phase = "in" /\ depth \in 1..Inner
  \/ phase = "read" /\ depth \in 1..Inner /\ (depth < Inner => pipe[depth] = "csrf")
  \/ phase = "core" /\ depth = Inner
  \/ phase = "out" /\ depth \in 0..Len(pipe)
  \/ phase = "done" /\ depth = 0

\* The outermost position that has not called the next one, or has returned.
Edge == IF phase \in {"out", "done"} THEN depth + 1 ELSE depth

\* What position i has passed on, and counted when it was called.
PassesAt(i) ==
  /\ Passes(pipe[i], mw[i], sent[i + 1], sent[i])
  /\ pipe[i] \in Counting => mw[i].inside = 1 /\ mw[i].counts = <<>>

\* Those that have been called and have not returned.
Chain == \A i \in 1..Edge - 1 : PassesAt(i)

\* Before the application is called nobody has sent anything.
Quiet ==
  /\ phase \in {"in", "read"} => \A i \in 1..Inner : sent[i] = NoAnswer
  /\ phase \in {"in", "read", "core"} => exc = "none" /\ \A i \in depth..Len(pipe) : mw[i] = Fresh

Placed == Pipeline(mw) /\ Phases /\ Chain /\ Quiet

\* The types that follow.
LEMMA PlacedFacts ==
  ASSUME Placed
  PROVE  /\ pipe \in Seq(Kinds) /\ Len(pipe) \in Nat /\ Inner = Len(pipe) + 1
         /\ mw \in [1..Len(pipe) -> States] /\ sent \in [1..Inner -> Answers]
         /\ depth \in Nat /\ Edge \in 1..Inner
         /\ \A i \in 1..Len(pipe) : pipe[i] \in Kinds /\ mw[i] \in States
         /\ \A i \in 1..Inner : sent[i] \in Answers
  <1>1. /\ pipe \in Seq(Kinds) /\ mw \in [1..Len(pipe) -> States] /\ sent \in [1..Inner -> Answers]
    BY DEF Placed, Pipeline
  <1>2. Len(pipe) \in Nat /\ Inner = Len(pipe) + 1 /\ \A i \in 1..Len(pipe) : pipe[i] \in Kinds
    BY <1>1 DEF Inner
  <1>3. depth \in Nat /\ Edge \in 1..Inner
    BY <1>2 DEF Placed, Phases, Edge
  <1> QED
    BY <1>1, <1>2, <1>3

\* The lines that are added depend on the request, which stays.
LEMMA SameLines ==
  ASSUME UNCHANGED <<pipe, req>>, NEW i
  PROVE  AddedLines(pipe[i])' = AddedLines(pipe[i])
  BY DEF AddedLines, SessionLines, CsrfLines, CorsLines, SecurityLines, TimingLines, Identified,
         SafeMethod

\* What has passed stays so when pipeline and request do.
LEMMA PassesThen ==
  ASSUME UNCHANGED <<pipe, req>>, NEW i,
         Passes(pipe[i], mw'[i], sent'[i + 1], sent'[i]),
         pipe[i] \in Counting => mw'[i].inside = 1 /\ mw'[i].counts = <<>>
  PROVE  PassesAt(i)'
  BY SameLines DEF PassesAt, Passes, Zips, Captures, Guards, Adds, Lined, Waits, Forwards, Buffers,
     Streams, Flushes

\* What a middleware that has just been called has seen.
LEMMA FreshPasses ==
  ASSUME NEW k, NEW st, st.held = <<>>, st.raw = 0, st.size = 0, ~st.started, ~st.pass,
         st.status = 500
  PROVE  Passes(k, st, NoAnswer, NoAnswer)
  BY DEF Passes, Zips, Captures, Guards, Adds, Lined, Waits, NoAnswer, StatusOf

\* The steps, as far as the pipeline and what was sent are concerned.
Stays == UNCHANGED <<pipe, req, mw, sent>>

\* The next one is called.
LEMMA StepsIn ==
  ASSUME Placed, phase \in {"in", "read"}, depth <= Len(pipe), GoOn,
         UNCHANGED <<pipe, req, sent, exc>>,
         \/ pipe[depth] \notin Counting /\ UNCHANGED mw
         \/ pipe[depth] \in Counting /\ mw' = [mw EXCEPT ![depth].inside = @ + 1]
  PROVE  Placed' /\ sent' = sent
  <1>1. /\ Len(pipe) \in Nat /\ Inner = Len(pipe) + 1 /\ depth \in 1..Len(pipe)
        /\ \A i \in 1..Len(pipe) : pipe[i] \in Kinds /\ mw[i] \in States
        /\ pipe \in Seq(Kinds) /\ mw \in [1..Len(pipe) -> States]
        /\ sent \in [1..Inner -> Answers]
    BY PlacedFacts DEF Placed, Phases
  <1>2. /\ \A i \in 1..Inner : sent[i] = NoAnswer
        /\ exc = "none" /\ \A i \in depth..Len(pipe) : mw[i] = Fresh
        /\ \A i \in 1..depth - 1 : PassesAt(i)
    BY DEF Placed, Quiet, Chain, Edge
  <1>3. phase' = "in" /\ depth' = depth + 1 /\ Inner' = Inner /\ Edge' = depth + 1
    BY DEF GoOn, ToPhase, Edge, Inner
  <1>4. /\ mw' \in [1..Len(pipe) -> States]
        /\ \A i \in 1..Len(pipe) : i # depth => mw'[i] = mw[i]
        /\ \/ pipe[depth] \notin Counting /\ mw'[depth] = Fresh
           \/ mw'[depth] = [Fresh EXCEPT !.inside = 1]
    <2>1. CASE pipe[depth] \notin Counting /\ UNCHANGED mw
      BY <1>1, <1>2, <2>1
    <2>2. CASE mw' = [mw EXCEPT ![depth].inside = @ + 1]
      <3>1. mw[depth] = Fresh
        BY <1>1, <1>2
      <3>2. mw' = [mw EXCEPT ![depth] = [Fresh EXCEPT !.inside = 0 + 1]]
        BY <1>1, <2>2, <3>1 DEF Fresh
      <3>3. [Fresh EXCEPT !.inside = 0 + 1] \in States
        <4>1. Fresh \in States
          BY <1>1, <3>1
        <4>2. 0 + 1 \in Nat
          OBVIOUS
        <4> QED
          BY <4>1, <4>2 DEF States
      <3> QED
        BY <1>1, <3>2, <3>3
    <2> QED
      BY <2>1, <2>2
  <1>5. Pipeline(mw)'
    BY <1>1, <1>3, <1>4 DEF Pipeline
  <1>6. Phases'
    BY <1>1, <1>3 DEF Phases
  <1>7. Quiet'
    BY <1>1, <1>2, <1>3, <1>4 DEF Quiet
  <1>8. ASSUME NEW i \in 1..depth PROVE PassesAt(i)'
    <2>1. CASE i = depth
      <3>1. Passes(pipe[i], mw'[i], NoAnswer, NoAnswer)
        BY <1>4, <2>1, FreshPasses DEF Fresh
      <3>2. sent'[i] = NoAnswer /\ sent'[i + 1] = NoAnswer
        BY <1>1, <1>2
      <3>3. Passes(pipe[i], mw'[i], sent'[i + 1], sent'[i])
        BY <3>1, <3>2
      <3>4. pipe[i] \in Counting => mw'[i].inside = 1 /\ mw'[i].counts = <<>>
        BY <1>4, <2>1 DEF Fresh
      <3> QED
        BY <3>3, <3>4, PassesThen
    <2>2. CASE i # depth
      <3>1. mw'[i] = mw[i] /\ PassesAt(i)
        BY <1>1, <1>2, <1>4, <2>2
      <3>2. /\ Passes(pipe[i], mw'[i], sent'[i + 1], sent'[i])
            /\ pipe[i] \in Counting => mw'[i].inside = 1 /\ mw'[i].counts = <<>>
        BY <3>1 DEF PassesAt
      <3> QED
        BY <3>2, PassesThen
    <2> QED
      BY <2>1, <2>2
  <1>9. Chain'
    BY <1>1, <1>3, <1>8 DEF Chain
  <1> QED
    BY <1>5, <1>6, <1>7, <1>9 DEF Placed

\* Another place with no one more called, or nothing at all.
LEMMA StepsAside ==
  ASSUME Placed, Stays, Phases', Edge' <= Edge,
         /\ phase' \in {"in", "read"} => phase \in {"in", "read"}
         /\ phase' \in {"in", "read", "core"} =>
              depth' = depth /\ phase \in {"in", "read", "core"} /\ UNCHANGED exc
  PROVE  Placed'
  <1>1. /\ Len(pipe) \in Nat /\ Inner = Len(pipe) + 1 /\ Edge \in 1..Inner /\ Inner' = Inner
    BY PlacedFacts DEF Inner, Stays
  <1>2. Edge' \in Nat
    BY <1>1 DEF Phases, Edge
  <1>3. Pipeline(mw)'
    BY <1>1 DEF Placed, Pipeline, Stays
  <1>4. Quiet'
    BY <1>1 DEF Placed, Quiet, Stays
  <1>5. ASSUME NEW i \in 1..Edge' - 1 PROVE PassesAt(i)'
    <2>0. i \in 1..Edge - 1
      <3>1. Edge \in Nat /\ Edge' \in Nat /\ Edge' <= Edge
        BY <1>1, <1>2
      <3> QED
        BY <1>5, <3>1 DEF Edge
    <2>1. PassesAt(i)
      BY <2>0 DEF Placed, Chain
    <2>2. /\ Passes(pipe[i], mw'[i], sent'[i + 1], sent'[i])
          /\ pipe[i] \in Counting => mw'[i].inside = 1 /\ mw'[i].counts = <<>>
      BY <2>1 DEF PassesAt, Stays
    <2> QED
      BY <2>2, PassesThen DEF Stays
  <1>6. Chain'
    BY <1>5 DEF Chain
  <1> QED
    BY <1>3, <1>4, <1>6 DEF Placed

\* The position d + 1 sends, and control is there or returns from there.
LEMMA StepsSending ==
  ASSUME Placed, UNCHANGED <<pipe, req>>, NEW d \in 0..Len(pipe), NEW states,
         NEW ms \in Seq(Messages), FitsAll(sent[d + 1], ms),
         states \in [1..Len(pipe) -> States],
         \A i \in 1..d : states[i] = mw[i],
         d < Edge, SendWith(states, d, ms), Phases', Edge' = d + 1,
         phase' \in {"in", "read"} => FALSE,
         phase' = "core" => depth' = Inner /\ exc' = "none"
  PROVE  /\ Placed'
         /\ sent'[d + 1] = DeliverAll(sent[d + 1], ms)
         /\ \A i \in d + 2..Inner : sent'[i] = sent[i]
         /\ \A i \in d + 1..Len(pipe) : mw'[i] = states[i]
         /\ \A i \in 1..Len(pipe) :
              mw'[i].inside = states[i].inside /\ mw'[i].counts = states[i].counts
  <1>1. /\ Len(pipe) \in Nat /\ Inner = Len(pipe) + 1 /\ Edge \in 1..Inner /\ Inner' = Inner
        /\ \A i \in 1..Len(pipe) : pipe[i] \in Kinds /\ mw[i] \in States
        /\ pipe \in Seq(Kinds) /\ sent \in [1..Inner -> Answers]
    BY PlacedFacts DEF Inner
  <1>2. Pipeline(states)
    BY <1>1 DEF Pipeline
  <1>3. ASSUME NEW i \in 1..d PROVE Passes(pipe[i], states[i], sent[i + 1], sent[i])
    <2>1. PassesAt(i)
      BY <1>1, <1>3 DEF Placed, Chain
    <2> QED
      BY <2>1 DEF PassesAt
  <1>4. /\ mw' \in [1..Len(pipe) -> States] /\ sent' \in [1..Inner -> Answers]
        /\ sent'[d + 1] = DeliverAll(sent[d + 1], ms)
        /\ \A i \in d + 2..Inner : sent'[i] = sent[i]
        /\ \A i \in d + 1..Len(pipe) : mw'[i] = states[i]
        /\ \A i \in 1..Len(pipe) :
             mw'[i].inside = states[i].inside /\ mw'[i].counts = states[i].counts
        /\ \A i \in 1..d : Passes(pipe[i], mw'[i], sent'[i + 1], sent'[i])
    BY <1>2, <1>3, SendStep
  <1>5. Pipeline(mw)'
    BY <1>1, <1>4 DEF Pipeline
  <1>6. Quiet'
    BY <1>1 DEF Quiet
  <1>7. ASSUME NEW i \in 1..d PROVE PassesAt(i)'
    <2>1. i \in 1..Len(pipe) /\ PassesAt(i) /\ states[i] = mw[i]
      BY <1>1, <1>7 DEF Placed, Chain
    <2>2. pipe[i] \in Counting => mw'[i].inside = 1 /\ mw'[i].counts = <<>>
      BY <1>4, <2>1 DEF PassesAt
    <2> QED
      BY <1>4, <1>7, <2>2, PassesThen
  <1>8. Chain'
    BY <1>7 DEF Chain
  <1> QED
    BY <1>4, <1>5, <1>6, <1>8 DEF Placed

\* The gauge goes down and the counter is told the status.
LEMMA CountedFacts ==
  ASSUME NEW st \in States, st.inside = 1, st.counts = <<>>
  PROVE  /\ Counted(st) \in States
         /\ Counted(st).inside = 0 /\ Counted(st).counts = <<st.status>>
  <1> DEFINE n == st.status
  <1>1. n \in Nat /\ st.counts \in Seq(Nat)
    BY StateFacts
  <1> HIDE DEF n
  <1>2. <<n>> \in Seq(Nat) /\ Append(<<>>, n) = <<n>>
    BY <1>1
  <1>3. Counted(st) = [st EXCEPT !.inside = 0, !.counts = <<n>>]
    BY <1>2 DEF Counted, n
  <1> DEFINE c == <<n>>
             new == [st EXCEPT !.inside = 0, !.counts = c]
  <1> HIDE DEF c
  <1>4. c \in Seq(Nat) /\ Counted(st) = new
    BY <1>2, <1>3 DEF c
  <1>5. new \in States /\ new.inside = 0 /\ new.counts = c
    BY <1>4 DEF States
  <1> HIDE DEF new
  <1> QED
    BY <1>4, <1>5 DEF c, n

\* The call of one that counts returns.
LEMMA StepsCounted ==
  ASSUME Placed, phase = "out", depth > 0, pipe[depth] \in Counting, Return(depth),
         UNCHANGED <<pipe, req, sent>>, mw' = [mw EXCEPT ![depth] = Counted(@)]
  PROVE  Placed' /\ mw'[depth].inside = 0 /\ mw'[depth].counts = <<mw[depth].status>>
  <1>1. /\ Len(pipe) \in Nat /\ Inner = Len(pipe) + 1 /\ depth \in 1..Len(pipe) /\ Inner' = Inner
        /\ mw \in [1..Len(pipe) -> States] /\ mw[depth] \in States
        /\ \A i \in 1..depth : PassesAt(i)
    BY PlacedFacts DEF Placed, Phases, Chain, Edge, Inner
  <1>2. phase' = "out" /\ depth' = depth - 1 /\ Edge' = depth
    BY <1>1 DEF Return, ToPhase, Edge
  <1>3. mw[depth].inside = 1 /\ mw[depth].counts = <<>> /\ mw[depth].status \in Nat
    BY <1>1, StateFacts DEF PassesAt
  <1> DEFINE st == mw[depth]
             new == Counted(st)
             n == st.status
  <1>4. new \in States /\ new.inside = 0 /\ new.counts = <<n>>
    BY <1>1, <1>3, CountedFacts
  <1> HIDE DEF new
  <1>5. mw' = [mw EXCEPT ![depth] = new]
    BY DEF new
  <1>6. mw' \in [1..Len(pipe) -> States] /\ mw'[depth] = new
        /\ \A i \in 1..depth - 1 : mw'[i] = mw[i]
    BY <1>1, <1>4, <1>5
  <1>7. Pipeline(mw)'
    BY <1>1, <1>6 DEF Placed, Pipeline
  <1>8. Phases' /\ Quiet'
    BY <1>1, <1>2 DEF Phases, Quiet
  <1>9. ASSUME NEW i \in 1..depth - 1 PROVE PassesAt(i)'
    <2>1. PassesAt(i) /\ mw'[i] = mw[i]
      BY <1>1, <1>6, <1>9
    <2>2. /\ Passes(pipe[i], mw'[i], sent'[i + 1], sent'[i])
          /\ pipe[i] \in Counting => mw'[i].inside = 1 /\ mw'[i].counts = <<>>
      BY <2>1 DEF PassesAt
    <2> QED
      BY <2>2, PassesThen
  <1>10. Chain'
    BY <1>2, <1>9 DEF Chain
  <1> QED
    BY <1>4, <1>6, <1>7, <1>8, <1>10 DEF Placed


-----------------------------------------------------------------------------
(* A send that is cut off: the first of some messages, and the last of them *)

\* The first n of some messages are messages, and are delivered and passed on as
\* they are among all.
LEMMA FirstFacts ==
  ASSUME NEW ms \in Seq(Messages), NEW n \in 0..Len(ms)
  PROVE  LET p == SubSeq(ms, 1, n) IN
         /\ p \in Seq(Messages) /\ Len(p) = n
         /\ \A i \in 1..n : p[i] = ms[i]
         /\ \A w : /\ \A i \in 0..n : Delivered(w, p)[i] = Delivered(w, ms)[i]
                   /\ DeliverAll(w, p) = Delivered(w, ms)[n]
                   /\ FitsAll(w, ms) => FitsAll(w, p)
                   /\ SuitsAll(w, ms) => SuitsAll(w, p)
         /\ \A k, st : /\ \A i \in 0..n : Relayed(k, st, p)[i] = Relayed(k, st, ms)[i]
                       /\ RelayAll(k, st, p) = Relayed(k, st, ms)[n]
  <1> DEFINE p == SubSeq(ms, 1, n)
  <1>1. Len(ms) \in Nat /\ n \in Nat /\ n <= Len(ms)
    OBVIOUS
  <1>2. p \in Seq(Messages) /\ Len(p) = n /\ \A i \in 1..n : p[i] = ms[i]
    BY <1>1
  <1> HIDE DEF p
  <1>3. \A i \in 1..n : i \in 1..Len(ms) /\ i - 1 \in 0..n
    BY <1>1
  <1>4. ASSUME NEW w
        PROVE  /\ \A i \in 0..n : Delivered(w, p)[i] = Delivered(w, ms)[i]
               /\ DeliverAll(w, p) = Delivered(w, ms)[n]
               /\ FitsAll(w, ms) => FitsAll(w, p)
               /\ SuitsAll(w, ms) => SuitsAll(w, p)
    <2> DEFINE S == {i \in 0..n : Delivered(w, p)[i] = Delivered(w, ms)[i]}
    <2>1. /\ Delivered(w, p)[0] = w
          /\ \A i \in 1..n : Delivered(w, p)[i] = Deliver(Delivered(w, p)[i - 1], p[i])
      BY <1>1, <1>2, DeliveredFacts
    <2>2. /\ Delivered(w, ms)[0] = w
          /\ \A i \in 1..Len(ms) : Delivered(w, ms)[i] = Deliver(Delivered(w, ms)[i - 1], ms[i])
      BY <1>1, DeliveredFacts
    <2>3. 0 \in S
      BY <1>1, <2>1, <2>2
    <2>4. ASSUME NEW i \in 0..n, i \in S, i < n PROVE i + 1 \in S
      <3>1. i + 1 \in 1..n /\ i + 1 \in 1..Len(ms) /\ (i + 1) - 1 = i
        BY <1>1, <2>4
      <3>2. Delivered(w, p)[i + 1] = Deliver(Delivered(w, p)[i], p[i + 1])
        BY <2>1, <3>1
      <3>3. Delivered(w, ms)[i + 1] = Deliver(Delivered(w, ms)[i], ms[i + 1])
        BY <2>2, <3>1
      <3> QED
        BY <1>2, <2>4, <3>1, <3>2, <3>3
    <2>5. \A i \in 0..n : i \in S
      <3> HIDE DEF S
      <3> QED
        BY <1>1, <2>3, <2>4, Induction
    <2>6. \A i \in 0..n : Delivered(w, p)[i] = Delivered(w, ms)[i]
      BY <2>5
    <2>7. DeliverAll(w, p) = Delivered(w, ms)[n]
      BY <1>1, <1>2, <2>6 DEF DeliverAll
    <2>8. FitsAll(w, ms) => FitsAll(w, p)
      BY <1>2, <1>3, <2>6 DEF FitsAll
    <2>9. SuitsAll(w, ms) => SuitsAll(w, p)
      BY <1>2, <1>3, <2>6 DEF SuitsAll
    <2> QED
      BY <2>6, <2>7, <2>8, <2>9
  <1>5. ASSUME NEW k, NEW st
        PROVE  /\ \A i \in 0..n : Relayed(k, st, p)[i] = Relayed(k, st, ms)[i]
               /\ RelayAll(k, st, p) = Relayed(k, st, ms)[n]
    <2> DEFINE Next1(g, m) == LET r == Relay(k, g.st, m) IN Gives(r.st, g.out \o r.out)
               S == {i \in 0..n : Relayed(k, st, p)[i] = Relayed(k, st, ms)[i]}
    <2>1. /\ Relayed(k, st, p)[0] = Gives(st, <<>>)
          /\ \A i \in 1..n : Relayed(k, st, p)[i] = Next1(Relayed(k, st, p)[i - 1], p[i])
      BY <1>1, <1>2, RelayedFacts
    <2>2. /\ Relayed(k, st, ms)[0] = Gives(st, <<>>)
          /\ \A i \in 1..Len(ms) : Relayed(k, st, ms)[i] = Next1(Relayed(k, st, ms)[i - 1], ms[i])
      BY <1>1, RelayedFacts
    <2> HIDE DEF Next1
    <2>3. 0 \in S
      BY <1>1, <2>1, <2>2
    <2>4. ASSUME NEW i \in 0..n, i \in S, i < n PROVE i + 1 \in S
      <3>1. i + 1 \in 1..n /\ i + 1 \in 1..Len(ms) /\ (i + 1) - 1 = i
        BY <1>1, <2>4
      <3>2. Relayed(k, st, p)[i + 1] = Next1(Relayed(k, st, p)[i], p[i + 1])
        BY <2>1, <3>1
      <3>3. Relayed(k, st, ms)[i + 1] = Next1(Relayed(k, st, ms)[i], ms[i + 1])
        BY <2>2, <3>1
      <3> QED
        BY <1>2, <2>4, <3>1, <3>2, <3>3
    <2>5. \A i \in 0..n : i \in S
      <3> HIDE DEF S
      <3> QED
        BY <1>1, <2>3, <2>4, Induction
    <2>6. \A i \in 0..n : Relayed(k, st, p)[i] = Relayed(k, st, ms)[i]
      BY <2>5
    <2>7. RelayAll(k, st, p) = Relayed(k, st, ms)[n]
      BY <1>1, <1>2, <2>6 DEF RelayAll
    <2> QED
      BY <2>6, <2>7
  <1> QED
    BY <1>2, <1>4, <1>5 DEF p

\* All but the last message, and then the last.
LEMMA LastFacts ==
  ASSUME NEW ms \in Seq(Messages), ms # <<>>
  PROVE  /\ Front(ms) \in Seq(Messages) /\ Last(ms) \in Messages
         /\ \A w : /\ DeliverAll(w, ms) = Deliver(DeliverAll(w, Front(ms)), Last(ms))
                   /\ SuitsAll(w, ms) =>
                        SuitsAll(w, Front(ms)) /\ Suits(DeliverAll(w, Front(ms)), Last(ms))
         /\ \A k, st : /\ RelayAll(k, st, ms).st = LastRelay(k, st, ms).st
                       /\ RelayAll(k, st, ms).out =
                            RelayAll(k, st, Front(ms)).out \o LastRelay(k, st, ms).out
  <1> DEFINE n == Len(ms)
             p == Front(ms)
  <1>1. n \in Nat \ {0} /\ n - 1 \in 0..n /\ n \in 1..n
    BY EmptySeq
  <1>2. p = SubSeq(ms, 1, n - 1) /\ Last(ms) = ms[n] /\ ms[n] \in Messages
    BY <1>1 DEF Front, Last
  <1> HIDE DEF n, p
  <1>3. /\ p \in Seq(Messages)
        /\ \A w : /\ DeliverAll(w, p) = Delivered(w, ms)[n - 1]
                  /\ SuitsAll(w, ms) => SuitsAll(w, p)
        /\ \A k, st : RelayAll(k, st, p) = Relayed(k, st, ms)[n - 1]
    BY <1>1, <1>2, FirstFacts DEF n
  <1>4. ASSUME NEW w
        PROVE  /\ DeliverAll(w, ms) = Deliver(DeliverAll(w, p), ms[n])
               /\ SuitsAll(w, ms) => SuitsAll(w, p) /\ Suits(DeliverAll(w, p), ms[n])
    <2>1. Delivered(w, ms)[n] = Deliver(Delivered(w, ms)[n - 1], ms[n])
      BY <1>1, DeliveredFacts DEF n
    <2>2. SuitsAll(w, ms) => Suits(Delivered(w, ms)[n - 1], ms[n])
      BY <1>1 DEF SuitsAll, n
    <2>3. DeliverAll(w, ms) = Delivered(w, ms)[n]
      BY DEF DeliverAll, n
    <2> QED
      BY <1>3, <2>1, <2>2, <2>3
  <1>5. ASSUME NEW k, NEW st
        PROVE  /\ RelayAll(k, st, ms).st = LastRelay(k, st, ms).st
               /\ RelayAll(k, st, ms).out = RelayAll(k, st, p).out \o LastRelay(k, st, ms).out
    <2> DEFINE before == Relayed(k, st, ms)[n - 1]
               r == Relay(k, before.st, ms[n])
               st1 == r.st
               out1 == before.out \o r.out
    <2>1. Relayed(k, st, ms)[n] = Gives(st1, out1)
      BY <1>1, RelayedFacts DEF n
    <2>2. RelayAll(k, st, ms) = Relayed(k, st, ms)[n]
      BY DEF RelayAll, n
    <2>3. LastRelay(k, st, ms) = r
      BY <1>2, <1>3 DEF LastRelay, p
    <2>4. RelayAll(k, st, p).out = before.out
      BY <1>3
    <2> HIDE DEF st1, out1
    <2>5. RelayAll(k, st, ms).st = st1 /\ RelayAll(k, st, ms).out = out1
      BY <2>1, <2>2, GivesFacts
    <2> QED
      BY <2>3, <2>4, <2>5 DEF st1, out1
  <1> QED
    BY <1>2, <1>3, <1>4, <1>5 DEF p

\* An answer that is out of order, or not, has started with one status.
LEMMA OutputFacts ==
  ASSUME NEW w \in Outputs
  PROVE  /\ w.start \in Optional(Starts)
         /\ w.start # <<>> => w.start[1] \in Starts /\ Opens(w.start) = {w.start[1].status}
         /\ w.start = <<>> <=> Opens(w.start) = {}
         /\ w.start = <<>> => w = NoAnswer
  <1>1. w.start \in Optional(Starts) /\ (w.start = <<>> => w = NoAnswer)
    BY DEF Outputs
  <1>2. w.start # <<>> => w.start[1] \in Starts
    <2>1. \A x : <<x>>[1] = x
      OBVIOUS
    <2> QED
      BY <1>1, <2>1 DEF Optional
  <1>3. /\ w.start # <<>> => Opens(w.start) = {w.start[1].status}
        /\ w.start = <<>> => Opens(w.start) = {}
    BY DEF Opens
  <1> QED
    BY <1>1, <1>2, <1>3

\* An answer that has come as it should is one.
LEMMA AnswersAreOutputs == \A w \in Answers : w \in Outputs
  BY DEF Answers, Outputs

\* What fits does that.
LEMMA FitsSuits ==
  ASSUME NEW w \in Answers, NEW ms \in Seq(Messages), FitsAll(w, ms)
  PROVE  SuitsAll(w, ms)
  <1> SUFFICES ASSUME NEW n \in 1..Len(ms)
               PROVE  Suits(Delivered(w, ms)[n - 1], ms[n])
    BY DEF SuitsAll
  <1> DEFINE u == Delivered(w, ms)[n - 1]
             m == ms[n]
  <1>1. Len(ms) \in Nat /\ n - 1 \in 0..Len(ms) /\ m \in Messages
    OBVIOUS
  <1>2. u \in Answers /\ Fits(u, m)
    BY <1>1, DeliverAllKeeps DEF FitsAll
  <1> HIDE DEF u, m
  <1>3. m.kind = "start" => u.start = <<>> \/ u.start[1] = m
    <2>1. \A x : <<x>>[1] = x
      OBVIOUS
    <2> QED
      BY <1>2, <2>1 DEF Fits
  <1>4. m.kind = "start" => Opens(u.start) \subseteq {m.status}
    BY <1>3 DEF Opens
  <1>5. m.kind # "start" => u.start # <<>>
    BY <1>2 DEF Fits
  <1>6. Suits(u, m)
    BY <1>4, <1>5 DEF Suits
  <1> QED
    BY <1>6 DEF u, m

\* The status is told with the first message and stays.
LEMMA SuitsDeliver ==
  ASSUME NEW w \in Outputs, NEW m \in Messages, Suits(w, m)
  PROVE  /\ Deliver(w, m) \in Outputs
         /\ Deliver(w, m).start # <<>>
         /\ Opens(Deliver(w, m).start) = IF m.kind = "start" THEN {m.status} ELSE Opens(w.start)
         /\ w.start # <<>> => Opens(Deliver(w, m).start) = Opens(w.start)
  <1>1. \A x : <<x>>[1] = x /\ <<x>> # <<>>
    OBVIOUS
  <1>2. NoAnswer.start = <<>> /\ ~NoAnswer.ended
    BY DEF NoAnswer
  <1> DEFINE disordered == [w EXCEPT !.disorder = TRUE]
             begun == [w EXCEPT !.start = <<m>>]
             raw == w.raw + m.raw
             size == w.size + m.size
             over == ~m.more
             grown == [w EXCEPT !.raw = raw, !.size = size, !.ended = over]
  <1>3. w.start # <<>> => disordered \in Outputs /\ disordered.start = w.start
    BY DEF Outputs
  <1>4. CASE m.kind = "start"
    <2>1. m \in Starts
      BY <1>4, MessageFacts DEF Messages, Bodies
    <2>2. begun \in Outputs /\ begun.start = <<m>>
      BY <1>1, <2>1 DEF Outputs, Optional
    <2>3. Opens(w.start) \subseteq {m.status}
      BY <1>4 DEF Suits
    <2>4. CASE w.start = <<>>
      <3>1. ~w.ended
        BY <1>2, <2>4, OutputFacts
      <3>2. Deliver(w, m) = begun
        BY <1>4, <2>4, <3>1 DEF Deliver
      <3> HIDE DEF begun
      <3>3. Opens(<<m>>) = {m.status}
        BY <1>1 DEF Opens
      <3> QED
        BY <1>1, <1>4, <2>2, <2>4, <3>2, <3>3
    <2>5. CASE w.start # <<>>
      <3>1. Deliver(w, m) = disordered
        BY <1>4, <2>5 DEF Deliver
      <3>2. Opens(w.start) = {m.status}
        BY <2>3, <2>5, OutputFacts
      <3> HIDE DEF disordered
      <3> QED
        BY <1>3, <1>4, <2>5, <3>1, <3>2
    <2> QED
      BY <2>4, <2>5
  <1>5. CASE m.kind # "start"
    <2>1. w.start # <<>> /\ m \in Bodies
      BY <1>5 DEF Suits, Messages, Starts
    <2>2. grown \in Outputs /\ grown.start = w.start
      <3>1. m.raw \in Nat /\ m.size \in Nat /\ m.more \in BOOLEAN
        BY <2>1, MessageFacts
      <3>2. w.raw \in Nat /\ w.size \in Nat
        BY DEF Outputs
      <3>3. raw \in Nat /\ size \in Nat /\ over \in BOOLEAN
        BY <3>1, <3>2
      <3> HIDE DEF raw, size, over
      <3> QED
        BY <2>1, <3>3 DEF Outputs
    <2>3. Deliver(w, m) \in {disordered, grown}
      BY <1>5, <2>1 DEF Deliver
    <2> HIDE DEF disordered, grown
    <2>4. Deliver(w, m) \in Outputs /\ Deliver(w, m).start = w.start
      BY <1>3, <2>1, <2>2, <2>3
    <2> QED
      BY <1>5, <2>1, <2>4
  <1> QED
    BY <1>4, <1>5

\* Several messages: after the first of them the status is told.
LEMMA SuitsAllKeeps ==
  ASSUME NEW w \in Outputs, NEW ms \in Seq(Messages), SuitsAll(w, ms)
  PROVE  /\ \A n \in 0..Len(ms) : Delivered(w, ms)[n] \in Outputs
         /\ DeliverAll(w, ms) \in Outputs
         /\ \A n \in 1..Len(ms) : /\ Delivered(w, ms)[n].start # <<>>
                                  /\ Opens(Delivered(w, ms)[n].start) = Opens(DeliverAll(w, ms).start)
         /\ w.start # <<>> => DeliverAll(w, ms).start # <<>>
                                /\ Opens(DeliverAll(w, ms).start) = Opens(w.start)
  <1> DEFINE N == Len(ms)
             now == Delivered(w, ms)
             S == {n \in 0..N : now[n] \in Outputs}
             T == {n \in 1..N : now[n].start # <<>> /\ Opens(now[n].start) = Opens(now[N].start)}
             V == {n \in 0..N : w.start # <<>> =>
                                  now[n].start # <<>> /\ Opens(now[n].start) = Opens(w.start)}
  <1>1. N \in Nat /\ \A n \in 1..N : ms[n] \in Messages
    OBVIOUS
  <1>2. now[0] = w /\ \A n \in 1..N : now[n] = Deliver(now[n - 1], ms[n])
    BY <1>1, DeliveredFacts
  <1>3. \A n \in 1..N : Suits(now[n - 1], ms[n])
    BY DEF SuitsAll
  <1>4. DeliverAll(w, ms) = now[N]
    BY DEF DeliverAll
  <1> HIDE DEF N, now
  <1>5. ASSUME NEW n \in 0..N, now[n] \in Outputs, n < N
        PROVE  /\ n + 1 \in 0..N /\ n + 1 \in 1..N
               /\ now[n + 1] \in Outputs /\ now[n + 1].start # <<>>
               /\ now[n].start # <<>> => Opens(now[n + 1].start) = Opens(now[n].start)
    <2>1. n + 1 \in 0..N /\ n + 1 \in 1..N /\ (n + 1) - 1 = n
      BY <1>1, <1>5
    <2>2. now[n + 1] = Deliver(now[n], ms[n + 1]) /\ Suits(now[n], ms[n + 1]) /\ ms[n + 1] \in Messages
      BY <1>1, <1>2, <1>3, <2>1
    <2> QED
      BY <1>5, <2>1, <2>2, SuitsDeliver
  <1>6. \A n \in 0..N : now[n] \in Outputs
    <2>1. 0 \in S
      BY <1>1, <1>2
    <2>2. ASSUME NEW n \in 0..N, n \in S, n < N PROVE n + 1 \in S
      BY <1>5, <2>2
    <2>3. \A n \in 0..N : n \in S
      <3> HIDE DEF S
      <3> QED
        BY <1>1, <2>1, <2>2, Induction
    <2> QED
      BY <2>3
  <1>7. ASSUME NEW n \in 1..N PROVE now[n].start # <<>>
    <2>1. n - 1 \in 0..N /\ n - 1 < N /\ (n - 1) + 1 = n
      BY <1>1
    <2> QED
      BY <1>5, <1>6, <2>1
  <1>8. ASSUME N > 0 PROVE \A n \in 1..N : Opens(now[n].start) = Opens(now[N].start)
    <2>1. N \in T
      BY <1>1, <1>7, <1>8
    <2>2. ASSUME NEW n \in 1..N, n \in T, n > 1 PROVE n - 1 \in T
      <3>1. n - 1 \in 1..N /\ n - 1 \in 0..N /\ n - 1 < N /\ (n - 1) + 1 = n
        BY <1>1, <2>2
      <3>2. Opens(now[n].start) = Opens(now[n - 1].start)
        BY <1>5, <1>6, <1>7, <3>1
      <3> QED
        BY <1>7, <2>2, <3>1, <3>2
    <2>3. \A n \in 1..N : n \in T
      <3> HIDE DEF T
      <3> QED
        BY <1>1, <2>1, <2>2, Descent
    <2> QED
      BY <2>3
  <1>9. w.start # <<>> => now[N].start # <<>> /\ Opens(now[N].start) = Opens(w.start)
    <2>1. 0 \in V
      BY <1>1, <1>2
    <2>2. ASSUME NEW n \in 0..N, n \in V, n < N PROVE n + 1 \in V
      BY <1>5, <1>6, <2>2
    <2>3. \A n \in 0..N : n \in V
      <3> HIDE DEF V
      <3> QED
        BY <1>1, <2>1, <2>2, Induction
    <2>4. N \in V
      BY <1>1, <2>3
    <2> QED
      BY <2>4
  <1>10. \A n \in 1..N : N > 0
    BY <1>1
  <1>11. N \in 0..N
    BY <1>1
  <1> QED
    BY <1>4, <1>6, <1>7, <1>8, <1>9, <1>10, <1>11 DEF N, now

\* What a middleware tells of the status it was told, whole messages or not.
Carries(k, st, in, o) ==
  CASE k = "gzip" ->
         /\ Opens(st.held) = Opens(in.start)
         /\ o.start = <<>> \/ Opens(o.start) = Opens(in.start)
         /\ st.started \/ st.pass => o.start # <<>>
    [] k = "hooks" -> Opens(st.held) = Opens(in.start) /\ o.start = <<>>
    [] k = "errors" -> (st.started <=> in.start # <<>>) /\ Opens(o.start) = Opens(in.start)
    [] OTHER -> /\ Opens(o.start) = Opens(in.start)
                /\ k \in Counting => st.status = StatusOf(in)

\* The parts of a state that the answer does not touch.
SameCounts(st, after) ==
  after.inside = st.inside /\ after.counts = st.counts /\ after.spoilt = st.spoilt

CarriesOn(k, st, in, o, m) ==
  LET r == Relay(k, st, m) IN
  /\ r.st \in States /\ SameCounts(st, r.st)
  /\ r.out \in Seq(Messages) /\ SuitsAll(o, r.out)
  /\ Carries(k, r.st, Deliver(in, m), DeliverAll(o, r.out))

\* One message that passes as it is, or changed but not in its status.
LEMMA CarriesSame ==
  ASSUME NEW in \in Outputs, NEW o \in Outputs, NEW m \in Messages, NEW n \in Messages,
         Suits(in, m), Opens(o.start) = Opens(in.start), n.kind = m.kind,
         m.kind = "start" => n.status = m.status
  PROVE  /\ <<n>> \in Seq(Messages) /\ SuitsAll(o, <<n>>)
         /\ DeliverAll(o, <<n>>).start # <<>>
         /\ Opens(DeliverAll(o, <<n>>).start) = Opens(Deliver(in, m).start)
  <1>1. Suits(o, n)
    BY OutputFacts DEF Suits
  <1>2. DeliverAll(o, <<n>>) = Deliver(o, n) /\ SuitsAll(o, <<n>>) /\ <<n>> \in Seq(Messages)
    BY <1>1, FewDelivered, FewMessages
  <1>3. Deliver(o, n).start # <<>> /\ Opens(Deliver(o, n).start) = Opens(Deliver(in, m).start)
    BY <1>1, SuitsDeliver
  <1> QED
    BY <1>2, <1>3

\* A middleware that adds lines, or counts.
LEMMA LiningCarries ==
  ASSUME NEW k \in Lining, NEW st \in States, NEW in \in Outputs, NEW o \in Outputs,
         NEW m \in Messages, Suits(in, m), Carries(k, st, in, o)
  PROVE  CarriesOn(k, st, in, o, m)
  <1> DEFINE n == WithLines(m, AddedLines(k))
             noted == [st EXCEPT !.status = m.status]
             r == Relay(k, st, m)
  <1>1. k \notin {"gzip", "hooks", "errors"}
    BY DEF Lining
  <1>2. /\ Opens(o.start) = Opens(in.start)
        /\ k \in Counting => st.status = StatusOf(in)
    BY <1>1 DEF Carries
  <1>3. n \in Messages /\ n.kind = m.kind /\ (m.kind = "start" => n.status = m.status)
    <2> DEFINE lines == AddedLines(k)
    <2>1. lines \in Seq(LineSet)
      BY AddedLinesFacts
    <2> HIDE DEF lines
    <2>2. CASE m \in Starts
      <3>1. WithLines(m, lines) \in Starts /\ WithLines(m, lines).status = m.status
        BY <2>1, <2>2, WithLinesFacts
      <3> QED
        BY <2>2, <3>1, MessageFacts DEF Messages, lines
    <2>3. CASE m \in Bodies
      <3>1. WithLines(m, lines) = m
        BY <2>1, <2>3, WithLinesFacts
      <3>2. n = m
        BY <3>1 DEF lines
      <3> QED
        BY <2>3, <3>2
    <2> QED
      BY <2>2, <2>3 DEF Messages
  <1>4. r.out = <<n>> /\ r.st = IF k \in Counting /\ m.kind = "start" THEN noted ELSE st
    BY LiningRelay
  <1> HIDE DEF n
  <1>5. /\ <<n>> \in Seq(Messages) /\ SuitsAll(o, <<n>>)
        /\ Opens(DeliverAll(o, <<n>>).start) = Opens(Deliver(in, m).start)
    BY <1>2, <1>3, CarriesSame
  <1>6. m.kind = "start" => m.status \in Nat
    BY MessageFacts DEF Messages
  <1>7. m.kind = "start" => noted \in States /\ SameCounts(st, noted) /\ noted.status = m.status
    BY <1>6 DEF States, SameCounts
  <1>8. r.st \in States /\ SameCounts(st, r.st)
    BY <1>4, <1>7 DEF SameCounts
  <1>9. /\ Deliver(in, m) \in Outputs /\ Deliver(in, m).start # <<>>
        /\ Opens(Deliver(in, m).start) = IF m.kind = "start" THEN {m.status} ELSE Opens(in.start)
    BY SuitsDeliver
  <1>10. {StatusOf(Deliver(in, m))} = Opens(Deliver(in, m).start)
    BY <1>9 DEF StatusOf, Opens
  <1>11. in.start # <<>> => {StatusOf(in)} = Opens(in.start)
    BY DEF StatusOf, Opens
  <1>12. m.kind # "start" => in.start # <<>>
    BY DEF Suits
  <1>13. m.kind = "start" => StatusOf(Deliver(in, m)) = m.status
    BY <1>9, <1>10
  <1>14. m.kind # "start" => StatusOf(Deliver(in, m)) = StatusOf(in)
    BY <1>9, <1>10, <1>11, <1>12
  <1>15. k \in Counting => r.st.status = StatusOf(Deliver(in, m))
    <2>1. CASE m.kind = "start"
      BY <1>4, <1>7, <1>13, <2>1
    <2>2. CASE m.kind # "start"
      BY <1>2, <1>4, <1>14, <2>2
    <2> QED
      BY <2>1, <2>2
  <1>16. Carries(k, r.st, Deliver(in, m), DeliverAll(o, <<n>>))
    BY <1>1, <1>5, <1>15 DEF Carries
  <1> HIDE DEF r
  <1>17. r.out = <<n>>
    BY <1>4
  <1> QED
    BY <1>5, <1>8, <1>16, <1>17 DEF CarriesOn, r

\* ErrorHandlerMiddleware
LEMMA ErrorsCarries ==
  ASSUME NEW st \in States, NEW in \in Outputs, NEW o \in Outputs, NEW m \in Messages,
         Suits(in, m), Carries("errors", st, in, o)
  PROVE  CarriesOn("errors", st, in, o, m)
  <1> DEFINE kept == IF m.kind = "start" THEN [st EXCEPT !.started = TRUE] ELSE st
             r == Relay("errors", st, m)
  <1>1. (st.started <=> in.start # <<>>) /\ Opens(o.start) = Opens(in.start)
    BY DEF Carries
  <1>2. r = Gives(kept, <<m>>)
    BY DEF Relay, GuardedSend
  <1>3. kept \in States /\ SameCounts(st, kept)
    BY DEF States, SameCounts
  <1>4. kept.started <=> (m.kind = "start" \/ st.started)
    BY DEF States
  <1> HIDE DEF kept
  <1>5. r.st = kept /\ r.out = <<m>>
    BY <1>2, GivesFacts
  <1>6. /\ <<m>> \in Seq(Messages) /\ SuitsAll(o, <<m>>)
        /\ Opens(DeliverAll(o, <<m>>).start) = Opens(Deliver(in, m).start)
    BY <1>1, CarriesSame
  <1>7. Deliver(in, m).start # <<>>
    BY SuitsDeliver
  <1>8. m.kind = "start" \/ st.started
    BY <1>1 DEF Suits
  <1>9. Carries("errors", kept, Deliver(in, m), DeliverAll(o, <<m>>))
    BY <1>4, <1>6, <1>7, <1>8 DEF Carries
  <1> HIDE DEF r
  <1> QED
    BY <1>3, <1>5, <1>6, <1>9 DEF CarriesOn, r

\* A hook middleware
LEMMA HooksCarries ==
  ASSUME NEW st \in States, NEW in \in Outputs, NEW o \in Outputs, NEW m \in Messages,
         Suits(in, m), Carries("hooks", st, in, o)
  PROVE  CarriesOn("hooks", st, in, o, m)
  <1> DEFINE begun == [st EXCEPT !.held = <<m>>]
             kept == IF m.kind = "start" THEN begun ELSE Buffered(st, m)
             r == Relay("hooks", st, m)
             none == <<>>
  <1>1. Opens(st.held) = Opens(in.start) /\ o.start = <<>>
    BY DEF Carries
  <1>2. r = Gives(kept, none)
    BY DEF Relay, Capture
  <1>3. /\ Deliver(in, m).start # <<>>
        /\ Opens(Deliver(in, m).start) = IF m.kind = "start" THEN {m.status} ELSE Opens(in.start)
    BY SuitsDeliver
  <1>4. kept \in States /\ SameCounts(st, kept) /\ Opens(kept.held) = Opens(Deliver(in, m).start)
    <2>1. CASE m.kind = "start"
      <3>1. m \in Starts
        BY <2>1, MessageFacts DEF Messages
      <3>2. begun \in States /\ SameCounts(st, begun) /\ begun.held = <<m>>
        BY <3>1, MessageFacts DEF States, SameCounts
      <3>3. Opens(<<m>>) = {m.status}
        BY <3>1, MessageFacts DEF Opens
      <3> HIDE DEF begun
      <3> QED
        BY <1>3, <2>1, <3>2, <3>3
    <2>2. CASE m.kind # "start"
      <3>1. m \in Bodies
        BY <2>2, MessageFacts DEF Messages
      <3> DEFINE b == Buffered(st, m)
      <3>2. b \in States /\ b.inside = st.inside /\ b.counts = st.counts /\ b.held = st.held
              /\ b.spoilt = st.spoilt
        BY <3>1, BufferedFacts DEF Buffered, States
      <3>3. kept = b
        BY <2>2
      <3> HIDE DEF b, kept
      <3> QED
        BY <1>1, <1>3, <2>2, <3>2, <3>3 DEF SameCounts
    <2> QED
      BY <2>1, <2>2
  <1> HIDE DEF kept, none
  <1>5. r.st = kept /\ r.out = none
    BY <1>2, GivesFacts
  <1>6. none \in Seq(Messages) /\ SuitsAll(o, none) /\ DeliverAll(o, none) = o
    BY FewMessages, FewDelivered DEF none
  <1>7. Carries("hooks", kept, Deliver(in, m), o)
    BY <1>1, <1>4 DEF Carries
  <1> HIDE DEF r
  <1> QED
    BY <1>4, <1>5, <1>6, <1>7 DEF CarriesOn, r

\* What a GZipMiddleware sends when it ends to hold back, at once or in parts.
LEMMA GzipOpens ==
  ASSUME NEW st \in States, NEW kept \in States, NEW in \in Outputs, NEW o \in Outputs,
         NEW s \in Starts, NEW b \in Bodies,
         SameCounts(st, kept), kept.held # <<>>, Opens(kept.held) = Opens(in.start),
         o.start = <<>> \/ Opens(o.start) = Opens(in.start), s.status = kept.held[1].status
  PROVE  /\ <<s, b>> \in Seq(Messages) /\ SuitsAll(o, <<s, b>>)
         /\ Carries("gzip", kept, in, DeliverAll(o, <<s, b>>))
  <1>1. Opens(kept.held) = {s.status} /\ Opens(in.start) = {s.status}
    BY DEF Opens
  <1>2. Opens(<<>>) = {} /\ s.kind = "start" /\ b.kind # "start"
    BY MessageFacts DEF Opens
  <1>3. Suits(o, s)
    BY <1>1, <1>2 DEF Suits
  <1>4. s \in Messages /\ b \in Messages
    BY DEF Messages
  <1>5. /\ Deliver(o, s) \in Outputs /\ Deliver(o, s).start # <<>>
        /\ Opens(Deliver(o, s).start) = {s.status}
    BY <1>2, <1>3, <1>4, SuitsDeliver
  <1>6. Suits(Deliver(o, s), b)
    BY <1>2, <1>5 DEF Suits
  <1> DEFINE v == Deliver(Deliver(o, s), b)
  <1>7. v.start # <<>> /\ Opens(v.start) = {s.status}
    BY <1>4, <1>5, <1>6, SuitsDeliver
  <1>8. SuitsAll(o, <<s, b>>) /\ DeliverAll(o, <<s, b>>) = v
    BY <1>3, <1>6, FewDelivered
  <1>9. <<s, b>> \in Seq(Messages)
    BY <1>4, FewMessages
  <1> HIDE DEF v
  <1>10. Carries("gzip", kept, in, v)
    BY <1>1, <1>7 DEF Carries
  <1> QED
    BY <1>8, <1>9, <1>10

\* The buffered body at once: also what finalize sends.
LEMMA FlushedCarries ==
  ASSUME NEW st \in States, NEW in \in Outputs, NEW o \in Outputs, st.held # <<>>,
         Opens(st.held) = Opens(in.start), o.start = <<>> \/ Opens(o.start) = Opens(in.start)
  PROVE  LET f == Flushed(st) IN
         /\ f.st \in States /\ SameCounts(st, f.st)
         /\ f.out \in Seq(Messages) /\ f.out # <<>> /\ SuitsAll(o, f.out)
         /\ Carries("gzip", f.st, in, DeliverAll(o, f.out))
         /\ Carries("gzip", [f.st EXCEPT !.started = TRUE], in, DeliverAll(o, f.out))
  <1> DEFINE f == Flushed(st)
             all == [f.st EXCEPT !.started = TRUE]
  <1>1. /\ f.st \in States /\ f.st.inside = st.inside /\ f.st.counts = st.counts
        /\ \E s \in Starts, n \in Nat :
             /\ f.out = <<s, BodyMsg(st.raw, n, FALSE)>>
             /\ \/ s = st.held[1] /\ n = st.size
                \/ s = Compressed(st.held[1], <<n>>) /\ st.size >= MinimumSize
    BY FlushedFacts
  <1>2. PICK s \in Starts, n \in Nat :
             /\ f.out = <<s, BodyMsg(st.raw, n, FALSE)>>
             /\ s = st.held[1] \/ s = Compressed(st.held[1], <<n>>)
    BY <1>1
  <1>3. st.held[1] \in Starts
    BY StateFacts
  <1>4. s.status = st.held[1].status
    <2>1. \A x : <<x>> \in Seq({x})
      OBVIOUS
    <2>2. <<n>> \in Seq(Nat)
      OBVIOUS
    <2>3. Compressed(st.held[1], <<n>>).status = st.held[1].status
      BY <1>3, <2>2, CompressedFacts
    <2> QED
      BY <1>2, <2>3
  <1> DEFINE passing == [st EXCEPT !.pass = TRUE]
             plain == PassedThrough(st, st.size)
             packed == <<Compressed(Last(st.held), <<Zipped(st.size)>>), BodyMsg(st.raw, Zipped(st.size), FALSE)>>
  <1>5. f = Gives(passing, plain) \/ f = Gives(st, packed)
    BY DEF Flushed
  <1>6. passing.held = st.held /\ passing.spoilt = st.spoilt
    BY DEF States
  <1> HIDE DEF passing, plain, packed
  <1>7. f.st = passing \/ f.st = st
    BY <1>5, GivesFacts
  <1> HIDE DEF f
  <1>8. f.st.held = st.held /\ SameCounts(st, f.st)
    BY <1>1, <1>6, <1>7 DEF SameCounts
  <1>9. all \in States /\ all.held = st.held /\ SameCounts(st, all)
    BY <1>1, <1>8 DEF States, SameCounts
  <1> DEFINE b == BodyMsg(st.raw, n, FALSE)
  <1>10. b \in Bodies
    BY StateFacts, MessageFacts
  <1> HIDE DEF b, all
  <1>11. f.out = <<s, b>> /\ <<s, b>> # <<>>
    BY <1>2 DEF b
  <1>12. /\ <<s, b>> \in Seq(Messages) /\ SuitsAll(o, <<s, b>>)
         /\ Carries("gzip", f.st, in, DeliverAll(o, <<s, b>>))
    BY <1>1, <1>4, <1>8, <1>10, GzipOpens
  <1>13. Carries("gzip", all, in, DeliverAll(o, <<s, b>>))
    BY <1>4, <1>9, <1>10, GzipOpens
  <1> QED
    BY <1>1, <1>8, <1>11, <1>12, <1>13 DEF f, all

\* GZipMiddleware
LEMMA GzipCarries ==
  ASSUME NEW st \in States, NEW in \in Outputs, NEW o \in Outputs, NEW m \in Messages,
         Suits(in, m), Carries("gzip", st, in, o)
  PROVE  CarriesOn("gzip", st, in, o, m)
  <1> DEFINE r == GzipSend(st, m)
             new == Deliver(in, m)
             none == <<>>
             Good(s, out) == /\ s \in States /\ SameCounts(st, s)
                             /\ out \in Seq(Messages) /\ SuitsAll(o, out)
                             /\ Carries("gzip", s, new, DeliverAll(o, out))
  <1>1. /\ Opens(st.held) = Opens(in.start)
        /\ o.start = <<>> \/ Opens(o.start) = Opens(in.start)
        /\ st.started \/ st.pass => o.start # <<>>
    BY DEF Carries
  <1>2. /\ new \in Outputs /\ new.start # <<>>
        /\ Opens(new.start) = IF m.kind = "start" THEN {m.status} ELSE Opens(in.start)
    BY SuitsDeliver
  <1>3. \A s, out : r = Gives(s, out) /\ Good(s, out) => CarriesOn("gzip", st, in, o, m)
    <2>1. r = Relay("gzip", st, m)
      BY DEF Relay
    <2> HIDE DEF r
    <2> SUFFICES ASSUME NEW s, NEW out, r = Gives(s, out), Good(s, out)
                 PROVE  CarriesOn("gzip", st, in, o, m)
      OBVIOUS
    <2>2. r.st = s /\ r.out = out
      BY GivesFacts
    <2> QED
      BY <2>1, <2>2 DEF CarriesOn
  <1>4. none \in Seq(Messages) /\ SuitsAll(o, none) /\ DeliverAll(o, none) = o
    BY FewMessages, FewDelivered
  <1> HIDE DEF new, none
  <1>5. CASE m.kind = "start"
    <2>1. m \in Starts /\ Opens(new.start) = {m.status}
      BY <1>2, <1>5, MessageFacts DEF Messages
    <2> DEFINE through == [st EXCEPT !.held = <<m>>, !.pass = TRUE]
               holding == [st EXCEPT !.held = <<m>>]
    <2>2. /\ through \in States /\ SameCounts(st, through) /\ through.held = <<m>>
          /\ through.started = st.started
          /\ holding \in States /\ SameCounts(st, holding) /\ holding.held = <<m>>
          /\ holding.started = st.started /\ holding.pass = st.pass
      BY <2>1, MessageFacts DEF States, SameCounts
    <2>3. Opens(<<m>>) = {m.status}
      BY <2>1, MessageFacts DEF Opens
    <2>4. r = IF m.coded THEN Gives(through, <<m>>) ELSE Gives(holding, none)
      BY <1>5 DEF GzipSend, none
    <2> HIDE DEF through, holding, r
    <2>5. Opens(in.start) \subseteq {m.status}
      BY <1>5 DEF Suits
    <2>6. CASE m.coded
      <3>1. Suits(o, m)
        BY <1>1, <1>5, <2>5 DEF Suits, Opens
      <3>2. /\ <<m>> \in Seq(Messages) /\ SuitsAll(o, <<m>>) /\ DeliverAll(o, <<m>>) = Deliver(o, m)
            /\ Deliver(o, m).start # <<>> /\ Opens(Deliver(o, m).start) = {m.status}
        BY <1>5, <3>1, FewMessages, FewDelivered, SuitsDeliver
      <3>3. Carries("gzip", through, new, Deliver(o, m))
        BY <2>1, <2>2, <2>3, <3>2 DEF Carries
      <3>4. Good(through, <<m>>) /\ r = Gives(through, <<m>>)
        BY <2>2, <2>4, <2>6, <3>2, <3>3
      <3> QED
        BY <1>3, <3>4
    <2>7. CASE ~m.coded
      <3>1. o.start = <<>> \/ Opens(o.start) = {m.status}
        <4>1. CASE in.start = <<>>
          <5>1. Opens(in.start) = {}
            BY <4>1, OutputFacts
          <5>2. Opens(o.start) = {} => o.start = <<>>
            BY OutputFacts
          <5> QED
            BY <1>1, <5>1, <5>2
        <4>2. CASE in.start # <<>>
          <5>1. Opens(in.start) # {}
            BY <4>2, OutputFacts
          <5>2. Opens(in.start) = {m.status}
            BY <2>5, <5>1
          <5> QED
            BY <1>1, <5>2
        <4> QED
          BY <4>1, <4>2
      <3>2. Carries("gzip", holding, new, o)
        BY <1>1, <2>1, <2>2, <2>3, <3>1 DEF Carries
      <3>3. Good(holding, none) /\ r = Gives(holding, none)
        BY <1>4, <2>2, <2>4, <2>7, <3>2
      <3> QED
        BY <1>3, <3>3
    <2> QED
      BY <2>6, <2>7
  <1>6. CASE m.kind # "start"
    <2> DEFINE b == Buffered(st, m)
               f == Flushed(b)
               over == [f.st EXCEPT !.started = TRUE]
               n == [m EXCEPT !.size = Zipped(@)]
    <2>1. /\ m \in Bodies /\ in.start # <<>> /\ Opens(new.start) = Opens(in.start)
          /\ st.held # <<>>
      <3>1. in.start # <<>> /\ m \in Bodies
        BY <1>6, MessageFacts DEF Suits, Messages
      <3>2. Opens(in.start) # {} /\ Opens(<<>>) = {}
        BY <3>1, OutputFacts DEF Opens
      <3> QED
        BY <1>1, <1>2, <1>6, <3>1, <3>2
    <2>2. n \in Bodies /\ n.kind = m.kind
      <3>1. m.size \in Nat
        BY <2>1, MessageFacts
      <3>2. Zipped(m.size) \in Nat
        BY <3>1 DEF Zipped
      <3> DEFINE z == Zipped(m.size)
      <3> HIDE DEF z
      <3>3. [m EXCEPT !.size = z] \in Bodies /\ [m EXCEPT !.size = z].kind = m.kind
        BY <2>1, <3>2 DEF Bodies, z
      <3> QED
        BY <3>3 DEF z
    <2>3. /\ b \in States /\ SameCounts(st, b) /\ b.held = st.held
          /\ (b.started <=> st.started) /\ (b.pass <=> st.pass)
      BY <2>1, BufferedFacts DEF Buffered, States, SameCounts
    <2>4. r = IF st.pass THEN Gives(st, <<m>>)
              ELSE IF st.started /\ st.zip THEN Gives(st, <<n>>)
              ELSE IF ~m.more THEN Gives(over, f.out)
              ELSE IF b.size >= MinimumSize THEN Streaming(b) ELSE Gives(b, none)
      BY <1>6 DEF GzipSend, none
    <2>5. SameCounts(st, st)
      BY DEF SameCounts
    <2>6. Opens(b.held) = Opens(new.start) /\ (o.start = <<>> \/ Opens(o.start) = Opens(new.start))
      BY <1>1, <2>1, <2>3
    <2> HIDE DEF r, b, n
    <2>7. ASSUME NEW x \in Messages, x.kind = m.kind, st.pass \/ st.started
          PROVE  Good(st, <<x>>)
      <3>1. Opens(o.start) = Opens(in.start)
        BY <1>1, <2>7
      <3>2. /\ <<x>> \in Seq(Messages) /\ SuitsAll(o, <<x>>)
            /\ DeliverAll(o, <<x>>).start # <<>>
            /\ Opens(DeliverAll(o, <<x>>).start) = Opens(new.start)
        BY <1>6, <2>7, <3>1, CarriesSame DEF new
      <3>3. Carries("gzip", st, new, DeliverAll(o, <<x>>))
        BY <1>1, <2>1, <3>2 DEF Carries
      <3> QED
        BY <2>5, <3>2, <3>3
    <2>8. CASE st.pass
      <3>1. Good(st, <<m>>) /\ r = Gives(st, <<m>>)
        BY <2>4, <2>7, <2>8
      <3> QED
        BY <1>3, <3>1
    <2>9. CASE ~st.pass /\ st.started /\ st.zip
      <3>1. Good(st, <<n>>) /\ r = Gives(st, <<n>>)
        BY <2>2, <2>4, <2>7, <2>9 DEF Messages
      <3> QED
        BY <1>3, <3>1
    <2>10. CASE ~st.pass /\ ~(st.started /\ st.zip) /\ ~m.more
      <3>1. /\ f.st \in States /\ SameCounts(b, f.st)
            /\ f.out \in Seq(Messages) /\ SuitsAll(o, f.out)
            /\ Carries("gzip", over, new, DeliverAll(o, f.out))
        BY <1>2, <2>1, <2>3, <2>6, FlushedCarries
      <3> HIDE DEF f
      <3>2. over \in States /\ SameCounts(st, over)
        BY <2>3, <3>1 DEF States, SameCounts
      <3>3. Good(over, f.out) /\ r = Gives(over, f.out)
        BY <2>4, <2>10, <3>1, <3>2
      <3> HIDE DEF over
      <3> QED
        BY <1>3, <3>3
    <2>11. CASE ~st.pass /\ ~(st.started /\ st.zip) /\ m.more /\ b.size >= MinimumSize
      <3> DEFINE s == Compressed(Last(b.held), none)
                 body == BodyMsg(b.raw, Zipped(b.size), TRUE)
                 going == [b EXCEPT !.started = TRUE, !.zip = TRUE]
      <3>1. r = Gives(going, <<s, body>>)
        BY <2>4, <2>11 DEF Streaming, none
      <3>2. b.held[1] \in Starts /\ Last(b.held) = b.held[1]
        BY <2>1, <2>3, StateFacts DEF Last
      <3>3. s \in Starts /\ s.status = b.held[1].status
        <4>1. none \in Seq(Nat)
          BY DEF none
        <4> QED
          BY <3>2, <4>1, CompressedFacts
      <3>4. body \in Bodies
        <4>1. b.raw \in Nat /\ b.size \in Nat
          BY <2>3, StateFacts
        <4>2. Zipped(b.size) \in Nat
          BY <4>1 DEF Zipped
        <4> QED
          BY <4>1, <4>2, MessageFacts
      <3>5. going \in States /\ SameCounts(st, going) /\ going.held = b.held
        BY <2>3 DEF States, SameCounts
      <3> HIDE DEF s, body, going
      <3>6. /\ <<s, body>> \in Seq(Messages) /\ SuitsAll(o, <<s, body>>)
            /\ Carries("gzip", going, new, DeliverAll(o, <<s, body>>))
        BY <1>2, <2>1, <2>3, <2>6, <3>3, <3>4, <3>5, GzipOpens
      <3> QED
        BY <1>3, <3>1, <3>5, <3>6
    <2>12. CASE ~st.pass /\ ~(st.started /\ st.zip) /\ m.more /\ ~(b.size >= MinimumSize)
      <3>1. Carries("gzip", b, new, o)
        BY <1>1, <2>3, <2>6 DEF Carries
      <3>2. Good(b, none) /\ r = Gives(b, none)
        BY <1>4, <2>3, <2>4, <2>12, <3>1
      <3> QED
        BY <1>3, <3>2
    <2> QED
      BY <2>8, <2>9, <2>10, <2>11, <2>12
  <1> QED
    BY <1>5, <1>6

\* Each of them.
LEMMA RelayCarries ==
  ASSUME NEW k \in Kinds, NEW st \in States, NEW in \in Outputs, NEW o \in Outputs,
         NEW m \in Messages, Suits(in, m), Carries(k, st, in, o)
  PROVE  CarriesOn(k, st, in, o, m)
  BY LiningCarries, ErrorsCarries, HooksCarries, GzipCarries DEF Lining

\* Several messages.
CarriedOn(k, st, in, o, r, now) ==
  /\ r.st \in States /\ SameCounts(st, r.st)
  /\ r.out \in Seq(Messages) /\ SuitsAll(o, r.out)
  /\ Carries(k, r.st, now, DeliverAll(o, r.out))

\* Each of them is carried on, so all are.
LEMMA RelayAllCarries ==
  ASSUME NEW k \in Kinds, NEW st \in States, NEW in \in Outputs, NEW o \in Outputs,
         NEW ms \in Seq(Messages), SuitsAll(in, ms), Carries(k, st, in, o)
  PROVE  CarriedOn(k, st, in, o, RelayAll(k, st, ms), DeliverAll(in, ms))
  <1> DEFINE after == Relayed(k, st, ms)
             now == Delivered(in, ms)
             S == {n \in 0..Len(ms) : CarriedOn(k, st, in, o, after[n], now[n])}
  <1>1. Len(ms) \in Nat /\ \A n \in 1..Len(ms) : ms[n] \in Messages
    OBVIOUS
  <1>2. /\ now[0] = in
        /\ \A n \in 1..Len(ms) : now[n] = Deliver(now[n - 1], ms[n])
    BY <1>1, DeliveredFacts
  <1>3. /\ after[0] = Gives(st, <<>>)
        /\ \A n \in 1..Len(ms) :
             after[n] = Gives(Relay(k, after[n - 1].st, ms[n]).st,
                              after[n - 1].out \o Relay(k, after[n - 1].st, ms[n]).out)
    BY <1>1, RelayedFacts
  <1>4. \A n \in 0..Len(ms) : now[n] \in Outputs
    BY SuitsAllKeeps
  <1>5. RelayAll(k, st, ms) = after[Len(ms)] /\ DeliverAll(in, ms) = now[Len(ms)]
    BY DEF RelayAll, DeliverAll
  <1>6. \A n \in 1..Len(ms) : Suits(now[n - 1], ms[n])
    BY DEF SuitsAll
  <1> HIDE DEF after, now
  <1>7. 0 \in S
    <2>1. after[0].st = st /\ after[0].out = <<>>
      BY <1>3, GivesFacts
    <2>2. SuitsAll(o, <<>>) /\ DeliverAll(o, <<>>) = o /\ <<>> \in Seq(Messages)
      BY FewDelivered, FewMessages
    <2>3. CarriedOn(k, st, in, o, after[0], now[0])
      BY <1>2, <2>1, <2>2 DEF CarriedOn, SameCounts
    <2> QED
      BY <1>1, <2>3
  <1>8. ASSUME NEW n \in 0..Len(ms), n \in S, n < Len(ms) PROVE n + 1 \in S
    <2> DEFINE a == after[n]
               r == Relay(k, a.st, ms[n + 1])
               v == DeliverAll(o, a.out)
    <2>1. n + 1 \in 1..Len(ms) /\ (n + 1) - 1 = n /\ n + 1 \in 0..Len(ms)
      BY <1>1, <1>8
    <2>2. /\ a.st \in States /\ SameCounts(st, a.st)
          /\ a.out \in Seq(Messages) /\ SuitsAll(o, a.out)
          /\ Carries(k, a.st, now[n], v)
      BY <1>8 DEF CarriedOn
    <2>3. now[n] \in Outputs /\ v \in Outputs /\ Suits(now[n], ms[n + 1]) /\ ms[n + 1] \in Messages
          /\ now[n + 1] = Deliver(now[n], ms[n + 1])
      BY <1>1, <1>2, <1>4, <1>6, <2>1, <2>2, SuitsAllKeeps
    <2>4. /\ after[n + 1].st = r.st /\ after[n + 1].out = a.out \o r.out
      <3>1. after[n + 1] = Gives(Relay(k, after[n].st, ms[n + 1]).st,
                                 after[n].out \o Relay(k, after[n].st, ms[n + 1]).out)
        BY <1>3, <2>1
      <3> DEFINE st1 == r.st
                 out1 == a.out \o r.out
      <3>2. after[n + 1] = Gives(st1, out1)
        BY <3>1
      <3> HIDE DEF st1, out1
      <3>3. after[n + 1].st = st1 /\ after[n + 1].out = out1
        BY <3>2, GivesFacts
      <3> QED
        BY <3>3 DEF st1, out1
    <2> HIDE DEF a, v
    <2>5. CarriesOn(k, a.st, now[n], v, ms[n + 1])
      BY <2>2, <2>3, RelayCarries
    <2>6. /\ r.st \in States /\ SameCounts(a.st, r.st)
          /\ r.out \in Seq(Messages) /\ SuitsAll(v, r.out)
          /\ Carries(k, r.st, Deliver(now[n], ms[n + 1]), DeliverAll(v, r.out))
      BY <2>5 DEF CarriesOn
    <2> HIDE DEF r
    <2>7. /\ DeliverAll(o, a.out \o r.out) = DeliverAll(v, r.out)
          /\ SuitsAll(o, a.out \o r.out)
      BY <2>2, <2>6, ConcatDelivered DEF v
    <2>8. a.out \o r.out \in Seq(Messages) /\ SameCounts(st, r.st)
      BY <2>2, <2>6, ConcatProperties DEF SameCounts
    <2>9. CarriedOn(k, st, in, o, after[n + 1], now[n + 1])
      BY <2>3, <2>4, <2>6, <2>7, <2>8 DEF CarriedOn
    <2> QED
      BY <2>1, <2>9
  <1>9. \A n \in 0..Len(ms) : n \in S
    <2> HIDE DEF S
    <2> QED
      BY <1>1, <1>7, <1>8, Induction
  <1>10. Len(ms) \in 0..Len(ms)
    BY <1>1
  <1> QED
    BY <1>5, <1>9, <1>10

\* Cut off in the last of them, it keeps to the status; and it has done all that
\* it does when it is not cut off, unless it is spoilt by that.
LEMMA CutCarries ==
  ASSUME NEW k \in Kinds, NEW st \in States, NEW in \in Outputs, NEW o \in Outputs,
         NEW ms \in Seq(Messages), ms # <<>>, SuitsAll(in, ms), Carries(k, st, in, o),
         NEW short \in BOOLEAN, short => k = "gzip", CutOut(k, st, ms, short) # <<>>
  PROVE  LET s == CutState(k, st, ms)
             out == CutOut(k, st, ms, short)
         IN  /\ s \in States /\ s.inside = st.inside /\ s.counts = st.counts
             /\ st.spoilt => s.spoilt
             /\ out \in Seq(Messages) /\ SuitsAll(o, out)
             /\ Carries(k, s, DeliverAll(in, ms), DeliverAll(o, out))
             /\ ~(k = "gzip" /\ s.spoilt) =>
                  s = RelayAll(k, st, ms).st /\ out = RelayAll(k, st, ms).out
  <1> DEFINE front == Front(ms)
             before == RelayAll(k, st, front)
             last == LastRelay(k, st, ms)
             part == IF short THEN <<Head(last.out)>> ELSE last.out
             s == CutState(k, st, ms)
             out == CutOut(k, st, ms, short)
             spoiled == [last.st EXCEPT !.started = before.st.started, !.spoilt = TRUE]
             in1 == DeliverAll(in, front)
             o1 == DeliverAll(o, before.out)
             new == DeliverAll(in, ms)
             w == DeliverAll(o1, last.out)
             v == DeliverAll(o1, part)
  <1>1. /\ front \in Seq(Messages) /\ Last(ms) \in Messages
        /\ new = Deliver(in1, Last(ms))
        /\ SuitsAll(in, front) /\ Suits(in1, Last(ms))
        /\ RelayAll(k, st, ms).st = last.st
        /\ RelayAll(k, st, ms).out = before.out \o last.out
    BY LastFacts
  <1>2. CarriedOn(k, st, in, o, before, in1)
    <2> HIDE DEF front
    <2> QED
      BY <1>1, RelayAllCarries
  <1>3. /\ before.st \in States /\ SameCounts(st, before.st)
        /\ before.out \in Seq(Messages) /\ SuitsAll(o, before.out)
        /\ Carries(k, before.st, in1, o1)
    BY <1>2 DEF CarriedOn
  <1>4. in1 \in Outputs /\ o1 \in Outputs
    <2> HIDE DEF front, before
    <2> QED
      BY <1>1, <1>3, SuitsAllKeeps
  <1>5. last = Relay(k, before.st, Last(ms))
    BY DEF LastRelay
  <1>6. last.out # <<>> /\ out = before.out \o part
    BY DEF CutOut, UpTo
  <1>7. s = IF k = "gzip" /\ (Len(last.out) > 1 \/ last.st.started # before.st.started)
              THEN spoiled ELSE last.st
    BY DEF CutState, Unset
  <1> HIDE DEF front, before, in1, o1, new, s, out
  <1>8. CarriesOn(k, before.st, in1, o1, Last(ms))
    BY <1>1, <1>3, <1>4, RelayCarries
  <1>9. /\ last.st \in States /\ SameCounts(before.st, last.st)
        /\ last.out \in Seq(Messages) /\ SuitsAll(o1, last.out)
        /\ Carries(k, last.st, new, w)
    BY <1>1, <1>5, <1>8 DEF CarriesOn
  <1> HIDE DEF last
  <1>10. Len(last.out) \in Nat /\ Len(last.out) >= 1 /\ 1 \in 0..Len(last.out) /\ 1 \in 1..Len(last.out)
    BY <1>6, <1>9, EmptySeq
  <1>11. /\ part \in Seq(Messages) /\ SuitsAll(o1, part)
         /\ v.start # <<>> /\ Opens(v.start) = Opens(w.start)
    <2>1. /\ w.start # <<>>
          /\ Delivered(o1, last.out)[1].start # <<>>
          /\ Opens(Delivered(o1, last.out)[1].start) = Opens(w.start)
      <3>1. Len(last.out) \in 1..Len(last.out) /\ w = Delivered(o1, last.out)[Len(last.out)]
        BY <1>10 DEF DeliverAll
      <3> QED
        BY <1>4, <1>9, <1>10, <3>1, SuitsAllKeeps
    <2>2. CASE ~short
      <3>1. part = last.out
        BY <2>2
      <3> QED
        BY <1>9, <2>1, <3>1
    <2>3. CASE short
      <3> DEFINE p == SubSeq(last.out, 1, 1)
      <3>1. /\ p \in Seq(Messages) /\ SuitsAll(o1, p)
            /\ DeliverAll(o1, p) = Delivered(o1, last.out)[1]
            /\ Len(p) = 1 /\ p[1] = last.out[1]
        BY <1>9, <1>10, FirstFacts
      <3>2. part = p
        <4>1. part = <<last.out[1]>>
          BY <1>9, <1>6, <2>3
        <4> HIDE DEF p
        <4>2. <<last.out[1]>> \in Seq(Messages) /\ Len(<<last.out[1]>>) = 1 /\ <<last.out[1]>>[1] = last.out[1]
          BY <1>9, <1>10
        <4>3. \A i \in 1..Len(p) : p[i] = <<last.out[1]>>[i]
          BY <3>1, <4>2
        <4>4. <<last.out[1]>> = p
          BY <3>1, <4>2, <4>3, SeqEqual
        <4> QED
          BY <4>1, <4>4
      <3> HIDE DEF p
      <3> QED
        BY <2>1, <3>1, <3>2
    <2> QED
      BY <2>2, <2>3
  <1>12. short \/ part = last.out
    OBVIOUS
  <1>13. Len(last.out) = 1 => part = last.out
    <2> SUFFICES ASSUME Len(last.out) = 1, short PROVE part = last.out
      OBVIOUS
    <2>1. part = <<last.out[1]>>
      BY <1>9, <1>6
    <2>2. <<last.out[1]>> \in Seq(Messages) /\ Len(<<last.out[1]>>) = 1 /\ <<last.out[1]>>[1] = last.out[1]
      BY <1>9, <1>10
    <2>3. \A i \in 1..Len(last.out) : last.out[i] = <<last.out[1]>>[i]
      BY <2>2
    <2>4. <<last.out[1]>> = last.out
      BY <1>9, <2>2, <2>3, SeqEqual
    <2> QED
      BY <2>1, <2>4
  <1> HIDE DEF part
  <1>14. out \in Seq(Messages) /\ SuitsAll(o, out) /\ DeliverAll(o, out) = v
    <2>1. before.out \o part \in Seq(Messages)
      BY <1>3, <1>11, ConcatProperties
    <2>2. DeliverAll(o, before.out \o part) = DeliverAll(DeliverAll(o, before.out), part)
          /\ SuitsAll(o, before.out \o part)
      BY <1>3, <1>11, ConcatDelivered DEF o1
    <2> QED
      BY <1>6, <2>1, <2>2 DEF o1
  <1>15. CASE k = "gzip" /\ (Len(last.out) > 1 \/ last.st.started # before.st.started)
    <2>1. s = spoiled
      BY <1>7, <1>15
    <2>2. /\ spoiled \in States /\ spoiled.inside = last.st.inside /\ spoiled.counts = last.st.counts
          /\ spoiled.held = last.st.held /\ spoiled.spoilt
      BY <1>3, <1>9 DEF States
    <2>3. Opens(spoiled.held) = Opens(new.start) /\ Opens(v.start) = Opens(new.start)
      <3>1. /\ Opens(last.st.held) = Opens(new.start)
            /\ w.start = <<>> \/ Opens(w.start) = Opens(new.start)
        BY <1>9, <1>15 DEF Carries
      <3>2. w.start # <<>>
        BY <1>11 DEF Opens
      <3> QED
        BY <1>11, <2>2, <3>1, <3>2
    <2> HIDE DEF spoiled, v, w
    <2>4. Carries(k, s, new, v)
      BY <1>11, <1>15, <2>1, <2>3 DEF Carries
    <2> QED
      BY <1>3, <1>9, <1>14, <1>15, <2>1, <2>2, <2>4 DEF SameCounts, s, out, new
  <1>16. CASE ~(k = "gzip" /\ (Len(last.out) > 1 \/ last.st.started # before.st.started))
    <2>1. s = last.st
      BY <1>7, <1>16
    <2>2. k = "gzip" => Len(last.out) = 1
      <3>1. k = "gzip" => ~(Len(last.out) > 1)
        BY <1>16, Zenon
      <3>2. \A n \in Nat : n >= 1 /\ ~(n > 1) => n = 1
        OBVIOUS
      <3> QED
        BY <1>10, <3>1, <3>2, Zenon
    <2>3. part = last.out
      BY <1>12, <1>13, <2>2
    <2>4. v = w /\ out = before.out \o last.out
      BY <1>6, <2>3
    <2> HIDE DEF v, w
    <2> QED
      BY <1>1, <1>3, <1>9, <1>14, <2>1, <2>4 DEF SameCounts, s, out, new
  <1> QED
    BY <1>15, <1>16

\* What leaves each position when the sending is cut off.
LEMMA CutOutwardFacts ==
  ASSUME NEW states, NEW d \in Nat, NEW ms, NEW short
  PROVE  /\ CutOutward(states, d, ms, short)[d + 1] = ms
         /\ \A i \in 1..d : \E cut \in BOOLEAN :
              /\ cut => i \in short
              /\ CutOutward(states, d, ms, short)[i] =
                   CutOut(pipe[i], states[i], CutOutward(states, d, ms, short)[i + 1], cut)
  <1> DEFINE Step1(i, f) == CutOut(pipe[i], states[i], f[i + 1], i \in short)
             Is(f, l) == f = [i \in l..d + 1 |-> IF i = d + 1 THEN ms ELSE Step1(i, f)]
             S == {N \in 0..d : \E f : Is(f, d + 1 - N)}
  <1>0. Is(CutOutward(states, d, ms, short), 1) <=> d \in S
    <2>1. CutOutward(states, d, ms, short) = CHOOSE f : Is(f, 1)
      BY DEF CutOutward
    <2>2. d + 1 - d = 1 /\ d \in 0..d
      OBVIOUS
    <2> HIDE DEF Is
    <2> QED
      BY <2>1, <2>2
  <1>1. 0 \in S
    <2> DEFINE g == [i \in d + 1..d + 1 |-> ms]
    <2>1. Is(g, d + 1)
      OBVIOUS
    <2>2. d + 1 - 0 = d + 1 /\ 0 \in 0..d
      OBVIOUS
    <2> HIDE DEF g, Is
    <2> QED
      BY <2>1, <2>2
  <1>2. ASSUME NEW N \in 0..d, N \in S, N < d PROVE N + 1 \in S
    <2> DEFINE l == d + 1 - N
    <2>1. PICK f : Is(f, l)
      BY <1>2
    <2> DEFINE g == [i \in l - 1..d + 1 |-> IF i = l - 1 THEN Step1(i, f) ELSE f[i]]
    <2>2. l \in 2..d + 1 /\ d + 1 - (N + 1) = l - 1 /\ N + 1 \in 0..d
      BY <1>2
    <2>3. ASSUME NEW i \in l - 1..d + 1
          PROVE  g[i] = IF i = d + 1 THEN ms ELSE Step1(i, g)
      <3> HIDE DEF l
      <3>1. i # d + 1 => i + 1 \in l..d + 1 /\ g[i + 1] = f[i + 1]
        BY <2>2
      <3>2. i # d + 1 => Step1(i, g) = Step1(i, f)
        BY <3>1
      <3>3. CASE i = l - 1
        <4>1. i # d + 1 /\ g[i] = Step1(i, f)
          BY <2>2, <3>3
        <4> QED
          BY <3>2, <4>1
      <3>4. CASE i # l - 1
        <4>1. i \in l..d + 1 /\ g[i] = f[i]
          BY <2>2, <3>4
        <4>2. f[i] = IF i = d + 1 THEN ms ELSE Step1(i, f)
          BY <2>1, <4>1
        <4> QED
          BY <3>2, <4>1, <4>2
      <3> QED
        BY <3>3, <3>4
    <2> HIDE DEF l
    <2>4. Is(g, l - 1)
      BY <2>3
    <2> HIDE DEF g, Is
    <2> QED
      BY <2>2, <2>4
  <1>3. d \in S
    <2> HIDE DEF S
    <2>1. \A n \in 0..d : n \in S
      BY <1>1, <1>2, Induction
    <2> QED
      BY <2>1
  <1>4. Is(CutOutward(states, d, ms, short), 1)
    BY <1>0, <1>3
  <1>5. CutOutward(states, d, ms, short)[d + 1] = ms
    BY <1>4
  <1>6. ASSUME NEW i \in 1..d
        PROVE  \E cut \in BOOLEAN :
                 /\ cut => i \in short
                 /\ CutOutward(states, d, ms, short)[i] =
                      CutOut(pipe[i], states[i], CutOutward(states, d, ms, short)[i + 1], cut)
    <2> DEFINE out == CutOutward(states, d, ms, short)
               cut1 == i \in short
    <2>1. out[i] = Step1(i, out)
      <3>1. i \in 1..d + 1 /\ i # d + 1
        OBVIOUS
      <3> HIDE DEF Step1, out
      <3> QED
        BY <1>4, <3>1 DEF out
    <2>2. out[i] = CutOut(pipe[i], states[i], out[i + 1], cut1)
      BY <2>1
    <2>3. cut1 \in BOOLEAN /\ (cut1 => i \in short)
      OBVIOUS
    <2> HIDE DEF cut1, out
    <2>4. \E cut \in BOOLEAN :
            (cut => i \in short) /\ out[i] = CutOut(pipe[i], states[i], out[i + 1], cut)
      BY <2>2, <2>3
    <2> QED
      BY <2>4 DEF out
  <1> QED
    BY <1>5, <1>6

\* The pipeline, whatever was cut off.
Piped(states) ==
  /\ pipe \in Seq(Kinds)
  /\ states \in [1..Len(pipe) -> States]
  /\ sent \in [1..Inner -> Outputs]

\* What position d + 1 sent last is ms, and that has gone through the middlewares
\* of d .. 1, which keep to the status.
Passed(states, d, ms) ==
  /\ mw' \in [1..Len(pipe) -> States] /\ sent' \in [1..Inner -> Outputs]
  /\ sent'[d + 1] = DeliverAll(sent[d + 1], ms)
  /\ \A i \in d + 2..Inner : sent'[i] = sent[i]
  /\ \A i \in d + 1..Len(pipe) : mw'[i] = states[i]
  /\ \A i \in 1..Len(pipe) : /\ mw'[i].inside = states[i].inside
                             /\ mw'[i].counts = states[i].counts
                             /\ states[i].spoilt => mw'[i].spoilt
  /\ \A i \in 1..d : Carries(pipe[i], mw'[i], sent'[i + 1], sent'[i])

\* What each position makes of what it is sent passes the pipeline: by induction
\* from position d outwards.
LEMMA PassedFrom ==
  ASSUME NEW states, Piped(states), NEW d \in 0..Len(pipe), UNCHANGED pipe,
         NEW ms \in Seq(Messages), SuitsAll(sent[d + 1], ms), NEW leaving, NEW after,
         leaving[d + 1] = ms,
         \A i \in 1..d :
           leaving[i + 1] \in Seq(Messages) /\ SuitsAll(sent[i + 1], leaving[i + 1]) =>
             /\ after[i] \in States
             /\ after[i].inside = states[i].inside /\ after[i].counts = states[i].counts
             /\ states[i].spoilt => after[i].spoilt
             /\ leaving[i] \in Seq(Messages) /\ SuitsAll(sent[i], leaving[i])
             /\ Carries(pipe[i], after[i], DeliverAll(sent[i + 1], leaving[i + 1]),
                        DeliverAll(sent[i], leaving[i])),
         mw' = [i \in 1..Len(pipe) |-> IF i <= d THEN after[i] ELSE states[i]],
         sent' = [i \in 1..Inner |->
                    IF i <= d + 1 THEN DeliverAll(sent[i], leaving[i]) ELSE sent[i]]
  PROVE  /\ Passed(states, d, ms)
         /\ \A i \in 1..d : /\ mw'[i] = after[i]
                            /\ leaving[i + 1] \in Seq(Messages)
                            /\ SuitsAll(sent[i + 1], leaving[i + 1])
  <1> DEFINE OK(i) == leaving[i] \in Seq(Messages) /\ SuitsAll(sent[i], leaving[i])
             S == {i \in 1..d + 1 : OK(i)}
  <1>1. /\ Len(pipe) \in Nat /\ Inner = Len(pipe) + 1 /\ d \in Nat /\ d <= Len(pipe)
        /\ \A i \in 1..Len(pipe) : states[i] \in States
        /\ \A i \in 1..Inner : sent[i] \in Outputs
    <2>1. pipe \in Seq(Kinds) /\ states \in [1..Len(pipe) -> States] /\ sent \in [1..Inner -> Outputs]
      BY DEF Piped
    <2>2. Len(pipe) \in Nat
      BY <2>1
    <2>3. d \in Nat /\ d <= Len(pipe)
      BY <2>2
    <2>4. \A i \in 1..Len(pipe) : states[i] \in States
      BY <2>1
    <2>5. \A i \in 1..Inner : sent[i] \in Outputs
      BY <2>1
    <2> QED
      BY <2>2, <2>3, <2>4, <2>5 DEF Inner
  <1>2. d + 1 \in S
    BY <1>1
  <1>3. ASSUME NEW n \in 1..d + 1, n \in S, n > 1 PROVE n - 1 \in S
    <2>1. n - 1 \in 1..d /\ (n - 1) + 1 = n /\ n - 1 \in 1..d + 1
      BY <1>1, <1>3
    <2>2. OK((n - 1) + 1)
      BY <1>3, <2>1
    <2>3. OK(n - 1)
      BY <2>1, <2>2
    <2> QED
      BY <2>1, <2>3
  <1>4. \A i \in 1..d + 1 : OK(i)
    <2>1. \A i \in 1..d + 1 : i \in S
      <3>1. d + 1 \in Nat
        BY <1>1
      <3> HIDE DEF S
      <3> QED
        BY <1>2, <1>3, <3>1, Descent
    <2> QED
      BY <2>1
  <1>5. \A i \in 1..d :
             /\ after[i] \in States
             /\ after[i].inside = states[i].inside /\ after[i].counts = states[i].counts
             /\ states[i].spoilt => after[i].spoilt
             /\ Carries(pipe[i], after[i], DeliverAll(sent[i + 1], leaving[i + 1]),
                        DeliverAll(sent[i], leaving[i]))
    <2>1. \A i \in 1..d : i + 1 \in 1..d + 1
      BY <1>1
    <2>2. \A i \in 1..d : leaving[i + 1] \in Seq(Messages) /\ SuitsAll(sent[i + 1], leaving[i + 1])
      BY <1>4, <2>1
    <2> QED
      BY <2>2
  <1>6. /\ \A i \in 1..d : mw'[i] = after[i]
        /\ \A i \in d + 1..Len(pipe) : mw'[i] = states[i]
        /\ \A i \in 1..d + 1 : sent'[i] = DeliverAll(sent[i], leaving[i])
        /\ \A i \in d + 2..Inner : sent'[i] = sent[i]
    BY <1>1
  <1>7. mw' \in [1..Len(pipe) -> States]
    <2>1. \A i \in 1..Len(pipe) : IF i <= d THEN after[i] \in States ELSE states[i] \in States
      BY <1>1, <1>5
    <2> QED
      BY <2>1
  <1>8. sent' \in [1..Inner -> Outputs]
    <2>1. ASSUME NEW i \in 1..Inner, i <= d + 1 PROVE DeliverAll(sent[i], leaving[i]) \in Outputs
      <3>1. i \in 1..d + 1 /\ sent[i] \in Outputs
        BY <1>1, <2>1
      <3> QED
        BY <1>4, <3>1, SuitsAllKeeps
    <2> QED
      BY <1>1, <2>1
  <1>9. sent'[d + 1] = DeliverAll(sent[d + 1], ms)
    BY <1>1, <1>6
  <1>10. \A i \in 1..d : Carries(pipe[i], mw'[i], sent'[i + 1], sent'[i])
    <2>1. \A i \in 1..d : i + 1 \in 1..d + 1 /\ i \in 1..d + 1
      BY <1>1
    <2> QED
      BY <1>5, <1>6, <2>1
  <1>11. ASSUME NEW i \in 1..Len(pipe)
         PROVE  /\ mw'[i].inside = states[i].inside /\ mw'[i].counts = states[i].counts
                /\ states[i].spoilt => mw'[i].spoilt
    <2>1. i \in 1..d \/ i \in d + 1..Len(pipe)
      BY <1>1
    <2> QED
      BY <1>5, <1>6, <2>1
  <1>12. \A i \in 1..d : OK(i + 1)
    <2>1. \A i \in 1..d : i + 1 \in 1..d + 1
      BY <1>1
    <2> QED
      BY <1>4, <2>1
  <1> QED
    BY <1>6, <1>7, <1>8, <1>9, <1>10, <1>11, <1>12 DEF Passed

\* What is sent passes all the middlewares,
LEMMA SendPasses ==
  ASSUME NEW states, Piped(states), NEW d \in 0..Len(pipe), UNCHANGED pipe,
         NEW ms \in Seq(Messages), SuitsAll(sent[d + 1], ms),
         \A i \in 1..d : Carries(pipe[i], states[i], sent[i + 1], sent[i]),
         SendWith(states, d, ms)
  PROVE  Passed(states, d, ms) /\ \A i \in 1..Len(pipe) : mw'[i].spoilt = states[i].spoilt
  <1> DEFINE leaving == Outward(states, d, ms)
             after == [i \in 1..d |-> RelayAll(pipe[i], states[i], leaving[i + 1]).st]
  <1>1. /\ Len(pipe) \in Nat /\ d \in Nat /\ d <= Len(pipe)
        /\ \A i \in 1..Len(pipe) : pipe[i] \in Kinds /\ states[i] \in States
        /\ \A i \in 1..Inner : sent[i] \in Outputs
    <2>1. pipe \in Seq(Kinds) /\ states \in [1..Len(pipe) -> States] /\ sent \in [1..Inner -> Outputs]
      BY DEF Piped
    <2>2. Len(pipe) \in Nat /\ \A i \in 1..Len(pipe) : pipe[i] \in Kinds
      BY <2>1
    <2>3. \A i \in 1..Inner : sent[i] \in Outputs
      BY <2>1
    <2> QED
      BY <2>1, <2>2, <2>3
  <1>2. /\ leaving[d + 1] = ms
        /\ \A i \in 1..d : leaving[i] = RelayAll(pipe[i], states[i], leaving[i + 1]).out
    BY <1>1, OutwardFacts
  <1>3. /\ mw' = [i \in 1..Len(pipe) |->
                    IF i <= d THEN RelayAll(pipe[i], states[i], leaving[i + 1]).st ELSE states[i]]
        /\ sent' = [i \in 1..Inner |->
                      IF i <= d + 1 THEN DeliverAll(sent[i], leaving[i]) ELSE sent[i]]
    BY DEF SendWith, PassOn, SentOn
  <1> HIDE DEF leaving
  <1>4. \A i \in 1..d : after[i] = RelayAll(pipe[i], states[i], leaving[i + 1]).st
    OBVIOUS
  <1>5. mw' = [i \in 1..Len(pipe) |-> IF i <= d THEN after[i] ELSE states[i]]
    <2>1. \A i \in 1..Len(pipe) : i <= d => i \in 1..d
      BY <1>1
    <2> QED
      BY <1>3, <1>4, <2>1
  <1> HIDE DEF after
  <1>6. ASSUME NEW i \in 1..d, leaving[i + 1] \in Seq(Messages), SuitsAll(sent[i + 1], leaving[i + 1])
        PROVE  /\ after[i] \in States
               /\ after[i].inside = states[i].inside /\ after[i].counts = states[i].counts
               /\ after[i].spoilt = states[i].spoilt
               /\ leaving[i] \in Seq(Messages) /\ SuitsAll(sent[i], leaving[i])
               /\ Carries(pipe[i], after[i], DeliverAll(sent[i + 1], leaving[i + 1]),
                          DeliverAll(sent[i], leaving[i]))
    <2>1. i \in 1..Len(pipe) /\ i \in 1..Inner /\ i + 1 \in 1..Inner
      BY <1>1 DEF Inner
    <2>2. pipe[i] \in Kinds /\ states[i] \in States /\ sent[i] \in Outputs /\ sent[i + 1] \in Outputs
      BY <1>1, <2>1
    <2>3. CarriedOn(pipe[i], states[i], sent[i + 1], sent[i],
                    RelayAll(pipe[i], states[i], leaving[i + 1]),
                    DeliverAll(sent[i + 1], leaving[i + 1]))
      BY <1>6, <2>2, RelayAllCarries
    <2> QED
      BY <1>2, <1>4, <2>3 DEF CarriedOn, SameCounts
  <1>7. /\ Passed(states, d, ms)
        /\ \A i \in 1..d : /\ mw'[i] = after[i]
                           /\ leaving[i + 1] \in Seq(Messages)
                           /\ SuitsAll(sent[i + 1], leaving[i + 1])
    <2>1. \A i \in 1..d :
            leaving[i + 1] \in Seq(Messages) /\ SuitsAll(sent[i + 1], leaving[i + 1]) =>
              /\ after[i] \in States
              /\ after[i].inside = states[i].inside /\ after[i].counts = states[i].counts
              /\ states[i].spoilt => after[i].spoilt
              /\ leaving[i] \in Seq(Messages) /\ SuitsAll(sent[i], leaving[i])
              /\ Carries(pipe[i], after[i], DeliverAll(sent[i + 1], leaving[i + 1]),
                         DeliverAll(sent[i], leaving[i]))
      BY <1>6
    <2>2. leaving[d + 1] = ms
      BY <1>2
    <2>3. sent' = [i \in 1..Inner |->
                     IF i <= d + 1 THEN DeliverAll(sent[i], leaving[i]) ELSE sent[i]]
      BY <1>3
    <2> QED
      BY <1>5, <2>1, <2>2, <2>3, PassedFrom
  <1>8. ASSUME NEW i \in 1..Len(pipe) PROVE mw'[i].spoilt = states[i].spoilt
    <2>1. i \in 1..d \/ i \in d + 1..Len(pipe)
      BY <1>1
    <2>2. i \in 1..d => after[i].spoilt = states[i].spoilt
      BY <1>6, <1>7
    <2> QED
      BY <1>7, <2>1, <2>2 DEF Passed
  <1> QED
    BY <1>7, <1>8

\* and what is cut off the first of it; as if no more had been sent, unless a
\* GZipMiddleware is spoilt by that.
LEMMA CutPasses ==
  ASSUME NEW states, Piped(states), NEW d \in 0..Len(pipe), UNCHANGED pipe,
         NEW ms \in Seq(Messages), SuitsAll(sent[d + 1], ms),
         \A i \in 1..d : Carries(pipe[i], states[i], sent[i + 1], sent[i]),
         CutWith(states, d, ms)
  PROVE  \E n \in 1..Len(ms) :
           /\ SubSeq(ms, 1, n) \in Seq(Messages)
           /\ Passed(states, d, SubSeq(ms, 1, n))
           /\ (\A i \in 1..d : pipe[i] = "gzip" => ~mw'[i].spoilt) =>
                SendWith(states, d, SubSeq(ms, 1, n))
  <1>1. /\ Len(pipe) \in Nat /\ d \in Nat /\ d <= Len(pipe)
        /\ \A i \in 1..Len(pipe) : pipe[i] \in Kinds /\ states[i] \in States
        /\ \A i \in 1..Inner : sent[i] \in Outputs
    <2>1. pipe \in Seq(Kinds) /\ states \in [1..Len(pipe) -> States] /\ sent \in [1..Inner -> Outputs]
      BY DEF Piped
    <2>2. Len(pipe) \in Nat /\ \A i \in 1..Len(pipe) : pipe[i] \in Kinds
      BY <2>1
    <2>3. \A i \in 1..Inner : sent[i] \in Outputs
      BY <2>1
    <2> QED
      BY <2>1, <2>2, <2>3
  <1>2. PICK n \in 1..Len(ms), short \in SUBSET {i \in 1..d : pipe[i] = "gzip"} :
          LET leaving == CutOutward(states, d, SubSeq(ms, 1, n), short) IN
          /\ leaving[1] # <<>>
          /\ mw' = [i \in 1..Len(pipe) |->
                      IF i <= d THEN CutState(pipe[i], states[i], leaving[i + 1]) ELSE states[i]]
          /\ sent' = [i \in 1..Inner |->
                        IF i <= d + 1 THEN DeliverAll(sent[i], leaving[i]) ELSE sent[i]]
    BY DEF CutWith, PassUntilCut, SentOn
  <1> DEFINE p == SubSeq(ms, 1, n)
             leaving == CutOutward(states, d, p, short)
             after == [i \in 1..d |-> CutState(pipe[i], states[i], leaving[i + 1])]
             S == {i \in 0..d : leaving[i + 1] # <<>>}
  <1>3. p \in Seq(Messages) /\ SuitsAll(sent[d + 1], p)
    <2>1. n \in 0..Len(ms)
      OBVIOUS
    <2> QED
      BY <2>1, FirstFacts
  <1>4. /\ leaving[d + 1] = p
        /\ \A i \in 1..d : \E cut \in BOOLEAN :
             /\ cut => i \in short
             /\ leaving[i] = CutOut(pipe[i], states[i], leaving[i + 1], cut)
    <2> HIDE DEF p
    <2>1. d \in Nat
      BY <1>1
    <2> QED
      BY <2>1, CutOutwardFacts
  <1>5. /\ leaving[1] # <<>>
        /\ mw' = [i \in 1..Len(pipe) |->
                    IF i <= d THEN CutState(pipe[i], states[i], leaving[i + 1]) ELSE states[i]]
        /\ sent' = [i \in 1..Inner |->
                      IF i <= d + 1 THEN DeliverAll(sent[i], leaving[i]) ELSE sent[i]]
    BY <1>2
  <1> HIDE DEF leaving
  <1>6. \A i \in 1..d : after[i] = CutState(pipe[i], states[i], leaving[i + 1])
    OBVIOUS
  <1>7. mw' = [i \in 1..Len(pipe) |-> IF i <= d THEN after[i] ELSE states[i]]
    <2>1. \A i \in 1..Len(pipe) : i <= d => i \in 1..d
      BY <1>1
    <2> QED
      BY <1>5, <1>6, <2>1
  <1> HIDE DEF after, p
  <1>8. \A i \in 0..d : leaving[i + 1] # <<>>
    <2>1. 0 \in S
      <3>1. 0 \in 0..d /\ 0 + 1 = 1
        BY <1>1
      <3> QED
        BY <1>5, <3>1
    <2>2. ASSUME NEW i \in 0..d, i \in S, i < d PROVE i + 1 \in S
      <3>1. i + 1 \in 1..d /\ i + 1 \in 0..d
        BY <1>1, <2>2
      <3>2. \E cut : CutOut(pipe[i + 1], states[i + 1], leaving[(i + 1) + 1], cut) # <<>>
        BY <1>4, <2>2, <3>1
      <3>3. leaving[(i + 1) + 1] # <<>>
        BY <3>2 DEF CutOut, UpTo
      <3> QED
        BY <3>1, <3>3
    <2>3. \A i \in 0..d : i \in S
      <3> HIDE DEF S
      <3> QED
        BY <1>1, <2>1, <2>2, Induction
    <2> QED
      BY <2>3
  <1>9. ASSUME NEW i \in 1..d, leaving[i + 1] \in Seq(Messages), SuitsAll(sent[i + 1], leaving[i + 1])
        PROVE  /\ after[i] \in States
               /\ after[i].inside = states[i].inside /\ after[i].counts = states[i].counts
               /\ states[i].spoilt => after[i].spoilt
               /\ leaving[i] \in Seq(Messages) /\ SuitsAll(sent[i], leaving[i])
               /\ Carries(pipe[i], after[i], DeliverAll(sent[i + 1], leaving[i + 1]),
                          DeliverAll(sent[i], leaving[i]))
               /\ ~(pipe[i] = "gzip" /\ after[i].spoilt) =>
                    /\ after[i] = RelayAll(pipe[i], states[i], leaving[i + 1]).st
                    /\ leaving[i] = RelayAll(pipe[i], states[i], leaving[i + 1]).out
    <2>1. i \in 1..Len(pipe) /\ i \in 1..Inner /\ i + 1 \in 1..Inner /\ i \in 0..d /\ i - 1 \in 0..d
            /\ (i - 1) + 1 = i
      BY <1>1 DEF Inner
    <2>2. pipe[i] \in Kinds /\ states[i] \in States /\ sent[i] \in Outputs /\ sent[i + 1] \in Outputs
      BY <1>1, <2>1
    <2>3. leaving[i + 1] # <<>> /\ leaving[i] # <<>>
      BY <1>8, <2>1
    <2>4. PICK cut \in BOOLEAN :
                 (cut => i \in short) /\ leaving[i] = CutOut(pipe[i], states[i], leaving[i + 1], cut)
      BY <1>4
    <2>5. cut => pipe[i] = "gzip"
      BY <2>4
    <2>6. Carries(pipe[i], states[i], sent[i + 1], sent[i])
      OBVIOUS
    <2> DEFINE s == CutState(pipe[i], states[i], leaving[i + 1])
               out == CutOut(pipe[i], states[i], leaving[i + 1], cut)
    <2>7. /\ s \in States /\ s.inside = states[i].inside /\ s.counts = states[i].counts
          /\ states[i].spoilt => s.spoilt
          /\ out \in Seq(Messages) /\ SuitsAll(sent[i], out)
          /\ Carries(pipe[i], s, DeliverAll(sent[i + 1], leaving[i + 1]), DeliverAll(sent[i], out))
          /\ ~(pipe[i] = "gzip" /\ s.spoilt) =>
               /\ s = RelayAll(pipe[i], states[i], leaving[i + 1]).st
               /\ out = RelayAll(pipe[i], states[i], leaving[i + 1]).out
      <3> HIDE DEF Inner
      <3> QED
        BY <1>9, <2>2, <2>3, <2>4, <2>5, <2>6, CutCarries
    <2>8. after[i] = s /\ leaving[i] = out
      BY <1>6, <2>4
    <2> HIDE DEF s, out
    <2> QED
      BY <2>7, <2>8
  <1>10. Passed(states, d, p)
    <2>1. \A i \in 1..d :
            leaving[i + 1] \in Seq(Messages) /\ SuitsAll(sent[i + 1], leaving[i + 1]) =>
              /\ after[i] \in States
              /\ after[i].inside = states[i].inside /\ after[i].counts = states[i].counts
              /\ states[i].spoilt => after[i].spoilt
              /\ leaving[i] \in Seq(Messages) /\ SuitsAll(sent[i], leaving[i])
              /\ Carries(pipe[i], after[i], DeliverAll(sent[i + 1], leaving[i + 1]),
                         DeliverAll(sent[i], leaving[i]))
      BY <1>9
    <2>2. leaving[d + 1] = p
      BY <1>4
    <2>3. sent' = [i \in 1..Inner |->
                     IF i <= d + 1 THEN DeliverAll(sent[i], leaving[i]) ELSE sent[i]]
      BY <1>5
    <2> QED
      BY <1>3, <1>7, <2>1, <2>2, <2>3, PassedFrom
  <1>11. ASSUME \A i \in 1..d : pipe[i] = "gzip" => ~mw'[i].spoilt
         PROVE  SendWith(states, d, p)
    <2> DEFINE going == Outward(states, d, p)
               T == {i \in 1..d + 1 : /\ leaving[i] = going[i] /\ leaving[i] \in Seq(Messages)
                                      /\ SuitsAll(sent[i], leaving[i])}
    <2>1. /\ going[d + 1] = p
          /\ \A i \in 1..d : going[i] = RelayAll(pipe[i], states[i], going[i + 1]).out
      BY <1>1, OutwardFacts
    <2> HIDE DEF going
    <2>2. \A i \in 1..d : mw'[i] = after[i]
      BY <1>1, <1>7
    <2>3. d + 1 \in T
      BY <1>1, <1>3, <1>4, <2>1
    <2>4. ASSUME NEW i \in 1..d + 1, i \in T, i > 1 PROVE i - 1 \in T
      <3>1. i - 1 \in 1..d /\ (i - 1) + 1 = i /\ i - 1 \in 1..d + 1
        BY <1>1, <2>4
      <3>2. leaving[(i - 1) + 1] \in Seq(Messages) /\ SuitsAll(sent[(i - 1) + 1], leaving[(i - 1) + 1])
        BY <2>4, <3>1
      <3>3. ~(pipe[i - 1] = "gzip" /\ after[i - 1].spoilt)
        BY <1>11, <2>2, <3>1
      <3>4. /\ leaving[i - 1] \in Seq(Messages) /\ SuitsAll(sent[i - 1], leaving[i - 1])
            /\ leaving[i - 1] = RelayAll(pipe[i - 1], states[i - 1], leaving[(i - 1) + 1]).out
        BY <1>9, <3>1, <3>2, <3>3
      <3>5. leaving[i - 1] = going[i - 1]
        BY <2>1, <2>4, <3>1, <3>4
      <3> QED
        BY <3>1, <3>4, <3>5
    <2>5. \A i \in 1..d + 1 : i \in T
      <3>1. d + 1 \in Nat
        BY <1>1
      <3> HIDE DEF T
      <3> QED
        BY <2>3, <2>4, <3>1, Descent
    <2>6. \A i \in 1..d + 1 : leaving[i] = going[i]
      BY <2>5
    <2>7. ASSUME NEW i \in 1..d PROVE after[i] = RelayAll(pipe[i], states[i], going[i + 1]).st
      <3>1. i + 1 \in 1..d + 1
        BY <1>1
      <3>2. leaving[i + 1] = going[i + 1] /\ leaving[i + 1] \in Seq(Messages)
              /\ SuitsAll(sent[i + 1], leaving[i + 1])
        BY <2>5, <3>1
      <3>3. ~(pipe[i] = "gzip" /\ after[i].spoilt)
        BY <1>11, <2>2
      <3> QED
        BY <1>9, <3>2, <3>3
    <2>8. mw' = [i \in 1..Len(pipe) |->
                   IF i <= d THEN RelayAll(pipe[i], states[i], going[i + 1]).st ELSE states[i]]
      <3>1. \A i \in 1..Len(pipe) : i <= d => i \in 1..d
        BY <1>1
      <3> QED
        BY <1>7, <2>7, <3>1
    <2>9. sent' = [i \in 1..Inner |->
                     IF i <= d + 1 THEN DeliverAll(sent[i], going[i]) ELSE sent[i]]
      <3>1. \A i \in 1..Inner : i <= d + 1 => i \in 1..d + 1
        BY <1>1 DEF Inner
      <3> QED
        BY <1>5, <2>6, <3>1
    <2> QED
      BY <2>8, <2>9 DEF SendWith, going, PassOn, SentOn
  <1> QED
    BY <1>3, <1>10, <1>11 DEF p

\* Where the request is, whatever was cut off on its way.
CarriesAt(i) ==
  /\ Carries(pipe[i], mw[i], sent[i + 1], sent[i])
  /\ pipe[i] \in Counting => mw[i].inside = 1 /\ mw[i].counts = <<>>

Links == \A i \in 1..Edge - 1 : CarriesAt(i)

Linked == Piped(mw) /\ Phases /\ Links /\ Quiet

\* The types that follow.
LEMMA LinkedFacts ==
  ASSUME Linked
  PROVE  /\ pipe \in Seq(Kinds) /\ Len(pipe) \in Nat /\ Inner = Len(pipe) + 1
         /\ mw \in [1..Len(pipe) -> States] /\ sent \in [1..Inner -> Outputs]
         /\ depth \in Nat /\ Edge \in 1..Inner
         /\ \A i \in 1..Len(pipe) : pipe[i] \in Kinds /\ mw[i] \in States
         /\ \A i \in 1..Inner : sent[i] \in Outputs
  <1>1. /\ pipe \in Seq(Kinds) /\ mw \in [1..Len(pipe) -> States] /\ sent \in [1..Inner -> Outputs]
    BY DEF Linked, Piped
  <1>2. Len(pipe) \in Nat /\ Inner = Len(pipe) + 1 /\ \A i \in 1..Len(pipe) : pipe[i] \in Kinds
    BY <1>1 DEF Inner
  <1>3. depth \in Nat /\ Edge \in 1..Inner
    BY <1>2 DEF Linked, Phases, Edge
  <1> QED
    BY <1>1, <1>2, <1>3

\* What is carried stays so when the pipeline does.
LEMMA CarriesThen ==
  ASSUME UNCHANGED <<pipe, req>>, NEW i,
         Carries(pipe[i], mw'[i], sent'[i + 1], sent'[i]),
         pipe[i] \in Counting => mw'[i].inside = 1 /\ mw'[i].counts = <<>>
  PROVE  CarriesAt(i)'
  BY DEF CarriesAt, Carries

\* What a middleware that has just been called tells.
LEMMA FreshCarries ==
  ASSUME NEW k, NEW st, st.held = <<>>, st.raw = 0, st.size = 0, ~st.started, ~st.pass,
         st.status = 500
  PROVE  Carries(k, st, NoAnswer, NoAnswer)
  BY DEF Carries, NoAnswer, StatusOf, Opens

\* The same steps again. The next one is called,
LEMMA LinksIn ==
  ASSUME Linked, phase \in {"in", "read"}, depth <= Len(pipe), GoOn,
         UNCHANGED <<pipe, req, sent, exc>>,
         \/ pipe[depth] \notin Counting /\ UNCHANGED mw
         \/ pipe[depth] \in Counting /\ mw' = [mw EXCEPT ![depth].inside = @ + 1]
  PROVE  Linked' /\ sent' = sent
  <1>1. /\ Len(pipe) \in Nat /\ Inner = Len(pipe) + 1 /\ depth \in 1..Len(pipe)
        /\ \A i \in 1..Len(pipe) : pipe[i] \in Kinds /\ mw[i] \in States
        /\ pipe \in Seq(Kinds) /\ mw \in [1..Len(pipe) -> States]
        /\ sent \in [1..Inner -> Outputs]
    BY LinkedFacts DEF Linked, Phases
  <1>2. /\ \A i \in 1..Inner : sent[i] = NoAnswer
        /\ exc = "none" /\ \A i \in depth..Len(pipe) : mw[i] = Fresh
        /\ \A i \in 1..depth - 1 : CarriesAt(i)
    BY DEF Linked, Quiet, Links, Edge
  <1>3. phase' = "in" /\ depth' = depth + 1 /\ Inner' = Inner /\ Edge' = depth + 1
    BY DEF GoOn, ToPhase, Edge, Inner
  <1>4. /\ mw' \in [1..Len(pipe) -> States]
        /\ \A i \in 1..Len(pipe) : i # depth => mw'[i] = mw[i]
        /\ \/ pipe[depth] \notin Counting /\ mw'[depth] = Fresh
           \/ mw'[depth] = [Fresh EXCEPT !.inside = 1]
    <2>1. CASE pipe[depth] \notin Counting /\ UNCHANGED mw
      BY <1>1, <1>2, <2>1
    <2>2. CASE mw' = [mw EXCEPT ![depth].inside = @ + 1]
      <3>1. mw[depth] = Fresh
        BY <1>1, <1>2
      <3>2. mw' = [mw EXCEPT ![depth] = [Fresh EXCEPT !.inside = 0 + 1]]
        BY <1>1, <2>2, <3>1 DEF Fresh
      <3>3. [Fresh EXCEPT !.inside = 0 + 1] \in States
        <4>1. Fresh \in States
          BY <1>1, <3>1
        <4>2. 0 + 1 \in Nat
          OBVIOUS
        <4> QED
          BY <4>1, <4>2 DEF States
      <3> QED
        BY <1>1, <3>2, <3>3
    <2> QED
      BY <2>1, <2>2
  <1>5. Piped(mw)'
    BY <1>1, <1>3, <1>4 DEF Piped
  <1>6. Phases'
    BY <1>1, <1>3 DEF Phases
  <1>7. Quiet'
    BY <1>1, <1>2, <1>3, <1>4 DEF Quiet
  <1>8. ASSUME NEW i \in 1..depth PROVE CarriesAt(i)'
    <2>1. CASE i = depth
      <3>1. Carries(pipe[i], mw'[i], NoAnswer, NoAnswer)
        BY <1>4, <2>1, FreshCarries DEF Fresh
      <3>2. sent'[i] = NoAnswer /\ sent'[i + 1] = NoAnswer
        BY <1>1, <1>2
      <3>3. Carries(pipe[i], mw'[i], sent'[i + 1], sent'[i])
        BY <3>1, <3>2
      <3>4. pipe[i] \in Counting => mw'[i].inside = 1 /\ mw'[i].counts = <<>>
        BY <1>4, <2>1 DEF Fresh
      <3> QED
        BY <3>3, <3>4, CarriesThen
    <2>2. CASE i # depth
      <3>1. mw'[i] = mw[i] /\ CarriesAt(i)
        BY <1>1, <1>2, <1>4, <2>2
      <3>2. /\ Carries(pipe[i], mw'[i], sent'[i + 1], sent'[i])
            /\ pipe[i] \in Counting => mw'[i].inside = 1 /\ mw'[i].counts = <<>>
        BY <3>1 DEF CarriesAt
      <3> QED
        BY <3>2, CarriesThen
    <2> QED
      BY <2>1, <2>2
  <1>9. Links'
    BY <1>1, <1>3, <1>8 DEF Links
  <1> QED
    BY <1>5, <1>6, <1>7, <1>9 DEF Linked

\* another place is reached with no one more called,
LEMMA LinksAside ==
  ASSUME Linked, Stays, Phases', Edge' <= Edge,
         /\ phase' \in {"in", "read"} => phase \in {"in", "read"}
         /\ phase' \in {"in", "read", "core"} =>
              depth' = depth /\ phase \in {"in", "read", "core"} /\ UNCHANGED exc
  PROVE  Linked'
  <1>1. /\ Len(pipe) \in Nat /\ Inner = Len(pipe) + 1 /\ Edge \in 1..Inner /\ Inner' = Inner
    BY LinkedFacts DEF Inner, Stays
  <1>2. Edge' \in Nat
    BY <1>1 DEF Phases, Edge
  <1>3. Piped(mw)'
    BY <1>1 DEF Linked, Piped, Stays
  <1>4. Quiet'
    BY <1>1 DEF Linked, Quiet, Stays
  <1>5. ASSUME NEW i \in 1..Edge' - 1 PROVE CarriesAt(i)'
    <2>0. i \in 1..Edge - 1
      <3>1. Edge \in Nat /\ Edge' \in Nat /\ Edge' <= Edge
        BY <1>1, <1>2
      <3> QED
        BY <1>5, <3>1 DEF Edge
    <2>1. CarriesAt(i)
      BY <2>0 DEF Linked, Links
    <2>2. /\ Carries(pipe[i], mw'[i], sent'[i + 1], sent'[i])
          /\ pipe[i] \in Counting => mw'[i].inside = 1 /\ mw'[i].counts = <<>>
      BY <2>1 DEF CarriesAt, Stays
    <2> QED
      BY <2>2, CarriesThen DEF Stays
  <1>6. Links'
    BY <1>5 DEF Links
  <1> QED
    BY <1>3, <1>4, <1>6 DEF Linked

\* the call of one that counts returns,
LEMMA LinksCounted ==
  ASSUME Linked, phase = "out", depth > 0, pipe[depth] \in Counting, Return(depth),
         UNCHANGED <<pipe, req, sent>>, mw' = [mw EXCEPT ![depth] = Counted(@)]
  PROVE  Linked' /\ mw'[depth].inside = 0 /\ mw'[depth].counts = <<mw[depth].status>>
  <1>1. /\ Len(pipe) \in Nat /\ Inner = Len(pipe) + 1 /\ depth \in 1..Len(pipe) /\ Inner' = Inner
        /\ mw \in [1..Len(pipe) -> States] /\ mw[depth] \in States
        /\ \A i \in 1..depth : CarriesAt(i)
    BY LinkedFacts DEF Linked, Phases, Links, Edge, Inner
  <1>2. phase' = "out" /\ depth' = depth - 1 /\ Edge' = depth
    BY <1>1 DEF Return, ToPhase, Edge
  <1>3. mw[depth].inside = 1 /\ mw[depth].counts = <<>> /\ mw[depth].status \in Nat
    BY <1>1, StateFacts DEF CarriesAt
  <1> DEFINE st == mw[depth]
             new == Counted(st)
             n == st.status
  <1>4. new \in States /\ new.inside = 0 /\ new.counts = <<n>>
    BY <1>1, <1>3, CountedFacts
  <1> HIDE DEF new
  <1>5. mw' = [mw EXCEPT ![depth] = new]
    BY DEF new
  <1>6. mw' \in [1..Len(pipe) -> States] /\ mw'[depth] = new
        /\ \A i \in 1..depth - 1 : mw'[i] = mw[i]
    BY <1>1, <1>4, <1>5
  <1>7. Piped(mw)'
    BY <1>1, <1>6 DEF Linked, Piped
  <1>8. Phases' /\ Quiet'
    BY <1>1, <1>2 DEF Phases, Quiet
  <1>9. ASSUME NEW i \in 1..depth - 1 PROVE CarriesAt(i)'
    <2>1. CarriesAt(i) /\ mw'[i] = mw[i]
      BY <1>1, <1>6, <1>9
    <2>2. /\ Carries(pipe[i], mw'[i], sent'[i + 1], sent'[i])
          /\ pipe[i] \in Counting => mw'[i].inside = 1 /\ mw'[i].counts = <<>>
      BY <2>1 DEF CarriesAt
    <2> QED
      BY <2>2, CarriesThen
  <1>10. Links'
    BY <1>2, <1>9 DEF Links
  <1> QED
    BY <1>4, <1>6, <1>7, <1>8, <1>10 DEF Linked

\* and position d + 1 sends.
LEMMA LinksSending ==
  ASSUME Linked, UNCHANGED <<pipe, req>>, NEW d \in 0..Len(pipe), NEW states, NEW ms,
         \A i \in 1..d : states[i] = mw[i],
         d < Edge, Passed(states, d, ms), Phases', Edge' = d + 1,
         phase' \in {"in", "read"} => FALSE,
         phase' = "core" => depth' = Inner /\ exc' = "none"
  PROVE  Linked'
  <1>1. /\ Len(pipe) \in Nat /\ Inner = Len(pipe) + 1 /\ Edge \in 1..Inner /\ Inner' = Inner
        /\ pipe \in Seq(Kinds) /\ sent \in [1..Inner -> Outputs]
    BY LinkedFacts DEF Inner
  <1>2. Piped(mw)'
    BY <1>1 DEF Piped, Passed
  <1>3. Quiet'
    BY <1>1 DEF Quiet
  <1>4. ASSUME NEW i \in 1..d PROVE CarriesAt(i)'
    <2>1. i \in 1..Len(pipe) /\ CarriesAt(i) /\ states[i] = mw[i]
      BY <1>1, <1>4 DEF Linked, Links
    <2>2. pipe[i] \in Counting => mw'[i].inside = 1 /\ mw'[i].counts = <<>>
      BY <2>1 DEF CarriesAt, Passed
    <2>3. Carries(pipe[i], mw'[i], sent'[i + 1], sent'[i])
      BY DEF Passed
    <2> QED
      BY <2>2, <2>3, CarriesThen
  <1>5. Links'
    BY <1>4 DEF Links
  <1> QED
    BY <1>2, <1>3, <1>5 DEF Linked

\* No GZipMiddleware was cut off in the middle of what it sends.
Untorn == \A i \in 1..Len(pipe) : pipe[i] = "gzip" => ~mw[i].spoilt

\* Statuses go through in any case; the messages are as they should be unless a
\* GZipMiddleware is torn, and that is after the answer has failed.
Stands ==
  /\ Linked
  /\ sent[Inner] \in Answers
  /\ Untorn => Placed
  /\ core.failed \/ Untorn

\* The types that follow.
LEMMA StandsFacts ==
  ASSUME Stands
  PROVE  /\ pipe \in Seq(Kinds) /\ Len(pipe) \in Nat /\ Inner = Len(pipe) + 1
         /\ mw \in [1..Len(pipe) -> States] /\ sent \in [1..Inner -> Outputs]
         /\ depth \in Nat /\ Edge \in 1..Inner
         /\ \A i \in 1..Len(pipe) : pipe[i] \in Kinds /\ mw[i] \in States
         /\ \A i \in 1..Inner : sent[i] \in Outputs
         /\ sent[Inner] \in Answers
         /\ ~core.failed => Placed
  BY LinkedFacts DEF Stands

\* What is spoilt stays so.
Ages == \A i \in 1..Len(pipe) : pipe[i] = "gzip" => (mw[i].spoilt => mw'[i].spoilt)

\* So what is not spoilt now was not before.
LEMMA UntornBefore ==
  ASSUME Ages, UNCHANGED pipe, Untorn'
  PROVE  Untorn
  BY DEF Ages, Untorn

\* The steps again: the next one is called,
LEMMA StandsIn ==
  ASSUME Stands, phase \in {"in", "read"}, depth <= Len(pipe), GoOn,
         UNCHANGED <<pipe, req, sent, exc>>, core.failed => core'.failed,
         \/ pipe[depth] \notin Counting /\ UNCHANGED mw
         \/ pipe[depth] \in Counting /\ mw' = [mw EXCEPT ![depth].inside = @ + 1]
  PROVE  Stands' /\ sent' = sent
  <1>1. Linked'
    BY LinksIn DEF Stands
  <1>2. sent'[Inner'] \in Answers
    BY DEF Stands, Inner
  <1>3. mw \in [1..Len(pipe) -> States]
    BY StandsFacts
  <1>4. \A i \in 1..Len(pipe) : pipe[i] = "gzip" => mw'[i] = mw[i]
    <2>1. "gzip" \notin Counting
      BY DEF Counting
    <2> QED
      BY <1>3, <2>1
  <1>5. Untorn' <=> Untorn
    BY <1>4 DEF Untorn
  <1>6. Untorn => Placed'
    BY StepsIn DEF Stands
  <1> QED
    BY <1>1, <1>2, <1>5, <1>6 DEF Stands

\* another place is reached,
LEMMA StandsAside ==
  ASSUME Stands, Stays, Phases', Edge' <= Edge, core.failed => core'.failed,
         /\ phase' \in {"in", "read"} => phase \in {"in", "read"}
         /\ phase' \in {"in", "read", "core"} =>
              depth' = depth /\ phase \in {"in", "read", "core"} /\ UNCHANGED exc
  PROVE  Stands'
  <1>1. Linked'
    BY LinksAside DEF Stands
  <1>2. sent'[Inner'] \in Answers
    BY DEF Stands, Stays, Inner
  <1>3. Untorn' <=> Untorn
    BY DEF Untorn, Stays
  <1>4. Untorn => Placed'
    BY StepsAside DEF Stands
  <1> QED
    BY <1>1, <1>2, <1>3, <1>4 DEF Stands

\* the call of one that counts returns,
LEMMA StandsCounted ==
  ASSUME Stands, phase = "out", depth > 0, pipe[depth] \in Counting, Return(depth),
         UNCHANGED <<pipe, req, sent, core>>, mw' = [mw EXCEPT ![depth] = Counted(@)]
  PROVE  Stands' /\ mw'[depth].inside = 0 /\ mw'[depth].counts = <<mw[depth].status>>
  <1>1. Linked' /\ mw'[depth].inside = 0 /\ mw'[depth].counts = <<mw[depth].status>>
    BY LinksCounted DEF Stands
  <1>2. sent'[Inner'] \in Answers
    BY DEF Stands, Inner
  <1>3. mw \in [1..Len(pipe) -> States]
    BY StandsFacts
  <1>4. \A i \in 1..Len(pipe) : pipe[i] = "gzip" => mw'[i] = mw[i]
    <2>1. "gzip" \notin Counting
      BY DEF Counting
    <2> QED
      BY <1>3, <2>1
  <1>5. Untorn' <=> Untorn
    BY <1>4 DEF Untorn
  <1>6. Untorn => Placed'
    BY StepsCounted DEF Stands
  <1> QED
    BY <1>1, <1>2, <1>5, <1>6 DEF Stands

\* position d + 1 sends,
LEMMA StandsSending ==
  ASSUME Stands, UNCHANGED <<pipe, req>>, NEW d \in 0..Len(pipe), NEW states,
         NEW ms \in Seq(Messages), SuitsAll(sent[d + 1], ms),
         d = Len(pipe) \/ Untorn => FitsAll(sent[d + 1], ms),
         states \in [1..Len(pipe) -> States],
         \A i \in 1..d : states[i] = mw[i],
         \A i \in 1..Len(pipe) : pipe[i] = "gzip" => states[i].spoilt = mw[i].spoilt,
         d < Edge, SendWith(states, d, ms), Phases', Edge' = d + 1,
         core.failed => core'.failed,
         phase' \in {"in", "read"} => FALSE,
         phase' = "core" => depth' = Inner /\ exc' = "none"
  PROVE  Stands' /\ Passed(states, d, ms) /\ (Untorn' <=> Untorn)
  <1>1. /\ Len(pipe) \in Nat /\ Inner = Len(pipe) + 1 /\ Edge \in 1..Inner /\ d \in Nat
        /\ pipe \in Seq(Kinds) /\ sent \in [1..Inner -> Outputs] /\ sent[Inner] \in Answers
    BY StandsFacts
  <1>2. Piped(states)
    BY <1>1 DEF Piped
  <1>3. ASSUME NEW i \in 1..d PROVE Carries(pipe[i], states[i], sent[i + 1], sent[i])
    <2>1. CarriesAt(i)
      BY <1>1, <1>3 DEF Stands, Linked, Links
    <2> QED
      BY <2>1 DEF CarriesAt
  <1>4. Passed(states, d, ms) /\ \A i \in 1..Len(pipe) : mw'[i].spoilt = states[i].spoilt
    BY <1>2, <1>3, SendPasses
  <1>5. Linked'
    BY <1>4, LinksSending DEF Stands
  <1>6. Untorn' <=> Untorn
    BY <1>4 DEF Untorn
  <1>7. Untorn => Placed'
    BY StepsSending DEF Stands
  <1>8. sent'[Inner'] \in Answers
    <2>1. Inner' = Inner
      BY DEF Inner
    <2>2. CASE d = Len(pipe)
      BY <1>1, <1>4, <2>1, <2>2, DeliverAllKeeps DEF Passed
    <2>3. CASE d # Len(pipe)
      <3>1. Inner \in d + 2..Inner
        BY <1>1, <2>3
      <3> QED
        BY <1>1, <1>4, <2>1, <3>1 DEF Passed
    <2> QED
      BY <2>2, <2>3
  <1> QED
    BY <1>4, <1>5, <1>6, <1>7, <1>8 DEF Stands

\* or is cut off, after some of the messages.
LEMMA StandsCut ==
  ASSUME Stands, UNCHANGED <<pipe, req>>, NEW d \in 0..Len(pipe), NEW states,
         NEW ms \in Seq(Messages), SuitsAll(sent[d + 1], ms),
         d = Len(pipe) \/ Untorn => FitsAll(sent[d + 1], ms),
         states \in [1..Len(pipe) -> States],
         \A i \in 1..d : states[i] = mw[i],
         \A i \in 1..Len(pipe) : pipe[i] = "gzip" => (mw[i].spoilt => states[i].spoilt),
         d < Edge, CutWith(states, d, ms), Phases', Edge' = d + 1, core'.failed,
         phase' \in {"in", "read"} => FALSE,
         phase' = "core" => depth' = Inner /\ exc' = "none"
  PROVE  /\ Stands' /\ (Untorn' => Untorn)
         /\ \E n \in 1..Len(ms) : /\ SubSeq(ms, 1, n) \in Seq(Messages)
                                  /\ Passed(states, d, SubSeq(ms, 1, n))
  <1>1. /\ Len(pipe) \in Nat /\ Inner = Len(pipe) + 1 /\ Edge \in 1..Inner /\ d \in Nat
        /\ pipe \in Seq(Kinds) /\ sent \in [1..Inner -> Outputs] /\ sent[Inner] \in Answers
    BY StandsFacts
  <1>2. Piped(states)
    BY <1>1 DEF Piped
  <1>3. ASSUME NEW i \in 1..d PROVE Carries(pipe[i], states[i], sent[i + 1], sent[i])
    <2>1. CarriesAt(i)
      BY <1>1, <1>3 DEF Stands, Linked, Links
    <2> QED
      BY <2>1 DEF CarriesAt
  <1>4. PICK n \in 1..Len(ms) :
           /\ SubSeq(ms, 1, n) \in Seq(Messages)
           /\ Passed(states, d, SubSeq(ms, 1, n))
           /\ (\A i \in 1..d : pipe[i] = "gzip" => ~mw'[i].spoilt) =>
                SendWith(states, d, SubSeq(ms, 1, n))
    BY <1>2, <1>3, CutPasses
  <1> DEFINE p == SubSeq(ms, 1, n)
  <1>5. FitsAll(sent[d + 1], ms) => FitsAll(sent[d + 1], p)
    <2>1. n \in 0..Len(ms)
      OBVIOUS
    <2> QED
      BY <2>1, FirstFacts
  <1>6. p \in Seq(Messages) /\ Passed(states, d, p)
    BY <1>4
  <1>7. (\A i \in 1..d : pipe[i] = "gzip" => ~mw'[i].spoilt) => SendWith(states, d, p)
    BY <1>4
  <1> HIDE DEF p
  <1>8. Linked'
    BY <1>6, LinksSending DEF Stands
  <1>9. Untorn' => Untorn
    BY <1>6 DEF Untorn, Passed
  <1>10. Untorn' => SendWith(states, d, p)
    <2>1. \A i \in 1..d : i \in 1..Len(pipe)
      BY <1>1
    <2> QED
      BY <1>7, <2>1 DEF Untorn
  <1>11. Untorn' => Placed'
    BY <1>5, <1>6, <1>9, <1>10, StepsSending DEF Stands
  <1>12. sent'[Inner'] \in Answers
    <2>1. Inner' = Inner
      BY DEF Inner
    <2>2. CASE d = Len(pipe)
      BY <1>1, <1>5, <1>6, <2>1, <2>2, DeliverAllKeeps DEF Passed
    <2>3. CASE d # Len(pipe)
      <3>1. Inner \in d + 2..Inner
        BY <1>1, <2>3
      <3> QED
        BY <1>1, <1>6, <2>1, <3>1 DEF Passed
    <2> QED
      BY <2>2, <2>3
  <1> QED
    BY <1>4, <1>8, <1>9, <1>11, <1>12 DEF Stands
-----------------------------------------------------------------------------
(* How far the application is                                               *)

Cores == [pc : {"begin", "object", "stream", "tail", "open", "file", "sent"}, chunks : Nat,
          status : Nat, failed : BOOLEAN, head : BOOLEAN, moved : BOOLEAN]

-----------------------------------------------------------------------------
(* The headers that are rebuilt as a dict                                   *)

\* A finite set as a sequence.
LEMMA SetToSeqFacts ==
  ASSUME NEW S, IsFiniteSet(S)
  PROVE  SetToSeq(S) \in Seq(S) /\ ToSet(SetToSeq(S)) = S
  <1> DEFINE N == Cardinality(S)
             f == SetToSeq(S)
  <1>1. N \in Nat /\ ExistsBijection(1..N, S)
    BY FS_CardinalityType
  <1>2. PICK b \in [1..N -> S] : IsInjective(b)
    BY <1>1 DEF ExistsBijection, Bijection, Injection
  <1>3. f \in [1..N -> S] /\ IsInjective(f)
    BY <1>2 DEF SetToSeq
  <1> HIDE DEF f, N
  <1>4. ASSUME NEW x \in S, \A n \in 1..N : f[n] # x PROVE FALSE
    <2> DEFINE T == S \ {x}
    <2>1. IsFiniteSet(T) /\ Cardinality(T) = N - 1
      BY FS_RemoveElement DEF N
    <2>2. f \in Injection(1..N, T)
      BY <1>3, <1>4 DEF Injection
    <2> HIDE DEF T
    <2>3. N <= Cardinality(T)
      <3>1. IsFiniteSet(1..N) /\ Cardinality(1..N) = N
        BY <1>1, FS_Interval
      <3> QED
        BY <2>1, <2>2, <3>1, FS_Injection
    <2> QED
      BY <1>1, <2>1, <2>3
  <1>5. f \in Seq(S)
    BY <1>1, <1>3
  <1>6. ToSet(f) = S
    BY <1>3, <1>4 DEF ToSet
  <1> QED
    BY <1>5, <1>6 DEF f

\* Of each name a line stays, and no other lines.
LEMMA LastOfEachFacts ==
  ASSUME NEW lines \in Seq(LineSet)
  PROVE  /\ LastOfEach(lines) \in Seq(LineSet)
         /\ \A l \in ToSet(lines) : \E x \in ToSet(LastOfEach(lines)) : x.name = l.name
  <1> DEFINE D == {n \in DOMAIN lines : \A j \in n + 1..Len(lines) : lines[j].name # lines[n].name}
             T == {lines[i] : i \in D}
             N == Len(lines)
  <1>1. N \in Nat /\ DOMAIN lines = 1..N /\ \A n \in 1..N : lines[n] \in LineSet
    OBVIOUS
  <1>2. T \subseteq LineSet
    BY <1>1
  <1>3. IsFiniteSet(T)
    <2>1. IsFiniteSet(D)
      <3>1. IsFiniteSet(1..N)
        BY <1>1, FS_Interval
      <3> QED
        BY <1>1, <3>1, FS_Subset
    <2> DEFINE g == [i \in D |-> lines[i]]
    <2>2. g \in Surjection(D, T)
      BY DEF Surjection
    <2> HIDE DEF D, T, g
    <2> QED
      BY <2>1, <2>2, FS_Surjection
  <1>4. LastOfEach(lines) = SetToSeq(T)
    BY DEF LastOfEach
  <1>5. SetToSeq(T) \in Seq(T) /\ ToSet(SetToSeq(T)) = T
    <2> HIDE DEF T
    <2> QED
      BY <1>3, SetToSeqFacts
  <1>6. SetToSeq(T) \in Seq(LineSet)
    <2> HIDE DEF T
    <2> QED
      BY <1>2, <1>5
  <1>7. ASSUME NEW l \in ToSet(lines) PROVE \E x \in T : x.name = l.name
    <2>1. PICK n \in 1..N : lines[n] = l
      BY <1>1 DEF ToSet
    <2> DEFINE R == {r \in 0..N : N - r \in 1..N /\ lines[N - r].name = l.name}
    <2>2. N - n \in R /\ R \in SUBSET Nat
      <3>1. N - n \in 0..N /\ N - (N - n) = n
        BY <1>1
      <3> QED
        BY <1>1, <2>1, <3>1
    <2>3. PICK r \in R : \A s \in R : ~(s < r)
      <3> HIDE DEF R
      <3> QED
        BY <2>2, LeastNumber
    <2> DEFINE m == N - r
    <2>4. m \in 1..N /\ lines[m].name = l.name
      BY <2>3
    <2>5. ASSUME NEW j \in m + 1..N PROVE lines[j].name # lines[m].name
      <3>1. N - j \in 0..N /\ N - (N - j) = j /\ j \in 1..N /\ N - j < r
        BY <1>1, <2>3, <2>4, <2>5
      <3>2. N - j \notin R
        BY <2>3, <3>1
      <3> QED
        BY <2>4, <3>1, <3>2
    <2>6. m \in D
      BY <1>1, <2>4, <2>5
    <2> QED
      BY <2>4, <2>6
  <1> QED
    BY <1>4, <1>5, <1>6, <1>7

-----------------------------------------------------------------------------
(* What a middleware has made of an answer when it returns                  *)

\* The lines of one start message are there in another, or their names are.
LinesIn(a, b) == ToSet(a.lines) \subseteq ToSet(b.lines)
NamesIn(a, b) == \A l \in ToSet(a.lines) : \E x \in ToSet(b.lines) : x.name = l.name

\* The start: its status, the lines with those that were to be added, and no
\* length or that of the body, or the one there was for a body of the same length.
KeptStart(k, in, o) ==
  LET a == in.start[1]
      b == o.start[1]
  IN  /\ b.status = a.status
      /\ b.coded => a.coded \/ k = "gzip"
      /\ NamesIn(a, b)
      /\ k # "hooks" => LinesIn(a, b) /\ ToSet(AddedLines(k)) \subseteq ToSet(b.lines)
      /\ k = "hooks" => AddedLines(k) = <<>>
      /\ \/ b.lens = a.lens /\ (in.ended => o.size = in.size)
         \/ in.ended => b.lens \in {<<>>, <<o.size>>}

Kept(k, in, o) ==
  /\ o.disorder => in.disorder \/ (k = "gzip" /\ in.start # <<>> /\ in.start[1].coded)
  /\ o.start # <<>> =>
       /\ in.start # <<>>
       /\ KeptStart(k, in, o)
       /\ in.ended => o.ended /\ o.raw = in.raw

\* Lines are not lost when others are appended.
LEMMA LinesKept ==
  ASSUME NEW s \in Seq(LineSet), NEW t \in Seq(LineSet)
  PROVE  ToSet(s) \subseteq ToSet(s \o t) /\ ToSet(t) \subseteq ToSet(s \o t)
  <1>1. s \o t \in Seq(LineSet) /\ Len(s \o t) = Len(s) + Len(t)
        /\ \A i \in 1..Len(s) : (s \o t)[i] = s[i]
        /\ \A j \in 1..Len(t) : (s \o t)[Len(s) + j] = t[j]
    BY ConcatProperties
  <1> DEFINE c == s \o t
  <1> HIDE DEF c
  <1>2. /\ DOMAIN c = 1..Len(s) + Len(t) /\ DOMAIN s = 1..Len(s) /\ DOMAIN t = 1..Len(t)
        /\ Len(s) \in Nat /\ Len(t) \in Nat
    BY <1>1 DEF c
  <1>3. \A i \in 1..Len(s) : i \in DOMAIN c /\ c[i] = s[i]
    BY <1>1, <1>2 DEF c
  <1>4. \A i \in 1..Len(t) : Len(s) + i \in DOMAIN c /\ c[Len(s) + i] = t[i]
    BY <1>1, <1>2 DEF c
  <1> QED
    BY <1>2, <1>3, <1>4 DEF ToSet, c

\* A start message keeps its lines when it is compressed.
LEMMA CompressedLines ==
  ASSUME NEW m \in Starts, NEW lens \in Seq(Nat)
  PROVE  LinesIn(m, Compressed(m, lens))
  <1>1. m.lines \in Seq(LineSet)
    BY DEF Starts
  <1>2. <<Line("vary", "gzip")>> \in Seq(LineSet)
    BY DEF Line, LineSet
  <1>3. Compressed(m, lens).lines = m.lines \o <<Line("vary", "gzip")>>
    BY CompressedFacts
  <1> QED
    BY <1>1, <1>2, <1>3, LinesKept DEF LinesIn

\* Lines that are there are there by name.
LEMMA InNames ==
  ASSUME NEW a, NEW b, LinesIn(a, b)
  PROVE  NamesIn(a, b)
  BY DEF LinesIn, NamesIn

\* Through those that only add lines.
LEMMA KeptLining ==
  ASSUME NEW k \in Lining, NEW st \in States, NEW in \in Answers, NEW o \in Answers,
         Adds(k, st, in, o)
  PROVE  Kept(k, in, o)
  <1>1. CASE in.start = <<>>
    BY <1>1 DEF Adds, Lined, Kept
  <1>2. CASE in.start # <<>>
    <2> DEFINE a == in.start[1]
               b == WithLines(a, AddedLines(k))
    <2>1. a \in Starts /\ a.lines \in Seq(LineSet) /\ AddedLines(k) \in Seq(LineSet)
      BY <1>2, AnswerFacts, AddedLinesFacts DEF Starts
    <2>2. /\ b.lines = a.lines \o AddedLines(k)
          /\ b.status = a.status /\ b.lens = a.lens /\ (b.coded <=> a.coded)
      BY <2>1, WithLinesFacts
    <2> HIDE DEF b
    <2>3. o.start = <<b>> /\ o.raw = in.raw /\ o.size = in.size
          /\ (o.ended <=> in.ended) /\ (o.disorder <=> in.disorder)
      BY <1>2 DEF Adds, Lined, b
    <2>4. o.start[1] = b /\ o.start # <<>>
      BY <2>3
    <2>5. LinesIn(a, b) /\ ToSet(AddedLines(k)) \subseteq ToSet(b.lines)
      BY <2>1, <2>2, LinesKept DEF LinesIn
    <2>6. NamesIn(a, b)
      BY <2>5, InNames
    <2>7. KeptStart(k, in, o)
      BY <2>2, <2>3, <2>4, <2>5, <2>6 DEF KeptStart, Lining
    <2> QED
      BY <1>2, <2>3, <2>4, <2>7 DEF Kept
  <1> QED
    BY <1>1, <1>2

\* And through ErrorHandlerMiddleware and a GZipMiddleware that forwards.
LEMMA KeptSame ==
  ASSUME NEW k \in Kinds, AddedLines(k) = <<>>, NEW in \in Answers
  PROVE  Kept(k, in, in)
  <1>1. ToSet(AddedLines(k)) = {}
    BY DEF ToSet
  <1>2. ASSUME NEW a PROVE LinesIn(a, a) /\ NamesIn(a, a)
    BY DEF LinesIn, NamesIn
  <1>3. KeptStart(k, in, in)
    BY <1>1, <1>2 DEF KeptStart
  <1> QED
    BY <1>3 DEF Kept

\* These add no lines.
LEMMA NoneAdded == \A k \in {"gzip", "hooks", "errors"} : AddedLines(k) = <<>>
  BY DEF AddedLines

\* Nothing is kept of no answer.
LEMMA KeptNothing ==
  ASSUME NEW k, NEW in
  PROVE  Kept(k, in, NoAnswer)
  BY DEF Kept, NoAnswer

\* What a hook middleware has captured it sends at the end.
LEMMA KeptHooks ==
  ASSUME NEW st \in States, NEW in \in Answers, NEW o, Captures(st, in, o), st.held # <<>>
  PROVE  LET w == DeliverAll(o, Rebuilt(st)) IN
         /\ Rebuilt(st) \in Seq(Messages) /\ FitsAll(o, Rebuilt(st))
         /\ w \in Answers /\ Kept("hooks", in, w)
  <1> DEFINE a == st.held[1]
             b == [a EXCEPT !.lens = <<st.size>>, !.lines = LastOfEach(@)]
             no == FALSE
             ms == <<b, BodyMsg(st.raw, st.size, no)>>
             w == DeliverAll(NoAnswer, ms)
  <1>1. /\ a \in Starts /\ Len(st.held) = 1 /\ st.held = <<a>>
        /\ st.raw \in Nat /\ st.size \in Nat
        /\ st.held = in.start /\ st.raw = in.raw /\ st.size = in.size /\ o = NoAnswer
    BY StateFacts DEF Captures
  <1>2. Last(st.held) = a
    BY <1>1 DEF Last
  <1>3. a.lines \in Seq(LineSet)
    BY <1>1 DEF Starts
  <1>4. LastOfEach(a.lines) \in Seq(LineSet)
    BY <1>3, LastOfEachFacts
  <1>5. <<st.size>> \in Seq(Nat)
    BY <1>1
  <1>6. /\ b \in Starts /\ b.status = a.status /\ (b.coded <=> a.coded)
        /\ b.lens = <<st.size>> /\ b.lines = LastOfEach(a.lines)
    BY <1>1, <1>4, <1>5 DEF Starts
  <1>7. Rebuilt(st) = ms
    BY <1>2 DEF Rebuilt
  <1>8. no \in BOOLEAN /\ ~no
    OBVIOUS
  <1> HIDE DEF a, b, no
  <1>9. /\ ms \in Seq(Messages) /\ FitsAll(NoAnswer, ms)
        /\ w \in Answers /\ w.start = <<b>> /\ w.raw = st.raw /\ w.size = st.size
        /\ (w.ended <=> ~no) /\ ~w.disorder
    BY <1>1, <1>6, <1>8, WholeAnswer
  <1> HIDE DEF ms, w
  <1>10. w.start # <<>> /\ w.start[1] = b /\ in.start # <<>> /\ in.start[1] = a
    <2>1. <<b>> # <<>> /\ <<b>>[1] = b /\ <<a>> # <<>> /\ <<a>>[1] = a
      BY <1>1, <1>6, MessageFacts
    <2>2. in.start = <<a>>
      BY <1>1
    <2> QED
      BY <1>9, <2>1, <2>2
  <1>11. NamesIn(a, b)
    BY <1>3, <1>6, LastOfEachFacts DEF NamesIn
  <1>12. AddedLines("hooks") = <<>>
    BY NoneAdded
  <1>13. KeptStart("hooks", in, w)
    BY <1>6, <1>9, <1>10, <1>11, <1>12 DEF KeptStart
  <1>14. Kept("hooks", in, w)
    BY <1>1, <1>8, <1>9, <1>10, <1>13 DEF Kept
  <1> QED
    BY <1>1, <1>7, <1>9, <1>14 DEF w

\* Nothing is left to send for a GZipMiddleware that has sent all it had.
LEMMA KeptGzip ==
  ASSUME NEW st \in States, NEW in \in Answers, NEW o \in Answers, Zips(st, in, o),
         ~Unfinished(st)
  PROVE  Kept("gzip", in, o)
  <1>0. AddedLines("gzip") = <<>> /\ ToSet(AddedLines("gzip")) = {}
    <2>1. AddedLines("gzip") = <<>>
      BY NoneAdded
    <2> QED
      BY <2>1 DEF ToSet
  <1>1. CASE Waits(st, in, o)
    BY <1>1 DEF Waits, Kept, NoAnswer
  <1>2. CASE Streams(st, in, o) \/ Flushes(st, in, o)
    <2> DEFINE a == in.start[1]
    <2>1. a \in Starts /\ in.start = <<a>> /\ in.start # <<>> /\ ~a.coded /\ o.raw = in.raw /\ ~o.disorder
      BY <1>2, AnswerFacts DEF Streams, Flushes, Uncoded
    <2>2. in.ended => o.ended
      BY <1>2 DEF Streams, Flushes
    <2>3. CASE \E lens \in Seq(Nat) : /\ o.start = <<Compressed(a, lens)>>
                                       /\ lens \in {<<>>, <<o.size>>}
      <3>1. PICK lens \in Seq(Nat) : o.start = <<Compressed(a, lens)>> /\ lens \in {<<>>, <<o.size>>}
        BY <2>3
      <3> DEFINE c == Compressed(a, lens)
      <3>2. c.status = a.status /\ c.lens = lens /\ LinesIn(a, c)
        BY <2>1, CompressedFacts, CompressedLines
      <3> HIDE DEF c
      <3>3. o.start[1] = c /\ o.start # <<>>
        BY <3>1 DEF c
      <3>4. NamesIn(a, c)
        BY <3>2, InNames
      <3>5. KeptStart("gzip", in, o)
        BY <1>0, <3>1, <3>2, <3>3, <3>4 DEF KeptStart
      <3> QED
        BY <2>1, <2>2, <3>3, <3>5 DEF Kept
    <2>4. CASE o.start = in.start /\ o.size = in.size
      <3>1. LinesIn(a, a) /\ NamesIn(a, a)
        BY DEF LinesIn, NamesIn
      <3>2. KeptStart("gzip", in, o)
        BY <1>0, <2>1, <2>4, <3>1 DEF KeptStart
      <3> QED
        BY <2>1, <2>2, <2>4, <3>2 DEF Kept
    <2>5. o.size \in Nat
      BY AnswerFacts
    <2>6. <<>> \in Seq(Nat) /\ <<o.size>> \in Seq(Nat)
      BY <2>5
    <2> QED
      BY <1>2, <2>3, <2>4, <2>6 DEF Streams, Flushes
  <1>3. CASE Forwards(st, in, o) \/ Buffers(st, in, o)
    BY <1>3 DEF Forwards, Buffers, Unfinished, Uncoded
  <1> QED
    BY <1>1, <1>2, <1>3 DEF Zips

\* What is left to send is the buffered answer, or once more the start of one
\* that was forwarded, with an empty body.
LEMMA KeptFlushed ==
  ASSUME NEW st \in States, NEW in \in Answers, NEW o \in Answers, Zips(st, in, o),
         Unfinished(st)
  PROVE  LET f == Flushed(st)
             w == DeliverAll(o, f.out)
         IN  /\ f.st \in States /\ f.st.inside = st.inside /\ f.st.counts = st.counts
             /\ f.out \in Seq(Messages) /\ FitsAll(o, f.out)
             /\ w \in Answers /\ Kept("gzip", in, w)
  <1> DEFINE f == Flushed(st)
             a == st.held[1]
  <1>0. AddedLines("gzip") = <<>> /\ ToSet(AddedLines("gzip")) = {}
    <2>1. AddedLines("gzip") = <<>>
      BY NoneAdded
    <2> QED
      BY <2>1 DEF ToSet
  <1>1. /\ a \in Starts /\ st.held = <<a>> /\ st.raw \in Nat /\ st.size \in Nat
        /\ in.start = st.held /\ ~st.started /\ st.held # <<>>
        /\ Forwards(st, in, o) \/ Buffers(st, in, o)
    BY StateFacts DEF Unfinished, Zips, Waits, Forwards, Buffers, Streams, Flushes
  <1>2. /\ f.st \in States /\ f.st.inside = st.inside /\ f.st.counts = st.counts
        /\ \E s \in Starts, n \in Nat :
             /\ f.out = <<s, BodyMsg(st.raw, n, FALSE)>>
             /\ \/ s = a /\ n = st.size
                \/ s = Compressed(a, <<n>>) /\ st.size >= MinimumSize
    BY <1>1, FlushedFacts
  <1> HIDE DEF f
  <1>3. PICK s \in Starts, n \in Nat, no \in BOOLEAN :
          /\ ~no /\ f.out = <<s, BodyMsg(st.raw, n, no)>>
          /\ \/ s = a /\ n = st.size
             \/ s = Compressed(a, <<n>>) /\ st.size >= MinimumSize
    BY <1>2
  <1> DEFINE b == BodyMsg(st.raw, n, no)
             ms == <<s, b>>
             w == DeliverAll(o, ms)
  <1>4. f.out = ms
    BY <1>3
  <1>5. b \in Bodies /\ b.raw = st.raw /\ b.size = n /\ b.more = no
    BY <1>1, MessageFacts DEF BodyMsg
  <1>6. LinesIn(a, s) /\ NamesIn(a, s) /\ s.status = a.status
        /\ ((s.lens = a.lens /\ n = st.size) \/ s.lens = <<n>>)
    <2>1. CASE s = a /\ n = st.size
      BY <2>1 DEF LinesIn, NamesIn
    <2>2. CASE s = Compressed(a, <<n>>)
      <3>1. <<n>> \in Seq(Nat)
        OBVIOUS
      <3> QED
        BY <1>1, <2>2, <3>1, CompressedFacts, CompressedLines, InNames, ZenonT(60)
    <2> QED
      BY <1>3, <2>1, <2>2
  <1> HIDE DEF a
  <1>7. CASE Buffers(st, in, o)
    <2>1. o = NoAnswer /\ in.raw = st.raw /\ in.size = st.size /\ ~in.disorder
      BY <1>7, AnswerFacts DEF Buffers, Uncoded
    <2>2. /\ ms \in Seq(Messages) /\ FitsAll(o, ms)
          /\ w \in Answers /\ w.start = <<s>> /\ w.raw = st.raw /\ w.size = n
          /\ (w.ended <=> ~no) /\ ~w.disorder
      BY <1>1, <2>1, WholeAnswer
    <2> HIDE DEF ms, b, w
    <2>3. w.start # <<>> /\ w.start[1] = s /\ in.start # <<>> /\ in.start[1] = a
      <3>1. <<s>> # <<>> /\ <<s>>[1] = s /\ <<a>> # <<>> /\ <<a>>[1] = a
        BY <1>1, MessageFacts
      <3>2. in.start = <<a>>
        BY <1>1
      <3> QED
        BY <2>2, <3>1, <3>2
    <2>4. KeptStart("gzip", in, w)
      BY <1>0, <1>6, <2>1, <2>2, <2>3 DEF KeptStart
    <2>5. Kept("gzip", in, w)
      BY <1>3, <2>1, <2>2, <2>3, <2>4 DEF Kept
    <2> QED
      BY <1>2, <1>4, <2>2, <2>5 DEF f, w
  <1>8. CASE Forwards(st, in, o)
    <2>1. o = in /\ a.coded /\ st.raw = 0 /\ st.size = 0 /\ o.start = <<a>>
      BY <1>1, <1>8 DEF Forwards, a
    <2>2. s = a /\ n = 0
      BY <1>3, <2>1, ExchangeAssumption DEF ExchangeAssumption
    <2>3. Fits(o, s)
      BY <1>1, <2>1, <2>2, MessageFacts DEF Fits
    <2> DEFINE v == Deliver(o, s)
    <2>4. v \in Answers /\ v.start = <<s>> /\ v.raw = o.raw /\ v.size = o.size /\ v.ended = o.ended
      BY <2>3, DeliverStart
    <2>5. v.start # <<>> /\ v.start[1] = s /\ b.kind = "body"
      BY <1>5, <2>4, MessageFacts
    <2>6. Fits(v, b)
      BY <1>5, <2>1, <2>2, <2>5 DEF Fits
    <2> HIDE DEF b, v
    <2>7. /\ Deliver(v, b) \in Answers /\ Deliver(v, b).start = v.start
          /\ Deliver(v, b).raw = v.raw + 0 /\ Deliver(v, b).size = v.size + 0
          /\ Deliver(v, b).ended
      BY <1>3, <1>5, <2>1, <2>2, <2>4, <2>6, DeliverBody
    <2>8. w = Deliver(v, b) /\ FitsAll(o, ms)
      BY <2>3, <2>6, FewDelivered DEF v
    <2>9. ms \in Seq(Messages)
      BY <1>5, FewMessages DEF Messages
    <2> HIDE DEF ms, w
    <2>10. /\ w \in Answers /\ w.start = <<s>> /\ w.raw = in.raw /\ w.size = in.size /\ w.ended
      BY <2>1, <2>4, <2>7, <2>8, AnswerFacts
    <2>11. w.start # <<>> /\ w.start[1] = s /\ in.start # <<>> /\ in.start[1] = s
      BY <2>1, <2>2, <2>4, <2>5, <2>10
    <2>12. KeptStart("gzip", in, w)
      BY <1>0, <1>6, <2>2, <2>10, <2>11 DEF KeptStart
    <2>13. Kept("gzip", in, w)
      BY <2>1, <2>2, <2>10, <2>11, <2>12 DEF Kept
    <2> QED
      BY <1>2, <1>4, <2>8, <2>9, <2>10, <2>13 DEF f, w
  <1> QED
    BY <1>1, <1>7, <1>8

-----------------------------------------------------------------------------
(* Outwards                                                                 *)

Leaves == LeaveThrough \/ LeaveGzip \/ LeaveHooks \/ LeaveCounting \/ LeaveErrors

\* The status that one that returns hands on: the one it was told; or the one of
\* another response, or none; or its own for a call that raised with no answer.
Tells(k, st, in, o) ==
  \/ Opens(o.start) = Opens(in.start)
  \/ k = "hooks" /\ st.spoilt /\ Opens(o.start) \subseteq {503}
  \/ k = "errors" /\ in.start = <<>> /\ Opens(o.start) \subseteq {422, 500}

\* What it hands on is out of order, or encoded, only if what it was sent is, or
\* if it is a GZipMiddleware.
Ordered(k, in, o) ==
  /\ o.disorder => in.disorder \/ (k = "gzip" /\ in.start # <<>> /\ in.start[1].coded)
  /\ o.start # <<>> /\ o.start[1].coded => k = "gzip" \/ (in.start # <<>> /\ in.start[1].coded)

HandsOn ==
  LET k == pipe[depth]
      in == sent[depth + 1]
      o == sent'[depth]
  IN  /\ Tells(k, mw'[depth], in, o)
      /\ Untorn' => Ordered(k, in, o)
      /\ ~core'.failed /\ exc = "none" => Kept(k, in, o) /\ exc' = exc

\* What becomes of the exception, and whether the answer is lost.
Goes ==
  /\ exc' = exc \/ exc' \in {"none"} \cup Thrown
  /\ UNCHANGED core \/ core' = [core EXCEPT !.failed = TRUE]

\* Everything that changes when position depth returns.
OneReturns ==
  /\ phase = "out" /\ phase' = "out" /\ depth \in 1..Len(pipe) /\ depth' = depth - 1
  /\ UNCHANGED <<pipe, req, client, reader, file, view>> /\ Goes
  /\ \A i \in depth + 1..Inner : sent'[i] = sent[i]
  /\ \A i \in depth + 1..Len(pipe) : mw'[i] = mw[i]
  /\ pipe[depth] \in Counting =>
       /\ mw'[depth].inside = 0 /\ mw'[depth].counts = <<StatusOf(sent[depth + 1])>>
  /\ pipe[depth] \notin Counting =>
       mw'[depth].inside = mw[depth].inside /\ mw'[depth].counts = mw[depth].counts
  /\ Untorn' => Untorn
  /\ HandsOn

\* What is lost stays lost.
LEMMA FailedStays ==
  ASSUME Goes
  PROVE  core.failed => core'.failed
  <1>1. CASE UNCHANGED core
    BY <1>1
  <1>2. CASE core' = [core EXCEPT !.failed = TRUE]
    BY <1>2
  <1> QED
    BY <1>1, <1>2 DEF Goes

\* What was kept is in order as it was.
LEMMA KeptOrdered ==
  ASSUME NEW k, NEW in, NEW o, Kept(k, in, o)
  PROVE  Ordered(k, in, o)
  BY DEF Kept, KeptStart, Ordered

\* An answer that is out of order stays so, and has one start.
LEMMA DeliveredStays ==
  ASSUME NEW w \in Answers, NEW ms \in Seq(Messages), FitsAll(w, ms), NEW n \in 0..Len(ms)
  PROVE  LET v == Delivered(w, ms)[n]
             z == DeliverAll(w, ms)
         IN  /\ v.disorder => z.disorder
             /\ v.start # <<>> => z.start = v.start
  <1> DEFINE D == Delivered(w, ms)
             v == D[n]
             Keeps(i) == (v.disorder => D[i].disorder) /\ (v.start # <<>> => D[i].start = v.start)
             N == Len(ms)
             S == {i \in 0..N : n <= i => Keeps(i)}
  <1>1. N \in Nat /\ n \in 0..N
    OBVIOUS
  <1>2. \A i \in 0..N : D[i] \in Answers
    BY DeliverAllKeeps
  <1>3. \A i \in 1..N : D[i] = Deliver(D[i - 1], ms[i])
    BY DeliveredFacts
  <1>4. \A i \in 1..N : Fits(D[i - 1], ms[i]) /\ ms[i] \in Messages
    BY DEF FitsAll
  <1>5. DeliverAll(w, ms) = D[N]
    BY DEF DeliverAll
  <1> HIDE DEF D, N
  <1>6. Keeps(n)
    OBVIOUS
  <1>7. ASSUME NEW i \in 0..N, i < N, Keeps(i) PROVE Keeps(i + 1)
    <2> DEFINE a == D[i]
               m == ms[i + 1]
               b == D[i + 1]
    <2>1. i + 1 \in 1..N /\ (i + 1) - 1 = i
      BY <1>1, <1>7
    <2>2. a \in Answers /\ m \in Messages /\ Fits(a, m) /\ b = Deliver(a, m)
      BY <1>2, <1>3, <1>4, <2>1
    <2> HIDE DEF a, b, m, v
    <2>3. (a.disorder => b.disorder) /\ (a.start # <<>> => b.start = a.start)
      <3>1. CASE m \in Starts
        <4>1. a.disorder => a.start # <<>>
          BY <2>2, AnswerFacts
        <4>2. /\ b.start = <<m>>
              /\ b.disorder <=> a.start # <<>>
              /\ a.start # <<>> => a.start = <<m>>
          BY <2>2, <3>1, DeliverStart
        <4> QED
          BY <4>1, <4>2
      <3>2. CASE m \in Bodies
        BY <2>2, <3>2, DeliverBody
      <3> QED
        BY <2>2, <3>1, <3>2 DEF Messages
    <2> QED
      BY <1>7, <2>3 DEF a, b
  <1> HIDE DEF Keeps
  <1>8. 0 \in S
    BY <1>1, <1>6
  <1>9. \A i \in 0..N : i \in S /\ i < N => i + 1 \in S
    <2> SUFFICES ASSUME NEW i \in 0..N, i \in S, i < N PROVE i + 1 \in S
      OBVIOUS
    <2>1. i + 1 \in 0..N /\ (n <= i + 1 => n <= i \/ n = i + 1)
      BY <1>1
    <2> QED
      BY <1>6, <1>7, <2>1
  <1> HIDE DEF S
  <1>10. N \in S
    <2>1. \A i \in 0..N : i \in S
      BY <1>1, <1>8, <1>9, Induction
    <2>2. N \in 0..N
      BY <1>1
    <2> QED
      BY <2>1, <2>2
  <1>11. Keeps(N)
    BY <1>1, <1>10 DEF S
  <1> QED
    BY <1>5, <1>11 DEF Keeps, D

\* So is the first of what is in order.
LEMMA FirstOrdered ==
  ASSUME NEW k, NEW in, NEW o \in Answers, NEW ms \in Seq(Messages), FitsAll(o, ms),
         Ordered(k, in, DeliverAll(o, ms)), NEW n \in 1..Len(ms)
  PROVE  Ordered(k, in, DeliverAll(o, SubSeq(ms, 1, n)))
  <1> DEFINE v == Delivered(o, ms)[n]
             z == DeliverAll(o, ms)
  <1>1. n \in 0..Len(ms)
    OBVIOUS
  <1>2. DeliverAll(o, SubSeq(ms, 1, n)) = v
    BY <1>1, FirstFacts
  <1>3. (v.disorder => z.disorder) /\ (v.start # <<>> => z.start = v.start)
    BY <1>1, DeliveredStays
  <1> HIDE DEF v, z
  <1> QED
    BY <1>2, <1>3 DEF Ordered, z

\* What holds where a call returns.
LEMMA LeaveStart ==
  ASSUME Stands, phase = "out", depth > 0, Return(depth), UNCHANGED pipe
  PROVE  /\ depth \in 1..Len(pipe) /\ phase' = "out" /\ depth' = depth - 1 /\ Phases'
         /\ Edge = depth + 1 /\ Edge' = depth /\ depth - 1 \in 0..Len(pipe)
         /\ (depth - 1) + 1 = depth /\ (depth - 1) + 2 = depth + 1
         /\ pipe[depth] \in Kinds /\ mw[depth] \in States
         /\ sent[depth] \in Outputs /\ sent[depth + 1] \in Outputs
         /\ mw \in [1..Len(pipe) -> States]
         /\ Carries(pipe[depth], mw[depth], sent[depth + 1], sent[depth])
         /\ Untorn => /\ sent[depth] \in Answers /\ sent[depth + 1] \in Answers
                      /\ Passes(pipe[depth], mw[depth], sent[depth + 1], sent[depth])
  <1>1. /\ Len(pipe) \in Nat /\ Inner = Len(pipe) + 1 /\ depth \in Nat /\ Edge \in 1..Inner
        /\ \A i \in 1..Len(pipe) : pipe[i] \in Kinds /\ mw[i] \in States
        /\ \A i \in 1..Inner : sent[i] \in Outputs
        /\ mw \in [1..Len(pipe) -> States]
    BY StandsFacts
  <1>2. depth \in 1..Len(pipe) /\ Edge = depth + 1 /\ depth \in 1..Inner /\ depth + 1 \in 1..Inner
    BY <1>1 DEF Stands, Linked, Phases, Edge
  <1>3. phase' = "out" /\ depth' = depth - 1 /\ Edge' = depth
    BY <1>2 DEF Return, ToPhase, Edge
  <1>4. CarriesAt(depth)
    BY <1>2 DEF Stands, Linked, Links
  <1>5. Phases'
    BY <1>1, <1>2, <1>3 DEF Phases
  <1>6. ASSUME Untorn
        PROVE  /\ sent[depth] \in Answers /\ sent[depth + 1] \in Answers
               /\ Passes(pipe[depth], mw[depth], sent[depth + 1], sent[depth])
    <2>1. Placed
      BY <1>6 DEF Stands
    <2>2. PassesAt(depth)
      BY <1>2, <2>1 DEF Placed, Chain
    <2>3. \A i \in 1..Inner : sent[i] \in Answers
      BY <2>1, PlacedFacts
    <2> QED
      BY <1>2, <2>2, <2>3 DEF PassesAt
  <1> QED
    BY <1>1, <1>2, <1>3, <1>4, <1>5, <1>6 DEF CarriesAt

\* A hook middleware has not sent on what it captured.
LEMMA StandsMarked ==
  ASSUME Stands, phase = "out", depth > 0, pipe[depth] = "hooks", Return(depth),
         UNCHANGED <<pipe, req, sent>>, core.failed => core'.failed,
         mw' = [mw EXCEPT ![depth].spoilt = TRUE]
  PROVE  Stands' /\ (Untorn' <=> Untorn)
  <1>1. /\ depth \in 1..Len(pipe) /\ phase' = "out" /\ Phases' /\ Edge = depth + 1 /\ Edge' = depth
        /\ mw \in [1..Len(pipe) -> States] /\ mw[depth] \in States
    BY LeaveStart
  <1> DEFINE st == [mw[depth] EXCEPT !.spoilt = TRUE]
  <1>2. st \in States
    BY <1>1 DEF States
  <1>3. mw' = [mw EXCEPT ![depth] = st]
    OBVIOUS
  <1> HIDE DEF st
  <1>4. mw' \in [1..Len(pipe) -> States] /\ \A i \in 1..Len(pipe) : i # depth => mw'[i] = mw[i]
    BY <1>1, <1>2, <1>3
  <1>5. Len(pipe) \in Nat /\ Inner' = Inner
    BY StandsFacts DEF Inner
  <1>6. \A i \in 1..Edge' - 1 : i \in 1..Edge - 1 /\ i \in 1..Len(pipe) /\ i # depth
    BY <1>1, <1>5
  <1>7. Linked'
    <2>1. Piped(mw)'
      BY <1>4, <1>5 DEF Stands, Linked, Piped
    <2>2. ASSUME NEW i \in 1..Edge' - 1 PROVE CarriesAt(i)'
      <3>1. mw'[i] = mw[i] /\ CarriesAt(i)
        BY <1>4, <1>6, <2>2 DEF Stands, Linked, Links
      <3> QED
        BY <3>1, CarriesThen DEF CarriesAt
    <2>3. Quiet'
      BY <1>1 DEF Quiet
    <2> QED
      BY <1>1, <2>1, <2>2, <2>3 DEF Linked, Links
  <1>8. Untorn' <=> Untorn
    BY <1>4 DEF Untorn
  <1>9. ASSUME Untorn PROVE Placed'
    <2>0. Placed
      BY <1>9 DEF Stands
    <2>1. Pipeline(mw)'
      BY <1>4, <1>5, <2>0 DEF Placed, Pipeline
    <2>2. ASSUME NEW i \in 1..Edge' - 1 PROVE PassesAt(i)'
      <3>1. mw'[i] = mw[i] /\ PassesAt(i)
        BY <1>4, <1>6, <2>0, <2>2 DEF Placed, Chain
      <3> QED
        BY <3>1, PassesThen DEF PassesAt
    <2>3. Quiet'
      BY <1>1 DEF Quiet
    <2> QED
      BY <1>1, <2>1, <2>2, <2>3 DEF Placed, Chain
  <1>10. sent'[Inner'] \in Answers
    BY <1>5 DEF Stands
  <1> QED
    BY <1>7, <1>8, <1>9, <1>10 DEF Stands

\* One that has nothing more to send.
LEMMA LeavesSilent ==
  ASSUME Stands, phase = "out", depth > 0, pipe[depth] \notin Counting, Return(depth),
         UNCHANGED <<Given, client, reader, file, sent>>, Goes,
         UNCHANGED mw \/ (pipe[depth] = "hooks" /\ mw' = [mw EXCEPT ![depth].spoilt = TRUE])
  PROVE  Stands' /\ (HandsOn => OneReturns)
  <1>1. UNCHANGED <<pipe, req, view>>
    BY DEF Given
  <1>2. /\ depth \in 1..Len(pipe) /\ phase' = "out" /\ depth' = depth - 1 /\ Phases'
        /\ Edge = depth + 1 /\ Edge' = depth
        /\ mw \in [1..Len(pipe) -> States] /\ mw[depth] \in States
    BY <1>1, LeaveStart
  <1>3. core.failed => core'.failed
    BY FailedStays
  <1>4. CASE UNCHANGED mw
    <2>1. Stands'
      <3>1. Stays /\ Edge' <= Edge
        BY <1>1, <1>2, <1>4 DEF Stays
      <3> QED
        BY <1>2, <1>3, <3>1, StandsAside
    <2>2. Untorn' <=> Untorn
      BY <1>1, <1>4 DEF Untorn
    <2> QED
      BY <1>1, <1>2, <1>4, <2>1, <2>2 DEF OneReturns
  <1>5. CASE pipe[depth] = "hooks" /\ mw' = [mw EXCEPT ![depth].spoilt = TRUE]
    <2>1. Stands' /\ (Untorn' <=> Untorn)
      BY <1>1, <1>3, <1>5, StandsMarked
    <2>2. /\ mw'[depth].inside = mw[depth].inside /\ mw'[depth].counts = mw[depth].counts
          /\ \A i \in depth + 1..Len(pipe) : mw'[i] = mw[i]
      BY <1>2, <1>5 DEF States
    <2> QED
      BY <1>1, <1>2, <2>1, <2>2 DEF OneReturns
  <1> QED
    BY <1>4, <1>5

\* One that sends once more.
LEMMA LeavesSending ==
  ASSUME Stands, phase = "out", depth > 0, pipe[depth] \notin Counting, Return(depth),
         UNCHANGED <<Given, client, reader, file>>, Goes,
         NEW st \in States, st.inside = mw[depth].inside, st.counts = mw[depth].counts,
         pipe[depth] = "gzip" => st.spoilt = mw[depth].spoilt,
         NEW ms \in Seq(Messages), SuitsAll(sent[depth], ms),
         Untorn => FitsAll(sent[depth], ms),
         SendWith([mw EXCEPT ![depth] = st], depth - 1, ms),
         NEW w, w = DeliverAll(sent[depth], ms),
         Tells(pipe[depth], st, sent[depth + 1], w),
         Untorn => Ordered(pipe[depth], sent[depth + 1], w),
         ~core'.failed /\ exc = "none" => Kept(pipe[depth], sent[depth + 1], w) /\ exc' = exc
  PROVE  Stands' /\ OneReturns
  <1>1. UNCHANGED <<pipe, req, view>>
    BY DEF Given
  <1>2. /\ depth \in 1..Len(pipe) /\ phase' = "out" /\ depth' = depth - 1 /\ Phases'
        /\ Edge = depth + 1 /\ Edge' = depth /\ depth - 1 \in 0..Len(pipe)
        /\ (depth - 1) + 1 = depth /\ (depth - 1) + 2 = depth + 1
        /\ mw \in [1..Len(pipe) -> States]
    BY <1>1, LeaveStart
  <1>3. core.failed => core'.failed
    BY FailedStays
  <1> DEFINE states == [mw EXCEPT ![depth] = st]
             d == depth - 1
  <1>4. /\ states \in [1..Len(pipe) -> States] /\ states[depth] = st
        /\ \A i \in 1..d : states[i] = mw[i]
        /\ \A i \in depth + 1..Len(pipe) : states[i] = mw[i]
        /\ \A i \in 1..Len(pipe) : i # depth => states[i] = mw[i]
    BY <1>2
  <1>5. \A i \in 1..Len(pipe) : pipe[i] = "gzip" => states[i].spoilt = mw[i].spoilt
    BY <1>4
  <1> HIDE DEF states
  <1>6. /\ SendWith(states, d, ms) /\ d \in 0..Len(pipe) /\ d < Edge /\ Edge' = d + 1
        /\ SuitsAll(sent[d + 1], ms) /\ (d = Len(pipe) \/ Untorn => FitsAll(sent[d + 1], ms))
    BY <1>2 DEF states
  <1>7. Stands' /\ Passed(states, d, ms) /\ (Untorn' <=> Untorn)
    <2> HIDE DEF d
    <2> QED
      BY <1>1, <1>2, <1>3, <1>4, <1>5, <1>6, StandsSending
  <1>8. /\ mw'[depth] = st /\ sent'[depth] = w
        /\ \A i \in depth + 1..Len(pipe) : mw'[i] = mw[i]
        /\ \A i \in depth + 1..Inner : sent'[i] = sent[i]
    BY <1>2, <1>4, <1>7 DEF Passed
  <1>9. HandsOn
    BY <1>7, <1>8 DEF HandsOn
  <1> QED
    BY <1>1, <1>2, <1>7, <1>8, <1>9 DEF OneReturns

\* Or is cut off while it does.
LEMMA LeavesCutShort ==
  ASSUME Stands, phase = "out", depth > 0, pipe[depth] \notin Counting,
         UNCHANGED <<Given, client, reader, file>>,
         NEW st \in States, st.inside = mw[depth].inside, st.counts = mw[depth].counts,
         pipe[depth] = "gzip" => st.spoilt = mw[depth].spoilt,
         NEW ms \in Seq(Messages), SuitsAll(sent[depth], ms),
         Untorn => FitsAll(sent[depth], ms),
         CutShort([mw EXCEPT ![depth] = st], depth - 1, ms), core \in Cores,
         NEW w, w = DeliverAll(sent[depth], ms),
         Tells(pipe[depth], st, sent[depth + 1], w),
         Untorn => Ordered(pipe[depth], sent[depth + 1], w)
  PROVE  Stands' /\ OneReturns
  <1>1. UNCHANGED <<pipe, req, view>>
    BY DEF Given
  <1> DEFINE states == [mw EXCEPT ![depth] = st]
             d == depth - 1
  <1>0. /\ CutWith(states, d, ms) /\ exc' \in Raised /\ core' = [core EXCEPT !.failed = TRUE]
        /\ Return(d + 1)
    BY DEF CutShort
  <1>2. /\ depth \in 1..Len(pipe) /\ phase' = "out" /\ depth' = depth - 1 /\ Phases'
        /\ Edge = depth + 1 /\ Edge' = depth /\ depth - 1 \in 0..Len(pipe)
        /\ (depth - 1) + 1 = depth /\ (depth - 1) + 2 = depth + 1
        /\ mw \in [1..Len(pipe) -> States] /\ sent[depth] \in Outputs
        /\ Untorn => sent[depth] \in Answers
    <2>1. depth \in Nat
      BY StandsFacts
    <2>2. Return(depth)
      BY <1>0, <2>1 DEF Return, ToPhase
    <2> QED
      BY <1>1, <2>2, LeaveStart
  <1>3. core'.failed /\ Goes
    BY <1>0 DEF Goes, Cores, Thrown
  <1>4. /\ states \in [1..Len(pipe) -> States] /\ states[depth] = st
        /\ \A i \in 1..d : states[i] = mw[i]
        /\ \A i \in depth + 1..Len(pipe) : states[i] = mw[i]
        /\ \A i \in 1..Len(pipe) : i # depth => states[i] = mw[i]
    BY <1>2
  <1>5. \A i \in 1..Len(pipe) : pipe[i] = "gzip" => (mw[i].spoilt => states[i].spoilt)
    BY <1>4
  <1> HIDE DEF states
  <1>6. /\ d \in 0..Len(pipe) /\ d < Edge /\ Edge' = d + 1
        /\ SuitsAll(sent[d + 1], ms) /\ (d = Len(pipe) \/ Untorn => FitsAll(sent[d + 1], ms))
    BY <1>2
  <1>7. /\ Stands' /\ (Untorn' => Untorn)
        /\ \E n \in 1..Len(ms) : /\ SubSeq(ms, 1, n) \in Seq(Messages)
                                 /\ Passed(states, d, SubSeq(ms, 1, n))
    <2> HIDE DEF d
    <2> QED
      BY <1>0, <1>1, <1>2, <1>3, <1>4, <1>5, <1>6, StandsCut
  <1>8. PICK n \in 1..Len(ms) : Passed(states, d, SubSeq(ms, 1, n))
    BY <1>7
  <1> DEFINE v == DeliverAll(sent[depth], SubSeq(ms, 1, n))
  <1>9. /\ mw'[depth] = st /\ sent'[depth] = v
        /\ \A i \in depth + 1..Len(pipe) : mw'[i] = mw[i]
        /\ \A i \in depth + 1..Inner : sent'[i] = sent[i]
    BY <1>2, <1>4, <1>8 DEF Passed
  <1>10. Opens(v.start) = Opens(w.start)
    <2>1. n \in 0..Len(ms)
      OBVIOUS
    <2>2. v = Delivered(sent[depth], ms)[n]
      BY <2>1, FirstFacts
    <2> QED
      BY <1>2, <2>2, SuitsAllKeeps
  <1>12. Tells(pipe[depth], st, sent[depth + 1], v)
    BY <1>10 DEF Tells
  <1>13. Untorn' => Ordered(pipe[depth], sent[depth + 1], v)
    BY <1>2, <1>7, FirstOrdered
  <1> HIDE DEF v
  <1>14. HandsOn
    BY <1>3, <1>9, <1>12, <1>13 DEF HandsOn
  <1> QED
    BY <1>1, <1>2, <1>3, <1>7, <1>9, <1>14 DEF OneReturns

\* One that does nothing more.
LEMMA HandsOnSame ==
  ASSUME Stands, UNCHANGED <<pipe, req, mw, sent, core, exc>>, Len(pipe) \in Nat,
         Opens(sent[depth].start) = Opens(sent[depth + 1].start),
         Untorn => Kept(pipe[depth], sent[depth + 1], sent[depth])
  PROVE  HandsOn
  <1>1. core.failed \/ Untorn
    BY DEF Stands
  <1>2. Untorn' <=> Untorn
    BY DEF Untorn
  <1> QED
    BY <1>1, <1>2, KeptOrdered DEF HandsOn, Tells

\* Those that have nothing to do when the call returns,
LEMMA LeavesThrough ==
  ASSUME Stands, LeaveThrough
  PROVE  Stands' /\ OneReturns
  <1>1. /\ phase = "out" /\ depth > 0 /\ Return(depth)
        /\ UNCHANGED <<Given, mw, core, client, reader, file, exc, sent>>
        /\ pipe[depth] \in {"session", "csrf", "cors", "proxy", "host", "https", "limits",
                            "requestid", "headers", "timing"}
    BY DEF LeaveThrough, Leaving
  <1>2. UNCHANGED <<pipe, req, view>>
    BY <1>1 DEF Given
  <1>3. /\ mw[depth] \in States
        /\ Carries(pipe[depth], mw[depth], sent[depth + 1], sent[depth])
        /\ Untorn => /\ sent[depth] \in Answers /\ sent[depth + 1] \in Answers
                     /\ Passes(pipe[depth], mw[depth], sent[depth + 1], sent[depth])
    BY <1>1, <1>2, LeaveStart
  <1>5. pipe[depth] \in Lining /\ pipe[depth] \notin Counting
    BY <1>1 DEF Lining, Kinds, Counting
  <1>6. Untorn => Adds(pipe[depth], mw[depth], sent[depth + 1], sent[depth])
    BY <1>3, <1>5 DEF Passes, Lining
  <1>7. Untorn => Kept(pipe[depth], sent[depth + 1], sent[depth])
    BY <1>3, <1>5, <1>6, KeptLining
  <1>8. Opens(sent[depth].start) = Opens(sent[depth + 1].start)
    BY <1>3, <1>5 DEF Carries, Lining
  <1>9. HandsOn
    BY <1>1, <1>2, <1>7, <1>8, StandsFacts, HandsOnSame
  <1> QED
    BY <1>1, <1>5, <1>9, LeavesSilent DEF Goes

\* and those that count.
LEMMA LeavesCounting ==
  ASSUME Stands, LeaveCounting
  PROVE  Stands' /\ OneReturns
  <1>1. /\ phase = "out" /\ depth > 0 /\ Return(depth) /\ pipe[depth] \in Counting
        /\ mw' = [mw EXCEPT ![depth] = Counted(@)]
        /\ UNCHANGED <<Given, core, client, reader, file, exc, sent>>
    BY DEF LeaveCounting, Leaving
  <1>2. UNCHANGED <<pipe, req, view>>
    BY <1>1 DEF Given
  <1>3. /\ depth \in 1..Len(pipe) /\ phase' = "out" /\ depth' = depth - 1
        /\ mw[depth] \in States
        /\ mw \in [1..Len(pipe) -> States]
        /\ Carries(pipe[depth], mw[depth], sent[depth + 1], sent[depth])
        /\ Untorn => /\ sent[depth] \in Answers /\ sent[depth + 1] \in Answers
                     /\ Passes(pipe[depth], mw[depth], sent[depth + 1], sent[depth])
    BY <1>1, <1>2, LeaveStart
  <1>4. Stands' /\ mw'[depth].inside = 0 /\ mw'[depth].counts = <<mw[depth].status>>
    BY <1>1, <1>2, StandsCounted
  <1>5. pipe[depth] \in Lining
    BY <1>1 DEF Lining, Kinds, Counting
  <1>6. Untorn => Kept(pipe[depth], sent[depth + 1], sent[depth])
    <2>1. Untorn => Adds(pipe[depth], mw[depth], sent[depth + 1], sent[depth])
      BY <1>3, <1>5 DEF Passes, Lining
    <2> QED
      BY <1>3, <1>5, <2>1, KeptLining
  <1>7. /\ Opens(sent[depth].start) = Opens(sent[depth + 1].start)
        /\ mw[depth].status = StatusOf(sent[depth + 1])
    BY <1>1, <1>3, <1>5 DEF Carries, Lining
  <1>9. \A i \in 1..Len(pipe) : i # depth => mw'[i] = mw[i]
    BY <1>1, <1>3
  <1>10. Untorn' <=> Untorn
    <2>1. \A i \in 1..Len(pipe) : pipe[i] = "gzip" => i # depth
      BY <1>1 DEF Counting
    <2> QED
      BY <1>2, <1>9, <2>1 DEF Untorn
  <1>8. HandsOn
    <2>1. core.failed \/ Untorn
      BY DEF Stands
    <2> QED
      BY <1>1, <1>6, <1>7, <1>10, <2>1, KeptOrdered DEF HandsOn, Tells
  <1> QED
    BY <1>1, <1>2, <1>3, <1>4, <1>7, <1>8, <1>9, <1>10 DEF OneReturns, Goes

\* GZipMiddleware flushes what it has held back.
LEMMA LeavesGzip ==
  ASSUME Stands, core \in Cores, LeaveGzip
  PROVE  Stands' /\ OneReturns
  <1> DEFINE st == mw[depth]
             in == sent[depth + 1]
             o == sent[depth]
             f == Flushed(st)
  <1>1. /\ phase = "out" /\ depth > 0 /\ pipe[depth] = "gzip"
        /\ UNCHANGED <<Given, client, reader, file>>
        /\ IF Unfinished(st) THEN Answer([mw EXCEPT ![depth] = f.st], depth - 1, f.out)
                             ELSE Return(depth) /\ UNCHANGED <<mw, core, exc, sent>>
    BY DEF LeaveGzip, Leaving
  <1>2. pipe[depth] \notin Counting /\ UNCHANGED <<pipe, req>>
    BY <1>1 DEF Counting, Given
  <1>0. core.failed \/ Untorn
    BY DEF Stands
  <1>3. /\ st \in States /\ in \in Outputs /\ o \in Outputs
        /\ Carries("gzip", st, in, o)
        /\ Untorn => in \in Answers /\ o \in Answers /\ Zips(st, in, o)
    <2>1. Return(depth)
      <3>1. CASE Unfinished(st)
        BY <1>1, <3>1, StandsFacts DEF Answer, CutShort, Return, ToPhase
      <3> QED
        BY <1>1, <3>1
    <2>2. /\ Carries(pipe[depth], st, in, o) /\ st \in States /\ in \in Outputs /\ o \in Outputs
          /\ Untorn => o \in Answers /\ in \in Answers /\ Passes(pipe[depth], st, in, o)
      BY <1>1, <1>2, <2>1, LeaveStart
    <2> QED
      BY <1>1, <2>2 DEF Passes
  <1>4. CASE Unfinished(st)
    <2> DEFINE w == DeliverAll(o, f.out)
    <2>0. st.held # <<>> /\ Opens(st.held) = Opens(in.start)
          /\ (o.start = <<>> \/ Opens(o.start) = Opens(in.start))
      BY <1>3, <1>4 DEF Unfinished, Carries
    <2>1. /\ f.st \in States /\ SameCounts(st, f.st)
          /\ f.out \in Seq(Messages) /\ f.out # <<>> /\ SuitsAll(o, f.out)
          /\ Carries("gzip", f.st, in, w)
      BY <1>3, <2>0, FlushedCarries
    <2>2. Untorn => FitsAll(o, f.out) /\ Kept("gzip", in, w)
      BY <1>3, <1>4, KeptFlushed
    <2>3. Answer([mw EXCEPT ![depth] = f.st], depth - 1, f.out)
      BY <1>1, <1>4
    <2> HIDE DEF f
    <2>4. w.start # <<>>
      <3>1. Len(f.out) \in 1..Len(f.out) /\ w = Delivered(o, f.out)[Len(f.out)]
        BY <2>1 DEF DeliverAll
      <3> QED
        BY <1>3, <2>1, <3>1, SuitsAllKeeps
    <2>5. Tells("gzip", f.st, in, w)
      BY <2>1, <2>4 DEF Carries, Tells
    <2>6. Untorn => Ordered("gzip", in, w)
      BY <2>2, KeptOrdered
    <2>7. f.st.inside = st.inside /\ f.st.counts = st.counts /\ f.st.spoilt = st.spoilt
      BY <2>1 DEF SameCounts
    <2>8. CASE SendWith([mw EXCEPT ![depth] = f.st], depth - 1, f.out)
               /\ Return((depth - 1) + 1) /\ UNCHANGED <<core, exc>>
      <3>1. Return(depth) /\ Goes
        BY <2>8, StandsFacts DEF Return, ToPhase, Goes
      <3>2. ~core'.failed /\ exc = "none" => Kept("gzip", in, w) /\ exc' = exc
        BY <1>0, <2>2, <2>8
      <3> HIDE DEF w, st
      <3> QED
        BY <1>1, <1>2, <2>1, <2>2, <2>5, <2>6, <2>7, <2>8, <3>1, <3>2, LeavesSending DEF w, st
    <2>9. CASE CutShort([mw EXCEPT ![depth] = f.st], depth - 1, f.out)
      <3> HIDE DEF w, st
      <3> QED
        BY <1>1, <1>2, <2>1, <2>2, <2>5, <2>6, <2>7, <2>9, LeavesCutShort DEF w, st
    <2> QED
      BY <2>3, <2>8, <2>9 DEF Answer
  <1>5. CASE ~Unfinished(st)
    <2>1. Untorn => Kept("gzip", in, o)
      BY <1>3, <1>5, KeptGzip
    <2>2. Opens(o.start) = Opens(in.start)
      BY <1>3, <1>5 DEF Carries, Unfinished, Opens
    <2> HIDE DEF f
    <2>3. HandsOn
      BY <1>1, <1>2, <1>5, <2>1, <2>2, StandsFacts, HandsOnSame
    <2> QED
      BY <1>1, <1>2, <1>5, <2>3, LeavesSilent DEF Goes
  <1> QED
    BY <1>4, <1>5

\* An answer of two messages that a middleware gives by itself.
LEMMA PlainAnswer ==
  ASSUME NEW status \in Nat, NEW n \in Nat
  PROVE  LET w == DeliverAll(NoAnswer, Plain(status, n)) IN
         /\ Plain(status, n) \in Seq(Messages) /\ FitsAll(NoAnswer, Plain(status, n))
         /\ w \in Answers /\ w.start = <<StartMsg(status, <<n>>, FALSE)>> /\ ~w.disorder
  <1> DEFINE no == FALSE
             lens == <<n>>
             s == StartMsg(status, lens, no)
             ms == <<s, BodyMsg(n, n, no)>>
  <1>1. lens \in Seq(Nat) /\ no \in BOOLEAN
    OBVIOUS
  <1>2. Plain(status, n) = ms
    BY DEF Plain
  <1> HIDE DEF lens, no
  <1>3. s \in Starts
    BY <1>1, MessageFacts
  <1> HIDE DEF s
  <1>4. LET w == DeliverAll(NoAnswer, ms) IN
        /\ ms \in Seq(Messages) /\ FitsAll(NoAnswer, ms)
        /\ w \in Answers /\ w.start = <<s>> /\ ~w.disorder
    BY <1>1, <1>3, WholeAnswer
  <1> HIDE DEF ms
  <1> QED
    BY <1>2, <1>4 DEF s, lens, no

\* Its status.
LEMMA PlainSuits ==
  ASSUME NEW status \in Nat
  PROVE  LET w == DeliverAll(NoAnswer, Plain(status, 1)) IN
         /\ Plain(status, 1) \in Seq(Messages) /\ FitsAll(NoAnswer, Plain(status, 1))
         /\ SuitsAll(NoAnswer, Plain(status, 1))
         /\ w \in Answers /\ Opens(w.start) = {status} /\ ~w.disorder /\ ~w.start[1].coded
  <1> DEFINE n == 1
             no == FALSE
             lens == <<n>>
             s == StartMsg(status, lens, no)
             w == DeliverAll(NoAnswer, Plain(status, n))
  <1>1. n \in Nat /\ lens \in Seq(Nat) /\ no \in BOOLEAN
    OBVIOUS
  <1>2. s.status = status /\ s.coded = no
    BY DEF StartMsg
  <1> HIDE DEF n
  <1>3. /\ Plain(status, n) \in Seq(Messages) /\ FitsAll(NoAnswer, Plain(status, n))
        /\ w \in Answers /\ w.start = <<s>> /\ ~w.disorder
    BY <1>1, PlainAnswer
  <1>4. SuitsAll(NoAnswer, Plain(status, n))
    BY <1>3, FitsSuits, MessageFacts
  <1> HIDE DEF s, w
  <1>5. Opens(w.start) = {status} /\ ~w.start[1].coded
    BY <1>2, <1>3 DEF Opens
  <1> QED
    BY <1>3, <1>4, <1>5 DEF w, n

\* What a hook middleware makes of what it has captured tells the same status.
LEMMA RebuiltSuits ==
  ASSUME NEW st \in States, st.held # <<>>
  PROVE  /\ Rebuilt(st) \in Seq(Messages) /\ SuitsAll(NoAnswer, Rebuilt(st))
         /\ Opens(DeliverAll(NoAnswer, Rebuilt(st)).start) = Opens(st.held)
  <1> DEFINE no == FALSE
             in == Made(st.held, st.raw, st.size, no, no)
             ms == Rebuilt(st)
             w == DeliverAll(NoAnswer, ms)
  <1>1. no \in BOOLEAN /\ ~no
    OBVIOUS
  <1> HIDE DEF no
  <1>2. in \in Answers /\ in.start = st.held /\ in.raw = st.raw /\ in.size = st.size
    BY <1>1, StateFacts, AnswerMade
  <1> HIDE DEF in
  <1>3. Captures(st, in, NoAnswer)
    BY <1>2 DEF Captures
  <1>4. /\ ms \in Seq(Messages) /\ FitsAll(NoAnswer, ms)
        /\ w \in Answers /\ Kept("hooks", in, w)
    BY <1>2, <1>3, KeptHooks
  <1>5. SuitsAll(NoAnswer, ms)
    BY <1>4, FitsSuits, MessageFacts
  <1>6. w.start # <<>>
    <2>1. Len(ms) = 2
      BY DEF Rebuilt
    <2> HIDE DEF ms
    <2>2. 2 \in 1..Len(ms) /\ w = Delivered(NoAnswer, ms)[2]
      BY <2>1 DEF DeliverAll
    <2>3. NoAnswer \in Outputs
      BY MessageFacts, AnswersAreOutputs
    <2> QED
      BY <1>4, <1>5, <2>2, <2>3, SuitsAllKeeps
  <1> HIDE DEF ms, w
  <1>7. w.start[1].status = in.start[1].status
    BY <1>4, <1>6 DEF Kept, KeptStart
  <1> QED
    BY <1>2, <1>4, <1>5, <1>6, <1>7 DEF Opens, ms, w

\* A hook middleware rebuilds the answer or gives another one; or it drops it, if
\* after_response raises or the call has.
LEMMA LeavesHooks ==
  ASSUME Stands, core \in Cores, LeaveHooks
  PROVE  Stands' /\ OneReturns
  <1> DEFINE st == mw[depth]
             in == sent[depth + 1]
             o == sent[depth]
             ms == Rebuilt(st)
             marked == [st EXCEPT !.spoilt = TRUE]
             spoilt == [mw EXCEPT ![depth].spoilt = TRUE]
             lost == [core EXCEPT !.failed = TRUE]
             other == Plain(503, 1)
  <1>1. /\ phase = "out" /\ depth > 0 /\ pipe[depth] = "hooks"
        /\ UNCHANGED <<Given, client, reader, file>>
        /\ \/ st.held = <<>> /\ Return(depth) /\ UNCHANGED <<mw, core, exc, sent>>
           \/ st.held # <<>> /\ exc = "none" /\ Answer(mw, depth - 1, ms)
           \/ /\ st.held # <<>> /\ SendWith(spoilt, depth - 1, other) /\ core' = lost
              /\ Return(depth) /\ UNCHANGED exc
           \/ st.held # <<>> /\ CutShort(spoilt, depth - 1, other)
           \/ /\ st.held # <<>> /\ mw' = spoilt /\ core' = lost /\ exc' \in Thrown
              /\ Return(depth) /\ UNCHANGED sent
           \/ /\ st.held # <<>> /\ exc # "none"
              /\ mw' = spoilt /\ Return(depth) /\ UNCHANGED <<core, exc, sent>>
    BY DEF LeaveHooks, Leaving
  <1>2. pipe[depth] \notin Counting /\ pipe[depth] # "gzip" /\ UNCHANGED <<pipe, req>>
    BY <1>1 DEF Counting, Given
  <1>0. Return(depth) /\ Len(pipe) \in Nat
    BY <1>1, StandsFacts DEF Answer, CutShort, Return, ToPhase
  <1>3. /\ depth \in 1..Len(pipe) /\ mw \in [1..Len(pipe) -> States]
        /\ st \in States /\ in \in Outputs
        /\ o = NoAnswer /\ o.start = <<>> /\ Opens(st.held) = Opens(in.start)
        /\ Untorn => in \in Answers /\ Captures(st, in, o)
        /\ core.failed \/ Untorn
    <2>1. /\ Carries(pipe[depth], st, in, o) /\ st \in States /\ in \in Outputs /\ o \in Outputs
          /\ depth \in 1..Len(pipe) /\ mw \in [1..Len(pipe) -> States]
          /\ Untorn => o \in Answers /\ in \in Answers /\ Passes(pipe[depth], st, in, o)
      BY <1>0, <1>1, <1>2, LeaveStart
    <2>2. o.start = <<>> /\ Opens(st.held) = Opens(in.start)
      BY <1>1, <2>1 DEF Carries
    <2>3. o = NoAnswer
      BY <2>1, <2>2, OutputFacts
    <2> QED
      BY <1>1, <2>1, <2>2, <2>3 DEF Passes, Stands
  <1>4. marked \in States /\ marked.inside = st.inside /\ marked.counts = st.counts /\ marked.spoilt
    BY <1>3 DEF States
  <1>5. spoilt = [mw EXCEPT ![depth] = marked] /\ mw = [mw EXCEPT ![depth] = st]
    BY <1>3
  <1>6. lost.failed /\ lost \in Cores
    BY DEF Cores
  <1>7. Ordered("hooks", in, NoAnswer) /\ Kept("hooks", in, NoAnswer)
    BY KeptNothing, KeptOrdered
  <1>8. spoilt[depth] = marked
    BY <1>3, <1>5
  <1> HIDE DEF ms, marked, spoilt, lost, other
  <1>9. CASE st.held = <<>> /\ UNCHANGED <<mw, core, exc, sent>>
    <2>1. Opens(o.start) = Opens(in.start)
      BY <1>3, <1>9
    <2>2. HandsOn
      BY <1>0, <1>1, <1>2, <1>3, <1>7, <1>9, <2>1, HandsOnSame
    <2> QED
      BY <1>0, <1>1, <1>2, <1>9, <2>2, LeavesSilent DEF Goes
  <1>10. CASE st.held # <<>> /\ exc = "none" /\ Answer(mw, depth - 1, ms)
    <2> DEFINE w == DeliverAll(o, ms)
    <2>1. ms \in Seq(Messages) /\ SuitsAll(o, ms) /\ Opens(w.start) = Opens(in.start)
      BY <1>3, <1>10, RebuiltSuits DEF ms
    <2>2. Untorn => FitsAll(o, ms) /\ Kept("hooks", in, w)
      BY <1>3, <1>10, KeptHooks DEF ms
    <2>3. Tells("hooks", st, in, w) /\ (Untorn => Ordered("hooks", in, w))
      BY <2>1, <2>2, KeptOrdered DEF Tells
    <2> HIDE DEF w
    <2>4. CASE SendWith(mw, depth - 1, ms) /\ UNCHANGED <<core, exc>>
      <3>1. ~core'.failed /\ exc = "none" => Kept("hooks", in, w) /\ exc' = exc
        BY <1>3, <2>2, <2>4
      <3>2. SendWith([mw EXCEPT ![depth] = st], depth - 1, ms)
        BY <1>5, <2>4
      <3> HIDE DEF st
      <3> QED
        BY <1>0, <1>1, <1>2, <1>3, <2>1, <2>2, <2>3, <2>4, <3>1, <3>2, LeavesSending
           DEF w, st, Goes
    <2>5. CASE CutShort(mw, depth - 1, ms)
      <3>1. CutShort([mw EXCEPT ![depth] = st], depth - 1, ms)
        BY <1>5, <2>5
      <3> HIDE DEF st
      <3> QED
        BY <1>1, <1>2, <1>3, <2>1, <2>2, <2>3, <3>1, LeavesCutShort DEF w, st
    <2> QED
      BY <1>10, <2>4, <2>5 DEF Answer
  <1>11. ASSUME \/ SendWith(spoilt, depth - 1, other) /\ core' = lost /\ UNCHANGED exc
                \/ CutShort(spoilt, depth - 1, other)
         PROVE  Stands' /\ OneReturns
    <2> DEFINE w == DeliverAll(o, other)
               status == 503
    <2>1. /\ other \in Seq(Messages) /\ FitsAll(o, other) /\ SuitsAll(o, other)
          /\ Opens(w.start) = {status} /\ ~w.disorder /\ ~w.start[1].coded
      <3>1. status \in Nat /\ other = Plain(status, 1)
        BY DEF other
      <3> HIDE DEF status
      <3> QED
        BY <1>3, <3>1, PlainSuits
    <2>2. Tells("hooks", marked, in, w) /\ Ordered("hooks", in, w)
      BY <1>4, <2>1 DEF Tells, Ordered
    <2> HIDE DEF w
    <2>3. CASE SendWith(spoilt, depth - 1, other) /\ core' = lost /\ UNCHANGED exc
      <3>1. core'.failed /\ Goes
        BY <1>6, <2>3 DEF Goes, lost
      <3>2. SendWith([mw EXCEPT ![depth] = marked], depth - 1, other)
        BY <1>5, <2>3
      <3>3. /\ marked.inside = mw[depth].inside /\ marked.counts = mw[depth].counts
            /\ w = DeliverAll(sent[depth], other) /\ SuitsAll(sent[depth], other)
            /\ FitsAll(sent[depth], other)
            /\ Tells(pipe[depth], marked, sent[depth + 1], w)
            /\ Ordered(pipe[depth], sent[depth + 1], w)
        BY <1>1, <1>4, <2>1, <2>2 DEF w, st
      <3> HIDE DEF st, status
      <3> QED
        BY <1>0, <1>1, <1>2, <1>4, <2>1, <3>1, <3>2, <3>3, LeavesSending
    <2>4. CASE CutShort(spoilt, depth - 1, other)
      <3>2. CutShort([mw EXCEPT ![depth] = marked], depth - 1, other)
        BY <1>5, <2>4
      <3>3. /\ marked.inside = mw[depth].inside /\ marked.counts = mw[depth].counts
            /\ w = DeliverAll(sent[depth], other) /\ SuitsAll(sent[depth], other)
            /\ FitsAll(sent[depth], other)
            /\ Tells(pipe[depth], marked, sent[depth + 1], w)
            /\ Ordered(pipe[depth], sent[depth + 1], w)
        BY <1>1, <1>4, <2>1, <2>2 DEF w, st
      <3> HIDE DEF st, status
      <3> QED
        BY <1>1, <1>2, <1>4, <2>1, <3>2, <3>3, LeavesCutShort
    <2> QED
      BY <1>11, <2>3, <2>4
  <1>12. ASSUME mw' = spoilt, UNCHANGED sent,
                \/ core' = lost /\ exc' \in Thrown
                \/ exc # "none" /\ UNCHANGED <<core, exc>>
         PROVE  Stands' /\ OneReturns
    <2>1. mw' = [mw EXCEPT ![depth].spoilt = TRUE]
      BY <1>12 DEF spoilt
    <2>2. Goes
      BY <1>12 DEF Goes, lost
    <2>3. Tells("hooks", mw'[depth], in, o)
      BY <1>3, <1>4, <1>8, <1>12 DEF Tells, Opens
    <2>4. HandsOn
      BY <1>1, <1>3, <1>6, <1>7, <1>12, <2>3 DEF HandsOn
    <2> QED
      BY <1>0, <1>1, <1>2, <1>12, <2>1, <2>2, <2>4, LeavesSilent
  <1> QED
    BY <1>1, <1>9, <1>10, <1>11, <1>12

\* ErrorHandlerMiddleware answers for a call that raised with no answer.
LEMMA LeavesErrors ==
  ASSUME Stands, core \in Cores, LeaveErrors
  PROVE  Stands' /\ OneReturns
  <1> DEFINE st == mw[depth]
             in == sent[depth + 1]
             o == sent[depth]
             status == ErrorStatus
             ms == Plain(status, 1)
  <1>1. /\ phase = "out" /\ depth > 0 /\ pipe[depth] = "errors"
        /\ UNCHANGED <<Given, client, reader, file>>
        /\ IF Answerable(st)
             THEN \/ /\ SendWith(mw, depth - 1, ms) /\ exc' = "none"
                     /\ Return(depth) /\ UNCHANGED core
                  \/ CutShort(mw, depth - 1, ms)
             ELSE Return(depth) /\ UNCHANGED <<mw, core, exc, sent>>
    BY DEF LeaveErrors, Leaving, Send
  <1>2. pipe[depth] \notin Counting /\ pipe[depth] # "gzip" /\ UNCHANGED <<pipe, req>>
    BY <1>1 DEF Counting, Given
  <1>0. Return(depth) /\ Len(pipe) \in Nat
    BY <1>1, StandsFacts DEF CutShort, Return, ToPhase
  <1>3. /\ depth \in 1..Len(pipe) /\ mw \in [1..Len(pipe) -> States]
        /\ st \in States /\ in \in Outputs /\ o \in Outputs
        /\ Opens(o.start) = Opens(in.start) /\ (st.started <=> in.start # <<>>)
        /\ Untorn => in \in Answers /\ o \in Answers /\ o = in
    <2>1. /\ Carries(pipe[depth], st, in, o) /\ st \in States /\ in \in Outputs /\ o \in Outputs
          /\ depth \in 1..Len(pipe) /\ mw \in [1..Len(pipe) -> States]
          /\ Untorn => o \in Answers /\ in \in Answers /\ Passes(pipe[depth], st, in, o)
      BY <1>0, <1>1, <1>2, LeaveStart
    <2> QED
      BY <1>1, <2>1 DEF Passes, Guards, Carries
  <1>4. CASE Answerable(st)
    <2> DEFINE w == DeliverAll(o, ms)
    <2>1. /\ exc # "none" /\ in.start = <<>> /\ o = NoAnswer
      <3>1. exc # "none" /\ in.start = <<>> /\ o.start = <<>>
        BY <1>3, <1>4 DEF Answerable, Opens
      <3> QED
        BY <1>3, <3>1, OutputFacts
    <2>2. status \in Nat /\ {status} \subseteq {422, 500}
      BY DEF ErrorStatus
    <2> HIDE DEF status
    <2>3. /\ ms \in Seq(Messages) /\ FitsAll(o, ms) /\ SuitsAll(o, ms)
          /\ Opens(w.start) = {status} /\ ~w.disorder /\ ~w.start[1].coded
      <3>1. status \in Nat /\ o = NoAnswer
        BY <2>1, <2>2
      <3> HIDE DEF o
      <3> QED
        BY <3>1, PlainSuits
    <2> HIDE DEF ms
    <2>4. /\ st.inside = mw[depth].inside /\ st.counts = mw[depth].counts
          /\ w = DeliverAll(sent[depth], ms) /\ SuitsAll(sent[depth], ms)
          /\ FitsAll(sent[depth], ms)
          /\ Tells(pipe[depth], st, sent[depth + 1], w)
          /\ Ordered(pipe[depth], sent[depth + 1], w)
      BY <1>1, <2>1, <2>2, <2>3 DEF Tells, Ordered
    <2>5. mw = [mw EXCEPT ![depth] = st]
      BY <1>3
    <2> HIDE DEF w
    <2>6. CASE SendWith(mw, depth - 1, ms) /\ exc' = "none" /\ UNCHANGED core
      <3>1. SendWith([mw EXCEPT ![depth] = st], depth - 1, ms)
        BY <2>5, <2>6
      <3>2. Goes
        BY <2>6 DEF Goes
      <3> HIDE DEF st
      <3> QED
        BY <1>0, <1>1, <1>2, <1>3, <2>1, <2>3, <2>4, <3>1, <3>2, LeavesSending
    <2>7. CASE CutShort(mw, depth - 1, ms)
      <3>1. CutShort([mw EXCEPT ![depth] = st], depth - 1, ms)
        BY <2>5, <2>7
      <3> HIDE DEF st
      <3> QED
        BY <1>1, <1>2, <1>3, <2>3, <2>4, <3>1, LeavesCutShort
    <2> QED
      BY <1>1, <1>4, <2>6, <2>7
  <1>5. CASE ~Answerable(st)
    <2>1. AddedLines("errors") = <<>> /\ "errors" \in Kinds
      BY NoneAdded DEF Kinds
    <2>2. Untorn => Kept("errors", in, o)
      BY <1>3, <2>1, KeptSame
    <2> HIDE DEF ms
    <2>3. HandsOn
      BY <1>0, <1>1, <1>2, <1>3, <1>5, <2>2, HandsOnSame
    <2> QED
      BY <1>1, <1>2, <1>5, <2>3, LeavesSilent DEF Goes
  <1> QED
    BY <1>4, <1>5

\* However a call returns.
LEMMA LeaveStep ==
  ASSUME Stands, core \in Cores, Leaves
  PROVE  Stands' /\ OneReturns
  BY LeavesThrough, LeavesGzip, LeavesHooks, LeavesCounting, LeavesErrors DEF Leaves

-----------------------------------------------------------------------------
(* The application                                                          *)

FileOK ==
  /\ file = {} \/ \E n \in Nat : file = {n}
  /\ phase # "done" /\ ~core.moved => file = {req.size}

\* Before it is called, and while it has not sent anything.
Unasked ==
  /\ core.pc = "begin" /\ core.chunks = 0 /\ ~core.head /\ ~core.failed
  /\ core.status = 200 \/ (core.status = 413 /\ ~req.mounted /\ phase = "core")

\* While it answers.
Answering(w) ==
  /\ core.pc \notin {"begin", "sent"} /\ (core.failed <=> core.pc = "tail")
  /\ w.start # <<>> /\ ~w.disorder
  /\ w.start[1].status = core.status /\ core.status \in {200, 413, 500}
  /\ w.start[1].lines = <<>> /\ (w.start[1].coded => req.coded)
  /\ w.ended <=> core.head /\ req.method = "HEAD"
  /\ core.pc = "object" => /\ w.start[1].lens = Lengths(req.size)
                           /\ w.raw = 0 /\ w.size = 0 /\ ~core.head
  /\ core.pc = "tail" => ~core.head
  /\ core.pc = "stream" => /\ w.start[1].lens = <<>> /\ ~core.head
                           /\ w.raw = core.chunks /\ w.size = core.chunks
  /\ core.pc \in {"open", "file"} =>
       /\ req.method # "HEAD" => w.raw = core.chunks /\ w.size = core.chunks
       /\ ~core.moved => w.start[1].lens = <<req.size>> /\ core.chunks <= req.size
  /\ core.pc = "open" => core.chunks = 0 /\ ~core.head

\* When it has returned.
Answered(w) ==
  /\ ~w.disorder
  /\ w.start # <<>> => /\ w.start[1].status \notin {307, 400}
                       /\ w.start[1].coded => req.coded
  /\ core.pc = "sent" /\ ~core.failed =>
       /\ exc = "none"
       /\ w.start # <<>> =>
            /\ w.start[1].status = core.status /\ w.ended
            /\ req.method # "HEAD" =>
                 /\ w.raw = core.chunks
                 /\ ~core.moved => w.start[1].lens \in {<<>>, <<w.size>>}

Asked ==
  /\ req \in Requests /\ core \in Cores /\ exc \in {"none"} \cup Thrown /\ FileOK
  /\ phase \in {"in", "read"} => Unasked
  /\ phase = "read" /\ depth = Inner => ~req.mounted
  /\ phase = "core" => \/ Unasked /\ sent[Inner] = NoAnswer
                       \/ Answering(sent[Inner])

\* The types of a request.
LEMMA RequestFacts ==
  ASSUME NEW r \in Requests
  PROVE  r.size \in Nat /\ r.coded \in BOOLEAN /\ r.chunks \in Nat
  BY RequestsAssumption DEF RequestsAssumption

\* Where the application is called.
LEMMA AtInner ==
  ASSUME Stands, phase = "core", UNCHANGED <<pipe, req>>,
         UNCHANGED <<phase, depth, exc>> \/ Return(Inner)
  PROVE  /\ Len(pipe) \in Nat /\ Inner = Len(pipe) + 1 /\ depth = Inner /\ Edge = Inner
         /\ mw \in [1..Len(pipe) -> States] /\ sent[Inner] \in Answers /\ exc = "none"
         /\ Phases' /\ Edge' = Inner /\ Inner' = Inner /\ phase' \in {"core", "out"}
         /\ phase' = "core" => depth' = Inner /\ exc' = "none"
  <1>1. /\ Len(pipe) \in Nat /\ Inner = Len(pipe) + 1 /\ depth = Inner /\ Edge = Inner
        /\ mw \in [1..Len(pipe) -> States] /\ Inner' = Inner /\ exc = "none"
        /\ sent[Inner] \in Answers
    BY StandsFacts DEF Stands, Linked, Phases, Edge, Inner, Quiet
  <1>2. /\ Phases' /\ Edge' = Inner /\ phase' \in {"core", "out"}
        /\ phase' = "core" => depth' = Inner /\ exc' = "none"
    BY <1>1 DEF Return, ToPhase, Phases, Edge
  <1> QED
    BY <1>1, <1>2

\* What the application sends, it sends from the innermost position.
LEMMA CoreSends ==
  ASSUME Stands, phase = "core", UNCHANGED <<pipe, req>>, core.failed => core'.failed,
         NEW ms \in Seq(Messages), FitsAll(sent[Inner], ms), Send(Len(pipe), ms),
         UNCHANGED <<phase, depth, exc>> \/ Return(Inner)
  PROVE  /\ Stands' /\ Edge' = Inner /\ Inner' = Inner
         /\ sent'[Inner] = DeliverAll(sent[Inner], ms)
  <1>1. /\ Len(pipe) \in Nat /\ Inner = Len(pipe) + 1 /\ depth = Inner /\ Edge = Inner
        /\ mw \in [1..Len(pipe) -> States] /\ Inner' = Inner /\ sent[Inner] \in Answers
        /\ Phases' /\ Edge' = Inner /\ phase' \in {"core", "out"}
        /\ phase' = "core" => depth' = Inner /\ exc' = "none"
    BY AtInner
  <1>2. SuitsAll(sent[Inner], ms)
    BY <1>1, FitsSuits
  <1> DEFINE d == Len(pipe)
  <1>3. SendWith(mw, d, ms) /\ d \in 0..Len(pipe) /\ d < Edge /\ Edge' = d + 1
        /\ FitsAll(sent[d + 1], ms) /\ SuitsAll(sent[d + 1], ms)
    BY <1>1, <1>2 DEF Send
  <1>4. Stands' /\ Passed(mw, d, ms)
    <2> HIDE DEF d
    <2> QED
      BY <1>1, <1>3, StandsSending
  <1> QED
    BY <1>1, <1>4 DEF Passed

\* If it is cut off, the first of it.
LEMMA CoreCuts ==
  ASSUME Stands, phase = "core", UNCHANGED <<pipe, req>>, core'.failed,
         NEW ms \in Seq(Messages), FitsAll(sent[Inner], ms), CutWith(mw, Len(pipe), ms),
         UNCHANGED <<phase, depth, exc>> \/ Return(Inner)
  PROVE  /\ Stands' /\ Edge' = Inner /\ Inner' = Inner
         /\ \E n \in 1..Len(ms) : sent'[Inner] = Delivered(sent[Inner], ms)[n]
  <1>1. /\ Len(pipe) \in Nat /\ Inner = Len(pipe) + 1 /\ depth = Inner /\ Edge = Inner
        /\ mw \in [1..Len(pipe) -> States] /\ Inner' = Inner /\ sent[Inner] \in Answers
        /\ Phases' /\ Edge' = Inner /\ phase' \in {"core", "out"}
        /\ phase' = "core" => depth' = Inner /\ exc' = "none"
    BY AtInner
  <1>2. SuitsAll(sent[Inner], ms)
    BY <1>1, FitsSuits
  <1> DEFINE d == Len(pipe)
  <1>3. CutWith(mw, d, ms) /\ d \in 0..Len(pipe) /\ d < Edge /\ Edge' = d + 1
        /\ FitsAll(sent[d + 1], ms) /\ SuitsAll(sent[d + 1], ms)
    BY <1>1, <1>2
  <1>4. Stands' /\ \E n \in 1..Len(ms) : Passed(mw, d, SubSeq(ms, 1, n))
    <2> HIDE DEF d
    <2> QED
      BY <1>1, <1>3, StandsCut
  <1>5. PICK n \in 1..Len(ms) : Passed(mw, d, SubSeq(ms, 1, n))
    BY <1>4
  <1>6. DeliverAll(sent[Inner], SubSeq(ms, 1, n)) = Delivered(sent[Inner], ms)[n]
    <2>1. n \in 0..Len(ms)
      OBVIOUS
    <2> QED
      BY <2>1, FirstFacts
  <1>7. sent'[Inner] = Delivered(sent[Inner], ms)[n]
    BY <1>1, <1>5, <1>6 DEF Passed
  <1> QED
    BY <1>1, <1>4, <1>7

\* A first message.
LEMMA CoreStarts ==
  ASSUME Stands, phase = "core", UNCHANGED <<pipe, req>>, core.failed => core'.failed,
         sent[Inner] = NoAnswer,
         NEW m \in Starts, Send(Len(pipe), <<m>>), UNCHANGED <<phase, depth, exc>>
  PROVE  /\ Stands' /\ Inner' = Inner /\ phase' = "core"
         /\ sent'[Inner].start = <<m>> /\ sent'[Inner].start # <<>> /\ sent'[Inner].start[1] = m
         /\ sent'[Inner].raw = 0 /\ sent'[Inner].size = 0
         /\ ~sent'[Inner].ended /\ ~sent'[Inner].disorder
  <1>1. NoAnswer \in Answers /\ m.kind = "start" /\ <<m>> # <<>> /\ <<m>>[1] = m
        /\ <<m>> \in Seq(Messages)
    BY MessageFacts, FewMessages DEF Messages
  <1>2. NoAnswer.start = <<>> /\ NoAnswer.raw = 0 /\ NoAnswer.size = 0 /\ ~NoAnswer.ended
    BY DEF NoAnswer
  <1>3. Fits(NoAnswer, m)
    BY <1>1, <1>2 DEF Fits
  <1>4. FitsAll(NoAnswer, <<m>>) /\ DeliverAll(NoAnswer, <<m>>) = Deliver(NoAnswer, m)
    BY <1>3, FewDelivered
  <1> DEFINE w == Deliver(NoAnswer, m)
  <1>5. w.start = <<m>> /\ w.raw = 0 /\ w.size = 0 /\ ~w.ended /\ ~w.disorder
    BY <1>1, <1>2, <1>3, DeliverStart
  <1> HIDE DEF w
  <1>6. Stands' /\ Inner' = Inner /\ sent'[Inner] = w
    BY <1>1, <1>4, CoreSends DEF w
  <1> QED
    BY <1>1, <1>5, <1>6

\* And one of the body.
LEMMA CoreContinues ==
  ASSUME Stands, phase = "core", UNCHANGED <<pipe, req>>, core.failed => core'.failed,
         sent[Inner].start # <<>>, ~sent[Inner].ended, ~sent[Inner].disorder,
         NEW m \in Bodies, Send(Len(pipe), <<m>>),
         UNCHANGED <<phase, depth, exc>> \/ Return(Inner)
  PROVE  /\ Stands' /\ Inner' = Inner /\ Edge' = Inner
         /\ sent'[Inner].start = sent[Inner].start
         /\ sent'[Inner].raw = sent[Inner].raw + m.raw
         /\ sent'[Inner].size = sent[Inner].size + m.size
         /\ (sent'[Inner].ended <=> ~m.more) /\ ~sent'[Inner].disorder
  <1> DEFINE in == sent[Inner]
             w == Deliver(in, m)
  <1>1. in \in Answers
    BY StandsFacts
  <1>2. m.kind = "body" /\ <<m>> \in Seq(Messages)
    BY MessageFacts, FewMessages DEF Messages
  <1>3. Fits(in, m)
    BY <1>2 DEF Fits
  <1>4. FitsAll(in, <<m>>) /\ DeliverAll(in, <<m>>) = w
    BY <1>3, FewDelivered
  <1>5. /\ w.start = in.start /\ w.raw = in.raw + m.raw /\ w.size = in.size + m.size
        /\ (w.ended <=> in.ended \/ ~m.more) /\ (w.disorder <=> in.disorder \/ in.ended)
    BY <1>1, <1>3, DeliverBody
  <1> HIDE DEF w
  <1>6. Stands' /\ Inner' = Inner /\ Edge' = Inner /\ sent'[Inner] = w
    BY <1>2, <1>4, CoreSends
  <1> QED
    BY <1>5, <1>6

\* Both at once.
LEMMA CoreAtOnce ==
  ASSUME Stands, phase = "core", UNCHANGED <<pipe, req>>, core.failed => core'.failed,
         sent[Inner] = NoAnswer,
         NEW m \in Starts, NEW n \in Nat, NEW no \in BOOLEAN, ~no,
         Send(Len(pipe), <<m, BodyMsg(n, n, no)>>), Return(Inner)
  PROVE  /\ Stands' /\ Inner' = Inner /\ Edge' = Inner
         /\ sent'[Inner].start = <<m>> /\ sent'[Inner].start # <<>> /\ sent'[Inner].start[1] = m
         /\ sent'[Inner].raw = n /\ sent'[Inner].size = n
         /\ sent'[Inner].ended /\ ~sent'[Inner].disorder
  <1> DEFINE ms == <<m, BodyMsg(n, n, no)>>
             w == DeliverAll(NoAnswer, ms)
  <1>0. /\ ms \in Seq(Messages) /\ FitsAll(NoAnswer, ms)
        /\ w \in Answers /\ w.start = <<m>> /\ w.raw = n /\ w.size = n
        /\ (w.ended <=> ~no) /\ ~w.disorder
    BY WholeAnswer
  <1>2. <<m>> # <<>> /\ <<m>>[1] = m
    BY MessageFacts
  <1>3. Send(Len(pipe), ms)
    OBVIOUS
  <1> HIDE DEF ms, w
  <1>1. /\ ms \in Seq(Messages) /\ FitsAll(NoAnswer, ms)
        /\ w.start = <<m>> /\ w.raw = n /\ w.size = n /\ w.ended /\ ~w.disorder
    BY <1>0
  <1>4. Stands' /\ Inner' = Inner /\ Edge' = Inner /\ sent'[Inner] = w
    BY <1>1, <1>3, CoreSends DEF w
  <1> QED
    BY <1>1, <1>2, <1>4

\* Or it sends nothing.
LEMMA CoreSilent ==
  ASSUME Stands, phase = "core", UNCHANGED <<pipe, req, mw, sent>>, core.failed => core'.failed,
         UNCHANGED <<phase, depth, exc>> \/ Return(Inner)
  PROVE  Stands' /\ Inner' = Inner /\ Edge' = Inner
  <1>1. /\ Len(pipe) \in Nat /\ Inner = Len(pipe) + 1 /\ depth = Inner /\ Edge = Inner
        /\ Inner' = Inner /\ exc = "none"
        /\ Phases' /\ Edge' = Inner /\ phase' \in {"core", "out"}
        /\ phase' = "core" => depth' = Inner /\ exc' = "none"
    BY AtInner
  <1>2. phase' = "core" => UNCHANGED <<depth, exc>>
    BY <1>1
  <1>3. Stays /\ Edge' <= Edge
    BY <1>1, <1>2 DEF Stays
  <1>4. Stands'
    BY <1>1, <1>2, <1>3, StandsAside
  <1> QED
    BY <1>1, <1>2, <1>4

CoreSays == Answered(sent[Inner])

\* The application goes on, or has returned with its answer.
CoreGoes ==
  /\ phase = "core" /\ UNCHANGED <<pipe, req, view, client, reader>> /\ Stands' /\ Asked'
  /\ \/ phase' = "core" /\ depth' = depth
     \/ phase' = "out" /\ Edge' = Inner /\ CoreSays'

\* It is cut off: what it has answered by then is as in the whole of it.
LEMMA CoreCutShort ==
  ASSUME Stands, Asked, phase = "core",
         UNCHANGED <<pipe, req, view, client, reader, file>>,
         NEW ms \in Seq(Messages), FitsAll(sent[Inner], ms), CutShort(mw, Len(pipe), ms),
         NEW z, z = DeliverAll(sent[Inner], ms), ~z.disorder,
         z.start[1].status \notin {307, 400}, z.start[1].coded => req.coded
  PROVE  CoreGoes
  <1>1. /\ CutWith(mw, Len(pipe), ms) /\ exc' \in Raised /\ Return(Inner)
        /\ core' = [core EXCEPT !.failed = TRUE]
    BY DEF CutShort, Inner
  <1>2. core \in Cores /\ req \in Requests
    BY DEF Asked
  <1>3. core' \in Cores /\ core'.failed /\ core'.moved = core.moved
    <2> DEFINE yes == TRUE
    <2>1. core' = [core EXCEPT !.failed = yes]
      BY <1>1
    <2>0. yes \in BOOLEAN
      OBVIOUS
    <2>4. yes
      OBVIOUS
    <2> HIDE DEF yes
    <2>5. core \in Cores
      BY <1>2
    <2>2. core' \in Cores
      BY <2>0, <2>1, <2>5 DEF Cores
    <2>3. core'.failed = yes /\ core'.moved = core.moved
      BY <1>2, <2>1 DEF Cores
    <2> QED
      BY <2>2, <2>3, <2>4
  <1>4. /\ Stands' /\ Edge' = Inner /\ Inner' = Inner
        /\ \E n \in 1..Len(ms) : sent'[Inner] = Delivered(sent[Inner], ms)[n]
    BY <1>1, <1>3, CoreCuts
  <1>5. PICK n \in 1..Len(ms) : sent'[Inner] = Delivered(sent[Inner], ms)[n]
    BY <1>4
  <1> DEFINE w == sent'[Inner]
  <1>6. (w.disorder => z.disorder) /\ (w.start # <<>> => z.start = w.start)
    <2>1. n \in 0..Len(ms) /\ sent[Inner] \in Answers
      BY StandsFacts
    <2> QED
      BY <1>5, <2>1, DeliveredStays
  <1> HIDE DEF w
  <1>7. /\ ~w.disorder
        /\ w.start # <<>> => /\ w.start[1].status \notin {307, 400}
                             /\ w.start[1].coded => req.coded
    BY <1>6
  <1>8. phase' = "out"
    BY <1>1 DEF Return, ToPhase
  <1>9. CoreSays'
    <2>1. w = (sent[Inner])' /\ req' = req
      BY <1>4 DEF w
    <2> QED
      BY <1>3, <1>7, <2>1 DEF CoreSays, Answered
  <1>10. FileOK'
    BY <1>3, <1>8 DEF Asked, FileOK
  <1>11. Asked'
    BY <1>1, <1>2, <1>3, <1>8, <1>10 DEF Asked, Thrown
  <1> QED
    BY <1>4, <1>8, <1>9, <1>11 DEF CoreGoes

\* It is cut off in its first message,
LEMMA CoreStartCut ==
  ASSUME Stands, Asked, phase = "core",
         UNCHANGED <<pipe, req, view, client, reader, file>>, sent[Inner] = NoAnswer,
         NEW m \in Starts, CutShort(mw, Len(pipe), <<m>>),
         m.status \notin {307, 400}, m.coded => req.coded
  PROVE  CoreGoes
  <1>1. NoAnswer \in Answers /\ m.kind = "start" /\ <<m>>[1] = m /\ <<m>> \in Seq(Messages)
    BY MessageFacts, FewMessages DEF Messages
  <1>2. NoAnswer.start = <<>> /\ ~NoAnswer.ended
    BY DEF NoAnswer
  <1>3. Fits(NoAnswer, m)
    BY <1>1, <1>2 DEF Fits
  <1>4. FitsAll(NoAnswer, <<m>>) /\ DeliverAll(NoAnswer, <<m>>) = Deliver(NoAnswer, m)
    BY <1>3, FewDelivered
  <1> DEFINE z == Deliver(NoAnswer, m)
             ms == <<m>>
  <1>5. z.start = <<m>> /\ ~z.disorder
    <2>1. z.start = <<m>> /\ (z.disorder <=> NoAnswer.start # <<>>)
      BY <1>1, <1>3, DeliverStart, ZenonT(60)
    <2> HIDE DEF z
    <2> QED
      BY <1>2, <2>1
  <1>6. ms \in Seq(Messages) /\ FitsAll(sent[Inner], ms) /\ CutShort(mw, Len(pipe), ms)
        /\ z = DeliverAll(sent[Inner], ms)
    BY <1>1, <1>4
  <1>7. z.start[1].status \notin {307, 400} /\ (z.start[1].coded => req.coded)
    BY <1>1, <1>5
  <1> HIDE DEF z, ms
  <1> QED
    BY <1>5, <1>6, <1>7, CoreCutShort

\* or in one of the body.
LEMMA CoreBodyCut ==
  ASSUME Stands, Asked, phase = "core",
         UNCHANGED <<pipe, req, view, client, reader, file>>,
         sent[Inner].start # <<>>, ~sent[Inner].ended, ~sent[Inner].disorder,
         sent[Inner].start[1].status \notin {307, 400}, sent[Inner].start[1].coded => req.coded,
         NEW m \in Bodies, CutShort(mw, Len(pipe), <<m>>)
  PROVE  CoreGoes
  <1> DEFINE in == sent[Inner]
             z == Deliver(in, m)
             ms == <<m>>
  <1>1. in \in Answers
    BY StandsFacts
  <1>2. m.kind = "body" /\ ms \in Seq(Messages)
    BY MessageFacts, FewMessages DEF Messages
  <1>3. Fits(in, m)
    BY <1>2 DEF Fits
  <1>4. FitsAll(in, ms) /\ DeliverAll(in, ms) = z
    BY <1>3, FewDelivered
  <1>5. z.start = in.start /\ (z.disorder <=> in.disorder \/ in.ended)
    BY <1>1, <1>3, DeliverBody
  <1>6. CutShort(mw, Len(pipe), ms)
    OBVIOUS
  <1> HIDE DEF z, ms
  <1>7. ~z.disorder /\ z.start[1].status \notin {307, 400} /\ (z.start[1].coded => req.coded)
    BY <1>5
  <1> QED
    BY <1>2, <1>4, <1>6, <1>7, CoreCutShort

\* The first message of a Response or JSONResponse,
LEMMA DoesAnswerObject ==
  ASSUME Stands, Asked, AnswerObject
  PROVE  CoreGoes
  <1> DEFINE m == ObjectStart(RouteStatus)
  <1>1. /\ phase = "core" /\ core.pc = "begin" /\ ~req.mounted
        /\ UNCHANGED <<pipe, req, view, client, reader, file>>
        /\ \/ /\ core' = [core EXCEPT !.pc = "object", !.status = RouteStatus]
              /\ Send(Len(pipe), <<m>>) /\ UNCHANGED <<phase, depth, exc>>
           \/ CutShort(mw, Len(pipe), <<m>>)
    BY DEF AnswerObject, AtCore, Given, Says
  <1>2. /\ core \in Cores /\ req \in Requests /\ Unasked /\ sent[Inner] = NoAnswer
        /\ core.status \in {200, 413} /\ ~core.failed /\ ~core.head
    BY <1>1 DEF Asked, Answering, Unasked
  <1>3. req.size \in Nat /\ req.coded \in BOOLEAN
    BY <1>2, RequestFacts
  <1>4. RouteStatus \in {200, 413, 500}
    BY <1>2 DEF RouteStatus
  <1>6. Lengths(req.size) \in Seq(Nat)
    <2>1. <<req.size>> \in Seq(Nat) /\ <<0, req.size>> \in Seq(Nat)
      BY <1>3
    <2> QED
      BY <2>1 DEF Lengths
  <1>7. m \in Starts /\ m.lens = Lengths(req.size) /\ m.status = RouteStatus /\ m.lines = <<>>
        /\ (m.coded => req.coded)
    <2>1. RouteStatus \in Nat /\ (req.coded /\ RouteStatus = 200) \in BOOLEAN
      BY <1>4
    <2> QED
      BY <1>6, <2>1, MessageFacts, ZenonT(60) DEF ObjectStart, StartMsg
  <1> HIDE DEF m
  <1>13. CASE CutShort(mw, Len(pipe), <<m>>)
    BY <1>1, <1>2, <1>4, <1>7, <1>13, CoreStartCut
  <1> SUFFICES ASSUME core' = [core EXCEPT !.pc = "object", !.status = RouteStatus],
                      Send(Len(pipe), <<m>>), UNCHANGED <<phase, depth, exc>>
               PROVE  CoreGoes
    BY <1>1, <1>13
  <1>5. core' \in Cores /\ core'.pc = "object" /\ core'.status = RouteStatus
        /\ core'.chunks = core.chunks
        /\ ~core'.failed /\ ~core'.head /\ (core'.moved <=> core.moved)
    <2> DEFINE s == RouteStatus
    <2>1. s \in Nat /\ core' = [core EXCEPT !.pc = "object", !.status = s] /\ core \in Cores
      BY <1>1, <1>2, <1>4
    <2> HIDE DEF s
    <2>2. core' \in Cores
      BY <2>1 DEF Cores
    <2>3. core'.pc = "object" /\ core'.status = s /\ core'.chunks = core.chunks
      BY <2>1 DEF Cores
    <2>4. core'.failed = core.failed /\ core'.head = core.head /\ core'.moved = core.moved
      BY <2>1 DEF Cores
    <2> QED
      BY <1>2, <2>2, <2>3, <2>4 DEF s
  <1>8. /\ Stands' /\ Inner' = Inner /\ phase' = "core"
        /\ sent'[Inner].start # <<>> /\ sent'[Inner].start[1] = m
        /\ sent'[Inner].raw = 0 /\ sent'[Inner].size = 0
        /\ ~sent'[Inner].ended /\ ~sent'[Inner].disorder
    BY <1>1, <1>2, <1>7, CoreStarts
  <1>9. Lengths(req.size)' = Lengths(req.size)
    BY <1>1, <1>2, <1>5 DEF Lengths, IsJson, RouteStatus, Encodable
  <1>10. Answering(sent[Inner])'
    BY <1>1, <1>4, <1>5, <1>7, <1>8, <1>9 DEF Answering
  <1>11. FileOK'
    BY <1>1, <1>5 DEF Asked, FileOK
  <1>12. Asked'
    BY <1>1, <1>2, <1>5, <1>8, <1>10, <1>11 DEF Asked
  <1> QED
    BY <1>1, <1>8, <1>12 DEF CoreGoes

\* and the second.
LEMMA DoesAnswerObjectBody ==
  ASSUME Stands, Asked, AnswerObjectBody
  PROVE  CoreGoes
  <1> DEFINE n == ObjectSize
             no == FALSE
             m == BodyMsg(n, n, no)
             in == sent[Inner]
             w == sent'[Inner]
  <1>1. /\ phase = "core" /\ core.pc = "object"
        /\ \/ /\ core' = [core EXCEPT !.pc = "sent", !.chunks = n] /\ Send(Len(pipe), <<m>>)
              /\ Return(Inner) /\ UNCHANGED exc
           \/ CutShort(mw, Len(pipe), <<m>>)
        /\ UNCHANGED <<pipe, req, view, client, reader, file>>
    BY DEF AnswerObjectBody, AtCore, Given, SaysLast
  <1>2. core \in Cores /\ req \in Requests /\ Answering(in) /\ exc = "none"
    BY <1>1 DEF Asked, Unasked, Stands, Linked, Quiet
  <1>3. /\ in.start # <<>> /\ ~in.disorder /\ ~in.ended /\ ~core.failed
        /\ in.start[1].status = core.status /\ core.status \in {200, 413, 500}
        /\ (in.start[1].coded => req.coded)
        /\ in.start[1].lens = Lengths(req.size) /\ in.raw = 0 /\ in.size = 0
    BY <1>1, <1>2 DEF Answering
  <1>4. n \in Nat /\ (req.method # "HEAD" => n = req.size /\ Lengths(req.size) = <<n>>)
    BY <1>2, RequestFacts DEF ObjectSize, Lengths
  <1>5. no \in BOOLEAN /\ ~no
    OBVIOUS
  <1> HIDE DEF n, no
  <1>6. m \in Bodies /\ m.raw = n /\ m.size = n /\ ~m.more
    BY <1>4, <1>5, MessageFacts DEF BodyMsg
  <1> HIDE DEF m
  <1>14. CASE CutShort(mw, Len(pipe), <<m>>)
    BY <1>1, <1>3, <1>6, <1>14, CoreBodyCut
  <1> SUFFICES ASSUME core' = [core EXCEPT !.pc = "sent", !.chunks = n],
                      Send(Len(pipe), <<m>>), Return(Inner), UNCHANGED exc
               PROVE  CoreGoes
    BY <1>1, <1>14
  <1>7. core' \in Cores /\ core'.pc = "sent" /\ core'.chunks = n /\ core'.status = core.status
        /\ core'.moved = core.moved
    BY <1>1, <1>2, <1>4 DEF Cores
  <1>8. /\ Stands' /\ Inner' = Inner /\ Edge' = Inner
        /\ w.start = in.start /\ w.raw = in.raw + n /\ w.size = in.size + n
        /\ w.ended /\ ~w.disorder
    BY <1>1, <1>3, <1>6, CoreContinues
  <1>9. phase' = "out"
    BY <1>1 DEF Return, ToPhase
  <1>10. w.raw = n /\ w.size = n
    BY <1>3, <1>4, <1>8
  <1>11. CoreSays'
    BY <1>1, <1>2, <1>3, <1>4, <1>7, <1>8, <1>10 DEF CoreSays, Answered
  <1>12. FileOK'
    BY <1>1, <1>7, <1>9 DEF Asked, FileOK
  <1>13. Asked'
    BY <1>1, <1>2, <1>7, <1>9, <1>12 DEF Asked
  <1> QED
    BY <1>1, <1>8, <1>9, <1>11, <1>13 DEF CoreGoes

\* A mounted application that raises.
LEMMA DoesCoreBreaks ==
  ASSUME Stands, Asked, CoreBreaks
  PROVE  CoreGoes
  <1>1. /\ phase = "core" /\ core.pc = "begin" /\ Return(Inner) /\ exc' \in {"error", "invalid"}
        /\ UNCHANGED <<pipe, req, view, client, reader, file, core, mw, sent>>
    BY DEF CoreBreaks, Raise, AtCore, Given
  <1>2. core \in Cores /\ req \in Requests /\ sent[Inner] = NoAnswer
    BY <1>1 DEF Asked, Answering
  <1>3. Stands' /\ Inner' = Inner /\ Edge' = Inner /\ phase' = "out"
    BY <1>1, CoreSilent DEF Return, ToPhase
  <1>4. CoreSays'
    BY <1>1, <1>2, <1>3 DEF CoreSays, Answered, NoAnswer
  <1>5. FileOK'
    BY <1>1, <1>3 DEF Asked, FileOK
  <1>6. Asked'
    BY <1>1, <1>2, <1>3, <1>5 DEF Asked, Thrown, Raised
  <1> QED
    BY <1>1, <1>3, <1>4, <1>6 DEF CoreGoes

\* The start of a stream,
LEMMA DoesAnswerStream ==
  ASSUME Stands, Asked, AnswerStream
  PROVE  CoreGoes
  <1> DEFINE m == StartMsg(200, <<>>, req.coded)
  <1>1. /\ phase = "core" /\ core.pc = "begin" /\ req.mounted
        /\ \/ /\ core' = [core EXCEPT !.pc = "stream"] /\ Send(Len(pipe), <<m>>)
              /\ UNCHANGED <<phase, depth, exc>>
           \/ CutShort(mw, Len(pipe), <<m>>)
        /\ UNCHANGED <<pipe, req, view, client, reader, file>>
    BY DEF AnswerStream, AtCore, Given, Says
  <1>2. /\ core \in Cores /\ req \in Requests /\ Unasked /\ sent[Inner] = NoAnswer
        /\ core.status = 200 /\ ~core.failed /\ ~core.head /\ core.chunks = 0
    BY <1>1 DEF Asked, Answering, Unasked
  <1>3. req.coded \in BOOLEAN /\ <<>> \in Seq(Nat) /\ 200 \in Nat
    BY <1>2, RequestFacts
  <1>4. m \in Starts /\ m.lens = <<>> /\ m.status = 200 /\ m.lines = <<>>
        /\ (m.coded => req.coded)
    BY <1>3, MessageFacts, ZenonT(60) DEF StartMsg
  <1> HIDE DEF m
  <1>10. CASE CutShort(mw, Len(pipe), <<m>>)
    BY <1>1, <1>2, <1>4, <1>10, CoreStartCut
  <1> SUFFICES ASSUME core' = [core EXCEPT !.pc = "stream"], Send(Len(pipe), <<m>>),
                      UNCHANGED <<phase, depth, exc>>
               PROVE  CoreGoes
    BY <1>1, <1>10
  <1>5. core' \in Cores /\ core'.pc = "stream" /\ core'.chunks = 0 /\ core'.status = 200
        /\ core'.moved = core.moved /\ ~core'.failed /\ ~core'.head
    BY <1>1, <1>2 DEF Cores
  <1>6. /\ Stands' /\ Inner' = Inner /\ phase' = "core"
        /\ sent'[Inner].start # <<>> /\ sent'[Inner].start[1] = m
        /\ sent'[Inner].raw = 0 /\ sent'[Inner].size = 0
        /\ ~sent'[Inner].ended /\ ~sent'[Inner].disorder
    BY <1>1, <1>2, <1>4, CoreStarts
  <1>7. Answering(sent[Inner])'
    BY <1>1, <1>4, <1>5, <1>6 DEF Answering
  <1>8. FileOK'
    BY <1>1, <1>5 DEF Asked, FileOK
  <1>9. Asked'
    BY <1>1, <1>2, <1>5, <1>6, <1>7, <1>8 DEF Asked
  <1> QED
    BY <1>1, <1>6, <1>9 DEF CoreGoes

\* its chunks,
LEMMA DoesStreamChunk ==
  ASSUME Stands, Asked, StreamChunk
  PROVE  CoreGoes
  <1> DEFINE yes == TRUE
             m == BodyMsg(1, 1, yes)
             ms == <<m>>
             in == sent[Inner]
             w == sent'[Inner]
  <1>1. /\ phase = "core" /\ core.pc = "stream"
        /\ \/ Send(Len(pipe), ms) /\ core' = [core EXCEPT !.chunks = @ + 1]
           \/ /\ CutWith(mw, Len(pipe), ms)
              /\ core' = [core EXCEPT !.chunks = @ + 1, !.pc = "tail", !.failed = yes]
        /\ UNCHANGED <<pipe, req, view, phase, depth, client, reader, file, exc>>
    BY DEF StreamChunk, AtCore, Given
  <1>2. core \in Cores /\ req \in Requests /\ Answering(in) /\ core.chunks \in Nat
    BY <1>1 DEF Asked, Unasked, Cores
  <1>3. /\ in.start # <<>> /\ ~in.disorder /\ ~in.ended /\ ~core.head /\ ~core.failed
        /\ in.start[1].status = core.status /\ core.status \in {200, 413, 500}
        /\ (in.start[1].coded => req.coded) /\ in.start[1].lines = <<>>
        /\ in.start[1].lens = <<>> /\ in.raw = core.chunks /\ in.size = core.chunks
    BY <1>1, <1>2 DEF Answering
  <1>4. yes \in BOOLEAN
    OBVIOUS
  <1>11. yes
    OBVIOUS
  <1> HIDE DEF yes
  <1>5. m \in Bodies /\ m.raw = 1 /\ m.size = 1 /\ m.more
    BY <1>4, <1>11, MessageFacts DEF BodyMsg
  <1> HIDE DEF m
  <1>12. CASE /\ CutWith(mw, Len(pipe), ms)
              /\ core' = [core EXCEPT !.chunks = @ + 1, !.pc = "tail", !.failed = yes]
    <2> DEFINE z == Deliver(in, m)
    <2>1. in \in Answers /\ m.kind = "body" /\ ms \in Seq(Messages) /\ Len(ms) = 1 /\ 1 \in 0..Len(ms)
      BY <1>5, StandsFacts, MessageFacts, FewMessages DEF Messages
    <2>2. Fits(in, m)
      BY <1>3, <2>1 DEF Fits
    <2>3. FitsAll(in, ms) /\ DeliverAll(in, ms) = z
      BY <2>2, FewDelivered
    <2>4. z.start = in.start /\ (z.disorder <=> in.disorder \/ in.ended)
          /\ z.raw = in.raw + m.raw /\ z.size = in.size + m.size /\ (z.ended <=> in.ended \/ ~m.more)
      BY <1>5, <2>1, <2>2, DeliverBody
    <2> HIDE DEF z, ms
    <2>5. core' \in Cores
      <3> DEFINE c == core.chunks + 1
      <3>1. core \in Cores /\ c \in Nat
        BY <1>2
      <3>2. core' = [core EXCEPT !.chunks = c, !.pc = "tail", !.failed = yes]
        BY <1>12
      <3> HIDE DEF c
      <3> QED
        BY <1>4, <3>1, <3>2 DEF Cores
    <2>6. /\ core'.pc = "tail" /\ core'.status = core.status /\ core'.moved = core.moved
          /\ core'.head = core.head
      BY <1>2, <1>12 DEF Cores
    <2>7. core'.failed = yes
      BY <1>2, <1>12 DEF Cores
    <2>8. core'.failed
      BY <1>11, <2>7
    <2>9. /\ Stands' /\ Edge' = Inner /\ Inner' = Inner
          /\ \E n \in 1..Len(ms) : w = Delivered(in, ms)[n]
      BY <1>1, <1>12, <2>1, <2>3, <2>8, CoreCuts
    <2>10. w = z
      <3>1. \A n \in 1..Len(ms) : n = Len(ms)
        BY <2>1
      <3> QED
        BY <2>3, <2>9, <3>1 DEF DeliverAll
    <2>11. Answering(sent[Inner])'
      <3>1. w = (sent[Inner])' /\ req' = req /\ phase' = phase
        BY <1>1, <2>9
      <3>2. ~z.disorder /\ z.start = in.start /\ ~z.ended
        BY <1>3, <1>5, <2>4
      <3> HIDE DEF w, in
      <3> QED
        BY <1>3, <2>6, <2>8, <2>10, <3>1, <3>2 DEF Answering
    <2>12. FileOK'
      BY <1>1, <2>6 DEF Asked, FileOK
    <2>13. Asked'
      BY <1>1, <1>2, <2>5, <2>11, <2>12 DEF Asked
    <2> QED
      BY <1>1, <2>9, <2>13 DEF CoreGoes
  <1> SUFFICES ASSUME Send(Len(pipe), ms), core' = [core EXCEPT !.chunks = @ + 1]
               PROVE  CoreGoes
    BY <1>1, <1>12
  <1>6. core' \in Cores /\ core'.pc = "stream" /\ core'.chunks = core.chunks + 1
        /\ core'.status = core.status
        /\ core'.moved = core.moved /\ ~core'.failed /\ ~core'.head
    BY <1>1, <1>2, <1>3 DEF Cores
  <1>7. /\ Stands' /\ Inner' = Inner
        /\ w.start = in.start /\ w.raw = in.raw + 1 /\ w.size = in.size + 1
        /\ ~w.ended /\ ~w.disorder
    BY <1>1, <1>3, <1>5, CoreContinues
  <1>8. Answering(sent[Inner])'
    BY <1>1, <1>3, <1>6, <1>7 DEF Answering
  <1>9. FileOK'
    BY <1>1, <1>6 DEF Asked, FileOK
  <1>10. Asked'
    BY <1>1, <1>2, <1>6, <1>7, <1>8, <1>9 DEF Asked
  <1> QED
    BY <1>1, <1>7, <1>10 DEF CoreGoes

\* It raises and sends nothing more.
LEMMA CoreGivesUp ==
  ASSUME Stands, Asked, phase = "core", Return(Inner), exc' \in Raised,
         UNCHANGED <<pipe, req, view, client, reader, file, mw, sent>>,
         core' \in Cores, core'.failed, core'.moved = core.moved
  PROVE  CoreGoes
  <1>1. phase' = "out"
    BY DEF Return, ToPhase
  <1>2. Stands' /\ Inner' = Inner /\ Edge' = Inner /\ (sent[Inner])' = sent[Inner]
    BY CoreSilent
  <1>3. CoreSays'
    <2>1. /\ ~sent[Inner].disorder
          /\ sent[Inner].start # <<>> => /\ sent[Inner].start[1].status \notin {307, 400}
                                         /\ sent[Inner].start[1].coded => req.coded
      BY DEF Asked, Answering, NoAnswer
    <2> QED
      BY <1>2, <2>1 DEF CoreSays, Answered
  <1>4. FileOK'
    BY <1>1 DEF Asked, FileOK
  <1>5. Asked'
    BY <1>1, <1>4 DEF Asked, Thrown
  <1> QED
    BY <1>1, <1>2, <1>3, <1>5 DEF CoreGoes

\* and its end, however it comes to it.
LEMMA DoesStreamEnds ==
  ASSUME Stands, Asked, StreamEnds
  PROVE  CoreGoes
  <1> SUFFICES ASSUME NEW e \in {"none"} \cup Raised, EndStream(e), phase = "core",
                      core.pc = "stream" \/ (core.pc = "tail" /\ e # "none")
               PROVE  CoreGoes
    BY Zenon DEF StreamEnds, AtCore, Raised
  <1> DEFINE no == FALSE
             yes == TRUE
             f == (e # "none")
             m == BodyMsg(0, 0, no)
             in == sent[Inner]
             w == sent'[Inner]
  <1>1. /\ \/ /\ Send(Len(pipe), <<m>>) /\ exc' = e /\ Return(Inner)
              /\ core' = [core EXCEPT !.pc = "sent", !.failed = f]
           \/ CutShort(mw, Len(pipe), <<m>>)
           \/ /\ exc' = "error" /\ Return(Inner) /\ UNCHANGED <<mw, sent>>
              /\ core' = [[core EXCEPT !.pc = "sent", !.failed = f] EXCEPT !.failed = yes]
        /\ UNCHANGED <<pipe, req, view, client, reader, file>>
    BY DEF EndStream, Given, Raise
  <1>2. core \in Cores /\ req \in Requests /\ Answering(in) /\ core.chunks \in Nat
    BY DEF Asked, Unasked, Cores
  <1>3. /\ in.start # <<>> /\ ~in.disorder /\ ~in.ended
        /\ in.start[1].status = core.status /\ core.status \in {200, 413, 500}
        /\ (in.start[1].coded => req.coded)
        /\ core.failed => e # "none"
        /\ core.pc = "stream" => /\ in.start[1].lens = <<>>
                                 /\ in.raw = core.chunks /\ in.size = core.chunks
    BY <1>2 DEF Answering
  <1>4. no \in BOOLEAN /\ ~no /\ f \in BOOLEAN /\ (f <=> e # "none")
    OBVIOUS
  <1>13. yes \in BOOLEAN
    OBVIOUS
  <1>14. yes
    OBVIOUS
  <1> HIDE DEF no, f, yes
  <1>5. m \in Bodies /\ m.raw = 0 /\ m.size = 0 /\ ~m.more
    BY <1>4, MessageFacts DEF BodyMsg
  <1> HIDE DEF m
  <1>15. CASE CutShort(mw, Len(pipe), <<m>>)
    BY <1>1, <1>3, <1>5, <1>15, CoreBodyCut
  <1>16. CASE /\ exc' = "error" /\ Return(Inner) /\ UNCHANGED <<mw, sent>>
              /\ core' = [[core EXCEPT !.pc = "sent", !.failed = f] EXCEPT !.failed = yes]
    <2>1. f \in BOOLEAN
      BY <1>4
    <2>2. core' \in Cores
      BY <1>2, <1>13, <1>16, <2>1 DEF Cores
    <2>3. core'.failed = yes /\ core'.moved = core.moved
      BY <1>2, <1>16, <2>1 DEF Cores
    <2>4. core'.failed
      BY <1>14, <2>3
    <2> QED
      BY <1>1, <1>16, <2>2, <2>3, <2>4, CoreGivesUp DEF Raised
  <1> SUFFICES ASSUME Send(Len(pipe), <<m>>), exc' = e, Return(Inner),
                      core' = [core EXCEPT !.pc = "sent", !.failed = f]
               PROVE  CoreGoes
    BY <1>1, <1>15, <1>16
  <1>6. core' \in Cores /\ core'.pc = "sent" /\ core'.chunks = core.chunks
        /\ core'.status = core.status /\ core'.moved = core.moved /\ core'.failed = f
    BY <1>1, <1>2, <1>4 DEF Cores
  <1>17. core.failed => core'.failed
    BY <1>3, <1>4, <1>6
  <1>7. /\ Stands' /\ Inner' = Inner /\ Edge' = Inner
        /\ w.start = in.start /\ w.raw = in.raw + 0 /\ w.size = in.size + 0
        /\ w.ended /\ ~w.disorder
    BY <1>1, <1>3, <1>5, <1>17, CoreContinues
  <1>8. phase' = "out"
    BY <1>1 DEF Return, ToPhase
  <1>9. e = "none" => w.raw = core.chunks
    BY <1>2, <1>3, <1>7
  <1>10. CoreSays'
    BY <1>1, <1>3, <1>4, <1>6, <1>7, <1>9 DEF CoreSays, Answered
  <1>11. FileOK'
    BY <1>1, <1>6, <1>8 DEF Asked, FileOK
  <1>12. Asked'
    BY <1>1, <1>2, <1>6, <1>8, <1>11 DEF Asked, Thrown
  <1> QED
    BY <1>1, <1>7, <1>8, <1>10, <1>12 DEF CoreGoes

\* A whole answer of StaticFiles, with the body emptied for HEAD.
Shown(status, lens, n) == <<StartMsg(status, lens, FALSE)>> \o HeadSend(BodyMsg(n, n, FALSE))

Shows(status, lens, n) ==
  \E m \in Starts, k \in Nat, no \in BOOLEAN :
    /\ m.status = status /\ m.lens = lens /\ ~m.coded /\ ~no
    /\ k = IF req.method = "HEAD" THEN 0 ELSE n
    /\ Shown(status, lens, n) = <<m, BodyMsg(k, k, no)>>

\* What StaticFiles sends for a request that is not HEAD, and for HEAD.
LEMMA HeadSends ==
  ASSUME NEW status \in Nat, NEW lens \in Seq(Nat), NEW n \in Nat, ~core.head
  PROVE  Shows(status, lens, n)
  <1> DEFINE no == FALSE
             m == StartMsg(status, lens, no)
             k == IF req.method = "HEAD" THEN 0 ELSE n
             b == BodyMsg(n, n, no)
             c == BodyMsg(k, k, no)
  <1>1. no \in BOOLEAN /\ ~no
    OBVIOUS
  <1> HIDE DEF no
  <1>2. m \in Starts /\ m.status = status /\ m.lens = lens /\ ~m.coded /\ m.kind = "start"
    BY <1>1, MessageFacts DEF StartMsg
  <1>3. k \in Nat /\ b \in Bodies /\ c \in Bodies /\ b.kind = "body"
    BY <1>1, MessageFacts
  <1>5. HeadSend(b) = <<c>>
    BY <1>3 DEF HeadSend, no
  <1>6. <<m>> \o <<c>> = <<m, c>>
    BY <1>2, <1>3, InARow DEF Messages
  <1> HIDE DEF m, b, c, k
  <1>7. <<m>> \o HeadSend(b) = <<m, c>>
    BY <1>5, <1>6
  <1> QED
    BY <1>1, <1>2, <1>3, <1>7 DEF m, b, c, k, no, Shown, Shows

\* It is cut off in an answer of two messages.
LEMMA CoreWholeCut ==
  ASSUME Stands, Asked, phase = "core",
         UNCHANGED <<pipe, req, view, client, reader, file>>, sent[Inner] = NoAnswer,
         NEW m \in Starts, NEW n \in Nat, NEW no \in BOOLEAN,
         CutShort(mw, Len(pipe), <<m, BodyMsg(n, n, no)>>),
         m.status \notin {307, 400}, m.coded => req.coded
  PROVE  CoreGoes
  <1> DEFINE ms == <<m, BodyMsg(n, n, no)>>
             z == DeliverAll(NoAnswer, ms)
  <1>1. /\ ms \in Seq(Messages) /\ FitsAll(NoAnswer, ms)
        /\ z \in Answers /\ z.start = <<m>> /\ z.raw = n /\ z.size = n
        /\ (z.ended <=> ~no) /\ ~z.disorder
    BY WholeAnswer
  <1>2. CutShort(mw, Len(pipe), ms) /\ <<m>>[1] = m
    OBVIOUS
  <1> HIDE DEF ms, z
  <1>3. FitsAll(sent[Inner], ms) /\ z = DeliverAll(sent[Inner], ms)
    BY <1>1 DEF z
  <1>4. z.start[1].status \notin {307, 400} /\ (z.start[1].coded => req.coded) /\ ~z.disorder
    BY <1>1, <1>2
  <1> QED
    BY <1>1, <1>2, <1>3, <1>4, CoreCutShort

\* It was cut off in an answer,
LEMMA ServesSome ==
  ASSUME Stands, Asked, AtCore("begin"),
         UNCHANGED <<pipe, req, view, client, reader, file>>,
         NEW status \in {304, 404}, NEW lens \in Seq(Nat), NEW n \in Nat,
         CutShort(mw, Len(pipe), Shown(status, lens, n))
  PROVE  CoreGoes
  <1>1. phase = "core"
    BY DEF AtCore
  <1>2. /\ core \in Cores /\ req \in Requests /\ sent[Inner] = NoAnswer /\ ~core.head
        /\ ~core.failed
    BY <1>1 DEF Asked, Answering, Unasked, AtCore
  <1>3. PICK m \in Starts, k \in Nat, no \in BOOLEAN :
           /\ m.status = status /\ m.lens = lens /\ ~m.coded /\ ~no
           /\ k = IF req.method = "HEAD" THEN 0 ELSE n
           /\ Shown(status, lens, n) = <<m, BodyMsg(k, k, no)>>
    <2>1. status \in Nat
      OBVIOUS
    <2> QED
      <3>1. Shows(status, lens, n)
        BY <1>2, <2>1, HeadSends
      <3> QED
        BY <3>1 DEF Shows
  <1>4. CutShort(mw, Len(pipe), <<m, BodyMsg(k, k, no)>>)
    BY <1>3
  <1>5. m.status \notin {307, 400} /\ (m.coded => req.coded)
    BY <1>3
  <1> QED
    BY <1>1, <1>2, <1>3, <1>4, <1>5, CoreWholeCut

\* or has sent all of it and returned.
LEMMA ServesWhole ==
  ASSUME Stands, Asked, AtCore("begin"), req.app = "static", Return(Inner),
         UNCHANGED <<pipe, req, view, client, reader, file, exc>>,
         NEW status \in {304, 404}, NEW lens \in Seq(Nat), NEW n \in Nat,
         lens = <<>> \/ lens = <<n>>,
         Send(Len(pipe), Shown(status, lens, n)),
         core'.pc = "sent", core'.status = status, core'.moved = core.moved, core' \in Cores,
         core'.failed = core.failed, req.method # "HEAD" => core'.chunks = n
  PROVE  CoreGoes
  <1>1. phase = "core"
    BY DEF AtCore
  <1>2. /\ core \in Cores /\ req \in Requests /\ sent[Inner] = NoAnswer /\ ~core.head
        /\ ~core.failed
    BY <1>1 DEF Asked, Answering, Unasked, AtCore
  <1>3. PICK m \in Starts, k \in Nat, no \in BOOLEAN :
           /\ m.status = status /\ m.lens = lens /\ ~m.coded /\ ~no
           /\ k = IF req.method = "HEAD" THEN 0 ELSE n
           /\ Shown(status, lens, n) = <<m, BodyMsg(k, k, no)>>
    <2>1. status \in Nat
      OBVIOUS
    <2> QED
      <3>1. Shows(status, lens, n)
        BY <1>2, <2>1, HeadSends
      <3> QED
        BY <3>1 DEF Shows
  <1>4. Send(Len(pipe), <<m, BodyMsg(k, k, no)>>) /\ phase' = "out"
    BY <1>3 DEF Return, ToPhase
  <1>5. /\ Stands' /\ Inner' = Inner /\ Edge' = Inner
        /\ sent'[Inner].start # <<>> /\ sent'[Inner].start[1] = m
        /\ sent'[Inner].raw = k /\ sent'[Inner].size = k
        /\ sent'[Inner].ended /\ ~sent'[Inner].disorder
    BY <1>1, <1>2, <1>3, <1>4, CoreAtOnce
  <1>6. exc' = "none"
    BY <1>1 DEF Stands, Linked, Quiet
  <1>7. req.method # "HEAD" => k = n
    BY <1>3
  <1>8. CoreSays'
    BY <1>3, <1>5, <1>6, <1>7 DEF CoreSays, Answered
  <1>9. FileOK'
    BY <1>1, <1>4 DEF Asked, FileOK
  <1>10. Asked'
    BY <1>1, <1>2, <1>4, <1>6, <1>9 DEF Asked
  <1> QED
    BY <1>1, <1>4, <1>5, <1>8, <1>10 DEF CoreGoes

\* It has returned or raised, with none.
LEMMA ServesNothing ==
  ASSUME Stands, Asked, AtCore("begin"), Return(Inner),
         UNCHANGED <<pipe, req, view, client, reader, file, mw, sent>>,
         \/ core' = [core EXCEPT !.pc = "sent"] /\ UNCHANGED exc
         \/ UNCHANGED core /\ exc' = "error"
  PROVE  CoreGoes
  <1>1. phase = "core" /\ phase' = "out" /\ core.pc = "begin"
    BY DEF AtCore, Return, ToPhase
  <1>2. /\ core \in Cores /\ req \in Requests /\ sent[Inner] = NoAnswer /\ exc = "none"
        /\ ~core.failed
    BY <1>1 DEF Asked, Answering, Unasked, Stands, Linked, Quiet
  <1>3. Stands' /\ Inner' = Inner /\ Edge' = Inner
    BY <1>1, <1>2, CoreSilent
  <1>4. core' \in Cores /\ (core'.pc = "sent" => exc' = "none") /\ core'.moved = core.moved
        /\ exc' \in {"none", "error"}
    BY <1>1, <1>2 DEF Cores
  <1>5. CoreSays'
    BY <1>2, <1>3, <1>4 DEF CoreSays, Answered, NoAnswer
  <1>6. FileOK'
    BY <1>1, <1>4 DEF Asked, FileOK
  <1>7. Asked'
    BY <1>1, <1>2, <1>3, <1>4, <1>6 DEF Asked, Thrown, Raised
  <1> QED
    BY <1>1, <1>3, <1>5, <1>7 DEF CoreGoes

\* The size that is read from the file.
LEMMA FileFacts ==
  ASSUME Asked, phase = "core"
  PROVE  /\ Readable \in Nat
         /\ file # {} => FileSize \in Nat
         /\ ~core.moved => file # {} /\ FileSize = req.size /\ Readable = req.size
  <1>1. req.size \in Nat
    BY RequestFacts DEF Asked
  <1>2. file # {} => \E n \in Nat : file = {n}
    BY DEF Asked, FileOK
  <1>3. \A n : file = {n} => FileSize = n
    BY DEF FileSize
  <1>4. ~core.moved => file = {req.size}
    BY DEF Asked, FileOK
  <1> QED
    BY <1>1, <1>2, <1>3, <1>4 DEF Readable, Gone

\* The start of the file's answer.
LEMMA ServesStart ==
  ASSUME Stands, Asked, AtCore("begin"), req.mounted, ~Gone,
         Says(<<StartMsg(200, <<FileSize>>, FALSE)>>, [core EXCEPT !.pc = "open"]),
         UNCHANGED <<pipe, req, view, client, reader, file>>
  PROVE  CoreGoes
  <1> DEFINE n == FileSize
             no == FALSE
             lens == <<n>>
             m == StartMsg(200, lens, no)
  <1>1. phase = "core" /\ core.pc = "begin"
    BY DEF AtCore
  <1>2. /\ core \in Cores /\ req \in Requests /\ sent[Inner] = NoAnswer /\ ~core.head /\ ~core.failed
        /\ core.status = 200 /\ core.chunks = 0
    BY <1>1 DEF Asked, Answering, Unasked
  <1>3. n \in Nat /\ req.size \in Nat /\ (~core.moved => n = req.size) /\ no \in BOOLEAN /\ ~no
    BY <1>1, <1>2, FileFacts, RequestFacts DEF Gone
  <1>4. \/ /\ Send(Len(pipe), <<m>>) /\ core' = [core EXCEPT !.pc = "open"]
           /\ UNCHANGED <<phase, depth, exc>>
        \/ CutShort(mw, Len(pipe), <<m>>)
    BY DEF Says
  <1> HIDE DEF n, no
  <1>5. lens \in Seq(Nat) /\ 200 \in Nat
    BY <1>3
  <1>6. m \in Starts /\ m.lens = <<n>> /\ m.status = 200 /\ m.lines = <<>> /\ ~m.coded
        /\ m.kind = "start"
    BY <1>3, <1>5, MessageFacts, ZenonT(60) DEF StartMsg
  <1> HIDE DEF m
  <1>7. CASE CutShort(mw, Len(pipe), <<m>>)
    BY <1>1, <1>2, <1>6, <1>7, CoreStartCut
  <1> SUFFICES ASSUME Send(Len(pipe), <<m>>), core' = [core EXCEPT !.pc = "open"],
                      UNCHANGED <<phase, depth, exc>>
               PROVE  CoreGoes
    BY <1>4, <1>7
  <1>9. core' \in Cores /\ core'.pc = "open" /\ core'.chunks = 0 /\ core'.status = 200
        /\ core'.moved = core.moved /\ ~core'.failed /\ ~core'.head
    BY <1>2 DEF Cores
  <1>8. /\ Stands' /\ Inner' = Inner /\ phase' = "core"
        /\ sent'[Inner].start # <<>> /\ sent'[Inner].start[1] = m
        /\ sent'[Inner].raw = 0 /\ sent'[Inner].size = 0
        /\ ~sent'[Inner].ended /\ ~sent'[Inner].disorder
    BY <1>1, <1>2, <1>6, CoreStarts
  <1>10. Answering(sent[Inner])'
    BY <1>1, <1>3, <1>6, <1>8, <1>9 DEF Answering
  <1>11. FileOK'
    BY <1>1, <1>9 DEF Asked, FileOK
  <1>12. Asked'
    BY <1>1, <1>2, <1>8, <1>9, <1>10, <1>11 DEF Asked
  <1> QED
    BY <1>1, <1>8, <1>12 DEF CoreGoes

\* StaticFiles: not modified, found, or not found.
LEMMA DoesServeStatic ==
  ASSUME Stands, Asked, ServeStatic
  PROVE  CoreGoes
  <1>1. AtCore("begin") /\ req.mounted /\ req.app = "static"
        /\ UNCHANGED <<pipe, req, view, client, reader, file>>
    BY DEF ServeStatic, Given
  <1>2. core \in Cores /\ core.chunks = 0
    BY <1>1 DEF Asked, AtCore, Unasked, Answering
  <1>3. CASE SaysLast(NotModified, [core EXCEPT !.pc = "sent", !.status = 304])
    <2> DEFINE lens == <<>>
               n == 0
               status == 304
    <2>6. status \in {304, 404}
      OBVIOUS
    <2>0. status \in Nat
      OBVIOUS
    <2>2. lens \in Seq(Nat) /\ n \in Nat /\ n = 0
      OBVIOUS
    <2>3. \/ Send(Len(pipe), Shown(status, lens, n)) /\ Return(Inner) /\ UNCHANGED exc
             /\ core' = [core EXCEPT !.pc = "sent", !.status = status]
          \/ CutShort(mw, Len(pipe), Shown(status, lens, n))
      BY <1>3 DEF NotModified, Shown, SaysLast
    <2>4. lens = <<>>
      OBVIOUS
    <2> HIDE DEF lens, n, status
    <2>7. CASE CutShort(mw, Len(pipe), Shown(status, lens, n))
      BY <1>1, <2>2, <2>6, <2>7, ServesSome
    <2>8. CASE Send(Len(pipe), Shown(status, lens, n)) /\ Return(Inner) /\ UNCHANGED exc
               /\ core' = [core EXCEPT !.pc = "sent", !.status = status]
      <3>1. core' \in Cores
        BY <1>2, <2>0, <2>8 DEF Cores
      <3>2. core'.pc = "sent" /\ core'.status = status /\ core'.moved = core.moved
            /\ core'.chunks = n /\ core'.failed = core.failed
        BY <1>2, <2>2, <2>8 DEF Cores
      <3> QED
        BY <1>1, <2>2, <2>4, <2>6, <2>8, <3>1, <3>2, ServesWhole, ZenonT(60)
    <2> QED
      BY <2>3, <2>7, <2>8
  <1>4. CASE ~Gone /\ Says(<<StartMsg(200, <<FileSize>>, FALSE)>>, [core EXCEPT !.pc = "open"])
    BY <1>1, <1>4, ServesStart
  <1>5. CASE SaysLast(<<StartMsg(404, <<1>>, FALSE)>> \o HeadSend(BodyMsg(1, 1, FALSE)),
                      [core EXCEPT !.pc = "sent", !.status = 404,
                                   !.chunks = IF req.method = "HEAD" THEN 0 ELSE 1])
    <2> DEFINE n == 1
               lens == <<n>>
               status == 404
               c == IF req.method = "HEAD" THEN 0 ELSE 1
    <2>6. status \in {304, 404}
      OBVIOUS
    <2>0. status \in Nat
      OBVIOUS
    <2>1. c \in Nat /\ (req.method # "HEAD" => c = n)
      OBVIOUS
    <2>2. lens \in Seq(Nat) /\ n \in Nat
      OBVIOUS
    <2>7. lens = <<>> \/ lens = <<n>>
      OBVIOUS
    <2>3. \/ Send(Len(pipe), Shown(status, lens, n)) /\ Return(Inner) /\ UNCHANGED exc
             /\ core' = [core EXCEPT !.pc = "sent", !.status = status, !.chunks = c]
          \/ CutShort(mw, Len(pipe), Shown(status, lens, n))
      BY <1>5 DEF Shown, SaysLast
    <2> HIDE DEF lens, n, status, c
    <2>9. CASE CutShort(mw, Len(pipe), Shown(status, lens, n))
      BY <1>1, <2>2, <2>6, <2>9, ServesSome
    <2>10. CASE Send(Len(pipe), Shown(status, lens, n)) /\ Return(Inner) /\ UNCHANGED exc
                /\ core' = [core EXCEPT !.pc = "sent", !.status = status, !.chunks = c]
      <3>1. core' \in Cores
        BY <1>2, <2>0, <2>1, <2>10 DEF Cores
      <3>2. core'.pc = "sent" /\ core'.status = status /\ core'.moved = core.moved
            /\ core'.chunks = c /\ core'.failed = core.failed
        BY <1>2, <2>0, <2>10 DEF Cores
      <3>3. req.method # "HEAD" => core'.chunks = n
        BY <2>1, <3>2
      <3> QED
        BY <1>1, <2>2, <2>6, <2>7, <2>10, <3>1, <3>2, <3>3, ServesWhole, ZenonT(60)
    <2> QED
      BY <2>3, <2>9, <2>10
  <1>6. CASE core' = [core EXCEPT !.pc = "sent"] /\ Return(Inner) /\ UNCHANGED <<exc, mw, sent>>
    BY <1>1, <1>6, ServesNothing
  <1>7. CASE Raise("error") /\ UNCHANGED core
    <2>1. Return(Inner) /\ UNCHANGED <<mw, sent, core>> /\ exc' = "error"
      BY <1>7 DEF Raise
    <2> QED
      BY <1>1, <2>1, ServesNothing
  <1> QED
    BY <1>3, <1>4, <1>5, <1>6, <1>7 DEF ServeStatic

\* FileResponse opens the file, if it is still there.
LEMMA DoesOpenFile ==
  ASSUME Stands, Asked, OpenFile
  PROVE  CoreGoes
  <1> DEFINE yes == TRUE
  <1>1. /\ phase = "core" /\ core.pc = "open" /\ UNCHANGED <<pipe, req, view, client, reader, file>>
        /\ UNCHANGED <<mw, sent>>
        /\ \/ Return(Inner) /\ exc' = "error" /\ core' = [core EXCEPT !.pc = "sent", !.failed = yes]
           \/ UNCHANGED <<phase, depth, exc>> /\ core' = [core EXCEPT !.pc = "file"]
    BY DEF OpenFile, Raise, AtCore, Given
  <1>2. core \in Cores /\ req \in Requests /\ Answering(sent[Inner]) /\ exc = "none"
        /\ ~core.failed
    BY <1>1 DEF Asked, Unasked, Answering, Stands, Linked, Quiet
  <1>6. yes \in BOOLEAN
    OBVIOUS
  <1>7. yes
    OBVIOUS
  <1> HIDE DEF yes
  <1>4. CASE Return(Inner) /\ exc' = "error" /\ core' = [core EXCEPT !.pc = "sent", !.failed = yes]
    <2>1. core' \in Cores
      BY <1>2, <1>4, <1>6 DEF Cores
    <2>2. core'.failed = yes /\ core'.moved = core.moved
      BY <1>2, <1>4 DEF Cores
    <2>3. core'.failed
      BY <1>7, <2>2
    <2> QED
      BY <1>1, <1>4, <2>1, <2>2, <2>3, CoreGivesUp DEF Raised
  <1>5. CASE UNCHANGED <<phase, depth, exc>> /\ core' = [core EXCEPT !.pc = "file"]
    <2>1. core' \in Cores /\ core'.pc = "file" /\ core'.moved = core.moved /\ phase' = "core"
          /\ core'.failed = core.failed /\ core'.head = core.head /\ core'.chunks = core.chunks
          /\ core'.status = core.status
      BY <1>1, <1>2, <1>5 DEF Cores
    <2>5. Stands' /\ Inner' = Inner /\ Edge' = Inner /\ sent' = sent
      BY <1>1, <1>5, <2>1, CoreSilent
    <2>2. Answering(sent[Inner])'
      BY <1>1, <1>2, <2>1, <2>5 DEF Answering
    <2>3. FileOK'
      BY <1>1, <2>1 DEF Asked, FileOK
    <2>4. Asked'
      BY <1>1, <1>2, <1>5, <2>1, <2>2, <2>3 DEF Asked
    <2> QED
      BY <1>1, <1>5, <2>1, <2>4, <2>5 DEF CoreGoes
  <1> QED
    BY <1>1, <1>4, <1>5

\* The next part of the file, none of it for HEAD.
LEMMA DoesServeChunk ==
  ASSUME Stands, Asked, ServeChunk
  PROVE  CoreGoes
  <1> DEFINE n == IF core.chunks < Readable THEN 1 ELSE 0
             more == core.chunks + 1 < Readable
             pc == IF more THEN "file" ELSE "sent"
             head == TRUE
             in == sent[Inner]
             w == sent'[Inner]
  <1>0. /\ phase = "core" /\ core.pc = "file"
        /\ UNCHANGED <<pipe, req, view, client, reader, file>>
        /\ \/ /\ Send(Len(pipe), HeadSend(BodyMsg(n, n, more)))
              /\ core' = [core EXCEPT !.pc = pc, !.chunks = @ + n, !.head = head]
              /\ UNCHANGED exc /\ IF more THEN UNCHANGED <<phase, depth>> ELSE Return(Inner)
           \/ CutShort(mw, Len(pipe), HeadSend(BodyMsg(n, n, more)))
    BY DEF ServeChunk, AtCore, Given, Says, SaysLast
  <1>2. core \in Cores /\ req \in Requests /\ Answering(in) /\ exc = "none"
    BY <1>0 DEF Asked, Unasked, Stands, Linked, Quiet
  <1>3. core.chunks \in Nat /\ Readable \in Nat /\ req.size \in Nat
        /\ (~core.moved => Readable = req.size)
    BY <1>0, <1>2, FileFacts, RequestFacts DEF Cores
  <1>4. /\ n \in Nat /\ more \in BOOLEAN
        /\ pc \in {"file", "sent"} /\ (more <=> pc = "file")
        /\ head \in BOOLEAN /\ head
        /\ (~core.moved /\ core.chunks <= req.size => core.chunks + n <= req.size)
        /\ (~core.moved /\ core.chunks <= req.size /\ ~more => core.chunks + n = req.size)
    BY <1>3
  <1> HIDE DEF n, more, pc, head
  <1>7. /\ in.start # <<>> /\ ~in.disorder /\ ~core.failed
        /\ in.start[1].status = core.status /\ core.status \in {200, 413, 500}
        /\ in.start[1].lines = <<>> /\ (in.start[1].coded => req.coded)
        /\ (in.ended <=> core.head /\ req.method = "HEAD")
        /\ (req.method # "HEAD" => in.raw = core.chunks /\ in.size = core.chunks)
        /\ (~core.moved => in.start[1].lens = <<req.size>> /\ core.chunks <= req.size)
    BY <1>0, <1>2 DEF Answering
  <1>11. CASE CutShort(mw, Len(pipe), HeadSend(BodyMsg(n, n, more)))
    <2>1. PICK m \in Seq(Messages) :
             /\ CutShort(mw, Len(pipe), m)
             /\ m = <<>> \/ (~in.ended /\ \E b \in Bodies : m = <<b>>)
      <3> DEFINE no == FALSE
      <3>1. BodyMsg(n, n, more).kind = "body" /\ no \in BOOLEAN
        BY DEF BodyMsg
      <3>2. BodyMsg(n, n, more) \in Bodies /\ BodyMsg(0, 0, no) \in Bodies
        BY <1>4, <3>1, MessageFacts
      <3>3. \A b \in Bodies : <<b>> \in Seq(Messages)
        BY FewMessages DEF Messages
      <3>4. <<>> \in Seq(Messages)
        OBVIOUS
      <3>5. HeadSend(BodyMsg(n, n, more)) =
              IF req.method # "HEAD" THEN <<BodyMsg(n, n, more)>>
              ELSE IF core.head THEN <<>> ELSE <<BodyMsg(0, 0, no)>>
        BY <3>1 DEF HeadSend
      <3>6. in.ended => core.head /\ req.method = "HEAD"
        BY <1>7
      <3> DEFINE x == HeadSend(BodyMsg(n, n, more))
      <3>7. x \in Seq(Messages) /\ (x = <<>> \/ (~in.ended /\ \E b \in Bodies : x = <<b>>))
        BY <3>2, <3>3, <3>4, <3>5, <3>6, Zenon
      <3>8. CutShort(mw, Len(pipe), x)
        BY <1>11
      <3> HIDE DEF x, no
      <3> QED
        BY <3>7, <3>8
    <2>2. CASE m = <<>>
      <3>1. \A k \in 1..Len(m) : FALSE
        BY <2>2
      <3> QED
        BY <2>1, <3>1 DEF CutShort, CutWith, PassUntilCut, SentOn
    <2>3. CASE ~in.ended /\ \E b \in Bodies : m = <<b>>
      <3>1. PICK b \in Bodies : m = <<b>>
        BY <2>3
      <3>2. CutShort(mw, Len(pipe), <<b>>)
        BY <2>1, <3>1
      <3>3. in.start[1].status \notin {307, 400}
        BY <1>7
      <3> QED
        BY <1>0, <1>7, <2>3, <3>2, <3>3, CoreBodyCut
    <2> QED
      BY <2>1, <2>2, <2>3
  <1> SUFFICES ASSUME /\ Send(Len(pipe), HeadSend(BodyMsg(n, n, more)))
                      /\ core' = [core EXCEPT !.pc = pc, !.chunks = @ + n, !.head = head]
                      /\ UNCHANGED exc
                      /\ IF more THEN UNCHANGED <<phase, depth>> ELSE Return(Inner)
               PROVE  CoreGoes
    BY <1>0, <1>11
  <1>1. /\ phase = "core" /\ core.pc = "file"
        /\ UNCHANGED <<pipe, req, view, client, reader, file, exc>>
        /\ Send(Len(pipe), HeadSend(BodyMsg(n, n, more)))
        /\ core' = [core EXCEPT !.pc = pc, !.chunks = @ + n, !.head = head]
        /\ IF more THEN UNCHANGED <<phase, depth>> ELSE Return(Inner)
    BY <1>0
  <1>5. core' \in Cores
    <2> DEFINE c == core.chunks + n
    <2>1. c \in Nat
      BY <1>3, <1>4
    <2>2. core' = [core EXCEPT !.pc = pc, !.chunks = c, !.head = head]
      BY <1>1
    <2>3. core \in Cores
      BY <1>2
    <2>4. pc \in {"file", "sent"}
      BY <1>4
    <2>5. head \in BOOLEAN
      BY <1>4
    <2> HIDE DEF c
    <2> QED
      BY <2>1, <2>2, <2>3, <2>4, <2>5 DEF Cores
  <1>6. /\ core'.pc = pc /\ core'.chunks = core.chunks + n /\ core'.head = head
        /\ core'.status = core.status /\ core'.failed = core.failed /\ core'.moved = core.moved
    BY <1>1, <1>2 DEF Cores
  <1>8. /\ Stands' /\ Inner' = Inner /\ Edge' = Inner
        /\ w.start = in.start /\ ~w.disorder
        /\ (req.method = "HEAD" => w.ended)
        /\ (req.method # "HEAD" => /\ w.ended <=> ~more
                                   /\ w.raw = core.chunks + n /\ w.size = core.chunks + n)
    <2>1. UNCHANGED <<phase, depth, exc>> \/ Return(Inner)
      BY <1>1
    <2>2. CASE req.method # "HEAD"
      <3> DEFINE m == BodyMsg(n, n, more)
      <3>1. m \in Bodies /\ m.raw = n /\ m.size = n /\ (m.more <=> more)
        BY <1>4, MessageFacts DEF BodyMsg
      <3>2. Send(Len(pipe), HeadSend(m))
        BY <1>1
      <3> HIDE DEF m
      <3>3. Send(Len(pipe), <<m>>)
        BY <2>2, <3>2 DEF HeadSend
      <3> QED
        BY <1>1, <1>7, <2>1, <2>2, <3>1, <3>3, CoreContinues
    <2>3. CASE req.method = "HEAD" /\ core.head
      <3>1. <<>> \in Seq(Messages) /\ FitsAll(in, <<>>) /\ DeliverAll(in, <<>>) = in
        BY FewMessages, FewDelivered
      <3>2. BodyMsg(n, n, more).kind = "body"
        BY DEF BodyMsg
      <3>3. Send(Len(pipe), <<>>)
        BY <1>1, <2>3, <3>2 DEF HeadSend
      <3>4. Stands' /\ Inner' = Inner /\ Edge' = Inner /\ w = in
        BY <1>1, <1>6, <2>1, <3>1, <3>3, CoreSends
      <3> QED
        BY <1>7, <2>3, <3>4
    <2>4. CASE req.method = "HEAD" /\ ~core.head
      <3> DEFINE no == FALSE
                 m == BodyMsg(0, 0, no)
      <3>1. no \in BOOLEAN /\ ~no
        OBVIOUS
      <3>2. BodyMsg(n, n, more).kind = "body"
        BY DEF BodyMsg
      <3>3. Send(Len(pipe), <<m>>)
        BY <1>1, <2>4, <3>2 DEF HeadSend
      <3> HIDE DEF no
      <3>4. m \in Bodies /\ m.raw = 0 /\ m.size = 0 /\ ~m.more
        BY <3>1, MessageFacts DEF BodyMsg
      <3> HIDE DEF m
      <3>5. /\ Stands' /\ Inner' = Inner /\ Edge' = Inner
            /\ w.start = in.start /\ w.ended /\ ~w.disorder
        BY <1>1, <1>7, <2>1, <2>4, <3>3, <3>4, CoreContinues
      <3> QED
        BY <2>4, <3>5
    <2> QED
      BY <2>2, <2>3, <2>4
  <1>9. CASE more
    <2>1. phase' = "core" /\ depth' = depth /\ core'.pc = "file"
      BY <1>1, <1>4, <1>6, <1>9
    <2>2. Answering(sent[Inner])'
      BY <1>1, <1>4, <1>6, <1>7, <1>8, <1>9, <2>1 DEF Answering
    <2>3. FileOK'
      BY <1>1, <1>6, <2>1 DEF Asked, FileOK
    <2>4. Asked'
      BY <1>1, <1>2, <1>5, <2>1, <2>2, <2>3 DEF Asked
    <2> QED
      BY <1>1, <1>8, <2>1, <2>4 DEF CoreGoes
  <1>10. CASE ~more
    <2>1. phase' = "out" /\ core'.pc = "sent"
      BY <1>1, <1>4, <1>6, <1>10 DEF Return, ToPhase
    <2>2. exc' = "none"
      BY <1>1, <1>2
    <2>3. req.method # "HEAD" /\ ~core.moved => core.chunks + n = req.size /\ in.start[1].lens = <<req.size>>
      BY <1>4, <1>7, <1>10
    <2>4. /\ w.start[1].status \notin {307, 400}
          /\ w.start[1].status = core'.status /\ w.ended
      BY <1>6, <1>7, <1>8, <1>10
    <2>41. ASSUME req.method # "HEAD" PROVE w.raw = core'.chunks
      BY <1>6, <1>7, <1>8, <2>41
    <2>42. ASSUME req.method # "HEAD", ~core'.moved PROVE w.start[1].lens \in {<<>>, <<w.size>>}
      <3>1. w.size = req.size /\ w.start[1].lens = <<req.size>>
        BY <1>6, <1>7, <1>8, <2>3, <2>42
      <3> QED
        BY <3>1
    <2>43. CoreSays'
      <3> HIDE DEF w
      <3>1. w = (sent[Inner])'
        BY <1>8 DEF w
      <3> QED
        BY <1>1, <1>7, <1>8, <2>1, <2>2, <2>4, <2>41, <2>42, <3>1 DEF CoreSays, Answered
    <2>5. FileOK'
      BY <1>1, <1>6, <2>1 DEF Asked, FileOK
    <2>6. Asked'
      BY <1>1, <1>2, <1>5, <2>1, <2>2, <2>5 DEF Asked
    <2> QED
      BY <1>1, <1>8, <2>1, <2>43, <2>6 DEF CoreGoes
  <1> QED
    BY <1>4, <1>9, <1>10

\* It is cancelled where it awaits something.
LEMMA DoesCancel ==
  ASSUME Stands, Asked, Cancel, phase = "core"
  PROVE  CoreGoes
  <1> DEFINE f == core.pc # "begin"
  <1>1. /\ core' = [core EXCEPT !.failed = f] /\ f \in BOOLEAN /\ (f <=> core.pc # "begin")
        /\ Return(Inner) /\ exc' = "cancel" /\ phase' = "out"
        /\ UNCHANGED <<pipe, req, view, client, reader, file, mw, sent>>
    BY DEF Cancel, Given, Stands, Linked, Phases, Return, ToPhase
  <1> HIDE DEF f
  <1>2. core \in Cores /\ req \in Requests
        /\ (\/ Unasked /\ sent[Inner] = NoAnswer
            \/ Answering(sent[Inner]))
    BY DEF Asked
  <1>4. core' \in Cores /\ core'.failed = f /\ core'.pc = core.pc /\ core'.moved = core.moved
    BY <1>1, <1>2 DEF Cores
  <1>9. core.failed => core'.failed
    BY <1>1, <1>2, <1>4 DEF Unasked, Answering
  <1>3. Stands' /\ Inner' = Inner /\ Edge' = Inner
    BY <1>1, <1>9, CoreSilent
  <1>5. ASSUME Unasked, sent[Inner] = NoAnswer PROVE CoreSays'
    <2>1. (sent[Inner])' = NoAnswer /\ core'.pc = "begin"
      BY <1>1, <1>3, <1>4, <1>5 DEF Unasked
    <2> QED
      BY <2>1 DEF CoreSays, Answered, NoAnswer
  <1>6. ASSUME Answering(sent[Inner]) PROVE CoreSays'
    <2>1. (sent[Inner])' = sent[Inner] /\ core'.failed
      BY <1>1, <1>3, <1>4, <1>6 DEF Answering
    <2> QED
      BY <1>1, <1>6, <2>1 DEF CoreSays, Answered, Answering
  <1>61. CoreSays'
    BY <1>2, <1>5, <1>6
  <1>7. FileOK'
    BY <1>1, <1>4 DEF Asked, FileOK
  <1>8. Asked'
    BY <1>1, <1>2, <1>4, <1>7 DEF Asked, Thrown, Raised
  <1> QED
    BY <1>1, <1>3, <1>61, <1>8 DEF CoreGoes

-----------------------------------------------------------------------------
(* Inwards                                                                  *)

\* The middleware at position depth lets the request through, or reads it.
Passing ==
  \/ /\ phase' = "in" /\ depth' = depth + 1 /\ depth <= Len(pipe)
     /\ view' = IF pipe[depth] = "proxy" /\ Trusted
                  THEN [client |-> RealIp(req.forwarded.ips),
                        scheme |-> req.forwarded.scheme, host |-> req.forwarded.host]
                  ELSE view
     /\ pipe[depth] = "https" => view.scheme # "http"
     /\ pipe[depth] = "host" => view.host = "allowed"
  \/ depth' = depth /\ view' = view

\* The request goes on,
Asks ==
  /\ phase \in {"in", "read"} /\ phase' \in {"in", "read", "core"}
  /\ UNCHANGED <<pipe, req>> /\ Stands' /\ Asked' /\ Passing

\* or it is turned back: with an answer, the first of one, or none.
TurnedAway(w) ==
  /\ ~w.disorder
  /\ w.start # <<>> =>
       /\ ~w.start[1].coded
       /\ w.start[1].status = 307 => /\ depth <= Len(pipe) /\ pipe[depth] = "https"
                                     /\ view.scheme = "http"
       /\ w.start[1].status = 400 => /\ depth <= Len(pipe) /\ pipe[depth] = "host"
                                     /\ view.host # "allowed"

Turned ==
  /\ phase \in {"in", "read"} /\ phase' = "out" /\ depth \in 1..Inner /\ Edge' = depth
  /\ UNCHANGED <<pipe, req>> /\ Stands' /\ Asked' /\ core'.pc = "begin"
  /\ \A i \in depth..Len(pipe) : mw'[i] = Fresh
  /\ TurnedAway(sent'[depth])

\* What holds while the request goes inwards.
LEMMA InwardFacts ==
  ASSUME Stands, Asked, phase \in {"in", "read"}
  PROVE  /\ Len(pipe) \in Nat /\ Inner = Len(pipe) + 1 /\ depth \in 1..Inner /\ Edge = depth
         /\ exc = "none" /\ core.pc = "begin" /\ Unasked /\ core \in Cores /\ req \in Requests
         /\ \A i \in depth..Len(pipe) : mw[i] = Fresh
         /\ \A i \in 1..Inner : sent[i] = NoAnswer
         /\ mw \in [1..Len(pipe) -> States] /\ ~core.failed
  <1>1. /\ Len(pipe) \in Nat /\ Inner = Len(pipe) + 1 /\ mw \in [1..Len(pipe) -> States]
    BY StandsFacts
  <1>0. Phases /\ Quiet
    BY DEF Stands, Linked
  <1>2. depth \in 1..Inner /\ Edge = depth
    BY <1>0, <1>1 DEF Phases, Edge
  <1>3. /\ exc = "none" /\ \A i \in depth..Len(pipe) : mw[i] = Fresh
        /\ \A i \in 1..Inner : sent[i] = NoAnswer
    BY <1>0 DEF Quiet
  <1>4. Unasked /\ core \in Cores /\ req \in Requests
    BY DEF Asked
  <1> QED
    BY <1>1, <1>2, <1>3, <1>4 DEF Unasked

\* What the application will do is as it was, or it will do nothing.
LEMMA AskedStill ==
  ASSUME Stands, Asked, phase \in {"in", "read"}, phase' \in {"in", "out"},
         UNCHANGED <<req, file>>, exc' \in {"none"} \cup Thrown,
         \/ UNCHANGED core
         \/ phase' = "out" /\ core' = [core EXCEPT !.failed = TRUE]
  PROVE  Asked' /\ core'.pc = "begin"
  <1>1. Unasked /\ req \in Requests /\ core.status = 200 /\ core.pc = "begin"
    BY DEF Asked, Unasked
  <1>0. core \in Cores
    BY DEF Asked
  <1>2. CASE UNCHANGED core
    <2>2. Unasked'
      BY <1>1, <1>2 DEF Unasked
    <2>3. FileOK'
      BY <1>2 DEF Asked, FileOK
    <2> QED
      BY <1>0, <1>1, <1>2, <2>2, <2>3 DEF Asked, Unasked
  <1>3. CASE phase' = "out" /\ core' = [core EXCEPT !.failed = TRUE]
    <2> DEFINE yes == TRUE
    <2>0. yes \in BOOLEAN
      OBVIOUS
    <2>1. core' = [core EXCEPT !.failed = yes]
      BY <1>3
    <2> HIDE DEF yes
    <2>2. core' \in Cores
      BY <1>0, <2>0, <2>1 DEF Cores
    <2>3. core'.pc = core.pc /\ core'.moved = core.moved
      BY <1>0, <2>1 DEF Cores
    <2>4. FileOK'
      BY <2>3 DEF Asked, FileOK
    <2> QED
      BY <1>1, <1>3, <2>2, <2>3, <2>4 DEF Asked
  <1> QED
    BY <1>2, <1>3

\* The next one is called.
LEMMA Calls ==
  ASSUME Stands, Asked, phase \in {"in", "read"}, depth <= Len(pipe), GoOn,
         UNCHANGED <<pipe, req, sent, exc, core, file>>,
         \/ pipe[depth] \notin Counting /\ UNCHANGED mw
         \/ pipe[depth] \in Counting /\ mw' = [mw EXCEPT ![depth].inside = @ + 1],
         view' = IF pipe[depth] = "proxy" /\ Trusted
                  THEN [client |-> RealIp(req.forwarded.ips),
                        scheme |-> req.forwarded.scheme, host |-> req.forwarded.host]
                  ELSE view,
         pipe[depth] = "https" => view.scheme # "http",
         pipe[depth] = "host" => view.host = "allowed"
  PROVE  Asks
  <1>1. Stands'
    BY StandsIn
  <1>2. phase' = "in" /\ depth' = depth + 1
    BY DEF GoOn, ToPhase
  <1>3. exc' \in {"none"} \cup Thrown
    BY DEF Asked
  <1>4. Asked'
    BY <1>2, <1>3, AskedStill
  <1>5. Passing
    BY <1>2 DEF Passing
  <1> QED
    BY <1>1, <1>2, <1>4, <1>5 DEF Asks

\* It raises.
LEMMA GivesUp ==
  ASSUME Stands, Asked, phase \in {"in", "read"}, Return(depth),
         UNCHANGED <<pipe, req, mw, sent, file>>, exc' \in Thrown,
         UNCHANGED core
  PROVE  Turned
  <1>1. /\ Len(pipe) \in Nat /\ Inner = Len(pipe) + 1 /\ depth \in 1..Inner /\ Edge = depth
        /\ \A i \in depth..Len(pipe) : mw[i] = Fresh
        /\ \A i \in 1..Inner : sent[i] = NoAnswer
    BY InwardFacts
  <1>2. phase' = "out" /\ depth' = depth - 1 /\ Edge' = depth /\ Inner' = Inner
    BY <1>1 DEF Return, ToPhase, Edge, Inner
  <1>3. Phases' /\ Edge' <= Edge /\ Stays
    BY <1>1, <1>2 DEF Phases, Stays
  <1>4. Stands'
    BY <1>2, <1>3, StandsAside
  <1>5. Asked' /\ core'.pc = "begin"
    BY <1>2, AskedStill
  <1>6. sent'[depth] = NoAnswer /\ \A i \in depth..Len(pipe) : mw'[i] = Fresh
    BY <1>1
  <1>7. TurnedAway(sent'[depth])
    BY <1>6 DEF TurnedAway, NoAnswer
  <1> QED
    BY <1>1, <1>2, <1>4, <1>5, <1>6, <1>7 DEF Turned

\* The first of what is as it should be is so.
LEMMA FirstTurned ==
  ASSUME NEW ms \in Seq(Messages), FitsAll(NoAnswer, ms), NEW n \in 1..Len(ms),
         NEW w, w = DeliverAll(NoAnswer, ms), TurnedAway(w)
  PROVE  TurnedAway(DeliverAll(NoAnswer, SubSeq(ms, 1, n)))
  <1>1. NoAnswer \in Answers /\ n \in 0..Len(ms)
    BY MessageFacts
  <1> DEFINE v == Delivered(NoAnswer, ms)[n]
  <1>2. v = DeliverAll(NoAnswer, SubSeq(ms, 1, n))
    BY <1>1, FirstFacts
  <1>3. (v.disorder => w.disorder) /\ (v.start # <<>> => w.start = v.start)
    BY <1>1, DeliveredStays
  <1> HIDE DEF v
  <1>4. TurnedAway(v)
    BY <1>3 DEF TurnedAway
  <1> QED
    BY <1>2, <1>4

\* It answers,
LEMMA Replies ==
  ASSUME Stands, Asked, phase \in {"in", "read"}, depth <= Len(pipe),
         UNCHANGED <<pipe, req, file>>,
         NEW ms \in Seq(Messages), FitsAll(NoAnswer, ms), AnswerHere(ms),
         NEW w, w = DeliverAll(NoAnswer, ms), TurnedAway(w)
  PROVE  Turned
  <1>1. /\ Len(pipe) \in Nat /\ Inner = Len(pipe) + 1 /\ depth \in 1..Inner /\ Edge = depth
        /\ \A i \in depth..Len(pipe) : mw[i] = Fresh
        /\ \A i \in 1..Inner : sent[i] = NoAnswer
        /\ mw \in [1..Len(pipe) -> States] /\ exc = "none"
    BY InwardFacts
  <1> DEFINE d == depth - 1
  <1>2. /\ d \in 0..Len(pipe) /\ d + 1 = depth /\ d < Edge
        /\ sent[d + 1] = NoAnswer /\ FitsAll(sent[d + 1], ms)
        /\ \/ SendWith(mw, d, ms) /\ Return(d + 1) /\ UNCHANGED <<core, exc>>
           \/ CutShort(mw, d, ms)
    BY <1>1 DEF AnswerHere, Answer
  <1>3. Return(depth)
    BY <1>2 DEF CutShort
  <1> HIDE DEF d
  <1>4. /\ phase' = "out" /\ depth' = depth - 1 /\ Edge' = depth /\ Inner' = Inner
        /\ Edge' = d + 1
    BY <1>1, <1>2, <1>3 DEF Return, ToPhase, Edge, Inner
  <1>5. Phases'
    BY <1>1, <1>4 DEF Phases
  <1>6. SuitsAll(sent[d + 1], ms)
    <2>1. NoAnswer \in Answers
      BY MessageFacts
    <2>2. SuitsAll(NoAnswer, ms)
      BY <2>1, FitsSuits
    <2> QED
      BY <1>2, <2>2
  <1>7. /\ Stands'
        /\ sent'[depth] = w \/ \E n \in 1..Len(ms) :
             sent'[depth] = DeliverAll(NoAnswer, SubSeq(ms, 1, n))
        /\ \A i \in d + 1..Len(pipe) : mw'[i] = mw[i]
        /\ exc' \in {"none"} \cup Thrown
        /\ UNCHANGED core \/ core' = [core EXCEPT !.failed = TRUE]
    <2>1. CASE SendWith(mw, d, ms) /\ Return(d + 1) /\ UNCHANGED <<core, exc>>
      <3>1. Stands' /\ Passed(mw, d, ms)
        BY <1>1, <1>2, <1>4, <1>5, <1>6, <2>1, StandsSending
      <3> QED
        BY <1>1, <1>2, <2>1, <3>1 DEF Passed
    <2>2. CASE CutShort(mw, d, ms)
      <3>1. /\ CutWith(mw, d, ms) /\ exc' \in Thrown
            /\ core' = [core EXCEPT !.failed = TRUE] /\ core \in Cores
        BY <2>2 DEF CutShort, Asked, Thrown
      <3>2. core'.failed
        BY <3>1 DEF Cores
      <3>3. /\ Stands'
            /\ \E n \in 1..Len(ms) : /\ SubSeq(ms, 1, n) \in Seq(Messages)
                                     /\ Passed(mw, d, SubSeq(ms, 1, n))
        BY <1>1, <1>2, <1>4, <1>5, <1>6, <3>1, <3>2, StandsCut
      <3>4. PICK n \in 1..Len(ms) : Passed(mw, d, SubSeq(ms, 1, n))
        BY <3>3
      <3>5. sent'[depth] = DeliverAll(NoAnswer, SubSeq(ms, 1, n))
            /\ \A i \in d + 1..Len(pipe) : mw'[i] = mw[i]
        BY <1>2, <3>4 DEF Passed
      <3> QED
        BY <3>1, <3>3, <3>5
    <2> QED
      BY <1>2, <2>1, <2>2
  <1>8. TurnedAway(sent'[depth])
    BY <1>7, FirstTurned
  <1>9. Asked' /\ core'.pc = "begin"
    BY <1>4, <1>7, AskedStill
  <1>10. \A i \in depth..Len(pipe) : mw'[i] = Fresh
    BY <1>1, <1>2, <1>7
  <1> QED
    BY <1>1, <1>4, <1>7, <1>8, <1>9, <1>10 DEF Turned

\* with the answer of two messages.
LEMMA Refuses ==
  ASSUME Stands, Asked, phase \in {"in", "read"}, depth <= Len(pipe),
         UNCHANGED <<pipe, req, file>>, NEW status \in Nat, Refuse(status),
         status = 307 => pipe[depth] = "https" /\ view.scheme = "http",
         status = 400 => pipe[depth] = "host" /\ view.host # "allowed"
  PROVE  Turned
  <1> DEFINE n == 1
             ms == Plain(status, n)
             w == DeliverAll(NoAnswer, ms)
  <1>1. n \in Nat /\ AnswerHere(ms)
    BY DEF Refuse
  <1> HIDE DEF n
  <1>2. ms \in Seq(Messages) /\ FitsAll(NoAnswer, ms)
        /\ w.start = <<StartMsg(status, <<n>>, FALSE)>> /\ ~w.disorder
    BY <1>1, PlainAnswer
  <1>3. w.start # <<>> /\ w.start[1].status = status /\ ~w.start[1].coded
    BY <1>2 DEF StartMsg
  <1> HIDE DEF ms, w
  <1>4. TurnedAway(w)
    BY <1>2, <1>3 DEF TurnedAway
  <1>5. w = DeliverAll(NoAnswer, ms)
    BY DEF w
  <1> QED
    BY <1>1, <1>2, <1>4, <1>5, Replies

\* The middleware at position depth is called.
Enters ==
  \/ EnterThrough \/ EnterProxy \/ EnterHost \/ EnterHttps \/ EnterLimits \/ EnterCors
  \/ EnterCounting \/ EnterHooks \/ EnterCsrf

\* Those that have nothing to decide.
LEMMA EntersThrough ==
  ASSUME Stands, Asked, EnterThrough
  PROVE  Asks
  <1>1. /\ phase = "in" /\ depth <= Len(pipe) /\ GoOn
        /\ pipe[depth] \in {"gzip", "errors", "session", "requestid", "headers", "timing"}
        /\ UNCHANGED <<pipe, req, view, mw, core, file, exc, sent>>
    BY DEF EnterThrough, Entering, Given
  <1>2. pipe[depth] \notin Counting /\ pipe[depth] \notin {"proxy", "https", "host"}
    BY <1>1 DEF Counting
  <1> QED
    BY <1>1, <1>2, Calls

\* TrustedProxyMiddleware.
LEMMA EntersProxy ==
  ASSUME Stands, Asked, EnterProxy
  PROVE  Asks
  <1> DEFINE seen == [client |-> RealIp(req.forwarded.ips),
                      scheme |-> req.forwarded.scheme, host |-> req.forwarded.host]
  <1>1. /\ phase = "in" /\ depth <= Len(pipe) /\ GoOn /\ pipe[depth] = "proxy"
        /\ view' = IF Trusted THEN seen ELSE view
        /\ UNCHANGED <<pipe, req, mw, core, file, exc, sent>>
    BY DEF EnterProxy, Entering
  <1>2. pipe[depth] \notin Counting
    BY <1>1 DEF Counting
  <1>3. view' = IF pipe[depth] = "proxy" /\ Trusted THEN seen ELSE view
    BY <1>1
  <1>4. ~(pipe[depth] = "https") /\ ~(pipe[depth] = "host")
    BY <1>1
  <1> QED
    BY <1>1, <1>2, <1>3, <1>4, Calls

\* The three that refuse or let through.
LEMMA EntersGuard ==
  ASSUME Stands, Asked, NEW k, NEW refused \in BOOLEAN, NEW status \in Nat,
         Guard(k, refused, status), k \notin Counting, k # "proxy",
         refused /\ status = 307 => k = "https" /\ view.scheme = "http",
         refused /\ status = 400 => k = "host" /\ view.host # "allowed",
         k = "https" /\ ~refused => view.scheme # "http",
         k = "host" /\ ~refused => view.host = "allowed"
  PROVE  Asks \/ Turned
  <1>1. /\ phase = "in" /\ depth <= Len(pipe) /\ pipe[depth] = k
        /\ IF refused THEN Refuse(status) ELSE GoOn /\ UNCHANGED <<mw, sent, core, exc>>
        /\ UNCHANGED <<pipe, req, view, file>>
    BY DEF Guard, GoOnly, Entering, Given
  <1>2. CASE refused
    <2>1. Refuse(status)
      BY <1>1, <1>2
    <2> QED
      BY <1>1, <1>2, <2>1, Refuses
  <1>3. CASE ~refused
    <2>1. GoOn /\ UNCHANGED <<mw, sent, core, exc>>
      BY <1>1, <1>3
    <2> QED
      BY <1>1, <1>3, <2>1, Calls
  <1> QED
    BY <1>2, <1>3

\* TrustedHost, HTTPSRedirect and RequestLimits.
LEMMA EntersGuards ==
  ASSUME Stands, Asked, EnterHost \/ EnterHttps \/ EnterLimits
  PROVE  Asks \/ Turned
  <1>1. CASE EnterHost
    <2> DEFINE k == "host"
               refused == view.host # "allowed"
               status == 400
    <2>1. /\ Guard(k, refused, status) /\ k = "host" /\ status \in Nat /\ refused \in BOOLEAN
          /\ (refused <=> view.host # "allowed") /\ status # 307 /\ k \notin Counting
          /\ k # "proxy" /\ k # "https"
      BY <1>1 DEF EnterHost, Counting
    <2> HIDE DEF k, refused, status
    <2> QED
      BY <2>1, EntersGuard
  <1>2. CASE EnterHttps
    <2> DEFINE k == "https"
               refused == view.scheme = "http"
               status == 307
    <2>1. /\ Guard(k, refused, status) /\ k = "https" /\ status \in Nat /\ refused \in BOOLEAN
          /\ (refused <=> view.scheme = "http") /\ status # 400 /\ k \notin Counting
          /\ k # "proxy" /\ k # "host"
      BY <1>2 DEF EnterHttps, Counting
    <2> HIDE DEF k, refused, status
    <2> QED
      BY <2>1, EntersGuard
  <1>3. CASE EnterLimits
    <2> DEFINE k == "limits"
               refused == req.oversized # "no"
               status == IF req.oversized = "query" THEN 414 ELSE 431
    <2>1. /\ Guard(k, refused, status) /\ status \in Nat /\ refused \in BOOLEAN
          /\ status # 307 /\ status # 400 /\ k \notin Counting
          /\ k # "proxy" /\ k # "https" /\ k # "host"
      BY <1>3 DEF EnterLimits, Counting
    <2> HIDE DEF k, refused, status
    <2> QED
      BY <2>1, EntersGuard
  <1> QED
    BY <1>1, <1>2, <1>3

\* The answer to a preflight.
LEMMA PreflightFacts ==
  LET w == DeliverAll(NoAnswer, Preflight) IN
  /\ Preflight \in Seq(Messages) /\ FitsAll(NoAnswer, Preflight)
  /\ w.start # <<>> /\ w.start[1].status = 200 /\ ~w.start[1].coded /\ ~w.disorder
  <1> DEFINE no == FALSE
             lens == <<>>
             lines == <<Line("vary", "cors")>>
             status == 200
             m == StartMsg(status, lens, no)
             s == WithLines(m, lines)
             n == 0
             ms == <<s, BodyMsg(n, n, no)>>
             w == DeliverAll(NoAnswer, ms)
  <1>1. Preflight = ms
    BY DEF Preflight
  <1>2. /\ no \in BOOLEAN /\ ~no /\ lens \in Seq(Nat) /\ status \in Nat /\ n \in Nat
        /\ status = 200
    OBVIOUS
  <1>3. lines \in Seq(LineSet)
    BY DEF Line, LineSet
  <1> HIDE DEF no, lens, lines, status, n
  <1>4. m \in Starts
    BY <1>2, MessageFacts
  <1>5. m.status = status /\ m.coded = no
    BY DEF StartMsg
  <1> HIDE DEF m
  <1>6. s \in Starts /\ s.status = m.status /\ (s.coded <=> m.coded)
    BY <1>3, <1>4, WithLinesFacts
  <1> HIDE DEF s
  <1>7. ms \in Seq(Messages) /\ FitsAll(NoAnswer, ms) /\ w.start = <<s>> /\ ~w.disorder
    BY <1>2, <1>6, WholeAnswer
  <1> HIDE DEF ms
  <1>8. w.start # <<>> /\ w.start[1] = s
    BY <1>7
  <1> QED
    BY <1>1, <1>2, <1>5, <1>6, <1>7, <1>8

\* CORSMiddleware.
LEMMA EntersCors ==
  ASSUME Stands, Asked, EnterCors
  PROVE  Asks \/ Turned
  <1>1. /\ phase = "in" /\ depth <= Len(pipe) /\ pipe[depth] = "cors"
        /\ AnswerHere(Preflight) \/ (GoOn /\ UNCHANGED <<mw, sent, core, exc>>)
        /\ UNCHANGED <<pipe, req, view, file>>
    BY DEF EnterCors, GoOnly, Entering, Given
  <1>2. CASE AnswerHere(Preflight)
    <2> DEFINE ms == Preflight
               w == DeliverAll(NoAnswer, ms)
    <2>1. /\ ms \in Seq(Messages) /\ FitsAll(NoAnswer, ms) /\ AnswerHere(ms)
          /\ w.start # <<>> /\ w.start[1].status = 200 /\ ~w.start[1].coded /\ ~w.disorder
      BY <1>2, PreflightFacts
    <2> HIDE DEF ms, w
    <2>2. TurnedAway(w)
      BY <1>1, <2>1 DEF TurnedAway
    <2>3. w = DeliverAll(NoAnswer, ms)
      BY DEF w
    <2> QED
      BY <1>1, <2>1, <2>2, <2>3, Replies
  <1>3. CASE GoOn /\ UNCHANGED <<mw, sent, core, exc>>
    <2>1. pipe[depth] \notin Counting /\ pipe[depth] \notin {"proxy", "https", "host"}
      BY <1>1 DEF Counting
    <2> QED
      BY <1>1, <1>3, <2>1, Calls
  <1> QED
    BY <1>1, <1>2, <1>3

\* An answer with neither of the two statuses that are judged.
LEMMA RefusesOther ==
  ASSUME Stands, Asked, phase \in {"in", "read"}, depth <= Len(pipe),
         UNCHANGED <<pipe, req, file>>,
         Refuse(200) \/ Refuse(401) \/ Refuse(403)
  PROVE  Turned
  <1>1. PICK status \in {200, 401, 403} : Refuse(status)
    OBVIOUS
  <1>2. status \in Nat /\ status # 307 /\ status # 400
    OBVIOUS
  <1> QED
    BY <1>1, <1>2, Refuses

\* Those that count, or answer for their own path.
LEMMA EntersCounting ==
  ASSUME Stands, Asked, EnterCounting
  PROVE  Asks \/ Turned
  <1>1. /\ phase = "in" /\ depth <= Len(pipe) /\ pipe[depth] \in Counting
        /\ \/ Refuse(200)
           \/ GoOn /\ mw' = [mw EXCEPT ![depth].inside = @ + 1] /\ UNCHANGED <<sent, core, exc>>
        /\ UNCHANGED <<pipe, req, view, file>>
    BY DEF EnterCounting, Entering, Given
  <1>2. CASE Refuse(200)
    BY <1>1, <1>2, RefusesOther
  <1>3. CASE GoOn /\ mw' = [mw EXCEPT ![depth].inside = @ + 1] /\ UNCHANGED <<sent, core, exc>>
    <2>1. pipe[depth] \notin {"proxy", "https", "host"}
      BY <1>1 DEF Counting
    <2> QED
      BY <1>1, <1>3, <2>1, Calls
  <1> QED
    BY <1>1, <1>2, <1>3

\* before_request lets through, answers or raises.
LEMMA EntersHooks ==
  ASSUME Stands, Asked, EnterHooks
  PROVE  Asks \/ Turned
  <1>1. /\ phase = "in" /\ depth <= Len(pipe) /\ pipe[depth] = "hooks"
        /\ \/ GoOn /\ UNCHANGED <<mw, core, exc, sent>>
           \/ Refuse(401)
           \/ Return(depth) /\ exc' \in Thrown /\ UNCHANGED <<mw, core, sent>>
        /\ UNCHANGED <<pipe, req, view, file>>
    BY DEF EnterHooks, GoOnly, Entering, Given
  <1>2. CASE GoOn /\ UNCHANGED <<mw, core, exc, sent>>
    <2>1. pipe[depth] \notin Counting /\ pipe[depth] \notin {"proxy", "https", "host"}
      BY <1>1 DEF Counting
    <2> QED
      BY <1>1, <1>2, <2>1, Calls
  <1>3. CASE Refuse(401)
    BY <1>1, <1>3, RefusesOther
  <1>4. CASE Return(depth) /\ exc' \in Thrown /\ UNCHANGED <<mw, core, sent>>
    BY <1>1, <1>4, GivesUp
  <1> QED
    BY <1>1, <1>2, <1>3, <1>4

\* The body is read where the request is.
LEMMA Reads ==
  ASSUME Stands, Asked, phase \in {"in", "read"}, phase' \in {"read", "core"}, depth' = depth,
         UNCHANGED <<pipe, req, view, mw, sent, file, exc>>, core' \in Cores,
         phase' = "read" => /\ UNCHANGED core
                            /\ depth < Inner => pipe[depth] = "csrf"
                            /\ depth = Inner => ~req.mounted,
         phase' = "core" => /\ depth = Inner
                            /\ UNCHANGED core
                               \/ (core' = [core EXCEPT !.status = 413] /\ ~req.mounted)
  PROVE  Asks
  <1>1. /\ Len(pipe) \in Nat /\ Inner = Len(pipe) + 1 /\ depth \in 1..Inner /\ Edge = depth
        /\ Unasked /\ req \in Requests /\ core.status = 200
        /\ \A i \in 1..Inner : sent[i] = NoAnswer
    BY InwardFacts DEF Unasked
  <1>2. Edge' = depth /\ Inner' = Inner /\ Stays
    BY DEF Edge, Inner, Stays
  <1>3. Phases'
    BY <1>1, <1>2 DEF Phases
  <1>11. core.failed => core'.failed
    BY <1>1 DEF Unasked
  <1>4. Stands'
    BY <1>1, <1>2, <1>3, <1>11, StandsAside
  <1>5. core'.pc = core.pc /\ core'.chunks = core.chunks /\ core'.head = core.head
        /\ core'.failed = core.failed /\ core'.moved = core.moved
        /\ (UNCHANGED core \/ core'.status = 413)
    BY DEF Asked, Cores
  <1>6. Unasked'
    BY <1>1, <1>5 DEF Unasked
  <1>7. FileOK'
    BY <1>5 DEF Asked, FileOK
  <1>8. sent'[Inner'] = NoAnswer
    <2>1. Inner \in 1..Inner
      BY <1>1
    <2> QED
      BY <1>1, <1>2, <2>1
  <1>9. Asked'
    BY <1>2, <1>6, <1>7, <1>8 DEF Asked
  <1>10. Passing
    BY DEF Passing
  <1> QED
    BY <1>4, <1>9, <1>10 DEF Asks

\* CSRFMiddleware, which may have to read the body for its token.
LEMMA EntersCsrf ==
  ASSUME Stands, Asked, EnterCsrf
  PROVE  Asks \/ Turned
  <1>1. /\ phase = "in" /\ depth <= Len(pipe) /\ pipe[depth] = "csrf"
        /\ \/ GoOn /\ UNCHANGED <<mw, sent, core, exc>>
           \/ Refuse(403)
           \/ ToPhase("read", depth) /\ UNCHANGED <<mw, sent, core, exc>>
        /\ UNCHANGED <<pipe, req, view, file>>
    BY DEF EnterCsrf, GoOnly, Entering, Given
  <1>2. CASE GoOn /\ UNCHANGED <<mw, sent, core, exc>>
    <2>1. pipe[depth] \notin Counting /\ pipe[depth] \notin {"proxy", "https", "host"}
      BY <1>1 DEF Counting
    <2> QED
      BY <1>1, <1>2, <2>1, Calls
  <1>3. CASE Refuse(403)
    BY <1>1, <1>3, RefusesOther
  <1>4. CASE ToPhase("read", depth) /\ UNCHANGED <<mw, sent, core, exc>>
    <2>1. phase' = "read" /\ depth' = depth
      BY <1>4 DEF ToPhase
    <2>2. depth # Inner /\ core' \in Cores
      BY <1>1, <1>4, InwardFacts
    <2> QED
      BY <1>1, <1>4, <2>1, <2>2, Reads
  <1> QED
    BY <1>1, <1>2, <1>3, <1>4

\* Whichever middleware is called.
LEMMA EnterStep ==
  ASSUME Stands, Asked, Enters
  PROVE  Asks \/ Turned
  BY EntersThrough, EntersProxy, EntersGuards, EntersCors, EntersCounting, EntersHooks, EntersCsrf
     DEF Enters

\* The application is called.
LEMMA EntersCore ==
  ASSUME Stands, Asked, EnterCore
  PROVE  Asks
  <1>1. /\ phase = "in" /\ depth = Inner /\ depth' = Inner
        /\ \/ phase' = "read" /\ ~req.mounted
           \/ phase' = "core"
        /\ UNCHANGED <<pipe, req, view, mw, core, file, exc, sent>>
    BY DEF EnterCore, ToPhase, Given
  <1>2. core' \in Cores /\ ~(depth < Inner) /\ depth' = depth
    BY <1>1, InwardFacts
  <1>3. CASE phase' = "read" /\ ~req.mounted
    BY <1>1, <1>2, <1>3, Reads
  <1>4. CASE phase' = "core"
    BY <1>1, <1>2, <1>4, Reads
  <1> QED
    BY <1>1, <1>3, <1>4

\* The body is read to its end.
LEMMA ReadsToEnd ==
  ASSUME Stands, Asked, phase = "read", NEW n, ReadToEnd(n),
         UNCHANGED <<pipe, req, view, file>>
  PROVE  Asks \/ Turned
  <1>1. /\ Len(pipe) \in Nat /\ Inner = Len(pipe) + 1 /\ depth \in 1..Inner /\ core \in Cores
    BY InwardFacts
  <1>2. CASE ReadingCore
    <2>1. phase' = "core" /\ depth' = depth /\ UNCHANGED <<mw, sent, core, exc>> /\ depth = Inner
      BY <1>2 DEF ReadToEnd, ToPhase, ReadingCore
    <2> QED
      BY <1>1, <2>1, Reads
  <1>3. CASE ~ReadingCore
    <2>1. (GoOn /\ UNCHANGED <<mw, sent, core, exc>>) \/ Refuse(403)
      BY <1>3 DEF ReadToEnd, GoOnly
    <2>2. depth <= Len(pipe) /\ pipe[depth] = "csrf"
      BY <1>1, <1>3 DEF Stands, Linked, Phases, ReadingCore
    <2>3. CASE GoOn /\ UNCHANGED <<mw, sent, core, exc>>
      <3>1. pipe[depth] \notin Counting /\ pipe[depth] \notin {"proxy", "https", "host"}
        BY <2>2 DEF Counting
      <3> QED
        BY <2>1, <2>2, <2>3, <3>1, Calls
    <2>4. CASE Refuse(403)
      BY <2>1, <2>2, <2>4, RefusesOther
    <2> QED
      BY <2>1, <2>3, <2>4
  <1> QED
    BY <1>2, <1>3

\* The body is too large for the handler.
LEMMA RaisesTooLarge ==
  ASSUME Stands, Asked, phase = "read", ReadingCore, RaiseTooLarge,
         UNCHANGED <<pipe, req, view, file>>
  PROVE  Asks
  <1> DEFINE status == 413
  <1>1. /\ phase' = "core" /\ depth' = depth /\ depth = Inner /\ UNCHANGED <<mw, sent, exc>>
        /\ core' = [core EXCEPT !.status = status] /\ ~req.mounted /\ status \in Nat
        /\ core \in Cores
    BY DEF RaiseTooLarge, ToPhase, ReadingCore, Asked
  <1>2. core' = [core EXCEPT !.status = 413]
    BY <1>1
  <1> HIDE DEF status
  <1>3. core' \in Cores
    BY <1>1 DEF Cores
  <1> QED
    BY <1>1, <1>2, <1>3, Reads

Receives == ReceiveChunk \/ ReceiveNothing \/ ReceiveReplay

\* Whatever message of the body comes.
LEMMA ReceiveStep ==
  ASSUME Stands, Asked, Receives
  PROVE  Asks \/ Turned
  <1>1. CASE ReceiveChunk
    <2>1. /\ phase = "read" /\ UNCHANGED <<pipe, req, view, file>>
          /\ \/ ReadingCore /\ RaiseTooLarge
             \/ UNCHANGED <<phase, depth, mw, sent, core, exc>>
             \/ ReadToEnd(reader.got + 1)
      BY <1>1 DEF ReceiveChunk, TooLarge, Given
    <2>2. CASE UNCHANGED <<phase, depth, mw, sent, core, exc>>
      <3>1. core' \in Cores /\ (depth < Inner => pipe[depth] = "csrf")
            /\ (depth = Inner => ~req.mounted)
        BY <2>1, <2>2 DEF Asked, Stands, Linked, Phases
      <3> QED
        BY <2>1, <2>2, <3>1, Reads
    <2>3. CASE ReadToEnd(reader.got + 1)
      BY <2>1, <2>3, ReadsToEnd
    <2> QED
      BY <2>1, <2>2, <2>3, RaisesTooLarge
  <1>2. CASE ReceiveNothing
    <2>1. phase = "read" /\ UNCHANGED <<pipe, req, view, file>> /\ ReadToEnd(reader.got)
      BY <1>2 DEF ReceiveNothing, Given
    <2> QED
      BY <2>1, ReadsToEnd
  <1>3. CASE ReceiveReplay
    <2>1. /\ phase = "read" /\ UNCHANGED <<pipe, req, view, file>>
          /\ (ReadingCore /\ RaiseTooLarge) \/ ReadToEnd(Last(reader.replay))
      BY <1>3 DEF ReceiveReplay, TooLarge, Given
    <2> QED
      BY <2>1, ReadsToEnd, RaisesTooLarge
  <1> QED
    BY <1>1, <1>2, <1>3 DEF Receives

\* Cancelled while the body is read.
LEMMA CancelledReading ==
  ASSUME Stands, Asked, Cancel, phase = "read"
  PROVE  Turned
  <1>1. /\ exc' = "cancel" /\ core' = [core EXCEPT !.failed = core.pc # "begin"]
        /\ Return(depth) /\ UNCHANGED <<pipe, req, view, mw, client, reader, file, sent>>
    BY DEF Cancel, AtCore, Given
  <1>2. core.pc = "begin" /\ ~core.failed /\ core \in Cores
    BY InwardFacts DEF Unasked
  <1>3. UNCHANGED core
    <2>1. (core.pc # "begin") = core.failed
      BY <1>2 DEF Cores
    <2>2. core' = [core EXCEPT !.failed = core.failed]
      BY <1>1, <2>1
    <2> QED
      BY <1>2, <2>2 DEF Cores
  <1>4. exc' \in Thrown
    BY <1>1 DEF Thrown, Raised
  <1> QED
    BY <1>1, <1>3, <1>4, GivesUp

\* The application, once it is called.
CoreActs ==
  \/ AnswerObject \/ AnswerObjectBody \/ CoreBreaks \/ AnswerStream \/ StreamChunk \/ StreamEnds
  \/ ServeStatic \/ OpenFile \/ ServeChunk

\* Whatever the application does next.
LEMMA CoreStep ==
  ASSUME Stands, Asked, CoreActs
  PROVE  CoreGoes
  BY DoesAnswerObject, DoesAnswerObjectBody, DoesCoreBreaks, DoesAnswerStream, DoesStreamChunk,
     DoesStreamEnds, DoesServeStatic, DoesOpenFile, DoesServeChunk DEF CoreActs

\* The file on the disk is another one.
FileSwaps ==
  /\ UNCHANGED <<pipe, req, view, phase, depth, mw, client, reader, exc, sent>>
  /\ core'.moved /\ core'.pc = core.pc /\ core'.chunks = core.chunks
  /\ core'.status = core.status /\ core'.failed = core.failed
  /\ Stands' /\ Asked'

\* The application goes on as if nothing had happened.
LEMMA FileStep ==
  ASSUME Stands, Asked, FileChanges
  PROVE  FileSwaps
  <1> DEFINE yes == TRUE
  <1>1. /\ UNCHANGED <<pipe, req, view, phase, depth, mw, client, reader, exc, sent>>
        /\ core' = [core EXCEPT !.moved = yes] /\ yes \in BOOLEAN /\ yes
        /\ \E f \in {{}, {req.size + 1}} \cup {{n} : n \in 0..req.size} : file' = f
    BY DEF FileChanges, Given
  <1> HIDE DEF yes
  <1>2. core \in Cores /\ req \in Requests /\ req.size \in Nat
    BY RequestFacts DEF Asked
  <1>3. core' \in Cores
    BY <1>1, <1>2 DEF Cores
  <1>4. core'.moved = yes /\ core'.pc = core.pc /\ core'.chunks = core.chunks
        /\ core'.status = core.status /\ core'.failed = core.failed /\ core'.head = core.head
    BY <1>1, <1>2 DEF Cores
  <1>5. file' = {} \/ \E n \in Nat : file' = {n}
    <2> DEFINE s == req.size
               later == s + 1
    <2>1. s \in Nat /\ later \in Nat /\ \A n \in 0..s : n \in Nat
      BY <1>2
    <2>2. \E f \in {{}, {later}} \cup {{n} : n \in 0..s} : file' = f
      BY <1>1
    <2> HIDE DEF s, later
    <2>3. PICK f \in {{}, {later}} \cup {{n} : n \in 0..s} : file' = f
      BY <2>2
    <2>4. CASE f \in {{}, {later}}
      BY <2>1, <2>3, <2>4
    <2>5. CASE f \in {{n} : n \in 0..s}
      BY <2>1, <2>3, <2>5
    <2> QED
      BY <2>3, <2>4, <2>5
  <1>6. FileOK'
    BY <1>1, <1>4, <1>5 DEF FileOK
  <1>7. Edge' = Edge /\ Inner' = Inner /\ Stays
    BY <1>1 DEF Edge, Inner, Stays
  <1>8. Phases' /\ Edge \in Nat
    BY <1>1, <1>7, StandsFacts DEF Stands, Linked, Phases
  <1>9. Stands'
    BY <1>1, <1>4, <1>7, <1>8, StandsAside
  <1>10. Unasked => Unasked'
    BY <1>1, <1>4 DEF Unasked
  <1>11. sent'[Inner'] = sent[Inner]
    BY <1>1, <1>7
  <1>12. Lengths(req.size)' = Lengths(req.size)
    BY <1>1, <1>4 DEF Lengths, IsJson
  <1>13. ASSUME Answering(sent[Inner]) PROVE Answering(sent[Inner])'
    BY <1>1, <1>4, <1>11, <1>12, <1>13 DEF Answering
  <1>14. Asked'
    BY <1>1, <1>2, <1>3, <1>6, <1>7, <1>10, <1>11, <1>13 DEF Asked
  <1> QED
    BY <1>1, <1>4, <1>9, <1>14 DEF FileSwaps

-----------------------------------------------------------------------------
(* Who the client is taken for                                              *)

Unproxied == [client |-> req.peer, scheme |-> req.scheme, host |-> req.host]

\* The scope is the client's own, or what its proxy looks like; and the client
\* got by the gates that could tell.
Judged ==
  phase \in {"in", "read", "core"} =>
    /\ view = IF Settled(depth) THEN req.truth ELSE Unproxied
    /\ \A i \in 1..depth - 1 : Settled(i) =>
         /\ pipe[i] = "https" => req.truth.scheme # "http"
         /\ pipe[i] = "host" => req.truth.host = "allowed"

\* Who the client of a request is.
LEMMA TruthFacts ==
  ASSUME NEW r \in Requests
  PROVE  /\ Truthful(r) /\ r.forwarded.ips \in Seq(STRING)
         /\ r.truth \in [client : STRING, scheme : {"http", "https"}, host : STRING]
  BY RequestsAssumption DEF RequestsAssumption

\* The last number of a set.
LEMMA MaxIs ==
  ASSUME NEW S \in SUBSET Nat, NEW n \in S, \A i \in S : i <= n
  PROVE  Max(S) = n
  <1>1. \A x \in S : (\A y \in S : x >= y) => x = n
    OBVIOUS
  <1>2. \A y \in S : n >= y
    OBVIOUS
  <1>3. \E x \in S : \A y \in S : x >= y
    BY <1>2
  <1> QED
    BY <1>1, <1>3 DEF Max

\* A trusted proxy is believed.
LEMMA ProxyTells ==
  ASSUME req \in Requests, req.peer = "hop"
  PROVE  [client |-> RealIp(req.forwarded.ips), scheme |-> req.forwarded.scheme,
          host |-> req.forwarded.host] = req.truth
  <1> DEFINE ips == req.forwarded.ips
             foreign == {i \in DOMAIN ips : ips[i] \notin {"junk", "hop"}}
  <1>1. Truthful(req) /\ ips \in Seq(STRING)
        /\ req.truth \in [client : STRING, scheme : {"http", "https"}, host : STRING]
    BY TruthFacts
  <1>2. /\ req.truth.client \notin {"junk", "hop"}
        /\ req.truth.scheme = req.forwarded.scheme /\ req.truth.host = req.forwarded.host
        /\ \E n \in DOMAIN ips :
             ips[n] = req.truth.client /\ \A later \in n + 1..Len(ips) : ips[later] = "hop"
    BY <1>1 DEF Truthful
  <1>3. PICK n \in DOMAIN ips :
          ips[n] = req.truth.client /\ \A later \in n + 1..Len(ips) : ips[later] = "hop"
    BY <1>2
  <1>4. DOMAIN ips = 1..Len(ips) /\ Len(ips) \in Nat
    BY <1>1
  <1>5. n \in foreign /\ foreign \in SUBSET Nat
    BY <1>2, <1>3, <1>4
  <1>6. ASSUME NEW i \in foreign PROVE i <= n
    <2>1. i \in 1..Len(ips) /\ n \in 1..Len(ips) /\ ips[i] # "hop"
      BY <1>4, <1>6
    <2>2. ~(i \in n + 1..Len(ips))
      BY <1>3, <2>1
    <2> QED
      BY <1>4, <2>1, <2>2
  <1>7. Max(foreign) = n
    BY <1>5, <1>6, MaxIs
  <1>8. RealIp(ips) = ips[n]
    BY <1>5, <1>7 DEF RealIp
  <1> HIDE DEF ips
  <1>9. /\ RealIp(req.forwarded.ips) = req.truth.client
        /\ req.truth = [client |-> req.truth.client, scheme |-> req.truth.scheme,
                        host |-> req.truth.host]
    BY <1>1, <1>3, <1>8 DEF ips
  <1> QED
    BY <1>2, <1>9

\* Where the next one is, the client is known if it was or a proxy tells.
LEMMA SettledNext ==
  ASSUME UNCHANGED <<pipe, req>>, depth \in 1..Len(pipe), Len(pipe) \in Nat
  PROVE  /\ \A i : Settled(i)' <=> Settled(i)
         /\ Settled(depth + 1) <=> Settled(depth) \/ pipe[depth] = "proxy"
  <1>1. \A j : j \in 1..(depth + 1) - 1 <=> j \in 1..depth - 1 \/ j = depth
    OBVIOUS
  <1>2. ASSUME NEW i PROVE Settled(i)' <=> Settled(i)
    BY DEF Settled
  <1>3. Settled(depth + 1) <=> Settled(depth) \/ pipe[depth] = "proxy"
    BY <1>1 DEF Settled
  <1> QED
    BY <1>2, <1>3

\* The scope stays the client's own, and the gates judge by it.
LEMMA JudgedOn ==
  ASSUME Stands, Asked, Judged, Asks
  PROVE  Judged'
  <1>1. /\ Len(pipe) \in Nat /\ Inner = Len(pipe) + 1 /\ depth \in 1..Inner
        /\ req \in Requests /\ phase \in {"in", "read"} /\ UNCHANGED <<pipe, req>>
        /\ phase' \in {"in", "read", "core"} /\ Passing
    BY InwardFacts DEF Asks
  <1>2. /\ view = IF Settled(depth) THEN req.truth ELSE Unproxied
        /\ \A i \in 1..depth - 1 : Settled(i) =>
             /\ pipe[i] = "https" => req.truth.scheme # "http"
             /\ pipe[i] = "host" => req.truth.host = "allowed"
    BY <1>1 DEF Judged
  <1>3. CASE depth' = depth /\ view' = view
    <2>1. Unproxied' = Unproxied
      BY <1>1 DEF Unproxied
    <2>2. ASSUME NEW i PROVE Settled(i)' <=> Settled(i)
      BY <1>1 DEF Settled
    <2>3. Settled(depth)' <=> Settled(depth)
      BY <1>1, <1>3 DEF Settled
    <2>4. view' = IF Settled(depth)' THEN req'.truth ELSE Unproxied'
      BY <1>1, <1>2, <1>3, <2>1, <2>3
    <2>5. ASSUME NEW i \in 1..depth' - 1, Settled(i)'
          PROVE  /\ pipe'[i] = "https" => req'.truth.scheme # "http"
                 /\ pipe'[i] = "host" => req'.truth.host = "allowed"
      BY <1>1, <1>2, <1>3, <2>2, <2>5
    <2> QED
      BY <2>4, <2>5 DEF Judged
  <1>4. CASE /\ phase' = "in" /\ depth' = depth + 1 /\ depth <= Len(pipe)
             /\ view' = IF pipe[depth] = "proxy" /\ Trusted
                          THEN [client |-> RealIp(req.forwarded.ips),
                                scheme |-> req.forwarded.scheme, host |-> req.forwarded.host]
                          ELSE view
             /\ pipe[depth] = "https" => view.scheme # "http"
             /\ pipe[depth] = "host" => view.host = "allowed"
    <2>1. /\ \A i : Settled(i)' <=> Settled(i)
          /\ Settled(depth + 1) <=> Settled(depth) \/ pipe[depth] = "proxy"
          /\ depth \in 1..Len(pipe)
      BY <1>1, <1>4, SettledNext
    <2>2. Settled(depth)' <=> Settled(depth + 1)
      BY <1>1, <1>4 DEF Settled
    <2>3. Unproxied' = Unproxied
      BY <1>1 DEF Unproxied
    <2>4. Truthful(req) /\ (req.peer = "client" \/ req.peer = "hop")
      BY <1>1, TruthFacts DEF Truthful
    <2>5. view' = IF Settled(depth + 1) THEN req.truth ELSE Unproxied
      <3>1. CASE Settled(depth)
        <4>1. view = req.truth /\ req.truth.client # "hop"
          BY <1>2, <2>4, <3>1 DEF Truthful
        <4>2. ~Trusted
          BY <4>1 DEF Trusted
        <4> QED
          BY <1>4, <2>1, <3>1, <4>1, <4>2
      <3>2. CASE ~Settled(depth) /\ pipe[depth] = "proxy"
        <4>1. req.peer = "hop"
          BY <2>4, <3>2 DEF Settled
        <4>2. Trusted
          BY <1>2, <3>2, <4>1 DEF Trusted, Unproxied
        <4> QED
          BY <1>1, <1>4, <2>1, <3>2, <4>1, <4>2, ProxyTells
      <3>3. CASE ~Settled(depth) /\ pipe[depth] # "proxy"
        BY <1>2, <1>4, <2>1, <3>3
      <3> QED
        BY <3>1, <3>2, <3>3
    <2>6. view' = IF Settled(depth)' THEN req'.truth ELSE Unproxied'
      BY <1>1, <2>2, <2>3, <2>5
    <2>7. ASSUME NEW i \in 1..depth' - 1, Settled(i)'
          PROVE  /\ pipe'[i] = "https" => req'.truth.scheme # "http"
                 /\ pipe'[i] = "host" => req'.truth.host = "allowed"
      <3>1. Settled(i)
        BY <2>1, <2>7
      <3>2. CASE i = depth
        <4>1. view = req.truth
          BY <1>2, <3>1, <3>2
        <4> QED
          BY <1>1, <1>4, <3>2, <4>1
      <3>3. CASE i # depth
        <4>1. i \in 1..depth - 1
          BY <1>1, <1>4, <2>7, <3>3
        <4> QED
          BY <1>1, <1>2, <3>1, <4>1
      <3> QED
        BY <3>2, <3>3
    <2> QED
      BY <2>6, <2>7 DEF Judged
  <1> QED
    BY <1>1, <1>3, <1>4 DEF Passing

-----------------------------------------------------------------------------
(* What the outermost of those that have not been called, or have returned, *)
(* has sent.                                                                *)

\* It can come encoded from there,
Encoded(i) == req.coded \/ \E j \in i..Len(pipe) : pipe[j] = "gzip"

\* and to a GZipMiddleware.
Recoded(i) == \E j \in i..Len(pipe) : pipe[j] = "gzip" /\ Encoded(j + 1)

RefusedBy(k, rightly) == \E i \in 1..Len(pipe) : pipe[i] = k /\ (Settled(i) => rightly)

\* The two statuses that are given for who the client is.
Sourced(status) ==
  /\ status = 307 => RefusedBy("https", req.truth.scheme = "http")
  /\ status = 400 => RefusedBy("host", req.truth.host # "allowed")

\* The lines that each of the middlewares adds.
Additions == [i \in 1..Len(pipe) |-> ToSet(AddedLines(pipe[i]))]

\* Those of the positions from e on are in a start message, at least by name.
Reached(e, s) ==
  \A i \in e..Len(pipe) : \A l \in Additions[i] :
    /\ \E x \in ToSet(s.lines) : x.name = l.name
    /\ (\A j \in e..Len(pipe) : pipe[j] # "hooks") => l \in ToSet(s.lines)

\* The application has answered with all it has.
Whole(c, e, w) ==
  /\ w.start[1].status = c.status /\ w.ended
  /\ req.method # "HEAD" =>
       w.raw = c.chunks /\ (~c.moved => w.start[1].lens \in {<<>>, <<w.size>>})
  /\ Reached(e, w.start[1])

\* Its status is the application's, or one for who the client is; and if the
\* application's answer was not lost, it is that one.
SaidBy(c, x, e, w) ==
  /\ w.start # <<>> => Sourced(w.start[1].status)
  /\ c.pc = "sent" /\ ~c.failed => x = "none" /\ (w.start # <<>> => Whole(c, e, w))

Orderly(e, w) ==
  /\ w.disorder => Recoded(e)
  /\ w.start # <<>> /\ w.start[1].coded => Encoded(e)

Spoken ==
  phase \in {"out", "done"} =>
    SaidBy(core, exc, Edge, sent[Edge]) /\ (Untorn => Orderly(Edge, sent[Edge]))

\* The lines that are added stay those.
LEMMA SameAdditions ==
  ASSUME UNCHANGED <<pipe, req>>
  PROVE  Additions' = Additions
  <1>1. ASSUME NEW i PROVE ToSet(AddedLines(pipe[i]))' = ToSet(AddedLines(pipe[i]))
    BY SameLines DEF ToSet, AddedLines, SessionLines, CsrfLines, CorsLines, SecurityLines,
       TimingLines, Identified, SafeMethod
  <1> QED
    BY <1>1 DEF Additions

\* What has been said is so after a step.
LEMMA SaidThen ==
  ASSUME UNCHANGED <<pipe, req>>, NEW c, NEW x, NEW e, NEW w, SaidBy(c, x, e, w),
         Untorn' => Orderly(e, w),
         core' = c, exc' = x, Edge' = e, sent'[e] = w
  PROVE  Spoken'
  <1>1. Additions' = Additions
    BY SameAdditions
  <1>2. /\ w.start # <<>> => Sourced(w.start[1].status)'
        /\ Orderly(e, w) => Orderly(e, w)'
    BY DEF SaidBy, Orderly, Recoded, Encoded, Sourced, RefusedBy, Settled
  <1>3. Reached(e, w.start[1]) => Reached(e, w.start[1])'
    BY <1>1 DEF Reached
  <1>4. c.pc = "sent" /\ ~c.failed => x = "none" /\ (w.start # <<>> => Whole(c, e, w)')
    BY <1>3 DEF SaidBy, Whole
  <1>5. SaidBy(c, x, e, w)' /\ (Untorn' => Orderly(e, w)')
    BY <1>2, <1>4 DEF SaidBy
  <1> QED
    BY <1>5 DEF Spoken, SaidBy, Orderly, Whole, Reached, Recoded, Encoded, Sourced, RefusedBy,
       Settled

\* A middleware's own answer, or none.
LEMMA SpokenTurned ==
  ASSUME Stands, Asked, Judged, Turned
  PROVE  Spoken'
  <1> DEFINE w == sent'[depth]
             c == core'
             x == exc'
  <1>1. /\ phase \in {"in", "read"} /\ depth \in 1..Inner /\ Edge' = depth
        /\ UNCHANGED <<pipe, req>> /\ c.pc = "begin" /\ TurnedAway(w)
        /\ Len(pipe) \in Nat /\ Inner = Len(pipe) + 1
    BY StandsFacts DEF Turned
  <1>2. view = IF Settled(depth) THEN req.truth ELSE Unproxied
    BY <1>1 DEF Judged
  <1>3. ASSUME w.start # <<>>
        PROVE  Sourced(w.start[1].status)
    <2>2. w.start[1].status = 307 => RefusedBy("https", req.truth.scheme = "http")
      BY <1>1, <1>2, <1>3 DEF TurnedAway, RefusedBy
    <2>3. w.start[1].status = 400 => RefusedBy("host", req.truth.host # "allowed")
      BY <1>1, <1>2, <1>3 DEF TurnedAway, RefusedBy
    <2> QED
      BY <2>2, <2>3 DEF Sourced
  <1>4. Orderly(depth, w)
    BY <1>1 DEF TurnedAway, Orderly
  <1>6. SaidBy(c, x, depth, w)
    BY <1>1, <1>3 DEF SaidBy
  <1> HIDE DEF w, c, x
  <1>7. core' = c /\ exc' = x /\ sent'[depth] = w
    BY DEF w, c, x
  <1> QED
    BY <1>1, <1>4, <1>6, <1>7, SaidThen

\* The application's.
LEMMA SpokenCore ==
  ASSUME Stands, CoreGoes, phase' = "out"
  PROVE  Spoken'
  <1> DEFINE w == sent'[Inner]
             c == core'
             x == exc'
  <1>1. /\ UNCHANGED <<pipe, req>> /\ Edge' = Inner /\ CoreSays' /\ Inner' = Inner
        /\ Len(pipe) \in Nat /\ Inner = Len(pipe) + 1
    BY StandsFacts DEF CoreGoes, Inner
  <1>2. /\ ~w.disorder
        /\ w.start # <<>> => /\ w.start[1].status \notin {307, 400}
                             /\ w.start[1].coded => req.coded
        /\ c.pc = "sent" /\ ~c.failed =>
             /\ x = "none"
             /\ w.start # <<>> =>
                  /\ w.start[1].status = c.status /\ w.ended
                  /\ req.method # "HEAD" =>
                       /\ w.raw = c.chunks
                       /\ ~c.moved => w.start[1].lens \in {<<>>, <<w.size>>}
    BY <1>1 DEF CoreSays, Answered
  <1> HIDE DEF w, c, x
  <1>3. ASSUME NEW s PROVE Reached(Inner, s)
    BY <1>1 DEF Reached
  <1>4. ASSUME w.start # <<>>
        PROVE  Sourced(w.start[1].status)
    BY <1>2, <1>4 DEF Sourced
  <1>5. SaidBy(c, x, Inner, w)
    BY <1>2, <1>3, <1>4 DEF SaidBy, Whole
  <1>6. core' = c /\ exc' = x /\ sent'[Inner] = w
    BY DEF w, c, x
  <1>7. Orderly(Inner, w)
    BY <1>2 DEF Orderly, Encoded
  <1> QED
    BY <1>1, <1>5, <1>6, <1>7, SaidThen

\* From one position to the one outside of it.
LEMMA OneMore ==
  ASSUME NEW d \in 1..Len(pipe), Len(pipe) \in Nat
  PROVE  /\ \A j : j \in d..Len(pipe) <=> j = d \/ j \in d + 1..Len(pipe)
         /\ Encoded(d + 1) => Encoded(d)
         /\ Recoded(d + 1) => Recoded(d)
         /\ pipe[d] = "gzip" => Encoded(d) /\ (Encoded(d + 1) => Recoded(d))
  <1>1. \A j : j \in d..Len(pipe) <=> j = d \/ j \in d + 1..Len(pipe)
    OBVIOUS
  <1>2. /\ Encoded(d + 1) => Encoded(d)
        /\ pipe[d] = "gzip" => Encoded(d)
    BY <1>1 DEF Encoded
  <1>3. /\ Recoded(d + 1) => Recoded(d)
        /\ pipe[d] = "gzip" => (Encoded(d + 1) => Recoded(d))
    BY <1>1 DEF Recoded
  <1> QED
    BY <1>1, <1>2, <1>3

\* The lines of all go on through one that adds its own, or of all names
\* through one that rebuilds.
LEMMA ReachedOn ==
  ASSUME NEW d \in 1..Len(pipe), Len(pipe) \in Nat, NEW in, NEW o,
         KeptStart(pipe[d], in, o), Reached(d + 1, in.start[1])
  PROVE  Reached(d, o.start[1])
  <1> DEFINE a == in.start[1]
             b == o.start[1]
             k == pipe[d]
  <1>1. /\ NamesIn(a, b)
        /\ k # "hooks" => LinesIn(a, b) /\ ToSet(AddedLines(k)) \subseteq ToSet(b.lines)
        /\ k = "hooks" => AddedLines(k) = <<>>
    BY DEF KeptStart
  <1>2. Reached(d + 1, a)
    OBVIOUS
  <1> HIDE DEF a, b
  <1>3. ToSet(<<>>) = {}
    BY DEF ToSet
  <1>4. Additions[d] = ToSet(AddedLines(k))
    BY DEF Additions
  <1>5. ASSUME NEW i \in d..Len(pipe), NEW l \in Additions[i]
        PROVE  /\ \E x \in ToSet(b.lines) : x.name = l.name
               /\ (\A j \in d..Len(pipe) : pipe[j] # "hooks") => l \in ToSet(b.lines)
    <2>1. CASE i = d
      <3>1. k # "hooks" /\ l \in ToSet(b.lines)
        BY <1>1, <1>3, <1>4, <1>5, <2>1
      <3> QED
        BY <3>1
    <2>2. CASE i # d
      <3>1. i \in d + 1..Len(pipe)
        BY <1>5, <2>2
      <3>2. PICK y \in ToSet(a.lines) : y.name = l.name
        BY <1>2, <1>5, <3>1 DEF Reached
      <3>3. \E x \in ToSet(b.lines) : x.name = l.name
        <4>1. PICK x \in ToSet(b.lines) : x.name = y.name
          BY <1>1, <3>2 DEF NamesIn
        <4> QED
          BY <3>2, <4>1
      <3>4. ASSUME \A j \in d..Len(pipe) : pipe[j] # "hooks" PROVE l \in ToSet(b.lines)
        <4>1. (\A j \in d + 1..Len(pipe) : pipe[j] # "hooks") /\ k # "hooks"
          BY <3>4, OneMore
        <4>2. l \in ToSet(a.lines)
          BY <1>2, <1>5, <3>1, <4>1 DEF Reached
        <4> QED
          BY <1>1, <4>1, <4>2 DEF LinesIn
      <3> QED
        BY <3>3, <3>4
    <2> QED
      BY <2>1, <2>2
  <1>6. Reached(d, b)
    BY <1>5 DEF Reached
  <1> QED
    BY <1>6 DEF b

\* What is left of the answer when one more has returned.
LEMMA WholeOn ==
  ASSUME NEW d \in 1..Len(pipe), Len(pipe) \in Nat, NEW in, NEW o, NEW c, Whole(c, d + 1, in),
         Kept(pipe[d], in, o), o.start # <<>>
  PROVE  Whole(c, d, o)
  <1>1. /\ Whole(c, d + 1, in) /\ KeptStart(pipe[d], in, o)
        /\ o.start[1].status = in.start[1].status /\ (in.ended => o.ended /\ o.raw = in.raw)
    BY DEF Kept, KeptStart
  <1>2. Reached(d, o.start[1])
    BY <1>1, ReachedOn DEF Whole
  <1>3. in.ended /\ o.ended /\ o.raw = in.raw /\ o.start[1].status = c.status
    BY <1>1 DEF Whole
  <1>4. ASSUME req.method # "HEAD" PROVE o.raw = c.chunks
    BY <1>1, <1>3, <1>4 DEF Whole
  <1>5. ASSUME req.method # "HEAD", ~c.moved PROVE o.start[1].lens \in {<<>>, <<o.size>>}
    <2>1. in.start[1].lens \in {<<>>, <<in.size>>}
      BY <1>1, <1>5 DEF Whole
    <2>2. CASE o.start[1].lens = in.start[1].lens /\ o.size = in.size
      BY <2>1, <2>2
    <2>3. CASE o.start[1].lens \in {<<>>, <<o.size>>}
      BY <2>3
    <2> QED
      BY <1>1, <1>3, <2>2, <2>3 DEF KeptStart
  <1> QED
    BY <1>2, <1>3, <1>4, <1>5 DEF Whole

\* And its order.
LEMMA OrderlyOn ==
  ASSUME NEW d \in 1..Len(pipe), Len(pipe) \in Nat, NEW in, NEW o,
         Orderly(d + 1, in), Ordered(pipe[d], in, o)
  PROVE  Orderly(d, o)
  <1>1. /\ Encoded(d + 1) => Encoded(d)
        /\ Recoded(d + 1) => Recoded(d)
        /\ pipe[d] = "gzip" => Encoded(d) /\ (Encoded(d + 1) => Recoded(d))
    BY OneMore
  <1> QED
    BY <1>1 DEF Orderly, Ordered

\* Answers of the same statuses.
LEMMA SameStatus ==
  ASSUME NEW a \in Outputs, NEW b \in Outputs, Opens(a.start) = Opens(b.start)
  PROVE  /\ StatusOf(a) = StatusOf(b)
         /\ a.start # <<>> <=> b.start # <<>>
         /\ a.start # <<>> => a.start[1].status = b.start[1].status
  <1>1. /\ a.start # <<>> => Opens(a.start) = {a.start[1].status}
        /\ a.start = <<>> <=> Opens(a.start) = {}
        /\ b.start # <<>> => Opens(b.start) = {b.start[1].status}
        /\ b.start = <<>> <=> Opens(b.start) = {}
    BY OutputFacts
  <1> QED
    BY <1>1 DEF StatusOf

\* The status goes on, or is none of the two that are judged.
LEMMA SourcedOn ==
  ASSUME NEW k, NEW st, NEW in \in Outputs, NEW o \in Outputs, Tells(k, st, in, o),
         in.start # <<>> => Sourced(in.start[1].status), o.start # <<>>
  PROVE  Sourced(o.start[1].status)
  <1>1. CASE Opens(o.start) = Opens(in.start)
    <2>1. in.start # <<>> /\ o.start[1].status = in.start[1].status
      BY <1>1, SameStatus
    <2> QED
      BY <2>1
  <1>2. CASE Opens(o.start) \subseteq {422, 500, 503}
    <2>0. Opens(o.start) = {o.start[1].status}
      BY OutputFacts
    <2>1. o.start[1].status \in {422, 500, 503}
      BY <1>2, <2>0
    <2> QED
      BY <2>1 DEF Sourced
  <1> QED
    BY <1>1, <1>2 DEF Tells

\* What has been said holds one position further out.
LEMMA SpokenOn ==
  ASSUME Stands, Spoken, Stands', core \in Cores, OneReturns
  PROVE  Spoken'
  <1> DEFINE in == sent[depth + 1]
             o == sent'[depth]
             c == core'
             x == exc'
             d == depth
  <1>1. /\ phase = "out" /\ phase' = "out" /\ depth \in 1..Len(pipe) /\ depth' = depth - 1
        /\ UNCHANGED <<pipe, req>> /\ HandsOn /\ Goes /\ (Untorn' => Untorn)
        /\ Len(pipe) \in Nat /\ Inner = Len(pipe) + 1
    BY StandsFacts DEF OneReturns
  <1>2. Edge = depth + 1 /\ Edge' = depth
    BY <1>1 DEF Edge
  <1>3. SaidBy(core, exc, d + 1, in) /\ (Untorn => Orderly(d + 1, in))
    BY <1>1, <1>2 DEF Spoken
  <1>4. in \in Outputs /\ o \in Outputs
    <2>1. sent \in [1..Inner -> Outputs] /\ (sent \in [1..Inner -> Outputs])'
      BY DEF Stands, Linked, Piped
    <2>2. Inner' = Inner /\ depth \in 1..Inner /\ depth + 1 \in 1..Inner
      BY <1>1 DEF Inner
    <2> QED
      BY <2>1, <2>2
  <1>5. /\ Tells(pipe[d], mw'[d], in, o)
        /\ Untorn' => Ordered(pipe[d], in, o)
        /\ ~core'.failed /\ exc = "none" => Kept(pipe[d], in, o) /\ exc' = exc
    BY <1>1 DEF HandsOn
  <1>6. o.start # <<>> => Sourced(o.start[1].status)
    <2> HIDE DEF in, o
    <2> QED
      BY <1>3, <1>4, <1>5, SourcedOn DEF SaidBy
  <1>7. ~c.failed => c = core
    BY <1>1 DEF Goes, Cores
  <1>8. ASSUME c.pc = "sent", ~c.failed
        PROVE  x = "none" /\ (o.start # <<>> => Whole(c, d, o))
    <2>1. exc = "none" /\ (in.start # <<>> => Whole(c, d + 1, in))
      BY <1>3, <1>7, <1>8 DEF SaidBy
    <2>2. Kept(pipe[d], in, o) /\ x = "none"
      BY <1>5, <1>8, <2>1
    <2>3. o.start # <<>> => in.start # <<>>
      BY <2>2 DEF Kept
    <2> HIDE DEF in, o, c
    <2> QED
      BY <1>1, <2>1, <2>2, <2>3, WholeOn
  <1>9. Untorn' => Orderly(d, o)
    <2> HIDE DEF in, o
    <2> QED
      BY <1>1, <1>3, <1>5, OrderlyOn
  <1>10. SaidBy(c, x, d, o)
    BY <1>6, <1>8 DEF SaidBy
  <1> HIDE DEF o, c, x
  <1>11. core' = c /\ exc' = x /\ Edge' = d /\ sent'[d] = o
    BY <1>1, <1>2 DEF o, c, x
  <1> QED
    BY <1>1, <1>9, <1>10, <1>11, SaidThen

-----------------------------------------------------------------------------
(* The gauge and the counter                                                *)

\* As the answer says; or as it said before a hook middleware gave another one or
\* none, or an ErrorHandlerMiddleware one for an error of the request.
CountedAs(i, e, w) ==
  /\ mw[i].inside = 0
  /\ \E n : /\ mw[i].counts = <<n>>
            /\ \/ n = StatusOf(w)
               \/ \E j \in e..i - 1 : pipe[j] = "hooks" /\ mw[j].spoilt
               \/ /\ n = 500 /\ Opens(w.start) = {422}
                  /\ \E j \in e..i - 1 : pipe[j] = "errors"

\* Of those that have returned, or were not called.
Tallied ==
  phase \in {"out", "done"} =>
    \A i \in Edge..Len(pipe) :
      pipe[i] \in Counting /\ (mw[i].counts # <<>> \/ mw[i].inside # 0) =>
        CountedAs(i, Edge, sent[Edge])

\* Those that were not called do not count,
LEMMA TalliedTurned ==
  ASSUME Turned
  PROVE  Tallied'
  <1>1. Edge' = depth /\ UNCHANGED pipe /\ \A i \in depth..Len(pipe) : mw'[i] = Fresh
    BY DEF Turned
  <1>2. ASSUME NEW i \in Edge'..Len(pipe) PROVE mw'[i].counts = <<>> /\ mw'[i].inside = 0
    BY <1>1, <1>2 DEF Fresh
  <1> QED
    BY <1>1, <1>2 DEF Tallied

\* and those that have not returned have not counted.
LEMMA TalliedCore ==
  ASSUME Stands, CoreGoes, phase' = "out"
  PROVE  Tallied'
  <1>1. UNCHANGED pipe /\ Edge' = Inner /\ Inner = Len(pipe) + 1 /\ Len(pipe) \in Nat
    BY StandsFacts DEF CoreGoes
  <1>2. ~\E i \in Edge'..Len(pipe) : TRUE
    BY <1>1
  <1> QED
    BY <1>1, <1>2 DEF Tallied

\* It has given another response than the one it captured, or none.
Drops(k, st) == k = "hooks" /\ st.spoilt

\* The status goes on with the answer, with two exceptions.
LEMMA StatusOn ==
  ASSUME NEW k, NEW st, NEW in \in Outputs, NEW o \in Outputs, Tells(k, st, in, o)
  PROVE  \/ StatusOf(o) = StatusOf(in) /\ Opens(o.start) = Opens(in.start)
         \/ Drops(k, st)
         \/ /\ k = "errors" /\ StatusOf(in) = 500 /\ Opens(in.start) = {}
            /\ StatusOf(o) = 500 \/ Opens(o.start) = {422}
  <1>1. CASE Opens(o.start) = Opens(in.start)
    BY <1>1, SameStatus
  <1>2. CASE k = "errors" /\ in.start = <<>> /\ Opens(o.start) \subseteq {422, 500}
    <2>1. StatusOf(in) = 500 /\ Opens(in.start) = {}
      BY <1>2 DEF StatusOf, Opens
    <2>2. StatusOf(o) = 500 \/ Opens(o.start) = {422}
      <3>1. CASE o.start = <<>>
        BY <3>1 DEF StatusOf
      <3>2. CASE o.start # <<>>
        BY <1>2, <3>2, OutputFacts DEF StatusOf
      <3> QED
        BY <3>1, <3>2
    <2> QED
      BY <1>2, <2>1, <2>2
  <1> QED
    BY <1>1, <1>2 DEF Tells, Drops

\* One more has counted, and the others as the answer still is.
LEMMA TalliedOn ==
  ASSUME Stands, Tallied, Stands', OneReturns
  PROVE  Tallied'
  <1> DEFINE in == sent[depth + 1]
             o == sent'[depth]
  <1>1. /\ phase = "out" /\ phase' = "out" /\ depth \in 1..Len(pipe) /\ depth' = depth - 1
        /\ UNCHANGED <<pipe, req>> /\ HandsOn
        /\ \A i \in depth + 1..Len(pipe) : mw'[i] = mw[i]
        /\ pipe[depth] \in Counting =>
             /\ mw'[depth].inside = 0 /\ mw'[depth].counts = <<StatusOf(in)>>
        /\ Len(pipe) \in Nat /\ Inner = Len(pipe) + 1
    BY StandsFacts DEF OneReturns
  <1>2. Edge = depth + 1 /\ Edge' = depth
    BY <1>1 DEF Edge
  <1>3. in \in Outputs /\ o \in Outputs
    <2>1. sent \in [1..Inner -> Outputs] /\ (sent \in [1..Inner -> Outputs])'
      BY DEF Stands, Linked, Piped
    <2>2. Inner' = Inner /\ depth \in 1..Inner /\ depth + 1 \in 1..Inner
      BY <1>1 DEF Inner
    <2> QED
      BY <2>1, <2>2
  <1>4. \/ StatusOf(o) = StatusOf(in) /\ Opens(o.start) = Opens(in.start)
        \/ pipe[depth] = "hooks" /\ mw'[depth].spoilt
        \/ /\ pipe[depth] = "errors" /\ StatusOf(in) = 500 /\ Opens(in.start) = {}
           /\ StatusOf(o) = 500 \/ Opens(o.start) = {422}
    <2> DEFINE st == mw'[depth]
               k == pipe[depth]
    <2>1. Tells(k, st, in, o)
      BY <1>1 DEF HandsOn
    <2> HIDE DEF in, o, st, k
    <2>2. \/ StatusOf(o) = StatusOf(in) /\ Opens(o.start) = Opens(in.start)
          \/ Drops(k, st)
          \/ /\ k = "errors" /\ StatusOf(in) = 500 /\ Opens(in.start) = {}
             /\ StatusOf(o) = 500 \/ Opens(o.start) = {422}
      BY <1>3, <2>1, StatusOn
    <2> QED
      BY <2>2 DEF st, k, Drops
  <1>5. ASSUME NEW i \in depth..Len(pipe), pipe[i] \in Counting,
               mw'[i].counts # <<>> \/ mw'[i].inside # 0
        PROVE  /\ mw'[i].inside = 0
               /\ \E n : /\ mw'[i].counts = <<n>>
                         /\ \/ n = StatusOf(o)
                            \/ \E j \in depth..i - 1 : pipe[j] = "hooks" /\ mw'[j].spoilt
                            \/ /\ n = 500 /\ Opens(o.start) = {422}
                               /\ \E j \in depth..i - 1 : pipe[j] = "errors"
    <2>1. CASE i = depth
      <3>1. pipe[depth] # "hooks" /\ pipe[depth] # "errors"
        BY <1>5, <2>1 DEF Counting
      <3> QED
        BY <1>1, <1>4, <1>5, <2>1, <3>1
    <2>2. CASE i # depth
      <3>1. i \in depth + 1..Len(pipe) /\ mw'[i] = mw[i]
        BY <1>1, <1>5, <2>2
      <3>2. CountedAs(i, depth + 1, in)
        BY <1>1, <1>2, <1>5, <3>1 DEF Tallied
      <3>3. PICK n : /\ mw[i].counts = <<n>>
                     /\ \/ n = StatusOf(in)
                        \/ \E j \in depth + 1..i - 1 : pipe[j] = "hooks" /\ mw[j].spoilt
                        \/ /\ n = 500 /\ Opens(in.start) = {422}
                           /\ \E j \in depth + 1..i - 1 : pipe[j] = "errors"
        BY <3>2 DEF CountedAs
      <3>4. /\ depth \in depth..i - 1
            /\ \A j \in depth + 1..i - 1 : j \in depth..i - 1 /\ j \in depth + 1..Len(pipe)
        BY <1>1, <3>1
      <3> HIDE DEF in, o
      <3>5. \/ n = StatusOf(o)
            \/ \E j \in depth..i - 1 : pipe[j] = "hooks" /\ mw'[j].spoilt
            \/ /\ n = 500 /\ Opens(o.start) = {422}
               /\ \E j \in depth..i - 1 : pipe[j] = "errors"
        <4>1. CASE \E j \in depth + 1..i - 1 : pipe[j] = "hooks" /\ mw[j].spoilt
          BY <1>1, <3>4, <4>1
        <4>2. CASE n = StatusOf(in)
          BY <1>4, <3>4, <4>2
        <4>3. CASE /\ n = 500 /\ Opens(in.start) = {422}
                   /\ \E j \in depth + 1..i - 1 : pipe[j] = "errors"
          BY <1>4, <3>4, <4>3
        <4> QED
          BY <3>3, <4>1, <4>2, <4>3
      <3> QED
        BY <3>1, <3>2, <3>3, <3>5 DEF CountedAs
    <2> QED
      BY <2>1, <2>2
  <1>6. ASSUME NEW i \in Edge'..Len(pipe'), pipe'[i] \in Counting,
               mw'[i].counts # <<>> \/ mw'[i].inside # 0
        PROVE  CountedAs(i, Edge, sent[Edge])'
    <2>1. i \in depth..Len(pipe) /\ pipe[i] \in Counting /\ pipe' = pipe
      BY <1>1, <1>2, <1>6
    <2>2. sent'[Edge'] = o
      BY <1>2
    <2>3. /\ mw'[i].inside = 0
          /\ \E n : /\ mw'[i].counts = <<n>>
                    /\ \/ n = StatusOf(o)
                       \/ \E j \in depth..i - 1 : pipe[j] = "hooks" /\ mw'[j].spoilt
                       \/ /\ n = 500 /\ Opens(o.start) = {422}
                          /\ \E j \in depth..i - 1 : pipe[j] = "errors"
      BY <1>5, <1>6, <2>1
    <2> HIDE DEF o
    <2> QED
      BY <1>2, <2>1, <2>2, <2>3 DEF CountedAs
  <1> QED
    BY <1>6 DEF Tallied

-----------------------------------------------------------------------------
(* Reading the request                                                      *)

Readers == [got : Nat, replay : Seq(Nat), seen : Seq(Nat), taken : BOOLEAN]

\* As long as the client is there, what was read and what is left of it are
\* what it sends; so is what a reader has found at the end, unless a
\* before_request has taken it.
ReaderOK ==
  /\ client \in [left : Nat, gone : BOOLEAN]
  /\ reader \in Readers
  /\ ~client.gone /\ ~reader.taken =>
       /\ phase \in {"in", "read"} /\ reader.replay = <<>> =>
            reader.got + client.left = req.chunks
       /\ reader.replay # <<>> => reader.replay = <<req.chunks>>
       /\ reader.seen # <<>> => reader.seen = <<req.chunks>>
  /\ reader.replay # <<>> => \E n \in Nat : reader.replay = <<n>>

\* No one reads.
LEMMA ReaderStays ==
  ASSUME ReaderOK, UNCHANGED <<req, client, reader>>,
         phase' \in {"in", "read"} => phase \in {"in", "read"}
  PROVE  ReaderOK'
  BY DEF ReaderOK

\* The last message has come.
LEMMA ReaderEnds ==
  ASSUME ReaderOK, NEW n \in Nat, ReadToEnd(n), UNCHANGED req,
         client' \in [left : Nat, gone : BOOLEAN], client'.gone = client.gone,
         ~client.gone /\ ~reader.taken => n = req.chunks
  PROVE  ReaderOK'
  <1> DEFINE all == <<n>>
  <1>1. /\ reader \in Readers
        /\ reader.replay # <<>> => \E m \in Nat : reader.replay = <<m>>
        /\ ~client.gone /\ ~reader.taken =>
             /\ reader.replay # <<>> => reader.replay = <<req.chunks>>
             /\ reader.seen # <<>> => reader.seen = <<req.chunks>>
    BY DEF ReaderOK
  <1>2. all \in Seq(Nat) /\ all # <<>> /\ all = <<n>>
    OBVIOUS
  <1> HIDE DEF all
  <1>3. CASE ReadingCore
    <2>1. reader' = [reader EXCEPT !.seen = all] /\ phase' = "core"
      BY <1>3 DEF ReadToEnd, ToPhase, all
    <2>2. /\ reader' \in Readers
          /\ reader'.replay = reader.replay /\ reader'.seen = all
          /\ reader'.taken = reader.taken
      BY <1>1, <1>2, <2>1 DEF Readers
    <2> QED
      BY <1>1, <1>2, <2>1, <2>2 DEF ReaderOK
  <1>4. CASE ~ReadingCore
    <2> DEFINE none == 0
    <2>1. none \in Nat
      OBVIOUS
    <2>2. reader' = [reader EXCEPT !.got = none, !.replay = all]
      BY <1>4 DEF ReadToEnd, all
    <2> HIDE DEF none
    <2>3. /\ reader' \in Readers
          /\ reader'.replay = all /\ reader'.seen = reader.seen
          /\ reader'.taken = reader.taken
      BY <1>1, <1>2, <2>1, <2>2 DEF Readers
    <2> QED
      BY <1>1, <1>2, <2>3 DEF ReaderOK
  <1> QED
    BY <1>3, <1>4

\* Or it is too much.
LEMMA ReaderStops ==
  ASSUME ReaderOK, RaiseTooLarge, UNCHANGED req,
         client' \in [left : Nat, gone : BOOLEAN], client'.gone = client.gone
  PROVE  ReaderOK'
  <1>1. phase' = "core" /\ reader' = reader
    BY DEF RaiseTooLarge, ToPhase
  <1> QED
    BY <1>1 DEF ReaderOK

\* Whatever is received, and if the client leaves.
LEMMA ReaderStep ==
  ASSUME ReaderOK, Receives \/ ClientLeaves
  PROVE  ReaderOK'
  <1>1. /\ client \in [left : Nat, gone : BOOLEAN] /\ client.left \in Nat
        /\ reader \in Readers /\ reader.got \in Nat
    BY DEF ReaderOK, Readers
  <1>2. CASE ReceiveChunk
    <2> DEFINE less == client.left - 1
               n == reader.got + 1
    <2>1. /\ phase = "read" /\ reader.replay = <<>> /\ client.left > 0 /\ ~client.gone
          /\ client' = [client EXCEPT !.left = less] /\ UNCHANGED req
          /\ ~reader.taken => reader.got + client.left = req.chunks
      BY <1>2 DEF ReceiveChunk, Replayed, Given, ReaderOK
    <2>2. /\ less \in Nat /\ n \in Nat
          /\ ~reader.taken => n + less = req.chunks /\ (~(client.left > 1) => n = req.chunks)
      <3> DEFINE l == client.left
                 g == reader.got
      <3>1. l \in Nat /\ g \in Nat /\ l > 0 /\ (~reader.taken => g + l = req.chunks)
        BY <1>1, <2>1
      <3> HIDE DEF l, g
      <3>2. l - 1 \in Nat /\ g + 1 \in Nat /\ (g + 1) + (l - 1) = g + l
            /\ (~(l > 1) => g + 1 = g + l)
        BY <3>1
      <3> QED
        BY <3>1, <3>2 DEF l, g
    <2>3. \/ RaiseTooLarge
          \/ /\ reader' = [reader EXCEPT !.got = n] /\ UNCHANGED phase
          \/ ~(client.left > 1) /\ ReadToEnd(n)
      BY <1>2 DEF ReceiveChunk
    <2> HIDE DEF less, n
    <2>4. client' \in [left : Nat, gone : BOOLEAN] /\ client'.left = less /\ client'.gone = client.gone
      BY <1>1, <2>1, <2>2
    <2>5. CASE reader' = [reader EXCEPT !.got = n] /\ UNCHANGED phase
      <3>1. /\ reader' \in Readers /\ reader'.got = n
            /\ reader'.replay = reader.replay /\ reader'.seen = reader.seen
            /\ reader'.taken = reader.taken
        BY <1>1, <2>2, <2>5 DEF Readers
      <3> QED
        BY <2>1, <2>2, <2>4, <2>5, <3>1 DEF ReaderOK
    <2>6. CASE ~(client.left > 1) /\ ReadToEnd(n)
      BY <2>1, <2>2, <2>4, <2>6, ReaderEnds
    <2> QED
      BY <2>1, <2>3, <2>4, <2>5, <2>6, ReaderStops
  <1>3. CASE ReceiveNothing
    <2> DEFINE n == reader.got
    <2>1. /\ phase = "read" /\ reader.replay = <<>> /\ (client.left = 0 \/ client.gone)
          /\ ReadToEnd(n) /\ UNCHANGED <<req, client>>
      BY <1>3 DEF ReceiveNothing, Replayed, Given
    <2>2. n \in Nat /\ (~client.gone /\ ~reader.taken => n = req.chunks)
      BY <1>1, <2>1 DEF ReaderOK
    <2> HIDE DEF n
    <2>3. client' \in [left : Nat, gone : BOOLEAN] /\ client'.gone = client.gone
      BY <1>1, <2>1
    <2> QED
      BY <2>1, <2>2, <2>3, ReaderEnds
  <1>4. CASE ReceiveReplay
    <2> DEFINE n == Last(reader.replay)
    <2>1. /\ reader.replay # <<>> /\ (RaiseTooLarge \/ ReadToEnd(n))
          /\ UNCHANGED <<req, client>>
      BY <1>4 DEF ReceiveReplay, Replayed, Given
    <2>2. n \in Nat /\ (~client.gone /\ ~reader.taken => n = req.chunks)
      <3>1. PICK m \in Nat : reader.replay = <<m>>
        BY <2>1 DEF ReaderOK
      <3>2. n = m
        BY <3>1 DEF Last
      <3>3. ~client.gone /\ ~reader.taken => <<m>> = <<req.chunks>>
        BY <2>1, <3>1 DEF ReaderOK
      <3> QED
        BY <3>2, <3>3
    <2> HIDE DEF n
    <2>3. client' \in [left : Nat, gone : BOOLEAN] /\ client'.gone = client.gone
      BY <1>1, <2>1
    <2> QED
      BY <2>1, <2>2, <2>3, ReaderEnds, ReaderStops
  <1>5. CASE ClientLeaves
    <2> DEFINE yes == TRUE
    <2>1. /\ client' = [client EXCEPT !.gone = yes] /\ yes \in BOOLEAN /\ yes
          /\ UNCHANGED reader
      BY <1>5 DEF ClientLeaves
    <2> HIDE DEF yes
    <2>2. client' \in [left : Nat, gone : BOOLEAN] /\ client'.gone
      BY <1>1, <2>1
    <2> QED
      BY <2>1, <2>2 DEF ReaderOK
  <1> QED
    BY <1>2, <1>3, <1>4, <1>5 DEF Receives

\* before_request may read it.
LEMMA ReaderTakes ==
  ASSUME ReaderOK, phase = "in", UNCHANGED req, TakesBody
  PROVE  ReaderOK'
  <1> DEFINE yes == TRUE
             none == 0
  <1>0. yes \in BOOLEAN /\ none \in Nat
    OBVIOUS
  <1>1. yes
    OBVIOUS
  <1>2. client' = [client EXCEPT !.left = none] /\ reader' = [reader EXCEPT !.taken = yes]
    BY DEF TakesBody
  <1> HIDE DEF yes, none
  <1>3. client \in [left : Nat, gone : BOOLEAN] /\ reader \in Readers
    BY DEF ReaderOK
  <1>4. client' \in [left : Nat, gone : BOOLEAN]
    BY <1>0, <1>2, <1>3
  <1>5. reader' \in Readers
    BY <1>0, <1>2, <1>3 DEF Readers
  <1>6. reader'.taken = yes /\ reader'.replay = reader.replay
    BY <1>2, <1>3 DEF Readers
  <1> QED
    BY <1>1, <1>4, <1>5, <1>6 DEF ReaderOK

\* A middleware that is called leaves it alone but for that.
LEMMA ReaderEnters ==
  ASSUME ReaderOK, Enters
  PROVE  ReaderOK'
  <1>1. /\ UNCHANGED req /\ phase = "in"
        /\ TakesBody \/ UNCHANGED <<client, reader>>
    BY DEF Enters, EnterThrough, EnterProxy, EnterHost, EnterHttps, EnterLimits, EnterCors,
       EnterCounting, EnterHooks, EnterCsrf, Guard, Entering, Given
  <1> QED
    BY <1>1, ReaderTakes, ReaderStays

-----------------------------------------------------------------------------
(* The invariant. It has two layers. Every position carries on what it is   *)
(* sent (Linked): the status, the count and the lines of the answer, which  *)
(* hold through every cut. As long as no GZipMiddleware was cut off before  *)
(* it set _started (Untorn) it passes it on in order, to the byte (Placed); *)
(* what is told of the order rests on that.                                 *)

ExchangeInv == Stands /\ Asked /\ Judged /\ Spoken /\ Tallied /\ ReaderOK

\* Nobody new has been called.
LEMMA JudgedStays ==
  ASSUME Judged, UNCHANGED <<pipe, req, view, depth>>,
         phase' \in {"in", "read", "core"} => phase \in {"in", "read", "core"}
  PROVE  Judged'
  <1>1. ASSUME NEW i PROVE Settled(i)' <=> Settled(i)
    BY DEF Settled
  <1>2. Settled(depth)' <=> Settled(depth)
    BY DEF Settled
  <1>3. Unproxied' = Unproxied
    BY DEF Unproxied
  <1> QED
    BY <1>1, <1>2, <1>3 DEF Judged

\* The request goes on or is turned back.
LEMMA InvInward ==
  ASSUME ExchangeInv, Asks \/ Turned, ReaderOK'
  PROVE  ExchangeInv'
  <1>1. Stands /\ Asked /\ Judged
    BY DEF ExchangeInv
  <1>2. CASE Asks
    <2>1. Stands' /\ Asked' /\ phase' \notin {"out", "done"}
      BY <1>2 DEF Asks
    <2>2. Judged'
      BY <1>1, <1>2, JudgedOn
    <2> QED
      BY <2>1, <2>2 DEF ExchangeInv, Spoken, Tallied
  <1>3. CASE Turned
    <2>1. Stands' /\ Asked' /\ phase' = "out"
      BY <1>3 DEF Turned
    <2>2. Judged'
      BY <2>1 DEF Judged
    <2> QED
      BY <1>1, <1>3, <2>1, <2>2, SpokenTurned, TalliedTurned DEF ExchangeInv
  <1> QED
    BY <1>2, <1>3

\* The application answers.
LEMMA InvCore ==
  ASSUME ExchangeInv, CoreGoes
  PROVE  ExchangeInv'
  <1>1. /\ Stands /\ Stands' /\ Asked' /\ UNCHANGED <<pipe, req, view, client, reader>>
        /\ phase = "core"
    BY DEF ExchangeInv, CoreGoes
  <1>2. CASE phase' = "core" /\ depth' = depth
    <2>1. ReaderOK'
      BY <1>1, <1>2, ReaderStays DEF ExchangeInv
    <2>2. Judged'
      BY <1>1, <1>2, JudgedStays DEF ExchangeInv
    <2> QED
      BY <1>1, <1>2, <2>1, <2>2 DEF ExchangeInv, Spoken, Tallied
  <1>3. CASE phase' = "out"
    <2>1. ReaderOK'
      BY <1>1, <1>3, ReaderStays DEF ExchangeInv
    <2>2. Judged'
      BY <1>3 DEF Judged
    <2>3. Spoken' /\ Tallied'
      BY <1>1, <1>3, SpokenCore, TalliedCore
    <2> QED
      BY <1>1, <2>1, <2>2, <2>3 DEF ExchangeInv
  <1> QED
    BY <1>2, <1>3 DEF CoreGoes

\* A middleware's call returns.
LEMMA InvLeave ==
  ASSUME ExchangeInv, Leaves
  PROVE  ExchangeInv'
  <1>0. Stands /\ Asked /\ Spoken /\ Tallied /\ core \in Cores
    BY DEF ExchangeInv, Asked
  <1>1. Stands' /\ OneReturns
    BY <1>0, LeaveStep
  <1>2. /\ phase = "out" /\ phase' = "out" /\ UNCHANGED <<pipe, req, client, reader, file, view>>
        /\ Goes
    BY <1>1 DEF OneReturns
  <1>3. exc' \in {"none"} \cup Thrown
    BY <1>0, <1>2 DEF Goes, Asked
  <1>4. core' \in Cores /\ core'.moved = core.moved
    <2>1. CASE UNCHANGED core
      BY <1>0, <2>1
    <2>2. CASE core' = [core EXCEPT !.failed = TRUE]
      <3> DEFINE yes == TRUE
      <3>0. yes \in BOOLEAN
        OBVIOUS
      <3>1. core' = [core EXCEPT !.failed = yes]
        BY <2>2
      <3>2. core \in Cores
        BY <1>0
      <3> HIDE DEF yes
      <3>3. core' \in Cores
        BY <3>0, <3>1, <3>2 DEF Cores
      <3>4. core'.moved = core.moved
        BY <3>1, <3>2 DEF Cores
      <3> QED
        BY <3>3, <3>4
    <2> QED
      BY <1>2, <2>1, <2>2 DEF Goes
  <1>5. FileOK'
    BY <1>0, <1>2, <1>4 DEF Asked, FileOK
  <1>6. Asked'
    BY <1>0, <1>2, <1>3, <1>4, <1>5 DEF Asked
  <1>7. ReaderOK'
    BY <1>2, ReaderStays DEF ExchangeInv
  <1>8. Judged'
    BY <1>2 DEF Judged
  <1> QED
    BY <1>0, <1>1, <1>6, <1>7, <1>8, SpokenOn, TalliedOn DEF ExchangeInv

\* What has been said and counted stays so.
LEMMA SpokenStays ==
  ASSUME Spoken, Tallied, Stays, UNCHANGED exc, Edge' = Edge,
         phase' \in {"out", "done"} => phase \in {"out", "done"},
         core'.pc = core.pc, core'.chunks = core.chunks, core'.status = core.status,
         core'.failed = core.failed, core'.moved = core.moved \/ core'.moved
  PROVE  Spoken' /\ Tallied'
  <1>0. UNCHANGED <<pipe, req, mw, sent>>
    BY DEF Stays
  <1>1. ASSUME phase \in {"out", "done"} PROVE Spoken'
    <2> DEFINE c == core'
               x == exc
               e == Edge
               w == sent[Edge]
    <2>1. SaidBy(core, x, e, w) /\ (Untorn => Orderly(e, w))
      BY <1>1 DEF Spoken
    <2>2. SaidBy(c, x, e, w)
      <3> HIDE DEF x, e, w
      <3> QED
        BY <2>1 DEF SaidBy, Whole
    <2> HIDE DEF c, e, w, x
    <2>3. core' = c /\ exc' = x /\ Edge' = e /\ sent'[e] = w
      BY <1>0 DEF c, e, w, x
    <2>4. Untorn' => Orderly(e, w)
      BY <1>0, <2>1 DEF Untorn
    <2> QED
      BY <1>0, <2>2, <2>3, <2>4, SaidThen
  <1>2. Spoken'
    BY <1>1 DEF Spoken
  <1>3. Tallied'
    BY <1>0 DEF Tallied, CountedAs, StatusOf, Opens
  <1> QED
    BY <1>2, <1>3

\* The file changes.
LEMMA InvFile ==
  ASSUME ExchangeInv, FileChanges
  PROVE  ExchangeInv'
  <1>1. FileSwaps
    BY FileStep DEF ExchangeInv
  <1>2. /\ UNCHANGED <<pipe, req, view, phase, depth, mw, client, reader, exc, sent>>
        /\ core'.moved /\ core'.pc = core.pc /\ core'.chunks = core.chunks
        /\ core'.status = core.status /\ core'.failed = core.failed
        /\ Stands' /\ Asked'
    BY <1>1 DEF FileSwaps
  <1>3. ReaderOK' /\ Judged'
    BY <1>2, ReaderStays, JudgedStays DEF ExchangeInv
  <1>4. Edge' = Edge /\ Stays
    BY <1>2 DEF Edge, Stays
  <1>5. Spoken' /\ Tallied'
    BY <1>2, <1>4, SpokenStays DEF ExchangeInv
  <1> QED
    BY <1>2, <1>3, <1>5 DEF ExchangeInv

\* The server gets control back.
LEMMA InvFinish ==
  ASSUME ExchangeInv, Finish
  PROVE  ExchangeInv'
  <1>1. /\ phase = "out" /\ phase' = "done" /\ depth = 0
        /\ UNCHANGED <<pipe, req, view, depth, mw, core, client, reader, file, exc, sent>>
    BY DEF Finish, Given
  <1>2. Edge' = Edge /\ Stays /\ Phases'
    BY <1>1 DEF Edge, Stays, Phases
  <1>3. Stands'
    <2>1. Edge \in Nat /\ Stands
      BY StandsFacts DEF ExchangeInv
    <2> QED
      BY <1>1, <1>2, <2>1, StandsAside
  <1>4. FileOK'
    BY <1>1 DEF ExchangeInv, Asked, FileOK
  <1>5. Asked'
    BY <1>1, <1>4 DEF ExchangeInv, Asked
  <1>6. ReaderOK' /\ Judged'
    BY <1>1, ReaderStays DEF ExchangeInv, Judged
  <1>7. Spoken' /\ Tallied'
    BY <1>1, <1>2, SpokenStays DEF ExchangeInv
  <1> QED
    BY <1>3, <1>5, <1>6, <1>7 DEF ExchangeInv

\* The client leaves.
LEMMA InvClient ==
  ASSUME ExchangeInv, ClientLeaves
  PROVE  ExchangeInv'
  <1>1. /\ phase = "read" /\ phase' = "read"
        /\ UNCHANGED <<pipe, req, view, depth, mw, core, reader, file, exc, sent>>
    BY DEF ClientLeaves, Given
  <1>2. Edge' = Edge /\ Stays /\ Phases'
    BY <1>1 DEF Edge, Stays, Phases, ExchangeInv, Stands, Linked, Inner
  <1>3. Stands'
    <2>1. Edge \in Nat /\ Stands
      BY StandsFacts DEF ExchangeInv
    <2> QED
      BY <1>1, <1>2, <2>1, StandsAside
  <1>4. FileOK' /\ Unasked' /\ (depth' = Inner' => ~req'.mounted)
    BY <1>1 DEF ExchangeInv, Asked, FileOK, Unasked, Inner
  <1>5. Asked'
    BY <1>1, <1>4 DEF ExchangeInv, Asked
  <1>6. ReaderOK' /\ Judged'
    BY <1>1, ReaderStep, JudgedStays DEF ExchangeInv
  <1> QED
    BY <1>1, <1>3, <1>5, <1>6 DEF ExchangeInv, Spoken, Tallied

\* The state of a middleware that has not been called, and no answer.
LEMMA FreshFacts == Fresh \in States /\ NoAnswer \in Answers
  <1> DEFINE none == <<>>
             zero == 0
             no == FALSE
             fivehundred == 500
  <1>1. /\ none \in Optional(Starts) /\ none \in Seq(Nat) /\ none = <<>>
        /\ zero \in Nat /\ zero = 0 /\ no \in BOOLEAN /\ ~no /\ fivehundred \in Nat
    BY DEF Optional
  <1>2. /\ Fresh = [held |-> none, raw |-> zero, size |-> zero, started |-> no, pass |-> no,
                    zip |-> no, status |-> fivehundred, inside |-> zero, counts |-> none,
                    spoilt |-> no]
        /\ NoAnswer = [start |-> none, raw |-> zero, size |-> zero, ended |-> no, disorder |-> no]
    BY DEF Fresh, NoAnswer
  <1> HIDE DEF none, zero, no, fivehundred
  <1>3. Fresh \in States
    BY <1>1, <1>2 DEF States
  <1>4. NoAnswer = Made(none, zero, zero, no, no)
    BY <1>2 DEF Made
  <1>5. NoAnswer \in Answers
    BY <1>1, <1>4, AnswerMade
  <1> QED
    BY <1>3, <1>5

\* The application before it is called.
LEMMA NotBegunFacts == NotBegun \in Cores
  <1> DEFINE zero == 0
             ok == 200
             no == FALSE
  <1>1. zero \in Nat /\ ok \in Nat /\ no \in BOOLEAN
    OBVIOUS
  <1>2. NotBegun = [pc |-> "begin", chunks |-> zero, status |-> ok, failed |-> no, head |-> no,
                    moved |-> no]
    BY DEF NotBegun
  <1> HIDE DEF zero, ok, no
  <1> QED
    BY <1>1, <1>2 DEF Cores

\* The body before anybody reads it.
LEMMA ReaderFacts ==
  ASSUME NEW n \in Nat
  PROVE  /\ [left |-> n, gone |-> FALSE] \in [left : Nat, gone : BOOLEAN]
         /\ [got |-> 0, replay |-> <<>>, seen |-> <<>>, taken |-> FALSE] \in Readers
  <1> DEFINE none == <<>>
             zero == 0
             no == FALSE
  <1>1. none \in Seq(Nat) /\ zero \in Nat /\ no \in BOOLEAN
    OBVIOUS
  <1> HIDE DEF none, zero, no
  <1>2. /\ [left |-> n, gone |-> no] \in [left : Nat, gone : BOOLEAN]
        /\ [got |-> zero, replay |-> none, seen |-> none, taken |-> no] \in Readers
    BY <1>1 DEF Readers
  <1> QED
    BY <1>2 DEF none, zero, no

\* A request arrives.
LEMMA InvBegins ==
  ASSUME Init
  PROVE  ExchangeInv
  <1>1. /\ pipe \in Pipelines /\ req \in Requests /\ phase = "in" /\ depth = 1
        /\ view = Unproxied /\ mw = [i \in 1..Len(pipe) |-> Fresh] /\ core = NotBegun
        /\ client = [left |-> req.chunks, gone |-> FALSE]
        /\ reader = [got |-> 0, replay |-> <<>>, seen |-> <<>>, taken |-> FALSE]
        /\ file = {req.size} /\ exc = "none" /\ sent = [i \in 1..Inner |-> NoAnswer]
    BY DEF Init, Unproxied
  <1>2. /\ pipe \in Seq(Kinds) /\ Len(pipe) \in Nat /\ Inner = Len(pipe) + 1 /\ Inner \in Nat
        /\ \A i \in 1..Len(pipe) : pipe[i] \in Kinds
    BY <1>1, ExchangeAssumption DEF ExchangeAssumption, Inner
  <1>3. req.size \in Nat /\ req.chunks \in Nat
    BY <1>1, RequestFacts
  <1>4. Stands
    <2>0. NoAnswer \in Outputs
      BY FreshFacts, AnswersAreOutputs
    <2>1. Pipeline(mw) /\ Piped(mw)
      BY <1>1, <1>2, <2>0, FreshFacts DEF Pipeline, Piped
    <2>2. Phases /\ Edge = 1 /\ Quiet
      BY <1>1, <1>2 DEF Phases, Edge, Quiet
    <2>3. Chain /\ Links
      BY <2>2 DEF Chain, Links
    <2>4. sent[Inner] \in Answers
      <3>1. Inner \in 1..Inner
        BY <1>2
      <3> QED
        BY <1>1, <3>1, FreshFacts
    <2>5. Untorn
      BY <1>1, <1>2 DEF Untorn, Fresh
    <2> QED
      BY <2>1, <2>2, <2>3, <2>4, <2>5 DEF Stands, Linked, Placed
  <1>5. Asked
    <2>1. FileOK
      BY <1>1, <1>3 DEF FileOK
    <2>2. Unasked
      BY <1>1 DEF Unasked, NotBegun
    <2> QED
      BY <1>1, <2>1, <2>2, NotBegunFacts DEF Asked
  <1>6. Judged
    <2>1. Truthful(req) /\ (Settled(1) <=> req.peer = "client")
      BY <1>1, TruthFacts DEF Settled
    <2>2. req.peer = "client" => req.truth = Unproxied
      BY <2>1 DEF Truthful, Unproxied
    <2>3. view = IF Settled(depth) THEN req.truth ELSE Unproxied
      BY <1>1, <2>1, <2>2
    <2> QED
      BY <1>1, <2>3 DEF Judged
  <1>7. Spoken /\ Tallied
    BY <1>1 DEF Spoken, Tallied
  <1>8. ReaderOK
    <2>1. /\ client \in [left : Nat, gone : BOOLEAN]
          /\ reader \in Readers
      BY <1>1, <1>3, ReaderFacts
    <2>2. client.left = req.chunks /\ reader.got = 0 /\ reader.replay = <<>> /\ reader.seen = <<>>
      BY <1>1
    <2> QED
      BY <1>3, <2>1, <2>2 DEF ReaderOK
  <1> QED
    BY <1>4, <1>5, <1>6, <1>7, <1>8 DEF ExchangeInv

\* Of a WebSocket there is no request.
LEMMA InvNone ==
  ASSUME NoExchange
  PROVE  ExchangeInv
  <1>1. /\ pipe = <<>> /\ req \in Requests /\ phase = "done" /\ depth = 0 /\ mw = <<>>
        /\ core = NotBegun /\ client = [left |-> 0, gone |-> FALSE]
        /\ reader = [got |-> 0, replay |-> <<>>, seen |-> <<>>, taken |-> FALSE]
        /\ file = {} /\ exc = "none" /\ sent = <<NoAnswer>>
    BY RequestsAssumption DEF NoExchange, RequestsAssumption
  <1>2. pipe \in Seq(Kinds) /\ Len(pipe) = 0 /\ Inner = 1
    BY <1>1 DEF Inner
  <1>3. Stands
    <2>0. NoAnswer \in Outputs
      BY FreshFacts, AnswersAreOutputs
    <2>1. mw \in [1..Len(pipe) -> States]
      BY <1>1, <1>2
    <2>2. sent \in [1..Inner -> Answers] /\ sent \in [1..Inner -> Outputs]
      <3>1. <<NoAnswer>> \in Seq(Answers) /\ Len(<<NoAnswer>>) = 1 /\ <<NoAnswer>> \in Seq(Outputs)
        BY <2>0, FreshFacts
      <3> QED
        BY <1>1, <1>2, <3>1
    <2>3. Pipeline(mw) /\ Piped(mw)
      BY <1>2, <2>1, <2>2 DEF Pipeline, Piped
    <2>4. Phases /\ Edge = 1 /\ Quiet
      BY <1>1 DEF Phases, Edge, Quiet
    <2>5. Chain /\ Links
      BY <2>4 DEF Chain, Links
    <2>6. sent[Inner] \in Answers
      BY <1>2, <2>2
    <2>7. Untorn
      BY <1>2 DEF Untorn
    <2> QED
      BY <2>3, <2>4, <2>5, <2>6, <2>7 DEF Stands, Linked, Placed
  <1>4. Asked
    <2>1. FileOK
      BY <1>1 DEF FileOK
    <2> QED
      BY <1>1, <2>1, NotBegunFacts DEF Asked
  <1>5. Judged
    BY <1>1 DEF Judged
  <1>6. Spoken
    <2>1. Edge = 1 /\ sent[1] = NoAnswer
      BY <1>1 DEF Edge
    <2>2. NotBegun.pc = "begin"
      BY DEF NotBegun
    <2>3. SaidBy(NotBegun, "none", 1, NoAnswer) /\ Orderly(1, NoAnswer)
      BY <2>2 DEF SaidBy, NoAnswer, Orderly
    <2> QED
      BY <1>1, <2>1, <2>3 DEF Spoken
  <1>7. Tallied
    BY <1>1, <1>2 DEF Tallied, Edge
  <1>8. ReaderOK
    <2> DEFINE n == 0
    <2>1. n \in Nat /\ client = [left |-> n, gone |-> FALSE]
      BY <1>1
    <2> HIDE DEF n
    <2>2. /\ client \in [left : Nat, gone : BOOLEAN]
          /\ reader \in Readers
      BY <1>1, <2>1, ReaderFacts
    <2>3. reader.replay = <<>> /\ reader.seen = <<>>
      BY <1>1
    <2> QED
      BY <1>1, <2>2, <2>3 DEF ReaderOK
  <1> QED
    BY <1>3, <1>4, <1>5, <1>6, <1>7, <1>8 DEF ExchangeInv

\* Nothing happens to the request.
LEMMA InvSame ==
  ASSUME ExchangeInv, UNCHANGED vars
  PROVE  ExchangeInv'
  <1>1. UNCHANGED <<pipe, req, phase, depth, view, mw, core, client, reader, file, exc, sent>>
    BY DEF vars
  <1>2. Edge' = Edge /\ Stays /\ Phases'
    BY <1>1 DEF Edge, Stays, Phases, ExchangeInv, Stands, Linked, Inner
  <1>3. Stands'
    <2>1. Edge \in Nat /\ Stands
      BY StandsFacts DEF ExchangeInv
    <2> QED
      BY <1>1, <1>2, <2>1, StandsAside
  <1>4. FileOK' /\ (Unasked => Unasked')
    BY <1>1 DEF ExchangeInv, Asked, FileOK, Unasked
  <1>5. sent'[Inner'] = sent[Inner] /\ Lengths(req.size)' = Lengths(req.size) /\ Inner' = Inner
    BY <1>1 DEF Inner, Lengths, IsJson
  <1>6. Answering(sent[Inner]) => Answering(sent[Inner])'
    BY <1>1, <1>5 DEF Answering
  <1>7. Asked'
    BY <1>1, <1>4, <1>5, <1>6 DEF ExchangeInv, Asked
  <1>8. ReaderOK' /\ Judged'
    BY <1>1, ReaderStays, JudgedStays DEF ExchangeInv
  <1>9. Spoken' /\ Tallied'
    BY <1>1, <1>2, SpokenStays DEF ExchangeInv
  <1> QED
    BY <1>3, <1>7, <1>8, <1>9 DEF ExchangeInv

\* Whatever happens to the request.
LEMMA InvStep ==
  ASSUME ExchangeInv, Next
  PROVE  ExchangeInv'
  <1>1. Stands /\ Asked /\ ReaderOK
    BY DEF ExchangeInv
  <1>2. CASE Enters
    BY <1>1, <1>2, EnterStep, ReaderEnters, InvInward
  <1>3. CASE Receives
    BY <1>1, <1>3, ReceiveStep, ReaderStep, InvInward
  <1>4. CASE EnterCore
    <2>1. UNCHANGED <<req, client, reader>> /\ phase = "in"
      BY <1>4 DEF EnterCore, Given
    <2> QED
      BY <1>1, <1>4, <2>1, EntersCore, ReaderStays, InvInward
  <1>5. CASE CoreActs
    BY <1>1, <1>5, CoreStep, InvCore
  <1>6. CASE Cancel
    <2>1. CASE phase = "core"
      BY <1>1, <1>6, <2>1, DoesCancel, InvCore
    <2>2. CASE phase = "read"
      <3>1. UNCHANGED <<req, client, reader>>
        BY <1>6, <2>2 DEF Cancel, AtCore, Given
      <3> QED
        BY <1>1, <1>6, <2>2, <3>1, CancelledReading, ReaderStays, InvInward
    <2> QED
      BY <1>6, <2>1, <2>2 DEF Cancel, AtCore
  <1>7. CASE Leaves
    BY <1>7, InvLeave
  <1> QED
    BY <1>2, <1>3, <1>4, <1>5, <1>6, <1>7, InvClient, InvFile, InvFinish
       DEF Next, Enters, Receives, CoreActs, Leaves

\* The invariant of every connection.
THEOREM ExchangeInvariant == ConnectionSpec => []ExchangeInv
  <1>1. ConnectionInit => ExchangeInv
    BY InvBegins, InvNone DEF ConnectionInit
  <1>2. ExchangeInv /\ [ConnectionNext]_connectionVars => ExchangeInv'
    BY InvStep, InvSame DEF ConnectionNext, connectionVars
  <1> QED
    BY <1>1, <1>2, PTL DEF ConnectionSpec

-----------------------------------------------------------------------------
(* The properties                                                           *)

\* What has passed a middleware in disorder came to it so.
LEMMA PassesBack ==
  ASSUME NEW k \in Kinds, NEW st \in States, NEW in \in Answers, NEW o \in Answers,
         Passes(k, st, in, o), o.disorder
  PROVE  in.disorder
  <1>1. CASE k = "gzip"
    <2>1. Zips(st, in, o)
      BY <1>1 DEF Passes
    <2> QED
      BY <2>1 DEF Zips, Waits, Forwards, Buffers, Streams, Flushes, NoAnswer
  <1>2. CASE k = "hooks"
    BY <1>2 DEF Passes, Captures, NoAnswer
  <1>3. CASE k = "errors"
    BY <1>3 DEF Passes, Guards
  <1>4. CASE k \in Lining
    BY <1>4 DEF Passes, Adds, Lined, Lining
  <1> QED
    BY <1>1, <1>2, <1>3, <1>4 DEF Lining

\* What the server was given in disorder, the one at the edge has sent so.
LEMMA OrderFromEdge ==
  ASSUME Placed, wire.disorder
  PROVE  sent[Edge].disorder
  <1> DEFINE S == {n \in 0..Edge - 1 : sent[n + 1].disorder}
  <1>1. /\ Edge \in 1..Inner /\ Len(pipe) \in Nat /\ Inner = Len(pipe) + 1
        /\ \A i \in 1..Len(pipe) : pipe[i] \in Kinds /\ mw[i] \in States
        /\ \A i \in 1..Inner : sent[i] \in Answers
        /\ \A i \in 1..Edge - 1 : PassesAt(i)
    BY PlacedFacts DEF Placed, Chain
  <1>2. 0 \in S
    BY <1>1 DEF wire
  <1>3. ASSUME NEW n \in 0..Edge - 1, n \in S, n < Edge - 1 PROVE n + 1 \in S
    <2> DEFINE i == n + 1
               in == sent[i + 1]
               o == sent[i]
    <2>1. i \in 1..Edge - 1 /\ i \in 1..Len(pipe) /\ i \in 1..Inner /\ i + 1 \in 1..Inner
      <3> DEFINE e == Edge
                 l == Len(pipe)
      <3>1. e \in 1..l + 1 /\ l \in Nat /\ n \in 0..e - 1 /\ n < e - 1
        BY <1>1, <1>3
      <3> HIDE DEF e, l
      <3>2. /\ n + 1 \in 1..e - 1 /\ n + 1 \in 1..l /\ n + 1 \in 1..l + 1
            /\ (n + 1) + 1 \in 1..l + 1
        BY <3>1
      <3> QED
        BY <1>1, <3>2 DEF e, l
    <2>2. pipe[i] \in Kinds /\ mw[i] \in States /\ in \in Answers /\ o \in Answers
          /\ Passes(pipe[i], mw[i], in, o)
      BY <1>1, <2>1 DEF PassesAt
    <2>3. o.disorder
      BY <1>3
    <2>4. in.disorder
      <3> HIDE DEF in, o, i
      <3> QED
        BY <2>2, <2>3, PassesBack
    <2> QED
      BY <1>1, <1>3, <2>4
  <1>4. Edge - 1 \in Nat /\ Edge - 1 \in 0..Edge - 1 /\ (Edge - 1) + 1 = Edge
    BY <1>1
  <1> HIDE DEF S
  <1>5. \A n \in 0..Edge - 1 : n \in S
    <2> DEFINE N == Edge - 1
    <2>1. N \in Nat /\ \A n \in 0..N : n \in S /\ n < N => n + 1 \in S
      BY <1>3, <1>4
    <2> HIDE DEF N
    <2>2. \A n \in 0..N : n \in S
      BY <1>2, <2>1, Induction
    <2> QED
      BY <2>2 DEF N
  <1>6. Edge - 1 \in S
    BY <1>4, <1>5
  <1>7. sent[(Edge - 1) + 1].disorder
    BY <1>6 DEF S
  <1> QED
    BY <1>4, <1>7

\* The status that the server was given, the one at the edge has told.
LEMMA StatusFromEdge ==
  ASSUME Linked
  PROVE  Opens(wire.start) \subseteq Opens(sent[Edge].start)
  <1> DEFINE S == {n \in 0..Edge - 1 : Opens(wire.start) \subseteq Opens(sent[n + 1].start)}
  <1>1. /\ Edge \in 1..Inner /\ Len(pipe) \in Nat /\ Inner = Len(pipe) + 1
        /\ \A i \in 1..Edge - 1 : CarriesAt(i)
    BY LinkedFacts DEF Linked, Links
  <1>2. 0 \in S
    BY <1>1 DEF wire
  <1>3. ASSUME NEW n \in 0..Edge - 1, n \in S, n < Edge - 1 PROVE n + 1 \in S
    <2>1. n + 1 \in 1..Edge - 1
      BY <1>1, <1>3
    <2>2. Carries(pipe[n + 1], mw[n + 1], sent[(n + 1) + 1], sent[n + 1])
      BY <1>1, <2>1 DEF CarriesAt
    <2>3. Opens(sent[n + 1].start) \subseteq Opens(sent[(n + 1) + 1].start)
      BY <2>2 DEF Carries, Opens
    <2> QED
      BY <1>1, <1>3, <2>3
  <1>4. Edge - 1 \in Nat /\ Edge - 1 \in 0..Edge - 1 /\ (Edge - 1) + 1 = Edge
    BY <1>1
  <1> HIDE DEF S
  <1>5. \A n \in 0..Edge - 1 : n \in S
    <2> DEFINE N == Edge - 1
    <2>1. N \in Nat /\ \A n \in 0..N : n \in S /\ n < N => n + 1 \in S
      BY <1>3, <1>4
    <2> HIDE DEF N
    <2>2. \A n \in 0..N : n \in S
      BY <1>2, <2>1, Induction
    <2> QED
      BY <2>2 DEF N
  <1>6. Edge - 1 \in S
    BY <1>4, <1>5
  <1>7. Opens(wire.start) \subseteq Opens(sent[(Edge - 1) + 1].start)
    BY <1>6 DEF S
  <1> QED
    BY <1>4, <1>7

\* So it is what the application or a middleware has said.
LEMMA WireFacts ==
  ASSUME ExchangeInv
  PROVE  /\ Untorn /\ wire.disorder => Recoded(Edge)
         /\ wire.start # <<>> => Sourced(wire.start[1].status)
  <1> DEFINE w == sent[Edge]
  <1>1. /\ Stands /\ Asked /\ Spoken /\ Edge \in 1..Inner /\ Inner \in Nat /\ Len(pipe) \in Nat
        /\ Phases /\ Linked /\ Quiet
    BY StandsFacts DEF ExchangeInv, Stands, Linked
  <1>0. wire \in Outputs /\ w \in Outputs
    <2>1. sent \in [1..Inner -> Outputs] /\ 1 \in 1..Inner
      BY <1>1, StandsFacts
    <2> QED
      BY <1>1, <2>1 DEF wire
  <1>2. /\ Untorn /\ wire.disorder => w.disorder
        /\ wire.start # <<>> => w.start # <<>> /\ w.start[1].status = wire.start[1].status
    <2>1. Opens(wire.start) \subseteq Opens(w.start)
      BY <1>1, StatusFromEdge
    <2>2. /\ wire.start # <<>> => Opens(wire.start) = {wire.start[1].status}
          /\ w.start # <<>> => Opens(w.start) = {w.start[1].status}
          /\ w.start = <<>> => Opens(w.start) = {}
      BY <1>0, OutputFacts
    <2>3. Untorn /\ wire.disorder => w.disorder
      BY <1>1, OrderFromEdge DEF Stands
    <2> HIDE DEF w
    <2> QED
      BY <2>1, <2>2, <2>3
  <1>3. CASE phase \in {"in", "read"}
    BY <1>1, <1>2, <1>3 DEF Quiet, NoAnswer
  <1>4. CASE phase = "core"
    <2>1. Edge = Inner
      BY <1>1, <1>4 DEF Phases, Edge
    <2>2. w = NoAnswer \/ Answering(w)
      BY <1>1, <1>4, <2>1 DEF Asked
    <2>3. /\ ~w.disorder
          /\ w.start # <<>> => w.start[1].status # 307 /\ w.start[1].status # 400
      BY <2>2 DEF NoAnswer, Answering
    <2> QED
      BY <1>2, <2>3 DEF Sourced
  <1>5. CASE phase \in {"out", "done"}
    <2>1. SaidBy(core, exc, Edge, w) /\ (Untorn => Orderly(Edge, w))
      BY <1>1, <1>5 DEF Spoken
    <2> QED
      BY <1>2, <2>1 DEF SaidBy, Orderly
  <1> QED
    BY <1>1, <1>3, <1>4, <1>5 DEF Phases

\* The server gets one start message, then bodies, and nothing after the last,
\* unless an answer came to a GZipMiddleware encoded, or what was raised in the
\* sending of its messages cut it off before it set _started.
THEOREM AnswerIsInOrder == ConnectionSpec => []AnswersInOrder
  <1>1. ExchangeInv => AnswersInOrder
    <2> SUFFICES ASSUME ExchangeInv, wire.disorder
                 PROVE  \E i \in 1..Len(pipe) :
                          /\ pipe[i] = "gzip"
                          /\ \/ req.coded \/ mw[i].spoilt
                             \/ \E j \in i + 1..Len(pipe) : pipe[j] = "gzip"
      BY DEF AnswersInOrder
    <2>1. CASE Untorn
      <3>1. Recoded(Edge) /\ Edge \in 1..Inner /\ Len(pipe) \in Nat
        BY <2>1, WireFacts, StandsFacts DEF ExchangeInv
      <3>2. PICK i \in Edge..Len(pipe) : pipe[i] = "gzip" /\ Encoded(i + 1)
        BY <3>1 DEF Recoded
      <3>3. i \in 1..Len(pipe)
        <4>1. Edge \in Nat /\ Edge >= 1
          BY <3>1, StandsFacts DEF ExchangeInv
        <4> QED
          BY <3>1, <3>2, <4>1
      <3> QED
        BY <3>2, <3>3 DEF Encoded
    <2>2. CASE ~Untorn
      BY <2>2 DEF Untorn
    <2> QED
      BY <2>1, <2>2
  <1> QED
    BY <1>1, ExchangeInvariant, PTL

\* An answer the application completed reaches the server complete.
THEOREM AnswerIsIntact == ConnectionSpec => []AnswerIntact
  <1>1. ExchangeInv => AnswerIntact
    <2> SUFFICES ASSUME ExchangeInv, AnsweredByCore
                 PROVE  /\ HeadersReach
                        /\ ~wire.disorder =>
                             /\ wire.ended
                             /\ req.method # "HEAD" =>
                                  /\ wire.raw = core.chunks
                                  /\ ~core.moved => wire.start[1].lens \in {<<>>, <<wire.size>>}
      BY DEF AnswerIntact
    <2>1. phase = "done" /\ core.pc = "sent" /\ ~core.failed /\ wire.start # <<>>
      BY DEF AnsweredByCore
    <2>2. Edge = 1 /\ Len(pipe) \in Nat
      BY <2>1, StandsFacts DEF ExchangeInv, Stands, Linked, Phases, Edge
    <2>3. Whole(core, 1, wire)
      BY <2>1, <2>2 DEF ExchangeInv, Spoken, SaidBy, wire
    <2>4. HeadersReach
      <3> DEFINE added == UNION {ToSet(AddedLines(pipe[i])) : i \in 1..Len(pipe)}
                 got == ToSet(wire.start[1].lines)
                 Names(lines) == {l.name : l \in lines}
      <3>1. \A i \in 1..Len(pipe) : \A l \in ToSet(AddedLines(pipe[i])) :
              /\ \E x \in got : x.name = l.name
              /\ (\A j \in 1..Len(pipe) : pipe[j] # "hooks") => l \in got
        BY <2>3 DEF Whole, Reached, Additions
      <3>2. Names(added) \subseteq Names(got)
        <4>1. ASSUME NEW l \in added PROVE \E x \in got : x.name = l.name
          BY <3>1
        <4> HIDE DEF added, got
        <4> QED
          BY <4>1
      <3>3. ~Has("hooks") => added \subseteq got
        BY <3>1 DEF Has
      <3> QED
        BY <3>2, <3>3 DEF HeadersReach
    <2> QED
      BY <2>3, <2>4 DEF Whole
  <1> QED
    BY <1>1, ExchangeInvariant, PTL

\* Every request that gets to the metrics is counted once, as it is answered, but
\* for what a hook middleware drops or replaces outside of them, and for an error
\* that an ErrorHandlerMiddleware outside answers with its own status.
THEOREM RequestIsCounted == ConnectionSpec => []CountedAsAnswered
  <1>1. ExchangeInv => CountedAsAnswered
    <2> SUFFICES ASSUME ExchangeInv, phase = "done", NEW i \in 1..Len(pipe), pipe[i] \in Counting,
                        mw[i].counts # <<>> \/ mw[i].inside # 0
                 PROVE  /\ mw[i].inside = 0
                        /\ Len(mw[i].counts) = 1
                        /\ \/ mw[i].counts = <<IF wire.start = <<>> THEN 500
                                                                 ELSE wire.start[1].status>>
                           \/ \E j \in 1..i - 1 : pipe[j] = "hooks" /\ mw[j].spoilt
                           \/ /\ mw[i].counts = <<500>>
                              /\ wire.start # <<>> /\ wire.start[1].status = 422
                              /\ \E j \in 1..i - 1 : pipe[j] = "errors"
      BY DEF CountedAsAnswered
    <2>1. Edge = 1
      BY DEF ExchangeInv, Stands, Linked, Phases, Edge
    <2>2. CountedAs(i, 1, wire)
      BY <2>1 DEF ExchangeInv, Tallied, wire
    <2>3. PICK n : /\ mw[i].counts = <<n>>
                   /\ \/ n = StatusOf(wire)
                      \/ \E j \in 1..i - 1 : pipe[j] = "hooks" /\ mw[j].spoilt
                      \/ /\ n = 500 /\ Opens(wire.start) = {422}
                         /\ \E j \in 1..i - 1 : pipe[j] = "errors"
      BY <2>2 DEF CountedAs
    <2>4. Len(<<n>>) = 1
      OBVIOUS
    <2>5. Opens(wire.start) = {422} => wire.start # <<>> /\ wire.start[1].status = 422
      BY DEF Opens
    <2> QED
      BY <2>2, <2>3, <2>4, <2>5 DEF CountedAs, StatusOf
  <1> QED
    BY <1>1, ExchangeInvariant, PTL

\* Who is behind a trusted proxy is taken for who it is.
THEOREM ClientIsJudged == ConnectionSpec => []ClientJudged
  <1>1. ExchangeInv => ClientJudged
    <2> SUFFICES ASSUME ExchangeInv PROVE ClientJudged
      OBVIOUS
    <2> DEFINE inside(k) == {i \in DOMAIN pipe : pipe[i] = k /\ Settled(i)}
               all(k) == {i \in DOMAIN pipe : pipe[i] = k}
               answered(status) == wire.start # <<>> /\ wire.start[1].status = status
    <2>1. /\ pipe \in Seq(Kinds) /\ DOMAIN pipe = 1..Len(pipe) /\ Len(pipe) \in Nat
          /\ Inner = Len(pipe) + 1 /\ req \in Requests /\ Phases
      BY StandsFacts DEF ExchangeInv, Asked, Stands, Linked
    <2>2. req.truth.scheme \in {"http", "https"}
      BY <2>1, TruthFacts
    <2>3. ASSUME phase = "core"
          PROVE  /\ Settled(Inner) => view = req.truth
                 /\ inside("https") # {} => req.truth.scheme = "https"
                 /\ inside("host") # {} => req.truth.host = "allowed"
      <3>1. depth = Inner
        BY <2>1, <2>3 DEF Phases
      <3>2. /\ Settled(Inner) => view = req.truth
            /\ \A i \in 1..Inner - 1 : Settled(i) =>
                 /\ pipe[i] = "https" => req.truth.scheme # "http"
                 /\ pipe[i] = "host" => req.truth.host = "allowed"
        BY <2>3, <3>1 DEF ExchangeInv, Judged
      <3>3. \A i \in DOMAIN pipe : i \in 1..Inner - 1
        BY <2>1
      <3> QED
        BY <2>2, <3>2, <3>3
    <2>4. wire.start # <<>> => Sourced(wire.start[1].status)
      BY WireFacts
    <2>5. ASSUME answered(307), inside("https") = all("https")
          PROVE  req.truth.scheme = "http"
      <3>1. PICK i \in 1..Len(pipe) : pipe[i] = "https" /\ (Settled(i) => req.truth.scheme = "http")
        BY <2>4, <2>5 DEF Sourced, RefusedBy
      <3>2. i \in inside("https")
        BY <2>1, <2>5, <3>1
      <3> QED
        BY <3>1, <3>2
    <2>6. ASSUME answered(400), inside("host") = all("host")
          PROVE  req.truth.host # "allowed"
      <3>1. PICK i \in 1..Len(pipe) : pipe[i] = "host" /\ (Settled(i) => req.truth.host # "allowed")
        BY <2>4, <2>6 DEF Sourced, RefusedBy
      <3>2. i \in inside("host")
        BY <2>1, <2>6, <3>1
      <3> QED
        BY <3>1, <3>2
    <2> QED
      BY <2>3, <2>5, <2>6 DEF ClientJudged
  <1> QED
    BY <1>1, ExchangeInvariant, PTL

\* A handler that reads the body sees all the client has sent, unless the client
\* left or a before_request has read it.
THEOREM BodyIsSeen == ConnectionSpec => []BodySeen
  <1>1. ExchangeInv => BodySeen
    BY DEF ExchangeInv, ReaderOK, BodySeen
  <1> QED
    BY <1>1, ExchangeInvariant, PTL

=============================================================================
