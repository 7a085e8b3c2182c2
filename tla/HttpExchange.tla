---------------------------- MODULE HttpExchange ----------------------------
(***************************************************************************)
(* One HTTP request on its way through the middleware pipeline (the onion  *)
(* that build_pipeline makes, outermost first), into a route or a mounted  *)
(* application, and the messages of the answer on their way out again.     *)
(*                                                                         *)
(* Every middleware wraps send: it forwards, changes, holds back or adds   *)
(* messages, and acts once more when the call it wrapped returns or        *)
(* raises. A message passes all of the wrappers in one step, since nothing *)
(* else runs on behalf of this request meanwhile; but every message is     *)
(* awaited, and what is raised in there (a cancellation, or an error of    *)
(* the server's send) leaves each of the wrappers where it is.             *)
(*                                                                         *)
(* Bytes are counted, not spelled: raw counts those of the application's   *)
(* content that a message carries, size those that it has itself.          *)
(***************************************************************************)
EXTENDS Naturals, Sequences, SequencesExt

CONSTANTS Pipelines,   \* sequences of the middlewares below, outermost first
          Requests,    \* requests, and what the application answers to each
          MinimumSize, \* GZipMiddleware.minimum_size, in chunks
          MaxBodySize  \* HawkAPI.max_body_size, in chunks

\* observe: StructuredLogging and Observability; headers: SecurityHeaders;
\* hooks: a subclass of Middleware with before_request and after_response.
Kinds == {"gzip", "hooks", "metrics", "debug", "observe", "errors", "session", "csrf",
          "cors", "proxy", "host", "https", "limits", "requestid", "headers", "timing"}

ExchangeAssumption ==
  /\ \A p \in Pipelines : p \in Seq(Kinds)
  /\ MinimumSize \in Nat \ {0}
  /\ MaxBodySize \in Nat

ASSUME ExchangeAssumption

\* Who connects directly is who the server sees, whatever it claims. A trusted
\* proxy tells the scheme and host it was asked for, and appends the address of
\* its client; only trusted proxies append after it.
Truthful(r) ==
  LET ips == r.forwarded.ips IN
  \/ r.peer = "client" /\ r.truth = [client |-> r.peer, scheme |-> r.scheme, host |-> r.host]
  \/ /\ r.peer = "hop"
     /\ r.truth.client \notin {"junk", "hop"}
     /\ r.truth.scheme = r.forwarded.scheme /\ r.truth.host = r.forwarded.host
     /\ \E n \in DOMAIN ips :
          ips[n] = r.truth.client /\ \A later \in n + 1..Len(ips) : ips[later] = "hop"

RequestsAssumption ==
  /\ Requests # {}
  /\ \A r \in Requests :
       /\ r.chunks \in Nat /\ r.size \in Nat /\ r.coded \in BOOLEAN
       /\ r.forwarded.ips \in Seq(STRING)
       /\ r.truth \in [client : STRING, scheme : {"http", "https"}, host : STRING]
       /\ Truthful(r)

ASSUME RequestsAssumption

VARIABLES pipe, req, \* the pipeline and the request: they do not change
          phase,     \* "in", "read", "core", "out" or "done"
          depth,     \* the position in the pipeline that has control
          view,      \* client, scheme and host in the scope
          mw,        \* what each middleware keeps for this request
          core,      \* how far the answer of the innermost application is
          client,    \* the request body that has not been received
          reader,    \* the body as far as it is read, and the one to replay
          file,      \* size of the served file, or "gone" as {}
          exc,       \* what is being raised, or "none"
          sent       \* the answer so far as each position has sent it outwards

vars == <<pipe, req, phase, depth, view, mw, core, client, reader, file, exc, sent>>

\* The position of the innermost application.
Inner == Len(pipe) + 1

\* What the server was given to send.
wire == sent[1]

-----------------------------------------------------------------------------
(* Messages. lens are the content-length headers, lines the other headers   *)
(* that may occur twice, by name and by whom; coded: content-encoding set.  *)

StartMsg(status, lens, coded) ==
  [kind |-> "start", status |-> status, lens |-> lens, lines |-> <<>>, coded |-> coded]

BodyMsg(raw, size, more) ==
  [kind |-> "body", raw |-> raw, size |-> size, more |-> more]

\* Response.__call__ and JSONResponse.__call__: two messages.
Plain(status, n) == <<StartMsg(status, <<n>>, FALSE), BodyMsg(n, n, FALSE)>>

Line(name, by) == [name |-> name, by |-> by]

WithLines(m, lines) ==
  IF m.kind = "start" THEN [m EXCEPT !.lines = @ \o lines] ELSE m

\* A compressed body of n bytes; never empty, for the format has a header.
Zipped(n) == n + 1

\* What a middleware keeps: held is the start message held back, raw and size
\* what is buffered, started, pass and zip the flags of _GZipResponder (started
\* is response_started elsewhere), status the last one seen, inside and counts
\* the gauge and the counter of the metrics. spoilt is history: gzip was cut off
\* before it could set _started, a hook dropped or replaced an answer.
Fresh == [held |-> <<>>, raw |-> 0, size |-> 0, started |-> FALSE, pass |-> FALSE,
          zip |-> FALSE, status |-> 500, inside |-> 0, counts |-> <<>>, spoilt |-> FALSE]

-----------------------------------------------------------------------------
(* The wrappers of send: what the middleware keeps after message m, and the *)
(* messages that go on outwards.                                            *)

Gives(st, out) == [st |-> st, out |-> out]

\* _send_compressed_headers
Compressed(m, lens) ==
  WithLines([m EXCEPT !.lens = lens, !.coded = TRUE], <<Line("vary", "gzip")>>)

\* _send_passthrough; without a start message the body goes alone.
PassedThrough(st, n) == st.held \o <<BodyMsg(st.raw, n, FALSE)>>

\* The buffered body at once, compressed if it is worth it.
Flushed(st) ==
  IF st.size < MinimumSize
    THEN Gives([st EXCEPT !.pass = TRUE], PassedThrough(st, st.size))
    ELSE Gives(st, <<Compressed(Last(st.held), <<Zipped(st.size)>>),
                     BodyMsg(st.raw, Zipped(st.size), FALSE)>>)

\* Mutant of Buffered: the last part only is kept.
BufferedLast(st, m) == [st EXCEPT !.raw = m.raw, !.size = m.size]

Buffered(st, m) == [st EXCEPT !.raw = @ + m.raw, !.size = @ + m.size]

\* _start_streaming, with what is buffered.
Streaming(st) ==
  Gives([st EXCEPT !.started = TRUE, !.zip = TRUE],
        <<Compressed(Last(st.held), <<>>), BodyMsg(st.raw, Zipped(st.size), TRUE)>>)

\* _GZipResponder.send
GzipSend(st, m) ==
  IF m.kind = "start"
    THEN IF m.coded THEN Gives([st EXCEPT !.held = <<m>>, !.pass = TRUE], <<m>>)
                    ELSE Gives([st EXCEPT !.held = <<m>>], <<>>)
  ELSE IF st.pass THEN Gives(st, <<m>>)
  ELSE IF st.started /\ st.zip
    THEN Gives(st, <<[m EXCEPT !.size = Zipped(@)]>>)
  ELSE LET b == Buffered(st, m) IN
       IF ~m.more
         THEN LET f == Flushed(b) IN Gives([f.st EXCEPT !.started = TRUE], f.out)
       ELSE IF b.size >= MinimumSize THEN Streaming(b)
       ELSE Gives(b, <<>>)

\* capture_send of the base class
Capture(st, m) ==
  IF m.kind = "start" THEN Gives([st EXCEPT !.held = <<m>>], <<>>)
                      ELSE Gives(Buffered(st, m), <<>>)

\* Mutant of NoteStatus: the start message is not looked at.
NoteStatusNever(st, m) == Gives(st, <<m>>)

\* metrics_send, stats_send
NoteStatus(st, m) ==
  Gives(IF m.kind = "start" THEN [st EXCEPT !.status = m.status] ELSE st, <<m>>)

\* guarded_send
GuardedSend(st, m) ==
  Gives(IF m.kind = "start" THEN [st EXCEPT !.started = TRUE] ELSE st, <<m>>)

SafeMethod == req.method # "POST"

\* The request's id: the client's, if it is fit for RequestIDMiddleware or if
\* it is there at all for the others, or one that the middleware makes.
Identified(k) ==
  IF req.id = "good" \/ (req.id = "long" /\ k = "observe") THEN "client" ELSE k

\* What is set as a header of the answer: the session if the handler changed
\* it, the token if the client has no cookie with one yet, Vary if there is an
\* origin, allowed or not.
SessionLines == IF req.touched THEN <<Line("set-cookie", "session")>> ELSE <<>>
CsrfLines == IF SafeMethod /\ ~req.cookie THEN <<Line("set-cookie", "csrf")>> ELSE <<>>
CorsLines == IF req.origin # "none" THEN <<Line("vary", "cors")>> ELSE <<>>
SecurityLines == <<Line("x-frame-options", "headers")>>
TimingLines == <<Line("x-process-time", "timing")>>

AddedLines(k) ==
  CASE k = "session" -> SessionLines
    [] k = "csrf" -> CsrfLines
    [] k = "cors" -> CorsLines
    [] k = "headers" -> SecurityLines
    [] k = "timing" -> TimingLines
    [] k \in {"requestid", "observe"} -> <<Line("x-request-id", Identified(k))>>
    [] OTHER -> <<>>

AddLines(k, st, m) == Gives(st, <<WithLines(m, AddedLines(k))>>)

Counting == {"metrics", "debug", "observe"}

\* logging_send and observability_send note the status and add the id.
ObservedSend(st, m) == NoteStatus(st, WithLines(m, AddedLines("observe")))

Relay(k, st, m) ==
  CASE k = "gzip"    -> GzipSend(st, m)
    [] k = "hooks"   -> Capture(st, m)
    [] k \in {"metrics", "debug"} -> NoteStatus(st, m)
    [] k = "observe" -> ObservedSend(st, m)
    [] k = "errors"  -> GuardedSend(st, m)
    [] OTHER         -> AddLines(k, st, m)

\* As next, with what has gone on outwards before.
After(earlier, next) == Gives(next.st, earlier.out \o next.out)

\* The messages ms one after the other: what the middleware keeps, and all that
\* has gone on outwards, after each.
Relayed(k, st, ms) ==
  LET after[n \in 0..Len(ms)] ==
        IF n = 0 THEN Gives(st, <<>>)
        ELSE After(after[n - 1], Relay(k, after[n - 1].st, ms[n]))
  IN after

RelayAll(k, st, ms) == Relayed(k, st, ms)[Len(ms)]

\* What leaves each of the positions d + 1 .. 1 when ms leaves position d + 1
\* and the middlewares of the positions d .. 1 are in the given states.
Outward(states, d, ms) ==
  LET leaving[i \in 1..d + 1] ==
        IF i = d + 1 THEN ms ELSE RelayAll(pipe[i], states[i], leaving[i + 1]).out
  IN leaving

-----------------------------------------------------------------------------
(* The answer as far as it was sent. external, for that is how the server   *)
(* takes it, which holds the application to the order of ASGI.              *)

NoAnswer == [start |-> <<>>, raw |-> 0, size |-> 0, ended |-> FALSE, disorder |-> FALSE]

Deliver(w, m) ==
  IF w.ended \/ ((m.kind = "start") <=> (w.start # <<>>))
    THEN [w EXCEPT !.disorder = TRUE]
  ELSE IF m.kind = "start" THEN [w EXCEPT !.start = <<m>>]
  ELSE [w EXCEPT !.raw = @ + m.raw, !.size = @ + m.size, !.ended = ~m.more]

\* After each of the messages ms, and after all of them.
Delivered(w, ms) ==
  LET after[n \in 0..Len(ms)] == IF n = 0 THEN w ELSE Deliver(after[n - 1], ms[n])
  IN after

DeliverAll(w, ms) == Delivered(w, ms)[Len(ms)]

\* What leaves each of the positions d + 1 .. 1 has been sent.
SentOn(d, leaving) ==
  sent' = [i \in 1..Inner |->
             IF i <= d + 1 THEN DeliverAll(sent[i], leaving[i]) ELSE sent[i]]

PassOn(states, d, leaving) ==
  /\ mw' = [i \in 1..Len(pipe) |->
              IF i <= d THEN RelayAll(pipe[i], states[i], leaving[i + 1]).st ELSE states[i]]
  /\ SentOn(d, leaving)

\* The middlewares of the positions d .. 1 are in the given states, and position
\* d + 1 sends ms.
SendWith(states, d, ms) == PassOn(states, d, Outward(states, d, ms))

Send(d, ms) == SendWith(mw, d, ms)

ToPhase(p, d) == phase' = p /\ depth' = d

\* Position d has answered by itself, returned or raised; the one outside goes on.
Return(d) == ToPhase("out", d - 1)

-----------------------------------------------------------------------------
(* A send that raises. The server is given a message and its await raises:  *)
(* every wrapper on the way is cut off in the message it is passing on.     *)

\* RequestValidationError is told from the other Exceptions by ErrorHandler
\* only; CancelledError is none.
Raised == {"error", "cancel"}
Thrown == Raised \cup {"invalid"}

\* What the last of the messages ms makes of the middleware, after the others.
LastRelay(k, st, ms) == Relay(k, RelayAll(k, st, Front(ms)).st, Last(ms))

UpTo(earlier, out, short) ==
  IF out = <<>> THEN <<>> ELSE earlier \o (IF short THEN <<Head(out)>> ELSE out)

\* It has sent on the first only of the messages it makes of the last, or all;
\* none if that one goes no further.
CutOut(k, st, ms, short) ==
  IF ms = <<>> THEN <<>>
  ELSE UpTo(RelayAll(k, st, Front(ms)).out, LastRelay(k, st, ms).out, short)

\* _GZipResponder sets _started when its messages are sent, and all else before.
Unset(k, before, last) ==
  IF k = "gzip" /\ (Len(last.out) > 1 \/ last.st.started # before.started)
    THEN [last.st EXCEPT !.started = before.started, !.spoilt = TRUE]
    ELSE last.st

CutState(k, st, ms) == Unset(k, RelayAll(k, st, Front(ms)).st, LastRelay(k, st, ms))

\* As Outward, when the sending of ms is cut off in the last of them, and the
\* middlewares at the positions short have sent on the first part of it only.
CutOutward(states, d, ms, short) ==
  LET leaving[i \in 1..d + 1] ==
        IF i = d + 1 THEN ms ELSE CutOut(pipe[i], states[i], leaving[i + 1], i \in short)
  IN leaving

PassUntilCut(states, d, leaving) ==
  /\ leaving[1] # <<>>
  /\ mw' = [i \in 1..Len(pipe) |->
              IF i <= d THEN CutState(pipe[i], states[i], leaving[i + 1]) ELSE states[i]]
  /\ SentOn(d, leaving)

CutWith(states, d, ms) ==
  \E n \in 1..Len(ms), short \in SUBSET {i \in 1..d : pipe[i] = "gzip"} :
    PassUntilCut(states, d, CutOutward(states, d, SubSeq(ms, 1, n), short))

\* Position d + 1 is cut off while it sends ms, and raises.
CutShort(states, d, ms) ==
  /\ CutWith(states, d, ms)
  /\ exc' \in Raised
  /\ core' = [core EXCEPT !.failed = TRUE]
  /\ Return(d + 1)

\* Position d + 1 sends ms and returns, or is cut off.
Answer(states, d, ms) ==
  \/ SendWith(states, d, ms) /\ Return(d + 1) /\ UNCHANGED <<core, exc>>
  \/ CutShort(states, d, ms)

\* The innermost application sends a message, and goes on to core c, or is cut off.
Says(m, c) ==
  \/ Send(Len(pipe), m) /\ core' = c /\ UNCHANGED <<phase, depth, exc>>
  \/ CutShort(mw, Len(pipe), m)

SaysLast(m, c) ==
  \/ Send(Len(pipe), m) /\ core' = c /\ Return(Inner) /\ UNCHANGED exc
  \/ CutShort(mw, Len(pipe), m)

-----------------------------------------------------------------------------

\* failed is history: the answer was not finished, or lost on its way out.
NotBegun == [pc |-> "begin", chunks |-> 0, status |-> 200, failed |-> FALSE,
             head |-> FALSE, moved |-> FALSE]

Init ==
  /\ pipe \in Pipelines
  /\ req \in Requests
  /\ phase = "in" /\ depth = 1
  /\ view = [client |-> req.peer, scheme |-> req.scheme, host |-> req.host]
  /\ mw = [i \in 1..Len(pipe) |-> Fresh]
  /\ core = NotBegun
  /\ client = [left |-> req.chunks, gone |-> FALSE]
  /\ reader = [got |-> 0, replay |-> <<>>, seen |-> <<>>, taken |-> FALSE]
  /\ file = {req.size}
  /\ exc = "none"
  /\ sent = [i \in 1..Inner |-> NoAnswer]

Given == <<pipe, req, view>>

-----------------------------------------------------------------------------
(* Inwards: the part of a middleware's __call__ before it calls the next.   *)

Entering(kinds) == phase = "in" /\ depth <= Len(pipe) /\ pipe[depth] \in kinds

GoOn == ToPhase("in", depth + 1)

\* It has done nothing else.
GoOnly == GoOn /\ UNCHANGED <<mw, core, exc, sent>>

AnswerHere(ms) == Answer(mw, depth - 1, ms)

Refuse(status) == AnswerHere(Plain(status, 1))

\* Nothing to decide, or the request is let through.
EnterThrough ==
  /\ Entering({"gzip", "errors", "session", "requestid", "headers", "timing"})
  /\ GoOn
  /\ UNCHANGED <<Given, mw, core, client, reader, file, exc, sent>>

\* The last address that is none of the trusted ones; if there is none, the
\* first, and if that is no address, the peer's own stays.
RealIp(ips) ==
  LET foreign == {i \in DOMAIN ips : ips[i] \notin {"junk", "hop"}}
  IN IF foreign # {} THEN ips[Max(foreign)]
     ELSE IF ips # <<>> /\ ips[1] # "junk" THEN ips[1]
     ELSE view.client

\* Mutant of Trusted: everyone is believed.
TrustedAll == TRUE

\* _is_trusted, of the peer
Trusted == view.client = "hop"

\* TrustedProxyMiddleware: the scope as the X-Forwarded-* headers of a trusted
\* peer tell it.
EnterProxy ==
  /\ Entering({"proxy"})
  /\ view' = IF Trusted THEN [client |-> RealIp(req.forwarded.ips),
                              scheme |-> req.forwarded.scheme, host |-> req.forwarded.host]
                        ELSE view
  /\ GoOn
  /\ UNCHANGED <<pipe, req, mw, core, client, reader, file, exc, sent>>

\* TrustedHost, HTTPSRedirect and RequestLimits refuse a request or let it
\* through.
Guard(k, refused, status) ==
  /\ Entering({k})
  /\ IF refused THEN Refuse(status) ELSE GoOnly
  /\ UNCHANGED <<Given, client, reader, file>>

EnterHost == Guard("host", view.host # "allowed", 400)
EnterHttps == Guard("https", view.scheme = "http", 307)
EnterLimits ==
  Guard("limits", req.oversized # "no", IF req.oversized = "query" THEN 414 ELSE 431)

\* CORSMiddleware answers a preflight, with an empty body.
Preflight ==
  <<WithLines(StartMsg(200, <<>>, FALSE), <<Line("vary", "cors")>>), BodyMsg(0, 0, FALSE)>>

EnterCors ==
  /\ Entering({"cors"})
  /\ IF req.method = "OPTIONS" /\ req.origin = "allowed"
       THEN AnswerHere(Preflight)
       ELSE GoOnly
  /\ UNCHANGED <<Given, client, reader, file>>

\* Prometheus, Debug, StructuredLogging and Observability; the first two answer
\* requests for their own path, which they do not count.
OwnPath(k) == req.path = k

EnterCounting ==
  /\ Entering(Counting)
  /\ IF OwnPath(pipe[depth])
       THEN Refuse(200)
       ELSE GoOn /\ mw' = [mw EXCEPT ![depth].inside = @ + 1] /\ UNCHANGED <<core, exc, sent>>
  /\ UNCHANGED <<Given, client, reader, file>>

\* before_request reads the body, from a Request of its own on the same receive:
\* it is gone for those inside, unless CSRFMiddleware outside replays it.
TakesBody ==
  /\ client.left > 0 /\ reader.replay = <<>>
  /\ client' = [client EXCEPT !.left = 0]
  /\ reader' = [reader EXCEPT !.taken = TRUE]

\* Middleware.__call__: before_request may read the body, and answer or raise.
EnterHooks ==
  /\ Entering({"hooks"})
  /\ TakesBody \/ UNCHANGED <<client, reader>>
  /\ \/ GoOnly
     \/ Refuse(401)
     \/ Return(depth) /\ exc' \in Thrown /\ UNCHANGED <<mw, core, sent>>
  /\ UNCHANGED <<Given, file>>

\* Whether an unsafe request that carries this token may go on.
Admits(token) == token = "good"

\* CSRFMiddleware.__call__, up to reading the form
EnterCsrf ==
  /\ Entering({"csrf"})
  /\ \/ /\ \/ SafeMethod
           \/ req.cookie /\ req.token = "header" /\ Admits(req.value)
        /\ GoOnly
     \/ /\ ~SafeMethod
        /\ ~req.cookie \/ (req.token = "header" /\ ~Admits(req.value))
        /\ Refuse(403)
     \/ /\ ~SafeMethod /\ req.cookie /\ req.token = "form"
        /\ ToPhase("read", depth)
        /\ UNCHANGED <<mw, core, exc, sent>>
  /\ UNCHANGED <<Given, client, reader, file>>

-----------------------------------------------------------------------------
(* Reading the request body, by csrf or by the handler.                     *)

ReadingCore == depth = Inner

\* Mutant of Replayed: the original receive stays in place.
ReplayedNever == FALSE

\* replay_receive: the whole body in one message.
Replayed == reader.replay # <<>>

TooLarge(n) == ReadingCore /\ n > MaxBodySize

\* The last message has come with n chunks read in all. csrf looks for its
\* token in them; one that was cut off may have lost it.
ReadToEnd(n) ==
  IF ReadingCore
    THEN /\ ToPhase("core", Inner)
         /\ reader' = [reader EXCEPT !.seen = <<n>>]
         /\ UNCHANGED <<mw, core, exc, sent>>
    ELSE \E token \in {req.value} \cup (IF n < req.chunks THEN {"none"} ELSE {}) :
         /\ reader' = [reader EXCEPT !.got = 0, !.replay = <<n>>]
         /\ IF Admits(token) THEN GoOnly ELSE Refuse(403)

\* The except clause of _execute_route. _execute_trivial_route has none, and its
\* client is told 500 by _handle_exception (Dispatch); it makes no difference here.
RaiseTooLarge ==
  /\ ToPhase("core", Inner)
  /\ core' = [core EXCEPT !.status = 413]
  /\ UNCHANGED <<mw, exc, sent, reader>>

\* One http.request message with a chunk.
ReceiveChunk ==
  /\ phase = "read" /\ ~Replayed
  /\ client.left > 0 /\ ~client.gone
  /\ client' = [client EXCEPT !.left = @ - 1]
  /\ IF TooLarge(reader.got + 1) THEN RaiseTooLarge
     ELSE IF client.left > 1
       THEN /\ reader' = [reader EXCEPT !.got = @ + 1]
            /\ UNCHANGED <<phase, depth, mw, core, exc, sent>>
     ELSE ReadToEnd(reader.got + 1)
  /\ UNCHANGED <<Given, file>>

\* http.disconnect, and any message after the end: no body, no more_body. The
\* readers look at neither the type nor at what is missing.
ReceiveNothing ==
  /\ phase = "read" /\ ~Replayed
  /\ client.left = 0 \/ client.gone
  /\ ReadToEnd(reader.got)
  /\ UNCHANGED <<Given, client, file>>

ReceiveReplay ==
  /\ phase = "read" /\ Replayed
  /\ IF TooLarge(Last(reader.replay)) THEN RaiseTooLarge
                                      ELSE ReadToEnd(Last(reader.replay))
  /\ UNCHANGED <<Given, client, file>>

ClientLeaves ==
  /\ phase = "read" /\ client.left > 0 /\ ~client.gone
  /\ client' = [client EXCEPT !.gone = TRUE]
  /\ UNCHANGED <<Given, phase, depth, mw, core, reader, file, exc, sent>>

-----------------------------------------------------------------------------
(* The innermost application: a route, or what is mounted there. req.app is *)
(* what the handler returns or the mounted application is: "object" and     *)
(* "json" for a Response and a JSONResponse of req.size bytes, "stream" for *)
(* a StreamingResponse or EventSourceResponse of req.size chunks, "static"  *)
(* for StaticFiles on a file of that size, "broken" for one that raises.    *)

AtCore(pc) == phase = "core" /\ core.pc = pc

EnterCore ==
  /\ phase = "in" /\ depth = Inner
  /\ ToPhase(IF ~req.mounted /\ ~SafeMethod THEN "read" ELSE "core", Inner)
  /\ UNCHANGED <<Given, mw, core, client, reader, file, exc, sent>>

\* _build_response: of the response classes it knows Response and JSONResponse;
\* any other object is data to be encoded, which fails for a streaming response.
Encodable == req.app \in {"object", "json"}

RouteStatus == IF core.status = 413 \/ Encodable THEN core.status ELSE 500

\* The JSONResponses: of a handler, and of _handle_exception.
IsJson == core.status # 413 /\ req.app # "object"

\* The headers of an answer to HEAD: the body is emptied and its length added
\* to the headers, which JSONResponse._build_raw_headers does not look up there.
Lengths(n) ==
  IF req.method # "HEAD" THEN <<n>>
  ELSE IF ~req.mounted /\ IsJson THEN <<0, n>> ELSE <<n>>

ObjectStart(status) == StartMsg(status, Lengths(req.size), req.coded /\ status = 200)

ObjectSize == IF req.method = "HEAD" THEN 0 ELSE req.size

\* response.__call__ at the end of _execute_route, its first message
AnswerObject ==
  /\ AtCore("begin")
  /\ ~req.mounted /\ req.app # "broken"
  /\ Says(<<ObjectStart(RouteStatus)>>, [core EXCEPT !.pc = "object", !.status = RouteStatus])
  /\ UNCHANGED <<Given, client, reader, file>>

\* and its second.
AnswerObjectBody ==
  /\ AtCore("object")
  /\ SaysLast(<<BodyMsg(ObjectSize, ObjectSize, FALSE)>>,
              [core EXCEPT !.pc = "sent", !.chunks = ObjectSize])
  /\ UNCHANGED <<Given, client, reader, file>>

\* An exception that neither the route nor a mounted application turns into an
\* answer (Plugin.on_exception raising; FileResponse on a file that is gone).
Raise(e) ==
  /\ exc' = e
  /\ Return(Inner)
  /\ UNCHANGED <<mw, sent>>

CoreBreaks ==
  /\ AtCore("begin") /\ req.app = "broken"
  /\ Raise("error") \/ Raise("invalid")
  /\ UNCHANGED <<Given, core, client, reader, file>>

AnswerStream ==
  /\ AtCore("begin") /\ req.mounted /\ req.app = "stream"
  /\ Says(<<StartMsg(200, <<>>, req.coded)>>, [core EXCEPT !.pc = "stream"])
  /\ UNCHANGED <<Given, client, reader, file>>

\* If it is cut off, the finally is left to do.
StreamChunk ==
  /\ AtCore("stream") /\ core.chunks < req.size
  /\ LET m == <<BodyMsg(1, 1, TRUE)>> IN
     \/ Send(Len(pipe), m) /\ core' = [core EXCEPT !.chunks = @ + 1]
     \/ /\ CutWith(mw, Len(pipe), m)
        /\ core' = [core EXCEPT !.chunks = @ + 1, !.pc = "tail", !.failed = TRUE]
  /\ UNCHANGED <<Given, phase, depth, client, reader, file, exc>>

\* The terminal message is sent in a finally: whether the iterator is at its
\* end, raises, or the task is cancelled; unless aclose raises before it.
EndStream(e) ==
  LET over == [core EXCEPT !.pc = "sent", !.failed = e # "none"] IN
  /\ \/ /\ Send(Len(pipe), <<BodyMsg(0, 0, FALSE)>>)
        /\ exc' = e /\ core' = over
        /\ Return(Inner)
     \/ CutShort(mw, Len(pipe), <<BodyMsg(0, 0, FALSE)>>)
     \/ Raise("error") /\ core' = [over EXCEPT !.failed = TRUE]
  /\ UNCHANGED <<Given, client, reader, file>>

StreamEnds ==
  \/ AtCore("stream") /\ core.chunks = req.size /\ EndStream("none")
  \/ (AtCore("stream") \/ AtCore("tail")) /\ \E e \in Raised : EndStream(e)

\* head_send of StaticFiles: the first body message ends the answer, empty.
HeadSend(m) ==
  IF req.method # "HEAD" THEN <<m>>
  ELSE IF core.head THEN <<>> ELSE <<BodyMsg(0, 0, FALSE)>>

\* The client's copy has the entity tag or the date of the file.
NotModified == <<StartMsg(304, <<>>, FALSE)>> \o HeadSend(BodyMsg(0, 0, FALSE))

Gone == file = {}
FileSize == CHOOSE n \in file : TRUE

\* StaticFiles.__call__ and _serve_with_cache up to the first await. The file
\* may go between its checks: before is_file (404), before the stat of
\* _serve_with_cache (no answer at all), before FileResponse's own (raises).
ServeStatic ==
  /\ AtCore("begin") /\ req.mounted /\ req.app = "static"
  /\ \/ /\ ~Gone
        /\ IF req.fresh
             THEN SaysLast(NotModified, [core EXCEPT !.pc = "sent", !.status = 304])
             ELSE Says(<<StartMsg(200, <<FileSize>>, FALSE)>>, [core EXCEPT !.pc = "open"])
     \/ /\ Gone
        /\ \/ SaysLast(<<StartMsg(404, <<1>>, FALSE)>> \o HeadSend(BodyMsg(1, 1, FALSE)),
                       [core EXCEPT !.pc = "sent", !.status = 404,
                                    !.chunks = IF req.method = "HEAD" THEN 0 ELSE 1])
           \/ /\ core' = [core EXCEPT !.pc = "sent"]
              /\ Return(Inner) /\ UNCHANGED <<exc, mw, sent>>
           \/ Raise("error") /\ UNCHANGED core
  /\ UNCHANGED <<Given, client, reader, file>>

\* FileResponse.__call__: open; then chunk by chunk, each with a look at
\* whether another one follows.
OpenFile ==
  /\ AtCore("open")
  /\ IF Gone
       THEN Raise("error") /\ core' = [core EXCEPT !.pc = "sent", !.failed = TRUE]
       ELSE /\ core' = [core EXCEPT !.pc = "file"]
            /\ UNCHANGED <<phase, depth, mw, exc, sent>>
  /\ UNCHANGED <<Given, client, reader, file>>

\* An open file that is unlinked keeps its content.
Readable == IF Gone THEN req.size ELSE FileSize

ServeChunk ==
  /\ AtCore("file")
  /\ LET n == IF core.chunks < Readable THEN 1 ELSE 0
         more == core.chunks + 1 < Readable
         shown == IF req.method = "HEAD" THEN 0 ELSE n
         m == HeadSend(BodyMsg(n, n, more))
         c == [core EXCEPT !.pc = IF more THEN "file" ELSE "sent",
                           !.chunks = @ + n, !.head = TRUE]
     IN IF more THEN Says(m, c) ELSE SaysLast(m, c)
  /\ UNCHANGED <<Given, client, reader, file>>

\* Another process replaces or removes the file, once.
FileChanges ==
  /\ phase # "done" /\ req.mounted /\ req.app = "static" /\ ~core.moved
  /\ \E f \in {{}, {req.size + 1}} \cup {{n} : n \in 0..req.size} :
       f # file /\ file' = f
  /\ core' = [core EXCEPT !.moved = TRUE]
  /\ UNCHANGED <<Given, phase, depth, mw, client, reader, exc, sent>>

\* The server cancels the task at an await between two messages. A stream's
\* finally runs (StreamEnds).
Cancel ==
  /\ phase = "read" \/ (phase = "core" /\ core.pc \in {"begin", "object", "open", "file"})
  /\ exc' = "cancel"
  /\ core' = [core EXCEPT !.failed = core.pc # "begin"]
  /\ Return(depth)
  /\ UNCHANGED <<Given, mw, client, reader, file, sent>>

-----------------------------------------------------------------------------
(* Outwards: the call that a middleware wrapped has returned or raised.     *)

Leaving(kinds) == phase = "out" /\ depth > 0 /\ pipe[depth] \in kinds

LeaveThrough ==
  /\ Leaving({"session", "csrf", "cors", "proxy", "host", "https", "limits", "requestid",
              "headers", "timing"})
  /\ Return(depth)
  /\ UNCHANGED <<Given, mw, core, client, reader, file, exc, sent>>

\* Mutant of Unfinished: _started is not looked at.
UnfinishedAlways(st) == st.held # <<>>

\* Whether finalize has something left to send.
Unfinished(st) == ~st.started /\ st.held # <<>>

\* finalize, in the finally of GZipMiddleware.__call__
LeaveGzip ==
  /\ Leaving({"gzip"})
  /\ IF Unfinished(mw[depth])
       THEN LET f == Flushed(mw[depth])
            IN Answer([mw EXCEPT ![depth] = f.st], depth - 1, f.out)
       ELSE Return(depth) /\ UNCHANGED <<mw, core, exc, sent>>
  /\ UNCHANGED <<Given, client, reader, file>>

\* headers_dict: of the lines of one name the last stays.
LastOfEach(lines) ==
  SetToSeq({lines[i] : i \in {n \in DOMAIN lines :
     \A j \in n + 1..Len(lines) : lines[j].name # lines[n].name}})

\* Middleware.__call__ after the call: a Response is made of what was captured
\* and sent, unless the call raised or sent nothing.
Rebuilt(st) ==
  <<[Last(st.held) EXCEPT !.lens = <<st.size>>, !.lines = LastOfEach(@)],
    BodyMsg(st.raw, st.size, FALSE)>>

\* after_response leaves that one, gives another one, or raises; what a call
\* that raised has answered is dropped.
LeaveHooks ==
  LET st == mw[depth]
      spoilt == [mw EXCEPT ![depth].spoilt = TRUE]
      lost == [core EXCEPT !.failed = TRUE]
  IN
  /\ Leaving({"hooks"})
  /\ \/ st.held = <<>> /\ Return(depth) /\ UNCHANGED <<mw, core, exc, sent>>
     \/ st.held # <<>> /\ exc = "none" /\ Answer(mw, depth - 1, Rebuilt(st))
     \/ /\ st.held # <<>> /\ exc = "none"
        /\ \/ SendWith(spoilt, depth - 1, Plain(503, 1)) /\ core' = lost
              /\ Return(depth) /\ UNCHANGED exc
           \/ CutShort(spoilt, depth - 1, Plain(503, 1))
           \/ mw' = spoilt /\ core' = lost /\ exc' \in Thrown
              /\ Return(depth) /\ UNCHANGED sent
     \/ /\ st.held # <<>> /\ exc # "none"
        /\ mw' = spoilt /\ Return(depth) /\ UNCHANGED <<core, exc, sent>>
  /\ UNCHANGED <<Given, client, reader, file>>

\* The finally of those that count; only Prometheus has a gauge, for the others
\* inside says that they will.
Counted(st) == [st EXCEPT !.inside = @ - 1, !.counts = Append(@, st.status)]

LeaveCounting ==
  /\ Leaving(Counting)
  /\ mw' = [mw EXCEPT ![depth] = Counted(@)]
  /\ Return(depth)
  /\ UNCHANGED <<Given, core, client, reader, file, exc, sent>>

\* ErrorHandlerMiddleware: CancelledError is not an Exception.
Answerable(st) == exc \in {"error", "invalid"} /\ ~st.started

\* 422 stands for the status that a RequestValidationError brings with it.
ErrorStatus == IF exc = "invalid" THEN 422 ELSE 500

LeaveErrors ==
  /\ Leaving({"errors"})
  /\ IF Answerable(mw[depth])
       THEN \/ /\ Send(depth - 1, Plain(ErrorStatus, 1)) /\ exc' = "none"
               /\ Return(depth) /\ UNCHANGED core
            \/ CutShort(mw, depth - 1, Plain(ErrorStatus, 1))
       ELSE Return(depth) /\ UNCHANGED <<mw, core, exc, sent>>
  /\ UNCHANGED <<Given, client, reader, file>>

\* The server gets control back.
Finish ==
  /\ phase = "out" /\ depth = 0
  /\ phase' = "done"
  /\ UNCHANGED <<Given, depth, mw, core, client, reader, file, exc, sent>>

Next ==
  \/ EnterThrough \/ EnterProxy \/ EnterHost \/ EnterHttps \/ EnterLimits \/ EnterCors
  \/ EnterCounting \/ EnterHooks \/ EnterCsrf
  \/ ReceiveChunk \/ ReceiveNothing \/ ReceiveReplay \/ ClientLeaves
  \/ EnterCore \/ AnswerObject \/ AnswerObjectBody \/ CoreBreaks
  \/ AnswerStream \/ StreamChunk \/ StreamEnds
  \/ ServeStatic \/ OpenFile \/ ServeChunk \/ FileChanges \/ Cancel
  \/ LeaveThrough \/ LeaveGzip \/ LeaveHooks \/ LeaveCounting \/ LeaveErrors
  \/ Finish

Spec == Init /\ [][Next]_vars

-----------------------------------------------------------------------------
(* Properties *)

Has(k) == \E i \in 1..Len(pipe) : pipe[i] = k

\* The application has answered and nothing replaced its answer.
AnsweredByCore ==
  /\ phase = "done" /\ core.pc = "sent" /\ ~core.failed
  /\ wire.start # <<>> /\ wire.start[1].status = core.status

(* The server is given one start message, then bodies, and nothing after    *)
(* the last: whatever the wrappers hold back, rebuild or add, and whoever   *)
(* raises or is cancelled in whichever await. The exceptions are both of    *)
(* GZipMiddleware, for its finalize sends a second start unless _started is *)
(* set. An answer that comes to it encoded already, by the application or   *)
(* by another GZipMiddleware, is forwarded without setting it; and it is    *)
(* set after the messages it stands for, not before, so that what is raised *)
(* in the sending of one of them leaves it unset.                           *)
AnswersInOrder ==
  wire.disorder =>
    \E i \in 1..Len(pipe) :
      /\ pipe[i] = "gzip"
      /\ req.coded \/ mw[i].spoilt \/ \E j \in i + 1..Len(pipe) : pipe[j] = "gzip"

\* What the middlewares add to an answer is in what the server got; a hook
\* middleware, which rebuilds the headers as a dict, may lose one of two with
\* the same name (two cookies).
HeadersReach ==
  LET added == UNION {ToSet(AddedLines(pipe[i])) : i \in 1..Len(pipe)}
      got == ToSet(wire.start[1].lines)
      Names(lines) == {l.name : l \in lines}
  IN /\ Names(added) \subseteq Names(got)
     /\ ~Has("hooks") => added \subseteq got

(* An answer the application completed reaches the server complete, with    *)
(* all of its bytes through buffering, compression and rebuilding, with the *)
(* headers that the middlewares add, and with a content-length, if any, of  *)
(* what is really sent, unless the file that is served changes meanwhile.   *)
AnswerIntact ==
  AnsweredByCore =>
    /\ HeadersReach
    /\ ~wire.disorder =>
         /\ wire.ended
         /\ req.method # "HEAD" =>
              /\ wire.raw = core.chunks
              /\ ~core.moved => wire.start[1].lens \in {<<>>, <<wire.size>>}

(* Every request that gets as far as the metrics is counted once, leaves    *)
(* the gauge as it was, and is counted under the status that the server is  *)
(* given first, 500 if that is none. The exceptions stand outside of the    *)
(* metrics: a hook middleware whose after_response raises or gives another  *)
(* response, or whose call raises when the answer has started, which is     *)
(* then dropped; and an ErrorHandlerMiddleware that answers a               *)
(* RequestValidationError with its own status, here counted as 500.         *)
CountedAsAnswered ==
  phase = "done" =>
    \A i \in 1..Len(pipe) :
      pipe[i] \in Counting /\ (mw[i].counts # <<>> \/ mw[i].inside # 0) =>
        /\ mw[i].inside = 0
        /\ Len(mw[i].counts) = 1
        /\ \/ mw[i].counts = <<IF wire.start = <<>> THEN 500 ELSE wire.start[1].status>>
           \/ \E j \in 1..i - 1 : pipe[j] = "hooks" /\ mw[j].spoilt
           \/ /\ mw[i].counts = <<500>> /\ wire.start # <<>> /\ wire.start[1].status = 422
              /\ \E j \in 1..i - 1 : pipe[j] = "errors"

\* Position i stands inside of a proxy middleware, or there is no proxy.
Settled(i) == req.peer = "client" \/ \E j \in 1..i - 1 : pipe[j] = "proxy"

(* Whoever is behind a trusted proxy, or writes X-Forwarded-* by hand: the  *)
(* handler sees the client, scheme and host that the client really has and  *)
(* used; no gate that stands inside of the proxy middleware lets through or *)
(* refuses a client for what is true of the proxy, or of what it claims.    *)
ClientJudged ==
  LET inside(k) == {i \in DOMAIN pipe : pipe[i] = k /\ Settled(i)}
      all(k) == {i \in DOMAIN pipe : pipe[i] = k}
      answered(status) == wire.start # <<>> /\ wire.start[1].status = status
  IN /\ phase = "core" =>
          /\ Settled(Inner) => view = req.truth
          /\ inside("https") # {} => req.truth.scheme = "https"
          /\ inside("host") # {} => req.truth.host = "allowed"
     /\ answered(307) /\ inside("https") = all("https") => req.truth.scheme = "http"
     /\ answered(400) /\ inside("host") = all("host") => req.truth.host # "allowed"

(* A handler that reads the body sees all the client has sent, also when    *)
(* CSRFMiddleware has read it first for its token; it can miss the end of   *)
(* it only if the client left, which read_body does not notice, or if a     *)
(* before_request outside has read it, who leaves nothing to replay.        *)
BodySeen ==
  reader.seen # <<>> /\ ~client.gone /\ ~reader.taken => reader.seen = <<req.chunks>>

(* docs/guide/responses.md: a handler that returns a StreamingResponse is   *)
(* answered by its stream. _build_response encodes it as JSON, which fails, *)
(* and the answer is 500.                                                   *)
HandlersMayStream ==
  core.pc = "sent" /\ ~req.mounted /\ req.app = "stream" /\ core.status # 413
    => core.status # 500

=============================================================================
