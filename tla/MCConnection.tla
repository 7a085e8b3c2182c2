---------------------------- MODULE MCConnection ----------------------------
EXTENDS Connection

CONSTANT MaxChunks

\* Orders of registration in which each middleware is inside and outside of
\* those it could disturb; some registered twice; and no middleware at all.
MCPipelines ==
  {<<"errors", "metrics", "cors", "gzip", "session", "csrf">>,
   <<"metrics", "errors", "hooks", "gzip", "cors", "session">>,
   <<"errors", "hooks", "observe", "session", "csrf">>,
   <<"gzip", "errors", "host", "requestid", "debug", "proxy", "limits", "hooks">>,
   <<"proxy", "observe", "host", "https", "limits", "headers", "timing", "errors">>,
   <<"https", "proxy", "host", "debug", "requestid">>,
   <<"cors", "csrf", "gzip", "errors", "metrics">>,
   <<"gzip", "csrf", "gzip", "hooks", "metrics", "cors">>,
   <<"https", "proxy", "host", "https", "proxy", "errors", "hooks">>,
   <<>>}

\* A client that comes directly or through a proxy, to a route that answers.
Direct == [method |-> "GET", cookie |-> TRUE, token |-> "none", value |-> "none", chunks |-> 0,
           touched |-> FALSE, coded |-> FALSE, fresh |-> FALSE, mounted |-> FALSE, size |-> 1,
           app |-> "object", origin |-> "allowed", id |-> "good", path |-> "route",
           oversized |-> "no", peer |-> "client", scheme |-> "https", host |-> "allowed",
           forwarded |-> [ips |-> <<>>, scheme |-> "http", host |-> "other"],
           truth |-> [client |-> "client", scheme |-> "https", host |-> "allowed"]]

With(r) == r @@ Direct

\* Requests without a body and their answers.
Reads == [method : {"GET", "HEAD"}, cookie : BOOLEAN, touched : BOOLEAN, coded : BOOLEAN,
          fresh : BOOLEAN, mounted : BOOLEAN, size : 0..MaxChunks,
          app : {"object", "json", "stream", "static", "broken"}]

\* Requests with one, to a route.
Writes == [method : {"POST"}, cookie : BOOLEAN, token : {"header", "form"},
           value : {"good", "bad", "none"}, chunks : 0..MaxChunks, touched : BOOLEAN,
           app : {"object", "json", "stream", "broken"}]

\* Requests that a middleware may answer.
Odd == [method : {"GET", "OPTIONS"}, origin : {"none", "allowed", "other"},
        id : {"none", "good", "long"}, path : {"route", "metrics", "debug"},
        oversized : {"no", "query", "headers"}]

\* Clients that write X-Forwarded-* themselves, and what a proxy appends.
Truths == [client : {"client"}, scheme : {"http", "https"}, host : {"allowed", "other"}]
Claims == {<<>>, <<"claimed">>, <<"junk">>, <<"hop">>, <<"junk", "claimed">>}

Unproxied ==
  {[peer |-> "client", scheme |-> t.scheme, host |-> t.host, truth |-> t,
    forwarded |-> [ips |-> claim, scheme |-> s, host |-> h]] :
      t \in Truths, claim \in Claims, s \in {"http", "https"}, h \in {"allowed", "other"}}

Proxied ==
  {[peer |-> "hop", scheme |-> "http", host |-> h, truth |-> t,
    forwarded |-> [ips |-> claim \o <<"client">> \o hops, scheme |-> t.scheme, host |-> t.host]] :
      t \in Truths, h \in {"allowed", "other"}, claim \in Claims, hops \in {<<>>, <<"hop">>}}

Sensible(r) ==
  /\ \/ r.mounted = (r.app \in {"stream", "static"})
     \/ ~r.mounted /\ r.app = "stream"
     \/ r.mounted /\ r.app = "broken"
  /\ r.fresh => r.app = "static"
  /\ r.coded => r.app \in {"object", "stream"}

MCRequests ==
  {With(r) : r \in {r \in Reads : Sensible(r)}
                   \cup {r \in Writes : r.token = "header" => r.value # "none"}
                   \cup Odd \cup Unproxied \cup Proxied}

=============================================================================
