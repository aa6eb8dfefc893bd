------------------------------- MODULE Proxy -------------------------------
(***************************************************************************)
(* The proxy (core/src/proxy.rs).  A connection has a task of its own that *)
(* takes its requests one after the other through the pipeline:            *)
(*                                                                         *)
(*   normalise the URI, OnRequest hook, scope, body, request rules, server,*)
(*   body of the response, OnResponse hook, response rules, passive scan,  *)
(*   capture, client.                                                      *)
(*                                                                         *)
(* Between any two of these the rules and the scope may be edited through  *)
(* the API, other connections go on, and the client may hang up, which     *)
(* drops the task where it waits.  The results of both hooks are ignored.  *)
(* Requests of one connection come one after the other, as in HTTP/1; no   *)
(* connection is served with upgrades, so CONNECT is answered and then the *)
(* connection ends, whether there is a TlsInterceptor or not.              *)
(*                                                                         *)
(* A rule is a model value: what a message carries of the rules is the set *)
(* of those that were in force when they were applied to it.  The capture  *)
(* is RequestCapture::push, seen here as a log (module Capture has it in   *)
(* full); the counters are those of Metrics.                               *)
(***************************************************************************)
EXTENDS Metrics, FiniteSets

CONSTANTS
    Conns,          \* connections, each accepted at most once
    Hosts,          \* servers behind the proxy
    RuleIds,        \* rules the API may set
    MaxRequests,    \* bound: requests in a behaviour
    MaxEdits        \* bound: edits of the rules and of the scope, resets of the metrics

ASSUME ProxyAssumption == MaxRequests \in Nat /\ MaxEdits \in Nat

\* No rule is one of the marks below, which stand for "no rules were applied".
ASSUME RuleNames == RuleIds \cap {"nothing yet", "502", "out of scope", "200 to CONNECT"} = {}

VARIABLES
    listening,  \* run() still accepts
    conn,       \* per connection: what it is
    inFlight,   \* per connection: the request it is at
    rules,      \* RuleEngine.rules
    scope,      \* hosts the scope lets in
    captured,   \* what was pushed, in order
    scanned,    \* what passive_scan was given
    metrics,
    zeroing,    \* what Metrics::reset stores zero into next, or "off"
    received,   \* history: per request, what the server was sent
    delivered,  \* history: per request, what the client was answered
    abandoned,  \* history: requests whose client hung up since the last reset began
    classless,  \* history: answers in no class since the last reset of the successes
    straddled,  \* history: requests that were under way during the last reset
    requests,   \* bound
    edits       \* bound

logs == <<captured, scanned>>
history == <<received, delivered>>
counting == <<zeroing, abandoned, classless, straddled>>
setting == <<rules, scope, edits>>
proxyVars == <<listening, conn, inFlight, setting, logs, metrics, counting, history, requests>>

\* What a client or a server may have got instead of the rules of a message.
NotYet == {"nothing yet"}
Error == {"502"}
Untouched == {"out of scope"}
Upgraded == {"200 to CONNECT"}

Ids == 1..MaxRequests
Idle == [pc |-> "idle"]
Forms == {"http", "https", "origin"}    \* absolute URIs, and a path with a Host header
Statuses == {200, 404, 999}             \* of servers, one in no class among them

\* A request in the pipeline; tls is whether the URI it is forwarded to is https.
Entry(t) == [id |-> t.id, tls |-> t.tls, sent |-> t.sent, reply |-> t.reply]

----------------------------------------------------------------------------
\* The server

Accept(c) ==
    /\ listening
    /\ conn[c] = "new"
    /\ conn' = [conn EXCEPT ![c] = "open"]
    /\ metrics' = connection_opened(metrics)
    /\ UNCHANGED <<listening, inFlight, setting, logs, counting, history, requests>>

\* An error of accept ends run(), and with it the listening for good.
AcceptError ==
    /\ listening
    /\ listening' = FALSE
    /\ UNCHANGED <<conn, inFlight, setting, logs, metrics, counting, history, requests>>

\* The task of the connection ends.
Close(c, m) ==
    /\ conn' = [conn EXCEPT ![c] = "closed"]
    /\ inFlight' = [inFlight EXCEPT ![c] = Idle]
    /\ metrics' = connection_closed(m)

\* The client hangs up.  A request that awaits something is dropped with its
\* timer, and is neither a success nor an error.
HangUp(c) ==
    /\ conn[c] = "open"
    /\ inFlight[c].pc \in {"idle", "body", "answer", "answerOut"}
    /\ Close(c, IF inFlight[c].pc = "answer" THEN request_timed(metrics) ELSE metrics)
    /\ abandoned' = abandoned + IF inFlight[c].pc = "idle" THEN 0 ELSE 1
    /\ UNCHANGED <<listening, setting, logs, zeroing, classless, straddled, history, requests>>

\* A request that begins while a reset is under way is one that the reset may have
\* counted by halves.
Arrive ==
    /\ requests < MaxRequests
    /\ requests' = requests + 1
    /\ straddled' = IF zeroing = "off" THEN straddled ELSE straddled + 1

----------------------------------------------------------------------------
\* How a request ends

\* An error is a 502 to the client.
Fail(c, m) ==
    /\ delivered' = [delivered EXCEPT ![inFlight[c].id] = Error]
    /\ metrics' = record_request_error(m)
    /\ inFlight' = [inFlight EXCEPT ![c] = Idle]

\* The answer goes to the client.
Deliver(c, reply, status, m) ==
    /\ delivered' = [delivered EXCEPT ![inFlight[c].id] = reply]
    /\ metrics' = record_response(record_request_success(m), status)
    /\ classless' = classless + IF status \in 200..599 THEN 0 ELSE 1
    /\ inFlight' = [inFlight EXCEPT ![c] = Idle]

----------------------------------------------------------------------------
\* handle_request and forward_request

\* normalize_uri: a path is taken to be of http.
SchemeOf(form) == IF form = "origin" THEN "http" ELSE form

\* A request is read from the connection, up to the OnRequest hook.
Request(c, host, form) ==
    /\ conn[c] = "open" /\ inFlight[c].pc = "idle"
    /\ Arrive
    /\ inFlight' = [inFlight EXCEPT ![c] =
                   [pc |-> "scope", id |-> requests + 1, host |-> host,
                    tls |-> SchemeOf(form) = "https",
                    inScope |-> FALSE, count |-> 0, sent |-> {}, reply |-> {}]]
    /\ metrics' = record_host_request(record_request(metrics))
    /\ UNCHANGED <<listening, conn, setting, logs, zeroing, abandoned, classless, history>>

\* A path without a Host header, or a CONNECT without an authority: an error before
\* anything else is done.
RequestNowhere(c) ==
    /\ conn[c] = "open" /\ inFlight[c].pc = "idle"
    /\ Arrive
    /\ metrics' = record_request_error(record_request(metrics))
    /\ delivered' = [delivered EXCEPT ![requests + 1] = Error]
    /\ UNCHANGED <<listening, conn, inFlight, setting, logs, zeroing, abandoned, classless,
                   received>>

\* The scope as it is after the hook decides for the whole exchange.
CheckScope(c) ==
    /\ inFlight[c].pc = "scope"
    /\ inFlight' = [inFlight EXCEPT ![c].pc = "body", ![c].inScope = inFlight[c].host \in scope]
    /\ UNCHANGED <<listening, conn, setting, logs, metrics, counting, history, requests>>

\* The body is here.  Out of scope the request goes out as it is; in scope the
\* rules are counted, and applied in a step of its own.
CollectBody(c) ==
    /\ inFlight[c].pc = "body"
    /\ metrics' = record_bytes_received(metrics, 1)
    /\ IF inFlight[c].inScope
       THEN /\ inFlight' = [inFlight EXCEPT ![c].pc = "rules", ![c].count = Cardinality(rules)]
            /\ UNCHANGED received
       ELSE /\ inFlight' = [inFlight EXCEPT ![c].pc = "answerOut"]
            /\ received' = [received EXCEPT ![inFlight[c].id] = {}]
    /\ UNCHANGED <<listening, conn, setting, logs, counting, delivered, requests>>

\* The rules are read again to be applied, the record is made of the result,
\* and the request goes out; its timer runs.
ApplyRulesAndSend(c) ==
    /\ inFlight[c].pc = "rules"
    /\ metrics' = record_rules_applied(metrics, inFlight[c].count)
    /\ inFlight' = [inFlight EXCEPT ![c].pc = "answer", ![c].sent = rules]
    /\ received' = [received EXCEPT ![inFlight[c].id] = rules]
    /\ UNCHANGED <<listening, conn, setting, logs, counting, delivered, requests>>

\* The body of the request, the server or the body of its response fails.
Broken(c) ==
    /\ inFlight[c].pc \in {"body", "answer", "answerOut"}
    /\ Fail(c, IF inFlight[c].pc = "answer" THEN request_timed(metrics) ELSE metrics)
    /\ UNCHANGED <<listening, conn, setting, logs, counting, received, requests>>

\* Out of scope the response is delivered as it came.
RespondOut(c, status) ==
    /\ inFlight[c].pc = "answerOut"
    /\ Deliver(c, Untouched, status, record_bytes_sent(metrics, 1))
    /\ UNCHANGED <<listening, conn, setting, logs, zeroing, abandoned, straddled, received, requests>>

\* The response is here: OnResponse hook, response rules, passive scan.  From
\* here on nothing is awaited, so the client's hanging up changes nothing.
Respond(c) ==
    /\ inFlight[c].pc = "answer"
    /\ LET t == [inFlight[c] EXCEPT !.pc = "push", !.reply = rules]
       IN  /\ inFlight' = [inFlight EXCEPT ![c] = t]
           /\ scanned' = scanned \cup {Entry(t)}
    /\ metrics' = record_bytes_sent(metrics, 1)
    /\ UNCHANGED <<listening, conn, setting, captured, counting, history, requests>>

\* Mutant: only the answers that are no errors are captured.
PushAndDeliverGood(c, status) ==
    /\ inFlight[c].pc = "push"
    /\ captured' = IF status < 400 THEN Append(captured, Entry(inFlight[c])) ELSE captured
    /\ Deliver(c, inFlight[c].reply, status, request_timed(metrics))
    /\ UNCHANGED <<listening, conn, setting, scanned, zeroing, abandoned, straddled, received,
                   requests>>

\* RequestCapture::push, then the client has its answer.
PushAndDeliver(c, status) ==
    /\ inFlight[c].pc = "push"
    /\ captured' = Append(captured, Entry(inFlight[c]))
    /\ Deliver(c, inFlight[c].reply, status, request_timed(metrics))
    /\ UNCHANGED <<listening, conn, setting, scanned, zeroing, abandoned, straddled, received,
                   requests>>

----------------------------------------------------------------------------
\* handle_connect

\* CONNECT is captured at once, without an answer and whatever the scope; a task of
\* its own waits for the connection to be upgraded.
Connect(c) ==
    /\ conn[c] = "open" /\ inFlight[c].pc = "idle"
    /\ Arrive
    /\ captured' = Append(captured, [id |-> requests + 1, tls |-> TRUE, sent |-> {}, reply |-> NotYet])
    /\ conn' = [conn EXCEPT ![c] = "upgrade"]
    /\ delivered' = [delivered EXCEPT ![requests + 1] = Upgraded]
    /\ metrics' = record_response(record_request_success(record_request(metrics)), 200)
    /\ UNCHANGED <<listening, inFlight, setting, scanned, zeroing, abandoned, classless, received>>

\* serve_connection ends with the 200 and drops the connection, for it is not the one
\* with upgrades; upgrade::on is an error to the task that waits to accept TLS or to
\* copy bytes (proxy.rs:153, 404, 457).
Upgrade(c) ==
    /\ conn[c] = "upgrade"
    /\ Close(c, metrics)
    /\ UNCHANGED <<listening, setting, logs, counting, history, requests>>

----------------------------------------------------------------------------
\* The API

\* POST and DELETE of rules, and the scope.
SetRules(r) ==
    /\ edits < MaxEdits
    /\ edits' = edits + 1
    /\ \/ rules' = rules \cup {r}
       \/ rules' = {}
    /\ UNCHANGED <<listening, conn, inFlight, scope, logs, metrics, counting, history, requests>>

SetScope(hosts) ==
    /\ edits < MaxEdits
    /\ edits' = edits + 1
    /\ scope' = hosts
    /\ UNCHANGED <<listening, conn, inFlight, rules, logs, metrics, counting, history, requests>>

\* Metrics::reset stores zero into one counter after the other.  The four classes and
\* what is in no sum are one step, as their order shows in no sum; the connections are
\* left as they are.
ResetTotal ==
    /\ zeroing = "off"
    /\ edits < MaxEdits
    /\ edits' = edits + 1
    /\ zeroing' = "success"
    /\ metrics' = Zero(metrics, {"requests_total"})
    /\ abandoned' = 0
    /\ straddled' = Cardinality({c \in Conns : inFlight[c] # Idle})
    /\ UNCHANGED <<listening, conn, inFlight, rules, scope, logs, classless, history, requests>>

ResetSuccess ==
    /\ zeroing = "success"
    /\ zeroing' = "error"
    /\ metrics' = Zero(metrics, {"requests_success"})
    /\ classless' = 0
    /\ UNCHANGED <<listening, conn, inFlight, setting, logs, abandoned, straddled, history, requests>>

ResetError ==
    /\ zeroing = "error"
    /\ zeroing' = "rest"
    /\ metrics' = Zero(metrics, {"requests_error"})
    /\ UNCHANGED <<listening, conn, inFlight, setting, logs, abandoned, classless, straddled, history,
                   requests>>

\* Mutant: all counters are set to zero, the connections that are open too.
ResetAll ==
    /\ zeroing = "rest"
    /\ zeroing' = "off"
    /\ metrics' = Zero(metrics, StatusClasses \cup Unsummed \cup {"connections_active"})
    /\ UNCHANGED <<listening, conn, inFlight, setting, logs, abandoned, classless, straddled, history,
                   requests>>

ResetRest ==
    /\ zeroing = "rest"
    /\ zeroing' = "off"
    /\ metrics' = Zero(metrics, StatusClasses \cup Unsummed)
    /\ UNCHANGED <<listening, conn, inFlight, setting, logs, abandoned, classless, straddled, history,
                   requests>>

ProxyInit ==
    /\ listening = TRUE
    /\ conn = [c \in Conns |-> "new"]
    /\ inFlight = [c \in Conns |-> Idle]
    /\ rules = {}
    /\ scope = Hosts
    /\ captured = <<>>
    /\ scanned = {}
    /\ metrics = NewMetrics
    /\ received = [i \in Ids |-> NotYet]
    /\ delivered = [i \in Ids |-> NotYet]
    /\ zeroing = "off"
    /\ abandoned = 0 /\ classless = 0 /\ straddled = 0
    /\ requests = 0
    /\ edits = 0

ProxyNext ==
    \/ AcceptError
    \/ \E c \in Conns :
        \/ Accept(c) \/ HangUp(c) \/ Connect(c) \/ Upgrade(c) \/ RequestNowhere(c)
        \/ \E h \in Hosts, f \in Forms : Request(c, h, f)
        \/ CheckScope(c) \/ CollectBody(c) \/ ApplyRulesAndSend(c)
        \/ Broken(c) \/ Respond(c)
        \/ \E s \in Statuses : RespondOut(c, s) \/ PushAndDeliver(c, s)
    \/ \E r \in RuleIds : SetRules(r)
    \/ \E hosts \in SUBSET Hosts : SetScope(hosts)
    \/ ResetTotal \/ ResetSuccess \/ ResetError \/ ResetRest

ProxySpec == ProxyInit /\ [][ProxyNext]_proxyVars

----------------------------------------------------------------------------
\* Properties

\* What was pushed of a request, and whether it has an answer (CONNECT has not).
EntriesOf(i) == {n \in 1..Len(captured) : captured[n].id = i}
Answered(i) == delivered[i] \notin {NotYet, Error, Untouched, Upgraded}

\* An exchange in scope is captured once, as the server and the client saw it,
\* and was scanned as that, however rules and scope are edited while it is
\* under way; one that is out of scope, that failed or whose client left is
\* not captured (proxy.rs:235, 255, 331).
ExchangeIsRecorded ==
    \A i \in Ids :
        IF Answered(i)
        THEN \E n \in EntriesOf(i) :
                /\ EntriesOf(i) = {n}
                /\ captured[n].sent = received[i]
                /\ captured[n].reply = delivered[i]
                /\ captured[n] \in scanned
        ELSE delivered[i] # Upgraded => EntriesOf(i) = {}

Pending == {c \in Conns : inFlight[c] # Idle}
InClasses == metrics["responses_2xx"] + metrics["responses_3xx"] + metrics["responses_4xx"]
             + metrics["responses_5xx"]

\* The counters of GET /api/metrics add up but for the requests that the last reset met:
\* a counted request is a success, an error, under way or was abandoned by its client,
\* a success has a class unless its status has none, and the active connections are the
\* open ones, reset or not (proxy.rs:82, 114, 153; metrics.rs:135, 296).
MetricsAddUp ==
    /\ zeroing = "off" =>
           LET ended == metrics["requests_success"] + metrics["requests_error"] + abandoned
               lost == metrics["requests_total"] - ended - Cardinality(Pending)
               unclassed == metrics["requests_success"] - InClasses - classless
           IN  /\ -straddled <= lost /\ lost <= straddled
               /\ 0 <= unclassed /\ unclassed <= straddled
    /\ metrics["connections_active"] = Cardinality({c \in Conns : conn[c] \in {"open", "upgrade"}})

\* "Full HTTP/HTTPS proxy with TLS MITM" (README.md:55): a connection whose CONNECT was
\* answered with 200 is there to be used.
TunnelLasts ==
    [][\A c \in Conns : conn[c] = "upgrade" => conn'[c] # "closed"]_proxyVars
=============================================================================
