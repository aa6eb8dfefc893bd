------------------------------ MODULE Metrics ------------------------------
(***************************************************************************)
(* The global counters of core/src/metrics.rs, as functions of a record of *)
(* counters: each is one atomic addition, so a caller's step applies one   *)
(* or several of them.  How the duration of a request is recorded, which   *)
(* takes several steps, is in Durations.                                   *)
(***************************************************************************)
EXTENDS Integers, Sequences

Counters ==
    {"requests_total", "requests_success", "requests_error",
     "responses_2xx", "responses_3xx", "responses_4xx", "responses_5xx",
     "connections_active", "connections_total", "bytes_received", "bytes_sent",
     "request_duration_count", "rules_applied", "host_requests"}
StatusClasses == {"responses_2xx", "responses_3xx", "responses_4xx", "responses_5xx"}
Unsummed ==
    {"bytes_received", "bytes_sent", "request_duration_count", "rules_applied", "host_requests"}

NewMetrics == [k \in Counters |-> 0]
LOCAL Add(m, k, n) == [m EXCEPT ![k] = @ + n]

record_request(m) == Add(m, "requests_total", 1)
record_request_success(m) == Add(m, "requests_success", 1)
record_request_error(m) == Add(m, "requests_error", 1)
record_host_request(m) == Add(m, "host_requests", 1)

\* A status outside 200..599 is counted nowhere.
record_response(m, status) ==
    CASE status \in 200..299 -> Add(m, "responses_2xx", 1)
      [] status \in 300..399 -> Add(m, "responses_3xx", 1)
      [] status \in 400..499 -> Add(m, "responses_4xx", 1)
      [] status \in 500..599 -> Add(m, "responses_5xx", 1)
      [] OTHER -> m

connection_opened(m) == Add(Add(m, "connections_active", 1), "connections_total", 1)
connection_closed(m) == Add(m, "connections_active", -1)
record_bytes_received(m, n) == Add(m, "bytes_received", n)
record_bytes_sent(m, n) == Add(m, "bytes_sent", n)
record_rules_applied(m, n) == Add(m, "rules_applied", n)

\* The timer of a request is dropped.
request_timed(m) == Add(m, "request_duration_count", 1)

\* reset, of some of the counters.
Zero(m, ks) == [k \in Counters |-> IF k \in ks THEN 0 ELSE m[k]]

----------------------------------------------------------------------------
\* LatencyHistogram

BUCKET_BOUNDS_MS == <<1, 5, 10, 25, 50, 100, 250, 500, 1000, 5000>>

\* The first bound above the duration, or the last bucket.
BucketFor(ms) ==
    LET above == {i \in 1..Len(BUCKET_BOUNDS_MS) : ms < BUCKET_BOUNDS_MS[i]}
    IN  IF above = {} THEN 11 ELSE CHOOSE i \in above : \A j \in above : i <= j
=============================================================================
