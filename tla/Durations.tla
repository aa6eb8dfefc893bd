----------------------------- MODULE Durations -----------------------------
(***************************************************************************)
(* How durations are recorded and reset (core/src/metrics.rs): no lock     *)
(* holds the sum, the count, the maximum and the histogram together, so    *)
(* that requests that end at once, and a reset, interleave between any two *)
(* of the stores.  The maximum is raised by a compare-and-swap loop.       *)
(***************************************************************************)
EXTENDS Metrics

CONSTANTS
    Timers,     \* request timers, each dropped again and again
    Micros,     \* durations in microseconds
    MaxCount    \* bound: durations recorded in a behaviour

ASSUME DurationAssumption == Micros \subseteq Nat /\ MaxCount \in Nat

VARIABLES
    request_duration_sum_us, request_duration_count, request_duration_max_us,
    latency_buckets,
    timer,      \* per timer: where record_request_duration is
    resetting,  \* where reset() is
    folded,     \* history: durations compared with the maximum since its reset
    torn,       \* history: a timer and a reset overlapped since the last clean reset
    drops       \* bound

totals == <<request_duration_sum_us, request_duration_count>>
durations == <<totals, request_duration_max_us, latency_buckets>>
durationVars == <<durations, timer, resetting, folded, torn, drops>>

Off == [pc |-> "off", micros |-> 0, current_max |-> 0]
NoBuckets == [b \in 1..11 |-> 0]

DurationsOK ==
    /\ request_duration_sum_us \in Nat /\ request_duration_count \in Nat
    /\ request_duration_max_us \in Nat
    /\ latency_buckets \in [1..11 -> Nat]
    /\ timer \in [Timers -> [pc : {"off", "count", "load", "swap", "bucket"},
                             micros : Nat, current_max : Nat]]
    /\ resetting \in {"off", "count", "max", "buckets"}
    /\ folded \subseteq Nat
    /\ torn \in BOOLEAN
    /\ drops \in Nat

----------------------------------------------------------------------------
\* record_request_duration

Overlapped == torn' = (torn \/ resetting # "off")

Drop(t, us) ==
    /\ timer[t].pc = "off"
    /\ drops < MaxCount
    /\ drops' = drops + 1
    /\ request_duration_sum_us' = request_duration_sum_us + us
    /\ timer' = [timer EXCEPT ![t] = [pc |-> "count", micros |-> us, current_max |-> 0]]
    /\ Overlapped
    /\ UNCHANGED <<request_duration_count, request_duration_max_us, latency_buckets, resetting, folded>>

Count(t) ==
    /\ timer[t].pc = "count"
    /\ request_duration_count' = request_duration_count + 1
    /\ timer' = [timer EXCEPT ![t].pc = "load"]
    /\ Overlapped
    /\ UNCHANGED <<request_duration_sum_us, request_duration_max_us, latency_buckets, resetting, folded, drops>>

\* The loop ends here if the maximum it sees is no less.
Compare(t, seen) ==
    IF timer[t].micros > seen
    THEN /\ timer' = [timer EXCEPT ![t].pc = "swap", ![t].current_max = seen]
         /\ UNCHANGED folded
    ELSE /\ timer' = [timer EXCEPT ![t].pc = "bucket"]
         /\ folded' = folded \cup {timer[t].micros}

Load(t) ==
    /\ timer[t].pc = "load"
    /\ Compare(t, request_duration_max_us)
    /\ Overlapped
    /\ UNCHANGED <<durations, resetting, drops>>

\* Mutant: the maximum is stored whatever it has become.
StoreMax(t) ==
    /\ timer[t].pc = "swap"
    /\ request_duration_max_us' = timer[t].micros
    /\ timer' = [timer EXCEPT ![t].pc = "bucket"]
    /\ folded' = folded \cup {timer[t].micros}
    /\ Overlapped
    /\ UNCHANGED <<totals, latency_buckets, resetting, drops>>

\* compare_exchange_weak: it fails when the maximum has changed, and may fail
\* when it has not; then the loop goes on with what it found.
Swap(t) ==
    /\ timer[t].pc = "swap"
    /\ \/ /\ request_duration_max_us = timer[t].current_max
          /\ request_duration_max_us' = timer[t].micros
          /\ timer' = [timer EXCEPT ![t].pc = "bucket"]
          /\ folded' = folded \cup {timer[t].micros}
       \/ /\ Compare(t, request_duration_max_us)
          /\ UNCHANGED request_duration_max_us
    /\ Overlapped
    /\ UNCHANGED <<totals, latency_buckets, resetting, drops>>

CountBucket(t) ==
    /\ timer[t].pc = "bucket"
    /\ latency_buckets' = [latency_buckets EXCEPT ![BucketFor(timer[t].micros \div 1000)] = @ + 1]
    /\ timer' = [timer EXCEPT ![t] = Off]
    /\ Overlapped
    /\ UNCHANGED <<totals, request_duration_max_us, resetting, folded, drops>>

----------------------------------------------------------------------------
\* reset, from the store of the sum to that of the histogram

ResetSum ==
    /\ resetting = "off"
    /\ resetting' = "count"
    /\ request_duration_sum_us' = 0
    /\ torn' = \E t \in Timers : timer[t] # Off
    /\ UNCHANGED <<request_duration_count, request_duration_max_us, latency_buckets, timer, folded, drops>>

ResetCount ==
    /\ resetting = "count"
    /\ resetting' = "max"
    /\ request_duration_count' = 0
    /\ UNCHANGED <<request_duration_sum_us, request_duration_max_us, latency_buckets, timer, folded, torn, drops>>

ResetMax ==
    /\ resetting = "max"
    /\ resetting' = "buckets"
    /\ request_duration_max_us' = 0
    /\ folded' = {}
    /\ UNCHANGED <<totals, latency_buckets, timer, torn, drops>>

\* Mutant: the histogram is left as it is.
ResetNoBuckets ==
    /\ resetting = "buckets"
    /\ resetting' = "off"
    /\ UNCHANGED <<durations, timer, folded, torn, drops>>

ResetBuckets ==
    /\ resetting = "buckets"
    /\ resetting' = "off"
    /\ latency_buckets' = NoBuckets
    /\ UNCHANGED <<totals, request_duration_max_us, timer, folded, torn, drops>>

DurationsInit ==
    /\ request_duration_sum_us = 0 /\ request_duration_count = 0 /\ request_duration_max_us = 0
    /\ latency_buckets = NoBuckets
    /\ timer = [t \in Timers |-> Off]
    /\ resetting = "off"
    /\ folded = {}
    /\ torn = FALSE
    /\ drops = 0

DurationsNext ==
    \/ \E t \in Timers :
        Count(t) \/ Load(t) \/ Swap(t) \/ CountBucket(t) \/ \E us \in Micros : Drop(t, us)
    \/ ResetSum \/ ResetCount \/ ResetMax \/ ResetBuckets

DurationsSpec == DurationsInit /\ [][DurationsNext]_durationVars

----------------------------------------------------------------------------
\* Properties

\* max_request_duration_us is the largest of the durations it was compared
\* with since it was reset, whoever else raised it meanwhile: no update is lost
\* and none survives the reset (metrics.rs:182).
MaximumIsKept ==
    /\ \A us \in folded : us <= request_duration_max_us
    /\ request_duration_max_us \in folded \cup {0}

\* The durations in all buckets.
Held(buckets) ==
    LET upTo[b \in 0..11] == IF b = 0 THEN 0 ELSE upTo[b - 1] + buckets[b]
    IN  upTo[11]

\* When nothing is being recorded or reset, and no reset met a timer, the
\* histogram holds as many durations as were counted, and the average that
\* snapshot makes of sum and count is no more than the maximum.
DurationsAgree ==
    resetting = "off" /\ ~torn /\ (\A t \in Timers : timer[t] = Off) =>
        /\ Held(latency_buckets) = request_duration_count
        /\ request_duration_sum_us <= request_duration_count * request_duration_max_us
=============================================================================
