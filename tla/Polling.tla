------------------------------ MODULE Polling ------------------------------
(***************************************************************************)
(* Polling (ui/src/composables/dashboard/useDashboardMetrics.ts, and line  *)
(* by line the same useDashboardConnections.ts): a fetch every interval,   *)
(* one at a time, a retry after a failure, and a stop when the component   *)
(* goes.  The variable of the retry timer is overwritten by the next       *)
(* failure and never emptied when its timer fires.                         *)
(***************************************************************************)
EXTENDS Integers

CONSTANTS
    MAX_RETRIES,    \* 3
    MaxAsked        \* bound: fetches asked for by the interval and the user

ASSUME PollingAssumption == MAX_RETRIES \in Nat /\ MaxAsked \in Nat

VARIABLES
    mounted,
    pollInterval,   \* the interval is set
    retryTimeout,   \* what the variable holds: null, a pending timer, a fired one
    strayRetries,   \* pending retry timers that no variable holds
    retryCount,
    isLoading,
    requests,       \* requests the server has not answered
    error,          \* null, the error of the last fetch, or that and the end of retries
    asked           \* bound

pollTimers == <<pollInterval, retryTimeout, strayRetries, retryCount>>
pollVars == <<mounted, pollTimers, isLoading, requests, error, asked>>

PollingOK ==
    /\ mounted \in BOOLEAN /\ pollInterval \in BOOLEAN /\ isLoading \in BOOLEAN
    /\ retryTimeout \in {"null", "pending", "fired"}
    /\ strayRetries \in Nat /\ requests \in Nat /\ asked \in 0..MaxAsked
    /\ retryCount \in 0..MAX_RETRIES
    /\ error \in {"null", "failed", "exceeded"}

----------------------------------------------------------------------------
\* fetchMetrics: nothing while a request is under way.
Fetch ==
    IF isLoading
    THEN UNCHANGED <<isLoading, requests, error>>
    ELSE isLoading' = TRUE /\ requests' = requests + 1 /\ error' = "null"

\* The request has an answer; one without data changes nothing but the flag.
FetchSucceeds ==
    /\ requests > 0
    /\ requests' = requests - 1
    /\ isLoading' = FALSE
    /\ retryCount' \in {0, retryCount}
    /\ UNCHANGED <<mounted, pollInterval, retryTimeout, strayRetries, error, asked>>

\* Mutant: a retry is not counted.
FetchFailsUncounted ==
    /\ requests > 0
    /\ requests' = requests - 1
    /\ isLoading' = FALSE
    /\ retryTimeout' = "pending"
    /\ strayRetries' = strayRetries + (IF retryTimeout = "pending" THEN 1 ELSE 0)
    /\ error' = "failed"
    /\ UNCHANGED <<mounted, pollInterval, retryCount, asked>>

\* The request fails: another retry, beside one that may be pending, or the end.
FetchFails ==
    /\ requests > 0
    /\ requests' = requests - 1
    /\ isLoading' = FALSE
    /\ IF retryCount < MAX_RETRIES
       THEN /\ retryTimeout' = "pending"
            /\ strayRetries' = strayRetries + (IF retryTimeout = "pending" THEN 1 ELSE 0)
            /\ retryCount' = retryCount + 1
            /\ error' = "failed"
       ELSE /\ error' = "exceeded"
            /\ UNCHANGED <<retryTimeout, strayRetries, retryCount>>
    /\ UNCHANGED <<mounted, pollInterval, asked>>

Tick ==
    /\ pollInterval /\ asked < MaxAsked
    /\ asked' = asked + 1
    /\ Fetch
    /\ UNCHANGED <<mounted, pollTimers>>

Retry ==
    /\ \/ retryTimeout = "pending" /\ retryTimeout' = "fired" /\ UNCHANGED strayRetries
       \/ strayRetries > 0 /\ strayRetries' = strayRetries - 1 /\ UNCHANGED retryTimeout
    /\ Fetch
    /\ UNCHANGED <<mounted, pollInterval, retryCount, asked>>

\* startAutoFetch
StartAutoFetch ==
    /\ mounted /\ asked < MaxAsked
    /\ asked' = asked + 1
    /\ IF pollInterval
       THEN UNCHANGED <<pollTimers, isLoading, requests, error>>
       ELSE /\ pollInterval' = TRUE
            /\ retryTimeout' = "null"
            /\ retryCount' = IF retryTimeout # "null" THEN 0 ELSE retryCount
            /\ UNCHANGED strayRetries
            /\ Fetch
    /\ UNCHANGED mounted

\* stopAutoFetch
FetchStopped ==
    /\ pollInterval' = FALSE
    /\ retryTimeout' = "null"
    /\ retryCount' = 0
    /\ UNCHANGED <<strayRetries, isLoading, requests, asked>>

StopAutoFetch == mounted /\ FetchStopped /\ UNCHANGED <<mounted, error>>

\* onBeforeUnmount
LeaveDashboard == mounted /\ FetchStopped /\ mounted' = FALSE /\ UNCHANGED error

\* A component fetches by hand, or takes the error away.
FetchByHand ==
    /\ mounted /\ asked < MaxAsked
    /\ asked' = asked + 1
    /\ Fetch
    /\ UNCHANGED <<mounted, pollTimers>>

ClearError ==
    /\ mounted
    /\ error' = "null"
    /\ UNCHANGED <<mounted, pollTimers, isLoading, requests, asked>>

----------------------------------------------------------------------------
PollInit ==
    /\ mounted = TRUE
    /\ pollInterval = FALSE
    /\ retryTimeout = "null" /\ strayRetries = 0 /\ retryCount = 0
    /\ isLoading = FALSE /\ requests = 0
    /\ error = "null"
    /\ asked = 0

PollNext ==
    \/ FetchSucceeds \/ FetchFails
    \/ Tick \/ Retry
    \/ StartAutoFetch \/ StopAutoFetch \/ LeaveDashboard \/ FetchByHand \/ ClearError

\* The browser runs its timers and ends every request, with an answer or an
\* error; which of the two is not said.
PollFairness == WF_pollVars(Retry) /\ WF_pollVars(FetchSucceeds \/ FetchFails)

PollSpec == PollInit /\ [][PollNext]_pollVars /\ PollFairness

----------------------------------------------------------------------------
\* Properties

\* The flag stands for exactly one request, whichever of the timers, the user
\* and the stray retries asked for it (useDashboardMetrics.ts:151, 213).
OneRequest == requests = (IF isLoading THEN 1 ELSE 0)

\* A component that has gone asks no more in the end, although its stop left
\* the request under way and the timers that no variable held: each of these
\* may set up to MAX_RETRIES more (useDashboardMetrics.ts:270).
GoesQuiet ==
    ~mounted ~> [](requests = 0 /\ retryTimeout # "pending" /\ strayRetries = 0)
=============================================================================
