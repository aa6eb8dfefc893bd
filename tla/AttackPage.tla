----------------------------- MODULE AttackPage -----------------------------
(***************************************************************************)
(* The page of an attack (ui/src/components/IntruderTab.vue and            *)
(* desktop/src/components/views/IntruderView.vue, which are alike): it     *)
(* starts and stops the server's attack and, by an interval, asks for the  *)
(* results.  The user may stop, start again or leave between the awaits of *)
(* a start; whether the attack has ended is never asked.  What results are *)
(* shown is left out.                                                      *)
(***************************************************************************)
EXTENDS Integers

CONSTANTS
    MaxStarts,  \* bound: attacks started in the life of the page
    MaxStops    \* bound: calls of stop under way

ASSUME AttackPageAssumption == MaxStarts \in Nat /\ MaxStops \in Nat

VARIABLES
    attackMounted,
    running,
    pollingInterval,    \* 0 for null
    tickingPolls,       \* the intervals the browser runs
    generating, starting, stopping, \* calls under way, of each kind
    starts, intervals,  \* attacks started (bound), intervals made
    crossed,            \* history: a stop ended with a start under way
    left                \* history: the page was left with a start under way

attackCalls == <<generating, starting, stopping, starts>>
attackVars == <<attackMounted, running, pollingInterval, tickingPolls, attackCalls,
                intervals, crossed, left>>

AttackPageOK ==
    /\ attackMounted \in BOOLEAN /\ running \in BOOLEAN
    /\ starts \in 0..MaxStarts /\ intervals \in 0..starts
    /\ pollingInterval \in 0..intervals /\ tickingPolls \subseteq 1..intervals
    /\ generating \in Nat /\ starting \in Nat /\ stopping \in 0..MaxStops
    /\ generating + starting + intervals <= starts
    /\ crossed \in BOOLEAN /\ left \in BOOLEAN

----------------------------------------------------------------------------
\* startAttack, as far as its preview; the button is off while one runs, and
\* without a position and a payload.
StartAttack ==
    /\ attackMounted /\ ~running
    /\ starts < MaxStarts
    /\ starts' = starts + 1
    /\ running' = TRUE
    /\ generating' = generating + 1
    /\ UNCHANGED <<attackMounted, pollingInterval, tickingPolls, starting, stopping,
                   intervals, crossed, left>>

\* Whatever became of the preview, the attack is asked for.
Previewed ==
    /\ generating > 0
    /\ generating' = generating - 1 /\ starting' = starting + 1
    /\ UNCHANGED <<attackMounted, running, pollingInterval, tickingPolls, stopping, starts,
                   intervals, crossed, left>>

\* Mutant: the interval of before goes on.
StartPollingTwice ==
    /\ intervals' = intervals + 1
    /\ pollingInterval' = intervals'
    /\ tickingPolls' = tickingPolls \cup {intervals'}

\* startPolling: the interval that the variable holds is cleared first.
StartPolling ==
    /\ intervals' = intervals + 1
    /\ pollingInterval' = intervals'
    /\ tickingPolls' = (tickingPolls \ {pollingInterval}) \cup {intervals'}

\* stopPolling
StopPolling ==
    /\ tickingPolls' = tickingPolls \ {pollingInterval}
    /\ pollingInterval' = 0

\* The rest of startAttack, wherever the user is by now.
Started ==
    /\ starting > 0
    /\ starting' = starting - 1
    /\ StartPolling
    /\ UNCHANGED <<attackMounted, running, generating, stopping, starts, crossed, left>>

StartFails ==
    /\ starting > 0
    /\ starting' = starting - 1
    /\ running' = FALSE
    /\ UNCHANGED <<attackMounted, pollingInterval, tickingPolls, generating, stopping, starts,
                   intervals, crossed, left>>

\* stopAttack; its button is there while one runs.
StopAttack ==
    /\ attackMounted /\ running
    /\ stopping < MaxStops
    /\ stopping' = stopping + 1
    /\ UNCHANGED <<attackMounted, running, pollingInterval, tickingPolls, generating, starting,
                   starts, intervals, crossed, left>>

\* Its finally, whether or not the server stopped.
AttackStopped ==
    /\ stopping > 0
    /\ stopping' = stopping - 1
    /\ StopPolling
    /\ running' = FALSE
    /\ crossed' = (crossed \/ generating + starting > 0)
    /\ UNCHANGED <<attackMounted, generating, starting, starts, intervals, left>>

LeavePage ==
    /\ attackMounted
    /\ attackMounted' = FALSE
    /\ StopPolling
    /\ left' = (generating + starting > 0)
    /\ UNCHANGED <<running, attackCalls, intervals, crossed>>

----------------------------------------------------------------------------
AttackPageInit ==
    /\ attackMounted = TRUE /\ running = FALSE
    /\ pollingInterval = 0 /\ tickingPolls = {}
    /\ generating = 0 /\ starting = 0 /\ stopping = 0
    /\ starts = 0 /\ intervals = 0
    /\ crossed = FALSE /\ left = FALSE

AttackPageNext ==
    \/ StartAttack \/ Previewed \/ Started \/ StartFails
    \/ StopAttack \/ AttackStopped
    \/ LeavePage

----------------------------------------------------------------------------
\* Property

\* No interval escapes the variable that could clear it; one ticks behind the
\* user's back, without its Stop button or after the page was left, only if a
\* start was under way when a stop ended or the page was left
\* (IntruderTab.vue:319, 337, 431).
PollingIsTracked ==
    /\ tickingPolls \subseteq {pollingInterval}
    /\ tickingPolls # {} => IF attackMounted THEN running \/ crossed ELSE left
=============================================================================
