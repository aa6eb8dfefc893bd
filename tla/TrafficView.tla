---------------------------- MODULE TrafficView ----------------------------
(***************************************************************************)
(* The desktop's list of traffic (desktop/src/components/views/            *)
(* TrafficView.vue, stores/intruder.ts, stores/ui.ts): fetched each second *)
(* unless paused, with the details of a selected request, which may be     *)
(* sent to the intruder.  Requests for details are answered in any order,  *)
(* and an answer to an earlier selection is shown as one to the last.      *)
(* What the search and the filters leave of the list is not modelled.      *)
(***************************************************************************)
EXTENDS Integers, Sequences, SequencesExt

CONSTANTS
    Captured,       \* ids of requests
    NoId,           \* null
    MaxFetching,    \* bound: lists under way
    MaxSelections,  \* bound
    MaxPauses       \* bound

ASSUME TrafficViewAssumption ==
    /\ NoId \notin Captured
    /\ MaxFetching \in Nat \ {0} /\ MaxSelections \in Nat /\ MaxPauses \in Nat

VARIABLES
    viewMounted,
    hasItems,              \* the list has requests in it
    intervalId,         \* what the variable holds, 0 at first
    tickingLists,       \* the intervals the browser runs
    isPaused, pauses,   \* pauses is a bound
    fetching,           \* requests for the list under way
    selectedId, selectedRequest,
    details,            \* requests for details under way, oldest first
    selections,         \* requests selected so far: the number of the last
    answered,           \* history: the number of the selection answered last
    template            \* what the intruder was given, of which selection

viewListVars == <<hasItems, intervalId, tickingLists, isPaused, pauses, fetching>>
detailVars == <<selectedId, selectedRequest, details, selections, answered>>
viewVars == <<viewMounted, viewListVars, detailVars, template>>

TrafficViewOK ==
    /\ viewMounted \in BOOLEAN /\ hasItems \in BOOLEAN /\ isPaused \in BOOLEAN
    /\ pauses \in 0..MaxPauses
    /\ intervalId \in 0..(1 + pauses) /\ tickingLists \subseteq 1..(1 + pauses)
    /\ fetching \in 0..MaxFetching
    /\ {selectedId, selectedRequest} \subseteq Captured \cup {NoId}
    /\ selections \in 0..MaxSelections /\ answered \in 0..selections
    /\ details \in Seq([id : Captured, of : 1..selections])
    /\ template \in [id : Captured \cup {NoId}, selected : Captured \cup {NoId}, fresh : BOOLEAN]

----------------------------------------------------------------------------
\* fetchTraffic: when the view is mounted, and each second of an interval.
FetchTraffic ==
    /\ tickingLists # {} /\ fetching < MaxFetching
    /\ fetching' = fetching + 1
    /\ UNCHANGED <<viewMounted, hasItems, intervalId, tickingLists, isPaused, pauses, detailVars, template>>

\* An error is answered with an empty list (client.ts:38).
TrafficFetched ==
    /\ fetching > 0
    /\ fetching' = fetching - 1
    /\ hasItems' \in BOOLEAN
    /\ UNCHANGED <<viewMounted, intervalId, tickingLists, isPaused, pauses, detailVars, template>>

\* selectRequest, from a row of the list.
SelectRequest(id) ==
    /\ viewMounted /\ hasItems
    /\ selections < MaxSelections
    /\ selections' = selections + 1
    /\ selectedId' = id
    /\ selectedRequest' = NoId
    /\ details' = Append(details, [id |-> id, of |-> selections'])
    /\ UNCHANGED <<viewMounted, viewListVars, answered, template>>

\* The details of any request under way arrive, and are shown.
DetailsFetched(n) ==
    /\ n \in DOMAIN details
    /\ selectedRequest' = details[n].id
    /\ answered' = details[n].of
    /\ details' = RemoveAt(details, n)
    /\ UNCHANGED <<viewMounted, viewListVars, selectedId, selections, template>>

DetailsFail(n) ==
    /\ n \in DOMAIN details
    /\ details' = RemoveAt(details, n)
    /\ UNCHANGED <<viewMounted, viewListVars, selectedId, selectedRequest, selections, answered, template>>

\* The button that closes the details: they stay, and may be sent on.
CloseDetails ==
    /\ viewMounted /\ selectedRequest # NoId
    /\ selectedId' = NoId
    /\ UNCHANGED <<viewMounted, viewListVars, selectedRequest, details, selections, answered, template>>

\* clearTraffic forgets what is shown; the server and what is under way do not.
ClearShown ==
    /\ viewMounted
    /\ hasItems' = FALSE
    /\ selectedId' = NoId /\ selectedRequest' = NoId
    /\ UNCHANGED <<viewMounted, intervalId, tickingLists, isPaused, pauses, fetching,
                   details, selections, answered, template>>

TogglePause ==
    /\ viewMounted
    /\ pauses < MaxPauses
    /\ pauses' = pauses + 1
    /\ isPaused' = ~isPaused
    /\ IF isPaused
       THEN /\ intervalId' = pauses' + 1
            /\ tickingLists' = tickingLists \cup {pauses' + 1}
       ELSE /\ tickingLists' = tickingLists \ {intervalId}
            /\ UNCHANGED intervalId
    /\ UNCHANGED <<viewMounted, hasItems, fetching, detailVars, template>>

LeaveView ==
    /\ viewMounted' = FALSE
    /\ tickingLists' = tickingLists \ {intervalId}
    /\ UNCHANGED <<hasItems, intervalId, isPaused, pauses, fetching, detailVars>>

\* sendToIntruder: the details shown become the template, and its tab opens.
SendToIntruder ==
    /\ viewMounted /\ selectedRequest # NoId
    /\ template' = [id |-> selectedRequest, selected |-> selectedId, fresh |-> answered = selections]
    /\ LeaveView

OpenOtherTab == viewMounted /\ LeaveView /\ UNCHANGED template

----------------------------------------------------------------------------
\* The view is mounted and its first list asked for.
TrafficViewInit ==
    /\ viewMounted = TRUE
    /\ hasItems = FALSE
    /\ intervalId = 1 /\ tickingLists = {1}
    /\ isPaused = FALSE /\ pauses = 0
    /\ fetching = 1
    /\ selectedId = NoId /\ selectedRequest = NoId
    /\ details = <<>> /\ selections = 0 /\ answered = 0
    /\ template = [id |-> NoId, selected |-> NoId, fresh |-> TRUE]

TrafficViewNext ==
    \/ FetchTraffic \/ TrafficFetched \/ ClearShown
    \/ \E id \in Captured : SelectRequest(id)
    \/ \E n \in 1..MaxSelections : DetailsFetched(n) \/ DetailsFail(n)
    \/ CloseDetails \/ TogglePause \/ SendToIntruder \/ OpenOtherTab

----------------------------------------------------------------------------
\* Properties

\* The list is polled by the one interval that the variable holds while the view
\* is there and not paused, and by none otherwise, however often it is paused
\* (TrafficView.vue:176).
ListIsPolledOnce == tickingLists = IF viewMounted /\ ~isPaused THEN {intervalId} ELSE {}

\* When the answer that came last is one to the last selection, the details are
\* of the row that is selected, and so is what the intruder is given, unless the
\* selection was closed or cleared (TrafficView.vue:94).
DetailsAreSelected ==
    /\ answered = selections /\ selectedRequest # NoId => selectedId \in {selectedRequest, NoId}
    /\ template.fresh => template.selected \in {template.id, NoId}
=============================================================================
