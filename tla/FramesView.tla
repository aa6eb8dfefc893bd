----------------------------- MODULE FramesView -----------------------------
(***************************************************************************)
(* The desktop's page of captured frames (desktop/src/components/views/    *)
(* WebSocketView.vue).  Polling begins when the first list of connections  *)
(* has come, also if the page was left meanwhile; a poll asks for the      *)
(* frames of what is selected once it has the connections; and the answers *)
(* for different connections come in any order.                            *)
(***************************************************************************)
EXTENDS Integers, Sequences, SequencesExt

CONSTANTS
    Connections,
    NoConnection,   \* null
    MaxPolls,       \* bound: polls under way that await the connections
    MaxFrameRequests        \* bound: requests for frames in a behaviour

ASSUME FramesViewAssumption ==
    NoConnection \notin Connections /\ MaxPolls \in Nat /\ MaxFrameRequests \in Nat

VARIABLES
    framesMounted,
    loadingFirst,       \* the mount awaits the connections
    framesInterval,     \* pollingInterval is set
    tickingFrames,      \* the browser runs it
    connectionPolls,    \* polls that await the connections
    clearingFrames,           \* calls of clearAll under way
    selectedConnectionId,
    frames,             \* whose frames the page has
    framesAsked,        \* requests for frames under way, oldest first
    askedFrames,        \* requests for frames so far: the number of the last
    answeredFrames,     \* history: the number of the one answered last
    leftLoading         \* history: the page was left before the first list came

intervalVars == <<framesMounted, loadingFirst, framesInterval, tickingFrames, leftLoading>>
frameVars == <<selectedConnectionId, frames, framesAsked, askedFrames, answeredFrames>>
framesVars == <<intervalVars, connectionPolls, clearingFrames, frameVars>>

FramesViewOK ==
    /\ {framesMounted, loadingFirst, framesInterval, tickingFrames, leftLoading} \subseteq BOOLEAN
    /\ connectionPolls \in 0..MaxPolls /\ clearingFrames \in BOOLEAN
    /\ {selectedConnectionId, frames} \subseteq Connections \cup {NoConnection}
    /\ askedFrames \in 0..MaxFrameRequests /\ answeredFrames \in 0..askedFrames
    /\ framesAsked \in Seq([of : Connections, number : 1..askedFrames])

----------------------------------------------------------------------------
\* loadFrames, as far as its request.
LoadFrames(id) ==
    /\ askedFrames < MaxFrameRequests
    /\ askedFrames' = askedFrames + 1
    /\ framesAsked' = Append(framesAsked, [of |-> id, number |-> askedFrames'])
    /\ UNCHANGED <<frames, answeredFrames>>

\* onMounted goes on, wherever the user is by now.
FirstConnections ==
    /\ loadingFirst /\ loadingFirst' = FALSE
    /\ framesInterval' = TRUE /\ tickingFrames' = TRUE
    /\ UNCHANGED <<framesMounted, leftLoading, connectionPolls, clearingFrames, frameVars>>

PollConnections ==
    /\ tickingFrames /\ connectionPolls < MaxPolls
    /\ connectionPolls' = connectionPolls + 1
    /\ UNCHANGED <<intervalVars, clearingFrames, frameVars>>

\* The connections have come, or not: the frames of what is selected by now.
PollFrames ==
    /\ connectionPolls > 0
    /\ connectionPolls' = connectionPolls - 1
    /\ IF selectedConnectionId = NoConnection
       THEN UNCHANGED frameVars
       ELSE LoadFrames(selectedConnectionId) /\ UNCHANGED selectedConnectionId
    /\ UNCHANGED <<intervalVars, clearingFrames>>

SelectConnection(id) ==
    /\ framesMounted
    /\ selectedConnectionId' = id
    /\ LoadFrames(id)
    /\ UNCHANGED <<intervalVars, connectionPolls, clearingFrames>>

FramesLoaded(n) ==
    /\ n \in DOMAIN framesAsked
    /\ frames' = framesAsked[n].of
    /\ answeredFrames' = framesAsked[n].number
    /\ framesAsked' = RemoveAt(framesAsked, n)
    /\ UNCHANGED <<intervalVars, connectionPolls, clearingFrames, selectedConnectionId, askedFrames>>

FramesFail(n) ==
    /\ n \in DOMAIN framesAsked
    /\ framesAsked' = RemoveAt(framesAsked, n)
    /\ UNCHANGED <<intervalVars, connectionPolls, clearingFrames, selectedConnectionId, frames,
                   askedFrames, answeredFrames>>

\* clearAll; one at a time here, a bound.
ClearAll ==
    /\ framesMounted /\ ~clearingFrames
    /\ clearingFrames' = TRUE
    /\ UNCHANGED <<intervalVars, connectionPolls, frameVars>>

Cleared ==
    /\ clearingFrames /\ clearingFrames' = FALSE
    /\ \/ /\ frames' = NoConnection /\ selectedConnectionId' = NoConnection
          /\ UNCHANGED <<framesAsked, askedFrames, answeredFrames>>
       \/ UNCHANGED frameVars
    /\ UNCHANGED <<intervalVars, connectionPolls>>

\* stopPolling
LeaveFrames ==
    /\ framesMounted /\ framesMounted' = FALSE
    /\ framesInterval' = FALSE
    /\ tickingFrames' = (tickingFrames /\ ~framesInterval)
    /\ leftLoading' = loadingFirst
    /\ UNCHANGED <<loadingFirst, connectionPolls, clearingFrames, frameVars>>

----------------------------------------------------------------------------
FramesViewInit ==
    /\ framesMounted = TRUE /\ loadingFirst = TRUE
    /\ framesInterval = FALSE /\ tickingFrames = FALSE /\ leftLoading = FALSE
    /\ connectionPolls = 0 /\ clearingFrames = FALSE
    /\ selectedConnectionId = NoConnection /\ frames = NoConnection
    /\ framesAsked = <<>> /\ askedFrames = 0 /\ answeredFrames = 0

FramesViewNext ==
    \/ FirstConnections \/ PollConnections \/ PollFrames
    \/ \E id \in Connections : SelectConnection(id)
    \/ \E n \in 1..MaxFrameRequests : FramesLoaded(n) \/ FramesFail(n)
    \/ ClearAll \/ Cleared
    \/ LeaveFrames

----------------------------------------------------------------------------
\* Properties

\* Polling outlives the page only if the first list was still to come when it
\* was left (WebSocketView.vue:18).
FramesArePolledOnce ==
    /\ tickingFrames = framesInterval
    /\ tickingFrames => framesMounted \/ leftLoading

\* When the answer that came last is one to the last request, of a poll or of a
\* selection, the frames are of the connection that is selected
\* (WebSocketView.vue:42, 66).
FramesAreSelected ==
    answeredFrames = askedFrames /\ NoConnection \notin {frames, selectedConnectionId}
        => frames = selectedConnectionId
=============================================================================
