---------------------------- MODULE WebSocketTab ----------------------------
(***************************************************************************)
(* The tab of captured frames (ui/src/components/WebSocketTab.vue, which   *)
(* App.vue does not show): connections, the frames of the selected one,    *)
(* fetched again when its frames are captured, and the difference of two   *)
(* of them.  A captured frame is asked for by its connection, and none of  *)
(* the answers says what it answers.                                       *)
(***************************************************************************)
EXTENDS EventSocket, Sequences, SequencesExt

CONSTANTS
    Peers,          \* connections
    Frames,         \* frames that may be selected
    Null,
    MaxPeerFetches, \* bound: fetches of connections under way
    MaxQuestions    \* bound: frames and differences asked for

ASSUME WebSocketTabAssumption == Null \notin Peers \cup Frames /\ MaxQuestions \in Nat

VARIABLES
    loadingPeers,       \* loading, while connections are fetched
    peerFetches,        \* fetches of connections under way
    selectedPeer, shownFrames,  \* selectedConnection, and whose frames are shown
    frameFetches,       \* fetches of frames under way, oldest first
    selectedFrame, compareFrame, viewMode,
    diffs,              \* differences asked for, oldest first
    diffResult,         \* of which two frames, or null
    questions,          \* asked so far: the number of the last
    framesAt, diffAt    \* history: numbers of the last asked for and answered

peerVars == <<loadingPeers, peerFetches>>
shownVars == <<selectedPeer, shownFrames, frameFetches, framesAt>>
compareVars == <<selectedFrame, compareFrame, viewMode, diffs, diffResult, diffAt>>
wsTabVars == <<tabMounted, socketVars, peerVars, shownVars, compareVars, questions>>

Numbers == [asked : 0..questions, answered : 0..questions]

WebSocketTabOK ==
    /\ EventSocketOK
    /\ loadingPeers \in BOOLEAN /\ peerFetches \in Nat
    /\ {selectedPeer, shownFrames} \subseteq Peers \cup {Null}
    /\ {selectedFrame, compareFrame} \subseteq Frames \cup {Null}
    /\ viewMode \in {"list", "compare"}
    /\ diffResult = Null \/ diffResult \in Frames \X Frames
    /\ questions \in 0..MaxQuestions
    /\ framesAt \in Numbers /\ diffAt \in Numbers

----------------------------------------------------------------------------
\* fetchConnections: the button, or an event of a connection.
FetchPeers ==
    /\ \/ openSockets # {}
       \/ tabMounted /\ ~loadingPeers
    /\ peerFetches < MaxPeerFetches
    /\ loadingPeers' = TRUE
    /\ peerFetches' = peerFetches + 1
    /\ UNCHANGED <<tabMounted, socketVars, shownVars, compareVars, questions>>

PeersFetched ==
    /\ peerFetches > 0
    /\ peerFetches' = peerFetches - 1
    /\ loadingPeers' = FALSE
    /\ UNCHANGED <<tabMounted, socketVars, shownVars, compareVars, questions>>

\* fetchFrames
FetchFrames(id) ==
    /\ questions < MaxQuestions
    /\ questions' = questions + 1
    /\ frameFetches' = Append(frameFetches, [of |-> id, number |-> questions'])
    /\ framesAt' = [framesAt EXCEPT !.asked = questions']
    /\ UNCHANGED shownFrames

\* The frames that are shown stay until others come.
SelectPeer(id) ==
    /\ tabMounted
    /\ selectedPeer' = id
    /\ selectedFrame' = Null /\ compareFrame' = Null /\ diffResult' = Null
    /\ viewMode' = "list"
    /\ FetchFrames(id)
    /\ UNCHANGED <<tabMounted, socketVars, peerVars, diffs, diffAt>>

FrameCaptured ==
    /\ openSockets # {} /\ selectedPeer # Null
    /\ FetchFrames(selectedPeer)
    /\ UNCHANGED <<tabMounted, socketVars, peerVars, selectedPeer, compareVars>>

FramesFetched(n) ==
    /\ n \in DOMAIN frameFetches
    /\ frameFetches' = RemoveAt(frameFetches, n)
    /\ \/ /\ shownFrames' = frameFetches[n].of
          /\ framesAt' = [framesAt EXCEPT !.answered = frameFetches[n].number]
       \/ UNCHANGED <<shownFrames, framesAt>>
    /\ UNCHANGED <<tabMounted, socketVars, peerVars, selectedPeer, compareVars, questions>>

\* selectFrame: the second one of a comparison, or the first.
SelectFrame(frame) ==
    /\ tabMounted /\ Null \notin {selectedPeer, shownFrames}
    /\ IF viewMode = "compare" /\ selectedFrame \notin {Null, frame}
       THEN /\ questions < MaxQuestions
            /\ questions' = questions + 1
            /\ compareFrame' = frame
            /\ diffs' = Append(diffs, [of |-> <<selectedFrame, frame>>, number |-> questions'])
            /\ diffAt' = [diffAt EXCEPT !.asked = questions']
            /\ UNCHANGED <<selectedFrame, diffResult>>
       ELSE /\ selectedFrame' = frame
            /\ compareFrame' = Null /\ diffResult' = Null
            /\ UNCHANGED <<diffs, diffAt, questions>>
    /\ UNCHANGED <<tabMounted, socketVars, peerVars, shownVars, viewMode>>

DiffFetched(n) ==
    /\ n \in DOMAIN diffs
    /\ diffs' = RemoveAt(diffs, n)
    /\ \/ /\ diffResult' = diffs[n].of
          /\ diffAt' = [diffAt EXCEPT !.answered = diffs[n].number]
       \/ UNCHANGED <<diffResult, diffAt>>
    /\ UNCHANGED <<tabMounted, socketVars, peerVars, shownVars, selectedFrame, compareFrame, viewMode,
                   questions>>

\* enableCompareMode, exitCompareMode
SetMode(mode) ==
    /\ tabMounted /\ viewMode # mode
    /\ viewMode' = mode
    /\ compareFrame' = Null /\ diffResult' = Null
    /\ UNCHANGED <<tabMounted, socketVars, peerVars, shownVars, selectedFrame, diffs, diffAt, questions>>

LeaveWsTab ==
    /\ tabMounted /\ tabMounted' = FALSE
    /\ CloseSocket
    /\ UNCHANGED <<peerVars, shownVars, compareVars, questions>>

----------------------------------------------------------------------------
WebSocketTabInit ==
    /\ EventSocketInit
    /\ loadingPeers = TRUE /\ peerFetches = 1
    /\ selectedPeer = Null /\ shownFrames = Null /\ frameFetches = <<>>
    /\ selectedFrame = Null /\ compareFrame = Null /\ viewMode = "list"
    /\ diffs = <<>> /\ diffResult = Null
    /\ questions = 0
    /\ framesAt = [asked |-> 0, answered |-> 0] /\ diffAt = [asked |-> 0, answered |-> 0]

WebSocketTabNext ==
    \/ SocketNext /\ UNCHANGED <<peerVars, shownVars, compareVars, questions>>
    \/ FetchPeers \/ PeersFetched \/ FrameCaptured
    \/ \E id \in Peers : SelectPeer(id)
    \/ \E frame \in Frames : SelectFrame(frame)
    \/ \E n \in 1..MaxQuestions : FramesFetched(n) \/ DiffFetched(n)
    \/ \E mode \in {"list", "compare"} : SetMode(mode)
    \/ LeaveWsTab

----------------------------------------------------------------------------
\* Property

\* When the answer that came last is one to the last question of its kind, the
\* frames are of the connection that is selected, and a difference that is shown
\* beside two frames is theirs (WebSocketTab.vue:123, 164).
FramesAndDiffAreAsked ==
    /\ framesAt.answered = framesAt.asked => shownFrames = selectedPeer
    /\ diffAt.answered = diffAt.asked /\ compareFrame # Null =>
        diffResult = <<selectedFrame, compareFrame>>
=============================================================================
