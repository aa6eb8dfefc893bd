----------------------------- MODULE WsCapture -----------------------------
(***************************************************************************)
(* WsCapture (core/src/websocket.rs): frames of WebSocket connections, in  *)
(* a list with a limit for all and one for each connection.  A frame takes *)
(* its id under one lock and is pushed under another; the list and the     *)
(* connections are cleared one after the other.                            *)
(***************************************************************************)
EXTENDS Integers, Sequences, FiniteSets, SequencesExt

CONSTANTS
    Connections,
    Capturers,                  \* tasks that capture frames
    max_frames,                 \* 10000
    max_frames_per_connection,  \* 1000
    MaxCaptured                 \* bound: frames in a behaviour

ASSUME FrameAssumption ==
    /\ max_frames \in Nat \ {0} /\ max_frames_per_connection \in Nat \ {0}
    /\ MaxCaptured \in Nat

VARIABLES
    connections,    \* per registered connection: its frames_count
    closed,         \* connections with a closed_at
    frames,         \* the list: of each its id, its connection and its rank
    capturer,       \* per task: the frame it is about to push, or none
    clearing,       \* clear() is between its two locks
    framesCaptured        \* history: frames captured, which ranks them

wsVars == <<connections, closed, frames, capturer, clearing, framesCaptured>>

NoFrame == [id |-> 0]
Of(s, c) == {n \in 1..Len(s) : s[n].connection = c}     \* where the frames of c are

\* Frames are a sequence; their ids need not differ.
WsOK ==
    /\ \A n \in 1..Len(frames) : frames[n].connection \in Connections /\ frames[n].rank \in 1..framesCaptured
    /\ DOMAIN connections \subseteq Connections
    /\ closed \subseteq DOMAIN connections
    /\ clearing \in BOOLEAN

----------------------------------------------------------------------------
RegisterConnection(c) ==
    /\ c \notin DOMAIN connections
    /\ connections' = [d \in DOMAIN connections \cup {c} |-> IF d = c THEN 0 ELSE connections[d]]
    /\ UNCHANGED <<closed, frames, capturer, clearing, framesCaptured>>

CloseConnection(c) ==
    /\ c \in DOMAIN connections
    /\ closed' = closed \cup {c}
    /\ UNCHANGED <<connections, frames, capturer, clearing, framesCaptured>>

\* The id is the number of frames that are there now, and one.
TakeId(k, c) ==
    /\ capturer[k] = NoFrame
    /\ framesCaptured < MaxCaptured
    /\ capturer' = [capturer EXCEPT ![k] = [id |-> Len(frames) + 1, connection |-> c]]
    /\ UNCHANGED <<connections, closed, frames, clearing, framesCaptured>>

\* The oldest frame of all goes when there are too many.
Evicted(s) == IF Len(s) > max_frames THEN Tail(s) ELSE s

\* Mutant: any frame of the connection goes, not its oldest.
EvictedAny(s, c) ==
    LET own == Of(s, c)
    IN  IF Cardinality(own) > max_frames_per_connection
        THEN RemoveAt(s, CHOOSE n \in own : \A o \in own : n >= o) ELSE s

\* Then the oldest of the connection, when it has too many.
EvictedOf(s, c) ==
    LET own == Of(s, c)
    IN  IF Cardinality(own) > max_frames_per_connection
        THEN RemoveAt(s, CHOOSE n \in own : \A o \in own : n <= o) ELSE s

\* Pushed, evicted and counted under the lock of the frames.
Push(k) ==
    /\ capturer[k] # NoFrame
    /\ framesCaptured' = framesCaptured + 1
    /\ LET c == capturer[k].connection
           f == [id |-> capturer[k].id, connection |-> c, rank |-> framesCaptured + 1]
       IN  /\ frames' = EvictedOf(Evicted(Append(frames, f)), c)
           /\ connections' = IF c \in DOMAIN connections
                             THEN [connections EXCEPT ![c] = @ + 1] ELSE connections
    /\ capturer' = [capturer EXCEPT ![k] = NoFrame]
    /\ UNCHANGED <<closed, clearing>>

ClearConnections ==
    /\ ~clearing
    /\ clearing' = TRUE
    /\ connections' = [c \in {} |-> 0]
    /\ closed' = {}
    /\ UNCHANGED <<frames, capturer, framesCaptured>>

ClearFrames ==
    /\ clearing
    /\ clearing' = FALSE
    /\ frames' = <<>>
    /\ UNCHANGED <<connections, closed, capturer, framesCaptured>>

WsInit ==
    /\ connections = [c \in {} |-> 0]
    /\ closed = {}
    /\ frames = <<>>
    /\ capturer = [k \in Capturers |-> NoFrame]
    /\ clearing = FALSE
    /\ framesCaptured = 0

WsNext ==
    \/ \E c \in Connections : RegisterConnection(c) \/ CloseConnection(c)
    \/ \E k \in Capturers : Push(k) \/ \E c \in Connections : TakeId(k, c)
    \/ ClearConnections \/ ClearFrames

WsSpec == WsInit /\ [][WsNext]_wsVars

----------------------------------------------------------------------------
\* Properties

\* However captures and a clear meet, the list keeps both limits, whichever of
\* the two drops a frame (websocket.rs:151, 162).
FramesAreBounded ==
    /\ Len(frames) <= max_frames
    /\ \A c \in Connections : Cardinality(Of(frames, c)) <= max_frames_per_connection

\* And the newest stay: the frame that is pushed is there, and none goes that is
\* newer than one of the same connection that stays (websocket.rs:155).
NewestStay ==
    /\ []FramesAreBounded
    /\ [][LET gone == ToSet(frames) \ ToSet(frames')
          IN  /\ frames' # <<>> =>
                     \A f \in gone, g \in ToSet(frames') :
                         f.connection = g.connection => f.rank < g.rank
              /\ framesCaptured' # framesCaptured =>
                     \E g \in ToSet(frames') : g.rank = framesCaptured']_wsVars
=============================================================================
