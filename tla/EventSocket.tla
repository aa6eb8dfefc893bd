---------------------------- MODULE EventSocket ----------------------------
(***************************************************************************)
(* The event socket of TrafficTab.vue and WebSocketTab.vue                 *)
(* (ui/src/components): opened when the tab is mounted, closed when it     *)
(* goes, and opened again five seconds after any close, that one too.      *)
(***************************************************************************)
EXTENDS Integers, FiniteSets

CONSTANT MaxSocketsOpened   \* bound

ASSUME EventSocketAssumption == MaxSocketsOpened \in Nat \ {0}

VARIABLES
    tabMounted,
    liveSockets,    \* sockets whose close event has not come: connecting, open or closing
    openSockets,    \* those of them that are open
    eventSocket,             \* the socket the variable holds
    reconnects,     \* timers of a reconnect that are pending
    opened          \* sockets made so far, a bound

socketVars == <<liveSockets, openSockets, eventSocket, reconnects, opened>>

EventSocketOK ==
    /\ tabMounted \in BOOLEAN
    /\ opened \in 1..MaxSocketsOpened /\ eventSocket \in 1..opened
    /\ openSockets \subseteq liveSockets /\ liveSockets \subseteq 1..opened
    /\ reconnects \in Nat

----------------------------------------------------------------------------
SocketOpens(s) ==
    /\ s \in liveSockets \ openSockets
    /\ openSockets' = openSockets \cup {s}
    /\ UNCHANGED <<liveSockets, eventSocket, reconnects, opened>>

\* onclose, for whatever reason.
SocketCloses(s) ==
    /\ s \in liveSockets
    /\ liveSockets' = liveSockets \ {s}
    /\ openSockets' = openSockets \ {s}
    /\ reconnects' = reconnects + 1
    /\ UNCHANGED <<eventSocket, opened>>

\* connectWebSocket, by the timer.
ReopenSocket ==
    /\ reconnects > 0 /\ opened < MaxSocketsOpened
    /\ reconnects' = reconnects - 1
    /\ opened' = opened + 1
    /\ eventSocket' = opened'
    /\ liveSockets' = liveSockets \cup {opened'}
    /\ UNCHANGED openSockets

SocketNext ==
    /\ \/ \E s \in 1..MaxSocketsOpened : SocketOpens(s) \/ SocketCloses(s)
       \/ ReopenSocket
    /\ UNCHANGED tabMounted

\* ws?.close(): its messages end, its close event comes later.
CloseSocket ==
    /\ openSockets' = openSockets \ {eventSocket}
    /\ UNCHANGED <<liveSockets, eventSocket, reconnects, opened>>

EventSocketInit ==
    /\ tabMounted = TRUE
    /\ liveSockets = {1} /\ openSockets = {} /\ eventSocket = 1
    /\ reconnects = 0
    /\ opened = 1

----------------------------------------------------------------------------
\* A tab has one socket or one timer, never two: no event is heard twice.  It has
\* them also when it is gone, for its close is followed by a reconnect
\* (TrafficTab.vue:275, WebSocketTab.vue:288).
OneFeed ==
    /\ Cardinality(liveSockets) + reconnects = 1
    /\ liveSockets \subseteq {eventSocket}
=============================================================================
