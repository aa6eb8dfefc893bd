---------------------------- MODULE UseWebSocket ----------------------------
(***************************************************************************)
(* useWebSocket (ui/src/composables/useWebSocket.ts): one component's      *)
(* connection to the live feed.  Its state is changed by the component, by *)
(* the events of every socket it ever opened, by two kinds of timers and   *)
(* by the polling of each connect() that has not returned.                 *)
(*                                                                         *)
(* The handlers do not ask which socket calls them, and a timer is only    *)
(* cleared through the variable that holds the latest one: events of       *)
(* sockets and timers of the past act on the state of the present.         *)
(*                                                                         *)
(* JavaScript runs one task at a time, so a handler is a step.  Delays are *)
(* left out: a timer may fire at any time after it is set.                 *)
(***************************************************************************)
EXTENDS Integers, FiniteSets

CONSTANTS
    MaxReconnectAttempts,   \* MAX_RECONNECT_ATTEMPTS (5)
    MaxSockets,             \* bound: sockets opened in a behaviour
    MaxCalls                \* bound: calls of connect and disconnect by the component

ASSUME AttemptAssumption == MaxReconnectAttempts \in Nat
ASSUME SocketAssumption == MaxSockets \in Nat /\ MaxCalls \in Nat

VARIABLES
    sockets,            \* the readyState of every socket
    ws,                 \* the socket in the variable ws, or null
    isConnected,
    reconnectAttempts,
    isCleanedUp,
    reconnectTimeout,   \* the timer in the variable is still to fire
    strays,             \* reconnection timers still to fire that no variable holds
    messageTimeout,     \* the message timer is still to fire
    waiting,            \* calls of connect() that have not returned
    polling,            \* connect() calls that timed out and left their interval on
    calls               \* bound: calls made by the component

timers == <<reconnectTimeout, strays, messageTimeout>>
dials == <<waiting, polling>>
vars == <<sockets, ws, isConnected, reconnectAttempts, isCleanedUp, timers, dials, calls>>

null == 0
Sockets == 1..MaxSockets
Live(s) == sockets[s] \in {"connecting", "open"}
IsNew(s) == sockets[s] = "unborn" /\ \A r \in 1..(s - 1) : sockets[r] # "unborn"
CurrentIsClosed == ws # null /\ sockets[ws] = "closed"

TypeOK ==
    /\ sockets \in [Sockets -> {"unborn", "connecting", "open", "closing", "closed"}]
    /\ ws \in Sockets \cup {null}
    /\ isConnected \in BOOLEAN /\ isCleanedUp \in BOOLEAN
    /\ reconnectAttempts \in 0..MaxReconnectAttempts
    /\ reconnectTimeout \in BOOLEAN /\ messageTimeout \in BOOLEAN
    /\ strays \in Nat /\ waiting \in Nat /\ polling \in Nat /\ calls \in Nat

----------------------------------------------------------------------------
\* What handlers share

\* Mutant: a socket that is not connected is no reason to return.
RefusedIfConnected == isConnected \/ isCleanedUp

\* Mutant: a timer left over after the clean-up still connects.
RefusedWhileUsed == ws # null \/ isConnected

\* connect() returns early: for a socket in any state, a closed one too.
Refused == ws # null \/ isConnected \/ isCleanedUp

\* connect(): a new socket and a promise that waits for it, or nothing.
Dial ==
    \/ /\ Refused
       /\ UNCHANGED <<sockets, ws, dials>>
    \/ /\ ~Refused
       /\ \E s \in Sockets :
              /\ IsNew(s)
              /\ sockets' = [sockets EXCEPT ![s] = "connecting"]
              /\ ws' = s
       /\ waiting' = waiting + 1
       /\ UNCHANGED polling

\* ws.close(): its events come later.
Closed(s) == IF sockets[s] = "closed" THEN "closed" ELSE "closing"
HungUp == [s \in Sockets |-> IF s = ws THEN Closed(s) ELSE sockets[s]]

\* disconnect(), which leaves the component free to connect at once.
HangUp ==
    /\ isConnected' = FALSE
    /\ reconnectAttempts' = 0
    /\ reconnectTimeout' = FALSE
    /\ messageTimeout' = FALSE
    /\ UNCHANGED <<strays, polling>>

\* Mutant: one attempt too many.
ScheduleAgain ==
    IF reconnectAttempts <= MaxReconnectAttempts
    THEN /\ reconnectAttempts' = reconnectAttempts + 1
         /\ reconnectTimeout' = TRUE
         /\ strays' = strays + IF reconnectTimeout THEN 1 ELSE 0
    ELSE UNCHANGED <<reconnectAttempts, reconnectTimeout, strays>>

\* Another attempt after a delay; a timer set before is forgotten, not cleared.
Schedule ==
    IF reconnectAttempts < MaxReconnectAttempts
    THEN /\ reconnectAttempts' = reconnectAttempts + 1
         /\ reconnectTimeout' = TRUE
         /\ strays' = strays + IF reconnectTimeout THEN 1 ELSE 0
    ELSE UNCHANGED <<reconnectAttempts, reconnectTimeout, strays>>

----------------------------------------------------------------------------
\* The component

Connect ==
    /\ calls < MaxCalls
    /\ calls' = calls + 1
    /\ Dial
    /\ UNCHANGED <<isConnected, reconnectAttempts, isCleanedUp, timers>>

Disconnect ==
    /\ calls < MaxCalls
    /\ calls' = calls + 1
    /\ sockets' = HungUp
    /\ ws' = null
    /\ HangUp
    /\ UNCHANGED <<isCleanedUp, waiting>>

\* onBeforeUnmount
Unmount ==
    /\ ~isCleanedUp
    /\ isCleanedUp' = TRUE
    /\ sockets' = HungUp
    /\ ws' = null
    /\ HangUp
    /\ UNCHANGED <<waiting, calls>>

----------------------------------------------------------------------------
\* Events of a socket, the current one or one of the past

OnOpen(s) ==
    /\ sockets[s] = "connecting"
    /\ sockets' = [sockets EXCEPT ![s] = "open"]
    /\ IF isCleanedUp
       THEN UNCHANGED <<isConnected, reconnectAttempts, messageTimeout>>
       ELSE /\ isConnected' = TRUE
            /\ reconnectAttempts' = 0
            /\ messageTimeout' = TRUE
    /\ UNCHANGED <<ws, isCleanedUp, reconnectTimeout, strays, dials, calls>>

\* A message without a timestamp, as every message of /ws is, clears the timer
\* and sets no other.
OnMessage(s) ==
    /\ sockets[s] = "open"
    /\ ~isCleanedUp
    /\ messageTimeout' \in BOOLEAN
    /\ UNCHANGED <<sockets, ws, isConnected, reconnectAttempts, isCleanedUp,
                   reconnectTimeout, strays, dials, calls>>

\* Mutant: the flag is lowered only when the attempts are used up.
OnCloseLazy(s) ==
    /\ sockets[s] \in {"connecting", "open", "closing"}
    /\ sockets' = [sockets EXCEPT ![s] = "closed"]
    /\ IF isCleanedUp
       THEN UNCHANGED <<isConnected, reconnectAttempts, reconnectTimeout, strays>>
       ELSE /\ isConnected' = (isConnected /\ reconnectAttempts < MaxReconnectAttempts)
            /\ Schedule
    /\ UNCHANGED <<ws, isCleanedUp, messageTimeout, dials, calls>>

\* onerror, if there was an error, and onclose: the connection failed, was
\* lost or closed by the server, or the closing handshake is over.  ws keeps
\* the socket.
OnClose(s) ==
    /\ sockets[s] \in {"connecting", "open", "closing"}
    /\ sockets' = [sockets EXCEPT ![s] = "closed"]
    /\ IF isCleanedUp
       THEN UNCHANGED <<isConnected, reconnectAttempts, reconnectTimeout, strays>>
       ELSE /\ isConnected' = FALSE
            /\ Schedule
    /\ UNCHANGED <<ws, isCleanedUp, messageTimeout, dials, calls>>

----------------------------------------------------------------------------
\* Timers

Reconnect ==
    /\ \/ /\ reconnectTimeout
          /\ reconnectTimeout' = FALSE
          /\ UNCHANGED strays
       \/ /\ strays > 0
          /\ strays' = strays - 1
          /\ UNCHANGED reconnectTimeout
    /\ Dial
    /\ UNCHANGED <<isConnected, reconnectAttempts, isCleanedUp, messageTimeout, calls>>

\* setMessageTimeout: disconnect() and connect() in one task.
MessageTimeout ==
    /\ messageTimeout
    /\ IF isConnected
       THEN /\ \E s \in Sockets :
                   /\ IsNew(s)
                   /\ sockets' = [HungUp EXCEPT ![s] = "connecting"]
                   /\ ws' = s
            /\ HangUp
            /\ waiting' = waiting + 1
       ELSE /\ messageTimeout' = FALSE
            /\ UNCHANGED <<sockets, ws, isConnected, reconnectAttempts,
                           reconnectTimeout, strays, dials>>
    /\ UNCHANGED <<isCleanedUp, calls>>

----------------------------------------------------------------------------
\* The promise of a connect() call, polled every 100 ms for 5 s

Resolve ==
    /\ waiting > 0
    /\ isConnected
    /\ waiting' = waiting - 1
    /\ UNCHANGED <<sockets, ws, isConnected, reconnectAttempts, isCleanedUp, timers,
                   polling, calls>>

\* The poll finds the current socket closed.
Reject ==
    /\ waiting > 0
    /\ ~isConnected /\ CurrentIsClosed
    /\ waiting' = waiting - 1
    /\ Schedule
    /\ UNCHANGED <<sockets, ws, isConnected, isCleanedUp, messageTimeout, polling, calls>>

\* The time is over, possibly just after the socket opened; the interval stays.
TimeOut ==
    /\ waiting > 0
    /\ waiting' = waiting - 1
    /\ polling' = polling + 1
    /\ isConnected' = FALSE
    /\ Schedule
    /\ UNCHANGED <<sockets, ws, isCleanedUp, messageTimeout, calls>>

EndPolling ==
    /\ polling > 0
    /\ isConnected \/ CurrentIsClosed
    /\ polling' = polling - 1
    /\ UNCHANGED <<sockets, ws, isConnected, reconnectAttempts, isCleanedUp, timers,
                   waiting, calls>>

----------------------------------------------------------------------------
Init ==
    /\ sockets = [s \in Sockets |-> "unborn"]
    /\ ws = null
    /\ isConnected = FALSE
    /\ reconnectAttempts = 0
    /\ isCleanedUp = FALSE
    /\ reconnectTimeout = FALSE
    /\ strays = 0
    /\ messageTimeout = FALSE
    /\ waiting = 0
    /\ polling = 0
    /\ calls = 0

Next ==
    \/ Connect \/ Disconnect \/ Unmount
    \/ \E s \in Sockets : OnOpen(s) \/ OnMessage(s) \/ OnClose(s)
    \/ Reconnect \/ MessageTimeout
    \/ Resolve \/ Reject \/ TimeOut \/ EndPolling

Spec == Init /\ [][Next]_vars

\* Timers fire, and a socket that is being closed is closed in the end.
\* Nothing makes the server answer, or lose a connection.
Fairness ==
    /\ WF_vars(Reconnect) /\ WF_vars(MessageTimeout)
    /\ WF_vars(Resolve \/ Reject \/ TimeOut) /\ WF_vars(EndPolling)
    /\ \A s \in Sockets : WF_vars(sockets[s] = "closing" /\ OnClose(s))

FairSpec == Spec /\ Fairness

----------------------------------------------------------------------------
\* Properties

\* However timers, polls and events of old sockets race with the component's
\* calls, there is never a second connection beside the one in ws, whose
\* handlers would run on unseen (useWebSocket.ts:368).
OneConnection == \A s \in Sockets : Live(s) => s = ws

\* The user is never told that the feed is connected when it is not, although
\* the flag is written by the handlers of all sockets (useWebSocket.ts:273).
\* The converse does not hold: the end of an old socket lowers the flag.
ConnectedIsOpen == isConnected => ws # null /\ sockets[ws] = "open"

\* After the component is gone no timer, poll or event that is still to come
\* opens a connection (useWebSocket.ts:530).
CleanupIsFinal == isCleanedUp => \A s \in Sockets : ~Live(s)

\* After the clean-up every socket is closed and no timer is left in the end,
\* those included that no variable held any more (useWebSocket.ts:433).
Released ==
    [](isCleanedUp =>
           <>[](/\ \A s \in Sockets : sockets[s] \in {"unborn", "closed"}
                /\ ~reconnectTimeout /\ ~messageTimeout /\ strays = 0))

\* Every connect() returns, whatever became of its socket: connected, failed,
\* hung up by somebody else, or silent (useWebSocket.ts:385).
CallsReturn == <>[](waiting = 0)

\* A lost connection for which a timer is set is replaced when it fires.  The
\* code says "Automatic reconnection with exponential backoff"
\* (useWebSocket.ts:6).
ReconnectsAfterLoss ==
    \A s \in 1..(MaxSockets - 1) :
        ws = s /\ sockets[s] = "closed" /\ reconnectTimeout ~> ws # s \/ isCleanedUp
=============================================================================
