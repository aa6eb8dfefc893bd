---------------------------- MODULE PagesProofs ----------------------------
(***************************************************************************)
(* What the proofs of both user interfaces need of sequences, and the      *)
(* desktop's parts: its socket, its composables and its pages, each for    *)
(* any constants.  UiProofs composes them.                                 *)
(***************************************************************************)
EXTENDS MCUi, FiniteSetTheorems, SequenceTheorems, WellFoundedInduction, TLAPS

\* What is left of a sequence without one of its elements.
LEMMA Removed ==
    ASSUME NEW T, NEW s \in Seq(T), NEW n \in DOMAIN s
    PROVE  /\ RemoveAt(s, n) \in Seq(T)
           /\ Len(RemoveAt(s, n)) = Len(s) - 1
           /\ \A i \in DOMAIN RemoveAt(s, n) : \E j \in DOMAIN s : RemoveAt(s, n)[i] = s[j]
           /\ \A j \in DOMAIN s : j # n => \E i \in DOMAIN RemoveAt(s, n) : RemoveAt(s, n)[i] = s[j]
<1> DEFINE a == SubSeq(s, 1, n - 1)  b == SubSeq(s, n + 1, Len(s))  r == a \o b
<1>1. DOMAIN s = 1..Len(s) /\ Len(s) \in Nat /\ n \in Nat /\ n >= 1 /\ n <= Len(s)
  OBVIOUS
<1>2. a \in Seq(T) /\ Len(a) = n - 1 /\ \A i \in 1..(n - 1) : a[i] = s[i]
  BY <1>1
<1>3. b \in Seq(T) /\ Len(b) = Len(s) - n /\ \A i \in 1..(Len(s) - n) : b[i] = s[i + n]
  BY <1>1
<1> HIDE DEF a, b
<1>4. r \in Seq(T) /\ Len(r) = Len(s) - 1
  <2>1. a \in Seq(T) /\ b \in Seq(T)
    BY <1>2, <1>3
  <2>2. r \in Seq(T) /\ Len(r) = Len(a) + Len(b)
    BY ONLY <2>1, ConcatProperties
  <2>3. (n - 1) + (Len(s) - n) = Len(s) - 1
    BY <1>1
  <2> QED
    BY <2>2, <2>3, <1>2, <1>3
<1>5. ASSUME NEW i \in 1..(Len(s) - 1) PROVE r[i] = s[IF i < n THEN i ELSE i + 1]
  <2>1. CASE i < n
    BY <2>1, <1>1, <1>2, <1>3
  <2>2. CASE ~(i < n)
    <3>0. i - (n - 1) \in 1..(Len(s) - n) /\ i > Len(a) /\ i \in 1..(Len(a) + Len(b))
      BY <2>2, <1>1, <1>2, <1>3
    <3>1. r[i] = b[i - (n - 1)]
      <4>1. a \in Seq(T) /\ b \in Seq(T) /\ Len(a) = n - 1
        BY <1>2, <1>3
      <4> QED
        BY <3>0, <4>1
    <3>2. b[i - (n - 1)] = s[i - (n - 1) + n] /\ i - (n - 1) + n = i + 1
      BY <3>0, <1>1, <1>3
    <3> QED
      BY <2>2, <3>1, <3>2
  <2> QED
    BY <2>1, <2>2
<1> HIDE DEF r
<1>6. DOMAIN r = 1..(Len(s) - 1)
  BY <1>4
<1>7. ASSUME NEW j \in DOMAIN s, j # n PROVE \E i \in DOMAIN r : r[i] = s[j]
  <2> DEFINE i == IF j < n THEN j ELSE j - 1
  <2>1. i \in 1..(Len(s) - 1) /\ j = IF i < n THEN i ELSE i + 1
    BY <1>1, <1>7
  <2>2. r[i] = s[j]
    BY <1>5, <2>1
  <2> QED
    BY <1>6, <2>1, <2>2
<1>8. ASSUME NEW i \in DOMAIN r PROVE \E j \in DOMAIN s : r[i] = s[j]
  <2>1. (IF i < n THEN i ELSE i + 1) \in DOMAIN s
    BY <1>1, <1>6
  <2> QED
    BY <1>5, <1>6, <2>1
<1>9. RemoveAt(s, n) = r
  BY DEF RemoveAt, a, b, r
<1> QED
  BY <1>4, <1>7, <1>8, <1>9

\* A sequence with one more element.
LEMMA Appended ==
    ASSUME NEW T, NEW s \in Seq(T), NEW e \in T
    PROVE  /\ Append(s, e) \in Seq(T)
           /\ DOMAIN Append(s, e) = 1..(Len(s) + 1)
           /\ \A i \in DOMAIN Append(s, e) :
                  \/ i \in DOMAIN s /\ Append(s, e)[i] = s[i]
                  \/ Append(s, e)[i] = e
           /\ \A i \in DOMAIN s : i \in DOMAIN Append(s, e) /\ Append(s, e)[i] = s[i]
<1>1. Append(s, e) \in Seq(T) /\ Len(Append(s, e)) = Len(s) + 1 /\ Len(s) \in Nat
  OBVIOUS
<1>2. \A i \in 1..Len(s) : Append(s, e)[i] = s[i]
  OBVIOUS
<1>3. Append(s, e)[Len(s) + 1] = e
  OBVIOUS
<1> QED
  BY <1>1, <1>2, <1>3

----------------------------------------------------------------------------
\* The socket of the live feed

States == {"unborn", "connecting", "open", "closing", "closed"}

\* ws.close() makes no socket live, and ends the life of the current one.
LEMMA HangUpFacts ==
    ASSUME TypeOK
    PROVE  /\ HungUp \in [Sockets -> States]
           /\ \A s \in Sockets : s # ws => HungUp[s] = sockets[s]
           /\ \A s \in Sockets : s = ws => HungUp[s] \in {"closing", "closed"}
BY DEF HungUp, Closed, TypeOK, States

----------------------------------------------------------------------------
\* Type correctness

\* connect() makes at most one socket, and counts the caller that waits for it.
LEMMA DialTypes ==
    ASSUME TypeOK, Dial
    PROVE  sockets' \in [Sockets -> States] /\ ws' \in Sockets \cup {null}
           /\ waiting' \in Nat /\ polling' \in Nat
<1>1. CASE UNCHANGED <<sockets, ws, dials>>
  BY <1>1 DEF TypeOK, States, dials
<1>2. CASE ~Refused
  <2>1. PICK s \in Sockets : sockets' = [sockets EXCEPT ![s] = "connecting"] /\ ws' = s
    BY <1>2 DEF Dial
  <2>2. waiting' = waiting + 1 /\ polling' = polling
    BY <1>2 DEF Dial
  <2>3. QED
    BY <2>1, <2>2 DEF TypeOK, States
<1>3. QED
  BY <1>1, <1>2 DEF Dial

LEMMA ZeroAttempts == 0 \in 0..MaxReconnectAttempts /\ null = 0
BY AttemptAssumption DEF null

\* A reconnect that is scheduled is one of those allowed.
LEMMA ScheduleTypes ==
    ASSUME TypeOK, Schedule
    PROVE  /\ reconnectAttempts' \in 0..MaxReconnectAttempts
           /\ reconnectTimeout' \in BOOLEAN
           /\ strays' \in Nat
<1>1. CASE reconnectAttempts < MaxReconnectAttempts
  <2>1. reconnectAttempts' \in 0..MaxReconnectAttempts
    BY <1>1, AttemptAssumption DEF Schedule, TypeOK
  <2>2. reconnectTimeout' \in BOOLEAN
    BY <1>1 DEF Schedule
  <2>3. strays' \in Nat
    BY <1>1 DEF Schedule, TypeOK
  <2>4. QED
    BY <2>1, <2>2, <2>3
<1>2. CASE ~(reconnectAttempts < MaxReconnectAttempts)
  BY <1>2 DEF Schedule, TypeOK
<1>3. QED
  BY <1>1, <1>2

SocketsOK == sockets \in [Sockets -> States] /\ ws \in Sockets \cup {null}
FlagsOK == /\ isConnected \in BOOLEAN /\ isCleanedUp \in BOOLEAN
           /\ reconnectTimeout \in BOOLEAN /\ messageTimeout \in BOOLEAN
CountsOK == /\ reconnectAttempts \in 0..MaxReconnectAttempts
            /\ strays \in Nat /\ waiting \in Nat /\ polling \in Nat /\ calls \in Nat

\* The types in three groups, so that a step is compared with those it changes.
LEMMA TypeParts == TypeOK <=> SocketsOK /\ FlagsOK /\ CountsOK
BY DEF TypeOK, SocketsOK, FlagsOK, CountsOK, States

\* Every handler keeps the types.
LEMMA StepTypes == TypeOK /\ [Next]_vars => TypeOK'
<1> SUFFICES ASSUME TypeOK, [Next]_vars PROVE TypeOK'
  OBVIOUS
<1> USE DEF timers, dials
<1>0. CASE UNCHANGED vars
  BY <1>0 DEF vars, TypeOK
<1>1. CASE Connect
  <2>1. SocketsOK'
    BY <1>1, DialTypes, TypeParts DEF Connect, SocketsOK
  <2>2. FlagsOK'
    BY <1>1, TypeParts DEF Connect, FlagsOK
  <2>3. CountsOK'
    BY <1>1, DialTypes, TypeParts DEF Connect, CountsOK
  <2>4. QED
    BY <2>1, <2>2, <2>3 DEF TypeOK, SocketsOK, FlagsOK, CountsOK, States
<1>2. CASE Disconnect
  <2>1. SocketsOK'
    BY <1>2, HangUpFacts, ZeroAttempts, TypeParts DEF Disconnect, HangUp, SocketsOK
  <2>2. FlagsOK'
    BY <1>2, TypeParts DEF Disconnect, HangUp, FlagsOK
  <2>3. CountsOK'
    BY <1>2, ZeroAttempts, TypeParts DEF Disconnect, HangUp, CountsOK
  <2>4. QED
    BY <2>1, <2>2, <2>3 DEF TypeOK, SocketsOK, FlagsOK, CountsOK, States
<1>3. CASE Unmount
  <2>1. SocketsOK'
    BY <1>3, HangUpFacts, ZeroAttempts, TypeParts DEF Unmount, HangUp, SocketsOK
  <2>2. FlagsOK'
    BY <1>3, TypeParts DEF Unmount, HangUp, FlagsOK
  <2>3. CountsOK'
    BY <1>3, ZeroAttempts, TypeParts DEF Unmount, HangUp, CountsOK
  <2>4. QED
    BY <2>1, <2>2, <2>3 DEF TypeOK, SocketsOK, FlagsOK, CountsOK, States
<1>4. ASSUME NEW s \in Sockets, OnOpen(s) PROVE TypeOK'
  <2>1. SocketsOK'
    BY <1>4, TypeParts DEF OnOpen, SocketsOK, States
  <2>2. FlagsOK'
    BY <1>4, TypeParts DEF OnOpen, FlagsOK
  <2>3. CountsOK'
    BY <1>4, ZeroAttempts, TypeParts DEF OnOpen, CountsOK
  <2>4. QED
    BY <2>1, <2>2, <2>3 DEF TypeOK, SocketsOK, FlagsOK, CountsOK, States
<1>5. ASSUME NEW s \in Sockets, OnMessage(s) PROVE TypeOK'
  BY <1>5 DEF OnMessage, TypeOK
<1>6. ASSUME NEW s \in Sockets, OnClose(s) PROVE TypeOK'
  <2>1. CASE isCleanedUp
    BY <1>6, <2>1 DEF OnClose, TypeOK
  <2>2. CASE ~isCleanedUp
    BY <1>6, <2>2, ScheduleTypes DEF OnClose, TypeOK
  <2>3. QED
    BY <2>1, <2>2
<1>7. CASE Reconnect
  <2>1. SocketsOK'
    BY <1>7, DialTypes, TypeParts DEF Reconnect, SocketsOK
  <2>2. FlagsOK'
    BY <1>7, TypeParts DEF Reconnect, FlagsOK
  <2>3. CountsOK'
    <3>1. waiting' \in Nat /\ polling' \in Nat
      BY <1>7, DialTypes DEF Reconnect
    <3>2. strays' \in Nat
      BY <1>7 DEF Reconnect, TypeOK
    <3>3. QED
      BY <1>7, <3>1, <3>2 DEF Reconnect, TypeOK, CountsOK
  <2>4. QED
    BY <2>1, <2>2, <2>3 DEF TypeOK, SocketsOK, FlagsOK, CountsOK, States
<1>8. CASE MessageTimeout
  <2>1. CASE isConnected
    <3>1. SocketsOK'
      BY <1>8, <2>1, HangUpFacts, TypeParts DEF MessageTimeout, HangUp, SocketsOK, States
    <3>2. FlagsOK'
      BY <1>8, <2>1, TypeParts DEF MessageTimeout, HangUp, FlagsOK
    <3>3. CountsOK'
      BY <1>8, <2>1, ZeroAttempts, TypeParts DEF MessageTimeout, HangUp, CountsOK
    <3>4. QED
      BY <3>1, <3>2, <3>3 DEF TypeOK, SocketsOK, FlagsOK, CountsOK, States
  <2>2. CASE ~isConnected
    BY <1>8, <2>2 DEF MessageTimeout, TypeOK
  <2>3. QED
    BY <2>1, <2>2
<1>9. CASE Resolve
  BY <1>9 DEF Resolve, TypeOK
<1>10. CASE Reject
  <2>1. SocketsOK'
    BY <1>10, TypeParts DEF Reject, SocketsOK
  <2>2. FlagsOK'
    BY <1>10, ScheduleTypes, TypeParts DEF Reject, FlagsOK
  <2>3. CountsOK'
    BY <1>10, ScheduleTypes, TypeParts DEF Reject, CountsOK
  <2>4. QED
    BY <2>1, <2>2, <2>3 DEF TypeOK, SocketsOK, FlagsOK, CountsOK, States
<1>11. CASE TimeOut
  <2>1. SocketsOK'
    BY <1>11, TypeParts DEF TimeOut, SocketsOK
  <2>2. FlagsOK'
    BY <1>11, ScheduleTypes, TypeParts DEF TimeOut, FlagsOK
  <2>3. CountsOK'
    BY <1>11, ScheduleTypes, TypeParts DEF TimeOut, CountsOK
  <2>4. QED
    BY <2>1, <2>2, <2>3 DEF TypeOK, SocketsOK, FlagsOK, CountsOK, States
<1>12. CASE EndPolling
  BY <1>12 DEF EndPolling, TypeOK
<1>13. QED
  BY <1>0, <1>1, <1>2, <1>3, <1>4, <1>5, <1>6, <1>7, <1>8, <1>9, <1>10, <1>11, <1>12 DEF Next

LEMMA FeedInitial == Init => TypeOK
<1>1. Init => SocketsOK
  BY DEF Init, SocketsOK, States
<1>2. Init => FlagsOK
  BY DEF Init, FlagsOK
<1>3. Init => CountsOK
  BY ZeroAttempts DEF Init, CountsOK
<1>4. QED
  BY <1>1, <1>2, <1>3 DEF TypeOK, SocketsOK, FlagsOK, CountsOK, States

\* Every reachable state has the expected types; the attempts never exceed
\* MAX_RECONNECT_ATTEMPTS (useWebSocket.ts:317).
THEOREM SocketTypes == Spec => []TypeOK
BY FeedInitial, StepTypes, PTL DEF Spec

----------------------------------------------------------------------------
\* The one connection: every live socket is in ws, the flag is up only while
\* that one is open, and a component that is gone has none.

LinkInv ==
    /\ OneConnection
    /\ ConnectedIsOpen
    /\ isCleanedUp => ws = null

\* connect() refuses while there is a socket, so the one it makes is alone.
LEMMA DialLink ==
    ASSUME TypeOK, LinkInv, Dial, UNCHANGED <<isConnected, isCleanedUp>>
    PROVE  LinkInv'
<1> USE DEF LinkInv, OneConnection, ConnectedIsOpen, Live
<1>1. CASE Refused /\ UNCHANGED <<sockets, ws>>
  BY <1>1
<1>2. CASE ~Refused /\ \E s \in Sockets : ws' = s /\ sockets' = [sockets EXCEPT ![s] = "connecting"]
  <2>1. ws = null /\ ~isConnected /\ ~isCleanedUp
    BY <1>2 DEF Refused
  <2>2. PICK s \in Sockets : ws' = s /\ sockets' = [sockets EXCEPT ![s] = "connecting"]
    BY <1>2
  <2>3. \A r \in Sockets : r # s => sockets'[r] = sockets[r] /\ r # null
    BY <2>2 DEF TypeOK, null, Sockets
  <2>4. QED
    BY <2>1, <2>2, <2>3
<1>3. QED
  BY <1>1, <1>2 DEF Dial, IsNew

\* No handler, late or not, leaves a live socket outside ws.
LEMMA StepLink == TypeOK /\ LinkInv /\ [Next]_vars => LinkInv'
<1> SUFFICES ASSUME TypeOK, LinkInv, [Next]_vars PROVE LinkInv'
  OBVIOUS
<1> USE DEF OneConnection, ConnectedIsOpen, Live
<1>0. CASE UNCHANGED <<sockets, ws, isConnected, isCleanedUp>>
  BY <1>0 DEF LinkInv
<1>1. CASE Connect
  BY <1>1, DialLink DEF Connect
<1>2. CASE Disconnect \/ Unmount
  <2>1. sockets' = HungUp /\ ws' = null /\ ~isConnected'
    BY <1>2 DEF Disconnect, Unmount, HangUp
  <2>2. \A s \in Sockets : ~Live(s)'
    BY <2>1, HangUpFacts DEF LinkInv
  <2>3. QED
    BY <2>1, <2>2 DEF LinkInv
<1>3. ASSUME NEW s \in Sockets, OnOpen(s) PROVE LinkInv'
  <2>1. s = ws /\ ~isCleanedUp /\ s # null
    BY <1>3 DEF OnOpen, LinkInv, Sockets, null
  <2>2. QED
    BY <1>3, <2>1 DEF OnOpen, LinkInv, TypeOK
<1>4. ASSUME NEW s \in Sockets, OnMessage(s) PROVE LinkInv'
  BY <1>4, <1>0 DEF OnMessage
<1>5. ASSUME NEW s \in Sockets, OnClose(s) PROVE LinkInv'
  <2>1. ws' = ws /\ isCleanedUp' = isCleanedUp
    BY <1>5 DEF OnClose
  <2>2. ~isConnected'
    BY <1>5 DEF OnClose, LinkInv
  <2>3. \A r \in Sockets : Live(r)' => Live(r)
    BY <1>5 DEF OnClose, TypeOK
  <2>4. QED
    BY <2>1, <2>2, <2>3 DEF LinkInv
<1>6. CASE Reconnect
  BY <1>6, DialLink DEF Reconnect
<1>7. CASE MessageTimeout
  <2>1. CASE isConnected
    <3>1. PICK s \in Sockets : sockets' = [HungUp EXCEPT ![s] = "connecting"] /\ ws' = s
      BY <1>7, <2>1 DEF MessageTimeout
    <3>2. ~isConnected' /\ ~isCleanedUp'
      BY <1>7, <2>1 DEF MessageTimeout, HangUp, LinkInv
    <3>3. \A r \in Sockets : r # s => ~Live(r)'
      BY <3>1, HangUpFacts DEF LinkInv
    <3>4. QED
      BY <3>1, <3>2, <3>3 DEF LinkInv
  <2>2. CASE ~isConnected
    BY <1>7, <2>2, <1>0 DEF MessageTimeout
  <2>3. QED
    BY <2>1, <2>2
<1>8. CASE Resolve \/ Reject \/ EndPolling
  BY <1>8, <1>0 DEF Resolve, Reject, EndPolling
<1>9. CASE TimeOut
  BY <1>9 DEF TimeOut, LinkInv
<1>10. QED
  BY <1>0, <1>1, <1>2, <1>3, <1>4, <1>5, <1>6, <1>7, <1>8, <1>9 DEF Next, vars

LEMMA LinkInitial == Init => LinkInv
BY DEF Init, LinkInv, OneConnection, ConnectedIsOpen, Live

LEMMA LinkHolds == Spec => []LinkInv
BY LinkInitial, StepLink, SocketTypes, PTL DEF Spec

\* There is never a second connection beside the one in ws, whichever timers
\* and events of old sockets are still to come (useWebSocket.ts:368).
THEOREM Single == Spec => []OneConnection
<1>1. LinkInv => OneConnection
  BY DEF LinkInv
<1>2. QED
  BY <1>1, LinkHolds, PTL

\* isConnected is never up without an open connection (useWebSocket.ts:273).
THEOREM Honest == Spec => []ConnectedIsOpen
<1>1. LinkInv => ConnectedIsOpen
  BY DEF LinkInv
<1>2. QED
  BY <1>1, LinkHolds, PTL

\* Nothing connects again after the component is gone (useWebSocket.ts:530).
THEOREM Final == Spec => []CleanupIsFinal
<1>1. LinkInv => CleanupIsFinal
  BY DEF LinkInv, OneConnection, CleanupIsFinal, Sockets, null
<1>2. QED
  BY <1>1, LinkHolds, PTL

----------------------------------------------------------------------------
\* The dashboard

PollFlags == mounted \in BOOLEAN /\ pollInterval \in BOOLEAN /\ isLoading \in BOOLEAN

\* A request, a timer or neither: never two of them.
LEMMA PollStep ==
    ASSUME PollingOK, OneRequest, [PollNext]_pollVars
    PROVE  PollingOK' /\ OneRequest'
<1>0. PollFlags'
  BY DEF PollFlags, PollNext, FetchSucceeds, FetchFails, Tick, Retry, StartAutoFetch, StopAutoFetch,
         LeaveDashboard, FetchByHand, ClearError, Fetch, FetchStopped, pollVars, pollTimers, PollingOK
<1> USE <1>0, PollingAssumption DEF PollingOK, OneRequest, PollFlags, Fetch, FetchStopped, pollTimers
<1>1. CASE FetchSucceeds
  BY <1>1 DEF FetchSucceeds
<1>2. CASE FetchFails
  BY <1>2 DEF FetchFails
<1>3. CASE Tick
  BY <1>3 DEF Tick
<1>4. CASE Retry
  BY <1>4 DEF Retry
<1>5. CASE StartAutoFetch
  BY <1>5 DEF StartAutoFetch
<1>6. CASE StopAutoFetch \/ LeaveDashboard \/ ClearError \/ UNCHANGED pollVars
  BY <1>6 DEF StopAutoFetch, LeaveDashboard, ClearError, pollVars
<1>7. CASE FetchByHand
  BY <1>7 DEF FetchByHand
<1> QED
  BY <1>1, <1>2, <1>3, <1>4, <1>5, <1>6, <1>7 DEF PollNext

LEMMA PollInitial == PollInit => PollingOK /\ OneRequest
<1>1. PollInit => PollFlags
  BY DEF PollInit, PollFlags
<1> QED
  BY <1>1, PollingAssumption DEF PollInit, PollFlags, PollingOK, OneRequest

----------------------------------------------------------------------------
\* Notifications

\* Any set of natural numbers has a least one.
LEMMA LeastOne ==
    ASSUME NEW S, S \subseteq Nat, S # {}
    PROVE  \E i \in S : \A j \in S : i <= j
<1> DEFINE less == {ss \in Nat \X Nat : ss[1] < ss[2]}
<1>1. IsWellFoundedOn(less, Nat)
  BY NatLessThanWellFounded DEF OpToRel
<1> HIDE DEF less
<1>2. PICK i \in S : \A j \in S : ~(<<j, i>> \in less)
  BY <1>1, WFMin
<1>3. \A j \in S : ~(j < i)
  BY <1>2 DEF less
<1> QED
  BY <1>3

\* What is kept of the first n of a list, by the recursion of Without.
One(s, ids, n) == IF s[n].id \in ids THEN <<>> ELSE <<s[n]>>
Kept(f, s, ids, m) == f = [n \in 0..m |-> IF n = 0 THEN <<>> ELSE f[n - 1] \o One(s, ids, n)]

\* Without by the name of its recursion.
LEMMA WithoutIsKept ==
    ASSUME NEW s, NEW ids
    PROVE  Without(s, ids) = (CHOOSE f : Kept(f, s, ids, Len(s)))[Len(s)]
BY DEF Without, Kept, One

\* The recursion has a solution.
LEMMA KeptExists ==
    ASSUME NEW s, NEW ids, NEW N \in Nat
    PROVE  \E f : Kept(f, s, ids, N)
<1> DEFINE bad == {m \in Nat : ~ \E f : Kept(f, s, ids, m)}
<1> SUFFICES ASSUME bad # {} PROVE FALSE
  OBVIOUS
<1>1. PICK m \in bad : \A k \in bad : m <= k
  <2>1. bad \subseteq Nat
    OBVIOUS
  <2> HIDE DEF bad
  <2> QED
    BY <2>1, LeastOne
<1>2. m \in Nat /\ ~ \E f : Kept(f, s, ids, m)
  OBVIOUS
<1>3. CASE m = 0
  <2> DEFINE f == [n \in 0..0 |-> <<>>]
  <2>1. f = [n \in 0..0 |-> IF n = 0 THEN <<>> ELSE f[n - 1] \o One(s, ids, n)]
    OBVIOUS
  <2>2. Kept(f, s, ids, m)
    BY <1>3, <2>1 DEF Kept
  <2> QED
    BY <1>2, <2>2
<1>4. CASE m # 0
  <2>1. m - 1 \in Nat /\ m - 1 \notin bad
    BY <1>1, <1>2, <1>4
  <2>2. PICK g : Kept(g, s, ids, m - 1)
    BY <2>1
  <2> DEFINE f == [n \in 0..m |-> IF n = m THEN g[m - 1] \o One(s, ids, m) ELSE g[n]]
  <2>3. \A n \in 0..(m - 1) : g[n] = IF n = 0 THEN <<>> ELSE g[n - 1] \o One(s, ids, n)
    BY <2>2 DEF Kept
  <2>4. \A n \in 0..m : f[n] = IF n = 0 THEN <<>> ELSE f[n - 1] \o One(s, ids, n)
    <3> SUFFICES ASSUME NEW n \in 0..m PROVE f[n] = IF n = 0 THEN <<>> ELSE f[n - 1] \o One(s, ids, n)
      OBVIOUS
    <3>1. CASE n = m
      <4>1. n # 0 /\ n - 1 = m - 1 /\ n - 1 \in 0..m /\ n - 1 # m
        BY <1>2, <1>4, <3>1
      <4>2. f[n - 1] = g[m - 1] /\ f[n] = g[m - 1] \o One(s, ids, n)
        BY <3>1, <4>1
      <4> QED
        BY <4>1, <4>2
    <3>2. CASE n = 0
      BY <1>2, <1>4, <2>3, <3>2
    <3>3. CASE n # m /\ n # 0
      <4>1. n \in 0..(m - 1) /\ n - 1 \in 0..m /\ n - 1 # m
        BY <1>2, <3>3
      <4>2. f[n - 1] = g[n - 1] /\ f[n] = g[n]
        BY <3>3, <4>1
      <4> QED
        BY <2>3, <3>3, <4>1, <4>2
    <3> QED
      BY <3>1, <3>2, <3>3
  <2>5. f = [n \in 0..m |-> IF n = 0 THEN <<>> ELSE f[n - 1] \o One(s, ids, n)]
    <3> DEFINE h == [n \in 0..m |-> IF n = 0 THEN <<>> ELSE f[n - 1] \o One(s, ids, n)]
    <3>1. DOMAIN f = 0..m /\ f = [n \in 0..m |-> f[n]]
      OBVIOUS
    <3> HIDE DEF f
    <3> QED
      BY <2>4, <3>1
  <2> HIDE DEF f
  <2>6. Kept(f, s, ids, m)
    BY <2>5 DEF Kept
  <2> QED
    BY <1>2, <2>6
<1> QED
  BY <1>3, <1>4

\* A shorter list, of those whose ids are not among the ids.
LEMMA WithoutFacts ==
    ASSUME NEW T, NEW s \in Seq(T), NEW ids
    PROVE  /\ Without(s, ids) \in Seq(T)
           /\ Len(Without(s, ids)) <= Len(s)
           /\ Ids(Without(s, ids)) = Ids(s) \ ids
<1> DEFINE f == CHOOSE f : Kept(f, s, ids, Len(s))
           Good(n) == /\ f[n] \in Seq(T) /\ Len(f[n]) <= n
                      /\ Ids(f[n]) = {s[i].id : i \in 1..n} \ ids
           bad == {n \in 0..Len(s) : ~Good(n)}
<1>1. Len(s) \in Nat /\ DOMAIN s = 1..Len(s) /\ \A n \in 1..Len(s) : s[n] \in T
  OBVIOUS
<1>2. Kept(f, s, ids, Len(s))
  BY <1>1, KeptExists
<1> HIDE DEF f
<1>3. \A n \in 0..Len(s) : f[n] = IF n = 0 THEN <<>> ELSE f[n - 1] \o One(s, ids, n)
  BY <1>2 DEF Kept
<1>4. bad = {}
  <2> SUFFICES ASSUME bad # {} PROVE FALSE
    OBVIOUS
  <2>1. PICK n \in bad : \A k \in bad : n <= k
    <3>1. bad \subseteq Nat
      BY <1>1
    <3> HIDE DEF bad
    <3> QED
      BY <3>1, LeastOne
  <2>2. n \in 0..Len(s) /\ ~Good(n)
    OBVIOUS
  <2>3. n # 0
    <3> SUFFICES ASSUME n = 0 PROVE FALSE
      OBVIOUS
    <3>1. f[0] = <<>>
      BY <1>1, <1>3
    <3>2. Ids(<<>>) = {}
      BY DEF Ids
    <3>3. {s[i].id : i \in 1..0} = {}
      OBVIOUS
    <3>4. Good(0)
      BY <3>1, <3>2, <3>3
    <3> QED
      BY <2>2, <3>4
  <2>4. n - 1 \in 0..Len(s) /\ n \in 1..Len(s)
    BY <1>1, <2>2, <2>3
  <2>5. Good(n - 1)
    <3>1. ~(n <= n - 1)
      BY <2>4
    <3>2. n - 1 \notin bad
      <4> HIDE DEF bad
      <4> QED
        BY <2>1, <3>1
    <3> HIDE DEF Good
    <3> QED
      BY <2>4, <3>2
  <2> DEFINE q == f[n - 1]
  <2>6. q \in Seq(T) /\ Len(q) <= n - 1 /\ Ids(q) = {s[i].id : i \in 1..(n - 1)} \ ids
    BY <2>5
  <2>7. f[n] = q \o One(s, ids, n)
    BY <1>3, <2>2, <2>3
  <2>8. {s[i].id : i \in 1..n} = {s[i].id : i \in 1..(n - 1)} \cup {s[n].id}
    <3>1. 1..n = 1..(n - 1) \cup {n}
      BY <1>1, <2>4
    <3> QED
      BY <3>1
  <2> HIDE DEF q
  <2>9. CASE s[n].id \in ids
    <3>1. q \o <<>> = q
      BY <2>6
    <3>2. f[n] = q
      BY <2>7, <2>9, <3>1 DEF One
    <3>3. Good(n)
      BY <1>1, <2>4, <2>6, <2>8, <2>9, <3>2
    <3> QED
      BY <2>2, <3>3
  <2>10. CASE s[n].id \notin ids
    <3>1. f[n] = q \o <<s[n]>> /\ s[n] \in T
      BY <1>1, <2>4, <2>7, <2>10 DEF One
    <3>2. q \o <<s[n]>> = Append(q, s[n])
      BY <2>6, <3>1
    <3> DEFINE r == Append(q, s[n])
    <3>3. r \in Seq(T) /\ Len(r) = Len(q) + 1 /\ r[Len(q) + 1] = s[n] /\ Len(q) \in Nat
          /\ \A i \in 1..Len(q) : r[i] = q[i]
      BY <2>6, <3>1
    <3> HIDE DEF r
    <3>4. Ids(r) = Ids(q) \cup {s[n].id}
      <4>1. DOMAIN r = 1..(Len(q) + 1) /\ DOMAIN q = 1..Len(q)
        BY <2>6, <3>3
      <4>2. 1..(Len(q) + 1) = 1..Len(q) \cup {Len(q) + 1}
        BY <3>3
      <4> QED
        BY <3>3, <4>1, <4>2 DEF Ids
    <3>5. Len(r) <= n
      BY <1>1, <2>4, <2>6, <3>3
    <3>6. Good(n)
      BY <2>6, <2>8, <2>10, <3>1, <3>2, <3>3, <3>4, <3>5 DEF r
    <3> QED
      BY <2>2, <3>6
  <2> QED
    BY <2>9, <2>10
<1>5. Good(Len(s))
  <2> HIDE DEF Good
  <2>1. Len(s) \in 0..Len(s)
    BY <1>1
  <2> QED
    BY <1>4, <2>1
<1>6. Without(s, ids) = f[Len(s)]
  BY WithoutIsKept DEF f
<1>7. Ids(s) = {s[i].id : i \in 1..Len(s)}
  BY <1>1 DEF Ids
<1> QED
  BY <1>5, <1>6, <1>7

ToastsInv ==
    /\ NotificationsOK /\ ToastsAreTimed

LEMMA NoteInitial == NoteInit => ToastsInv
<1> SUFFICES ASSUME NoteInit PROVE ToastsInv
  OBVIOUS
<1>1. notifications = <<>> /\ dismissTimeouts = {} /\ ticking = {} /\ shown = 0
  BY DEF NoteInit
<1>2. Ids(notifications) = {} /\ Len(notifications) = 0
  BY <1>1 DEF Ids
<1>3. shown \in 0..MaxShown /\ 0 <= MAX_NOTIFICATIONS
  BY <1>1, NotificationAssumption
<1>4. notifications \in Seq([id : 1..shown, type : Types])
  BY <1>1
<1> QED
  BY <1>1, <1>2, <1>3, <1>4 DEF ToastsInv, NotificationsOK, ToastsAreTimed

\* What the limit leaves of a list: a part of it, with its last, not too long.
LEMMA LimitKeeps ==
    ASSUME NEW T, NEW s \in Seq(T), s # <<>>
    PROVE  LET r == EnforceMaxLimit(s)
           IN  /\ r \in Seq(T) /\ Len(r) <= MAX_NOTIFICATIONS
               /\ Ids(r) \subseteq Ids(s) /\ s[Len(s)].id \in Ids(r)
<1> DEFINE L == Len(s)
           k == IF L > MAX_NOTIFICATIONS THEN L - MAX_NOTIFICATIONS ELSE 0
           r == SubSeq(s, 1 + k, L)
<1>1. L \in Nat /\ L > 0 /\ DOMAIN s = 1..L
  OBVIOUS
<1>2. k \in 0..(L - 1) /\ L - k <= MAX_NOTIFICATIONS
  BY <1>1, NotificationAssumption
<1> HIDE DEF k
<1>3. r \in Seq(T) /\ Len(r) = L - k /\ \A i \in 1..(L - k) : r[i] = s[i + k]
  <2>1. 1 + k \in 1..L /\ L \in 1..L /\ k \in Nat
    BY <1>1, <1>2
  <2>2. r \in Seq(T)
    BY <1>1, <2>1
  <2>3. Len(r) = L - k
    BY <1>1, <2>1
  <2>4. ASSUME NEW i \in 1..(L - k) PROVE r[i] = s[i + k]
    BY <1>1, <2>1, <2>4
  <2> QED
    BY <2>2, <2>3, <2>4
<1> HIDE DEF r
<1>4. DOMAIN r = 1..(L - k) /\ L - k \in 1..(L - k)
  BY <1>1, <1>2, <1>3
<1>5. \A i \in 1..(L - k) : i + k \in 1..L
  <2>1. k \in Nat /\ k <= L
    BY <1>1, <1>2
  <2> QED
    BY ONLY <1>1, <2>1
<1>6. Ids(r) \subseteq Ids(s)
  <2> SUFFICES ASSUME NEW i \in 1..(L - k) PROVE r[i].id \in Ids(s)
    BY <1>4 DEF Ids
  <2>1. r[i] = s[i + k] /\ i + k \in DOMAIN s
    BY <1>1, <1>3, <1>5
  <2> QED
    BY <2>1 DEF Ids
<1>7. s[L].id \in Ids(r)
  <2>1. r[L - k] = s[L]
    BY <1>1, <1>2, <1>3
  <2> QED
    BY <1>4, <2>1 DEF Ids
<1>8. EnforceMaxLimit(s) = r
  BY DEF EnforceMaxLimit, k, r
<1> QED
  BY <1>2, <1>3, <1>6, <1>7, <1>8

\* A list with ids up to m is one with ids up to a later n.
LEMMA MoreIds ==
    \A m, n \in Nat :
        m <= n => Seq([id : 1..m, type : Types]) \subseteq Seq([id : 1..n, type : Types])
<1> SUFFICES ASSUME NEW m \in Nat, NEW n \in Nat, m <= n
             PROVE  Seq([id : 1..m, type : Types]) \subseteq Seq([id : 1..n, type : Types])
  OBVIOUS
<1>1. [id : 1..m, type : Types] \subseteq [id : 1..n, type : Types]
  OBVIOUS
<1> QED
  BY <1>1, SeqMonotonic

\* Dismissed or timed out, what goes from the list goes from the timers.
LEMMA ToastsGo ==
    ASSUME ToastsInv, NEW ids, notifications' = Without(notifications, ids),
           ticking' = ticking \ ids, dismissTimeouts' = dismissTimeouts \ ids, UNCHANGED shown
    PROVE  ToastsInv'
<1> DEFINE T == [id : 1..shown, type : Types]
<1>1. notifications \in Seq(T) /\ ticking = Ids(notifications) /\ dismissTimeouts = ticking
      /\ Len(notifications) <= MAX_NOTIFICATIONS /\ shown \in 0..MaxShown
      /\ dismissTimeouts \subseteq 1..shown /\ ticking \subseteq 1..shown
  BY DEF ToastsInv, NotificationsOK, ToastsAreTimed
<1> HIDE DEF T
<1>2. notifications' \in Seq(T) /\ Len(notifications') <= Len(notifications)
      /\ Ids(notifications') = Ids(notifications) \ ids
  BY <1>1, WithoutFacts
<1>3. Len(notifications') <= MAX_NOTIFICATIONS
  BY <1>1, <1>2, NotificationAssumption
<1>4. T' = T
  BY DEF T
<1> QED
  BY <1>1, <1>2, <1>3, <1>4 DEF ToastsInv, NotificationsOK, ToastsAreTimed, T, Ids

\* A new toast has a timer, and those it pushes out of the list lose theirs.
LEMMA ToastShows ==
    ASSUME ToastsInv, NEW type \in Types, ShowNotification(type)
    PROVE  ToastsInv'
<1> DEFINE T == [id : 1..shown, type : Types]
           U == [id : 1..(shown + 1), type : Types]
           e == [id |-> shown + 1, type |-> type]
           list == Append(notifications, e)
           r == EnforceMaxLimit(list)
<1>1. notifications \in Seq(T) /\ ticking = Ids(notifications) /\ dismissTimeouts = ticking
      /\ shown \in Nat /\ shown < MaxShown /\ shown' = shown + 1
      /\ dismissTimeouts \subseteq 1..shown /\ ticking \subseteq 1..shown
  BY NotificationAssumption DEF ToastsInv, NotificationsOK, ToastsAreTimed, ShowNotification
<1>2. notifications \in Seq(U) /\ e \in U /\ e.id = shown + 1
  BY <1>1, MoreIds
<1>3. /\ notifications' = r
      /\ dismissTimeouts' = (dismissTimeouts \ (Ids(list) \ Ids(r))) \cup {shown + 1}
      /\ ticking' = (ticking \ ((Ids(list) \ Ids(r)) \cap dismissTimeouts)) \cup {shown + 1}
  BY DEF ShowNotification
<1> HIDE DEF U, T, e
<1>4. list \in Seq(U) /\ Len(list) = Len(notifications) + 1 /\ list[Len(list)] = e
      /\ Len(notifications) \in Nat /\ \A i \in 1..Len(notifications) : list[i] = notifications[i]
  BY <1>2
<1> HIDE DEF list
<1>5. Ids(list) = Ids(notifications) \cup {shown + 1}
  <2>1. DOMAIN list = 1..Len(notifications) \cup {Len(notifications) + 1}
        /\ DOMAIN notifications = 1..Len(notifications)
    BY <1>2, <1>4
  <2>2. Len(list) = Len(notifications) + 1
    BY <1>4
  <2> QED
    BY <1>2, <1>4, <2>1, <2>2 DEF Ids
<1>6. list # <<>>
  BY <1>4
<1>7. r \in Seq(U) /\ Len(r) <= MAX_NOTIFICATIONS /\ Ids(r) \subseteq Ids(list)
      /\ shown + 1 \in Ids(r)
  BY <1>2, <1>4, <1>6, LimitKeeps
<1> HIDE DEF r
<1>8. ticking' = Ids(r) /\ dismissTimeouts' = Ids(r)
  BY <1>1, <1>3, <1>5, <1>7
<1>9. U = [id : 1..shown', type : Types]
  BY <1>1 DEF U
<1>10. shown' \in 0..MaxShown /\ Ids(r) \subseteq 1..shown'
  BY <1>1, <1>5, <1>7, NotificationAssumption
<1> QED
  BY <1>3, <1>7, <1>8, <1>9, <1>10 DEF ToastsInv, NotificationsOK, ToastsAreTimed, Ids

\* Whoever takes a toast away, a click or its timer, takes the timer with it.
LEMMA NoteStep ==
    ASSUME ToastsInv, [NoteNext]_noteVars
    PROVE  ToastsInv'
<1>0. dismissTimeouts = ticking
  BY DEF ToastsInv, ToastsAreTimed
<1>1. ASSUME NEW type \in Types, ShowNotification(type) PROVE ToastsInv'
  BY <1>1, ToastShows
<1>2. ASSUME NEW ids, Dismissed(ids), UNCHANGED shown PROVE ToastsInv'
  <2>1. ticking' = ticking \ ids /\ dismissTimeouts' = dismissTimeouts \ ids
    BY <1>0, <1>2 DEF Dismissed, Untimed
  <2> QED
    BY <1>2, <2>1, ToastsGo DEF Dismissed
<1>3. ASSUME NEW id, AutoDismiss(id) PROVE ToastsInv'
  BY <1>3, ToastsGo DEF AutoDismiss
<1>4. CASE DismissAll
  <2>1. notifications' = <<>> /\ ticking' = {} /\ dismissTimeouts' = {} /\ shown' = shown
    BY <1>0, <1>4 DEF DismissAll
  <2>2. Ids(notifications') = {} /\ Len(notifications') = 0
    BY <2>1 DEF Ids
  <2>3. notifications' \in Seq([id : 1..shown', type : Types]) /\ 0 <= MAX_NOTIFICATIONS
    BY <2>1, NotificationAssumption
  <2>4. shown \in 0..MaxShown
    BY DEF ToastsInv, NotificationsOK
  <2> QED
    BY <2>1, <2>2, <2>3, <2>4 DEF ToastsInv, NotificationsOK, ToastsAreTimed, Ids
<1>5. CASE UNCHANGED noteVars
  BY <1>5 DEF noteVars, ToastsInv, NotificationsOK, ToastsAreTimed, Ids
<1> QED
  BY <1>1, <1>2, <1>3, <1>4, <1>5 DEF NoteNext, DismissNotification, DismissByType

----------------------------------------------------------------------------
\* What the page believes of the proxy

Operations == {NoOperation} \cup [what : Switches \cup {"clear", "export"},
                                  is : {"sent", "done", "refused"}]

ControlTypes ==
    /\ isProxyRunning \in BOOLEAN /\ proxyRunning \in BOOLEAN /\ doubt \in BOOLEAN
    /\ operation \in Operations
    /\ isOperating = (operation # NoOperation)
    /\ status \in [StatusCalls -> {"idle", "sent", "running", "stopped"}]

\* Without doubt a start found the proxy stopped and a stop found it running, for
\* the page and for the server, until the server does what it was asked.
Begun ==
    ~doubt =>
        CASE operation = NoOperation -> isProxyRunning = proxyRunning
          [] operation # NoOperation /\ operation.what = "start" ->
                 IF operation.is = "done" THEN proxyRunning ELSE ~proxyRunning /\ ~isProxyRunning
          [] operation # NoOperation /\ operation.what = "stop" ->
                 IF operation.is = "done" THEN ~proxyRunning ELSE proxyRunning /\ isProxyRunning
          [] OTHER -> isProxyRunning = proxyRunning

FlagInv == ControlTypes /\ Begun

\* No record of an operation is that of none.
LEMMA NothingIsNoOperation ==
    ASSUME NEW w, NEW i
    PROVE  [what |-> w, is |-> i] # NoOperation
<1>1. DOMAIN [what |-> w, is |-> i] = {"what", "is"} /\ DOMAIN NoOperation = {"what"}
  BY DEF NoOperation
<1> QED
  BY <1>1

\* A Begin of something that leaves the two flags as they are.
LEMMA BeginKeeps ==
    ASSUME NEW what \in Switches \cup {"clear", "export"}, FlagInv, Begin(what),
           what = "start" => ~isProxyRunning, what = "stop" => isProxyRunning
    PROVE  FlagInv'
<1>1. operation = NoOperation
  BY DEF FlagInv, ControlTypes, Begin
<1>2. operation' \in Operations /\ operation' # NoOperation
  BY NothingIsNoOperation DEF Begin, Operations, Switches
<1>3. operation'.what = what /\ operation'.is = "sent"
  BY DEF Begin
<1>4. ControlTypes'
  BY <1>2 DEF Begin, FlagInv, ControlTypes
<1>5. Begun'
  BY <1>1, <1>2, <1>3 DEF Begin, FlagInv, ControlTypes, Begun, Switches
<1> QED
  BY <1>4, <1>5 DEF FlagInv

LEMMA FlagInitial == ControlInit => FlagInv
<1> SUFFICES ASSUME ControlInit PROVE FlagInv
  OBVIOUS
<1>1. ControlTypes
  BY DEF ControlInit, ControlTypes, Operations
<1>2. ~doubt => isProxyRunning = proxyRunning
  BY DEF ControlInit
<1>3. operation = NoOperation
  BY DEF ControlInit
<1> QED
  BY <1>1, <1>2, <1>3 DEF FlagInv, Begun

\* No operation and no status call breaks the page's belief without a doubt.
LEMMA FlagStep == FlagInv /\ [ControlNext]_controlVars => FlagInv'
<1> SUFFICES ASSUME FlagInv, [ControlNext]_controlVars PROVE FlagInv'
  OBVIOUS
<1>1. CASE ToggleProxy \/ StartProxy \/ StopProxy
  BY <1>1, BeginKeeps DEF ToggleProxy, StartProxy, StopProxy, Switches
<1>2. CASE ClearTraffic \/ ExportMetrics
  BY <1>2, BeginKeeps DEF ClearTraffic, ExportMetrics
<1>3. CASE Serve
  <2>1. /\ operation \in [what : Switches \cup {"clear", "export"}, is : {"sent", "done", "refused"}]
        /\ operation # NoOperation /\ operation.is = "sent"
    BY <1>3 DEF Serve, FlagInv, ControlTypes, Operations
  <2>2. CASE operation' = [operation EXCEPT !.is = "done"]
    <3>1. /\ operation'.what = operation.what /\ operation'.is = "done"
          /\ operation' = [what |-> operation.what, is |-> "done"]
      BY <2>1, <2>2
    <3>2. operation' # NoOperation /\ operation' \in Operations
      BY <2>1, <3>1, NothingIsNoOperation DEF Operations
    <3>3. proxyRunning' = CASE operation.what = "start" -> TRUE
                            [] operation.what = "stop" -> FALSE
                            [] OTHER -> proxyRunning
      BY <1>3, <2>1, <3>1 DEF Serve
    <3> QED
      BY <1>3, <2>1, <3>1, <3>2, <3>3 DEF Serve, FlagInv, ControlTypes, Begun, Switches
  <2>3. CASE operation' = [operation EXCEPT !.is = "refused"] /\ UNCHANGED proxyRunning
    <3>1. /\ operation'.what = operation.what /\ operation'.is = "refused"
          /\ operation' = [what |-> operation.what, is |-> "refused"]
      BY <2>1, <2>3
    <3>2. operation' # NoOperation /\ operation' \in Operations
      BY <2>1, <3>1, NothingIsNoOperation DEF Operations
    <3> QED
      BY <1>3, <2>1, <2>3, <3>1, <3>2 DEF Serve, FlagInv, ControlTypes, Begun, Switches
  <2> QED
    BY <1>3, <2>2, <2>3 DEF Serve
<1>4. CASE OperationSucceeds \/ OperationFails \/ AnswerEmpty
  <2>1. /\ operation \in [what : Switches \cup {"clear", "export"}, is : {"sent", "done", "refused"}]
        /\ operation # NoOperation /\ operation' = NoOperation
    BY <1>4 DEF OperationSucceeds, OperationFails, AnswerEmpty, FlagInv, ControlTypes, Operations
  <2>2. ControlTypes'
    BY <1>4, <2>1 DEF OperationSucceeds, OperationFails, AnswerEmpty, FlagInv, ControlTypes,
                      Operations, Switches
  <2>3. CASE OperationSucceeds
    BY <2>1, <2>2, <2>3 DEF OperationSucceeds, FlagInv, ControlTypes, Begun, Switches
  <2>4. CASE OperationFails
    BY <2>1, <2>2, <2>4 DEF OperationFails, FlagInv, ControlTypes, Begun, Switches
  <2>5. CASE AnswerEmpty
    BY <2>1, <2>2, <2>5 DEF AnswerEmpty, FlagInv, ControlTypes, Begun, Switches
  <2> QED
    BY <1>4, <2>3, <2>4, <2>5
<1>5. ASSUME NEW s \in StatusCalls, AskStatus(s) \/ ServeStatus(s) \/ StatusFails(s)
      PROVE FlagInv'
  <2>1. ControlTypes'
    BY <1>5 DEF AskStatus, ServeStatus, StatusFails, FlagInv, ControlTypes, Seen
  <2>2. Begun'
    BY <1>5 DEF AskStatus, ServeStatus, StatusFails, FlagInv, Begun
  <2> QED
    BY <2>1, <2>2 DEF FlagInv
<1>6. ASSUME NEW s \in StatusCalls, StatusAnswer(s) PROVE FlagInv'
  <2>1. ControlTypes'
    BY <1>6 DEF StatusAnswer, FlagInv, ControlTypes, Seen
  <2>2. ~doubt' => isProxyRunning' = proxyRunning
    BY <1>6 DEF StatusAnswer, Seen, FlagInv, ControlTypes
  <2>3. operation # NoOperation /\ ~doubt' => ~doubt
    BY <1>6 DEF StatusAnswer, FlagInv, ControlTypes
  <2>4. Begun'
    BY <1>6, <2>2, <2>3 DEF StatusAnswer, FlagInv, ControlTypes, Begun
  <2> QED
    BY <2>1, <2>4 DEF FlagInv
<1>7. CASE UNCHANGED controlVars
  BY <1>7 DEF controlVars, controlCalls, FlagInv, ControlTypes, Begun
<1> QED
  BY <1>1, <1>2, <1>3, <1>4, <1>5, <1>6, <1>7 DEF ControlNext

LEMMA FlagHolds == ControlSpec => []FlagInv
BY FlagInitial, FlagStep, PTL DEF ControlSpec

\* The bound of operations.
LEMMA OperationsStep ==
    ASSUME operations \in 0..MaxOperations, [ControlNext]_controlVars
    PROVE  operations' \in 0..MaxOperations
<1>1. operations' = operations \/ (operations < MaxOperations /\ operations' = operations + 1)
  BY DEF ControlNext, ToggleProxy, StartProxy, StopProxy, ClearTraffic, ExportMetrics, Begin, Serve,
         OperationSucceeds, OperationFails, AnswerEmpty, AskStatus, ServeStatus, StatusAnswer, StatusFails,
         controlVars
<1> QED
  BY <1>1, ControlAssumption

\* With nothing under way the page is right about the proxy unless an answer was
\* lost or late, whatever is clicked and asked (useProxyControl.ts:222, 271).
THEOREM FlagRight == ControlSpec => []FlagIsRight
<1>1. FlagInv => FlagIsRight
  BY DEF FlagInv, Begun, FlagIsRight, Quiet
<1> QED
  BY <1>1, FlagHolds, PTL

----------------------------------------------------------------------------
\* The page of an attack

\* Of a start under way, with no stop that ended meanwhile, there is one; no interval
\* ticks then, and the page shows an attack.
StartsAreAlone ==
    ~crossed /\ generating + starting > 0 => generating + starting = 1 /\ running /\ tickingPolls = {}
StartsAreKnown == ~attackMounted /\ generating + starting > 0 => left

AttackInv == AttackPageOK /\ PollingIsTracked /\ StartsAreAlone /\ StartsAreKnown

AttackFlags == attackMounted \in BOOLEAN /\ running \in BOOLEAN /\ crossed \in BOOLEAN /\ left \in BOOLEAN

LEMMA AttackInitial == AttackPageInit => AttackInv
<1>1. AttackPageInit => AttackFlags
  BY DEF AttackPageInit, AttackFlags
<1> QED
  BY <1>1, AttackPageAssumption
     DEF AttackFlags, AttackPageInit, AttackInv, AttackPageOK, PollingIsTracked, StartsAreAlone, StartsAreKnown

\* An interval that ticks is the one the page holds, a crossed start or a page left aside.
LEMMA AttackStep ==
    ASSUME AttackInv, [AttackPageNext]_attackVars
    PROVE  AttackInv'
<1>0. AttackFlags'
  <2>1. attackMounted' \in BOOLEAN /\ running' \in BOOLEAN
    BY DEF AttackPageNext, StartAttack, Previewed, Started, StartFails, StopAttack, AttackStopped,
           LeavePage, attackVars, AttackInv, AttackPageOK
  <2>2. crossed' \in BOOLEAN
    <3>1. UNCHANGED crossed \/ crossed' = (crossed \/ generating + starting > 0)
      BY DEF AttackPageNext, StartAttack, Previewed, Started, StartFails, StopAttack, AttackStopped,
             LeavePage, attackVars
    <3> QED
      BY <3>1 DEF AttackInv, AttackPageOK
  <2>3. left' \in BOOLEAN
    <3>1. CASE UNCHANGED left
      BY <3>1 DEF AttackInv, AttackPageOK
    <3>2. CASE left' = (generating + starting > 0)
      BY <3>2
    <3> QED
      BY <3>1, <3>2 DEF AttackPageNext, StartAttack, Previewed, Started, StartFails, StopAttack,
                        AttackStopped, LeavePage, attackVars
  <2> QED
    BY <2>1, <2>2, <2>3 DEF AttackFlags
<1> USE <1>0, AttackPageAssumption
        DEF AttackFlags, AttackInv, AttackPageOK, PollingIsTracked, StartsAreAlone, StartsAreKnown, attackCalls
<1>1. CASE StartAttack
  <2>1. AttackPageOK'
    BY <1>1 DEF StartAttack
  <2>2. PollingIsTracked'
    BY <1>1 DEF StartAttack
  <2>3. StartsAreAlone'
    BY <1>1 DEF StartAttack
  <2>4. StartsAreKnown'
    BY <1>1 DEF StartAttack
  <2> QED
    BY <2>1, <2>2, <2>3, <2>4
<1>2. CASE Previewed
  <2>1. AttackPageOK'
    BY <1>2 DEF Previewed
  <2>2. PollingIsTracked'
    BY <1>2 DEF Previewed
  <2>3. StartsAreAlone'
    BY <1>2 DEF Previewed
  <2>4. StartsAreKnown'
    BY <1>2 DEF Previewed
  <2> QED
    BY <2>1, <2>2, <2>3, <2>4
<1>3. CASE Started
  <2>1. AttackPageOK'
    BY <1>3 DEF Started, StartPolling
  <2>2. PollingIsTracked'
    BY <1>3 DEF Started, StartPolling
  <2>3. StartsAreAlone'
    BY <1>3 DEF Started, StartPolling
  <2>4. StartsAreKnown'
    BY <1>3 DEF Started, StartPolling
  <2> QED
    BY <2>1, <2>2, <2>3, <2>4
<1>4. CASE StartFails
  <2>1. AttackPageOK'
    BY <1>4 DEF StartFails
  <2>2. PollingIsTracked'
    <3>1. tickingPolls # {} => crossed
      <4>1. generating \in Nat /\ starting \in Nat /\ starting > 0 /\ StartsAreAlone
        BY <1>4 DEF StartFails
      <4> QED
        BY ONLY <4>1 DEF StartsAreAlone
    <3>2. tickingPolls # {} /\ ~attackMounted => left
      OBVIOUS
    <3> QED
      BY <1>4, <3>1, <3>2 DEF StartFails
  <2>3. StartsAreAlone'
    BY <1>4 DEF StartFails
  <2>4. StartsAreKnown'
    BY <1>4 DEF StartFails
  <2> QED
    BY <2>1, <2>2, <2>3, <2>4
<1>5. CASE StopAttack \/ UNCHANGED attackVars
  <2>1. AttackPageOK'
    <3>1. CASE StopAttack
      BY <3>1 DEF StopAttack
    <3>2. CASE UNCHANGED attackVars
      BY <3>2 DEF attackVars
    <3> QED
      BY <1>5, <3>1, <3>2
  <2>2. PollingIsTracked'
    <3>1. UNCHANGED <<tickingPolls, pollingInterval, attackMounted, running, crossed, left>>
      BY ONLY <1>5 DEF StopAttack, attackVars
    <3> QED
      BY ONLY <3>1, PollingIsTracked DEF PollingIsTracked
  <2>3. StartsAreAlone'
    <3>1. UNCHANGED <<generating, starting, running, crossed, tickingPolls>>
      BY ONLY <1>5 DEF StopAttack, attackVars
    <3> QED
      BY ONLY <3>1, StartsAreAlone DEF StartsAreAlone
  <2>4. StartsAreKnown'
    <3>1. UNCHANGED <<generating, starting, attackMounted, left>>
      BY ONLY <1>5 DEF StopAttack, attackVars
    <3> QED
      BY ONLY <3>1, StartsAreKnown DEF StartsAreKnown
  <2> QED
    BY <2>1, <2>2, <2>3, <2>4
<1>6. CASE AttackStopped
  <2>1. AttackPageOK'
    BY <1>6 DEF AttackStopped, StopPolling
  <2>2. PollingIsTracked'
    BY <1>6 DEF AttackStopped, StopPolling
  <2>3. StartsAreAlone'
    BY <1>6 DEF AttackStopped, StopPolling
  <2>4. StartsAreKnown'
    BY <1>6 DEF AttackStopped, StopPolling
  <2> QED
    BY <2>1, <2>2, <2>3, <2>4
<1>7. CASE LeavePage
  <2>1. AttackPageOK'
    BY <1>7 DEF LeavePage, StopPolling
  <2>2. PollingIsTracked'
    BY <1>7 DEF LeavePage, StopPolling
  <2>3. StartsAreAlone'
    BY <1>7 DEF LeavePage, StopPolling
  <2>4. StartsAreKnown'
    BY <1>7 DEF LeavePage, StopPolling
  <2> QED
    BY <2>1, <2>2, <2>3, <2>4
<1> QED
  BY <1>1, <1>2, <1>3, <1>4, <1>5, <1>6, <1>7 DEF AttackPageNext

----------------------------------------------------------------------------
\* The page of a scan

\* A start under way was counted, and is remembered when the page is left.
StartIsKnown == startCall # "none" => scans > 0 /\ (scanMounted \/ leftStarting)

ScanInv == ScanPageOK /\ StatsArePolledOnce /\ StartIsKnown

ScanFlags ==
    scanMounted \in BOOLEAN /\ scanLoading \in BOOLEAN /\ isRunning \in BOOLEAN /\ leftStarting \in BOOLEAN

LEMMA ScanInitial == ScanPageInit => ScanInv
<1>1. ScanPageInit => ScanFlags
  BY DEF ScanPageInit, ScanFlags
<1> QED
  BY <1>1, ScanPageAssumption
     DEF ScanFlags, ScanPageInit, ScanInv, ScanPageOK, StatsArePolledOnce, StartIsKnown

\* An interval that ticks is the one the page holds, but for a start that a leaving met.
LEMMA ScanStep ==
    ASSUME ScanInv, [ScanPageNext]_scanVars
    PROVE  ScanInv'
<1>0. ScanFlags'
  BY DEF ScanFlags, ScanPageNext, StartScan, ScanStarted, ScanRefused, StartScanPolling, FetchStats,
         StatsFetched, StopScan, ScanStopped, StopScanEnds, LeaveScan, Told, scanVars, ScanInv, ScanPageOK
<1> USE <1>0, ScanPageAssumption DEF ScanFlags, ScanInv, ScanPageOK, StatsArePolledOnce, StartIsKnown, scanIntervals
<1>1. CASE StartScan
  BY <1>1 DEF StartScan
<1>2. CASE ScanStarted \/ ScanRefused
  BY <1>2 DEF ScanStarted, ScanRefused
<1>3. CASE StartScanPolling
  BY <1>3 DEF StartScanPolling, Told
<1>4. CASE FetchStats \/ StopScan \/ ScanStopped \/ UNCHANGED scanVars
  <2>1. ScanPageOK'
    <3>1. CASE FetchStats
      BY <3>1 DEF FetchStats
    <3>2. CASE StopScan
      BY <3>2 DEF StopScan
    <3>3. CASE ScanStopped
      BY <3>3 DEF ScanStopped
    <3>4. CASE UNCHANGED scanVars
      BY <3>4 DEF scanVars
    <3> QED
      BY <1>4, <3>1, <3>2, <3>3, <3>4
  <2>2. StatsArePolledOnce'
    BY <1>4 DEF FetchStats, StopScan, ScanStopped, scanVars
  <2>3. StartIsKnown'
    BY <1>4 DEF FetchStats, StopScan, ScanStopped, scanVars
  <2> QED
    BY <2>1, <2>2, <2>3
<1>5. CASE StatsFetched
  BY <1>5 DEF StatsFetched, Told
<1>6. CASE StopScanEnds
  BY <1>6 DEF StopScanEnds, StopScanPolling, Told
<1>7. CASE LeaveScan
  <2>1. ScanPageOK'
    BY <1>7 DEF LeaveScan, StopScanPolling
  <2>2. StatsArePolledOnce'
    BY <1>7 DEF LeaveScan, StopScanPolling
  <2>3. StartIsKnown'
    BY <1>7 DEF LeaveScan, StopScanPolling
  <2> QED
    BY <2>1, <2>2, <2>3
<1> QED
  BY <1>1, <1>2, <1>3, <1>4, <1>5, <1>6, <1>7 DEF ScanPageNext

----------------------------------------------------------------------------
\* The desktop's list of traffic

ViewFlags == viewMounted \in BOOLEAN /\ hasItems \in BOOLEAN /\ isPaused \in BOOLEAN
ViewCounts ==
    /\ pauses \in 0..MaxPauses /\ fetching \in 0..MaxFetching
    /\ intervalId \in 0..(1 + pauses) /\ tickingLists \subseteq 1..(1 + pauses)
ViewLists == ViewFlags /\ ViewCounts /\ ListIsPolledOnce

LEMMA ViewListsInitial == TrafficViewInit => ViewLists
<1> SUFFICES ASSUME TrafficViewInit PROVE ViewLists
  OBVIOUS
<1>1. ViewFlags
  BY DEF TrafficViewInit, ViewFlags
<1>2. ViewCounts
  BY TrafficViewAssumption DEF TrafficViewInit, ViewCounts
<1>3. ListIsPolledOnce
  BY DEF TrafficViewInit, ListIsPolledOnce
<1> QED
  BY <1>1, <1>2, <1>3 DEF ViewLists

\* The lists are polled by one interval at most.
LEMMA ViewListsStep ==
    ASSUME ViewLists, [TrafficViewNext]_viewVars
    PROVE  ViewLists'
<1>0. ViewFlags'
  BY DEF ViewFlags, ViewLists, TrafficViewNext, FetchTraffic, TrafficFetched, ClearShown, SelectRequest,
         DetailsFetched, DetailsFail, CloseDetails, TogglePause, SendToIntruder, OpenOtherTab, LeaveView,
         viewVars, viewListVars
<1> USE <1>0, TrafficViewAssumption DEF ViewLists
<1>1. CASE FetchTraffic \/ TrafficFetched
  <2>1. UNCHANGED <<viewMounted, tickingLists, isPaused, intervalId>>
    BY ONLY <1>1 DEF FetchTraffic, TrafficFetched
  <2>2. ListIsPolledOnce'
    BY <2>1 DEF ListIsPolledOnce
  <2>3. UNCHANGED pauses /\ fetching' \in 0..MaxFetching
    BY <1>1 DEF FetchTraffic, TrafficFetched, ViewCounts
  <2>4. ViewCounts'
    BY <2>1, <2>3 DEF ViewCounts
  <2> QED
    BY <2>2, <2>4
<1>2. CASE TogglePause
  <2>1. ViewCounts'
    <3>1. pauses' = pauses + 1 /\ pauses < MaxPauses /\ UNCHANGED fetching
          /\ tickingLists' \subseteq tickingLists \cup {pauses' + 1} /\ intervalId' \in {intervalId, pauses' + 1}
      BY <1>2 DEF TogglePause
    <3> QED
      BY ONLY <3>1, ViewCounts, TrafficViewAssumption DEF ViewCounts
  <2>2. CASE isPaused
    <3>1. tickingLists = {}
      BY <2>2 DEF ListIsPolledOnce
    <3>2. viewMounted' /\ ~isPaused' /\ tickingLists' = {intervalId'}
      BY <1>2, <2>2, <3>1 DEF TogglePause, ViewFlags
    <3> QED
      BY <2>1, <3>2 DEF ListIsPolledOnce
  <2>3. CASE ~isPaused
    <3>1. tickingLists = {intervalId}
      BY <1>2, <2>3 DEF ListIsPolledOnce, TogglePause
    <3>2. isPaused' /\ tickingLists' = {}
      BY <1>2, <2>3, <3>1 DEF TogglePause, ViewFlags
    <3> QED
      BY <2>1, <3>2 DEF ListIsPolledOnce
  <2> QED
    BY <2>2, <2>3
<1>3. CASE LeaveView
  <2>1. tickingLists' = {} /\ ~viewMounted'
    BY <1>3 DEF LeaveView, ListIsPolledOnce
  <2>2. UNCHANGED <<pauses, fetching, intervalId>>
    BY <1>3 DEF LeaveView
  <2> QED
    BY <2>1, <2>2 DEF ViewCounts, ListIsPolledOnce
<1>4. CASE UNCHANGED <<viewMounted, intervalId, tickingLists, isPaused, pauses, fetching>>
  BY <1>4 DEF ViewCounts, ListIsPolledOnce
<1>5. \/ FetchTraffic \/ TrafficFetched \/ TogglePause \/ LeaveView
      \/ UNCHANGED <<viewMounted, intervalId, tickingLists, isPaused, pauses, fetching>>
  BY DEF TrafficViewNext, ClearShown, SelectRequest, DetailsFetched, DetailsFail, CloseDetails,
         SendToIntruder, OpenOtherTab, viewVars, viewListVars
<1> QED
  BY <1>1, <1>2, <1>3, <1>4, <1>5

\* The details of the last selection, under way, are of the row that is selected.
LastIsSelected ==
    \A n \in DOMAIN details : details[n].of = selections => selectedId \in {details[n].id, NoId}
DetailTypes ==
    /\ selectedId \in Captured \cup {NoId} /\ selectedRequest \in Captured \cup {NoId}
    /\ selections \in 0..MaxSelections /\ answered \in 0..selections
    /\ details \in Seq([id : Captured, of : 1..selections])
TemplateOK == template \in [id : Captured \cup {NoId}, selected : Captured \cup {NoId}, fresh : BOOLEAN]
AnswerIsSelected == answered = selections /\ selectedRequest # NoId => selectedId \in {selectedRequest, NoId}
TemplateIsSelected == template.fresh => template.selected \in {template.id, NoId}

ViewDetails == DetailTypes /\ LastIsSelected /\ AnswerIsSelected
ViewTemplate == TemplateOK /\ TemplateIsSelected

LEMMA ViewDetailsInitial == TrafficViewInit => ViewDetails /\ ViewTemplate
<1> SUFFICES ASSUME TrafficViewInit PROVE ViewDetails /\ ViewTemplate
  OBVIOUS
<1>1. DetailTypes
  BY TrafficViewAssumption DEF TrafficViewInit, DetailTypes
<1>2. LastIsSelected
  BY DEF TrafficViewInit, LastIsSelected
<1>3. AnswerIsSelected
  BY DEF TrafficViewInit, AnswerIsSelected
<1>4. template = [id |-> NoId, selected |-> NoId, fresh |-> TRUE]
  BY DEF TrafficViewInit
<1>5. TemplateOK /\ TemplateIsSelected
  BY <1>4 DEF TemplateOK, TemplateIsSelected
<1> QED
  BY <1>1, <1>2, <1>3, <1>5 DEF ViewDetails, ViewTemplate

\* Details that came last for what was selected last are its own.
LEMMA ViewDetailsStep ==
    ASSUME ViewDetails, [TrafficViewNext]_viewVars
    PROVE  ViewDetails'
<1> DEFINE T == [id : Captured, of : 1..selections]
<1>0. details \in Seq(T) /\ selections \in Nat /\ answered \in 0..selections
  BY TrafficViewAssumption DEF ViewDetails, DetailTypes
<1>1. ASSUME NEW id \in Captured, SelectRequest(id) PROVE ViewDetails'
  <2> DEFINE U == [id : Captured, of : 1..(selections + 1)]
             e == [id |-> id, of |-> selections + 1]
  <2>1. /\ selections' = selections + 1 /\ selectedId' = id /\ selectedRequest' = NoId
        /\ details' = Append(details, e) /\ answered' = answered /\ selections < MaxSelections
    BY <1>1 DEF SelectRequest
  <2>2. T \subseteq U /\ e \in U /\ e.id = id /\ e.of = selections + 1
    BY <1>0
  <2>3. details \in Seq(U)
    BY <1>0, <2>2, SeqMonotonic
  <2>4. \A n \in DOMAIN details : details[n].of # selections + 1
    <3> SUFFICES ASSUME NEW n \in DOMAIN details PROVE details[n].of # selections + 1
      OBVIOUS
    <3> HIDE DEF T
    <3>1. details[n] \in T
      BY <1>0
    <3>2. details[n].of \in 1..selections
      BY <3>1 DEF T
    <3> QED
      BY <1>0, <3>2
  <2> HIDE DEF U, e, T
  <2>5. details' \in Seq(U) /\ \A i \in DOMAIN details' :
            \/ i \in DOMAIN details /\ details'[i] = details[i]
            \/ details'[i] = e
    BY <2>1, <2>2, <2>3, Appended
  <2>6. LastIsSelected'
    BY <2>1, <2>2, <2>4, <2>5 DEF LastIsSelected
  <2>7. AnswerIsSelected'
    BY <2>1 DEF AnswerIsSelected
  <2>8. DetailTypes'
    BY <1>0, <2>1, <2>5, TrafficViewAssumption DEF DetailTypes, U
  <2> QED
    BY <2>6, <2>7, <2>8 DEF ViewDetails
<1>2. ASSUME NEW n \in DOMAIN details, details' = RemoveAt(details, n),
             UNCHANGED <<selectedId, selections>>,
             \/ selectedRequest' = details[n].id /\ answered' = details[n].of
             \/ UNCHANGED <<selectedRequest, answered>>
      PROVE  ViewDetails'
  <2> HIDE DEF T
  <2>1. /\ details' \in Seq(T)
        /\ \A i \in DOMAIN details' : \E j \in DOMAIN details : details'[i] = details[j]
    BY <1>0, <1>2, Removed
  <2>2. LastIsSelected'
    BY <1>2, <2>1 DEF LastIsSelected, ViewDetails
  <2>3. details[n] \in T
    BY <1>0
  <2>4. details[n].id \in Captured /\ details[n].of \in 1..selections
    BY <2>3 DEF T
  <2>5. CASE UNCHANGED <<selectedRequest, answered>>
    <3>1. AnswerIsSelected'
      BY <1>2, <2>5 DEF AnswerIsSelected, ViewDetails
    <3>2. DetailTypes'
      BY <1>2, <2>1, <2>5 DEF DetailTypes, ViewDetails, T
    <3> QED
      BY <2>2, <3>1, <3>2 DEF ViewDetails
  <2>6. CASE selectedRequest' = details[n].id /\ answered' = details[n].of
    <3>1. AnswerIsSelected'
      BY <1>2, <2>6 DEF AnswerIsSelected, LastIsSelected, ViewDetails
    <3>2. DetailTypes'
      BY <1>0, <1>2, <2>1, <2>4, <2>6 DEF DetailTypes, ViewDetails, T
    <3> QED
      BY <2>2, <3>1, <3>2 DEF ViewDetails
  <2> QED
    BY <1>2, <2>5, <2>6
<1>3. CASE /\ UNCHANGED <<details, selections, answered>>
           /\ selectedId' = NoId /\ selectedRequest' \in {NoId, selectedRequest}
  BY <1>3 DEF ViewDetails, DetailTypes, LastIsSelected, AnswerIsSelected
<1>4. CASE UNCHANGED detailVars
  BY <1>4 DEF detailVars, ViewDetails, DetailTypes, LastIsSelected, AnswerIsSelected
<1> QED
  <2>1. CASE \E id \in Captured : SelectRequest(id)
    BY <1>1, <2>1
  <2>2. CASE \E n \in 1..MaxSelections : DetailsFetched(n) \/ DetailsFail(n)
    BY <1>2, <2>2 DEF DetailsFetched, DetailsFail
  <2>3. CASE ClearShown \/ CloseDetails
    BY <1>3, <2>3 DEF ClearShown, CloseDetails
  <2>4. CASE FetchTraffic \/ TrafficFetched \/ TogglePause \/ SendToIntruder \/ OpenOtherTab \/ UNCHANGED viewVars
    BY <1>4, <2>4 DEF FetchTraffic, TrafficFetched, TogglePause, SendToIntruder, OpenOtherTab, LeaveView,
                      viewVars
  <2> QED
    BY <2>1, <2>2, <2>3, <2>4 DEF TrafficViewNext

\* So is the template that was filled from them.
LEMMA ViewTemplateStep ==
    ASSUME ViewDetails, ViewTemplate, [TrafficViewNext]_viewVars
    PROVE  ViewTemplate'
<1>1. CASE SendToIntruder
  <2> DEFINE fresh == answered = selections
  <2>1. template' = [id |-> selectedRequest, selected |-> selectedId, fresh |-> fresh]
        /\ selectedRequest # NoId
    BY <1>1 DEF SendToIntruder
  <2>2. fresh \in BOOLEAN
    OBVIOUS
  <2>3. selectedRequest \in Captured \cup {NoId} /\ selectedId \in Captured \cup {NoId}
    BY DEF ViewDetails, DetailTypes
  <2>4. fresh => selectedId \in {selectedRequest, NoId}
    BY <2>1 DEF ViewDetails, AnswerIsSelected
  <2> HIDE DEF fresh
  <2>5. TemplateOK'
    BY <2>1, <2>2, <2>3 DEF TemplateOK
  <2>6. template'.fresh = fresh /\ template'.id = selectedRequest /\ template'.selected = selectedId
    BY <2>1
  <2>7. TemplateIsSelected'
    BY <2>4, <2>6 DEF TemplateIsSelected
  <2> QED
    BY <2>5, <2>7 DEF ViewTemplate
<1>2. CASE UNCHANGED template
  BY <1>2 DEF ViewTemplate, TemplateOK, TemplateIsSelected
<1>3. SendToIntruder \/ UNCHANGED template
  BY DEF TrafficViewNext, FetchTraffic, TrafficFetched, ClearShown, SelectRequest, DetailsFetched,
         DetailsFail, CloseDetails, TogglePause, OpenOtherTab, viewVars
<1> QED
  BY <1>1, <1>2, <1>3

ViewInv == ViewLists /\ ViewDetails /\ ViewTemplate

\* What the invariant says in the words of the properties.
LEMMA ViewMeans == ViewInv => TrafficViewOK /\ ListIsPolledOnce /\ DetailsAreSelected
<1> SUFFICES ASSUME ViewInv PROVE TrafficViewOK /\ ListIsPolledOnce /\ DetailsAreSelected
  OBVIOUS
<1>1. DetailsAreSelected
  BY DEF ViewInv, ViewDetails, ViewTemplate, AnswerIsSelected, TemplateIsSelected, DetailsAreSelected
<1>2. ListIsPolledOnce
  BY DEF ViewInv, ViewLists
<1>3. TrafficViewOK
  BY DEF ViewInv, ViewLists, ViewFlags, ViewCounts, ViewDetails, DetailTypes, ViewTemplate, TemplateOK,
         TrafficViewOK
<1> QED
  BY <1>1, <1>2, <1>3

----------------------------------------------------------------------------
\* The desktop's page of frames

FrameFlags ==
    /\ framesMounted \in BOOLEAN /\ loadingFirst \in BOOLEAN /\ framesInterval \in BOOLEAN
    /\ tickingFrames \in BOOLEAN /\ leftLoading \in BOOLEAN /\ clearingFrames \in BOOLEAN
\* A first list still to come is remembered when the page is left.
FirstIsKnown == loadingFirst => framesMounted \/ leftLoading
FrameIntervals == FrameFlags /\ connectionPolls \in 0..MaxPolls /\ FramesArePolledOnce /\ FirstIsKnown

LEMMA FrameIntervalsInitial == FramesViewInit => FrameIntervals
<1> SUFFICES ASSUME FramesViewInit PROVE FrameIntervals
  OBVIOUS
<1>1. FrameFlags
  BY DEF FramesViewInit, FrameFlags
<1>2. connectionPolls \in 0..MaxPolls
  BY FramesViewAssumption DEF FramesViewInit
<1>3. FramesArePolledOnce /\ FirstIsKnown
  BY DEF FramesViewInit, FramesArePolledOnce, FirstIsKnown
<1> QED
  BY <1>1, <1>2, <1>3 DEF FrameIntervals

\* The connections are polled by one interval at most.
LEMMA FrameIntervalsStep ==
    ASSUME FrameIntervals, [FramesViewNext]_framesVars
    PROVE  FrameIntervals'
<1>0. FrameFlags'
  <2>1. \/ UNCHANGED tickingFrames \/ tickingFrames' = TRUE
        \/ tickingFrames' = (tickingFrames /\ ~framesInterval)
    BY DEF FramesViewNext, FirstConnections, PollConnections, PollFrames, SelectConnection, FramesLoaded,
           FramesFail, ClearAll, Cleared, LeaveFrames, framesVars, intervalVars
  <2>2. tickingFrames' \in BOOLEAN
    BY <2>1 DEF FrameIntervals, FrameFlags
  <2>3. (FrameFlags /\ tickingFrames' \in BOOLEAN => FrameFlags')
    BY DEF FrameFlags, FramesViewNext, FirstConnections, PollConnections, PollFrames, SelectConnection,
           FramesLoaded, FramesFail, ClearAll, Cleared, LeaveFrames, framesVars, intervalVars
  <2> QED
    BY <2>2, <2>3 DEF FrameIntervals
<1>1. CASE FirstConnections
  <2>1. framesInterval' /\ tickingFrames' /\ ~loadingFirst' /\ loadingFirst
        /\ UNCHANGED <<framesMounted, leftLoading, connectionPolls>>
    BY ONLY <1>1 DEF FirstConnections
  <2>2. framesMounted \/ leftLoading
    BY <2>1 DEF FrameIntervals, FirstIsKnown
  <2> QED
    BY <1>0, <2>1, <2>2 DEF FrameIntervals, FrameFlags, FramesArePolledOnce, FirstIsKnown
<1>2. CASE LeaveFrames
  <2>1. ~framesMounted' /\ ~framesInterval' /\ tickingFrames' = (tickingFrames /\ ~framesInterval)
        /\ leftLoading' = loadingFirst /\ UNCHANGED <<loadingFirst, connectionPolls>>
    BY ONLY <1>2 DEF LeaveFrames
  <2>2. tickingFrames = framesInterval
    BY DEF FrameIntervals, FramesArePolledOnce
  <2>3. ~tickingFrames'
    BY <2>1, <2>2 DEF FrameIntervals, FrameFlags
  <2> QED
    BY <1>0, <2>1, <2>3 DEF FrameIntervals, FrameFlags, FramesArePolledOnce, FirstIsKnown
<1>3. CASE UNCHANGED intervalVars
  <2>1. FramesArePolledOnce' /\ FirstIsKnown'
    BY <1>3 DEF intervalVars, FrameIntervals, FramesArePolledOnce, FirstIsKnown
  <2>2. \/ UNCHANGED connectionPolls
        \/ connectionPolls < MaxPolls /\ connectionPolls' = connectionPolls + 1
        \/ connectionPolls > 0 /\ connectionPolls' = connectionPolls - 1
    BY DEF FramesViewNext, FirstConnections, PollConnections, PollFrames, SelectConnection,
           FramesLoaded, FramesFail, ClearAll, Cleared, LeaveFrames, framesVars
  <2>3. connectionPolls' \in 0..MaxPolls
    BY <2>2, FramesViewAssumption DEF FrameIntervals
  <2> QED
    BY <1>0, <2>1, <2>3 DEF FrameIntervals
<1> QED
  BY <1>1, <1>2, <1>3 DEF FramesViewNext, PollConnections, PollFrames, SelectConnection, FramesLoaded,
     FramesFail, ClearAll, Cleared, framesVars

\* The frames of the last request, under way, are of the connection that is selected.
LastIsOfSelected ==
    \A n \in DOMAIN framesAsked :
        framesAsked[n].number = askedFrames => selectedConnectionId \in {framesAsked[n].of, NoConnection}
FrameTypes ==
    /\ selectedConnectionId \in Connections \cup {NoConnection} /\ frames \in Connections \cup {NoConnection}
    /\ askedFrames \in 0..MaxFrameRequests /\ answeredFrames \in 0..askedFrames
    /\ framesAsked \in Seq([of : Connections, number : 1..askedFrames])
FrameAnswers == FrameTypes /\ LastIsOfSelected /\ FramesAreSelected

LEMMA FrameAnswersInitial == FramesViewInit => FrameAnswers
<1> SUFFICES ASSUME FramesViewInit PROVE FrameAnswers
  OBVIOUS
<1>1. FrameTypes
  BY FramesViewAssumption DEF FramesViewInit, FrameTypes
<1>2. LastIsOfSelected
  BY DEF FramesViewInit, LastIsOfSelected
<1>3. FramesAreSelected
  BY DEF FramesViewInit, FramesAreSelected
<1> QED
  BY <1>1, <1>2, <1>3 DEF FrameAnswers

\* Frames that came last for what was selected last are its own.
LEMMA FrameAnswersStep ==
    ASSUME FrameAnswers, [FramesViewNext]_framesVars
    PROVE  FrameAnswers'
<1> DEFINE T == [of : Connections, number : 1..askedFrames]
<1>0. framesAsked \in Seq(T) /\ askedFrames \in Nat /\ answeredFrames \in 0..askedFrames
  BY FramesViewAssumption DEF FrameAnswers, FrameTypes
<1> HIDE DEF T
<1>1. ASSUME NEW id \in Connections, LoadFrames(id), selectedConnectionId' = id PROVE FrameAnswers'
  <2> DEFINE U == [of : Connections, number : 1..(askedFrames + 1)]
             e == [of |-> id, number |-> askedFrames + 1]
  <2>1. /\ askedFrames' = askedFrames + 1 /\ askedFrames < MaxFrameRequests
        /\ framesAsked' = Append(framesAsked, e) /\ frames' = frames /\ answeredFrames' = answeredFrames
    BY <1>1 DEF LoadFrames
  <2>2. T \subseteq U /\ e \in U /\ e.of = id /\ e.number = askedFrames + 1
    BY <1>0 DEF T
  <2>3. framesAsked \in Seq(U)
    BY <1>0, <2>2, SeqMonotonic
  <2>4. ASSUME NEW n \in DOMAIN framesAsked PROVE framesAsked[n].number # askedFrames + 1
    <3>1. framesAsked[n] \in T
      BY <1>0
    <3>2. framesAsked[n].number \in 1..askedFrames
      BY <3>1 DEF T
    <3> QED
      BY <1>0, <3>2
  <2> HIDE DEF U, e
  <2>5. framesAsked' \in Seq(U) /\ \A i \in DOMAIN framesAsked' :
            \/ i \in DOMAIN framesAsked /\ framesAsked'[i] = framesAsked[i]
            \/ framesAsked'[i] = e
    BY <2>1, <2>2, <2>3, Appended
  <2>6. LastIsOfSelected'
    BY <1>1, <2>1, <2>2, <2>4, <2>5 DEF LastIsOfSelected
  <2>7. FramesAreSelected'
    <3>1. answeredFrames' # askedFrames'
      BY <1>0, <2>1
    <3> QED
      BY <3>1 DEF FramesAreSelected
  <2>8. FrameTypes'
    BY <1>0, <1>1, <2>1, <2>5, FramesViewAssumption DEF FrameTypes, FrameAnswers, U
  <2> QED
    BY <2>6, <2>7, <2>8 DEF FrameAnswers
<1>2. ASSUME NEW n \in DOMAIN framesAsked, framesAsked' = RemoveAt(framesAsked, n),
             UNCHANGED <<selectedConnectionId, askedFrames>>,
             \/ frames' = framesAsked[n].of /\ answeredFrames' = framesAsked[n].number
             \/ UNCHANGED <<frames, answeredFrames>>
      PROVE  FrameAnswers'
  <2>1. /\ framesAsked' \in Seq(T)
        /\ \A i \in DOMAIN framesAsked' : \E j \in DOMAIN framesAsked : framesAsked'[i] = framesAsked[j]
    BY <1>0, <1>2, Removed
  <2>2. LastIsOfSelected'
    BY <1>2, <2>1 DEF LastIsOfSelected, FrameAnswers
  <2>3. framesAsked[n] \in T
    BY <1>0, <1>2
  <2>4. framesAsked[n].of \in Connections /\ framesAsked[n].number \in 1..askedFrames
    BY <2>3 DEF T
  <2>5. CASE UNCHANGED <<frames, answeredFrames>>
    <3>1. FramesAreSelected'
      BY <1>2, <2>5 DEF FramesAreSelected, FrameAnswers
    <3>2. FrameTypes'
      BY <1>2, <2>1, <2>5 DEF FrameTypes, FrameAnswers, T
    <3> QED
      BY <2>2, <3>1, <3>2 DEF FrameAnswers
  <2>6. CASE frames' = framesAsked[n].of /\ answeredFrames' = framesAsked[n].number
    <3>1. FramesAreSelected'
      BY <1>2, <2>6 DEF FramesAreSelected, LastIsOfSelected, FrameAnswers
    <3>2. FrameTypes'
      BY <1>0, <1>2, <2>1, <2>4, <2>6 DEF FrameTypes, FrameAnswers, T
    <3> QED
      BY <2>2, <3>1, <3>2 DEF FrameAnswers
  <2> QED
    BY <1>2, <2>5, <2>6
<1>3. CASE /\ frames' = NoConnection /\ selectedConnectionId' = NoConnection
           /\ UNCHANGED <<framesAsked, askedFrames, answeredFrames>>
  BY <1>3 DEF FrameAnswers, FrameTypes, LastIsOfSelected, FramesAreSelected
<1>4. CASE UNCHANGED frameVars
  BY <1>4 DEF frameVars, FrameAnswers, FrameTypes, LastIsOfSelected, FramesAreSelected
<1>5. CASE PollFrames
  <2>1. CASE selectedConnectionId = NoConnection
    BY <1>4, <1>5, <2>1 DEF PollFrames
  <2>2. CASE selectedConnectionId # NoConnection
    <3>1. selectedConnectionId \in Connections
      BY <2>2 DEF FrameAnswers, FrameTypes
    <3> QED
      BY <1>1, <1>5, <2>2, <3>1 DEF PollFrames
  <2> QED
    BY <2>1, <2>2
<1> QED
  <2>1. CASE \E id \in Connections : SelectConnection(id)
    BY <1>1, <2>1 DEF SelectConnection
  <2>2. CASE \E n \in 1..MaxFrameRequests : FramesLoaded(n) \/ FramesFail(n)
    BY <1>2, <2>2 DEF FramesLoaded, FramesFail
  <2>3. CASE Cleared
    BY <1>3, <1>4, <2>3 DEF Cleared
  <2>4. CASE FirstConnections \/ PollConnections \/ ClearAll \/ LeaveFrames \/ UNCHANGED framesVars
    BY <1>4, <2>4 DEF FirstConnections, PollConnections, ClearAll, LeaveFrames, framesVars
  <2> QED
    BY <1>5, <2>1, <2>2, <2>3, <2>4 DEF FramesViewNext

\* What the invariants say in the words of the properties.
LEMMA FramesMean ==
    FrameIntervals /\ FrameAnswers => FramesViewOK /\ FramesArePolledOnce /\ FramesAreSelected
<1> SUFFICES ASSUME FrameIntervals, FrameAnswers
             PROVE FramesViewOK /\ FramesArePolledOnce /\ FramesAreSelected
  OBVIOUS
<1>1. FramesArePolledOnce /\ FramesAreSelected
  BY DEF FrameIntervals, FrameAnswers
<1>2. FramesViewOK
  BY DEF FrameIntervals, FrameFlags, FrameAnswers, FrameTypes, FramesViewOK
<1> QED
  BY <1>1, <1>2
=============================================================================
