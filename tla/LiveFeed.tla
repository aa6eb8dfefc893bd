------------------------------ MODULE LiveFeed ------------------------------
(***************************************************************************)
(* The live feed (api/src/websocket.rs): every browser on /ws has a task   *)
(* that takes the exchanges of RequestCapture from its receiver and sends  *)
(* them, one at a time.  The broadcast channel keeps the last ChannelSize  *)
(* exchanges; a receiver that is further behind is told so once and goes   *)
(* on with the oldest that is left.                                        *)
(***************************************************************************)
EXTENDS Integers, Sequences, SequencesExt

CONSTANTS
    Browsers,
    ChannelSize,    \* 1024
    MaxAnnounced    \* bound: exchanges announced

ASSUME FeedAssumption == ChannelSize \in Nat \ {0} /\ MaxAnnounced \in Nat

VARIABLES
    announcements,  \* exchanges announced so far: the number of the last
    socket,         \* per browser: what its task is at
    cursor,         \* the next exchange its receiver takes
    sending,        \* what it is sending
    got,            \* what the browser was sent
    since, skipped  \* history: the last exchange before it came, those it lagged behind

feedVars == <<announcements, socket, cursor, sending, got, since, skipped>>

FeedOK ==
    /\ announcements \in 0..MaxAnnounced
    /\ socket \in [Browsers -> {"new", "hello", "recv", "send", "closed"}]
    /\ \A b \in Browsers : got[b] \in Seq(1..announcements) /\ cursor[b] \in 0..(announcements + 1)

----------------------------------------------------------------------------
\* PushAnnounce of Capture.
Announce ==
    /\ announcements < MaxAnnounced
    /\ announcements' = announcements + 1
    /\ UNCHANGED <<socket, cursor, sending, got, since, skipped>>

\* The oldest exchange that the channel still has.
Oldest == IF announcements > ChannelSize THEN announcements - ChannelSize + 1 ELSE 1

\* ws_route: the receiver is there before the connection is upgraded.
Subscribe(b) ==
    /\ socket[b] = "new"
    /\ socket' = [socket EXCEPT ![b] = "hello"]
    /\ cursor' = [cursor EXCEPT ![b] = announcements + 1]
    /\ since' = [since EXCEPT ![b] = announcements]
    /\ UNCHANGED <<announcements, sending, got, skipped>>

Welcome(b) ==
    /\ socket[b] = "hello"
    /\ socket' = [socket EXCEPT ![b] = "recv"]
    /\ UNCHANGED <<announcements, cursor, sending, got, since, skipped>>

\* RecvError::Lagged: nothing is said to the browser.
Lag(b) ==
    /\ socket[b] = "recv" /\ cursor[b] < Oldest
    /\ cursor' = [cursor EXCEPT ![b] = Oldest]
    /\ skipped' = [skipped EXCEPT ![b] = @ \cup cursor[b]..(Oldest - 1)]
    /\ UNCHANGED <<announcements, socket, sending, got, since>>

\* Mutant: the receiver is given what has taken the place of a lost exchange.
ReceiveOverwritten(b) ==
    /\ socket[b] = "recv" /\ cursor[b] <= announcements
    /\ socket' = [socket EXCEPT ![b] = "send"]
    /\ sending' = [sending EXCEPT ![b] =
                      IF cursor[b] < Oldest THEN cursor[b] + ChannelSize ELSE cursor[b]]
    /\ cursor' = [cursor EXCEPT ![b] = @ + 1]
    /\ UNCHANGED <<announcements, got, since, skipped>>

Receive(b) ==
    /\ socket[b] = "recv" /\ cursor[b] \in Oldest..announcements
    /\ socket' = [socket EXCEPT ![b] = "send"]
    /\ sending' = [sending EXCEPT ![b] = cursor[b]]
    /\ cursor' = [cursor EXCEPT ![b] = @ + 1]
    /\ UNCHANGED <<announcements, got, since, skipped>>

\* send returns: at its leisure, so that the browser may be far behind.
Sent(b) ==
    /\ socket[b] = "send"
    /\ socket' = [socket EXCEPT ![b] = "recv"]
    /\ got' = [got EXCEPT ![b] = Append(@, sending[b])]
    /\ UNCHANGED <<announcements, cursor, sending, since, skipped>>

\* A browser that has gone is noticed when something is sent to it.
SendFails(b) ==
    /\ socket[b] \in {"hello", "send"}
    /\ socket' = [socket EXCEPT ![b] = "closed"]
    /\ UNCHANGED <<announcements, cursor, sending, got, since, skipped>>

FeedInit ==
    /\ announcements = 0
    /\ socket = [b \in Browsers |-> "new"]
    /\ cursor = [b \in Browsers |-> 0] /\ sending = cursor /\ since = cursor
    /\ got = [b \in Browsers |-> <<>>]
    /\ skipped = [b \in Browsers |-> {}]

FeedNext ==
    \/ Announce
    \/ \E b \in Browsers :
        Subscribe(b) \/ Welcome(b) \/ Lag(b) \/ Receive(b) \/ Sent(b) \/ SendFails(b)

FeedSpec == FeedInit /\ [][FeedNext]_feedVars

----------------------------------------------------------------------------
\* Property

\* A browser has every exchange since it subscribed exactly once and in order, but
\* for the one on its way and those that were ChannelSize exchanges old before
\* the browser took the one before (websocket.rs:34, 48).
FeedIsComplete ==
    \A b \in Browsers : socket[b] \in {"recv", "send"} =>
        LET had == got[b] \o IF socket[b] = "send" THEN <<sending[b]>> ELSE <<>>
        IN  /\ \A n \in 1..(Len(had) - 1) : had[n] < had[n + 1]
            /\ ToSet(had) = ((since[b] + 1)..(cursor[b] - 1)) \ skipped[b]
            /\ \A lost \in skipped[b] : lost + ChannelSize <= announcements
=============================================================================
