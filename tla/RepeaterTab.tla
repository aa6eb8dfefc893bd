---------------------------- MODULE RepeaterTab ----------------------------
(***************************************************************************)
(* The repeater (ui/src/components/RepeaterTab.vue): replays an edited     *)
(* request and keeps the last answers in the browser's local storage.      *)
(* Each time the page of traffic is opened a new instance reads the        *)
(* storage; an answer that an older one awaited still comes, and that one  *)
(* writes the history as it knows it.                                      *)
(***************************************************************************)
EXTENDS Integers, Sequences, SequencesExt

CONSTANTS
    MaxInstances,   \* bound: times the tab is mounted
    MaxReplays,     \* bound: replays sent
    MaxHistory      \* 10

ASSUME RepeaterAssumption ==
    MaxInstances \in Nat \ {0} /\ MaxReplays \in Nat /\ MaxHistory \in Nat \ {0}

VARIABLES
    instance,       \* the one that is mounted last
    repeaterMounted,
    sending,        \* per instance: the replay under way, 0 for none
    replayHistory,  \* per instance: history, newest first
    stored,         \* HISTORY_KEY of the local storage
    replays,        \* sent so far
    answers,        \* history: what was answered, newest first
    unstored        \* history: the storage refused or was not read, or two instances had replays under way

repeaterVars == <<instance, repeaterMounted, sending, replayHistory, stored, replays, answers, unstored>>

Instances == 1..MaxInstances
Newest(list) == SubSeq(list, 1, IF Len(list) < MaxHistory THEN Len(list) ELSE MaxHistory)

RepeaterOK ==
    /\ instance \in Instances /\ {repeaterMounted, unstored} \subseteq BOOLEAN
    /\ replays \in 0..MaxReplays
    /\ sending \in [Instances -> 0..replays]
    /\ \A i \in Instances : replayHistory[i] \in Seq(1..replays)
    /\ Len(stored) <= MaxHistory

----------------------------------------------------------------------------
\* send, from the button, which is off while one is under way.
SendReplay ==
    /\ repeaterMounted /\ sending[instance] = 0
    /\ replays < MaxReplays
    /\ replays' = replays + 1
    /\ sending' = [sending EXCEPT ![instance] = replays']
    /\ UNCHANGED <<instance, repeaterMounted, replayHistory, stored, answers, unstored>>

\* Mutant: the oldest answers are kept.
ReplayAnsweredLast(i) ==
    /\ sending[i] # 0
    /\ sending' = [sending EXCEPT ![i] = 0]
    /\ replayHistory' = [replayHistory EXCEPT ![i] = Newest(@ \o <<sending[i]>>)]
    /\ answers' = <<sending[i]>> \o answers
    /\ \/ stored' = replayHistory'[i] /\ unstored' = (unstored \/ i # instance)
       \/ UNCHANGED stored /\ unstored' = TRUE
    /\ UNCHANGED <<instance, repeaterMounted, replays>>

\* The answer: into the history of its instance, and all of that into the storage,
\* which may be full.
ReplayAnswered(i) ==
    /\ sending[i] # 0
    /\ sending' = [sending EXCEPT ![i] = 0]
    /\ replayHistory' = [replayHistory EXCEPT ![i] = Newest(<<sending[i]>> \o @)]
    /\ answers' = <<sending[i]>> \o answers
    /\ \/ stored' = replayHistory'[i] /\ unstored' = (unstored \/ i # instance)
       \/ UNCHANGED stored /\ unstored' = TRUE
    /\ UNCHANGED <<instance, repeaterMounted, replays>>

ReplayFails(i) ==
    /\ sending[i] # 0
    /\ sending' = [sending EXCEPT ![i] = 0]
    /\ UNCHANGED <<instance, repeaterMounted, replayHistory, stored, replays, answers, unstored>>

LeaveRepeater ==
    /\ repeaterMounted /\ repeaterMounted' = FALSE
    /\ UNCHANGED <<instance, sending, replayHistory, stored, replays, answers, unstored>>

\* onMounted: a storage that cannot be read or parsed leaves the history empty.
OpenRepeater ==
    /\ ~repeaterMounted /\ repeaterMounted' = TRUE
    /\ instance < MaxInstances /\ instance' = instance + 1
    /\ \/ replayHistory' = [replayHistory EXCEPT ![instance'] = stored] /\ UNCHANGED unstored
       \/ UNCHANGED replayHistory /\ unstored' = TRUE
    /\ UNCHANGED <<sending, stored, replays, answers>>

----------------------------------------------------------------------------
RepeaterInit ==
    /\ instance = 1 /\ repeaterMounted = TRUE
    /\ sending = [i \in Instances |-> 0]
    /\ replayHistory = [i \in Instances |-> <<>>]
    /\ stored = <<>>
    /\ replays = 0
    /\ answers = <<>> /\ unstored = FALSE

RepeaterNext ==
    \/ SendReplay \/ LeaveRepeater \/ OpenRepeater
    \/ \E i \in Instances : ReplayAnswered(i) \/ ReplayFails(i)

----------------------------------------------------------------------------
\* Property

\* The storage, and with it what the next instance shows, has the last answers
\* in their order, however often the tab is left and opened with a replay under
\* way; only an answer to an instance that another has followed, or a storage that
\* refuses or cannot be read, may leave one out (RepeaterTab.vue:102, 182).
HistoryIsKept ==
    ~unstored => stored = Newest(answers) /\ replayHistory[instance] = stored
=============================================================================
