----------------------------- MODULE TrafficLog -----------------------------
(***************************************************************************)
(* What the storage of captured traffic promises: a log of exchanges that  *)
(* only grows, one exchange at a time and each under an id of its own,     *)
(* until it is emptied as a whole.  No exchange is logged twice, and none  *)
(* takes the place of another; except that the log may be forgotten as a   *)
(* whole, and until it is recalled the exchanges it held may be written    *)
(* over.                                                                   *)
(***************************************************************************)
EXTENDS Naturals

VARIABLES
    log,        \* id -> exchange
    forgotten   \* exchanges that the writers no longer know of

Init == DOMAIN log = {} /\ forgotten = {}

Free(id) == id \in DOMAIN log => log[id] \in forgotten

Append(id, x) ==
    /\ Free(id)
    /\ \A i \in DOMAIN log : log[i] # x
    /\ log' = [i \in DOMAIN log \cup {id} |-> IF i = id THEN x ELSE log[i]]
    /\ UNCHANGED forgotten

Wipe == DOMAIN log' = {} /\ UNCHANGED forgotten

Forget == forgotten' = {log[i] : i \in DOMAIN log} /\ UNCHANGED log
Recall == forgotten' = {} /\ UNCHANGED log

Next ==
    \/ \E id \in DOMAIN log' : Append(id, log'[id])
    \/ Wipe
    \/ Forget
    \/ Recall

Spec == Init /\ [][Next]_<<log, forgotten>>
=============================================================================
