--------------------------- MODULE AttackSession ---------------------------
(***************************************************************************)
(* What Intruder promises: attacks begin one after the other, the list of  *)
(* answers is emptied when one begins, and no answer is listed twice.      *)
(* Until an attack is stopped, answers are those of the latest attack and  *)
(* come while it is under way; a stopped attack may answer at any time.    *)
(***************************************************************************)
EXTENDS Integers

VARIABLES
    busy,       \* an attack is under way, as far as the user is told
    attack,     \* the number of the latest attack
    answers,    \* the answers on display
    stopped     \* an attack was stopped before its end

sessionVars == <<busy, attack, answers, stopped>>

Init == busy = FALSE /\ attack = 0 /\ answers = {} /\ stopped = FALSE

Begin ==
    /\ ~busy
    /\ busy' = TRUE
    /\ attack' = attack + 1
    /\ answers' = {}
    /\ UNCHANGED stopped

Answer ==
    /\ \E answer \in answers' \ answers :
           /\ answers' = answers \cup {answer}
           /\ answer.attack \in 1..attack
           /\ stopped \/ (busy /\ answer.attack = attack)
    /\ UNCHANGED <<busy, attack, stopped>>

Forget ==
    /\ answers' = {}
    /\ UNCHANGED <<busy, attack, stopped>>

\* The end of an attack: of the latest one, or of a stopped one.
Finish ==
    /\ busy
    /\ busy' = FALSE
    /\ UNCHANGED <<attack, answers, stopped>>

Stop ==
    /\ busy
    /\ busy' = FALSE
    /\ stopped' = TRUE
    /\ UNCHANGED <<attack, answers>>

Next == Begin \/ Answer \/ Forget \/ Finish \/ Stop

Spec == Init /\ [][Next]_sessionVars
=============================================================================
