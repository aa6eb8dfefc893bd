------------------------------ MODULE RulesTab ------------------------------
(***************************************************************************)
(* The tab of rules (ui/src/components/RulesTab.vue): a rule is added, or  *)
(* all are cleared, and then the list is asked for again.  No button waits *)
(* for a call under way, and the form is emptied only after the list has   *)
(* come: a second click adds the rule of the form once more.               *)
(***************************************************************************)
EXTENDS Integers, Sequences, SequencesExt

CONSTANTS
    MaxRuleEdits,   \* bound: rules added and cleared
    MaxRuleLists    \* bound: lists asked for

ASSUME RulesTabAssumption == MaxRuleEdits \in Nat /\ MaxRuleLists \in Nat \ {0}

VARIABLES
    shownRules,     \* rules
    serverRules,    \* the server's
    ruleEdits,      \* edits under way, oldest first: the rule to add, or 0 to clear
    ruleLists,      \* lists under way: their number, and what the server answered
    editsMade,      \* edits so far: the next rule
    listsAsked,     \* lists asked for so far: the number of the last
    lastShown,      \* history: the number of the list that is shown
    lostEdit        \* history: the server edited and its answer was lost

rulesTabVars == <<shownRules, serverRules, ruleEdits, ruleLists, editsMade, listsAsked, lastShown, lostEdit>>

UnansweredList(number) == [number |-> number, served |-> FALSE, rules |-> {}]

RulesTabOK ==
    /\ {shownRules, serverRules} \subseteq SUBSET (1..editsMade)
    /\ ruleEdits \in Seq([rule : 0..editsMade, served : BOOLEAN])
    /\ ruleLists \in Seq([number : 1..listsAsked, served : BOOLEAN, rules : SUBSET (1..editsMade)])
    /\ editsMade \in 0..MaxRuleEdits
    /\ listsAsked \in 1..MaxRuleLists /\ lastShown \in 0..listsAsked
    /\ lostEdit \in BOOLEAN

----------------------------------------------------------------------------
\* addNewRule (its rule has an id of its own) and clearAll (rule 0).
BeginEdit(rule) ==
    /\ editsMade < MaxRuleEdits
    /\ editsMade' = editsMade + 1
    /\ ruleEdits' = Append(ruleEdits, [rule |-> rule, served |-> FALSE])
    /\ UNCHANGED <<shownRules, serverRules, ruleLists, listsAsked, lastShown, lostEdit>>

AddNewRule == BeginEdit(editsMade + 1)
ClearAllRules == shownRules # {} /\ BeginEdit(0)

\* RuleEngine.add_rule or clear_rules, by the server.
ServeEdit(n) ==
    /\ n \in DOMAIN ruleEdits /\ ~ruleEdits[n].served
    /\ serverRules' = IF ruleEdits[n].rule = 0 THEN {} ELSE serverRules \cup {ruleEdits[n].rule}
    /\ ruleEdits' = [ruleEdits EXCEPT ![n].served = TRUE]
    /\ UNCHANGED <<shownRules, ruleLists, editsMade, listsAsked, lastShown, lostEdit>>

\* loadRules, as far as its request, when the edit has its answer.
EditReturns(n) ==
    /\ n \in DOMAIN ruleEdits /\ ruleEdits[n].served
    /\ listsAsked < MaxRuleLists
    /\ listsAsked' = listsAsked + 1
    /\ ruleLists' = Append(ruleLists, UnansweredList(listsAsked'))
    /\ ruleEdits' = RemoveAt(ruleEdits, n)
    /\ UNCHANGED <<shownRules, serverRules, editsMade, lastShown, lostEdit>>

\* Nothing catches the error, and nothing is asked.
EditFails(n) ==
    /\ n \in DOMAIN ruleEdits
    /\ ruleEdits' = RemoveAt(ruleEdits, n)
    /\ lostEdit' = (lostEdit \/ ruleEdits[n].served)
    /\ UNCHANGED <<shownRules, serverRules, ruleLists, editsMade, listsAsked, lastShown>>

ServeRules(n) ==
    /\ n \in DOMAIN ruleLists /\ ~ruleLists[n].served
    /\ ruleLists' = [ruleLists EXCEPT ![n].served = TRUE, ![n].rules = serverRules]
    /\ UNCHANGED <<shownRules, serverRules, ruleEdits, editsMade, listsAsked, lastShown, lostEdit>>

RulesArrive(n) ==
    /\ n \in DOMAIN ruleLists /\ ruleLists[n].served
    /\ shownRules' = ruleLists[n].rules
    /\ lastShown' = ruleLists[n].number
    /\ ruleLists' = RemoveAt(ruleLists, n)
    /\ UNCHANGED <<serverRules, ruleEdits, editsMade, listsAsked, lostEdit>>

RulesFail(n) ==
    /\ n \in DOMAIN ruleLists
    /\ ruleLists' = RemoveAt(ruleLists, n)
    /\ UNCHANGED <<shownRules, serverRules, ruleEdits, editsMade, listsAsked, lastShown, lostEdit>>

----------------------------------------------------------------------------
RulesTabInit ==
    /\ shownRules = {} /\ serverRules = {}
    /\ ruleEdits = <<>>
    /\ ruleLists = <<UnansweredList(1)>>
    /\ editsMade = 0 /\ listsAsked = 1 /\ lastShown = 0
    /\ lostEdit = FALSE

RulesTabNext ==
    \/ AddNewRule \/ ClearAllRules
    \/ \E n \in 1..MaxRuleEdits : ServeEdit(n) \/ EditReturns(n) \/ EditFails(n)
    \/ \E n \in 1..MaxRuleLists : ServeRules(n) \/ RulesArrive(n) \/ RulesFail(n)

----------------------------------------------------------------------------
\* Property

\* With nothing under way, a list that answers the last question is that of the
\* rules in force, in whatever order edits and lists were served and answered,
\* unless an edit's answer was lost (RulesTab.vue:156).
RulesAreShown ==
    ruleEdits = <<>> /\ ruleLists = <<>> /\ lastShown = listsAsked /\ ~lostEdit
        => shownRules = serverRules
=============================================================================
