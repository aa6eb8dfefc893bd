------------------------------ MODULE ScopeTab ------------------------------
(***************************************************************************)
(* The tab of the scope (ui/src/components/ScopeTab.vue): patterns that    *)
(* are loaded when the tab is mounted and on Reset, edited in place, and   *)
(* saved without the blank ones.  Loads and a save may be under way at     *)
(* once; the server handles each at some moment before its answer.         *)
(***************************************************************************)
EXTENDS Integers, Sequences, SequencesExt

CONSTANTS
    Scopes,         \* configurations: sets of patterns
    Blank,          \* an empty pattern
    MaxScopeCalls,  \* bound: loads and saves in a behaviour
    MaxScopeEdits   \* bound: edits by the user

ASSUME ScopeTabAssumption ==
    /\ {} \in Scopes
    /\ \A scope \in Scopes : scope \ {Blank} \in Scopes
    /\ MaxScopeCalls \in Nat \ {0} /\ MaxScopeEdits \in Nat

VARIABLES
    pageScope,      \* config
    serverScope,    \* the server's
    loads,          \* loads under way, oldest first, with what the server answered
    saving,         \* the save under way: not sent, sent, done or refused
    toSave,         \* cleanConfig of the last save
    edited,         \* history: edited since an answer replaced the page's
    scopeDoubt,     \* history: an answer was lost, or a load and a save crossed
    scopeCalls, scopeEdits  \* bounds

scopeVars == <<pageScope, serverScope, loads, saving, toSave, edited, scopeDoubt, scopeCalls,
               scopeEdits>>

NotServed == [served |-> FALSE]
Answers == {NotServed} \cup [served : {TRUE}, scope : Scopes]
Clean(scope) == scope \ {Blank}

ScopeTabOK ==
    /\ {pageScope, serverScope, toSave} \subseteq Scopes
    /\ loads \in Seq(Answers)
    /\ saving \in {"no", "sent", "done", "refused"}
    /\ {edited, scopeDoubt} \subseteq BOOLEAN
    /\ scopeCalls \in 0..MaxScopeCalls /\ scopeEdits \in 0..MaxScopeEdits

----------------------------------------------------------------------------
\* loadScope, as far as its request.
LoadScope ==
    /\ scopeCalls < MaxScopeCalls
    /\ scopeCalls' = scopeCalls + 1
    /\ loads' = Append(loads, NotServed)
    /\ scopeDoubt' = (scopeDoubt \/ saving # "no")
    /\ UNCHANGED <<pageScope, serverScope, saving, toSave, edited, scopeEdits>>

ServeLoad(n) ==
    /\ n \in DOMAIN loads /\ ~loads[n].served
    /\ loads' = [loads EXCEPT ![n] = [served |-> TRUE, scope |-> serverScope]]
    /\ UNCHANGED <<pageScope, serverScope, saving, toSave, edited, scopeDoubt, scopeCalls, scopeEdits>>

\* The answer replaces what is being edited.  Alone on its way it ends all doubt.
LoadArrives(n) ==
    /\ n \in DOMAIN loads /\ loads[n].served
    /\ pageScope' = loads[n].scope
    /\ edited' = FALSE
    /\ scopeDoubt' = (scopeDoubt /\ (Len(loads) > 1 \/ saving # "no" \/ loads[n].scope # serverScope))
    /\ loads' = RemoveAt(loads, n)
    /\ UNCHANGED <<serverScope, saving, toSave, scopeCalls, scopeEdits>>

LoadFails(n) ==
    /\ n \in DOMAIN loads
    /\ loads' = RemoveAt(loads, n)
    /\ UNCHANGED <<pageScope, serverScope, saving, toSave, edited, scopeDoubt, scopeCalls, scopeEdits>>

\* addInclude, removeExclude and so on, and typing.
EditScope(scope) ==
    /\ scope # pageScope /\ scopeEdits < MaxScopeEdits
    /\ scopeEdits' = scopeEdits + 1
    /\ pageScope' = scope
    /\ edited' = TRUE
    /\ UNCHANGED <<serverScope, loads, saving, toSave, scopeDoubt, scopeCalls>>

\* save, whose button is off while one is under way.
SaveScope ==
    /\ saving = "no" /\ scopeCalls < MaxScopeCalls
    /\ scopeCalls' = scopeCalls + 1
    /\ saving' = "sent"
    /\ toSave' = Clean(pageScope)
    /\ scopeDoubt' = (scopeDoubt \/ loads # <<>>)
    /\ UNCHANGED <<pageScope, serverScope, loads, edited, scopeEdits>>

ServeSave ==
    /\ saving = "sent"
    /\ \/ saving' = "done" /\ serverScope' = toSave
       \/ saving' = "refused" /\ UNCHANGED serverScope
    /\ UNCHANGED <<pageScope, loads, toSave, edited, scopeDoubt, scopeCalls, scopeEdits>>

\* What was edited meanwhile is gone.
SaveReturns ==
    /\ saving = "done" /\ saving' = "no"
    /\ pageScope' = toSave
    /\ edited' = FALSE
    /\ UNCHANGED <<serverScope, loads, toSave, scopeDoubt, scopeCalls, scopeEdits>>

SaveFails ==
    /\ saving \in {"done", "refused"} /\ saving' = "no"
    /\ scopeDoubt' = (scopeDoubt \/ saving = "done")
    /\ UNCHANGED <<pageScope, serverScope, loads, toSave, edited, scopeCalls, scopeEdits>>

----------------------------------------------------------------------------
\* The tab is mounted, empty, and asks for the scope.
ScopeTabInit ==
    /\ pageScope = {} /\ serverScope \in {Clean(scope) : scope \in Scopes}
    /\ loads = <<NotServed>>
    /\ saving = "no" /\ toSave = {}
    /\ edited = FALSE /\ scopeDoubt = (serverScope # {})
    /\ scopeCalls = 1 /\ scopeEdits = 0

ScopeTabNext ==
    \/ LoadScope \/ SaveScope \/ ServeSave \/ SaveReturns \/ SaveFails
    \/ \E n \in 1..MaxScopeCalls : ServeLoad(n) \/ LoadArrives(n) \/ LoadFails(n)
    \/ \E scope \in Scopes : EditScope(scope)

----------------------------------------------------------------------------
\* Property

\* With nothing under way and nothing edited since the last answer, the tab shows
\* the scope that is in force, but for blank patterns; only an answer that was
\* lost, or a load that crossed a save, can make it show another, until the next
\* load (ScopeTab.vue:59, 77).
ScopeIsShown ==
    loads = <<>> /\ saving = "no" /\ ~edited /\ ~scopeDoubt => Clean(pageScope) = serverScope
=============================================================================
