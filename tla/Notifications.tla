--------------------------- MODULE Notifications ---------------------------
(***************************************************************************)
(* Notifications (ui/src/composables/useNotifications.ts): toasts that go  *)
(* by themselves after the duration of their type, by hand, all at once,   *)
(* by type, or because there are too many.                                 *)
(***************************************************************************)
EXTENDS Integers, Sequences, SequencesExt

CONSTANTS
    Types,              \* error, success, warning, info
    MAX_NOTIFICATIONS,  \* 10
    MaxShown            \* bound: notifications ever shown

ASSUME NotificationAssumption ==
    MAX_NOTIFICATIONS \in Nat \ {0} /\ MaxShown \in Nat

VARIABLES
    notifications,      \* the list, oldest first: of each its id and type
    dismissTimeouts,    \* ids the map has a timer for
    ticking,            \* ids whose timer is pending
    shown               \* bound: notifications shown so far, the next id

noteVars == <<notifications, dismissTimeouts, ticking, shown>>

Ids(list) == {list[n].id : n \in DOMAIN list}

NotificationsOK ==
    /\ shown \in 0..MaxShown
    /\ notifications \in Seq([id : 1..shown, type : Types])
    /\ dismissTimeouts \subseteq 1..shown /\ ticking \subseteq 1..shown

----------------------------------------------------------------------------
\* The list without the notifications of ids, in its order.
Without(list, ids) ==
    LET kept[n \in 0..Len(list)] ==
            IF n = 0 THEN <<>>
            ELSE kept[n - 1] \o (IF list[n].id \in ids THEN <<>> ELSE <<list[n]>>)
    IN  kept[Len(list)]

\* clearTimeout and delete, for those of ids that the map has a timer for.
Untimed(ids) ==
    /\ ticking' = ticking \ (ids \cap dismissTimeouts)
    /\ dismissTimeouts' = dismissTimeouts \ ids

\* dismissNotification
Dismissed(ids) ==
    /\ Untimed(ids)
    /\ notifications' = Without(notifications, ids)

\* enforceMaxLimit: what is left of a list that has become too long.
EnforceMaxLimit(list) ==
    SubSeq(list, 1 + (IF Len(list) > MAX_NOTIFICATIONS THEN Len(list) - MAX_NOTIFICATIONS ELSE 0),
           Len(list))

\* Mutant: the timers of those that had to go are forgotten, not cleared.
ShowNotificationForgetful(type) ==
    /\ shown < MaxShown
    /\ shown' = shown + 1
    /\ notifications' = EnforceMaxLimit(Append(notifications, [id |-> shown + 1, type |-> type]))
    /\ dismissTimeouts' = Ids(notifications')
    /\ ticking' = ticking \cup {shown + 1}

\* showNotification: pushed, the limit enforced, then its timer set.
ShowNotification(type) ==
    /\ shown < MaxShown
    /\ shown' = shown + 1
    /\ LET list == Append(notifications, [id |-> shown + 1, type |-> type])
           gone == Ids(list) \ Ids(EnforceMaxLimit(list))
       IN  /\ notifications' = EnforceMaxLimit(list)
           /\ dismissTimeouts' = (dismissTimeouts \ gone) \cup {shown + 1}
           /\ ticking' = (ticking \ (gone \cap dismissTimeouts)) \cup {shown + 1}

\* scheduleAutoDismiss: the timer fires, in any order of the durations.
AutoDismiss(id) ==
    /\ id \in ticking
    /\ ticking' = ticking \ {id}
    /\ dismissTimeouts' = dismissTimeouts \ {id}
    /\ notifications' = Without(notifications, {id})
    /\ UNCHANGED shown

DismissNotification(id) == id \in Ids(notifications) /\ Dismissed({id}) /\ UNCHANGED shown

DismissAll ==
    /\ ticking' = ticking \ dismissTimeouts
    /\ dismissTimeouts' = {}
    /\ notifications' = <<>>
    /\ UNCHANGED shown

DismissByType(type) ==
    /\ Dismissed({n.id : n \in {m \in ToSet(notifications) : m.type = type}})
    /\ UNCHANGED shown

----------------------------------------------------------------------------
NoteInit ==
    /\ notifications = <<>>
    /\ dismissTimeouts = {} /\ ticking = {}
    /\ shown = 0

NoteNext ==
    \/ \E type \in Types : ShowNotification(type) \/ DismissByType(type)
    \/ \E id \in 1..MaxShown : AutoDismiss(id) \/ DismissNotification(id)
    \/ DismissAll

\* The browser runs its timers.
NoteFairness == \A id \in 1..MaxShown : WF_noteVars(AutoDismiss(id))

NoteSpec == NoteInit /\ [][NoteNext]_noteVars /\ NoteFairness

----------------------------------------------------------------------------
\* Properties

\* Whatever order notifications are shown, dismissed and displaced in, the ones
\* in the list are those with a timer that runs and that the map can clear, and
\* there are never too many (useNotifications.ts:198, 358).
ToastsAreTimed ==
    /\ ticking = Ids(notifications) /\ dismissTimeouts = ticking
    /\ Len(notifications) <= MAX_NOTIFICATIONS

\* Every notification goes in the end, without anybody's doing: once the last
\* was shown, and MaxShown says that there is a last, the list empties for good
\* (useNotifications.ts:179).
ToastsVanish == <>[](notifications = <<>>)
=============================================================================
