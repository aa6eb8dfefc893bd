---------------------------- MODULE RequestsPage ----------------------------
(***************************************************************************)
(* The list of captured requests (ui/src/App.vue): fetched when the page   *)
(* is opened, when a filter changes, by hand, and after the server was     *)
(* told to clear.  Fetches are not numbered: their answers come in any     *)
(* order and each replaces the list.  The feed of new entries that App.vue *)
(* watches, ws.latest, is not among what useWebSocket returns: it never    *)
(* brings one.                                                             *)
(*                                                                         *)
(* The server answers what it could do or not: a clear whose DELETE failed *)
(* is answered as any other (core/src/capture.rs:161), and a query that    *)
(* failed as one that found nothing (capture.rs:181).                      *)
(***************************************************************************)
EXTENDS Integers, Sequences, SequencesExt

CONSTANTS
    Filters,    \* values of filterParams
    MaxLists,   \* bound: lists fetched in a behaviour
    MaxClears   \* bound

ASSUME RequestsPageAssumption == MaxLists \in Nat \ {0} /\ MaxClears \in Nat

VARIABLES
    filterParams,
    items,      \* of which filter and time of the table, or none at all
    loading,
    listings,   \* lists asked for, oldest first, and what the server read for them
    lists,      \* lists asked for so far: the number of the last
    listed,     \* history: the number of the one that was answered last
    misread,    \* history: its query had failed
    clearing,   \* clear(): not under way, asked for, done by the server
    entrySelected, \* an entry is selected
    cleared,    \* clears that the server did
    emptied,    \* the table's time: the last of them whose DELETE did not fail
    lostClear   \* history: the server cleared, and its answer was lost

listVars == <<loading, listings, lists>>
answeredVars == <<listed, misread>>
serverVars == <<cleared, emptied>>
requestsVars ==
    <<filterParams, items, listVars, answeredVars, clearing, entrySelected, serverVars, lostClear>>

NoItems == [filter |-> "none", at |-> 0]
\* What a fetch has of the server: nothing yet, or the answer to a failed query.
Unread == MaxClears + 1
QueryFailed == MaxClears + 2

RequestsPageOK ==
    /\ filterParams \in Filters
    /\ {loading, entrySelected, lostClear, misread} \subseteq BOOLEAN
    /\ cleared \in 0..MaxClears /\ emptied \in 0..cleared
    /\ items = NoItems \/ items \in [filter : Filters, at : 0..cleared]
    /\ lists \in 0..MaxLists /\ listed \in 0..lists
    /\ listings \in Seq([filter : Filters, number : 1..lists, at : 0..QueryFailed])
    /\ clearing \in {"no", "asked", "done"}

----------------------------------------------------------------------------
\* refresh, with the filters as they are.
Refresh(filter) ==
    /\ lists < MaxLists
    /\ lists' = lists + 1
    /\ loading' = TRUE
    /\ listings' = Append(listings, [filter |-> filter, number |-> lists', at |-> Unread])

\* Mutant: a change of filter waits for the list under way.
SetFilterUnlessLoading(filter) ==
    /\ filter # filterParams
    /\ filterParams' = filter
    /\ IF loading THEN UNCHANGED listVars ELSE Refresh(filter)
    /\ UNCHANGED <<items, answeredVars, clearing, entrySelected, serverVars, lostClear>>

\* The watch of filterParams.
SetFilter(filter) ==
    /\ filter # filterParams
    /\ filterParams' = filter
    /\ Refresh(filter)
    /\ UNCHANGED <<items, answeredVars, clearing, entrySelected, serverVars, lostClear>>

RefreshByHand ==
    /\ ~loading
    /\ Refresh(filterParams)
    /\ UNCHANGED <<filterParams, items, answeredVars, clearing, entrySelected, serverVars, lostClear>>

\* The server reads its table for any request that has reached it: list_requests,
\* and query, whose error is an empty list.
ServeList(n) ==
    /\ n \in DOMAIN listings /\ listings[n].at = Unread
    /\ \E at \in {emptied, QueryFailed} : listings' = [listings EXCEPT ![n].at = at]
    /\ UNCHANGED <<filterParams, items, loading, lists, answeredVars, clearing, entrySelected,
                   serverVars, lostClear>>

ListArrives(n) ==
    /\ n \in DOMAIN listings /\ listings[n].at # Unread
    /\ listed' = listings[n].number
    /\ misread' = (listings[n].at = QueryFailed)
    /\ items' = IF misread' THEN NoItems
                ELSE [filter |-> listings[n].filter, at |-> listings[n].at]
    /\ loading' = FALSE
    /\ listings' = RemoveAt(listings, n)
    /\ UNCHANGED <<filterParams, lists, clearing, entrySelected, serverVars, lostClear>>

\* Nothing catches the error; finally the flag is taken back.
ListFails(n) ==
    /\ n \in DOMAIN listings
    /\ loading' = FALSE
    /\ listings' = RemoveAt(listings, n)
    /\ UNCHANGED <<filterParams, items, lists, answeredVars, clearing, entrySelected, serverVars,
                   lostClear>>

\* clear; one at a time here, a bound.  Its button is off while loading, and
\* without entries.
Clear ==
    /\ ~loading /\ items # NoItems /\ clearing = "no"
    /\ cleared < MaxClears
    /\ clearing' = "asked"
    /\ UNCHANGED <<filterParams, items, listVars, answeredVars, entrySelected, serverVars, lostClear>>

\* clear_requests, and RequestCapture::clear: the error of the DELETE is only logged.
ServeClear ==
    /\ clearing = "asked" /\ clearing' = "done"
    /\ cleared' = cleared + 1
    /\ emptied' \in {cleared', emptied}
    /\ UNCHANGED <<filterParams, items, listVars, answeredVars, entrySelected, lostClear>>

ClearReturns ==
    /\ clearing = "done" /\ clearing' = "no"
    /\ items' = NoItems
    /\ entrySelected' = FALSE
    /\ Refresh(filterParams)
    /\ UNCHANGED <<filterParams, answeredVars, serverVars, lostClear>>

ClearFails ==
    /\ clearing # "no" /\ clearing' = "no"
    /\ lostClear' = (lostClear \/ clearing = "done")
    /\ UNCHANGED <<filterParams, items, listVars, answeredVars, entrySelected, serverVars>>

\* handleSelect, from a row of the list.
HandleSelect ==
    /\ items # NoItems
    /\ entrySelected' = TRUE
    /\ UNCHANGED <<filterParams, items, listVars, answeredVars, clearing, serverVars, lostClear>>

----------------------------------------------------------------------------
\* The page is mounted: refresh.
RequestsPageInit ==
    /\ filterParams \in Filters
    /\ items = NoItems
    /\ loading = TRUE
    /\ listings = <<[filter |-> filterParams, number |-> 1, at |-> Unread]>>
    /\ lists = 1 /\ listed = 0 /\ misread = FALSE
    /\ clearing = "no" /\ entrySelected = FALSE
    /\ cleared = 0 /\ emptied = 0 /\ lostClear = FALSE

RequestsPageNext ==
    \/ \E filter \in Filters : SetFilter(filter)
    \/ RefreshByHand
    \/ \E n \in 1..MaxLists : ServeList(n) \/ ListArrives(n) \/ ListFails(n)
    \/ Clear \/ ServeClear \/ ClearReturns \/ ClearFails
    \/ HandleSelect

----------------------------------------------------------------------------
\* Property

\* With nothing under way, a list that answers the last fetch is of the filter that is
\* set and of the table as it was left by the last clear that emptied it, unless the
\* answer to a clear was lost: a clear that failed brings back what it was to clear.  A
\* list whose query failed is empty and shows nothing of that.  The answer of an older
\* fetch may show another filter and bring back what was cleared (App.vue:206).
ListIsCurrent ==
    listings = <<>> /\ clearing = "no" /\ listed = lists =>
        IF misread THEN items = NoItems
        ELSE items.filter = filterParams /\ (lostClear \/ items.at = emptied)
=============================================================================
