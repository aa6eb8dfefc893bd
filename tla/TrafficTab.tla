----------------------------- MODULE TrafficTab -----------------------------
(***************************************************************************)
(* The tab of transactions (ui/src/components/TrafficTab.vue, which App.vue*)
(* does not show): a list of them, fetched again on each event and each    *)
(* change of a filter, and the highlighted text of the selected one.       *)
(* Fetches are not numbered, and a highlight that is refused leaves the    *)
(* text of another transaction.                                            *)
(***************************************************************************)
EXTENDS EventSocket, Sequences, SequencesExt

CONSTANTS
    Transactions,
    NoTransaction,      \* null
    MaxFetched          \* bound: fetches of either kind

ASSUME TrafficTabAssumption == NoTransaction \notin Transactions /\ MaxFetched \in Nat \ {0}

VARIABLES
    tabLoading,
    listFetches,        \* lists asked for, of which edition of the filters
    filters,            \* the edition of the filters
    transactions,       \* the list shown is of which edition, 0 for none yet
    selectedTransaction, activeView,
    highlights,         \* highlights asked for, oldest first
    highlightedContent, \* of what
    fetched,            \* fetches so far: the number of the last
    listAsked, listAnswered,            \* history: the numbers of the last list
    highlightAsked, highlightAnswered   \* and highlight, asked for and answered

tabLists == <<tabLoading, listFetches, filters, transactions, listAsked, listAnswered>>
tabHighlights == <<selectedTransaction, activeView, highlights, highlightedContent,
                   highlightAsked, highlightAnswered>>
tabVars == <<tabMounted, socketVars, tabLists, tabHighlights, fetched>>

Views == {"request", "response"}
NoText == [of |-> NoTransaction, view |-> "request"]
Shown == [of : Transactions \cup {NoTransaction}, view : Views]

TrafficTabOK ==
    /\ EventSocketOK
    /\ tabLoading \in BOOLEAN
    /\ fetched \in 0..MaxFetched
    /\ filters \in 1..(MaxFetched + 1) /\ transactions \in 0..filters
    /\ listFetches \in Seq([filters : 1..filters, number : 1..fetched])
    /\ selectedTransaction \in Transactions \cup {NoTransaction} /\ activeView \in Views
    /\ highlights \in Seq([of : Transactions, view : Views, number : 1..fetched])
    /\ highlightedContent \in Shown

----------------------------------------------------------------------------
\* fetchTransactions
FetchTransactions(edition) ==
    /\ fetched < MaxFetched
    /\ fetched' = fetched + 1
    /\ tabLoading' = TRUE
    /\ listFetches' = Append(listFetches, [filters |-> edition, number |-> fetched'])
    /\ listAsked' = fetched'
    /\ UNCHANGED <<transactions, listAnswered>>

\* A message of the socket, the button, a change of a filter.
Event ==
    /\ \/ openSockets # {}
       \/ tabMounted /\ ~tabLoading
    /\ FetchTransactions(filters)
    /\ UNCHANGED <<tabMounted, socketVars, filters, tabHighlights>>

ChangeFilters ==
    /\ tabMounted
    /\ filters' = filters + 1
    /\ FetchTransactions(filters')
    /\ UNCHANGED <<tabMounted, socketVars, tabHighlights>>

ListFetched(n) ==
    /\ n \in DOMAIN listFetches
    /\ tabLoading' = FALSE
    /\ listFetches' = RemoveAt(listFetches, n)
    /\ \/ transactions' = listFetches[n].filters /\ listAnswered' = listFetches[n].number
       \/ UNCHANGED <<transactions, listAnswered>>
    /\ UNCHANGED <<tabMounted, socketVars, filters, listAsked, tabHighlights, fetched>>

\* fetchHighlighted
FetchHighlighted(tx, view) ==
    /\ fetched < MaxFetched
    /\ fetched' = fetched + 1
    /\ highlights' = Append(highlights, [of |-> tx, view |-> view, number |-> fetched'])
    /\ highlightAsked' = fetched'
    /\ UNCHANGED <<highlightedContent, highlightAnswered>>

SelectTransaction(tx) ==
    /\ tabMounted /\ transactions # 0
    /\ selectedTransaction' = tx
    /\ activeView' = "request"
    /\ FetchHighlighted(tx, "request")
    /\ UNCHANGED <<tabMounted, socketVars, tabLists>>

SwitchView(view) ==
    /\ tabMounted /\ selectedTransaction # NoTransaction
    /\ activeView' = view
    /\ FetchHighlighted(selectedTransaction, view)
    /\ UNCHANGED <<tabMounted, socketVars, selectedTransaction, tabLists>>

\* Any answer is taken; a refusal or an error is not shown.
HighlightFetched(n) ==
    /\ n \in DOMAIN highlights
    /\ highlights' = RemoveAt(highlights, n)
    /\ \/ /\ highlightedContent' = [of |-> highlights[n].of, view |-> highlights[n].view]
          /\ highlightAnswered' = highlights[n].number
       \/ UNCHANGED <<highlightedContent, highlightAnswered>>
    /\ UNCHANGED <<tabMounted, socketVars, tabLists, selectedTransaction, activeView,
                   highlightAsked, fetched>>

LeaveTab ==
    /\ tabMounted /\ tabMounted' = FALSE
    /\ CloseSocket
    /\ UNCHANGED <<tabLists, tabHighlights, fetched>>

----------------------------------------------------------------------------
\* The tab is mounted: it asks for the list and opens the socket.
TrafficTabInit ==
    /\ EventSocketInit
    /\ tabLoading = TRUE
    /\ filters = 1 /\ transactions = 0
    /\ fetched = 1 /\ listFetches = <<[filters |-> 1, number |-> 1]>>
    /\ listAsked = 1 /\ listAnswered = 0
    /\ selectedTransaction = NoTransaction /\ activeView = "request"
    /\ highlights = <<>> /\ highlightedContent = NoText
    /\ highlightAsked = 0 /\ highlightAnswered = 0

TrafficTabNext ==
    \/ SocketNext /\ UNCHANGED <<tabLists, tabHighlights, fetched>>
    \/ Event \/ ChangeFilters
    \/ \E n \in 1..MaxFetched : ListFetched(n) \/ HighlightFetched(n)
    \/ \E tx \in Transactions : SelectTransaction(tx)
    \/ \E view \in Views : SwitchView(view)
    \/ LeaveTab

----------------------------------------------------------------------------
\* Property

\* When the answer that came last is one to the last fetch of its kind, the list
\* is of the filters that are set, and the text that of the view and of the
\* transaction that are selected (TrafficTab.vue:136, 153).
TabIsCurrent ==
    /\ listAnswered = listAsked => transactions = filters
    /\ highlightAnswered = highlightAsked =>
        highlightedContent = [of |-> selectedTransaction, view |-> activeView]
=============================================================================
