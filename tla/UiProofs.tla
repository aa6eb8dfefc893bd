----------------------------- MODULE UiProofs ------------------------------
(***************************************************************************)
(* The two user interfaces: the pages of ui/, each for any constants, and  *)
(* the composition of all parts, the desktop's with the lemmas of          *)
(* PagesProofs.                                                            *)
(***************************************************************************)
EXTENDS PagesProofs

----------------------------------------------------------------------------
\* The list of captured requests

\* What a fetch may have of a server that did so many clears.
Read(done) == (0..done) \cup {Unread, QueryFailed}

ListTypes ==
    /\ filterParams \in Filters
    /\ cleared \in 0..MaxClears /\ emptied \in 0..cleared /\ lists \in 0..MaxLists /\ listed \in 0..lists
    /\ items = NoItems \/ items \in [filter : Filters, at : 0..cleared]
    /\ listings \in Seq([filter : Filters, number : 1..lists, at : Read(cleared)])
    /\ clearing \in {"no", "asked", "done"}
    /\ clearing = "asked" => cleared < MaxClears
ListFlags == {loading, entrySelected, lostClear, misread} \subseteq BOOLEAN

\* The table was emptied without the page's knowing, or may have been.
Unsure == lostClear \/ clearing = "done"

\* The last list asked for is of the filter that is set and, once read, of the
\* table's present, and so is what is shown once its answer has come.
LastIsPresent ==
    \A n \in DOMAIN listings :
        listings[n].number = lists =>
            /\ listings[n].filter = filterParams
            /\ Unsure \/ listings[n].at \in {Unread, QueryFailed, emptied}
ShownIsPresent ==
    listed = lists =>
        IF misread THEN items = NoItems
        ELSE items.filter = filterParams /\ (Unsure \/ items.at = emptied)

ListsInv == ListTypes /\ LastIsPresent /\ ShownIsPresent

LEMMA ListsInitial == RequestsPageInit => ListsInv /\ ListFlags
<1> SUFFICES ASSUME RequestsPageInit PROVE ListsInv /\ ListFlags
  OBVIOUS
<1> DEFINE e == [filter |-> filterParams, number |-> 1, at |-> Unread]
           T == [filter : Filters, number : 1..lists, at : Read(cleared)]
<1>1. ListFlags
  BY DEF RequestsPageInit, ListFlags
<1>2. filterParams \in Filters /\ lists = 1 /\ listed = 0 /\ cleared = 0 /\ emptied = 0 /\ items = NoItems /\ clearing = "no"
      /\ listings = <<e>>
  BY DEF RequestsPageInit
<1>3. e \in T
  BY <1>2 DEF Read
<1> HIDE DEF e, T
<1>4. listings \in Seq(T) /\ DOMAIN listings = {1} /\ listings[1] = e
  BY <1>2, <1>3
<1>5. ListTypes
  BY <1>2, <1>4, RequestsPageAssumption DEF ListTypes, T
<1>6. LastIsPresent
  BY <1>2, <1>4 DEF LastIsPresent, e
<1>7. ShownIsPresent
  BY <1>2 DEF ShownIsPresent
<1> QED
  BY <1>1, <1>5, <1>6, <1>7 DEF ListsInv

LEMMA ListFlagsStep == ListFlags /\ [RequestsPageNext]_requestsVars => ListFlags'
<1> SUFFICES ASSUME ListFlags, [RequestsPageNext]_requestsVars PROVE ListFlags'
  OBVIOUS
<1>1. {loading', entrySelected', misread'} \subseteq BOOLEAN
  BY DEF ListFlags, RequestsPageNext, SetFilter, RefreshByHand, ServeList, ListArrives, ListFails, Clear,
         ServeClear, ClearReturns, ClearFails, HandleSelect, Refresh, requestsVars, listVars, answeredVars
<1>2. UNCHANGED lostClear \/ lostClear' = (lostClear \/ clearing = "done")
  BY DEF RequestsPageNext, SetFilter, RefreshByHand, ServeList, ListArrives, ListFails, Clear,
         ServeClear, ClearReturns, ClearFails, HandleSelect, requestsVars
<1>3. lostClear' \in BOOLEAN
  BY <1>2 DEF ListFlags
<1> QED
  BY <1>1, <1>3 DEF ListFlags

\* A fetch is of the filter that is set, and nothing the server cleared is missed.
LEMMA ListsStep ==
    ASSUME ListsInv, [RequestsPageNext]_requestsVars
    PROVE  ListsInv'
<1> DEFINE T == [filter : Filters, number : 1..lists, at : Read(cleared)]
<1>0. listings \in Seq(T) /\ lists \in Nat /\ listed \in 0..lists /\ cleared \in Nat /\ emptied \in 0..cleared
  BY RequestsPageAssumption DEF ListsInv, ListTypes
<1> HIDE DEF T
<1>a. ASSUME NEW n \in DOMAIN listings
      PROVE  listings[n].filter \in Filters /\ listings[n].number \in 1..lists
             /\ listings[n].at \in Read(cleared)
  <2>1. listings[n] \in T
    BY <1>0
  <2> QED
    BY <2>1 DEF T
<1>1. ASSUME NEW filter \in Filters, Refresh(filter), filterParams' = filter,
             UNCHANGED <<listed, misread, cleared, emptied, lostClear>>, items' \in {items, NoItems}, clearing' \in {clearing, "no"}
      PROVE  ListsInv'
  <2> DEFINE U == [filter : Filters, number : 1..(lists + 1), at : Read(cleared)]
             e == [filter |-> filter, number |-> lists + 1, at |-> Unread]
  <2>1. lists' = lists + 1 /\ lists < MaxLists /\ listings' = Append(listings, e)
    BY <1>1 DEF Refresh
  <2>2. T \subseteq U /\ e \in U /\ e.filter = filter /\ e.at = Unread
    BY <1>0 DEF T, Read
  <2>3. listings \in Seq(U)
    BY <1>0, <2>2, SeqMonotonic
  <2>4. \A n \in DOMAIN listings : listings[n].number # lists + 1
    BY <1>0, <1>a
  <2> HIDE DEF U, e
  <2>5. listings' \in Seq(U) /\ \A i \in DOMAIN listings' :
            \/ i \in DOMAIN listings /\ listings'[i] = listings[i]
            \/ listings'[i] = e
    BY <2>1, <2>2, <2>3, Appended
  <2>6. LastIsPresent'
    BY <1>1, <2>1, <2>2, <2>4, <2>5 DEF LastIsPresent, Unread, QueryFailed
  <2>7. ShownIsPresent'
    <3>1. listed' # lists'
      BY <1>0, <1>1, <2>1
    <3> QED
      BY <3>1 DEF ShownIsPresent
  <2>8. ListTypes'
    <3>1. filterParams' \in Filters /\ cleared' \in 0..MaxClears /\ emptied' \in 0..cleared' /\ lists' \in 0..MaxLists /\ listed' \in 0..lists'
      BY <1>0, <1>1, <2>1, RequestsPageAssumption DEF ListsInv, ListTypes
    <3>2. items' = NoItems \/ items' \in [filter : Filters, at : 0..cleared']
      BY <1>1 DEF ListsInv, ListTypes
    <3>3. listings' \in Seq([filter : Filters, number : 1..lists', at : Read(cleared')])
      BY <1>1, <2>1, <2>5 DEF U, Read, Unread, QueryFailed
    <3>4. clearing' \in {"no", "asked", "done"} /\ (clearing' = "asked" => cleared' < MaxClears)
      BY <1>1 DEF ListsInv, ListTypes
    <3> QED
      BY <3>1, <3>2, <3>3, <3>4 DEF ListTypes, NoItems, Read, Unread, QueryFailed
  <2> QED
    BY <2>6, <2>7, <2>8 DEF ListsInv
<1>2. ASSUME NEW n \in DOMAIN listings, ServeList(n) PROVE ListsInv'
  <2>a. PICK at \in {emptied, QueryFailed} : listings' = [listings EXCEPT ![n].at = at]
    BY <1>2 DEF ServeList
  <2> DEFINE e == [filter |-> listings[n].filter, number |-> listings[n].number, at |-> at]
  <2>0. listings[n] \in T
    BY <1>0
  <2>1. [listings[n] EXCEPT !.at = at] = e
    BY <2>0 DEF T
  <2>2. listings' = [listings EXCEPT ![n] = e]
    <3>1. listings' = [listings EXCEPT ![n].at = at]
      BY <2>a
    <3>2. listings' = [listings EXCEPT ![n] = [listings[n] EXCEPT !.at = at]]
      BY <3>1, Zenon
    <3> HIDE DEF e
    <3> QED
      BY <3>2, <2>1
  <2>3. e \in T
    BY <1>0, <1>a DEF T, Read
  <2>4. listings' \in Seq(T) /\ DOMAIN listings' = DOMAIN listings /\ listings'[n] = e
        /\ \A i \in DOMAIN listings : i # n => listings'[i] = listings[i]
    <3> HIDE DEF e
    <3> QED
      BY <1>0, <2>2, <2>3, ExceptSeq
  <2>5. UNCHANGED <<filterParams, items, lists, listed, misread, clearing, cleared, emptied, lostClear>>
    BY <1>2 DEF ServeList, answeredVars, serverVars
  <2>6. LastIsPresent'
    <3>1. /\ e.filter = listings[n].filter /\ e.number = listings[n].number
          /\ e.at \in {Unread, QueryFailed, emptied}
      BY <2>a
    <3>2. \A i \in DOMAIN listings :
              listings[i].number = lists =>
                  /\ listings[i].filter = filterParams
                  /\ Unsure \/ listings[i].at \in {Unread, QueryFailed, emptied}
      BY DEF ListsInv, LastIsPresent
    <3> HIDE DEF e
    <3>3. \A i \in DOMAIN listings' :
              listings'[i].number = lists =>
                  /\ listings'[i].filter = filterParams
                  /\ Unsure \/ listings'[i].at \in {Unread, QueryFailed, emptied}
      BY <2>4, <3>1, <3>2
    <3>4. Unsure' = Unsure /\ emptied' = emptied
      BY <2>5 DEF Unsure
    <3> QED
      BY <2>5, <3>3, <3>4 DEF LastIsPresent, Unread, QueryFailed
  <2>7. ShownIsPresent' /\ ListTypes'
    BY <2>4, <2>5 DEF ListsInv, ListTypes, ShownIsPresent, Unsure, Read, Unread, QueryFailed, NoItems, T
  <2> QED
    BY <2>6, <2>7 DEF ListsInv
<1>3. ASSUME NEW n \in DOMAIN listings, listings' = RemoveAt(listings, n),
             UNCHANGED <<filterParams, lists, clearing, cleared, emptied, lostClear>>,
             \/ /\ listings[n].at # Unread
                /\ listed' = listings[n].number /\ misread' = (listings[n].at = QueryFailed)
                /\ items' = IF misread' THEN NoItems
                            ELSE [filter |-> listings[n].filter, at |-> listings[n].at]
             \/ UNCHANGED <<items, listed, misread>>
      PROVE  ListsInv'
  <2>1. /\ listings' \in Seq(T)
        /\ \A i \in DOMAIN listings' : \E j \in DOMAIN listings : listings'[i] = listings[j]
    BY <1>0, <1>3, Removed
  <2>2. LastIsPresent'
    BY <1>3, <2>1 DEF LastIsPresent, ListsInv, Unsure, Unread, QueryFailed
  <2>3. ListTypes' /\ ShownIsPresent'
    <3>1. CASE UNCHANGED <<items, listed, misread>>
      <4>1. ShownIsPresent'
        BY <1>3, <3>1 DEF ListsInv, ShownIsPresent, Unsure, NoItems
      <4>2. ListTypes'
        BY <1>3, <2>1, <3>1 DEF ListsInv, ListTypes, Read, Unread, QueryFailed, NoItems, T
      <4> QED
        BY <4>1, <4>2
    <3>2. CASE /\ listings[n].at # Unread
               /\ listed' = listings[n].number /\ misread' = (listings[n].at = QueryFailed)
               /\ items' = IF misread' THEN NoItems
                           ELSE [filter |-> listings[n].filter, at |-> listings[n].at]
      <4>1. CASE misread'
        <5>1. items' = NoItems /\ listed' \in 0..lists
          BY <1>0, <1>a, <3>2, <4>1
        <5>2. ShownIsPresent'
          BY <4>1, <5>1 DEF ShownIsPresent, NoItems
        <5>3. ListTypes'
          BY <1>3, <2>1, <5>1 DEF ListsInv, ListTypes, NoItems, Read, Unread, QueryFailed, T
        <5> QED
          BY <5>2, <5>3
      <4>2. CASE ~misread'
        <5>1. items'.filter = listings[n].filter /\ items'.at = listings[n].at
              /\ items' \in [filter : Filters, at : 0..cleared]
          BY <1>a, <3>2, <4>2 DEF Read
        <5>2. ShownIsPresent'
          BY <1>3, <3>2, <4>2, <5>1 DEF ListsInv, LastIsPresent, ShownIsPresent, Unsure
        <5>3. listed' \in 0..lists
          BY <1>0, <1>a, <3>2
        <5>4. ListTypes'
          BY <1>3, <2>1, <5>1, <5>3 DEF ListsInv, ListTypes, NoItems, Read, Unread, QueryFailed, T
        <5> QED
          BY <5>2, <5>4
      <4> QED
        BY <4>1, <4>2
    <3> QED
      BY <1>3, <3>1, <3>2
  <2> QED
    BY <2>2, <2>3 DEF ListsInv
<1>4. ASSUME UNCHANGED <<filterParams, items, lists, listed, misread, listings>>,
             \/ UNCHANGED <<cleared, emptied, clearing, lostClear>>
             \/ Clear \/ ServeClear \/ ClearFails
      PROVE  ListsInv'
  <2>1. /\ clearing' \in {"no", "asked", "done"}
        /\ Unsure' \/ (~Unsure /\ emptied' = emptied)
    <3>1. CASE UNCHANGED <<cleared, emptied, clearing, lostClear>>
      BY <3>1 DEF ListsInv, ListTypes, Unsure
    <3>2. CASE Clear
      BY <3>2 DEF Clear, serverVars, Unsure
    <3>3. CASE ServeClear
      BY <3>3 DEF ServeClear, Unsure
    <3>4. CASE ClearFails
      <4>1. lostClear' = (lostClear \/ clearing = "done") /\ clearing' = "no" /\ emptied' = emptied
        BY <3>4 DEF ClearFails, serverVars
      <4> QED
        BY <4>1 DEF Unsure
    <3> QED
      BY <1>4, <3>1, <3>2, <3>3, <3>4
  <2>2. cleared' \in 0..MaxClears /\ cleared <= cleared' /\ emptied' \in 0..cleared'
    <3>1. \/ cleared' = cleared /\ emptied' = emptied
          \/ cleared' = cleared + 1 /\ clearing = "asked" /\ emptied' \in {cleared', emptied}
      BY <1>4 DEF Clear, ServeClear, ClearFails, serverVars
    <3>2. cleared \in 0..MaxClears /\ (clearing = "asked" => cleared < MaxClears)
      BY DEF ListsInv, ListTypes
    <3> QED
      BY <1>0, <3>1, <3>2, RequestsPageAssumption
  <2>5. clearing' = "asked" => cleared' < MaxClears
    BY <1>4 DEF ListsInv, ListTypes, Clear, ServeClear, ClearFails, serverVars
  <2>3. ShownIsPresent' /\ LastIsPresent'
    <3>1. ShownIsPresent'
      BY <1>4, <2>1 DEF ListsInv, ShownIsPresent, NoItems
    <3>2. LastIsPresent'
      BY <1>4, <2>1 DEF ListsInv, LastIsPresent, Unread, QueryFailed
    <3> QED
      BY <3>1, <3>2
  <2>4. ListTypes'
    <3> DEFINE U == [filter : Filters, number : 1..lists, at : Read(cleared')]
    <3>1. T \subseteq U
      BY <1>0, <2>2 DEF T, Read
    <3>2. listings \in Seq(U)
      <4> HIDE DEF U
      <4> QED
        BY <1>0, <3>1, SeqMonotonic
    <3>3. items' = NoItems \/ items' \in [filter : Filters, at : 0..cleared']
      BY <1>0, <1>4, <2>2 DEF ListsInv, ListTypes
    <3> QED
      BY <1>4, <2>1, <2>2, <2>5, <3>2, <3>3 DEF ListsInv, ListTypes, NoItems, Read, Unread, QueryFailed
  <2> QED
    BY <2>3, <2>4 DEF ListsInv
<1> QED
  <2>0. filterParams \in Filters
    BY DEF ListsInv, ListTypes
  <2>1. CASE \E filter \in Filters : SetFilter(filter)
    BY <1>1, <2>1 DEF SetFilter, answeredVars, serverVars
  <2>2. CASE RefreshByHand \/ ClearReturns
    BY <1>1, <2>0, <2>2 DEF RefreshByHand, ClearReturns, answeredVars, serverVars
  <2>3. CASE \E n \in 1..MaxLists : ServeList(n)
    BY <1>2, <2>3 DEF ServeList
  <2>4. CASE \E n \in 1..MaxLists : ListArrives(n) \/ ListFails(n)
    BY <1>3, <2>4 DEF ListArrives, ListFails, answeredVars, serverVars
  <2>5. CASE Clear \/ ServeClear \/ ClearFails
    BY <1>4, <2>5 DEF Clear, ServeClear, ClearFails, listVars, answeredVars
  <2>6. CASE HandleSelect \/ UNCHANGED requestsVars
    BY <1>4, <2>6 DEF HandleSelect, requestsVars, listVars, answeredVars, serverVars
  <2> QED
    BY <2>1, <2>2, <2>3, <2>4, <2>5, <2>6 DEF RequestsPageNext

\* What the invariant says in the words of the properties.
LEMMA ListsMean == ListsInv /\ ListFlags => RequestsPageOK /\ ListIsCurrent
<1> SUFFICES ASSUME ListsInv, ListFlags PROVE RequestsPageOK /\ ListIsCurrent
  OBVIOUS
<1> DEFINE T == [filter : Filters, number : 1..lists, at : Read(cleared)]
           U == [filter : Filters, number : 1..lists, at : 0..QueryFailed]
<1>1. ListIsCurrent
  BY DEF ListsInv, ShownIsPresent, Unsure, ListIsCurrent
<1>2. cleared \in 0..MaxClears /\ Unread = MaxClears + 1 /\ QueryFailed = MaxClears + 2
  BY DEF ListsInv, ListTypes, Unread, QueryFailed
<1>3. T \subseteq U
  BY <1>2, RequestsPageAssumption DEF Read
<1>4. listings \in Seq(T)
  BY DEF ListsInv, ListTypes
<1> HIDE DEF T, U
<1>5. listings \in Seq(U)
  BY <1>3, <1>4, SeqMonotonic
<1>6. RequestsPageOK
  BY <1>5 DEF ListsInv, ListTypes, ListFlags, RequestsPageOK, U, NoItems
<1> QED
  BY <1>1, <1>6

----------------------------------------------------------------------------
\* The event socket of two tabs

\* One socket or one timer.
SocketInv ==
    /\ EventSocketOK
    /\ \/ liveSockets = {} /\ reconnects = 1
       \/ liveSockets = {eventSocket} /\ reconnects = 0

LEMMA SocketInitial == EventSocketInit => SocketInv
BY EventSocketAssumption DEF EventSocketInit, SocketInv, EventSocketOK

\* A close makes a timer of a socket, and a timer makes a socket again.
LEMMA SocketStep ==
    ASSUME SocketInv,
           \/ SocketNext
           \/ CloseSocket /\ tabMounted' \in BOOLEAN
           \/ UNCHANGED <<tabMounted, socketVars>>
    PROVE  SocketInv'
<1> USE EventSocketAssumption DEF SocketInv, EventSocketOK, socketVars
<1>1. ASSUME NEW s \in 1..MaxSocketsOpened, SocketOpens(s), UNCHANGED tabMounted PROVE SocketInv'
  BY <1>1 DEF SocketOpens
<1>2. ASSUME NEW s \in 1..MaxSocketsOpened, SocketCloses(s), UNCHANGED tabMounted PROVE SocketInv'
  BY <1>2 DEF SocketCloses
<1>3. CASE ReopenSocket /\ UNCHANGED tabMounted
  <2>1. liveSockets = {} /\ reconnects = 1 /\ openSockets = {}
    BY <1>3 DEF ReopenSocket
  <2>2. liveSockets' = {eventSocket'} /\ reconnects' = 0 /\ openSockets' = {}
    BY <1>3, <2>1 DEF ReopenSocket
  <2>3. opened' \in 1..MaxSocketsOpened /\ eventSocket' = opened'
    BY <1>3 DEF ReopenSocket
  <2> QED
    BY <1>3, <2>2, <2>3
<1>4. CASE CloseSocket /\ tabMounted' \in BOOLEAN
  BY <1>4 DEF CloseSocket
<1>5. CASE UNCHANGED <<tabMounted, socketVars>>
  BY <1>5
<1> QED
  BY <1>1, <1>2, <1>3, <1>4, <1>5 DEF SocketNext

\* One socket or one timer.
LEMMA SocketMeans == SocketInv => OneFeed
<1> SUFFICES ASSUME SocketInv PROVE OneFeed
  OBVIOUS
<1>1. CASE liveSockets = {} /\ reconnects = 1
  BY <1>1, FS_EmptySet DEF OneFeed
<1>2. CASE liveSockets = {eventSocket} /\ reconnects = 0
  BY <1>2, FS_Singleton DEF OneFeed
<1> QED
  BY <1>1, <1>2 DEF SocketInv

----------------------------------------------------------------------------
\* The tab of transactions

TabBounds ==
    /\ fetched \in 1..MaxFetched /\ filters \in 1..fetched
    /\ listAsked \in 1..fetched /\ listAnswered \in 0..listAsked
    /\ highlightAsked \in 0..fetched /\ highlightAnswered \in 0..highlightAsked
TabListTypes ==
    /\ tabLoading \in BOOLEAN
    /\ transactions \in 0..filters
    /\ listFetches \in Seq([filters : 1..filters, number : 1..listAsked])
TabTextTypes ==
    /\ selectedTransaction \in Transactions \cup {NoTransaction} /\ activeView \in Views
    /\ highlights \in Seq([of : Transactions, view : Views, number : 1..highlightAsked])
    /\ highlightedContent \in Shown

\* The list asked for last is of the filters that are set, and so is the list its
\* answer has brought.
LastListIsCurrent ==
    /\ \A n \in DOMAIN listFetches : listFetches[n].number = listAsked => listFetches[n].filters = filters
    /\ listAnswered = listAsked => transactions = filters
\* The same of the highlighted text.
LastTextIsCurrent ==
    /\ \A n \in DOMAIN highlights :
           highlights[n].number = highlightAsked =>
               highlights[n].of = selectedTransaction /\ highlights[n].view = activeView
    /\ highlightAnswered = highlightAsked =>
           highlightedContent = [of |-> selectedTransaction, view |-> activeView]

TabInv == TabBounds /\ TabListTypes /\ TabTextTypes /\ LastListIsCurrent /\ LastTextIsCurrent

LEMMA TabInitial == TrafficTabInit => TabInv
<1> SUFFICES ASSUME TrafficTabInit PROVE TabInv
  OBVIOUS
<1> DEFINE e == [filters |-> 1, number |-> 1]  T == [filters : 1..filters, number : 1..listAsked]
<1>1. /\ tabLoading = TRUE /\ filters = 1 /\ transactions = 0 /\ fetched = 1 /\ listFetches = <<e>>
      /\ listAsked = 1 /\ listAnswered = 0 /\ selectedTransaction = NoTransaction /\ activeView = "request"
      /\ highlights = <<>> /\ highlightedContent = NoText /\ highlightAsked = 0 /\ highlightAnswered = 0
  BY DEF TrafficTabInit
<1>2. e \in T /\ e.filters = 1
  BY <1>1
<1> HIDE DEF e, T
<1>3. listFetches \in Seq(T) /\ DOMAIN listFetches = {1} /\ listFetches[1] = e
  BY <1>1, <1>2
<1>4. TabBounds
  BY <1>1, TrafficTabAssumption DEF TabBounds
<1>5. TabListTypes
  <2>1. tabLoading \in BOOLEAN
    BY <1>1
  <2> QED
    BY <1>1, <1>3, <2>1 DEF TabListTypes, T
<1>6. TabTextTypes
  BY <1>1 DEF TabTextTypes, Views, Shown, NoText
<1>7. LastListIsCurrent
  BY <1>1, <1>2, <1>3 DEF LastListIsCurrent
<1>8. LastTextIsCurrent
  BY <1>1 DEF LastTextIsCurrent, NoText
<1> QED
  BY <1>4, <1>5, <1>6, <1>7, <1>8 DEF TabInv

\* The numbers keep their order whatever is asked for and answered.
LEMMA TabListsStep ==
    ASSUME TabInv, [TrafficTabNext]_<<tabLists, tabHighlights, fetched>>
    PROVE  /\ filters' \in 1..fetched' /\ listAsked' \in 1..fetched' /\ listAnswered' \in 0..listAsked'
           /\ TabListTypes' /\ LastListIsCurrent'
<1> DEFINE T == [filters : 1..filters, number : 1..listAsked]
           Goal == /\ filters' \in 1..fetched' /\ listAsked' \in 1..fetched' /\ listAnswered' \in 0..listAsked'
                   /\ TabListTypes' /\ LastListIsCurrent'
<1>0. /\ listFetches \in Seq(T) /\ fetched \in Nat /\ filters \in 1..fetched /\ listAsked \in 1..fetched
      /\ listAnswered \in 0..listAsked /\ transactions \in 0..filters /\ tabLoading \in BOOLEAN
  BY DEF TabInv, TabBounds, TabListTypes
<1>b. LastListIsCurrent
  BY DEF TabInv
<1> HIDE DEF T, Goal
<1>a. ASSUME NEW n \in DOMAIN listFetches
      PROVE  listFetches[n].filters \in 1..filters /\ listFetches[n].number \in 1..listAsked
  <2>1. listFetches[n] \in T
    BY <1>0
  <2> QED
    BY <2>1 DEF T
<1>1. ASSUME NEW edition \in {filters, filters + 1}, FetchTransactions(edition), filters' = edition
      PROVE  Goal
  <2> DEFINE U == [filters : 1..edition, number : 1..(fetched + 1)]
             e == [filters |-> edition, number |-> fetched + 1]
  <2>1. /\ fetched' = fetched + 1 /\ tabLoading' = TRUE /\ listFetches' = Append(listFetches, e)
        /\ listAsked' = fetched + 1 /\ UNCHANGED <<transactions, listAnswered>>
    BY <1>1 DEF FetchTransactions
  <2>2. T \subseteq U /\ e \in U /\ e.filters = edition
    BY <1>0 DEF T
  <2>3. listFetches \in Seq(U)
    <3> HIDE DEF U
    <3> QED
      BY <1>0, <2>2, SeqMonotonic
  <2>4. \A n \in DOMAIN listFetches : listFetches[n].number # fetched + 1
    BY <1>0, <1>a
  <2> HIDE DEF U, e
  <2>5. listFetches' \in Seq(U) /\ \A i \in DOMAIN listFetches' :
            \/ i \in DOMAIN listFetches /\ listFetches'[i] = listFetches[i]
            \/ listFetches'[i] = e
    BY <2>1, <2>2, <2>3, Appended
  <2>6. filters' \in 1..fetched' /\ listAsked' \in 1..fetched' /\ listAnswered' \in 0..listAsked'
        /\ transactions' \in 0..filters' /\ listAnswered' # listAsked'
    BY <1>0, <1>1, <2>1
  <2>7. LastListIsCurrent'
    BY <1>1, <2>1, <2>2, <2>4, <2>5, <2>6 DEF LastListIsCurrent
  <2>8. TabListTypes'
    <3>1. tabLoading' \in BOOLEAN
      BY <2>1
    <3> QED
      BY <1>1, <2>1, <2>5, <2>6, <3>1 DEF TabListTypes, U
  <2> QED
    BY <2>6, <2>7, <2>8 DEF Goal
<1>2. ASSUME NEW n \in DOMAIN listFetches, ListFetched(n)
      PROVE  Goal
  <2>0. /\ listFetches' = RemoveAt(listFetches, n) /\ tabLoading' = FALSE
        /\ UNCHANGED <<filters, listAsked, fetched>>
        /\ \/ transactions' = listFetches[n].filters /\ listAnswered' = listFetches[n].number
           \/ UNCHANGED <<transactions, listAnswered>>
    BY <1>2 DEF ListFetched
  <2>1. /\ listFetches' \in Seq(T)
        /\ \A i \in DOMAIN listFetches' : \E j \in DOMAIN listFetches : listFetches'[i] = listFetches[j]
    BY <1>0, <2>0, Removed
  <2>2. listAnswered' \in 0..listAsked /\ transactions' \in 0..filters
    BY <1>0, <1>a, <2>0
  <2>3. LastListIsCurrent'
    BY <1>b, <2>0, <2>1 DEF LastListIsCurrent
  <2>4. tabLoading' \in BOOLEAN
    BY <2>0
  <2>5. TabListTypes'
    BY <2>0, <2>1, <2>2, <2>4 DEF TabListTypes, T
  <2> QED
    BY <1>0, <2>0, <2>2, <2>3, <2>5 DEF Goal
<1>3. ASSUME UNCHANGED tabLists, fetched' \in {fetched, fetched + 1} PROVE Goal
  <2>1. filters' \in 1..fetched' /\ listAsked' \in 1..fetched' /\ listAnswered' \in 0..listAsked'
    BY <1>0, <1>3 DEF tabLists
  <2>2. TabListTypes' /\ LastListIsCurrent'
    BY <1>0, <1>3, <1>b DEF tabLists, TabListTypes, LastListIsCurrent, T
  <2> QED
    BY <2>1, <2>2 DEF Goal
<1> SUFFICES Goal
  BY DEF Goal
<1>4. CASE Event \/ ChangeFilters
  BY <1>1, <1>4 DEF Event, ChangeFilters
<1>5. CASE \E n \in 1..MaxFetched : ListFetched(n)
  BY <1>2, <1>5 DEF ListFetched
<1>6. CASE \/ SocketNext /\ UNCHANGED <<tabLists, tabHighlights, fetched>>
           \/ LeaveTab
           \/ \E n \in 1..MaxFetched : HighlightFetched(n)
           \/ UNCHANGED <<tabLists, tabHighlights, fetched>>
  BY <1>3, <1>6 DEF LeaveTab, HighlightFetched
<1>7. CASE (\E tx \in Transactions : SelectTransaction(tx)) \/ (\E view \in Views : SwitchView(view))
  BY <1>3, <1>7 DEF SelectTransaction, SwitchView, FetchHighlighted
<1> QED
  BY <1>4, <1>5, <1>6, <1>7 DEF TrafficTabNext

\* The same for the highlighted text.
LEMMA TabTextStep ==
    ASSUME TabInv, [TrafficTabNext]_<<tabLists, tabHighlights, fetched>>
    PROVE  /\ fetched' \in 1..MaxFetched /\ highlightAsked' \in 0..fetched'
           /\ highlightAnswered' \in 0..highlightAsked'
           /\ TabTextTypes' /\ LastTextIsCurrent'
<1> DEFINE T == [of : Transactions, view : Views, number : 1..highlightAsked]
           Goal == /\ fetched' \in 1..MaxFetched /\ highlightAsked' \in 0..fetched'
                   /\ highlightAnswered' \in 0..highlightAsked'
                   /\ TabTextTypes' /\ LastTextIsCurrent'
<1>0. /\ highlights \in Seq(T) /\ fetched \in 1..MaxFetched /\ fetched \in Nat
      /\ highlightAsked \in 0..fetched /\ highlightAnswered \in 0..highlightAsked
      /\ selectedTransaction \in Transactions \cup {NoTransaction} /\ activeView \in Views
      /\ highlightedContent \in Shown /\ MaxFetched \in Nat
  BY TrafficTabAssumption DEF TabInv, TabBounds, TabTextTypes
<1>b. LastTextIsCurrent
  BY DEF TabInv
<1> HIDE DEF T
<1>a. ASSUME NEW n \in DOMAIN highlights
      PROVE  /\ highlights[n].of \in Transactions /\ highlights[n].view \in Views
             /\ highlights[n].number \in 1..highlightAsked
  <2>1. highlights[n] \in T
    BY <1>0
  <2> QED
    BY <2>1 DEF T
<1> SUFFICES Goal
  OBVIOUS
<1> HIDE DEF Goal
<1>1. ASSUME NEW tx \in Transactions, NEW view \in Views, FetchHighlighted(tx, view),
             selectedTransaction' = tx, activeView' = view
      PROVE  Goal
  <2> DEFINE U == [of : Transactions, view : Views, number : 1..(fetched + 1)]
             e == [of |-> tx, view |-> view, number |-> fetched + 1]
  <2>1. /\ fetched < MaxFetched /\ fetched' = fetched + 1 /\ highlights' = Append(highlights, e)
        /\ highlightAsked' = fetched + 1 /\ UNCHANGED <<highlightedContent, highlightAnswered>>
    BY <1>1 DEF FetchHighlighted
  <2>2. T \subseteq U /\ e \in U /\ e.of = tx /\ e.view = view
    BY <1>0 DEF T
  <2>3. highlights \in Seq(U)
    <3> HIDE DEF U
    <3> QED
      BY <1>0, <2>2, SeqMonotonic
  <2>4. \A n \in DOMAIN highlights : highlights[n].number # fetched + 1
    BY <1>0, <1>a
  <2> HIDE DEF U, e
  <2>5. highlights' \in Seq(U) /\ \A i \in DOMAIN highlights' :
            \/ i \in DOMAIN highlights /\ highlights'[i] = highlights[i]
            \/ highlights'[i] = e
    BY <2>1, <2>2, <2>3, Appended
  <2>6. fetched' \in 1..MaxFetched /\ highlightAsked' \in 0..fetched' /\ highlightAnswered' \in 0..highlightAsked'
        /\ highlightAnswered' # highlightAsked'
    BY <1>0, <2>1
  <2>7. LastTextIsCurrent'
    BY <1>1, <2>1, <2>2, <2>4, <2>5, <2>6 DEF LastTextIsCurrent
  <2>8. TabTextTypes'
    BY <1>0, <1>1, <2>1, <2>5 DEF TabTextTypes, U
  <2> QED
    BY <2>6, <2>7, <2>8 DEF Goal
<1>2. ASSUME NEW n \in DOMAIN highlights, HighlightFetched(n)
      PROVE  Goal
  <2>0. /\ highlights' = RemoveAt(highlights, n)
        /\ UNCHANGED <<selectedTransaction, activeView, highlightAsked, fetched>>
        /\ \/ /\ highlightedContent' = [of |-> highlights[n].of, view |-> highlights[n].view]
              /\ highlightAnswered' = highlights[n].number
           \/ UNCHANGED <<highlightedContent, highlightAnswered>>
    BY <1>2 DEF HighlightFetched
  <2>1. /\ highlights' \in Seq(T)
        /\ \A i \in DOMAIN highlights' : \E j \in DOMAIN highlights : highlights'[i] = highlights[j]
    BY <1>0, <2>0, Removed
  <2>2. highlightAnswered' \in 0..highlightAsked /\ highlightedContent' \in Shown
    BY <1>0, <1>a, <2>0 DEF Shown
  <2>3. LastTextIsCurrent'
    BY <1>b, <2>0, <2>1 DEF LastTextIsCurrent
  <2>5. TabTextTypes'
    BY <1>0, <2>0, <2>1, <2>2 DEF TabTextTypes, T
  <2> QED
    BY <1>0, <2>0, <2>2, <2>3, <2>5 DEF Goal
<1>3. ASSUME UNCHANGED tabHighlights, fetched' = fetched \/ (fetched' = fetched + 1 /\ fetched < MaxFetched)
      PROVE Goal
  <2>1. fetched' \in 1..MaxFetched /\ highlightAsked' \in 0..fetched' /\ highlightAnswered' \in 0..highlightAsked'
    BY <1>0, <1>3 DEF tabHighlights
  <2>2. TabTextTypes' /\ LastTextIsCurrent'
    BY <1>0, <1>3, <1>b DEF tabHighlights, TabTextTypes, LastTextIsCurrent, T
  <2> QED
    BY <2>1, <2>2 DEF Goal
<1>4. CASE Event \/ ChangeFilters
  BY <1>3, <1>4 DEF Event, ChangeFilters, FetchTransactions
<1>5. CASE \E n \in 1..MaxFetched : HighlightFetched(n)
  BY <1>2, <1>5 DEF HighlightFetched
<1>6. CASE \/ SocketNext /\ UNCHANGED <<tabLists, tabHighlights, fetched>>
           \/ LeaveTab
           \/ \E n \in 1..MaxFetched : ListFetched(n)
           \/ UNCHANGED <<tabLists, tabHighlights, fetched>>
  BY <1>3, <1>6 DEF LeaveTab, ListFetched
<1>7. CASE \E tx \in Transactions : SelectTransaction(tx)
  BY <1>1, <1>7 DEF SelectTransaction, Views
<1>8. CASE \E view \in Views : SwitchView(view)
  BY <1>0, <1>1, <1>8 DEF SwitchView
<1> QED
  BY <1>4, <1>5, <1>6, <1>7, <1>8 DEF TrafficTabNext

LEMMA TabStep ==
    ASSUME TabInv, [TrafficTabNext]_<<tabLists, tabHighlights, fetched>>
    PROVE  TabInv'
BY TabListsStep, TabTextStep DEF TabInv, TabBounds

\* What the invariant says in the words of the properties.
LEMMA TabMeans == TabInv /\ EventSocketOK => TrafficTabOK /\ TabIsCurrent
<1> SUFFICES ASSUME TabInv, EventSocketOK PROVE TrafficTabOK /\ TabIsCurrent
  OBVIOUS
<1> DEFINE T == [filters : 1..filters, number : 1..listAsked]
           U == [filters : 1..filters, number : 1..fetched]
           V == [of : Transactions, view : Views, number : 1..highlightAsked]
           W == [of : Transactions, view : Views, number : 1..fetched]
<1>1. TabBounds /\ MaxFetched \in Nat
  BY TrafficTabAssumption DEF TabInv
<1>2. T \subseteq U /\ V \subseteq W
  BY <1>1 DEF TabBounds
<1>3. listFetches \in Seq(T) /\ highlights \in Seq(V)
  BY DEF TabInv, TabListTypes, TabTextTypes
<1> HIDE DEF T, U, V, W
<1>4. listFetches \in Seq(U) /\ highlights \in Seq(W)
  BY <1>2, <1>3, SeqMonotonic
<1>5. fetched \in 0..MaxFetched /\ filters \in 1..(MaxFetched + 1)
  BY <1>1 DEF TabBounds
<1>6. TrafficTabOK
  BY <1>4, <1>5 DEF TrafficTabOK, TabInv, TabListTypes, TabTextTypes, U, W
<1>7. TabIsCurrent
  BY DEF TabInv, LastListIsCurrent, LastTextIsCurrent, TabIsCurrent
<1> QED
  BY <1>6, <1>7

----------------------------------------------------------------------------
\* The tab of captured frames

\* Numbers of the questions of one kind: none is answered that was not asked.
Asked(at) == at \in Numbers /\ at.answered <= at.asked

PeerFlags == loadingPeers \in BOOLEAN
PeerTypes == peerFetches \in Nat /\ viewMode \in {"list", "compare"}

\* The frames asked for last are of the connection that is selected, and so are
\* those their answer has brought.
PeerFrames ==
    /\ questions \in 0..MaxQuestions
    /\ Asked(framesAt)
    /\ selectedPeer \in Peers \cup {Null} /\ shownFrames \in Peers \cup {Null}
    /\ frameFetches \in Seq([of : Peers, number : 1..framesAt.asked])
    /\ \A n \in DOMAIN frameFetches :
           frameFetches[n].number = framesAt.asked => frameFetches[n].of = selectedPeer
    /\ framesAt.answered = framesAt.asked => shownFrames = selectedPeer

\* While two frames are beside each other, the difference asked for last is theirs.
PairDiff ==
    /\ Asked(diffAt)
    /\ selectedFrame \in Frames \cup {Null} /\ compareFrame \in Frames \cup {Null}
    /\ diffResult = Null \/ diffResult \in Frames \X Frames
    /\ diffs \in Seq([of : Frames \X Frames, number : 1..diffAt.asked])
    /\ compareFrame # Null =>
           /\ \A n \in DOMAIN diffs :
                  diffs[n].number = diffAt.asked => diffs[n].of = <<selectedFrame, compareFrame>>
           /\ diffAt.answered = diffAt.asked => diffResult = <<selectedFrame, compareFrame>>

LEMMA WsTabInitial == WebSocketTabInit => PeerFlags /\ PeerTypes /\ PeerFrames /\ PairDiff
<1> SUFFICES ASSUME WebSocketTabInit PROVE PeerFlags /\ PeerTypes /\ PeerFrames /\ PairDiff
  OBVIOUS
<1>1. PeerFlags
  BY DEF WebSocketTabInit, PeerFlags
<1>2. PeerTypes
  BY DEF WebSocketTabInit, PeerTypes
<1>3. PeerFrames
  BY WebSocketTabAssumption DEF WebSocketTabInit, PeerFrames, Asked, Numbers
<1>4. PairDiff
  BY WebSocketTabAssumption DEF WebSocketTabInit, PairDiff, Asked, Numbers
<1> QED
  BY <1>1, <1>2, <1>3, <1>4

LEMMA PeersStep ==
    ASSUME PeerFlags, PeerTypes, [WebSocketTabNext]_<<peerVars, shownVars, compareVars, questions>>
    PROVE  PeerFlags' /\ PeerTypes'
<1> USE DEF WebSocketTabNext, FetchPeers, PeersFetched, FrameCaptured, SelectPeer, SelectFrame, FramesFetched,
            DiffFetched, SetMode, LeaveWsTab, peerVars, compareVars
<1>1. PeerFlags'
  BY DEF PeerFlags
<1>2. \/ peerFetches' = peerFetches
      \/ peerFetches' = peerFetches + 1
      \/ peerFetches > 0 /\ peerFetches' = peerFetches - 1
  OBVIOUS
<1>3. viewMode' \in {viewMode, "list", "compare"}
  OBVIOUS
<1>4. PeerTypes'
  BY ONLY PeerTypes, <1>2, <1>3 DEF PeerTypes
<1> QED
  BY <1>1, <1>4

\* An answer that is not to the last question leaves its own number.
LEMMA PeerFramesStep ==
    ASSUME PeerFrames, [WebSocketTabNext]_<<peerVars, shownVars, compareVars, questions>>
    PROVE  PeerFrames'
<1> DEFINE latest == framesAt.asked  T == [of : Peers, number : 1..latest]
<1>0. /\ questions \in 0..MaxQuestions /\ questions \in Nat /\ MaxQuestions \in Nat
      /\ latest \in 0..questions /\ framesAt.answered \in 0..questions /\ framesAt.answered <= latest
      /\ framesAt = [asked |-> latest, answered |-> framesAt.answered]
      /\ frameFetches \in Seq(T)
      /\ selectedPeer \in Peers \cup {Null} /\ shownFrames \in Peers \cup {Null}
  BY WebSocketTabAssumption DEF PeerFrames, Asked, Numbers
<1> HIDE DEF T
<1>a. ASSUME NEW n \in DOMAIN frameFetches
      PROVE  frameFetches[n].of \in Peers /\ frameFetches[n].number \in 1..latest
  <2>1. frameFetches[n] \in T
    BY <1>0
  <2> QED
    BY <2>1 DEF T
<1>1. ASSUME NEW id \in Peers, FetchFrames(id), selectedPeer' = id PROVE PeerFrames'
  <2> DEFINE U == [of : Peers, number : 1..(questions + 1)]
             e == [of |-> id, number |-> questions + 1]
  <2>1. /\ questions < MaxQuestions /\ questions' = questions + 1
        /\ frameFetches' = Append(frameFetches, e) /\ shownFrames' = shownFrames
        /\ framesAt' = [framesAt EXCEPT !.asked = questions + 1]
    BY <1>1 DEF FetchFrames
  <2>2. framesAt' = [asked |-> questions + 1, answered |-> framesAt.answered]
    BY <1>0, <2>1
  <2>3. framesAt'.asked = questions + 1 /\ framesAt'.answered = framesAt.answered
    BY <2>2
  <2>4. T \subseteq U /\ e \in U /\ e.of = id
    BY <1>0 DEF T
  <2>5. frameFetches \in Seq(U)
    <3> HIDE DEF U
    <3> QED
      BY <1>0, <2>4, SeqMonotonic
  <2>6. \A n \in DOMAIN frameFetches : frameFetches[n].number # questions + 1
    BY <1>0, <1>a
  <2> HIDE DEF U, e
  <2>7. frameFetches' \in Seq(U) /\ \A i \in DOMAIN frameFetches' :
            \/ i \in DOMAIN frameFetches /\ frameFetches'[i] = frameFetches[i]
            \/ frameFetches'[i] = e
    BY <2>1, <2>4, <2>5, Appended
  <2>8. Asked(framesAt)'
    BY <1>0, <2>1, <2>2 DEF Asked, Numbers
  <2>9. frameFetches' \in Seq([of : Peers, number : 1..framesAt'.asked])
    BY <2>3, <2>7 DEF U
  <2>10. \A n \in DOMAIN frameFetches' :
             frameFetches'[n].number = framesAt'.asked => frameFetches'[n].of = selectedPeer'
    BY <1>1, <2>3, <2>4, <2>6, <2>7
  <2>11. framesAt'.answered # framesAt'.asked /\ questions' \in 0..MaxQuestions
    BY <1>0, <2>1, <2>3
  <2> QED
    BY <1>0, <1>1, <2>1, <2>8, <2>9, <2>10, <2>11 DEF PeerFrames
<1>2. ASSUME NEW n \in DOMAIN frameFetches, FramesFetched(n) PROVE PeerFrames'
  <2>0. /\ frameFetches' = RemoveAt(frameFetches, n) /\ UNCHANGED <<selectedPeer, questions>>
        /\ \/ /\ shownFrames' = frameFetches[n].of
              /\ framesAt' = [framesAt EXCEPT !.answered = frameFetches[n].number]
           \/ UNCHANGED <<shownFrames, framesAt>>
    BY <1>2 DEF FramesFetched
  <2>1. /\ frameFetches' \in Seq(T)
        /\ \A i \in DOMAIN frameFetches' : \E j \in DOMAIN frameFetches : frameFetches'[i] = frameFetches[j]
    BY <1>0, <2>0, Removed
  <2>2. \/ /\ shownFrames' = frameFetches[n].of
           /\ framesAt' = [asked |-> latest, answered |-> frameFetches[n].number]
        \/ UNCHANGED <<shownFrames, framesAt>>
    BY <1>0, <2>0
  <2>3. framesAt'.asked = latest
    BY <2>2
  <2>4. Asked(framesAt)'
    BY <1>0, <1>a, <2>0, <2>2 DEF Asked, Numbers
  <2>5. frameFetches' \in Seq([of : Peers, number : 1..framesAt'.asked])
    BY <2>1, <2>3 DEF T
  <2>6. \A i \in DOMAIN frameFetches' :
             frameFetches'[i].number = framesAt'.asked => frameFetches'[i].of = selectedPeer'
    BY <2>0, <2>1, <2>3 DEF PeerFrames
  <2>7. framesAt'.answered = framesAt'.asked => shownFrames' = selectedPeer'
    BY <2>0, <2>2 DEF PeerFrames
  <2>8. shownFrames' \in Peers \cup {Null}
    BY <1>0, <1>a, <2>2
  <2> QED
    BY <1>0, <2>0, <2>4, <2>5, <2>6, <2>7, <2>8 DEF PeerFrames
<1>3. ASSUME UNCHANGED shownVars, questions' = questions \/ (questions < MaxQuestions /\ questions' = questions + 1)
      PROVE  PeerFrames'
  <2>1. questions' \in 0..MaxQuestions /\ questions <= questions'
    BY <1>0, <1>3
  <2>2. Asked(framesAt)'
    BY <1>0, <1>3, <2>1 DEF shownVars, Asked, Numbers
  <2> QED
    BY <1>3, <2>1, <2>2 DEF shownVars, PeerFrames
<1>4. CASE (\E id \in Peers : SelectPeer(id)) \/ FrameCaptured
  BY <1>0, <1>1, <1>4 DEF SelectPeer, FrameCaptured
<1>5. CASE \E n \in 1..MaxQuestions : FramesFetched(n)
  BY <1>2, <1>5 DEF FramesFetched
<1>6. CASE \E frame \in Frames : SelectFrame(frame)
  BY <1>3, <1>6 DEF SelectFrame
<1>7. CASE \/ SocketNext /\ UNCHANGED <<peerVars, shownVars, compareVars, questions>>
           \/ FetchPeers \/ PeersFetched \/ LeaveWsTab
           \/ \E n \in 1..MaxQuestions : DiffFetched(n)
           \/ \E mode \in {"list", "compare"} : SetMode(mode)
           \/ UNCHANGED <<peerVars, shownVars, compareVars, questions>>
  BY <1>3, <1>7 DEF FetchPeers, PeersFetched, LeaveWsTab, DiffFetched, SetMode
<1> QED
  BY <1>4, <1>5, <1>6, <1>7 DEF WebSocketTabNext

\* The pair changes only with a question about it, or is no pair any more.
LEMMA PairDiffStep ==
    ASSUME PairDiff, questions \in 0..MaxQuestions,
           [WebSocketTabNext]_<<peerVars, shownVars, compareVars, questions>>
    PROVE  PairDiff'
<1> DEFINE latest == diffAt.asked  T == [of : Frames \X Frames, number : 1..latest]
<1>0. /\ questions \in Nat /\ MaxQuestions \in Nat
      /\ latest \in 0..questions /\ diffAt.answered \in 0..questions /\ diffAt.answered <= latest
      /\ diffAt = [asked |-> latest, answered |-> diffAt.answered]
      /\ diffs \in Seq(T)
      /\ selectedFrame \in Frames \cup {Null} /\ compareFrame \in Frames \cup {Null}
      /\ diffResult = Null \/ diffResult \in Frames \X Frames
  BY WebSocketTabAssumption DEF PairDiff, Asked, Numbers
<1> HIDE DEF T
<1>a. ASSUME NEW n \in DOMAIN diffs
      PROVE  diffs[n].of \in Frames \X Frames /\ diffs[n].number \in 1..latest
  <2>1. diffs[n] \in T
    BY <1>0
  <2> QED
    BY <2>1 DEF T
<1>1. ASSUME NEW frame \in Frames, selectedFrame \in Frames, questions < MaxQuestions, questions' = questions + 1,
             compareFrame' = frame, UNCHANGED <<selectedFrame, diffResult>>,
             diffs' = Append(diffs, [of |-> <<selectedFrame, frame>>, number |-> questions']),
             diffAt' = [diffAt EXCEPT !.asked = questions']
      PROVE PairDiff'
  <2> DEFINE U == [of : Frames \X Frames, number : 1..(questions + 1)]
             e == [of |-> <<selectedFrame, frame>>, number |-> questions + 1]
  <2>1. diffs' = Append(diffs, e)
    BY <1>1
  <2>2. diffAt' = [asked |-> questions + 1, answered |-> diffAt.answered]
    BY <1>0, <1>1
  <2>3. diffAt'.asked = questions + 1 /\ diffAt'.answered = diffAt.answered
    BY <2>2
  <2>4. T \subseteq U /\ e \in U /\ e.of = <<selectedFrame', compareFrame'>>
    BY <1>0, <1>1 DEF T
  <2>5. diffs \in Seq(U)
    <3> HIDE DEF U
    <3> QED
      BY <1>0, <2>4, SeqMonotonic
  <2>6. \A n \in DOMAIN diffs : diffs[n].number # questions + 1
    BY <1>0, <1>a
  <2> HIDE DEF U, e
  <2>7. diffs' \in Seq(U) /\ \A i \in DOMAIN diffs' :
            \/ i \in DOMAIN diffs /\ diffs'[i] = diffs[i]
            \/ diffs'[i] = e
    BY <2>1, <2>4, <2>5, Appended
  <2>8. Asked(diffAt)'
    <3>1. questions + 1 \in 0..questions' /\ diffAt.answered \in 0..questions' /\ diffAt.answered <= questions + 1
      BY <1>0, <1>1
    <3> QED
      BY ONLY <2>2, <3>1 DEF Asked, Numbers
  <2>9. diffs' \in Seq([of : Frames \X Frames, number : 1..diffAt'.asked])
    BY <2>3, <2>7 DEF U
  <2>10. \A n \in DOMAIN diffs' :
             diffs'[n].number = diffAt'.asked => diffs'[n].of = <<selectedFrame', compareFrame'>>
    BY <2>3, <2>4, <2>6, <2>7
  <2>11. diffAt'.answered # diffAt'.asked
    BY <1>0, <2>3
  <2> QED
    BY <1>0, <1>1, <2>8, <2>9, <2>10, <2>11 DEF PairDiff
<1>2. ASSUME NEW n \in DOMAIN diffs, DiffFetched(n) PROVE PairDiff'
  <2>0. /\ diffs' = RemoveAt(diffs, n) /\ UNCHANGED <<selectedFrame, compareFrame, questions>>
        /\ \/ diffResult' = diffs[n].of /\ diffAt' = [diffAt EXCEPT !.answered = diffs[n].number]
           \/ UNCHANGED <<diffResult, diffAt>>
    BY <1>2 DEF DiffFetched
  <2>1. /\ diffs' \in Seq(T)
        /\ \A i \in DOMAIN diffs' : \E j \in DOMAIN diffs : diffs'[i] = diffs[j]
    BY <1>0, <2>0, Removed
  <2>2. \/ diffResult' = diffs[n].of /\ diffAt' = [asked |-> latest, answered |-> diffs[n].number]
        \/ UNCHANGED <<diffResult, diffAt>>
    BY <1>0, <2>0
  <2>3. diffAt'.asked = latest
    BY <2>2
  <2>4. Asked(diffAt)'
    BY <1>0, <1>a, <2>0, <2>2 DEF Asked, Numbers
  <2>5. diffs' \in Seq([of : Frames \X Frames, number : 1..diffAt'.asked])
    BY <2>1, <2>3 DEF T
  <2>6. compareFrame # Null => \A i \in DOMAIN diffs' :
             diffs'[i].number = diffAt'.asked => diffs'[i].of = <<selectedFrame, compareFrame>>
    BY <2>1, <2>3 DEF PairDiff
  <2>7. compareFrame # Null /\ diffAt'.answered = diffAt'.asked => diffResult' = <<selectedFrame, compareFrame>>
    BY <2>2 DEF PairDiff
  <2>8. diffResult' = Null \/ diffResult' \in Frames \X Frames
    BY <1>0, <1>a, <2>2
  <2> QED
    BY <1>0, <2>0, <2>4, <2>5, <2>6, <2>7, <2>8 DEF PairDiff
<1>3. ASSUME UNCHANGED <<diffs, diffAt>>, questions' = questions \/ questions' = questions + 1,
             \/ UNCHANGED <<selectedFrame, compareFrame, diffResult>>
             \/ /\ compareFrame' = Null /\ diffResult' = Null
                /\ selectedFrame' \in Frames \cup {Null}
      PROVE  PairDiff'
  <2>1. Asked(diffAt)'
    BY <1>0, <1>3 DEF Asked, Numbers
  <2> QED
    BY <1>3, <2>1 DEF PairDiff
<1>4. CASE \E frame \in Frames : SelectFrame(frame)
  <2> PICK frame \in Frames : SelectFrame(frame)
    BY <1>4
  <2>1. CASE viewMode = "compare" /\ selectedFrame \notin {Null, frame}
    <3>1. selectedFrame \in Frames
      BY <1>0, <2>1
    <3> QED
      BY <1>1, <2>1, <3>1 DEF SelectFrame
  <2>2. CASE ~(viewMode = "compare" /\ selectedFrame \notin {Null, frame})
    BY <1>3, <2>2 DEF SelectFrame
  <2> QED
    BY <2>1, <2>2
<1>5. CASE \E n \in 1..MaxQuestions : DiffFetched(n)
  BY <1>2, <1>5 DEF DiffFetched
<1>6. CASE (\E id \in Peers : SelectPeer(id)) \/ FrameCaptured
  BY <1>3, <1>6 DEF SelectPeer, FrameCaptured, FetchFrames, compareVars
<1>7. CASE \/ SocketNext /\ UNCHANGED <<peerVars, shownVars, compareVars, questions>>
           \/ FetchPeers \/ PeersFetched \/ LeaveWsTab
           \/ \E n \in 1..MaxQuestions : FramesFetched(n)
           \/ UNCHANGED <<peerVars, shownVars, compareVars, questions>>
  BY <1>3, <1>7 DEF FetchPeers, PeersFetched, LeaveWsTab, FramesFetched, compareVars
<1>8. CASE \E mode \in {"list", "compare"} : SetMode(mode)
  BY <1>0, <1>3, <1>8 DEF SetMode
<1> QED
  BY <1>4, <1>5, <1>6, <1>7, <1>8 DEF WebSocketTabNext

\* What the invariants say in the words of the properties.
LEMMA WsTabMeans ==
    PeerFlags /\ PeerTypes /\ PeerFrames /\ PairDiff /\ EventSocketOK => WebSocketTabOK /\ FramesAndDiffAreAsked
<1> SUFFICES ASSUME PeerFlags, PeerTypes, PeerFrames, PairDiff, EventSocketOK
             PROVE  WebSocketTabOK /\ FramesAndDiffAreAsked
  OBVIOUS
<1>1. WebSocketTabOK
  BY DEF WebSocketTabOK, PeerFlags, PeerTypes, PeerFrames, PairDiff, Asked
<1>2. FramesAndDiffAreAsked
  BY DEF FramesAndDiffAreAsked, PeerFrames, PairDiff
<1> QED
  BY <1>1, <1>2

----------------------------------------------------------------------------
\* The tab of the scope

ScopeFlags == edited \in BOOLEAN /\ scopeDoubt \in BOOLEAN
ScopeTypes ==
    /\ pageScope \in Scopes /\ serverScope \in Scopes /\ toSave \in Scopes
    /\ loads \in Seq(Answers)
    /\ saving \in {"no", "sent", "done", "refused"}
    /\ scopeCalls \in 0..MaxScopeCalls /\ scopeEdits \in 0..MaxScopeEdits

\* What the server holds, and what it is sent, has no blank pattern.
NothingBlank == Blank \notin serverScope /\ Blank \notin toSave /\ (saving = "done" => serverScope = toSave)

\* Without doubt a load and a save are not under way together, a load that was
\* served carries what is in force, and so does the page, until a save is done.
WithoutDoubt ==
    ~scopeDoubt =>
        /\ loads = <<>> \/ saving = "no"
        /\ \A n \in DOMAIN loads : loads[n].served => loads[n].scope = serverScope
        /\ ~edited /\ saving # "done" => Clean(pageScope) = serverScope

ScopeInv == ScopeFlags /\ ScopeTypes /\ NothingBlank /\ WithoutDoubt

\* The answers to a load, by kind.
LEMMA AnswerTypes ==
    /\ NotServed \in Answers /\ ~NotServed.served
    /\ \A scope \in Scopes : [served |-> TRUE, scope |-> scope] \in Answers
    /\ \A answer \in Answers : answer.served => answer.scope \in Scopes
<1>1. NotServed \in Answers /\ ~NotServed.served
  BY DEF NotServed, Answers
<1>2. ASSUME NEW scope \in Scopes PROVE [served |-> TRUE, scope |-> scope] \in Answers
  BY DEF Answers
<1>3. ASSUME NEW answer \in Answers, answer.served PROVE answer.scope \in Scopes
  <2>1. answer # NotServed
    BY <1>1, <1>3
  <2>2. answer \in [served : {TRUE}, scope : Scopes]
    BY <2>1 DEF Answers
  <2> QED
    BY <2>2
<1> QED
  BY <1>1, <1>2, <1>3

LEMMA ScopeInitial == ScopeTabInit => ScopeInv
<1> SUFFICES ASSUME ScopeTabInit PROVE ScopeInv
  OBVIOUS
<1>1. ScopeFlags
  BY DEF ScopeTabInit, ScopeFlags
<1>2. loads = <<NotServed>> /\ loads \in Seq(Answers)
  BY AnswerTypes DEF ScopeTabInit
<1>3. ScopeTypes
  BY <1>2, ScopeTabAssumption DEF ScopeTabInit, ScopeTypes, Clean
<1>4. NothingBlank
  BY DEF ScopeTabInit, NothingBlank, Clean
<1>5. WithoutDoubt
  <2>1. saving = "no" /\ pageScope = {} /\ scopeDoubt = (serverScope # {})
    BY DEF ScopeTabInit
  <2>2. ~scopeDoubt => Clean(pageScope) = serverScope
    BY <2>1 DEF Clean
  <2>3. \A n \in DOMAIN loads : ~loads[n].served
    BY <1>2, AnswerTypes
  <2> QED
    BY <2>1, <2>2, <2>3 DEF WithoutDoubt
<1> QED
  BY <1>1, <1>3, <1>4, <1>5 DEF ScopeInv

LEMMA ScopeFlagsStep == ScopeFlags /\ [ScopeTabNext]_scopeVars => ScopeFlags'
<1> SUFFICES ASSUME ScopeFlags, [ScopeTabNext]_scopeVars PROVE ScopeFlags'
  OBVIOUS
<1>1. edited' \in BOOLEAN
  BY DEF ScopeFlags, ScopeTabNext, LoadScope, SaveScope, ServeSave, SaveReturns, SaveFails, ServeLoad,
         LoadArrives, LoadFails, EditScope, scopeVars
<1>2. \/ UNCHANGED scopeDoubt
      \/ scopeDoubt' = (scopeDoubt \/ saving # "no")
      \/ \E n \in 1..MaxScopeCalls :
             scopeDoubt' = (scopeDoubt /\ (Len(loads) > 1 \/ saving # "no" \/ loads[n].scope # serverScope))
      \/ scopeDoubt' = (scopeDoubt \/ loads # <<>>)
      \/ scopeDoubt' = (scopeDoubt \/ saving = "done")
  BY DEF ScopeTabNext, LoadScope, SaveScope, ServeSave, SaveReturns, SaveFails, ServeLoad,
         LoadArrives, LoadFails, EditScope, scopeVars
<1>3. scopeDoubt' \in BOOLEAN
  BY <1>2 DEF ScopeFlags
<1> QED
  BY <1>1, <1>3 DEF ScopeFlags

\* A load and a save that cross, or a lost answer, are a doubt; nothing else is.
LEMMA ScopeStep ==
    ASSUME ScopeInv, [ScopeTabNext]_scopeVars
    PROVE  ScopeInv'
<1>0. ScopeFlags' /\ ScopeFlags
  BY ScopeFlagsStep DEF ScopeInv
<1>t. /\ pageScope \in Scopes /\ serverScope \in Scopes /\ toSave \in Scopes
      /\ loads \in Seq(Answers)
      /\ saving \in {"no", "sent", "done", "refused"}
  BY DEF ScopeInv, ScopeTypes
<1>d. /\ Blank \notin serverScope /\ Blank \notin toSave /\ (saving = "done" => serverScope = toSave)
      /\ ~scopeDoubt => loads = <<>> \/ saving = "no"
      /\ ~scopeDoubt => \A n \in DOMAIN loads : loads[n].served => loads[n].scope = serverScope
      /\ ~scopeDoubt /\ ~edited /\ saving # "done" => Clean(pageScope) = serverScope
  BY DEF ScopeInv, NothingBlank, WithoutDoubt
<1>c. scopeCalls' \in 0..MaxScopeCalls /\ scopeEdits' \in 0..MaxScopeEdits
  <2>1. scopeCalls' = scopeCalls \/ (scopeCalls < MaxScopeCalls /\ scopeCalls' = scopeCalls + 1)
    BY DEF ScopeTabNext, LoadScope, SaveScope, ServeSave, SaveReturns, SaveFails, ServeLoad,
           LoadArrives, LoadFails, EditScope, scopeVars
  <2>2. scopeEdits' = scopeEdits \/ (scopeEdits < MaxScopeEdits /\ scopeEdits' = scopeEdits + 1)
    BY DEF ScopeTabNext, LoadScope, SaveScope, ServeSave, SaveReturns, SaveFails, ServeLoad,
           LoadArrives, LoadFails, EditScope, scopeVars
  <2> QED
    BY <2>1, <2>2, ScopeTabAssumption DEF ScopeInv, ScopeTypes
<1>1. CASE LoadScope
  <2>1. /\ loads' = Append(loads, NotServed) /\ scopeDoubt' = (scopeDoubt \/ saving # "no")
        /\ UNCHANGED <<pageScope, serverScope, saving, toSave, edited>>
    BY <1>1 DEF LoadScope
  <2>2. loads' \in Seq(Answers) /\ \A i \in DOMAIN loads' :
            \/ i \in DOMAIN loads /\ loads'[i] = loads[i]
            \/ loads'[i] = NotServed
    BY <1>t, <2>1, AnswerTypes, Appended
  <2>3. ~scopeDoubt' => ~scopeDoubt /\ saving = "no"
    BY <2>1
  <2>4. WithoutDoubt'
    BY <1>d, <2>1, <2>2, <2>3, AnswerTypes DEF WithoutDoubt, Clean
  <2> QED
    BY <1>0, <1>c, <1>d, <1>t, <2>1, <2>2, <2>4 DEF ScopeInv, ScopeTypes, NothingBlank
<1>2. ASSUME NEW n \in DOMAIN loads, ServeLoad(n) PROVE ScopeInv'
  <2> DEFINE e == [served |-> TRUE, scope |-> serverScope]
  <2>1. loads' = [loads EXCEPT ![n] = e]
        /\ UNCHANGED <<pageScope, serverScope, saving, toSave, edited, scopeDoubt>>
    BY <1>2 DEF ServeLoad
  <2>2. e \in Answers /\ e.scope = serverScope
    BY <1>t, AnswerTypes
  <2> HIDE DEF e
  <2>3. loads' \in Seq(Answers) /\ DOMAIN loads' = DOMAIN loads /\ loads'[n] = e
        /\ \A i \in DOMAIN loads : i # n => loads'[i] = loads[i]
    BY <1>t, <2>1, <2>2, ExceptSeq
  <2>4. loads' = <<>> => loads = <<>>
    BY <1>2, <2>3
  <2>5. loads = <<>> => loads' = <<>>
    BY <1>2
  <2>6. WithoutDoubt'
    BY <1>d, <2>1, <2>2, <2>3, <2>5 DEF WithoutDoubt, Clean
  <2> QED
    BY <1>0, <1>c, <1>d, <1>t, <2>1, <2>3, <2>6 DEF ScopeInv, ScopeTypes, NothingBlank
<1>3. ASSUME NEW n \in DOMAIN loads, LoadArrives(n) PROVE ScopeInv'
  <2>1. /\ loads[n].served /\ pageScope' = loads[n].scope /\ loads' = RemoveAt(loads, n)
        /\ scopeDoubt' = (scopeDoubt /\ (Len(loads) > 1 \/ saving # "no" \/ loads[n].scope # serverScope))
        /\ UNCHANGED <<serverScope, saving, toSave>>
    BY <1>3 DEF LoadArrives
  <2>2. /\ loads' \in Seq(Answers) /\ Len(loads') = Len(loads) - 1
        /\ \A i \in DOMAIN loads' : \E j \in DOMAIN loads : loads'[i] = loads[j]
    BY <1>t, <2>1, Removed
  <2>3. loads[n] \in Answers /\ loads[n].scope \in Scopes
    BY <1>t, <2>1, AnswerTypes
  <2>4. CASE ~scopeDoubt
    <3>1. saving = "no" /\ pageScope' = serverScope
      BY <1>d, <2>1, <2>4
    <3>2. \A i \in DOMAIN loads' : loads'[i].served => loads'[i].scope = serverScope
      BY <1>d, <2>2, <2>4
    <3>3. WithoutDoubt'
      BY <1>d, <2>1, <3>1, <3>2 DEF WithoutDoubt, Clean
    <3> QED
      BY <1>0, <1>c, <1>d, <1>t, <2>1, <2>2, <2>3, <3>3 DEF ScopeInv, ScopeTypes, NothingBlank
  <2>5. CASE scopeDoubt
    <3>1. ~scopeDoubt' => ~(Len(loads) > 1) /\ saving = "no" /\ loads[n].scope = serverScope
      BY <2>1, <2>5
    <3>2. ~scopeDoubt' => loads' = <<>>
      BY <1>t, <2>2, <3>1
    <3>3. WithoutDoubt'
      BY <1>d, <2>1, <3>1, <3>2 DEF WithoutDoubt, Clean
    <3> QED
      BY <1>0, <1>c, <1>d, <1>t, <2>1, <2>2, <2>3, <3>3 DEF ScopeInv, ScopeTypes, NothingBlank
  <2> QED
    BY <2>4, <2>5
<1>4. ASSUME NEW n \in DOMAIN loads, LoadFails(n) PROVE ScopeInv'
  <2>1. loads' = RemoveAt(loads, n) /\ UNCHANGED <<pageScope, serverScope, saving, toSave, edited, scopeDoubt>>
    BY <1>4 DEF LoadFails
  <2>2. /\ loads' \in Seq(Answers)
        /\ \A i \in DOMAIN loads' : \E j \in DOMAIN loads : loads'[i] = loads[j]
    BY <1>t, <2>1, Removed
  <2>3. loads # <<>>
    BY <1>4
  <2>4. WithoutDoubt'
    BY <1>d, <2>1, <2>2, <2>3 DEF WithoutDoubt, Clean
  <2> QED
    BY <1>0, <1>c, <1>d, <1>t, <2>1, <2>2, <2>4 DEF ScopeInv, ScopeTypes, NothingBlank
<1>5. CASE \E scope \in Scopes : EditScope(scope)
  <2>1. /\ pageScope' \in Scopes /\ edited' = TRUE
        /\ UNCHANGED <<serverScope, loads, saving, toSave, scopeDoubt>>
    BY <1>5 DEF EditScope
  <2>2. WithoutDoubt'
    BY <1>d, <2>1 DEF WithoutDoubt
  <2> QED
    BY <1>0, <1>c, <1>d, <1>t, <2>1, <2>2 DEF ScopeInv, ScopeTypes, NothingBlank
<1>6. CASE SaveScope
  <2>1. /\ saving = "no" /\ saving' = "sent" /\ toSave' = pageScope \ {Blank}
        /\ scopeDoubt' = (scopeDoubt \/ loads # <<>>) /\ UNCHANGED <<pageScope, serverScope, loads, edited>>
    BY <1>6 DEF SaveScope, Clean
  <2>2. ~scopeDoubt' => ~scopeDoubt /\ loads = <<>>
    BY <2>1
  <2>3. WithoutDoubt'
    BY <1>d, <2>1, <2>2 DEF WithoutDoubt, Clean
  <2>4. toSave' \in Scopes /\ Blank \notin toSave'
    BY <1>t, <2>1, ScopeTabAssumption
  <2> QED
    BY <1>0, <1>c, <1>d, <1>t, <2>1, <2>3, <2>4 DEF ScopeInv, ScopeTypes, NothingBlank
<1>7. CASE ServeSave
  <2>1. /\ saving = "sent" /\ UNCHANGED <<pageScope, loads, toSave, edited, scopeDoubt>>
        /\ \/ saving' = "done" /\ serverScope' = toSave
           \/ saving' = "refused" /\ UNCHANGED serverScope
    BY <1>7 DEF ServeSave
  <2>2. ~scopeDoubt => loads = <<>>
    BY <1>d, <2>1
  <2>3. WithoutDoubt'
    BY <1>d, <2>1, <2>2 DEF WithoutDoubt, Clean
  <2> QED
    BY <1>0, <1>c, <1>d, <1>t, <2>1, <2>3 DEF ScopeInv, ScopeTypes, NothingBlank
<1>8. CASE SaveReturns
  <2>1. /\ saving = "done" /\ saving' = "no" /\ pageScope' = toSave /\ serverScope = toSave
        /\ UNCHANGED <<serverScope, loads, toSave, scopeDoubt>>
    BY <1>8, <1>d DEF SaveReturns
  <2>2. WithoutDoubt'
    BY <1>d, <2>1 DEF WithoutDoubt, Clean
  <2> QED
    BY <1>0, <1>c, <1>d, <1>t, <2>1, <2>2 DEF ScopeInv, ScopeTypes, NothingBlank
<1>9. CASE SaveFails
  <2>1. /\ saving \in {"done", "refused"} /\ saving' = "no" /\ scopeDoubt' = (scopeDoubt \/ saving = "done")
        /\ UNCHANGED <<pageScope, serverScope, loads, toSave, edited>>
    BY <1>9 DEF SaveFails
  <2>2. ~scopeDoubt' => ~scopeDoubt /\ saving = "refused"
    BY <2>1
  <2>3. WithoutDoubt'
    BY <1>d, <2>1, <2>2 DEF WithoutDoubt, Clean
  <2> QED
    BY <1>0, <1>c, <1>d, <1>t, <2>1, <2>3 DEF ScopeInv, ScopeTypes, NothingBlank
<1>10. CASE UNCHANGED scopeVars
  <2>1. UNCHANGED <<pageScope, serverScope, loads, saving, toSave, edited, scopeDoubt>>
    BY <1>10 DEF scopeVars
  <2>2. WithoutDoubt'
    BY <1>d, <2>1 DEF WithoutDoubt, Clean
  <2> QED
    BY <1>0, <1>c, <1>d, <1>t, <2>1, <2>2 DEF ScopeInv, ScopeTypes, NothingBlank
<1> QED
  <2>1. CASE \E n \in 1..MaxScopeCalls : ServeLoad(n) \/ LoadArrives(n) \/ LoadFails(n)
    BY <1>2, <1>3, <1>4, <2>1 DEF ServeLoad, LoadArrives, LoadFails
  <2> QED
    BY <1>1, <1>5, <1>6, <1>7, <1>8, <1>9, <1>10, <2>1 DEF ScopeTabNext

\* What the invariant says in the words of the properties.
LEMMA ScopeMeans == ScopeInv => ScopeTabOK /\ ScopeIsShown
<1>1. ScopeInv => ScopeTabOK
  BY DEF ScopeInv, ScopeTypes, ScopeFlags, ScopeTabOK
<1>2. ScopeInv => ScopeIsShown
  BY DEF ScopeInv, WithoutDoubt, ScopeIsShown
<1> QED
  BY <1>1, <1>2

----------------------------------------------------------------------------
\* The tab of rules

\* Every edit that the server made has had its answer, and a list was asked for after it.
AllAnswered == ~lostEdit /\ \A n \in DOMAIN ruleEdits : ~ruleEdits[n].served

RulesTypes ==
    /\ shownRules \subseteq 1..editsMade /\ serverRules \subseteq 1..editsMade
    /\ ruleEdits \in Seq([rule : 0..editsMade, served : BOOLEAN])
    /\ ruleLists \in Seq([number : 1..listsAsked, served : BOOLEAN, rules : SUBSET (1..editsMade)])
    /\ editsMade \in 0..MaxRuleEdits
    /\ listsAsked \in 1..MaxRuleLists /\ lastShown \in 0..listsAsked

\* The list asked for last, once served, is that of the rules in force, and so is
\* the one its answer has brought.
LastIsInForce ==
    AllAnswered =>
        /\ \A n \in DOMAIN ruleLists :
               ruleLists[n].number = listsAsked /\ ruleLists[n].served => ruleLists[n].rules = serverRules
        /\ lastShown = listsAsked => shownRules = serverRules

RulesInv == lostEdit \in BOOLEAN /\ RulesTypes /\ LastIsInForce

LEMMA RulesInitial == RulesTabInit => RulesInv
<1> SUFFICES ASSUME RulesTabInit PROVE RulesInv
  OBVIOUS
<1> DEFINE e == UnansweredList(1)
           T == [number : 1..listsAsked, served : BOOLEAN, rules : SUBSET (1..editsMade)]
<1>1. /\ shownRules = {} /\ serverRules = {} /\ ruleEdits = <<>> /\ ruleLists = <<e>>
      /\ editsMade = 0 /\ listsAsked = 1 /\ lastShown = 0
  BY DEF RulesTabInit
<1>2. lostEdit \in BOOLEAN
  BY DEF RulesTabInit
<1>3. e \in T /\ ~e.served
  <2>1. FALSE \in BOOLEAN
    OBVIOUS
  <2> QED
    BY <1>1, <2>1 DEF UnansweredList
<1> HIDE DEF e, T
<1>4. ruleLists \in Seq(T) /\ DOMAIN ruleLists = {1} /\ ruleLists[1] = e
  BY <1>1, <1>3
<1>5. RulesTypes
  BY <1>1, <1>4, RulesTabAssumption DEF RulesTypes, T
<1>6. LastIsInForce
  BY <1>1, <1>3, <1>4 DEF LastIsInForce
<1> QED
  BY <1>2, <1>5, <1>6 DEF RulesInv

LEMMA RulesFlagStep ==
    ASSUME RulesInv, [RulesTabNext]_rulesTabVars
    PROVE  lostEdit' \in BOOLEAN
<1>1. \/ UNCHANGED lostEdit
      \/ \E n \in 1..MaxRuleEdits : lostEdit' = (lostEdit \/ ruleEdits[n].served)
  BY DEF RulesTabNext, AddNewRule, ClearAllRules, BeginEdit, ServeEdit, EditReturns, EditFails, ServeRules,
         RulesArrive, RulesFail, rulesTabVars
<1> QED
  BY <1>1 DEF RulesInv

\* A list is asked for after every edit's answer, so none of an earlier state is the last.
LEMMA RulesStep ==
    ASSUME RulesInv, [RulesTabNext]_rulesTabVars
    PROVE  RulesInv'
<1> DEFINE T == [rule : 0..editsMade, served : BOOLEAN]
           V == [number : 1..listsAsked, served : BOOLEAN, rules : SUBSET (1..editsMade)]
<1>0. lostEdit' \in BOOLEAN /\ lostEdit \in BOOLEAN
  BY RulesFlagStep DEF RulesInv
<1>t. /\ shownRules \subseteq 1..editsMade /\ serverRules \subseteq 1..editsMade
      /\ ruleEdits \in Seq(T) /\ ruleLists \in Seq(V)
      /\ editsMade \in 0..MaxRuleEdits /\ editsMade \in Nat /\ MaxRuleEdits \in Nat
      /\ listsAsked \in 1..MaxRuleLists /\ listsAsked \in Nat /\ MaxRuleLists \in Nat
      /\ lastShown \in 0..listsAsked
  BY RulesTabAssumption DEF RulesInv, RulesTypes
<1>d. LastIsInForce
  BY DEF RulesInv
<1> HIDE DEF T, V
<1>a. ASSUME NEW n \in DOMAIN ruleEdits
      PROVE  ruleEdits[n].rule \in 0..editsMade /\ ruleEdits[n].served \in BOOLEAN
  <2>1. ruleEdits[n] \in T
    BY <1>t
  <2> QED
    BY <2>1 DEF T
<1>b. ASSUME NEW n \in DOMAIN ruleLists
      PROVE  ruleLists[n].number \in 1..listsAsked /\ ruleLists[n].rules \subseteq 1..editsMade
  <2>1. ruleLists[n] \in V
    BY <1>t
  <2> QED
    BY <2>1 DEF V
<1>1. ASSUME NEW rule \in 0..(editsMade + 1), BeginEdit(rule) PROVE RulesInv'
  <2> DEFINE U == [rule : 0..(editsMade + 1), served : BOOLEAN]
             W == [number : 1..listsAsked, served : BOOLEAN, rules : SUBSET (1..(editsMade + 1))]
             e == [rule |-> rule, served |-> FALSE]
  <2>1. /\ editsMade < MaxRuleEdits /\ editsMade' = editsMade + 1 /\ ruleEdits' = Append(ruleEdits, e)
        /\ UNCHANGED <<shownRules, serverRules, ruleLists, listsAsked, lastShown, lostEdit>>
    BY <1>1 DEF BeginEdit
  <2>2. e \in U /\ ~e.served
    <3>1. FALSE \in BOOLEAN
      OBVIOUS
    <3> QED
      BY <3>1
  <2>3. T \subseteq U /\ V \subseteq W
    BY <1>t DEF T, V
  <2> HIDE DEF U, W, e
  <2>4. ruleEdits \in Seq(U) /\ ruleLists \in Seq(W)
    BY <1>t, <2>3, SeqMonotonic
  <2>5. /\ ruleEdits' \in Seq(U)
        /\ \A i \in DOMAIN ruleEdits : i \in DOMAIN ruleEdits' /\ ruleEdits'[i] = ruleEdits[i]
    BY <2>1, <2>2, <2>4, Appended
  <2>6. AllAnswered' => AllAnswered
    BY <2>1, <2>5 DEF AllAnswered
  <2>7. LastIsInForce'
    BY <1>d, <2>1, <2>6 DEF LastIsInForce
  <2>8. editsMade' \in 0..MaxRuleEdits /\ 1..editsMade \subseteq 1..editsMade'
    BY <1>t, <2>1
  <2>9. RulesTypes'
    BY <1>t, <2>1, <2>4, <2>5, <2>8 DEF RulesTypes, U, W
  <2> QED
    BY <1>0, <2>7, <2>9 DEF RulesInv
<1>2. ASSUME NEW n \in DOMAIN ruleEdits, ServeEdit(n) PROVE RulesInv'
  <2> DEFINE e == [ruleEdits[n] EXCEPT !.served = TRUE]
  <2>0. ruleEdits[n] \in T
    BY <1>t
  <2>1. e \in T
    BY <2>0 DEF T
  <2>2. e.served
    BY <2>0 DEF T
  <2>3. /\ serverRules' = IF ruleEdits[n].rule = 0 THEN {} ELSE serverRules \cup {ruleEdits[n].rule}
        /\ ruleEdits' = [ruleEdits EXCEPT ![n] = e]
        /\ UNCHANGED <<shownRules, ruleLists, editsMade, listsAsked, lastShown, lostEdit>>
    BY <1>2, Zenon DEF ServeEdit
  <2> HIDE DEF e
  <2>5. ruleEdits' \in Seq(T) /\ DOMAIN ruleEdits' = DOMAIN ruleEdits /\ ruleEdits'[n] = e
    BY <1>t, <2>1, <2>3, ExceptSeq
  <2>6. ~AllAnswered'
    BY <2>2, <2>5 DEF AllAnswered
  <2>7. serverRules' \subseteq 1..editsMade
    BY <1>a, <1>t, <2>3
  <2>8. RulesTypes'
    BY <1>t, <2>3, <2>5, <2>7 DEF RulesTypes, T, V
  <2> QED
    BY <1>0, <2>6, <2>8 DEF RulesInv, LastIsInForce
<1>3. ASSUME NEW n \in DOMAIN ruleEdits, EditReturns(n) PROVE RulesInv'
  <2> DEFINE W == [number : 1..(listsAsked + 1), served : BOOLEAN, rules : SUBSET (1..editsMade)]
             e == UnansweredList(listsAsked + 1)
  <2>1. /\ listsAsked < MaxRuleLists /\ listsAsked' = listsAsked + 1 /\ ruleLists' = Append(ruleLists, e)
        /\ ruleEdits' = RemoveAt(ruleEdits, n)
        /\ UNCHANGED <<shownRules, serverRules, editsMade, lastShown, lostEdit>>
    BY <1>3 DEF EditReturns
  <2>2. e \in W /\ ~e.served
    <3>1. FALSE \in BOOLEAN
      OBVIOUS
    <3> QED
      BY <1>t, <3>1 DEF UnansweredList
  <2>3. V \subseteq W
    BY <1>t DEF V
  <2> HIDE DEF W, e
  <2>4. ruleLists \in Seq(W)
    BY <1>t, <2>3, SeqMonotonic
  <2>5. ruleLists' \in Seq(W) /\ \A i \in DOMAIN ruleLists' :
            \/ i \in DOMAIN ruleLists /\ ruleLists'[i] = ruleLists[i]
            \/ ruleLists'[i] = e
    BY <2>1, <2>2, <2>4, Appended
  <2>6. ruleEdits' \in Seq(T)
    BY <1>t, <2>1, Removed
  <2>7. \A i \in DOMAIN ruleLists : ruleLists[i].number # listsAsked + 1
    BY <1>b, <1>t
  <2>8. LastIsInForce'
    <3>1. lastShown' # listsAsked'
      BY <1>t, <2>1
    <3>2. \A i \in DOMAIN ruleLists' : ruleLists'[i].number = listsAsked' => ~ruleLists'[i].served
      BY <2>1, <2>2, <2>5, <2>7
    <3> QED
      BY <3>1, <3>2 DEF LastIsInForce
  <2>9. RulesTypes'
    BY <1>t, <2>1, <2>5, <2>6 DEF RulesTypes, T, W
  <2> QED
    BY <1>0, <2>8, <2>9 DEF RulesInv
<1>4. ASSUME NEW n \in DOMAIN ruleEdits, EditFails(n) PROVE RulesInv'
  <2>1. /\ ruleEdits' = RemoveAt(ruleEdits, n) /\ lostEdit' = (lostEdit \/ ruleEdits[n].served)
        /\ UNCHANGED <<shownRules, serverRules, ruleLists, editsMade, listsAsked, lastShown>>
    BY <1>4 DEF EditFails
  <2>2. /\ ruleEdits' \in Seq(T)
        /\ \A j \in DOMAIN ruleEdits : j # n => \E i \in DOMAIN ruleEdits' : ruleEdits'[i] = ruleEdits[j]
    BY <1>t, <2>1, Removed
  <2>3. ~lostEdit' => ~lostEdit /\ ~ruleEdits[n].served
    BY <2>1
  <2>4. AllAnswered' => AllAnswered
    BY <2>2, <2>3 DEF AllAnswered
  <2>5. LastIsInForce'
    BY <1>d, <2>1, <2>4 DEF LastIsInForce
  <2>6. RulesTypes'
    BY <1>t, <2>1, <2>2 DEF RulesTypes, T, V
  <2> QED
    BY <1>0, <2>5, <2>6 DEF RulesInv
<1>5. ASSUME NEW n \in DOMAIN ruleLists, ServeRules(n) PROVE RulesInv'
  <2> DEFINE e == [ruleLists[n] EXCEPT !.served = TRUE, !.rules = serverRules]
  <2>0. ruleLists[n] \in V
    BY <1>t
  <2>1. e \in V
    BY <1>t, <2>0, Zenon DEF V
  <2>2. e.rules = serverRules
    BY <2>0 DEF V
  <2>3. /\ ruleLists' = [ruleLists EXCEPT ![n] = e]
        /\ UNCHANGED <<shownRules, serverRules, ruleEdits, editsMade, listsAsked, lastShown, lostEdit>>
    <3>1. ruleLists' = [ruleLists EXCEPT ![n].served = TRUE, ![n].rules = serverRules]
          /\ UNCHANGED <<shownRules, serverRules, ruleEdits, editsMade, listsAsked, lastShown, lostEdit>>
      BY <1>5 DEF ServeRules
    <3>2. n \in DOMAIN ruleLists
      OBVIOUS
    <3> QED
      BY <3>1, <3>2
  <2> HIDE DEF e
  <2>5. ruleLists' \in Seq(V) /\ DOMAIN ruleLists' = DOMAIN ruleLists /\ ruleLists'[n] = e
        /\ \A i \in DOMAIN ruleLists : i # n => ruleLists'[i] = ruleLists[i]
    BY <1>t, <2>1, <2>3, ExceptSeq
  <2>6. LastIsInForce'
    <3>1. AllAnswered' => AllAnswered
      BY <2>3 DEF AllAnswered
    <3> QED
      BY <1>d, <2>2, <2>3, <2>5, <3>1 DEF LastIsInForce
  <2>7. RulesTypes'
    BY <1>t, <2>3, <2>5 DEF RulesTypes, T, V
  <2> QED
    BY <1>0, <2>6, <2>7 DEF RulesInv
<1>6. ASSUME NEW n \in DOMAIN ruleLists, RulesArrive(n) \/ RulesFail(n) PROVE RulesInv'
  <2>1. /\ ruleLists' = RemoveAt(ruleLists, n)
        /\ UNCHANGED <<serverRules, ruleEdits, editsMade, listsAsked, lostEdit>>
        /\ \/ /\ ruleLists[n].served /\ shownRules' = ruleLists[n].rules
              /\ lastShown' = ruleLists[n].number
           \/ UNCHANGED <<shownRules, lastShown>>
    BY <1>6 DEF RulesArrive, RulesFail
  <2>2. /\ ruleLists' \in Seq(V)
        /\ \A i \in DOMAIN ruleLists' : \E j \in DOMAIN ruleLists : ruleLists'[i] = ruleLists[j]
    BY <1>t, <2>1, Removed
  <2>3. shownRules' \subseteq 1..editsMade /\ lastShown' \in 0..listsAsked
    <3>1. ruleLists[n].rules \subseteq 1..editsMade /\ ruleLists[n].number \in 1..listsAsked
      BY <1>b
    <3>2. CASE UNCHANGED <<shownRules, lastShown>>
      BY <1>t, <3>2
    <3>3. CASE shownRules' = ruleLists[n].rules /\ lastShown' = ruleLists[n].number
      BY <1>t, <3>1, <3>3
    <3> QED
      BY <2>1, <3>2, <3>3
  <2>4. LastIsInForce'
    <3>1. AllAnswered' => AllAnswered
      BY <2>1 DEF AllAnswered
    <3>2. AllAnswered /\ lastShown' = listsAsked => shownRules' = serverRules
      BY <1>d, <2>1 DEF LastIsInForce
    <3>3. AllAnswered => \A i \in DOMAIN ruleLists' :
             ruleLists'[i].number = listsAsked /\ ruleLists'[i].served => ruleLists'[i].rules = serverRules
      BY <1>d, <2>2 DEF LastIsInForce
    <3> QED
      BY <2>1, <3>1, <3>2, <3>3 DEF LastIsInForce
  <2>5. RulesTypes'
    BY <1>t, <2>1, <2>2, <2>3 DEF RulesTypes, T, V
  <2> QED
    BY <1>0, <2>4, <2>5 DEF RulesInv
<1>7. CASE UNCHANGED rulesTabVars
  BY <1>7 DEF rulesTabVars, RulesInv, RulesTypes, LastIsInForce, AllAnswered
<1>8. CASE AddNewRule \/ ClearAllRules
  <2>1. 0 \in 0..(editsMade + 1) /\ editsMade + 1 \in 0..(editsMade + 1)
    BY <1>t
  <2> QED
    BY <1>1, <1>8, <2>1 DEF AddNewRule, ClearAllRules
<1> QED
  <2>1. CASE \E n \in 1..MaxRuleEdits : ServeEdit(n) \/ EditReturns(n) \/ EditFails(n)
    BY <1>2, <1>3, <1>4, <2>1 DEF ServeEdit, EditReturns, EditFails
  <2>2. CASE \E n \in 1..MaxRuleLists : ServeRules(n) \/ RulesArrive(n) \/ RulesFail(n)
    BY <1>5, <1>6, <2>2 DEF ServeRules, RulesArrive, RulesFail
  <2> QED
    BY <1>7, <1>8, <2>1, <2>2 DEF RulesTabNext

\* What the invariant says in the words of the properties.
LEMMA RulesMean == RulesInv => RulesTabOK /\ RulesAreShown
<1>1. RulesInv => RulesTabOK
  BY DEF RulesInv, RulesTypes, RulesTabOK
<1>2. RulesInv => RulesAreShown
  BY DEF RulesInv, LastIsInForce, AllAnswered, RulesAreShown
<1> QED
  BY <1>1, <1>2

----------------------------------------------------------------------------
\* The repeater

RepeaterFlags == repeaterMounted \in BOOLEAN /\ unstored \in BOOLEAN
RepeaterTypes ==
    /\ instance \in Instances
    /\ replays \in 0..MaxReplays
    /\ sending \in [Instances -> 0..replays]
    /\ replayHistory \in [Instances -> Seq(1..replays)]
    /\ stored \in Seq(1..replays) /\ Len(stored) <= MaxHistory
    /\ answers \in Seq(1..replays)

RepeaterInv == RepeaterFlags /\ RepeaterTypes /\ HistoryIsKept

\* The newest of a list: as many of its first as the history holds.
LEMMA NewestTypes ==
    ASSUME NEW T, NEW list \in Seq(T)
    PROVE  /\ Newest(list) \in Seq(T)
           /\ Len(Newest(list)) = IF Len(list) < MaxHistory THEN Len(list) ELSE MaxHistory
           /\ \A i \in 1..Len(Newest(list)) : Newest(list)[i] = list[i]
<1> DEFINE n == IF Len(list) < MaxHistory THEN Len(list) ELSE MaxHistory
<1>1. Len(list) \in Nat /\ MaxHistory \in Nat
  BY RepeaterAssumption
<1>2. n \in Nat /\ n <= Len(list)
  BY <1>1
<1> HIDE DEF n
<1>3. SubSeq(list, 1, n) \in Seq(T) /\ Len(SubSeq(list, 1, n)) = n /\ \A i \in 1..n : SubSeq(list, 1, n)[i] = list[i]
  BY <1>2
<1> QED
  BY <1>3 DEF Newest, n

\* What is older than the newest never comes back.
LEMMA NewestOfNewest ==
    ASSUME NEW T, NEW list \in Seq(T), NEW s \in T
    PROVE  Newest(<<s>> \o Newest(list)) = Newest(<<s>> \o list)
<1> DEFINE short == Newest(list)  a == <<s>> \o short  b == <<s>> \o list
<1>0. MaxHistory \in Nat \ {0} /\ Len(list) \in Nat
  BY RepeaterAssumption
<1>1. short \in Seq(T) /\ Len(short) = (IF Len(list) < MaxHistory THEN Len(list) ELSE MaxHistory)
      /\ \A i \in 1..Len(short) : short[i] = list[i]
  BY NewestTypes
<1> HIDE DEF short
<1>2. /\ a \in Seq(T) /\ Len(a) = Len(short) + 1 /\ a[1] = s
      /\ \A i \in 2..(Len(short) + 1) : a[i] = short[i - 1]
  <2>1. <<s>> \in Seq(T) /\ Len(<<s>>) = 1 /\ <<s>>[1] = s
    OBVIOUS
  <2> QED
    BY <1>1, <2>1
<1>3. /\ b \in Seq(T) /\ Len(b) = Len(list) + 1 /\ b[1] = s
      /\ \A i \in 2..(Len(list) + 1) : b[i] = list[i - 1]
  <2>1. <<s>> \in Seq(T) /\ Len(<<s>>) = 1 /\ <<s>>[1] = s
    OBVIOUS
  <2> QED
    BY <2>1
<1> HIDE DEF a, b
<1>4. /\ Newest(a) \in Seq(T) /\ Newest(b) \in Seq(T)
      /\ Len(Newest(a)) = (IF Len(a) < MaxHistory THEN Len(a) ELSE MaxHistory)
      /\ Len(Newest(b)) = (IF Len(b) < MaxHistory THEN Len(b) ELSE MaxHistory)
      /\ \A i \in 1..Len(Newest(a)) : Newest(a)[i] = a[i]
      /\ \A i \in 1..Len(Newest(b)) : Newest(b)[i] = b[i]
  BY <1>2, <1>3, NewestTypes
<1>5. Len(Newest(a)) = Len(Newest(b)) /\ Len(Newest(b)) <= MaxHistory
      /\ Len(Newest(b)) <= Len(list) + 1 /\ Len(Newest(a)) <= Len(short) + 1
  BY <1>0, <1>1, <1>2, <1>3, <1>4
<1>6. ASSUME NEW i \in 1..Len(Newest(b)) PROVE Newest(a)[i] = Newest(b)[i]
  <2>1. Newest(a)[i] = a[i] /\ Newest(b)[i] = b[i]
    BY <1>4, <1>5
  <2>2. CASE i = 1
    BY <1>2, <1>3, <2>1, <2>2
  <2>3. CASE i # 1
    <3>1. i \in 2..(Len(short) + 1) /\ i \in 2..(Len(list) + 1) /\ i - 1 \in 1..Len(short)
      BY <1>0, <1>1, <1>5, <2>3
    <3>2. a[i] = short[i - 1] /\ b[i] = list[i - 1] /\ short[i - 1] = list[i - 1]
      BY <1>1, <1>2, <1>3, <3>1
    <3> QED
      BY <2>1, <3>2
  <2> QED
    BY <2>2, <2>3
<1>7. Newest(a) = Newest(b)
  BY <1>4, <1>5, <1>6, SeqEqual
<1> QED
  BY <1>7 DEF a, b, short

LEMMA RepeaterInitial == RepeaterInit => RepeaterInv
<1> SUFFICES ASSUME RepeaterInit PROVE RepeaterInv
  OBVIOUS
<1>1. RepeaterFlags
  BY DEF RepeaterInit, RepeaterFlags
<1>2. RepeaterTypes
  BY RepeaterAssumption DEF RepeaterInit, RepeaterTypes, Instances
<1>3. HistoryIsKept
  <2>1. <<>> \in Seq(Nat) /\ Len(<<>>) = 0
    OBVIOUS
  <2>2. Newest(<<>>) \in Seq(Nat) /\ Len(Newest(<<>>)) = 0
    <3>1. /\ Newest(<<>>) \in Seq(Nat)
          /\ Len(Newest(<<>>)) = IF Len(<<>>) < MaxHistory THEN Len(<<>>) ELSE MaxHistory
      BY ONLY <2>1, NewestTypes
    <3> QED
      BY <2>1, <3>1, RepeaterAssumption
  <2>3. Newest(<<>>) = <<>>
    BY <2>2
  <2>4. 1 \in Instances
    BY RepeaterAssumption DEF Instances
  <2> QED
    BY <2>3, <2>4 DEF RepeaterInit, HistoryIsKept
<1> QED
  BY <1>1, <1>2, <1>3 DEF RepeaterInv

LEMMA RepeaterFlagsStep == RepeaterFlags /\ [RepeaterNext]_repeaterVars => RepeaterFlags'
<1> SUFFICES ASSUME RepeaterFlags, [RepeaterNext]_repeaterVars PROVE RepeaterFlags'
  OBVIOUS
<1>1. repeaterMounted' \in BOOLEAN
  BY DEF RepeaterFlags, RepeaterNext, SendReplay, LeaveRepeater, OpenRepeater, ReplayAnswered, ReplayFails,
         repeaterVars
<1>2. \/ UNCHANGED unstored \/ unstored' = TRUE
      \/ \E i \in Instances : unstored' = (unstored \/ i # instance)
  BY DEF RepeaterNext, SendReplay, LeaveRepeater, OpenRepeater, ReplayAnswered, ReplayFails, repeaterVars
<1>3. unstored' \in BOOLEAN
  BY <1>2 DEF RepeaterFlags
<1> QED
  BY <1>1, <1>3 DEF RepeaterFlags

\* An answer goes to the history that the storage has, or the storage is in doubt.
LEMMA RepeaterStep ==
    ASSUME RepeaterInv, [RepeaterNext]_repeaterVars
    PROVE  RepeaterInv'
<1>0. RepeaterFlags' /\ RepeaterFlags
  BY RepeaterFlagsStep DEF RepeaterInv
<1>t. /\ instance \in Instances /\ replays \in 0..MaxReplays /\ replays \in Nat
      /\ sending \in [Instances -> 0..replays]
      /\ replayHistory \in [Instances -> Seq(1..replays)]
      /\ stored \in Seq(1..replays) /\ Len(stored) <= MaxHistory
      /\ answers \in Seq(1..replays) /\ MaxReplays \in Nat /\ MaxHistory \in Nat /\ MaxInstances \in Nat
  BY RepeaterAssumption DEF RepeaterInv, RepeaterTypes
<1>d. HistoryIsKept
  BY DEF RepeaterInv
<1>1. CASE SendReplay
  <2>1. /\ replays < MaxReplays /\ replays' = replays + 1
        /\ sending' = [sending EXCEPT ![instance] = replays + 1]
        /\ UNCHANGED <<instance, replayHistory, stored, answers, unstored>>
    BY <1>1 DEF SendReplay
  <2>2. replays' \in 0..MaxReplays /\ 1..replays \subseteq 1..replays' /\ 0..replays \subseteq 0..replays'
    BY <1>t, <2>1
  <2>3. sending' \in [Instances -> 0..replays']
    BY <1>t, <2>1
  <2>4. Seq(1..replays) \subseteq Seq(1..replays')
    BY <2>2, SeqMonotonic
  <2>5. replayHistory \in [Instances -> Seq(1..replays')]
    BY <1>t, <2>4
  <2>6. RepeaterTypes'
    BY <1>t, <2>1, <2>2, <2>3, <2>4, <2>5 DEF RepeaterTypes, Instances
  <2>7. HistoryIsKept'
    BY <1>d, <2>1 DEF HistoryIsKept, Newest
  <2> QED
    BY <1>0, <2>6, <2>7 DEF RepeaterInv
<1>2. ASSUME NEW i \in Instances, ReplayAnswered(i) PROVE RepeaterInv'
  <2> DEFINE s == sending[i]  h == <<s>> \o replayHistory[i]
  <2>1. /\ s # 0 /\ sending' = [sending EXCEPT ![i] = 0]
        /\ replayHistory' = [replayHistory EXCEPT ![i] = Newest(h)]
        /\ answers' = <<s>> \o answers
        /\ \/ stored' = replayHistory'[i] /\ unstored' = (unstored \/ i # instance)
           \/ UNCHANGED stored /\ unstored' = TRUE
        /\ UNCHANGED <<instance, replays>>
    BY <1>2 DEF ReplayAnswered
  <2>2. s \in 1..replays /\ <<s>> \in Seq(1..replays) /\ replayHistory[i] \in Seq(1..replays)
    BY <1>t, <2>1
  <2>3. h \in Seq(1..replays) /\ answers' \in Seq(1..replays)
    BY <1>t, <2>1, <2>2
  <2>4. Newest(h) \in Seq(1..replays) /\ Len(Newest(h)) <= MaxHistory
    <3> HIDE DEF h
    <3>1. /\ Newest(h) \in Seq(1..replays)
          /\ Len(Newest(h)) = IF Len(h) < MaxHistory THEN Len(h) ELSE MaxHistory
      BY <2>3, NewestTypes
    <3>2. Len(h) \in Nat
      BY <2>3
    <3> QED
      BY <1>t, <3>1, <3>2
  <2> HIDE DEF h
  <2>5. /\ replayHistory' \in [Instances -> Seq(1..replays)] /\ replayHistory'[i] = Newest(h)
    BY <1>t, <2>1, <2>4
  <2>6. stored' \in Seq(1..replays) /\ Len(stored') <= MaxHistory
    BY <1>t, <2>1, <2>4, <2>5
  <2>7. sending' \in [Instances -> 0..replays]
    BY <1>t, <2>1
  <2>8. RepeaterTypes'
    BY <1>t, <2>1, <2>3, <2>5, <2>6, <2>7 DEF RepeaterTypes
  <2>9. HistoryIsKept'
    <3>1. SUFFICES ASSUME ~unstored'
                   PROVE  stored' = Newest(answers') /\ replayHistory'[instance] = stored'
      BY <2>1 DEF HistoryIsKept
    <3>2. ~unstored /\ i = instance /\ stored' = Newest(h)
      BY <2>1, <2>5, <3>1
    <3>3. replayHistory[i] = Newest(answers)
      BY <1>d, <3>2 DEF HistoryIsKept
    <3>4. Newest(<<s>> \o Newest(answers)) = Newest(<<s>> \o answers)
      BY <1>t, <2>2, NewestOfNewest
    <3>5. Newest(h) = Newest(answers')
      BY <2>1, <3>3, <3>4 DEF h
    <3> QED
      BY <2>5, <3>2, <3>5
  <2> QED
    BY <1>0, <2>8, <2>9 DEF RepeaterInv
<1>3. ASSUME NEW i \in Instances, ReplayFails(i) PROVE RepeaterInv'
  <2>1. sending' = [sending EXCEPT ![i] = 0] /\ UNCHANGED <<instance, replayHistory, stored, replays, answers, unstored>>
    BY <1>3 DEF ReplayFails
  <2>2. sending' \in [Instances -> 0..replays]
    BY <1>t, <2>1
  <2>3. RepeaterTypes'
    BY <1>t, <2>1, <2>2 DEF RepeaterTypes
  <2>4. HistoryIsKept'
    BY <1>d, <2>1 DEF HistoryIsKept, Newest
  <2> QED
    BY <1>0, <2>3, <2>4 DEF RepeaterInv
<1>4. CASE OpenRepeater
  <2>1. /\ instance < MaxInstances /\ instance' = instance + 1
        /\ \/ replayHistory' = [replayHistory EXCEPT ![instance + 1] = stored]
              /\ UNCHANGED unstored
           \/ UNCHANGED replayHistory /\ unstored' = TRUE
        /\ UNCHANGED <<sending, stored, replays, answers>>
    BY <1>4 DEF OpenRepeater
  <2>2. instance' \in Instances
    BY <1>t, <2>1 DEF Instances
  <2>3. /\ replayHistory' \in [Instances -> Seq(1..replays)]
        /\ ~unstored' => replayHistory'[instance'] = stored /\ ~unstored
    <3>1. CASE replayHistory' = [replayHistory EXCEPT ![instance + 1] = stored] /\ UNCHANGED unstored
      BY <1>t, <2>1, <2>2, <3>1
    <3>2. CASE UNCHANGED replayHistory /\ unstored' = TRUE
      BY <1>t, <3>2
    <3> QED
      BY <2>1, <3>1, <3>2
  <2>4. RepeaterTypes'
    BY <1>t, <2>1, <2>2, <2>3 DEF RepeaterTypes
  <2>5. HistoryIsKept'
    BY <1>d, <2>1, <2>3 DEF HistoryIsKept, Newest
  <2> QED
    BY <1>0, <2>4, <2>5 DEF RepeaterInv
<1>5. CASE LeaveRepeater \/ UNCHANGED repeaterVars
  <2>1. UNCHANGED <<instance, sending, replayHistory, stored, replays, answers, unstored>>
    BY <1>5 DEF LeaveRepeater, repeaterVars
  <2>2. RepeaterTypes'
    BY <1>t, <2>1 DEF RepeaterTypes
  <2>3. HistoryIsKept'
    BY <1>d, <2>1 DEF HistoryIsKept, Newest
  <2> QED
    BY <1>0, <2>2, <2>3 DEF RepeaterInv
<1> QED
  BY <1>1, <1>2, <1>3, <1>4, <1>5 DEF RepeaterNext

\* What the invariant says of the types.
LEMMA RepeaterMeans == RepeaterInv => RepeaterOK
BY DEF RepeaterInv, RepeaterFlags, RepeaterTypes, RepeaterOK

----------------------------------------------------------------------------
\* All parts

\* What makes each part correct, its types and what its properties rest on.
FeedInv == TypeOK /\ LinkInv
ControlInv == FlagInv /\ operations \in 0..MaxOperations
FramesInv == FrameIntervals /\ FrameAnswers
RequestsInv == ListsInv /\ ListFlags
WsTabInv == PeerFlags /\ PeerTypes /\ PeerFrames /\ PairDiff

UiInv ==
    /\ FeedInv /\ PollingOK /\ OneRequest /\ ToastsInv /\ ControlInv /\ AttackInv /\ ScanInv
    /\ ViewInv /\ FramesInv /\ RequestsInv /\ SocketInv /\ TabInv /\ WsTabInv
    /\ ScopeInv /\ RulesInv /\ RepeaterInv

\* Every part begins in its invariant.
LEMMA UiInitial == UiInit => UiInv
<1> SUFFICES ASSUME UiInit PROVE UiInv
  OBVIOUS
<1>1. /\ Init /\ PollInit /\ NoteInit /\ ControlInit /\ AttackPageInit /\ ScanPageInit
      /\ TrafficViewInit /\ FramesViewInit /\ RequestsPageInit /\ TrafficTabInit /\ WebSocketTabInit
      /\ ScopeTabInit /\ RulesTabInit /\ RepeaterInit
  BY DEF UiInit
<1>2. FeedInv
  BY <1>1, FeedInitial, LinkInitial DEF FeedInv
<1>3. PollingOK /\ OneRequest /\ ToastsInv
  BY <1>1, PollInitial, NoteInitial
<1>4. ControlInv
  <2>1. operations \in 0..MaxOperations
    BY <1>1, ControlAssumption DEF ControlInit
  <2> QED
    BY <1>1, <2>1, FlagInitial DEF ControlInv
<1>5. AttackInv /\ ScanInv
  BY <1>1, AttackInitial, ScanInitial
<1>6. ViewInv /\ FramesInv /\ RequestsInv
  BY <1>1, ViewListsInitial, ViewDetailsInitial, FrameIntervalsInitial, FrameAnswersInitial, ListsInitial
     DEF ViewInv, FramesInv, RequestsInv
<1>7. SocketInv
  BY <1>1, SocketInitial DEF TrafficTabInit
<1>8. TabInv /\ WsTabInv
  BY <1>1, TabInitial, WsTabInitial DEF WsTabInv
<1>9. ScopeInv /\ RulesInv /\ RepeaterInv
  BY <1>1, ScopeInitial, RulesInitial, RepeaterInitial
<1> QED
  BY <1>2, <1>3, <1>4, <1>5, <1>6, <1>7, <1>8, <1>9 DEF UiInv

\* A step of the interface is one of each part or leaves it alone.
LEMMA DesktopSteps ==
    ASSUME [UiNext]_uiVars
    PROVE  /\ [Next]_vars /\ [PollNext]_pollVars /\ [NoteNext]_noteVars /\ [ControlNext]_controlVars
           /\ [AttackPageNext]_attackVars /\ [ScanPageNext]_scanVars /\ [TrafficViewNext]_viewVars
           /\ [FramesViewNext]_framesVars
<1>1. [Next]_vars
  BY DEF UiNext, Rest, Still, uiVars
<1>2. [PollNext]_pollVars
  BY DEF UiNext, Rest, Still, uiVars
<1>3. [NoteNext]_noteVars
  BY DEF UiNext, Rest, Still, uiVars
<1>4. [ControlNext]_controlVars
  BY DEF UiNext, Rest, Still, uiVars
<1>5. [AttackPageNext]_attackVars
  BY DEF UiNext, Rest, Still, uiVars
<1>6. [ScanPageNext]_scanVars
  BY DEF UiNext, Rest, Still, uiVars
<1>7. [TrafficViewNext]_viewVars
  BY DEF UiNext, Rest, Still, uiVars
<1>8. [FramesViewNext]_framesVars
  BY DEF UiNext, Rest, Still, uiVars
<1> QED
  BY <1>1, <1>2, <1>3, <1>4, <1>5, <1>6, <1>7, <1>8

LEMMA TabSteps ==
    ASSUME [UiNext]_uiVars
    PROVE  /\ [RequestsPageNext]_requestsVars /\ [ScopeTabNext]_scopeVars /\ [RulesTabNext]_rulesTabVars
           /\ [RepeaterNext]_repeaterVars
           /\ [TrafficTabNext]_<<tabLists, tabHighlights, fetched>>
           /\ [WebSocketTabNext]_<<peerVars, shownVars, compareVars, questions>>
<1>1. [RequestsPageNext]_requestsVars
  BY DEF UiNext, Rest, Still, uiVars
<1>2. [ScopeTabNext]_scopeVars
  BY DEF UiNext, Rest, Still, uiVars
<1>3. [RulesTabNext]_rulesTabVars
  BY DEF UiNext, Rest, Still, uiVars
<1>4. [RepeaterNext]_repeaterVars
  BY DEF UiNext, Rest, Still, uiVars
<1>5. [TrafficTabNext]_<<tabLists, tabHighlights, fetched>>
  BY DEF UiNext, Rest, Still, uiVars, tabVars
<1>6. [WebSocketTabNext]_<<peerVars, shownVars, compareVars, questions>>
  BY DEF UiNext, Rest, Still, uiVars, wsTabVars
<1> QED
  BY <1>1, <1>2, <1>3, <1>4, <1>5, <1>6

\* The event socket is that of whichever of the two tabs takes the step.
LEMMA SocketSteps ==
    ASSUME [UiNext]_uiVars
    PROVE  \/ SocketNext
           \/ CloseSocket /\ tabMounted' \in BOOLEAN
           \/ UNCHANGED <<tabMounted, socketVars>>
<1> DEFINE Goal == \/ SocketNext
                   \/ CloseSocket /\ tabMounted' \in BOOLEAN
                   \/ UNCHANGED <<tabMounted, socketVars>>
<1>1. TrafficTabNext => Goal
  BY DEF TrafficTabNext, Event, ChangeFilters, ListFetched, HighlightFetched, SelectTransaction, SwitchView,
         LeaveTab
<1>2. WebSocketTabNext => Goal
  BY DEF WebSocketTabNext, FetchPeers, PeersFetched, FrameCaptured, SelectPeer, SelectFrame, FramesFetched,
         DiffFetched, SetMode, LeaveWsTab
<1>3. TrafficTabNext \/ WebSocketTabNext \/ UNCHANGED <<tabMounted, socketVars>>
  BY DEF UiNext, Rest, uiVars, tabVars
<1> QED
  BY <1>1, <1>2, <1>3

\* A step keeps the invariant of every part.
LEMMA UiStep ==
    ASSUME UiInv, [UiNext]_uiVars
    PROVE  UiInv'
<1>0. /\ FeedInv /\ PollingOK /\ OneRequest /\ ToastsInv /\ ControlInv /\ AttackInv /\ ScanInv
      /\ ViewInv /\ FramesInv /\ RequestsInv /\ SocketInv /\ TabInv /\ WsTabInv
      /\ ScopeInv /\ RulesInv /\ RepeaterInv
  BY DEF UiInv
<1>1. FeedInv'
  BY <1>0, DesktopSteps, StepTypes, StepLink DEF FeedInv
<1>2. PollingOK' /\ OneRequest'
  BY <1>0, DesktopSteps, PollStep
<1>3. ToastsInv'
  BY <1>0, DesktopSteps, NoteStep
<1>4. ControlInv'
  BY <1>0, DesktopSteps, FlagStep, OperationsStep DEF ControlInv
<1>5. AttackInv'
  BY <1>0, DesktopSteps, AttackStep
<1>6. ScanInv'
  BY <1>0, DesktopSteps, ScanStep
<1>7. ViewInv'
  BY <1>0, DesktopSteps, ViewListsStep, ViewDetailsStep, ViewTemplateStep DEF ViewInv
<1>8. FramesInv'
  BY <1>0, DesktopSteps, FrameIntervalsStep, FrameAnswersStep DEF FramesInv
<1>9. RequestsInv'
  BY <1>0, TabSteps, ListsStep, ListFlagsStep DEF RequestsInv
<1>10. SocketInv'
  BY <1>0, SocketSteps, SocketStep
<1>11. TabInv'
  BY <1>0, TabSteps, TabStep
<1>12. WsTabInv'
  <2>1. questions \in 0..MaxQuestions
    BY <1>0 DEF WsTabInv, PeerFrames
  <2> QED
    BY <1>0, <2>1, TabSteps, PeersStep, PeerFramesStep, PairDiffStep DEF WsTabInv
<1>13. ScopeInv'
  BY <1>0, TabSteps, ScopeStep
<1>14. RulesInv'
  BY <1>0, TabSteps, RulesStep
<1>15. RepeaterInv'
  BY <1>0, TabSteps, RepeaterStep
<1> QED
  BY <1>1, <1>2, <1>3, <1>4, <1>5, <1>6, <1>7, <1>8, <1>9, <1>10, <1>11, <1>12, <1>13, <1>14, <1>15 DEF UiInv

\* So the interface never leaves it.
LEMMA UiHolds == UiSpec => []UiInv
<1>1. UiSpec => UiInit /\ [][UiNext]_uiVars
  BY DEF UiSpec
<1> QED
  BY <1>1, UiInitial, UiStep, PTL

\* The types of all parts, and with them every bound of a list, a counter and a
\* set of timers.
THEOREM InterfaceIsTyped == UiSpec => []UiOK
<1>1. UiInv => UiOK
  <2> SUFFICES ASSUME UiInv PROVE UiOK
    OBVIOUS
  <2>1. TypeOK /\ PollingOK /\ NotificationsOK
    BY DEF UiInv, FeedInv, ToastsInv
  <2>2. ControlOK
    BY DEF UiInv, ControlInv, FlagInv, ControlTypes, ControlOK
  <2>3. AttackPageOK /\ ScanPageOK
    BY DEF UiInv, AttackInv, ScanInv
  <2>4. TrafficViewOK /\ FramesViewOK
    BY ViewMeans, FramesMean DEF UiInv, FramesInv
  <2>5. RequestsPageOK
    BY ListsMean DEF UiInv, RequestsInv
  <2>6. EventSocketOK
    BY DEF UiInv, SocketInv
  <2>7. TrafficTabOK /\ WebSocketTabOK
    BY <2>6, TabMeans, WsTabMeans DEF UiInv, WsTabInv
  <2>8. ScopeTabOK /\ RulesTabOK /\ RepeaterOK
    BY ScopeMeans, RulesMean, RepeaterMeans DEF UiInv
  <2> QED
    BY <2>1, <2>2, <2>3, <2>4, <2>5, <2>7, <2>8 DEF UiOK
<1> QED
  BY <1>1, UiHolds, PTL

\* A toast that is shown has the timer that takes it away, and no timer is left of
\* one that is gone (useNotifications.ts:179).
THEOREM ToastsTimed == UiSpec => []ToastsAreTimed
<1>1. UiInv => ToastsAreTimed
  BY DEF UiInv, ToastsInv
<1> QED
  BY <1>1, UiHolds, PTL

\* Whatever keeps a page up to date is held by the variable that ends it, but for
\* the ways in which each page loses it (IntruderTab.vue:341, ScannerView.vue:124,
\* TrafficView.vue:176, WebSocketView.vue:61, useDashboardMetrics.ts:151,
\* TrafficTab.vue:275).
THEOREM FeedsTracked == UiSpec => []FeedsAreTracked
<1>1. UiInv => FeedsAreTracked
  <2> SUFFICES ASSUME UiInv PROVE FeedsAreTracked
    OBVIOUS
  <2>1. PollingIsTracked /\ StatsArePolledOnce
    BY DEF UiInv, AttackInv, ScanInv
  <2>2. ListIsPolledOnce /\ FramesArePolledOnce
    BY ViewMeans, FramesMean DEF UiInv, FramesInv
  <2>3. OneRequest /\ OneFeed
    BY SocketMeans DEF UiInv
  <2> QED
    BY <2>1, <2>2, <2>3 DEF FeedsAreTracked
<1> QED
  BY <1>1, UiHolds, PTL

\* What a page shows answers what it asked last whenever that answer came last,
\* and the tabs of the scope and of the rules show what is in force once all they
\* asked is answered (TrafficView.vue:94, WebSocketView.vue:42, App.vue:206,
\* TrafficTab.vue:136, WebSocketTab.vue:123, ScopeTab.vue:59, RulesTab.vue:156).
THEOREM ShownAsked == UiSpec => []ShownIsAsked
<1>1. UiInv => ShownIsAsked
  <2> SUFFICES ASSUME UiInv PROVE ShownIsAsked
    OBVIOUS
  <2>1. DetailsAreSelected /\ FramesAreSelected
    BY ViewMeans, FramesMean DEF UiInv, FramesInv
  <2>2. ListIsCurrent
    BY ListsMean DEF UiInv, RequestsInv
  <2>3. EventSocketOK
    BY DEF UiInv, SocketInv
  <2>4. TabIsCurrent /\ FramesAndDiffAreAsked
    BY <2>3, TabMeans, WsTabMeans DEF UiInv, WsTabInv
  <2>5. ScopeIsShown /\ RulesAreShown
    BY ScopeMeans, RulesMean DEF UiInv
  <2> QED
    BY <2>1, <2>2, <2>4, <2>5 DEF ShownIsAsked
<1> QED
  BY <1>1, UiHolds, PTL

\* The repeater's storage, and what the next instance shows, has the last answers
\* in their order unless one was refused or came to an instance that another has
\* followed (RepeaterTab.vue:102, 182).
THEOREM HistoryKept == UiSpec => []HistoryIsKept
<1>1. UiInv => HistoryIsKept
  BY DEF UiInv, RepeaterInv
<1> QED
  BY <1>1, UiHolds, PTL
=============================================================================
