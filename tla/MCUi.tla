-------------------------------- MODULE MCUi --------------------------------
(***************************************************************************)
(* The two user interfaces for TLC.  Their pages and composables share     *)
(* nothing but the server, so a behaviour is one of the part chosen at its *)
(* beginning, and the others stay as they are: one run explores the sum of *)
(* the parts and not their product.                                        *)
(***************************************************************************)
EXTENDS UseWebSocket, Polling, Notifications, ProxyControl, AttackPage, ScanPage, TrafficView,
        FramesView, RequestsPage, TrafficTab, WebSocketTab, ScopeTab, RulesTab, RepeaterTab

VARIABLE part

Parts == {"feed", "dashboard", "toasts", "proxy", "attack", "scan", "traffic", "frames", "requests",
          "transactions", "websockets", "scope", "rules", "repeater"}

\* The two tabs with an event socket have it in common.
Still(p, v) == p # part => UNCHANGED v
Rest ==
    /\ Still("feed", vars) /\ Still("dashboard", pollVars) /\ Still("toasts", noteVars)
    /\ Still("proxy", controlVars) /\ Still("attack", attackVars) /\ Still("scan", scanVars)
    /\ Still("traffic", viewVars) /\ Still("frames", framesVars) /\ Still("requests", requestsVars)
    /\ Still("scope", scopeVars) /\ Still("rules", rulesTabVars) /\ Still("repeater", repeaterVars)
    /\ Still("transactions", <<tabLists, tabHighlights, fetched>>)
    /\ Still("websockets", <<peerVars, shownVars, compareVars, questions>>)
    /\ part \notin {"transactions", "websockets"} => UNCHANGED <<tabMounted, socketVars>>
    /\ UNCHANGED part

UiInit ==
    /\ part \in Parts
    /\ Init /\ PollInit /\ NoteInit /\ ControlInit /\ AttackPageInit /\ ScanPageInit
    /\ TrafficViewInit /\ FramesViewInit /\ RequestsPageInit /\ TrafficTabInit /\ WebSocketTabInit
    /\ ScopeTabInit /\ RulesTabInit /\ RepeaterInit
    /\ part # "proxy" => ~proxyRunning
    /\ part # "scope" => serverScope = {}
    /\ part # "requests" => filterParams = CHOOSE f \in Filters : TRUE

UiNext ==
    \/ part = "feed" /\ Next /\ Rest
    \/ part = "dashboard" /\ PollNext /\ Rest
    \/ part = "toasts" /\ NoteNext /\ Rest
    \/ part = "proxy" /\ ControlNext /\ Rest
    \/ part = "attack" /\ AttackPageNext /\ Rest
    \/ part = "scan" /\ ScanPageNext /\ Rest
    \/ part = "traffic" /\ TrafficViewNext /\ Rest
    \/ part = "frames" /\ FramesViewNext /\ Rest
    \/ part = "requests" /\ RequestsPageNext /\ Rest
    \/ part = "transactions" /\ TrafficTabNext /\ Rest
    \/ part = "websockets" /\ WebSocketTabNext /\ Rest
    \/ part = "scope" /\ ScopeTabNext /\ Rest
    \/ part = "rules" /\ RulesTabNext /\ Rest
    \/ part = "repeater" /\ RepeaterNext /\ Rest

uiVars == <<part, vars, pollVars, noteVars, controlVars, attackVars, scanVars, viewVars, framesVars,
            requestsVars, tabVars, wsTabVars, scopeVars, rulesTabVars, repeaterVars>>

UiSpec == UiInit /\ [][UiNext]_uiVars /\ Fairness /\ PollFairness /\ NoteFairness

----------------------------------------------------------------------------
\* The types of all parts.
UiOK ==
    /\ TypeOK /\ PollingOK /\ NotificationsOK /\ ControlOK /\ AttackPageOK /\ ScanPageOK
    /\ TrafficViewOK /\ FramesViewOK /\ RequestsPageOK /\ TrafficTabOK /\ WebSocketTabOK
    /\ ScopeTabOK /\ RulesTabOK /\ RepeaterOK

\* Whatever keeps a page up to date is held by the variable that ends it, but for
\* the ways in which each page loses it: intervals (IntruderTab.vue:341,
\* ScannerView.vue:124, TrafficView.vue:176, WebSocketView.vue:61), the request of
\* the dashboard (useDashboardMetrics.ts:151), the socket of a tab or its timer
\* (TrafficTab.vue:275).
FeedsAreTracked ==
    /\ PollingIsTracked /\ StatsArePolledOnce /\ ListIsPolledOnce /\ FramesArePolledOnce
    /\ OneRequest /\ OneFeed

\* What a page shows answers what it asked last whenever that answer came last
\* (TrafficView.vue:94, WebSocketView.vue:42, App.vue:206, TrafficTab.vue:136,
\* WebSocketTab.vue:123), and the tabs of the scope and of the rules show what is in
\* force once all they asked is answered (ScopeTab.vue:59, RulesTab.vue:156).
ShownIsAsked ==
    /\ DetailsAreSelected /\ FramesAreSelected /\ ListIsCurrent /\ TabIsCurrent
    /\ FramesAndDiffAreAsked /\ ScopeIsShown /\ RulesAreShown

\* Left alone, the interface comes to rest: every connect() returns and a feed that
\* is gone lets go of its sockets and timers, a dashboard that is gone asks no more,
\* whatever its timers were about to do, and a toast goes by itself
\* (useWebSocket.ts:421, useDashboardMetrics.ts:270, useNotifications.ts:179).
Settles == Released /\ CallsReturn /\ GoesQuiet /\ ToastsVanish
=============================================================================
