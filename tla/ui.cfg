\* Every part of the user interfaces, one at a time.
SPECIFICATION UiSpec
CONSTANTS
    MaxReconnectAttempts = 2
    MaxSockets = 4
    MaxCalls = 4
    MAX_RETRIES = 2
    MaxAsked = 4
    Types = {"error", "info"}
    MAX_NOTIFICATIONS = 2
    MaxShown = 4
    StatusCalls = {s1, s2}
    MaxOperations = 3
    MaxStarts = 3
    MaxStops = 2
    MaxScans = 3
    MaxScanCalls = 2
    Captured = {r1, r2}
    NoId = null
    MaxFetching = 1
    MaxSelections = 3
    MaxPauses = 2
    Connections = {w1, w2}
    NoConnection = null
    MaxPolls = 1
    MaxFrameRequests = 3
    Filters = {f1, f2}
    MaxLists = 3
    MaxClears = 1
    MaxSocketsOpened = 2
    Transactions = {t1, t2}
    NoTransaction = null
    MaxFetched = 3
    Peers = {w1, w2}
    Frames = {m1, m2}
    Null = null
    MaxPeerFetches = 1
    MaxQuestions = 3
    Scopes = {{}, {p}, {blank}, {p, blank}}
    Blank = blank
    MaxScopeCalls = 3
    MaxScopeEdits = 2
    MaxRuleEdits = 3
    MaxRuleLists = 4
    MaxInstances = 3
    MaxReplays = 4
    MaxHistory = 2
INVARIANTS UiOK OneConnection ConnectedIsOpen CleanupIsFinal ToastsAreTimed FlagIsRight
           FeedsAreTracked ShownIsAsked HistoryIsKept
PROPERTY Settles
CHECK_DEADLOCK FALSE
