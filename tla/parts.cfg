\* The rate limiter, durations, the filter and audit log, captured frames, the proxy,
\* and captures under two keys or none, one at a time; t1 and t2 are the tasks of each.
SPECIFICATION PartsSpec
CONSTANTS
    Ips = {a, b}
    Handlers = {t1, t2}
    max_requests = 2
    window = 4
    GlobalFactor = 2
    Second = 3
    max_age = 4
    Moments = {0, 1, 3}
    MaxNow = 5
    Timers = {t1, t2}
    Micros = {0, 500, 3000}
    MaxCount = 3
    Addresses = {home, here}
    Loopback = {here}
    Private = {home}
    Garbage = {nonsense}
    Posted <- FewConfigs
    Requests = {t1, t2}
    MaxEntries = 3
    Connections = {a, b}
    Capturers = {t1, t2}
    max_frames = 3
    max_frames_per_connection = 2
    MaxCaptured = 4
    Conns = {t1, t2}
    Hosts = {h}
    RuleIds = {r}
    MaxRequests = 2
    MaxEdits = 1
    Pushers = {t1, t2}
    Clearers = {c1}
    Capacity = 2
    DefaultCapacity = 3
    Keys = {k1, none}
    NoKey = none
    StorageMayFail = TRUE
    MaxPushes = 3
    MaxRestarts = 2
    Literals = {l1, l2}
    Names = {n1, n2}
    Template <- OneTemplate
    WordSize = 8
    MaxPayloads = 3
    MaxPositions = 2
    Browsers = {a, b}
    ChannelSize = 2
    MaxAnnounced = 5
    MaxBody = 2
    MaxRules = 3
SYMMETRY Symmetry
INVARIANTS PartsOK AllowedIsBounded RetryAfterHolds MaximumIsKept DurationsAgree
            AuditKeepsEntries ExchangeIsRecorded 
           CaptureHolds AttackIsComplete FeedIsComplete MessageIsSound
PROPERTY NewestStay
CHECK_DEADLOCK FALSE
