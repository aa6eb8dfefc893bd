\* The flag of a scan nobody stops.
SPECIFICATION Spec
CONSTANTS
    MaxScans = 2
    Sizes <- FewTargets
    Payloads = 2
    Concurrencies = {0, 1, 2, 3}
    MaxPermits = 2
    Proxies = {q1}
    MaxHits = 2
    MaxPassive = 0
    MayStop = FALSE
    MayClear = FALSE
INVARIANT RunningIsTold
CHECK_DEADLOCK FALSE
