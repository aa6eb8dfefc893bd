\* Scans that are stopped, panic and are started again, a passive scan and a clear.
SPECIFICATION FairSpec
CONSTANTS
    MaxScans = 2
    Sizes <- FewTargets
    Payloads = 1
    Concurrencies = {0, 1, 2}
    MaxPermits = 1
    Proxies = {q1}
    MaxHits = 1
    MaxPassive = 1
    MayStop = TRUE
    MayClear = TRUE
INVARIANTS ScanBound CountersAgree
PROPERTY ScansEnd
CHECK_DEADLOCK FALSE
