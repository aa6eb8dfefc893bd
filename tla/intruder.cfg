\* Attacks that are stopped, restarted and cleared at any time.
SPECIFICATION FairSpec
CONSTANTS
    MaxAttacks = 2
    Sizes = {0, 3}
    Concurrencies = {0, 2, 3}
    MaxPermits = 2
    MayOverflow = TRUE
    MayStop = TRUE
    MayClear = TRUE
INVARIANTS IdleMeansFinished ResultsDistinct ConcurrencyBound OneMoreAfterStop
PROPERTIES SessionSpec AttacksEnd
CHECK_DEADLOCK FALSE
