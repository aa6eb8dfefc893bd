\* A stop and a start while the stopped attack drains.
SPECIFICATION Spec
CONSTANTS
    MaxAttacks = 2
    Sizes = {0, 3}
    Concurrencies = {0, 2, 3}
    MaxPermits = 2
    MayOverflow = TRUE
    MayStop = TRUE
    MayClear = FALSE
INVARIANT OneAttackAtATime
CHECK_DEADLOCK FALSE
