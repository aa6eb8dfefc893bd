\* After a restart the deque is loaded back to front and evicts the newest.
SPECIFICATION Spec
CONSTANTS
    Pushers = {p1}
    Clearers = {}
    Capacity = 2
    DefaultCapacity = 2
    Keys = {k1}
    NoKey = none
    StorageMayFail = FALSE
    MaxPushes = 3
    MaxRestarts = 1
PROPERTIES EvictsOldest
CHECK_DEADLOCK FALSE
