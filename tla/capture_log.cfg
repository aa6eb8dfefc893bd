\* One key: storage keeps the promise of TrafficLog through crashes, clears, failing
\* inserts and starts that could not read it.
SPECIFICATION Spec
CONSTANTS
    Pushers = {p1, p2, p3}
    Clearers = {c1}
    Capacity = 2
    DefaultCapacity = 3
    Keys = {k1}
    NoKey = none
    StorageMayFail = TRUE
    MaxPushes = 4
    MaxRestarts = 2
INVARIANTS GetAndListAgree MemoryIsKeyed StoredWasAnnounced ClearedStaysCleared
PROPERTIES LogSpec
CHECK_DEADLOCK FALSE
