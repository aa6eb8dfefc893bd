SPECIFICATION ProjectSpec
CONSTANTS
    Pushers = {p1}
    Clearers = {c1}
    Capacity = 2
    DefaultCapacity = 2
    Keys = {k1}
    NoKey = NoKey
    StorageMayFail = TRUE
    MaxPushes = 2
    MaxRestarts = 1
    ExportLimit = 2
PROPERTY NewProjectStartsEmpty
CHECK_DEADLOCK FALSE
