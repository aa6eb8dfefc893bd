\* The server closes the connection.
SPECIFICATION FairSpec
CONSTANTS
    MaxReconnectAttempts = 2
    MaxSockets = 2
    MaxCalls = 1
PROPERTY ReconnectsAfterLoss
CHECK_DEADLOCK FALSE
