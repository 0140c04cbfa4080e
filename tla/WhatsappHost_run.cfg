SPECIFICATION FairHostSpec
CONSTANTS
    MaxSockets = 10
    MaxStarts = 1
    NoSocket = NoSocket
INVARIANT OneConnection
PROPERTY Reconnects
CHECK_DEADLOCK FALSE
