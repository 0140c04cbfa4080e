SPECIFICATION Spec
CONSTANTS
    UpdateIds <- TwoIds
    Lane <- TwoApart
    MaxSessions = 1
    MaxCrashes = 0
    MaxHandlerErrors = 0
    MaxPollErrors = 0
    MaxSpoolErrors = 1
    MaxTimeouts = 0
INVARIANT KeptForRetry
CHECK_DEADLOCK FALSE
