SPECIFICATION Spec
CONSTANTS
    UpdateIds <- TwoIds
    Lane <- TwoTogether
    MaxSessions = 2
    MaxCrashes = 1
    MaxHandlerErrors = 0
    MaxPollErrors = 1
    MaxSpoolErrors = 0
    MaxTimeouts = 0
INVARIANT ForgottenIsKept
INVARIANT LaneHeldByRun
CHECK_DEADLOCK FALSE
