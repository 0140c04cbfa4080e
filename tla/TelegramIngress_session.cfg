SPECIFICATION FairSpec
CONSTANTS
    UpdateIds <- ThreeIds
    Lane <- TwoLanes
    MaxSessions = 1
    MaxCrashes = 0
    MaxHandlerErrors = 1
    MaxPollErrors = 1
    MaxSpoolErrors = 1
    MaxTimeouts = 1
PROPERTY LaneInOrder
PROPERTY HandledOncePerSession
PROPERTY DeadLetterFinal
PROPERTY SpoolDrains
CHECK_DEADLOCK FALSE
