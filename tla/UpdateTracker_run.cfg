SPECIFICATION FairSpec
CONSTANTS
    UpdateIds <- Ids
    Isolated = FALSE
    InitialOffsets <- FromScratchOrTwo
    MaxWriteFailures = 1
INVARIANT StoredOffsetCoversOnlyDone
INVARIANT NothingFinishedForgotten
PROPERTY AcceptsJustTheUndone
PROPERTY OffsetOnlyGrows
PROPERTY FinishedGetsStored
