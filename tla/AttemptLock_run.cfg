SPECIFICATION Spec
CONSTANTS
    None = None
    Other = Other
    a1 = a1
    a2 = a2
    w1 = w1
    w2 = w2
    Attempts = {a1, a2}
    Abortable = {a1}
    MaxStreams <- First
    Writers = {w2}
    WriterOf <- Of1
    Publishing = {w2}
    OtherKinds = {"migration", "foreign"}
    MaxOthers = 1
INVARIANT WritesUnderLock
INVARIANT ForeignNoticed
INVARIANT NothingHeldAfterwards
INVARIANT PublishedIsOwn
INVARIANT NobodyWaitsForEver
CHECK_DEADLOCK FALSE
