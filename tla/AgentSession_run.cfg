CONSTANTS
    Prompts = {p1, p2}
    Steers = {s1, s2}
    Waiters = {s1}
    FollowUps = {f1}
    MaxCalls = 2
    MaxToolTurns = 1
    MaxRetries = 1
    MaxEvents = 4
    None = None
SPECIFICATION Spec
INVARIANT EveryMessageOnce
INVARIANT AskedWithWholeTranscript
INVARIANT HonestAnswers
INVARIANT NothingLeftBehind
PROPERTY PromptReturns
CHECK_DEADLOCK FALSE
