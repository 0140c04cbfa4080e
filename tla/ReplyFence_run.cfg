SPECIFICATION Spec
CONSTANTS
    d1 = d1
    d2 = d2
    d3 = d3
    lane1 = lane1
    lane2 = lane2
    chat1 = chat1
    NoLane = NoLane
    Dispatches <- ThreeDispatches
    FenceLanes <- SomeLanes
    ChatKeys = {chat1}
    MaxTimeouts = 1
INVARIANT CountedExactly
INVARIANT SupersededMeansAborted
INVARIANT LaneReachesWork
PROPERTY SupersededForGood
PROPERTY NewTurnInterrupts
CHECK_DEADLOCK FALSE
