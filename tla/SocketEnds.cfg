SPECIFICATION FairSpec
CONSTANTS
    Old = 2
    Queue = 2
    Outbound = 2
    MaxLines = 4
    MaxFrames = 1
INVARIANTS TypeOK NeverPanics InOrder
PROPERTIES PeerGoneIsOver
CHECK_DEADLOCK FALSE
