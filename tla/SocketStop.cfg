SPECIFICATION FairSpec
CONSTANTS
    Old = 2
    Queue = 2
    Outbound = 2
    MaxLines = 4
    MaxFrames = 1

PROPERTIES StopClosesSocket
CHECK_DEADLOCK FALSE
