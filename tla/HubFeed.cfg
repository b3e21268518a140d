SPECIFICATION FairSpec
CONSTANTS
    Streams = {o1, o2}
    Readers = {r1}
    Watchers = {w1}
    Slow = {w1}
    Cap = 3
    Queue = 2
    Wanted = 2
    MaxLines = 5
    Free = Free
INVARIANTS TypeOK RingIsTail GapFree MissesAreCounted
PROPERTIES ImplementsFeed PublishNeverWaits EndReachesAll
CHECK_DEADLOCK FALSE
