SPECIFICATION FairSpec
CONSTANTS
    Tasks = {t1}
    Restarters = {r1}
    Boot = boot
    AutoStart = TRUE
    MaxAttempts = 1
    MaxLaunches = 2
    MaxBoots = 1
INVARIANTS TypeOK CrashBudget WatchedWhileLive NoGhost
PROPERTIES WatchersLeave
CHECK_DEADLOCK FALSE
