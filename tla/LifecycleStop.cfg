SPECIFICATION Spec
CONSTANTS
    Tasks = {t1}
    Restarters = {r1}
    Boot = boot
    AutoStart = TRUE
    MaxAttempts = 1
    MaxLaunches = 2
    MaxBoots = 1

PROPERTIES StoppedStaysStopped
CHECK_DEADLOCK FALSE
