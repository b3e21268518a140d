SPECIFICATION FairSpec
CONSTANTS
    NoProc = NoProc
    NoServer = NoServer
    None = None
    Servers = {s1}
    Procs = {p1}
    Callers = {c1, c2}
    MayShutDown = TRUE
    Impatient = {c2}
INVARIANTS
    EndIsReported
PROPERTIES
    CallsReturn
    DeadIsReaped
