SPECIFICATION Spec
CONSTANTS
    NoProc = NoProc
    NoServer = NoServer
    None = None
    Servers = {s1}
    Procs = {p1, p2}
    Callers = {c1, c2}
    MayShutDown = FALSE
    Impatient = {}
INVARIANTS
    OneChildPerServer
