SPECIFICATION Spec
CONSTANTS
    Handlers = {h1}
    Keep = 1
    MayBeLate = TRUE
    MaxBackups = 2
    MaxSlots = 1
    MaxBoots = 1
INVARIANTS TypeOK ArchiveHasRow PruneSparesNewest FiredOnce InFlightIsWorkedOn  
CHECK_DEADLOCK FALSE
