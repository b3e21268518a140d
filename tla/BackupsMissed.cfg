SPECIFICATION FairSpec
CONSTANTS
    Handlers = {h1}
    Keep = 1
    MayBeLate = FALSE
    MaxBackups = 2
    MaxSlots = 1
    MaxBoots = 1
PROPERTIES MissedSlotIsTaken
CHECK_DEADLOCK FALSE
