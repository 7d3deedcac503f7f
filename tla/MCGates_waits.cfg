CONSTANTS
    GateIds = {1, 2}
    WriteGates = {2}
    LaneSets <- Lanes
    Spacing <- Spacings
    Requests = {r, s}
    Unlocked = Unlocked
    Penalties = {1, 12}
    Fallback = 2
    EndOfTime = 9
    LastEvent = 2
    Prompt = TRUE
    LastInstant = 11
SPECIFICATION FairSpec
PROPERTIES WaitsEnd
CHECK_DEADLOCK FALSE
