CONSTANTS
    GateIds = {1, 2}
    WriteGates = {2}
    LaneSets <- Lanes
    Spacing <- Spacings
    Requests = {r, s, t}
    Unlocked = Unlocked
    Penalties = {1, 9}
    Fallback = 2
    EndOfTime = 3
    LastEvent = 3
    Prompt = FALSE
    LastInstant = 5
SPECIFICATION Spec
SYMMETRY Alike
INVARIANTS Spaced NoneUnderPenalty NoHoles
CHECK_DEADLOCK FALSE
