CONSTANTS
    Terminals = {p, q}
    Accounts = {alice, bob}
    Nobody = Nobody
    MaxGrant = 3
    Events = {"omit", "lose", "disk", "exit", "signin", "signout"}
SPECIFICATION Spec
SYMMETRY Alike
INVARIANTS ActsAsMe RotationIsKept
PROPERTIES LiveGrantStays
ACTION_CONSTRAINT ExitsHalfway
CHECK_DEADLOCK FALSE
