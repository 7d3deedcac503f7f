CONSTANTS
    Terminals = {p, q}
    Accounts = {alice}
    Nobody = Nobody
    MaxGrant = 3
    Events = {}
SPECIFICATION Spec
SYMMETRY Alike
INVARIANTS RestartsNeedNoSignIn
CHECK_DEADLOCK FALSE
