CONSTANTS
    Keys = {1}
    RemoteKeys = {1}
    Owners = {alice, bob}
    NoOwner = NoOwner
    Words = {1}
    BigWords = {}
    MaxDrafts = 1
    MaxRevision = 3
    Procs = {p, q}
    Faults = {"fail", "exit", "signout"}
SPECIFICATION Spec
SYMMETRY Twins
INVARIANTS WordsStayWithTheirAccount
CHECK_DEADLOCK FALSE
