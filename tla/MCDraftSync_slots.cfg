CONSTANTS
    Keys = {1, 2}
    RemoteKeys = {1, 2}
    Owners = {alice}
    NoOwner = NoOwner
    Words = {1, 2, 3}
    BigWords = {2}
    MaxDrafts = 1
    MaxRevision = 2
    Procs = {p}
    Faults = {"missing", "refuse", "disk", "expire"}
SPECIFICATION Spec
PROPERTIES UsesTheStore
