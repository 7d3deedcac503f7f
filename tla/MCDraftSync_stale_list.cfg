CONSTANTS
    Keys = {1}
    RemoteKeys = {1}
    Owners = {alice}
    NoOwner = NoOwner
    Words = {1, 2}
    BigWords = {}
    MaxDrafts = 1
    MaxRevision = 3
    Procs = {p}
    Faults = {}
SPECIFICATION Spec
PROPERTIES MergeNeverGoesBack
CHECK_DEADLOCK FALSE
