CONSTANTS
    Keys = {1}
    RemoteKeys = {1}
    Owners = {alice}
    NoOwner = NoOwner
    Words = {1}
    BigWords = {}
    MaxDrafts = 1
    MaxRevision = 2
    Procs = {p, q}
    Faults = {"exit"}
SPECIFICATION FairSpec
PROPERTIES WorkEnds OwedWorkIsRelayed
