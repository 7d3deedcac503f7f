CONSTANTS
    Keys = {1, 2, 3}
    RemoteKeys = {1, 2}
    Owners = {alice, bob}
    NoOwner = NoOwner
    Words = {1, 2, 3}
    BigWords = {2}
    MaxDrafts = 2
    MaxRevision = 4
SPECIFICATION Spec
INVARIANTS OperationIsCurrent PayloadMatches Bounded
PROPERTIES RevisionsAreFresh MergeSparesOwed
