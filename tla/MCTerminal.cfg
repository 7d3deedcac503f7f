CONSTANTS
    Procs = {p, q}
    Nobody = Nobody
    Newest = 3
    Nodes = {0, 1}
    MaxPage = 2
    MaxSeq = 3
    MaxStack = 2
    MaxFlight = 2
    Height = 2
    FillBudget = 1
    MaxGen = 3
    MaxFrame = 1
    MaxScreens = 3
    Sources = {"a", "b"}
    Private = {"a"}
    Sizes = {"small", "large"}
    Keys <- Drawn
    Workers = 2
    Kept = 1
    MaxSession = 2
    MaxJob = 2
    Threads = {t, u}
    NoThread = NoThread
    LastPage = 2
    MaxLoad = 3
    MaxViews = 3
    Spots = {0, 1}
    Twins = FALSE
    MaxFlow = 2
    MaxCode = 2
    MaxPoll = 2
    Accounts = {alice}
    NoMember = NoMember
    Modes = {"auto", "relay", "loopback", "paste"}
    Convs = {c}
    People = {x, y}
    NoOne = NoOne
    MaxLoadId = 4
    MaxCalls = 3
    MaxPile = 2
    MaxSubmit = 2
    MaxAlert = 1
    MaxEpoch = 2
SPECIFICATION Spec
INVARIANTS  StagedOnce  RowsAreTheWindow AnswersTheQuestion ChatsAndStreamsAgree PrivateStaysPrivate PicturesCanCome  SignedInByThisFlow FlowIsHeard StartedAsConfirmed MarksAreMeant
PROPERTIES SettledStays  HandsOutOnce
CHECK_DEADLOCK FALSE
