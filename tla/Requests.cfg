SPECIFICATION RequestsSpec
CONSTANTS
    Root = {r}
    Db = {d, o}
    Joined <- MCJoined
    Client = {u1, u2}
    Entry = {e1, e2}
    Handle = {h1, h2, h3}
    None = None
    MaxUses = 2
    MaxAdds = 1
    MaxFaults = 1
    MaxEdits = 0
    MaxRestarts = 1
    Request = {u1, u2}
    Op = {"expand", "index", "documents", "stop"}
    MaxDaemons = 2
    MaxLosses = 1
    Place <- MCPlace
    File = {"a", "b", "c"}
    DefaultK = 1
    MaxK = 2
    Fetch = 2
    Contents <- MCContents
    ParaId = {1, 2, 3}
    MaxReindex = 1
    Tag = {"t"}
    MaxHits = 2
    MaxBudget = 3
    DeclLines <- MCDeclLines
    MaxFound = 3
    Cost <- MCCost
    MaxCost = 5
    Source = {"p", "t"}
    TestSource = {"t"}
    Version = {"v1", "v2", "v3"}
    Decl <- MCDecl
    Gone = Gone
    Relation = {"references", "callers"}
    Lines = {2, 4}
    MaxWrites = 3
    Path = {p, q}
    Converted = {q}
    Text = {x, y}
    Binary = {b}
    Large = {y}
    Worker = {u1, u2}
    OneProcess = TRUE
    NoFile = NoFile
    NoWorker = NoWorker
    MaxRow = 2
    MaxJobs = 2
    MaxChanges = 1
    MaxBreaks = 1
    MaxCrashes = 1
    MaxBack = 0
    MaxLines = 4
    MaxLevel = 2
    Installer = {u1, u2}
    NumLibs = 1
    NumAssets = 2
    NumParts = 2
    MaxInode = 5
    MaxInits = 3
    MaxStops = 1
CHECK_DEADLOCK FALSE
SYMMETRY Symmetry
INVARIANTS LeasedStaysOpen DbAsRequested NothingLeaks TablesAgree AnswersAreTrue LeasesAreHeld AnswersAreRanked BodiesFitBudget PackFollowsBudget CleanPlansHold EdgesHaveTheirSymbol StoreInv FreshIsCurrent IndexIsComplete ParasCoverText CacheIsWhole
PROPERTIES RecentUseSurvives AddTellsWhatItLeft
