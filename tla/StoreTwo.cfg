SPECIFICATION StoreSpec
CONSTANTS
    Path = {p}
    Converted = {}
    Text = {x, y}
    Binary = {b}
    Large = {}
    Worker = {w1, w2}
    OneProcess = FALSE
    NoFile = NoFile
    NoWorker = NoWorker
    MaxRow = 2
    MaxJobs = 2
    MaxChanges = 1
    MaxBreaks = 0
    MaxCrashes = 0
    MaxBack = 1
CHECK_DEADLOCK FALSE
INVARIANTS ParasMatchRows
