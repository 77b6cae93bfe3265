SPECIFICATION Spec
CONSTANTS
    Path = {p}
    Content = {a, b}
    SymbolLess = {}
    Request = {r}
    None = None
    MaxSaves = 1
    MaxIndexes = 1
    MaxStoreFaults = 1
    MaxLspFaults = 1
    MaxRescans = 0
    MaxReopens = 1
    MaxGeneration = 9
SYMMETRY Symmetry
INVARIANTS WorkspaceInv
PROPERTIES IndexRespectsOverlay QuietAfterClose AnswersSinceRefresh
