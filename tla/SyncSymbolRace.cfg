SPECIFICATION Spec
CONSTANTS
    Path = {p}
    Content = {a, b}
    SymbolLess = {}
    Request = {r}
    None = None
    MaxSaves = 2
    MaxIndexes = 0
    MaxStoreFaults = 0
    MaxLspFaults = 0
    MaxRescans = 0
    MaxReopens = 0
    MaxGeneration = 9
SYMMETRY Symmetry
INVARIANTS SymbolsMatchHash

