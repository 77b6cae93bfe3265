SPECIFICATION FairSpec
CONSTANTS
    Path = {p}
    Content = {a}
    SymbolLess = {}
    Request = {r}
    None = None
    MaxSaves = 1
    MaxIndexes = 0
    MaxStoreFaults = 0
    MaxLspFaults = 1
    MaxRescans = 1
    MaxReopens = 1
    MaxGeneration = 9

PROPERTIES OverlayConverges CallersReturn
