SPECIFICATION Spec
CONSTANTS
    Path = {p}
    Content = {a, b}
    SymbolLess = {}
    Request = {r}
    None = None
    MaxSaves = 2
    MaxIndexes = 1
    MaxStoreFaults = 0
    MaxLspFaults = 0
    MaxRescans = 0
    MaxReopens = 0
    MaxGeneration = 9
SYMMETRY Symmetry

PROPERTIES AnswersDespiteIndex
