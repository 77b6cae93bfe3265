SPECIFICATION Spec
CONSTANTS
    Root = {r}
    Db = {d, o}
    Joined <- Relative
    Client = {c}
    Entry = {e1, e2}
    Handle = {h1, h2}
    None = None
    MaxUses = 1
    MaxAdds = 0
    MaxFaults = 0
    MaxEdits = 1
    MaxRestarts = 0
CHECK_DEADLOCK FALSE
SYMMETRY Symmetry
INVARIANTS DbAsRequested
