SPECIFICATION Spec
CONSTANTS
    Root = {r}
    Db = {d}
    Joined <- Relative
    Client = {c1, c2}
    Entry = {e1, e2}
    Handle = {h1, h2}
    None = None
    MaxUses = 1
    MaxAdds = 2
    MaxFaults = 1
    MaxEdits = 0
    MaxRestarts = 0
CHECK_DEADLOCK FALSE
SYMMETRY Symmetry
INVARIANTS LeasesSurviveFailures
