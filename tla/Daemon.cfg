SPECIFICATION FairSpec
CONSTANTS
    Root = {r}
    Db = {d, o}
    Joined <- MCJoined
    Client = {c1, c2}
    Entry = {e1, e2}
    Handle = {h1, h2}
    None = None
    MaxUses = 1
    MaxAdds = 1
    MaxFaults = 1
    MaxEdits = 1
    MaxRestarts = 1
    Daemon = {d1, d2, d3}
    Commander = {m1, m2}
    Absent = Absent
    MaxKills = 1
    Caller = {u1, u2}
    Opener = opener
    Reader = reader
    Nobody = nobody
    Ask = Ask
    Bad = Bad
    PipeSize = 1
    MaxCalls = 3
    MaxAsks = 1
    MaxTroubles = 1
CHECK_DEADLOCK FALSE
INVARIANTS StatesOK NoCallIsLost
PROPERTIES RegistryReturns CleansUp ServingKeepsFile CleanupSettles ClientSettles
