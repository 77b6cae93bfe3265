SPECIFICATION FairSpec
CONSTANTS
    Request = {r, s}
    None = None
    Embedder = {e, f}
    RootLanguage = {k, l}
    Server = {x, y}
    MaxLeases = 3
    Database = {d, o}
    Store = {a, b}
    Closer = {g, h}
CHECK_DEADLOCK FALSE
INVARIANTS PoolsInv
PROPERTIES EmbeddingIsPool LspIsPool DocumentsArePool PoolsSettle
