CONSTANTS
    Modes <- MCModes
    Nias <- MCNias
    Pages <- MCPages
    Ptes <- MCPtes
    Events <- MCEvents
    Frames = {"A", "B", "C"}
    Idx = {0, 1}
    Rows = 2
    Words = 2
    Ways = 2
    Gentle = TRUE
    None = None
SPECIFICATION FairSpec
INVARIANTS Fetched
PROPERTY Fetches
