CONSTANTS
    Addrs <- MCAddrs
    Pids <- MCPids
    Prtbls = {"T"}
    Mems <- MCMems
    Requests <- IndexRequests
    LowBits = 1
    MinBits = 1
    MaxBits = 2
    Sets = 1
    Ways = 2
    Gap = 3
    Resume = FALSE
    None = None
SPECIFICATION HistSpec
INVARIANT TranslatedByIndex
