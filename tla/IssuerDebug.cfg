CONSTANTS
    W = 2
    NPC = 3
    Insns <- DebugInsns
    CtrlWrites <- DebugCtrl
    PcIn <- DebugPc
    SvIn <- DebugSv
    WaitsForStop = TRUE
    None = None
SPECIFICATION FairSpec
INVARIANTS TypeOK Coupled AttnStops
PROPERTIES FetchFromState ParkedFrozen ImplementsIsa StopAcknowledged
