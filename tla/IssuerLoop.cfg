CONSTANTS
    W = 3
    NPC = 3
    Insns <- LoopInsns
    CtrlWrites = {}
    PcIn <- LoopPc
    SvIn <- LoopSv
    WaitsForStop = TRUE
    None = None
SPECIFICATION FairSpec
PROPERTIES ImplementsIsa InsnRetires
