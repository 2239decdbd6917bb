CONSTANTS
    INT <- IntRegs
    CR <- CrRegs
    Programs <- MCPrograms
    Dec = 3
    None = None
SPECIFICATION Spec
INVARIANTS OperandsRead DebugReads
PROPERTIES ResultsWritten TimerCounts
