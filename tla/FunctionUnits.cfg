SPECIFICATION Spec
CONSTANTS
    XLEN = 8
    BYTE = 1
    WIDTH = 8
    Space = 8
    TrapVector = 4
    SyscallVector = 0
    Value <- MCValue
    MsrValue <- MCMsrValue
    XerValue <- MCXerValue
    Vectors <- MCVectors
    Operand <- MCOperand
INVARIANT ComputesIsa ControlIsIsa StagesProved
PROPERTY UnitsFree
