CONSTANTS
    Unit <- MCUnit
    Branch = 3
    Reg <- MCReg
    Src = {1, 2}
    Insns <- MCInsns
    Programs <- MCPrograms
SPECIFICATION FairSpec
INVARIANTS OperandsInOrder ResultsInOrder
PROPERTY Finishes
