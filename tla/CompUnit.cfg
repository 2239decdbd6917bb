CONSTANTS
    Src = {1, 2, 3}
    Dst = {1, 2, 3}
    RdPort <- UnitRdPort
    WrPort <- UnitWrPort
    Ops <- UnitOps
    HoldsOk = TRUE
    Zero = Zero
    Bad = Bad
    WIDTH = 8
    BYTE = 4
    Offers <- AluOffers
    Dlen = 3
    Lines = 3
    Lens = {1, 2, 4}
    Ports = {0, 1}
    None = None
SPECIFICATION FairSpec
INVARIANTS AlusAnswer MisalignedAccesses
PROPERTIES ImplementsFuncUnit UnitProved Finishes
