CONSTANTS
    RdPort <- OneRdPort
    WrPort <- OneWrPort
    Ops <- LdstOps
    Zero = Zero
    None = None
    Resume = FALSE
    Gap = 2
SPECIFICATION FairSpec
PROPERTIES ImplementsMemOp Finishes
