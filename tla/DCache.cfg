CONSTANTS
    Tags <- MCTags
    Idx <- MCIdx
    Rows = 2
    Ways = 2
    Vals = {0, 1}
    Requests <- MCRequests
    Gentle = TRUE
    None = None
SPECIFICATION FairSpec
INVARIANTS Answers Coherent
PROPERTY Answered
