CONSTANTS
    SRC_NUM = 2
    Masked = 2
SPECIFICATION MCSpec
INVARIANTS NoPhantom MasksItself
PROPERTIES PresentsFavoured IrqFollows
