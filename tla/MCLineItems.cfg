SPECIFICATION MCSpec
CONSTANTS
    None = None
    Ids = {i1, i2, i3}
    Amounts = {1, 2}
    Sources = {e, f}
    Handlers = {h1, h2}
SYMMETRY ItemSymmetry
INVARIANTS
    ItemsHaveReceipts
    ItemsFitReceipt
    OvershootIsBounded
    OneRowPerOccurrence
PROPERTIES
    DeletionSparesItems
CHECK_DEADLOCK FALSE
