SPECIFICATION PackSpec
CONSTANTS
    MaxRequest = 8
    MaxResponse = 6
    Overhead = 2
    MaxItems = 4
    ItemSizes <- MCItemSizes
INVARIANTS
    PackTypeOK
    ChunksUnderBudgets
    NothingLostOrMoved
    RaisesExactlyForUnsendable
    FewestInOrder
CHECK_DEADLOCK FALSE
