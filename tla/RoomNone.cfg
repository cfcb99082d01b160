SPECIFICATION Spec
CONSTANTS
    Clients = {"c2"}
    TypeOf <- MCTypes
    Rooms <- MCRooms
    Given <- MCGiven
    Manual <- MCManual
    MaxCalls <- MCMaxCalls
INVARIANT
    UnreadableIsRefused
CHECK_DEADLOCK FALSE
