SPECIFICATION Spec
CONSTANTS
    Clients = {"c1", "c2"}
    TypeOf <- MCTypes
    Rooms <- MCRooms
    Given <- MCGiven
    Manual <- MCManual
    MaxCalls <- MCMaxCalls
VIEW MCView
INVARIANTS
    TypeOK
    NeverHalfSet
    NumbersReadBack
CHECK_DEADLOCK FALSE
