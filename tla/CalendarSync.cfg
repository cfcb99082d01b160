SPECIFICATION Spec
CONSTANTS
    Editors = {"e1", "e2"}
    Calendars = {"A", "B"}
    Coloured = {"A"}
    Days = {"d1", "d2"}
    Schedules = {"s0", "s1", "bad"}
    Names = {"", "n1", "n3"}
    Temperatures = {"t1", "t2", "t4"}
    Colours = {"c0", "c1"}
    Rejected = {"bad"}
    Unencodable = {"n3"}
    Initial <- MCInitial
    PathLen = 2
    ValueLen <- MCValueLen
    EncodedLen <- MCEncodedLen
    MaxRequest = 16
    MaxResponse = 40
    Overhead = 2
    Tasks <- MCTasks
    MaxWrites <- MCMaxWrites
VIEW MCView
INVARIANTS
    TypeOK
    NeverWiped
    LosesOnlyToOverlap
    OneWriteUnlessSplit
CHECK_DEADLOCK FALSE
