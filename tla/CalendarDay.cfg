SPECIFICATION Spec
CONSTANTS
    DayEnd = 6
    EdgeCount = 5
    Levels = {0, 1, 2}
    GivenTimes <- MCGivenTimes
    GivenLevels <- MCGivenLevels
    GivenIndices <- MCGivenIndices
    GivenLists <- MCGivenLists
    OneAndAHalf = OneAndAHalf
    WholePart <- MCWholePart
INVARIANTS
    TypeOK
    EditedDayIsValid
    NeverOutOfRoom
    RoundTrips
PROPERTY
    ImplementsSchedule
