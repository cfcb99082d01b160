SPECIFICATION Spec
CONSTANTS
    WeekLength = 2
    DayEnd = 4
    Step = 2
    Levels = {0, 1}
    Days <- MCDays
    Zones <- MCZones
    Windows <- MCWindows
INVARIANTS
    TypeOK
    PeriodsFollowOnEachOther
    ShowsTheWindow
    PeriodsShowTheSchedule
    PeriodsAreComplete
CHECK_DEADLOCK FALSE
