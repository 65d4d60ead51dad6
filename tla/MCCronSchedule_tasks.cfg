SPECIFICATION Spec
CONSTANTS
    None = None
    a = a
    b = b
    Ids = {a, b}
    RowsOf <- MCRows
    TicksPerMinute = 2
    MinutesPerHour = 4
    HoursPerDay = 2
    DaysPerWeek = 2
    MonthLength <- MCMonthLength
    FirstRuns = {2}
    Layouts = {"clear"}
    ZoneShift = 0
    MaxGap = 2
    Start = 28
    End = 34
    MaxEdits = 3
INVARIANTS
    TypeOK
PROPERTIES
    NamedMinutesRun
    RunsAsNamed
    NextAhead
    DueRunsOnce
CHECK_DEADLOCK FALSE
