SPECIFICATION Spec
CONSTANTS
    None = None
    a = a
    b = b
    Ids = {a}
    RowsOf <- MCAlways
    TicksPerMinute = 2
    MinutesPerHour = 4
    HoursPerDay = 2
    DaysPerWeek = 2
    MonthLength <- MCMonthLength
    FirstRuns = {2}
    Layouts = {"clear"}
    ZoneShift = 0
    MaxGap = 2
    Start = 3
    End = 12
    MaxEdits = 2
PROPERTIES
    EveryNamedMinuteRuns
CHECK_DEADLOCK FALSE
