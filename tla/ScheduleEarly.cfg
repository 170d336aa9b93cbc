SPECIFICATION SchedulesSpec
CONSTANTS
    TicksPerMinute = 2
    MinutesPerHour = 3
    HoursPerDay = 2
    DaysPerWeek = 3
    MonthDays <- MCMonthDays
    Offset = 1
    MaxAhead = 30
    MaxDelay = 10
    MaxMissed = 50
    MaxRunTicks = 14
    LastInstant = 64
    Plans <- MCPlans
INVARIANTS
    NotBeforeStart
