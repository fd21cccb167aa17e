CONSTANTS
    DaysIn <- ShortMonths
    Hours = 6
    DailyHour = 2
    MonthlyDay = 1
    Zone = 2
    FirstMonth <- December
    LastMonth <- January
    MaxEvents = 2
    MaxFaults = 2
SPECIFICATION Spec
INVARIANTS TypeOK ReportsExact RangeAddsUp
PROPERTIES RollsUp EveryMonthReported
CHECK_DEADLOCK FALSE
