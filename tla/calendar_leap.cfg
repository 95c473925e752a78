SPECIFICATION CalendarSpec
CONSTANTS
    Handlers = {h1}
    NoRule = NoRule
    PerDay = 2
    MaxMonths = 16
    MaxIterations = 10000
    Timings <- LeapTimes
    Leads = {1}
    MaxRows = 2
    Days <- EditedDays
    Views <- LastDays
CONSTRAINT OneSeries
INVARIANTS
    ViewsEnd
CHECK_DEADLOCK FALSE
