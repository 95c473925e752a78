SPECIFICATION CalendarSpec
CONSTANTS
    Handlers = {h1}
    NoRule = NoRule
    PerDay = 2
    MaxMonths = 16
    MaxIterations = 10000
    Timings <- EventTimes
    Leads = {1}
    MaxRows = 2
    Days <- EditedDays
    Views <- LastDays
CONSTRAINT OneSeries
INVARIANTS
    ViewsFollowRules
CHECK_DEADLOCK FALSE
