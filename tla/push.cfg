SPECIFICATION PushSpec
CONSTANTS
    Households = {"1", "2"}
    Members <- Accounts
    Endpoints = {phone, tablet}
    DayMinutes = 3
    HourMinutes = 1
    Retention = 3
    MaxNow = 5
    MaxCrashes = 1
CONSTRAINT Bounded
SYMMETRY EndpointSymmetry
INVARIANTS
    RemindedOnce
    RemindersReachDevices
CHECK_DEADLOCK FALSE
