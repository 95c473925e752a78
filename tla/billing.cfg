SPECIFICATION BillingSpec
CONSTANTS
    Handlers = {h1, h2}
    Clients = {"kiosk"}
    Limit = 2
    Window = 1
    MaxNow = 3
    MaxCount = 3
    Emails = {ann, bob}
    Subscriptions = {1}
    Period = 2
    Buffer = 1
    MaxRows = 2
    MaxEvents = 5
CONSTRAINT OnePart
SYMMETRY Symmetry
INVARIANTS
    EventsAreApplied
    KeysFollowCheckouts
    RateIsLimited
CHECK_DEADLOCK FALSE
