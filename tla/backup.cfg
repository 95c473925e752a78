SPECIFICATION Spec
CONSTANTS
    Manual = {j1}
    Loop = Loop
    Buckets = {b1}
    NoBucket = NoBucket
    Passphrases = {p1}
    NoPass = NoPass
    Retention = 1
    MaxTime = 3
    MaxBackups = 2
    MaxRestarts = 1
    MaxEdits = 1
CONSTRAINT EditsOrRestarts
INVARIANTS TypeOK YoungBackupsAreStored RunningHasJob NoOrphans
PROPERTY RunsAreSettled
CHECK_DEADLOCK FALSE
