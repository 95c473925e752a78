CONSTANTS
    Handlers = {h1, h2}
    Emails = {ann, bob}
    maxCodeAttempts = 1
    MaxHouseholds = 2
    MaxCodes = 2
    MaxSessions = 2
SPECIFICATION Spec
SYMMETRY Symmetry
INVARIANTS
    TypeOK
    MembersWereAdmitted
    SessionsAreBacked
    AttemptsAreBounded
    PendingAreBounded
    OpeningsAreBounded
    UsersBelongSomewhere
CHECK_DEADLOCK FALSE
