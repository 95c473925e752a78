SPECIFICATION Spec
CONSTANTS
    Handlers = {h1, h2}
    Devices = {"kiosk"}
    Names = {"Ann", "Bob"}
    Pins = {1234}
    MaxMembers = 2
    AreaNames = {"Kitchen"}
    Points = {1}
    Rules = {{}, {0, 1}}
    MaxAreas = 1
    MaxChores = 1
    MaxCompletions = 1
    DayLength = 2
    Zone <- West
    MaxDays = 1
    MaxTime = 4
    Costs = {1}
    MaxRewards = 1
    MaxRedemptions = 2
CONSTRAINT OnePart
SYMMETRY HandlerSymmetry
INVARIANTS
    NamesAreUnique
    BoardIsTruthful
    OverdraftIsBounded
PROPERTIES
    NewMemberStartsClean
    RedemptionsAreApproved
CHECK_DEADLOCK FALSE
