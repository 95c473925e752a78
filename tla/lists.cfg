SPECIFICATION ListsSpec
CONSTANTS
    Handlers = {h1, h2}
    Authors = {"Ann", "nobody"}
    NoAuthor = "nobody"
    ItemNames = {"pear", "bulb"}
    Categories <- MCCategories
    Categorize <- MCCategorize
    OwnCategories = {"Garden"}
    Times = {1}
    MaxHouseholds = 2
    MaxItems = 2
    MaxNotes = 1
    MaxClock = 1
CONSTRAINT OneKind
SYMMETRY HandlerSymmetry
INVARIANTS
    TogglesAreKept
    EveryItemIsShown
CHECK_DEADLOCK FALSE
