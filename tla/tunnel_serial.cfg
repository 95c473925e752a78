SPECIFICATION FairSpec
CONSTANTS
    Tokens = {t1, t2}
    NoToken = NoToken
    Handlers = {h1}
    Main = Main
    Runs = {r1, r2}
    NoRun = NoRun
    MaxFailures = 2
    OneAtATime = TRUE
    SlowStops = {Main}
INVARIANTS TypeOK NoPanic RunsAreManaged SettingsApplied
PROPERTIES UpdateReturns RetriesAreBounded
CHECK_DEADLOCK FALSE
