SPECIFICATION Spec
CONSTANTS
    Tokens = {t1}
    NoToken = NoToken
    Handlers = {h1, h2}
    Main = Main
    Runs = {r1, r2}
    NoRun = NoRun
    MaxFailures = 2
    OneAtATime = FALSE
    SlowStops = {}
INVARIANT OneProcess
CHECK_DEADLOCK FALSE
