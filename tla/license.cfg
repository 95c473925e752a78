SPECIFICATION LicenseFairSpec
CONSTANTS
    Keys = {k1, k2}
    NoKey = NoKey
    EnvKey = NoKey
    Features = {f1}
    Updaters = {h1}
    Loop = Loop
    Grace = 2
    Never = Never
INVARIANTS LicenseTypeOK FeaturesAreGranted
PROPERTIES OutageIsHarmless StatusSettles
CHECK_DEADLOCK FALSE
