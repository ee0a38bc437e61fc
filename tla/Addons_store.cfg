CONSTANTS
    Addons = {x1, x2, x3}
    Wired = {x1, x2}
    Handlers = {h1}
    Workers = {w1}
    Served = TRUE
    MaxEnables = 3
    Aborts = TRUE
    Crashes = TRUE
SPECIFICATION FairSpec
CHECK_DEADLOCK FALSE
INVARIANTS TypeOK InstalledIsReal StatusIsOutcome IntentRecorded
PROPERTIES InstallingEnds
