SPECIFICATION FairSpec
CONSTANTS
    w1 = w1
    Names <- OneName
    Handlers = {h1, h2}
    None = None
INVARIANTS TypeOK RunningIsReal OrphansExplained
PROPERTIES Settles
CHECK_DEADLOCK FALSE
