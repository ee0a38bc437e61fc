SPECIFICATION FairSpec
CONSTANTS
    Processes = {p1, p2}
    Columns <- Models
    Members = {"METAL3", "DOCKER"}
    MaxKills = 2
    None = None
INVARIANTS TypeOK ServesComplete LoggedPasswordWorks
PROPERTIES StartEnds
CHECK_DEADLOCK FALSE
