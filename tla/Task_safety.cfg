CONSTANTS
    Hosts = {n1, n2, n3}
    Addons = {x1, x2, x3}
    HostPolls = 3
    ControlPlanePolls = 2
    DbFails = TRUE
    Crashes = TRUE
SPECIFICATION FairSpec
CHECK_DEADLOCK FALSE
INVARIANTS TypeOK PartialWorkIsFailure KubeconfigLifetime
PROPERTIES NothingAppliedEarly ImplementsLifecycle TaskEnds
