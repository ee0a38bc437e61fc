CONSTANTS
    a1 = a1
    a2 = a2
    p1 = p1
    p2 = p2
    Assets = {a1, a2}
    Machine <- TwoServers
    Pools = {p1}
    Providers = {"metal3"}
    Reservations = {1}
    Declared = {3}
    Entered = {}
    RoleChoices <- SomeRoles
    Overrides = {}
    MaxLinks = 2
    None = None
SPECIFICATION Spec
CHECK_DEADLOCK FALSE
INVARIANTS ControlPlaneCounted
