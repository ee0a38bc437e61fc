CONSTANTS
    a1 = a1
    a2 = a2
    p1 = p1
    p2 = p2
    Assets = {a1, a2}
    Machine <- TwoServers
    Pools = {p1, p2}
    Providers = {"metal3", "openstack"}
    Reservations = {2}
    Declared = {3}
    Entered <- SomeTopologies
    RoleChoices <- SomeRoles
    Overrides <- SomeOverrides
    MaxLinks = 2
    None = None
SPECIFICATION Spec
SYMMETRY Symmetry
CHECK_DEADLOCK FALSE
INVARIANTS TypeOK ReservedCpusExist  NetworkFollowsRoles
PROPERTIES StableBundle
