CONSTANTS
    Handlers = {h1}
    Clusters = {c1, c2}
    Metal3Clusters = {c1, c2}
    Assets = {a1, a2}
    Pools = {p1}
    Deployments = {d1}
    Operations = {"assign", "unassign", "remove", "delete", "start"}
    NameOf <- OwnName
    MaxBatches = 3
    MaxRepeat = 1
    Aborts = TRUE
    Workers = {w1}
    MaxRedeliveries = 0
    Crashes = FALSE
    None = None
SPECIFICATION Spec
CHECK_DEADLOCK FALSE
INVARIANTS RowAgreesWithAssignments
PROPERTIES ImplementsOwnership
