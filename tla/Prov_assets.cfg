CONSTANTS
    Handlers = {h1, h2}
    Clusters = {c1}
    Metal3Clusters = {c1}
    Assets = {a1}
    Pools = {p1}
    Deployments = {}
    Operations = {"assign", "unassign", "patch", "sync", "remove", "delete"}
    NameOf <- OwnName
    MaxBatches = 1
    MaxRepeat = 2
    Aborts = TRUE
    Workers = {}
    MaxRedeliveries = 0
    Crashes = FALSE
    None = None
SPECIFICATION Spec
SYMMETRY Symmetry
CHECK_DEADLOCK FALSE
INVARIANTS ReferencesResolve
