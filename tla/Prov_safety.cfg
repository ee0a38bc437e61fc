CONSTANTS
    Handlers = {h1, h2}
    Clusters = {c1, c2}
    Metal3Clusters = {c1}
    Assets = {a1}
    Pools = {p1}
    Deployments = {d1, d2}
    Operations = {"assign", "unassign", "sync", "remove", "delete", "start"}
    NameOf <- SameName
    MaxBatches = 1
    MaxRepeat = 1
    Aborts = TRUE
    Workers = {w1, w2}
    MaxRedeliveries = 0
    Crashes = TRUE
    None = None
SPECIFICATION Spec
SYMMETRY Symmetry
CHECK_DEADLOCK FALSE
INVARIANTS TypeOK ReferencesResolve OneTaskPerDeployment RowFollowsTask TaskHasCluster
PROPERTIES PhaseForward
