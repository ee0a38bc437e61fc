CONSTANTS
    Handlers = {h1, h2}
    Clusters = {c1, c2}
    Metal3Clusters = {c1, c2}
    Assets = {a1}
    Pools = {p1}
    Deployments = {d1}
    Operations = {"assign"}
    NameOf <- OwnName
    MaxBatches = 2
    MaxRepeat = 1
    Aborts = FALSE
    Workers = {w1}
    MaxRedeliveries = 0
    Crashes = FALSE
    None = None
SPECIFICATION Spec
CHECK_DEADLOCK FALSE
INVARIANTS AssetHeldOnce
