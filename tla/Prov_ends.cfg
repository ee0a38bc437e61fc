CONSTANTS
    Handlers = {h1, h2}
    Clusters = {c1}
    Metal3Clusters = {c1}
    Assets = {a1}
    Pools = {p1}
    Deployments = {d1, d2}
    Operations = {"assign", "delete", "start"}
    NameOf <- OwnName
    MaxBatches = 1
    MaxRepeat = 1
    Aborts = FALSE
    Workers = {w1}
    MaxRedeliveries = 1
    Crashes = FALSE
    None = None
SPECIFICATION FairSpec
CHECK_DEADLOCK FALSE
PROPERTIES DeploymentEnds RequestAnswered
