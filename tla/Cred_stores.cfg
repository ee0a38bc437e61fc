SPECIFICATION Spec
CONSTANTS
    Hosts = {x1, x2}
    Handlers = {h1, h2}
    k1 = k1
    k2 = k2
    KeyPlan <- Rotation
    MaxSubmits = 2
    None = None
SYMMETRY Symmetry
INVARIANTS TypeOK StoresAgree AcknowledgedKept Decryptable
CHECK_DEADLOCK FALSE
