SPECIFICATION Spec
CONSTANTS
    Requests = {q1, q2, q3}
    Keys = {k1, k2}
    Types = {t1, t2}
    None = None
    FaultKinds = {"crash", "store", "publish", "rejected"}
    MaxFaults = 2
SYMMETRY Symmetry
INVARIANTS TypeOK SameKeySameJob OneMessagePerKey  QueuedIsTrue
