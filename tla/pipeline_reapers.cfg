SPECIFICATION Spec
CONSTANTS
    Jobs = {j1}
    Workers = {w1, w2}
    Reapers = {r1, r2}
    NoJob = NoJob
    MaxAttempts = 1
    MaxBatch = 1
    FaultKinds = {"crash", "rebalance", "publish", "db", "stall"}
    MaxFaults = 2
SYMMETRY Symmetry
INVARIANTS ReaperGivesUp NoUncausedDuplicate
