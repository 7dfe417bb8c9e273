SPECIFICATION FairSpec
CONSTANTS
    Jobs = {j1}
    Workers = {w1, w2}
    Reapers = {}
    NoJob = NoJob
    MaxAttempts = 2
    MaxBatch = 1
    FaultKinds = {"crash", "rebalance"}
    MaxFaults = 1
INVARIANT NoLostJob
PROPERTIES EventuallySettled ImplementsService
