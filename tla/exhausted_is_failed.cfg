SPECIFICATION Spec
CONSTANTS
    Jobs = {j1}
    Workers = {w1}
    Reapers = {r1}
    NoJob = NoJob
    MaxAttempts = 3
    MaxBatch = 1
    FaultKinds = {"crash", "db"}
    MaxFaults = 2
SYMMETRY Symmetry
INVARIANT ExhaustedIsFailed
