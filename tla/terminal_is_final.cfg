SPECIFICATION Spec
CONSTANTS
    Jobs = {j1}
    Workers = {w1, w2}
    Reapers = {}
    NoJob = NoJob
    MaxAttempts = 3
    MaxBatch = 1
    FaultKinds = {}
    MaxFaults = 0
SYMMETRY Symmetry
PROPERTY TerminalIsFinal
