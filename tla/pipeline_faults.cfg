SPECIFICATION Spec
CONSTANTS
    Jobs = {j1}
    Workers = {w1, w2}
    Reapers = {r1}
    NoJob = NoJob
    MaxAttempts = 2
    MaxBatch = 1
    FaultKinds = {"crash", "rebalance", "publish", "db", "stall"}
    MaxFaults = 1
SYMMETRY Symmetry
INVARIANTS TypeOK OutcomeHasEvidence DeadLetterEarned FailuresBounded RowTellsOutcome
PROPERTY LawfulUnlessOvertaken
