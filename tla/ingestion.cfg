SPECIFICATION IngestionSpec
CONSTANTS
    Requests = {q1, q2, q3, q4}
    Keys = {0, 1}
    Types = {t1}
    None = None
    FaultKinds = {"crash", "store", "publish", "rejected"}
    MaxFaults = 1
    Replicas = {c1, c2}
    Samples = {s1, s2}
    Telemetry = t1
    MaxMinute = 1
    OutageKinds = {"disconnect", "restart", "broker"}
    MaxOutages = 2
SYMMETRY Symmetry
INVARIANTS IngestionTypeOK NoSampleLost DuplicatesHaveCause
PROPERTY Submissions
