SPECIFICATION Spec
CONSTANTS
    Jobs = {j1, j2}
    Workers = {w1, w2}
    Partitions = {p1, p2}
    Home = p1
    Types = {"RemoteCommand", "FirmwareUpdate", "TelemetryProcessing", "HealthCheck", "AlertGeneration"}
    Alone = {"TelemetryProcessing", "HealthCheck", "AlertGeneration"}
    Payloads = {"good"}
    None = None
    MaxAttempts = 2
    FaultKinds = {}
    MaxFaults = 0
SYMMETRY Symmetry
INVARIANT OneAtATime
