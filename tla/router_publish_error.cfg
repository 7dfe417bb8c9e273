SPECIFICATION FairSpec
CONSTANTS
    TicksPerSecond = 2
    Attempts = {1, 2}
    MaxMessages = 2
    MaxTime = 1
    FaultKinds = {"publish"}
    MaxFaults = 1
INVARIANT CommittedWasRepublished
