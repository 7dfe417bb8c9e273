SPECIFICATION FairSpec
CONSTANTS
    TicksPerSecond = 2
    Attempts = {1, 2}
    MaxMessages = 2
    MaxTime = 1
    FaultKinds = {"crash", "commit", "publish"}
    MaxFaults = 2
INVARIANTS TypeOK LostOnlyIfRefused BackoffHonoured RepeatsBounded
PROPERTY ForwardsAtLeastOnce
