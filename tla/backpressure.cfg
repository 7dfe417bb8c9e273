SPECIFICATION FairSpec
CONSTANTS
    Partitions = {p1, p2}
    Threshold = 2
    Missing = Missing
    MaxMessages = 3
    MaxInFlight = 1
    FaultKinds = {"crash", "collect", "answer", "scrape"}
    MaxFaults = 1
INVARIANT TypeOK
PROPERTIES NeverOverreports FailsOpenOnlyByFault BacklogIsNoticed AdmitsAgain
