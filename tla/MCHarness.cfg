SPECIFICATION FairSpec
CONSTANTS
    Data = {1, 2, 3}
    QueueDepth = 2
    MaxEpoch = 1
    MaxRequests = 1
INVARIANTS
    SlotsConserved
    WatermarkIsStored
    WatermarkIsOfEpoch
    JoinDrains
    PublishedIsOfThisRun
PROPERTIES
    RequestTaken
    ShutdownEnds
