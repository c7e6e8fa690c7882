SPECIFICATION FairSpec
CONSTANTS
    a1 = a1
    a2 = a2
    a3 = a3
    a4 = a4
    b2 = b2
    b3 = b3
    b4 = b4
    Hash <- MCHash
    Number <- MCNumber
    Parent <- MCParent
    Logs <- MCLogs
    Foreign <- MCForeign
    Batches = {}
    RollbackTargets = {1, 2}
    MaxResets = 5
    RingCapacity = 2
    CheckpointSlots = 2
    StartBlock = 1
    Window = 1
    MaxSpan = 2
    CheckpointInterval = 1
    SnapshotInterval = 1
    Budgets <- MCBudgets
    ChainMayReturn = FALSE
INVARIANTS
    FoldComplete
    RestorePointsComplete
    MarksSound
    CaughtUpMeansFolded
    CheckpointKept
PROPERTIES
    RecoveryKeepsMost
    Converges
