SPECIFICATION EngineSpec
CONSTANTS
    a = a
    b = b
    Hash <- MCHash
    RingCapacity = 2
    CheckpointSlots = 2
    MaxResets = 1
    Foreign <- MCForeign
    Batches <- MCBatches
    RollbackTargets <- MCRollbackTargets
INVARIANTS
    EngineTypeOK
    RingTipIsCursor
    NoForkMixing
    CheckpointsTrusted
    SnapshotRestores
    FreshnessNamesTip
PROPERTIES
    RollbackGoesBack
