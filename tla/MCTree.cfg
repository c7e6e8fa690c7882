SPECIFICATION Spec
CONSTANTS
    Arities = {2, 3, 4}
    MaxDepth = 4
    MaxBatch = 5
    MaxLeaves = 28
    ChunkSize = 2
    SegmentChunks = 2
    ParallelThreshold = 2
INVARIANTS
    LevelsAreHashes
    ChunksHoldLevels
    InclusionVerifies
    ConsistencyVerifies
