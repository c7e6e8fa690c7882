SPECIFICATION Spec
CONSTANTS
    Arities = {2}
    MaxDepth = 3
    MaxBatch = 2
    MaxLeaves = 5
    ChunkSize = 2
    Policies = {"Manual"}
    EveryN = 2
    Budgets <- QuietBudgets
INVARIANTS
    NodesAreHashes
