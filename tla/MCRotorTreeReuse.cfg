SPECIFICATION Spec
CONSTANTS
    Arities = {2}
    MaxDepth = 2
    MaxBatch = 1
    MaxLeaves = 3
    ChunkSize = 2
    Policies = {"Manual"}
    EveryN = 2
    Budgets <- ReuseBudgets
INVARIANTS
    DurableSurvives
