SPECIFICATION Spec
CONSTANTS
    Arities = {2}
    MaxDepth = 2
    MaxBatch = 2
    MaxLeaves = 4
    ChunkSize = 2
    Policies = {"Manual", "EveryNEntries", "OnClose"}
    EveryN = 2
    Budgets <- MCBudgets
INVARIANTS
    DurableSurvives
    RootIsOfLeaves
    Reopens
