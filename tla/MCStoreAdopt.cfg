SPECIFICATION Spec
CONSTANTS
    Retain = 1
    MaxCommits = 3
    Budgets <- MixedBudgets
INVARIANTS
    OpensAfterAck
