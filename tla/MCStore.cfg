SPECIFICATION Spec
CONSTANTS
    Retain = 1
    MaxCommits = 5
    Budgets <- MCBudgets
INVARIANTS
    OpensAfterAck
    SlotsNameTheirSnapshot
PROPERTIES
    ImplementsCell
