SPECIFICATION Spec
CONSTANTS
    MaxCap = 3
    MaxTokens = 4
    MaxResults = 2
INVARIANTS
    BudgetShared
    OverrunRefused
    GroundedOnEvidence
CHECK_DEADLOCK FALSE
