SPECIFICATION Spec
CONSTANTS
    MaxCap = 3
    MaxTokens = 4
    MaxResults = 2
INVARIANTS
    CapProven
CHECK_DEADLOCK FALSE
