SPECIFICATION FairSpec
CONSTANTS
    Configs <- Typical
    MaxBroken = 2
    MaxChanges = 3
INVARIANTS
    ReadyEarned
    SteadyIsReady
PROPERTIES
    Recovers
