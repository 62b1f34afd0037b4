SPECIFICATION FairSpec
CONSTANTS
    Pids = {p1, p2}
    NoPid = NoPid
    Attempts = 2
    MaxCrashes = 1
    MaxDamage = 1
INVARIANTS
    OnlyVerifiedRuns LeftoversHarmless
PROPERTIES
    NeverWorse OperationEnds
