SPECIFICATION Spec
CONSTANTS
    Scenarios <- MCUpgrade
INVARIANTS
    FailedStopAborts
