SPECIFICATION Spec
CONSTANTS
    Scenarios <- MCScenarios
INVARIANTS
    NoLostCore JobMeansOff
