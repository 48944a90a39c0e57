SPECIFICATION Spec
CONSTANTS
    Counts = {0, 1, 5, 9}
    BandMin = 3
    AcceptableMax = 6
    MinConvergence = 35
    StartTightness = 1
    MaxTightness = 2
    MaxReruns = 1
    DemoRounds = 2
    MaxRuns = 4
INVARIANTS
    OneFlow
    NeverEmptyHanded
PROPERTIES
    WipesNoFresh
CHECK_DEADLOCK FALSE
