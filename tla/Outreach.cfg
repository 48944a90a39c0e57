SPECIFICATION Spec
CONSTANTS
    People = {ana, bo}
    Saved = {ana}
    Blocked = {bo}
    BatchSize = 2
    DailyCap = 1
    MaxContinuations = 1
    MaxSweep = 1
    Demands <- SendAndPreview
    MaxRuns = 3
    MaxDays = 1
INVARIANTS
    AutoWithinCap
    MessagedOnce
    ChainTotals
    OdooFollows
CHECK_DEADLOCK FALSE
