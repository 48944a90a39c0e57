SPECIFICATION Spec
CONSTANTS
    search = search
    open = open
    extra = extra
    Recorded <- TwoSteps
    Inventable = {extra}
    Proposals <- OneProposal
    Checkpoints = {search}
    Unconsulted = {extra}
    WithAI = TRUE
    HasUrl = FALSE
    MaxStepWaits = 1
    MaxTotalWaits = 1
    MaxRestarts = 1
    MaxRollbacks = 1
    MaxUnusable = 1
    MaxNoTarget = 2
    Window = 1
    PauseRePolls = 2
    MaxTrouble = 1
    Disturbances = {"person", "tab", "supervisor", "restart"}
INVARIANTS
    InStep
    CompletedCoversPlan
    
PROPERTIES
    EndedStaysEnded
    CommandsToLiveRuns
    LoopEnds
CHECK_DEADLOCK FALSE
