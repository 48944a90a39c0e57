SPECIFICATION FairSpec
CONSTANTS
    Sessions = {s1, s2}
    NoSession = NoSession
    NSteps = 2
    Ops <- LockingOps
INVARIANTS LastStepCompletes EndedIsTerminal
PROPERTY ImplementsStateMachine
PROPERTY EveryRequestEnds
