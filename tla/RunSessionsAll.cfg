SPECIFICATION Spec
CONSTANTS
    Sessions = {s1, s2}
    NoSession = NoSession
    NSteps = 2
    Ops <- AllOps
SYMMETRY Interchangeable
INVARIANTS OneClaim ExactlyOnceSteps
PROPERTY OnlyOldViewsReopen
