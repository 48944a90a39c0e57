SPECIFICATION LogSpec
CONSTANTS
    Appenders = {a1, a2, a3}
    Nobody = Nobody
    Runs = {r1}
    Keys = {k}
    NoKey = NoKey
    Callers = {"transition", "record"}
    MaxClock = 2
    MaxEvents = 4
SYMMETRY Interchangeable
INVARIANTS SequenceDense BreaksOnlyByInversion
