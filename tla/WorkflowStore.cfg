SPECIFICATION Spec
CONSTANTS
    Kinds = {"analyze", "save", "add", "edit", "promote", "archive", "describe", "delete", "delete_all", "edit_analysis", "edit_parameter", "bind", "unbind", "run", "run_with", "end", "agent_end"}
    ForeignKeys = TRUE
    MaxRequests = 3
    MaxOpen = 2
INVARIANTS
    OneActiveTemplate
    OfOnePiece
    RunOfOnePiece
    NoOrphans
    SystemSpared
    EndsAnyway
CHECK_DEADLOCK FALSE
