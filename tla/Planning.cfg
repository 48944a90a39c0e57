SPECIFICATION Spec
CONSTANTS
    Values <- MCValues
    Trim <- MCTrim
    Hinted <- MCHinted
    Digits = {"7", "8"}
    Given = {"8", "other"}
    Offered = "odoo"
    MaxSteps = 3
    MaxEdited = 2
    MaxBindings = 1
    MaxSaves = 1
INVARIANTS
    Faithful
    GivenIsTyped
    ExpectsWhatItTypes
CHECK_DEADLOCK FALSE
