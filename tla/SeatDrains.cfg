SPECIFICATION LiveSpec
CONSTANTS
    NWorks = 2
    MaxRuns = 4
    MaxRelaunch = 1
    MaxResumes = 1
    Disturbances = {"power_off"}
INVARIANTS TypeOK
PROPERTIES WorkEndsOnce Drains ReattachesUnread
