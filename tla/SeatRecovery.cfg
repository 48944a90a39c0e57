SPECIFICATION Spec
CONSTANTS
    NWorks = 1
    MaxRuns = 2
    MaxRelaunch = 1
    MaxResumes = 2
    Disturbances = {"power_off", "backend_restart", "lost_report", "lost_beats", "failed_call",
                    "supervisor", "person", "hot_reload"}
INVARIANTS WorkConserved EndsOnceUncrossed
