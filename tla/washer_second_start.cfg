SPECIFICATION FairSpec
CONSTANTS
    Clients = {c1}
    Ops <- StartAndReset
    LockResults <- LockWorks
    Levels <- TwoLevels
    FILL_TARGET_L = 2
    DRAIN_DONE_L = 1
    Temps <- TwoTemps
    HEAT_TARGET_C = 85
    STABLE_SECS = 1
    PROCESS_SECS = 1
INVARIANTS
    StartNeverTerminates
