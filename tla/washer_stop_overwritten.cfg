SPECIFICATION FairSpec
CONSTANTS
    Clients = {c1}
    Ops <- AllOps
    LockResults <- AnyLockResult
    Levels <- TwoLevels
    FILL_TARGET_L = 2
    DRAIN_DONE_L = 1
    Temps <- Ambient
    HEAT_TARGET_C = 20
    STABLE_SECS = 0
    PROCESS_SECS = 0
PROPERTIES
    EmergencyStopLatches
