SPECIFICATION FairSpec
CONSTANTS
    Clients = {c1, c2}
    Ops <- StartAndReset
    LockResults <- AnyLockResult
    Levels <- TwoLevels
    FILL_TARGET_L = 2
    DRAIN_DONE_L = 1
    Temps <- TwoTemps
    HEAT_TARGET_C = 85
    STABLE_SECS = 1
    PROCESS_SECS = 1
INVARIANTS
    WorkerOwnsRunning
    SafeWhenNotCycling
PROPERTIES
    ImplementsCycle
    DoorLossStopsHeater
    PhaseAdvances
