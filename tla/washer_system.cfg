SPECIFICATION FairSystem
CONSTANTS
    Clients = {c1}
    Ops <- StartAndReset
    LockResults <- Locks
    Levels <- TwoLevels
    FILL_TARGET_L = 1
    DRAIN_DONE_L = 0
    Temps <- OneTemp
    HEAT_TARGET_C = 20
    STABLE_SECS = 0
    PROCESS_SECS = 0
    MAX_IN_FLIGHT = 1
    MAX_SIM_RESTARTS = 1
PROPERTIES
    ImplementsController
    StaysDry
    PumpObeyed
    WaterMoves
    SystemShutdown
