SPECIFICATION FairSpec
CONSTANTS
    Operators = {o1}
    INIT_CYCLES = 2
    TEMP_FAULT_C = 85
    PRESS_FAULT = 5
    Temps <- TempBands
    Pressures <- PressureBands
    COOL_C = 60
    WARM_C = 70
    MAX_RETRIES = 1
    Upsets <- HotAndTight
    Delivered <- SometimesLost
PROPERTIES
    RunningInitialised
    StopsLatch
    BreachActedOn
    BreachStops
    StartsUp
