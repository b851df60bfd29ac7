SPECIFICATION FairSpec
CONSTANTS
    Operators = {}
    INIT_CYCLES = 2
    TEMP_FAULT_C = 85
    PRESS_FAULT = 5
    Temps <- TempBands
    Pressures <- PressureBands
    COOL_C = 60
    WARM_C = 70
    MAX_RETRIES = 1
    Upsets <- NoUpset
    Delivered <- Always
PROPERTIES
    WarmSpindleIsCooled
