SPECIFICATION ServiceFairSpec
CONSTANTS
    Pressures <- PressureBands
    NOMINAL = 2
    threshold = 6
    Recipes <- TwoRecipes
    MassTolerance = 1
    Increments <- OneOrTwo
    Hosts = {"program", "service"}
INVARIANTS
    ActuatorsFollowState
    DosesAsOrdered
PROPERTIES
    TripPreempts
    BatchProgresses
    OverpressureStops
    BatchEnds
    StopEnds
