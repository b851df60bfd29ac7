SPECIFICATION FairSpec
CONSTANTS
    DEPTH = 4
    KP = 51201
    KI = 102400
    KD = 1
    CLAMP = 102400
    Errors <- SomeErrors
    Telemetry <- HalfCharged
INVARIANTS
    FocTypeOK
PROPERTIES
    AntiWindup
    ImplementsChannel
    TorqueArrives
