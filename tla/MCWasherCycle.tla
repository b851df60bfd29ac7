--------------------------- MODULE MCWasherCycle ---------------------------
(* Cycles that are started and reset but never stopped.                    *)
EXTENDS WasherRefinement

StartAndReset == {"start", "reset"}
TwoLevels     == {0, 2}
TwoTemps      == {20, 85}
AnyLockResult == BOOLEAN
LockWorks     == {TRUE}      \* SimulatedDoorLock
=============================================================================
