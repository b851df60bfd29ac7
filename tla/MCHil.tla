------------------------------- MODULE MCHil -------------------------------
(* One operator; a machine that may be upset, and one as it is simulated.  *)
EXTENDS HilSystem

TempBands     == {20, 70, 90}     \* up to COOL_C, to TEMP_FAULT_C, above
PressureBands == {1, 6}           \* normal, above PRESS_FAULT
HotAndTight   == {[temp |-> 90, pressure |-> 6]}
NoUpset       == {}
Always        == {TRUE}
SometimesLost == BOOLEAN
=============================================================================
