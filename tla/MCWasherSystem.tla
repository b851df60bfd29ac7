--------------------------- MODULE MCWasherSystem ---------------------------
(* One handler, a tank of two levels, and one temperature: the heater is *)
(* at its setpoint when it is turned on.                                   *)
EXTENDS WasherSystem

StartAndReset == {"start", "reset"}
Locks         == {TRUE}
TwoLevels     == 0 .. 1
OneTemp       == {20}
=============================================================================
