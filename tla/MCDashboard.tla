---------------------------- MODULE MCDashboard ----------------------------
(* Two phases of a cycle and a state at rest.                              *)
EXTENDS Dashboard

SomeStates == {"IDLE", "WATER_INTAKE", "HEATING"}
============================================================================
