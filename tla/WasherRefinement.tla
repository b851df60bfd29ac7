-------------------------- MODULE WasherRefinement --------------------------
(* The controller, used without emergency stops, implements WasherCycle.   *)
EXTENDS WasherController

ASSUME NoStopAssumption == "stop" \notin Ops

\* How far the worker has come in the phase that state_ announces.
Work ==
    IF ~InCycle THEN "none"
    ELSE IF at \in {"lock", "selfTest", "begin"} THEN "todo"
    ELSE IF at \in {"guard", "door", "cond", "end"} THEN "doing"
    ELSE IF at \in {"lockFailed", "faultHeater", "faultPump", "faultState"}
         THEN "tripped"
    ELSE "done"

Cycle == INSTANCE WasherCycle WITH work <- Work, ON <- HEAT_TARGET_C

\* Every behaviour of the threads is a behaviour of the documented cycle: only
\* documented transitions, each with the actuators the cycle promises.
ImplementsCycle == Cycle!Spec
=============================================================================
