---------------------------- MODULE WasherCycle ----------------------------
(***************************************************************************)
(* What a wash cycle promises, without threads: the state machine of       *)
(* docs/washer.md and the actuators each of its states may use.  A phase   *)
(* is begun ("todo"), uses its actuator ("doing"), hands over with its     *)
(* work "done", or is "tripped" by a fault.  A tripped phase leads to      *)
(* ERROR only, and ERROR is entered with the heater and the pump off.      *)
(***************************************************************************)
CONSTANT ON    \* the heater's setpoint when it heats; 0 is off

VARIABLES state, work, heater, pump

cycle == <<state, work, heater, pump>>

Off == heater = 0 /\ pump = "off"

Init == state = "IDLE" /\ work = "none" /\ Off

Enter(from, to) ==
    /\ state = from /\ state' = to
    /\ work' = "todo"
    /\ UNCHANGED <<heater, pump>>

Start == work = "none" /\ Off /\ Enter("IDLE", "INITIALISING")

Initialised ==
    /\ state = "INITIALISING" /\ work = "todo"
    /\ work' = "done" /\ UNCHANGED <<state, heater, pump>>

\* A phase hands over only when its work is done, and the pump never runs
\* across a hand-over; the heater does so only from HEATING to PROCESSING.
Advance ==
    /\ work = "done" /\ pump = "off"
    /\ \/ heater = 0 /\ Enter("INITIALISING", "WATER_INTAKE")
       \/ heater = 0 /\ Enter("WATER_INTAKE", "HEATING")
       \/ heater = ON /\ Enter("HEATING", "PROCESSING")
       \/ heater = 0 /\ Enter("PROCESSING", "DRAINING")

Actuate ==
    /\ work = "todo" /\ work' = "doing"
    /\ \/ state = "WATER_INTAKE" /\ pump' = "fill" /\ UNCHANGED heater
       \/ state = "HEATING" /\ heater' = ON /\ UNCHANGED pump
       \/ state = "PROCESSING" /\ UNCHANGED <<heater, pump>>
       \/ state = "DRAINING" /\ pump' = "drain" /\ UNCHANGED heater
    /\ UNCHANGED state

FinishWork ==
    /\ work = "doing" /\ work' = "done"
    /\ \/ state \in {"WATER_INTAKE", "DRAINING"} /\ pump' = "off" /\ UNCHANGED heater
       \/ state = "HEATING" /\ UNCHANGED <<heater, pump>>
       \/ state = "PROCESSING" /\ heater' = 0 /\ UNCHANGED pump
    /\ UNCHANGED state

\* The door is not watched while DRAINING.
Trip ==
    /\ \/ state = "INITIALISING" /\ work = "todo"
       \/ state \in {"WATER_INTAKE", "HEATING", "PROCESSING"} /\ work = "doing"
    /\ work' = "tripped" /\ UNCHANGED <<state, heater, pump>>

SwitchOff ==
    /\ work = "tripped"
    /\ \/ heater' = 0 /\ UNCHANGED pump
       \/ pump' = "off" /\ UNCHANGED heater
    /\ UNCHANGED <<state, work>>

Fail ==
    /\ work = "tripped" /\ Off
    /\ state' = "ERROR" /\ work' = "none" /\ UNCHANGED <<heater, pump>>

Complete ==
    /\ state = "DRAINING" /\ work = "done" /\ Off
    /\ state' = "COMPLETE" /\ work' = "none" /\ UNCHANGED <<heater, pump>>

Reset ==
    /\ state \in {"COMPLETE", "ERROR"}
    /\ state' = "IDLE" /\ UNCHANGED <<work, heater, pump>>

\* The process is restarted; the hardware comes up switched off.
PowerCycle == state' = "IDLE" /\ work' = "none" /\ heater' = 0 /\ pump' = "off"

Next == \/ Start \/ Initialised \/ Advance \/ Actuate \/ FinishWork
        \/ Trip \/ SwitchOff \/ Fail \/ Complete \/ Reset \/ PowerCycle

Spec == Init /\ [][Next]_cycle
=============================================================================
