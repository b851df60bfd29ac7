------------------------------- MODULE HilFsm -------------------------------
(***************************************************************************)
(* The five-state machine of the HiL controller (hil/controller): step(),  *)
(* which the control loop calls every 20 ms, emergencyStop() and reset(),  *)
(* which operators may call from other threads, and the sensor buffer that *)
(* the MQTT reader thread fills.                                           *)
(*                                                                         *)
(* A call is split at its accesses to state_: step() copies the buffer and *)
(* loads state_, acts on the copies, and loads state_ again for its caller.*)
(* Reading the buffer and loading state_ are one step where they follow    *)
(* each other: no thread writes both.  history_ is left out: transition()  *)
(* only appends to it, and nothing in the program reads it.  counted is a  *)
(* history variable for the properties: no guard and no other variable     *)
(* depends on it.                                                          *)
(*                                                                         *)
(* A temperature or a pressure is one number per interval that the         *)
(* thresholds tell apart.                                                  *)
(***************************************************************************)
EXTENDS Integers

CONSTANTS
    Operators,       \* threads that call emergencyStop() and reset()
    INIT_CYCLES,     \* steps with a valid frame before RUNNING
    TEMP_FAULT_C,    \* a hotter spindle is a fault
    PRESS_FAULT,     \* and so is a higher pressure
    Temps, Pressures \* what the sensors may report

ASSUME InitAssumption   == INIT_CYCLES \in Nat \ {0}
ASSUME SensorAssumption == /\ TEMP_FAULT_C \in Nat /\ PRESS_FAULT \in Nat
                           /\ Temps \subseteq Nat /\ 20 \in Temps
                           /\ Pressures \subseteq Nat /\ 1 \in Pressures

VARIABLES
    state,       \* state_
    initCounter, \* initCounter_
    buffer,      \* SensorBuffer::frame_
    loop,        \* where the control loop is
    seen,        \* the loop's copy of the buffer
    seenState,   \* and of state_
    op,          \* where each operator is in its call
    counted      \* history: valid frames counted since STANDBY

fsm     == <<state, initCounter, counted>>
copies  == <<seen, seenState>>

States  == {"STANDBY", "INITIALISING", "RUNNING", "FAULT", "EMERGENCY_STOP"}
Stopped == {"FAULT", "EMERGENCY_STOP"}
Frames  == [temp : Temps, pressure : Pressures, valid : BOOLEAN]
NoFrame == [temp |-> 20, pressure |-> 1, valid |-> FALSE]

FsmInit ==
    /\ state = "STANDBY" /\ initCounter = 0 /\ counted = 0
    /\ buffer = NoFrame
    /\ seen = NoFrame /\ seenState = "STANDBY"
    /\ op = [o \in Operators |-> "idle"]
-----------------------------------------------------------------------------
(* step(), in the loop's thread.                                           *)

Breach(f) == f.valid /\ (f.temp > TEMP_FAULT_C \/ f.pressure > PRESS_FAULT)

\* buf.get() and state_.load().
StepRead ==
    /\ loop = "step" /\ loop' = "act"
    /\ seen' = buffer /\ seenState' = state
    /\ UNCHANGED <<fsm, buffer, op>>

\* Mutants: an emergency stop becomes a fault; RUNNING is left alone, as in the
\* switch.
ActOnBreachStopped ==
    /\ Breach(seen)
    /\ state' = IF seenState = "FAULT" THEN state ELSE "FAULT"
    /\ UNCHANGED initCounter

ActOnBreachStarting ==
    /\ Breach(seen)
    /\ state' = IF seenState \in Stopped \cup {"RUNNING"} THEN state ELSE "FAULT"
    /\ UNCHANGED initCounter

\* The safety guard, in any state.
ActOnBreach ==
    /\ Breach(seen)
    /\ state' = IF seenState \in Stopped THEN state ELSE "FAULT"
    /\ UNCHANGED initCounter

\* Mutant: the counter is not reset.
LeaveStandbyUncounted ==
    /\ ~Breach(seen) /\ seenState = "STANDBY"
    /\ state' = "INITIALISING" /\ UNCHANGED initCounter

LeaveStandby ==
    /\ ~Breach(seen) /\ seenState = "STANDBY"
    /\ state' = "INITIALISING" /\ initCounter' = 0

\* Mutant: the counter is a local of step().
InitialiseFromZero ==
    /\ ~Breach(seen) /\ seenState = "INITIALISING" /\ seen.valid
    /\ initCounter' = 1
    /\ state' = IF initCounter' >= INIT_CYCLES THEN "RUNNING" ELSE state

Initialise ==
    /\ ~Breach(seen) /\ seenState = "INITIALISING" /\ seen.valid
    /\ initCounter' = initCounter + 1
    /\ state' = IF initCounter' >= INIT_CYCLES THEN "RUNNING" ELSE state

\* Nothing to do: waiting for a first frame, running, or stopped.
Stay ==
    /\ ~Breach(seen)
    /\ \/ seenState \in Stopped \cup {"RUNNING"}
       \/ seenState = "INITIALISING" /\ ~seen.valid
    /\ UNCHANGED <<state, initCounter>>

\* The history of counting: independent of the counter, begun anew with every
\* STANDBY, and up to INIT_CYCLES, beyond which numbers are not told apart.
Count ==
    counted' = IF state' = "STANDBY" THEN 0
               ELSE IF ~Breach(seen) /\ seenState = "INITIALISING" /\ seen.valid
                       /\ counted < INIT_CYCLES
               THEN counted + 1 ELSE counted

StepAct ==
    /\ loop = "act" /\ loop' = "return"
    /\ ActOnBreach \/ LeaveStandby \/ Initialise \/ Stay
    /\ Count
    /\ UNCHANGED <<buffer, copies, op>>

\* return state_.load(), and the loop's own buf.get().
StepReturn ==
    /\ loop = "return" /\ loop' = "publish"
    /\ seen' = buffer /\ seenState' = state
    /\ UNCHANGED <<fsm, buffer, op>>
-----------------------------------------------------------------------------
(* The operators.                                                          *)

EmergencyStop(o) ==
    /\ op[o] = "idle"
    /\ state' = "EMERGENCY_STOP"
    /\ UNCHANGED <<initCounter, counted, buffer, loop, copies, op>>

\* reset() loads state_, and stores STANDBY in a later step.
ResetCheck(o) ==
    /\ op[o] = "idle" /\ state \in Stopped
    /\ op' = [op EXCEPT ![o] = "resetting"]
    /\ UNCHANGED <<fsm, buffer, loop, copies>>

ResetStore(o) ==
    /\ op[o] = "resetting"
    /\ state' = "STANDBY" /\ counted' = 0
    /\ op' = [op EXCEPT ![o] = "idle"]
    /\ UNCHANGED <<initCounter, buffer, loop, copies>>

OperatorStep == \E o \in Operators : EmergencyStop(o) \/ ResetCheck(o) \/ ResetStore(o)

FsmTypeOK ==
    /\ state \in States /\ initCounter \in 0 .. INIT_CYCLES /\ counted \in 0 .. INIT_CYCLES
    /\ buffer \in Frames /\ seen \in Frames /\ seenState \in States
    /\ op \in [Operators -> {"idle", "resetting"}]
=============================================================================
