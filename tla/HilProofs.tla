----------------------------- MODULE HilProofs -----------------------------
(***************************************************************************)
(* The safety of the HiL controller for any number of operators, any       *)
(* INIT_CYCLES and any readings.                                           *)
(*                                                                         *)
(* The operators store only STANDBY and EMERGENCY_STOP.  What the loop     *)
(* loaded before it acts is therefore still there when state_ is one of    *)
(* the other three (LoadInv), the counter goes with the state (CountInv),  *)
(* and says what was counted since STANDBY while INITIALISING lasts        *)
(* (HistoryInv).                                                           *)
(***************************************************************************)
EXTENDS HilSystem, TLAPS

\* A state that only the loop stores is the one it loaded.
LoadInv ==
    loop = "act" /\ state \in {"INITIALISING", "RUNNING", "FAULT"} => seenState = state

CountInv ==
    /\ state = "RUNNING" => initCounter = INIT_CYCLES
    /\ state = "INITIALISING" => initCounter < INIT_CYCLES
    /\ loop = "act" /\ seenState = "INITIALISING" => initCounter < INIT_CYCLES

\* A start that was loaded in STANDBY has nothing counted yet, even if operators
\* have been at work since.
HistoryInv ==
    /\ state = "STANDBY" => counted = 0
    /\ loop = "act" /\ seenState = "STANDBY" => counted = 0
    /\ state = "INITIALISING" => counted = initCounter

IInv == TypeOK /\ LoadInv /\ CountInv /\ HistoryInv
-----------------------------------------------------------------------------
LEMMA FrameTypes == NoFrame \in Frames /\ \A t : TypeOK => Reading(t) \in Frames
  BY SensorAssumption DEF NoFrame, Frames, Reading, TypeOK

LEMMA InitHil == Init => IInv
<1> SUFFICES ASSUME Init PROVE IInv
    OBVIOUS
<1>1. FsmTypeOK
    BY FrameTypes, InitAssumption DEF Init, FsmInit, FsmTypeOK, States
<1>2. temp \in Temps /\ pressure \in Pressures /\ topic \in Topics
    BY SensorAssumption DEF Init, Topics
<1>3. alive \in BOOLEAN /\ connected \in BOOLEAN /\ cooling \in BOOLEAN
    BY DEF Init
<1> QED
    BY <1>1, <1>2, <1>3, PlantAssumption
       DEF Init, FsmInit, IInv, TypeOK, LoadInv, CountInv, HistoryInv

\* The two copies that the loop makes, and what it publishes.
LEMMA LoopHil == IInv /\ LoopStep => IInv'
<1> SUFFICES ASSUME IInv, LoopStep PROVE IInv'
    OBVIOUS
<1> USE InitAssumption
    DEF IInv, TypeOK, FsmTypeOK, LoadInv, CountInv, HistoryInv, States, Topics, fsm, copies, link, plant
<1>1. CASE StepRead /\ UNCHANGED <<link, plant>>
    BY <1>1 DEF StepRead
<1>2. CASE StepAct /\ UNCHANGED <<link, plant>>
  <2>0. /\ loop = "act" /\ loop' = "return" /\ Count
        /\ UNCHANGED <<buffer, seen, seenState, op, alive, connected, attempt, temp,
                       pressure, cooling, topic>>
      BY <1>2 DEF StepAct
  <2>1. CASE ActOnBreach
      BY <2>0, <2>1 DEF Count, ActOnBreach, Stopped
  <2>2. CASE LeaveStandby
      BY <2>0, <2>2 DEF Count, LeaveStandby
  <2>3. CASE Initialise
      BY <2>0, <2>3 DEF Count, Initialise
  <2>4. CASE Stay
      BY <2>0, <2>4 DEF Count, Stay, Stopped
  <2> QED
      BY <1>2, <2>1, <2>2, <2>3, <2>4 DEF StepAct
<1>3. CASE StepReturn /\ UNCHANGED <<link, plant>>
    BY <1>3 DEF StepReturn
<1>4. CASE Publish
  <2>0. Coolrate(seen) \in BOOLEAN
      BY DEF Coolrate
  <2>1. cooling' \in BOOLEAN
      BY <1>4, <2>0, Zenon DEF Publish, TypeOK
  <2> QED
      BY <1>4, <2>1 DEF Publish
<1>5. CASE Killed
    BY <1>5 DEF Killed
<1>6. CASE CheckConnected
    BY <1>6 DEF CheckConnected
<1> QED
    BY <1>1, <1>2, <1>3, <1>4, <1>5, <1>6 DEF LoopStep

LEMMA OperateHil == IInv /\ Operate => IInv'
<1> SUFFICES ASSUME IInv, Operate PROVE IInv'
    OBVIOUS
<1> USE InitAssumption
    DEF IInv, TypeOK, FsmTypeOK, LoadInv, CountInv, HistoryInv, States, Topics, fsm, copies, link, plant
<1>1. PICK o \in Operators : EmergencyStop(o) \/ ResetCheck(o) \/ ResetStore(o)
    BY DEF Operate, OperatorStep
<1>2. UNCHANGED <<alive, connected, attempt, temp, pressure, cooling, topic>>
    BY DEF Operate
<1>3. CASE EmergencyStop(o)
    BY <1>2, <1>3 DEF EmergencyStop
<1>4. CASE ResetCheck(o)
    BY <1>2, <1>4 DEF ResetCheck
<1>5. CASE ResetStore(o)
    BY <1>2, <1>5 DEF ResetStore
<1> QED
    BY <1>1, <1>3, <1>4, <1>5

LEMMA ProcessHil ==
    IInv /\ (\/ Connect \/ ConnectFails \/ LinkLost \/ ReaderEnds \/ ReaderFaults
             \/ Quit \/ Restart) => IInv'
<1> SUFFICES ASSUME IInv,
                    \/ Connect \/ ConnectFails \/ LinkLost \/ ReaderEnds \/ ReaderFaults
                    \/ Quit \/ Restart
             PROVE  IInv'
    OBVIOUS
<1> USE InitAssumption, PlantAssumption
    DEF IInv, TypeOK, FsmTypeOK, LoadInv, CountInv, HistoryInv, States, Topics, fsm, copies, link, plant
<1>1. CASE Connect
    BY <1>1 DEF Connect
<1>2. CASE ConnectFails
    BY <1>2 DEF ConnectFails
<1>3. CASE LinkLost
  <2>1. /\ alive' = FALSE
        /\ UNCHANGED <<fsm, buffer, loop, copies, op, connected, attempt, plant>>
      BY <1>3, Zenon DEF LinkLost
  <2>2. UNCHANGED <<state, initCounter, counted, buffer, loop, seen, seenState, op, connected,
                    attempt, temp, pressure, cooling, topic>>
      BY <2>1
  <2>3. alive' \in BOOLEAN /\ connected' \in BOOLEAN /\ cooling' \in BOOLEAN
      BY <2>1, <2>2, Zenon
  <2>4. FsmTypeOK' /\ LoadInv' /\ CountInv' /\ HistoryInv'
      BY <2>2
  <2>5. TypeOK'
      BY <2>2, <2>3, <2>4
  <2> QED
      BY <2>4, <2>5
<1>4. CASE Quit
    BY <1>4 DEF Quit
<1>5. CASE Restart
  <2>1. FsmTypeOK'
      BY <1>5, FrameTypes DEF Restart
  <2>2. loop' = "connecting" /\ state' = "STANDBY" /\ counted' = 0 /\ attempt' = 0
      BY <1>5 DEF Restart
  <2>3. alive' = FALSE /\ connected' = FALSE
      BY <1>5 DEF Restart
  <2>4. temp' \in Temps /\ pressure' \in Pressures /\ topic' \in Topics
      BY <1>5 DEF Restart
  <2>5. alive' \in BOOLEAN /\ connected' \in BOOLEAN /\ cooling' \in BOOLEAN
      BY <1>5, <2>3 DEF Restart
  <2>6. TypeOK'
      BY <2>1, <2>2, <2>4, <2>5
  <2> QED
      BY <2>2, <2>6
<1>6. CASE ReaderEnds
  <2>1. UNCHANGED <<state, initCounter, counted, buffer, loop, seen, seenState, op, alive,
                    attempt, temp, pressure, cooling, topic>>
      BY <1>6 DEF ReaderEnds
  <2>2. FsmTypeOK' /\ LoadInv' /\ CountInv' /\ HistoryInv'
      BY <2>1
  <2>3. alive' \in BOOLEAN /\ connected' \in BOOLEAN /\ cooling' \in BOOLEAN
      BY <1>6, <2>1, Zenon DEF ReaderEnds
  <2>4. TypeOK'
      BY <2>1, <2>2, <2>3
  <2> QED
      BY <2>2, <2>4
<1>7. CASE ReaderFaults
    BY <1>7 DEF ReaderFaults
<1> QED
    BY <1>1, <1>2, <1>3, <1>4, <1>5, <1>6, <1>7

LEMMA MachineHil == IInv /\ (SensorMessage \/ Settle \/ Upset) => IInv'
<1> SUFFICES ASSUME IInv, SensorMessage \/ Settle \/ Upset PROVE IInv'
    OBVIOUS
<1> USE DEF IInv, TypeOK, FsmTypeOK, LoadInv, CountInv, HistoryInv, fsm, copies, link, plant
<1>1. CASE SensorMessage
    BY <1>1, FrameTypes DEF SensorMessage, Topics, NextTopic
<1>2. CASE Settle
    BY <1>2, SensorAssumption, PlantAssumption DEF Settle
<1>3. CASE Upset
    BY <1>3, PlantAssumption DEF Upset
<1> QED
    BY <1>1, <1>2, <1>3

LEMMA StutterHil == IInv /\ UNCHANGED vars => IInv'
  BY DEF IInv, TypeOK, FsmTypeOK, LoadInv, CountInv, HistoryInv, vars, fsm, copies, link, plant

LEMMA HilInvariant == Spec => []IInv
  BY InitHil, LoopHil, OperateHil, ProcessHil, MachineHil, StutterHil, PTL DEF Spec, Next

\* The controller's variables keep their types, and the counter its bound.
THEOREM HilTypes == Spec => []TypeOK
  BY HilInvariant, PTL DEF IInv

\* A start counts its INIT_CYCLES itself: the step that leads from INITIALISING
\* into RUNNING is the last of as many with a valid frame, all since STANDBY.
THEOREM HilInitialised == Spec => RunningInitialised
<1> DEFINE Counted == state = "INITIALISING" /\ state' = "RUNNING" => counted' = INIT_CYCLES
<1>1. IInv /\ [Next]_vars => Counted
  <2> SUFFICES ASSUME IInv, [Next]_vars, state = "INITIALISING", state' = "RUNNING"
               PROVE  counted' = INIT_CYCLES
      OBVIOUS
  <2>1. StepAct
      BY DEF Next, LoopStep, StepRead, StepReturn, Publish, Killed, CheckConnected, Connect,
         ConnectFails, LinkLost, ReaderEnds, ReaderFaults, Quit, Restart, Operate, OperatorStep,
         EmergencyStop, ResetCheck, ResetStore, SensorMessage, Settle, Upset, vars, fsm
  <2>2. seenState = "INITIALISING"
      BY <2>1 DEF StepAct, IInv, LoadInv
  <2>3. Initialise /\ Count
      BY <2>1, <2>2 DEF StepAct, ActOnBreach, LeaveStandby, Stay, Stopped
  <2>4. counted = initCounter /\ initCounter < INIT_CYCLES /\ initCounter \in Nat
      BY InitAssumption DEF IInv, TypeOK, FsmTypeOK, CountInv, HistoryInv
  <2>5. counted' = counted + 1
      BY <2>2, <2>3, <2>4 DEF Initialise, Count
  <2>6. initCounter + 1 >= INIT_CYCLES
      BY <2>3 DEF Initialise
  <2> QED
      BY <2>4, <2>5, <2>6, InitAssumption
<1> QED
    BY <1>1, HilInvariant, PTL DEF Spec, RunningInitialised

\* The steps that leave the state machine alone.
OutsideFsm ==
    \/ Connect \/ ConnectFails \/ LinkLost \/ ReaderEnds \/ ReaderFaults \/ Quit
    \/ SensorMessage \/ Settle \/ Upset \/ UNCHANGED vars

LEMMA OutsideLeavesFsm == OutsideFsm => UNCHANGED <<state, seen, seenState>>
  BY DEF OutsideFsm, Connect, ConnectFails, LinkLost, ReaderEnds, ReaderFaults, Quit,
         SensorMessage, Settle, Upset, vars, fsm, copies

\* step()'s guard "any state" (HilFsm.cpp:14): a breach that was copied ends the
\* step in FAULT, or where an operator has stopped or reset the machine.
THEOREM HilBreaches == Spec => BreachActedOn
<1>1. IInv /\ [Next]_vars /\ loop = "act" /\ loop' = "return" /\ Breach(seen)
         => state' \in Stopped \cup {"STANDBY"}
  <2> SUFFICES ASSUME IInv, [Next]_vars, loop = "act", loop' = "return", Breach(seen)
               PROVE  state' \in Stopped \cup {"STANDBY"}
      OBVIOUS
  <2>1. StepAct
      BY DEF Next, LoopStep, StepRead, StepReturn, Publish, Killed, CheckConnected, Connect,
         ConnectFails, LinkLost, ReaderEnds, ReaderFaults, Quit, Restart, Operate, OperatorStep,
         EmergencyStop, ResetCheck, ResetStore, SensorMessage, Settle, Upset, vars
  <2>2. state' = IF seenState \in Stopped THEN state ELSE "FAULT"
      BY <2>1 DEF StepAct, ActOnBreach, LeaveStandby, Initialise, Stay
  <2>3. /\ seenState \in States /\ state \in States
        /\ state \in {"INITIALISING", "RUNNING", "FAULT"} => seenState = state
      BY DEF IInv, TypeOK, FsmTypeOK, LoadInv
  <2> QED
      BY <2>2, <2>3 DEF Stopped, States
<1> QED
    BY <1>1, HilInvariant, PTL DEF Spec, BreachActedOn

\* A fault is latched, and so is an emergency stop that the loop has loaded: only
\* the first step() after a stop may act on what was loaded before it.
THEOREM HilLatches == Spec => StopsLatch
<1> DEFINE Latch ==
      /\ state = "FAULT" => state' \in Stopped \cup {"STANDBY"}
      /\ state = "EMERGENCY_STOP" /\ seenState = "EMERGENCY_STOP"
            => state' \in {"EMERGENCY_STOP", "STANDBY"}
<1>1. IInv /\ [Next]_vars => [Latch]_vars
  <2> SUFFICES ASSUME IInv, [Next]_vars PROVE Latch
      OBVIOUS
  <2>1. loop = "act" /\ state = "FAULT" => seenState = "FAULT"
      BY DEF IInv, LoadInv
  <2>2. CASE LoopStep
      BY <2>1, <2>2 DEF LoopStep, StepRead, StepAct, StepReturn, Publish, Killed,
         CheckConnected, ActOnBreach, LeaveStandby, Initialise, Stay, Stopped, fsm
  <2>3. CASE Operate
      BY <2>3 DEF Operate, OperatorStep, EmergencyStop, ResetCheck, ResetStore, Stopped, fsm
  <2>4. CASE Restart
      BY <2>4 DEF Restart
  <2>5. CASE OutsideFsm
      BY <2>5, OutsideLeavesFsm DEF Stopped
  <2> QED
      BY <2>2, <2>3, <2>4, <2>5 DEF Next, OutsideFsm
<1> QED
    BY <1>1, HilInvariant, PTL DEF Spec, StopsLatch
=============================================================================
