---------------------- MODULE WasherRefinementProofs ----------------------
(***************************************************************************)
(* Without emergency stops the controller implements WasherCycle, for any  *)
(* number of handlers.                                                     *)
(*                                                                         *)
(* The argument: state_ and the worker's step agree (PhaseInv), because    *)
(* nobody else writes state_ while the worker is active (HandlerInv); and  *)
(* that holds because running_ stays set for the whole of a cycle          *)
(* (RunInv), so that no second cycle is begun.                             *)
(***************************************************************************)
EXTENDS WasherRefinement, WasherControllerProofs

\* The state that is announced at each step of the worker.
PhaseInv ==
    /\ at = "none" => state = "IDLE"
    /\ at = "enter" =>
          \/ phase = "INITIALISING" /\ state = "IDLE"
          \/ phase = "WATER_INTAKE" /\ state = "INITIALISING"
          \/ phase = "HEATING" /\ state = "WATER_INTAKE"
          \/ phase = "PROCESSING" /\ state = "HEATING"
          \/ phase = "DRAINING" /\ state = "PROCESSING"
    /\ at \in {"lock", "selfTest", "lockFailed"} => state = "INITIALISING"
    /\ at \in {"begin", "guard", "door", "cond", "end", "gate", "faultHeater",
               "faultPump", "faultState"} => state = phase /\ phase # "INITIALISING"
    /\ at = "door" => phase # "DRAINING"
    /\ at \in {"unlock", "complete"} => state = "DRAINING"
    /\ at = "finish" => state \in {"IDLE", "COMPLETE"}

\* The heater is handed over from HEATING to PROCESSING switched on, and off
\* when a worker has returned without being cut short.
HeatInv ==
    /\ at \in {"guard", "door", "cond", "end", "gate"} /\ phase = "HEATING"
          => heater = HEAT_TARGET_C
    /\ at = "enter" /\ phase = "PROCESSING" => heater = HEAT_TARGET_C
    /\ at = "returned" /\ ~InCycle => heater = 0

\* A reset goes on only after the worker has written its last state.
Resetting(c) == pc[c] \in {"resetPump", "resetError", "resetDoor", "resetState"}

HandlerInv ==
    \A c \in Clients :
        /\ pc[c] # "stopRunning"
        /\ Resetting(c) => at \in {"finish", "returned"} /\ ~InCycle
        /\ pc[c] = "startSpawn" => ~WorkerActive /\ running
        /\ \A d \in Clients : pc[c] = "startSpawn" /\ pc[d] = "startSpawn" => c = d

\* running_ is set until the worker is done, or main clears it when no handler
\* is left.
RunInv ==
    /\ WorkerActive /\ process \in {"serving", "closing"} => running
    /\ process = "joining" => \A c \in Clients : pc[c] = "idle"

CycleInv == PhaseInv /\ HeatInv /\ HandlerInv /\ RunInv
SafeInv  == TypeInv /\ ActuatorInv
-----------------------------------------------------------------------------
LEMMA InitCycle == Init => CycleInv
  BY DEF Init, CycleInv, PhaseInv, HeatInv, HandlerInv, RunInv, Resetting, WorkerActive

LEMMA WorkerCycle == SafeInv /\ CycleInv /\ WorkerStep => CycleInv'
<1> SUFFICES ASSUME SafeInv, CycleInv, WorkerStep PROVE CycleInv'
    OBVIOUS
<1>0. /\ UNCHANGED <<pc, process>>
      /\ phase \in Phases /\ at \in Steps /\ StepInv
      /\ pc \in [Clients -> ClientSteps]
      /\ HeaterInv
    BY DEF WorkerStep, SafeInv, TypeInv, TypeOK, ActuatorInv
<1>1. HandlerInv'
  <2> SUFFICES ASSUME NEW c \in Clients
               PROVE  /\ pc[c] # "stopRunning"
                      /\ Resetting(c) => at' \in {"finish", "returned"} /\ ~InCycle'
                      /\ pc[c] = "startSpawn" => ~WorkerActive' /\ running'
                      /\ \A d \in Clients :
                            pc[c] = "startSpawn" /\ pc[d] = "startSpawn" => c = d
      BY <1>0 DEF HandlerInv, Resetting
  <2>1. WorkerActive
      BY DEF WorkerStep, WorkerActive, Enter, LockDoor, LockFailed, SelfTest, Begin,
             LoopGuard, CheckDoor, FaultHeater, FaultPump, FaultState, CheckCondition,
             EndPhase, Gate, UnlockDoor, Complete, Finish
  <2>2. Resetting(c) => Finish
      BY <2>1 DEF CycleInv, HandlerInv, WorkerActive, WorkerStep, Enter, LockDoor,
             LockFailed, SelfTest, Begin, LoopGuard, CheckDoor, FaultHeater, FaultPump,
             FaultState, CheckCondition, EndPhase, Gate, UnlockDoor, Complete
  <2> QED
      BY <2>1, <2>2 DEF CycleInv, HandlerInv, Finish, Goto, status, InCycle
<1>2. RunInv'
    BY <1>0 DEF CycleInv, RunInv, WorkerActive, WorkerStep, Enter, LockDoor, LockFailed,
           SelfTest, Begin, LoopGuard, CheckDoor, FaultHeater, FaultPump, FaultState,
           CheckCondition, EndPhase, Gate, UnlockDoor, Complete, Finish, Goto
<1>3. PhaseInv' /\ HeatInv'
  <2>0. PhaseInv /\ HeatInv
      BY DEF CycleInv
  <2> USE DEF PhaseInv, HeatInv, InCycle, Phases, Goto, Transition, status, hal
  <2>1. CASE Enter
      BY <1>0, <2>0, <2>1 DEF Enter
  <2>2. CASE LockDoor
      BY <1>0, <2>0, <2>2 DEF LockDoor
  <2>3. CASE LockFailed
      BY <1>0, <2>0, <2>3 DEF LockFailed, StepInv, HeaterInv
  <2>4. CASE SelfTest
      BY <1>0, <2>0, <2>4 DEF SelfTest, StepInv, NextPhase
  <2>5. CASE Begin
      BY <1>0, <2>0, <2>5 DEF Begin
  <2>6. CASE LoopGuard
      BY <1>0, <2>0, <2>6 DEF LoopGuard, Unwatched
  <2>7. CASE CheckDoor
      BY <1>0, <2>0, <2>7 DEF CheckDoor
  <2>8. CASE FaultHeater
      BY <1>0, <2>0, <2>8 DEF FaultHeater
  <2>9. CASE FaultPump
      BY <1>0, <2>0, <2>9 DEF FaultPump
  <2>10. CASE FaultState
      BY <1>0, <2>0, <2>10 DEF FaultState, HeaterInv
  <2>11. CASE CheckCondition
      BY <1>0, <2>0, <2>11 DEF CheckCondition
  <2>12. CASE EndPhase
      BY <1>0, <2>0, <2>12 DEF EndPhase, TurnsHeaterOff
  <2>13. CASE Gate
      BY <1>0, <2>0, <2>13 DEF Gate, NextPhase
  <2>14. CASE UnlockDoor
      BY <1>0, <2>0, <2>14 DEF UnlockDoor
  <2>15. CASE Complete
      BY <1>0, <2>0, <2>15 DEF Complete
  <2>16. CASE Finish
      BY <1>0, <2>0, <2>16 DEF Finish, StepInv, HeaterInv
  <2> QED
      BY <2>1, <2>2, <2>3, <2>4, <2>5, <2>6, <2>7, <2>8, <2>9, <2>10, <2>11, <2>12,
         <2>13, <2>14, <2>15, <2>16 DEF WorkerStep
<1> QED
    BY <1>1, <1>2, <1>3 DEF CycleInv

\* A handler that gets past a check of state_ finds no worker that could
\* change it.
LEMMA ClientCycle == SafeInv /\ CycleInv /\ ClientStep => CycleInv'
<1> SUFFICES ASSUME SafeInv, CycleInv, NEW c \in Clients, Request(c) \/ HandlerStep(c)
             PROVE  CycleInv'
    BY DEF ClientStep
<1>0. /\ pc \in [Clients -> ClientSteps] /\ running \in BOOLEAN
      /\ state \in States /\ phase \in Phases /\ at \in Steps
      /\ ~joinable => at = "none"
      /\ Alive
      /\ PhaseInv /\ HeatInv /\ HandlerInv /\ RunInv
      /\ ~StopTransition(c)
    BY NoStopAssumption
       DEF SafeInv, TypeInv, TypeOK, ActuatorInv, OneWorker, Alive, CycleInv, Request,
           HandlerStep, StartCheck, StopTransition, ResetCheck
<1> USE DEF CycleInv, PhaseInv, HeatInv, HandlerInv, RunInv, Resetting, WorkerActive,
        InCycle, Phases, States, Alive, Jump, worker, status, hal
<1>1. CASE StartCheck(c)
    BY <1>0, <1>1 DEF StartCheck
<1>2. CASE ResetCheck(c)
  <2>1. at \in {"finish", "returned"} /\ ~InCycle
      BY <1>0, <1>2 DEF ResetCheck, Steps
  <2> QED
      BY <1>0, <1>2, <2>1 DEF ResetCheck
<1>3. CASE StartExchange(c)
  <2>1. running => \A d \in Clients : pc'[d] = "startSpawn" => pc[d] = "startSpawn"
      BY <1>0, <1>3 DEF StartExchange
  <2>2. ~running => \A d \in Clients : pc[d] # "startSpawn"
      BY <1>0
  <2>3. process \in {"serving", "closing"}
      BY <1>0, <1>3 DEF StartExchange, SafeInv, TypeInv, TypeOK, Processes
  <2>4. ~running => ~WorkerActive
      BY <1>0, <2>3
  <2> QED
      BY <1>0, <1>3, <2>1, <2>2, <2>3, <2>4 DEF StartExchange
<1>4. CASE StartSpawn(c)
  <2>1. CASE joinable
      BY <1>0, <1>4, <2>1 DEF StartSpawn
  <2>2. CASE ~joinable
    <3>1. at = "none" /\ state = "IDLE" /\ running
        BY <1>0, <1>4, <2>2 DEF StartSpawn
    <3>2. \A d \in Clients : ~Resetting(d) /\ pc'[d] # "startSpawn" /\ ~Resetting(d)'
        BY <1>0, <1>4, <3>1 DEF StartSpawn
    <3>3. /\ at' = "enter" /\ phase' = "INITIALISING" /\ UNCHANGED <<state, running, process>>
          /\ \A d \in Clients : pc'[d] # "stopRunning"
        BY <1>0, <1>4, <2>2 DEF StartSpawn
    <3>4. process # "joining"
        BY <1>0, <1>4 DEF StartSpawn
    <3> QED
        BY <3>1, <3>2, <3>3, <3>4
  <2> QED
      BY <2>1, <2>2
<1>5. CASE StopRunning(c)
    BY <1>0, <1>5 DEF StopRunning
<1>6. CASE ResetPump(c)
    BY <1>0, <1>6 DEF ResetPump
<1>7. CASE ResetError(c)
    BY <1>0, <1>7 DEF ResetError
<1>8. CASE ResetDoor(c)
    BY <1>0, <1>8 DEF ResetDoor
<1>9. CASE ResetState(c)
    BY <1>0, <1>9 DEF ResetState
<1> QED
    BY <1>0, <1>1, <1>2, <1>3, <1>4, <1>5, <1>6, <1>7, <1>8, <1>9 DEF Request, HandlerStep

LEMMA OtherCycle ==
    SafeInv /\ CycleInv /\ (MainStep \/ Quit \/ Restart \/ Tick \/ SensorUpdate)
        => CycleInv'
<1> SUFFICES ASSUME SafeInv, CycleInv,
                    MainStep \/ Quit \/ Restart \/ Tick \/ SensorUpdate
             PROVE  CycleInv'
    OBVIOUS
<1> USE DEF CycleInv, PhaseInv, HeatInv, HandlerInv, RunInv, Resetting, WorkerActive,
        InCycle, Phases, worker, status, hal
<1>1. CASE Destruct
    BY <1>1 DEF Destruct
<1>2. CASE JoinWorker
    BY <1>2 DEF JoinWorker
<1>3. CASE Quit
    BY <1>3 DEF Quit
<1>4. CASE Restart
    BY <1>4 DEF Restart, Transition
<1>5. CASE Tick
    BY <1>5 DEF Tick
<1>6. CASE SensorUpdate
    BY <1>6 DEF SensorUpdate
<1> QED
    BY <1>1, <1>2, <1>3, <1>4, <1>5, <1>6 DEF MainStep

LEMMA StutterCycle == CycleInv /\ UNCHANGED vars => CycleInv'
  BY DEF CycleInv, PhaseInv, HeatInv, HandlerInv, RunInv, Resetting, WorkerActive, InCycle,
         vars

LEMMA CycleInvariant == Spec => [](SafeInv /\ CycleInv)
<1>1. SafeInv /\ [Next]_vars => SafeInv'
    BY WorkerTypes, ClientTypes, OtherTypes, StutterTypes, WorkerActuators,
       ClientActuators, OtherActuators, StutterActuators DEF SafeInv, Next
<1>2. SafeInv /\ CycleInv /\ [Next]_vars => CycleInv'
    BY WorkerCycle, ClientCycle, OtherCycle, StutterCycle DEF Next
<1>3. Init => SafeInv
    BY InitTypes, InitActuators DEF SafeInv
<1> QED
    BY <1>1, <1>2, <1>3, InitCycle, PTL DEF Spec

\* running_ guards the whole of a cycle.
THEOREM RunningGuardsCycle == Spec => []WorkerOwnsRunning
<1>1. CycleInv => WorkerOwnsRunning
    BY DEF CycleInv, RunInv, WorkerOwnsRunning
<1> QED
    BY CycleInvariant, <1>1, PTL

\* IDLE, COMPLETE and ERROR have the heater and the pump off.
LEMMA SafeStates == SafeInv /\ CycleInv => SafeWhenNotCycling
  BY DEF SafeInv, TypeInv, TypeOK, ActuatorInv, PumpInv, HeaterInv, CycleInv, PhaseInv,
         HeatInv, InCycle, Phases, SafeWhenNotCycling

THEOREM NotCyclingSafety == Spec => []SafeWhenNotCycling
  BY CycleInvariant, SafeStates, PTL
-----------------------------------------------------------------------------
(* Refinement: every step of the controller is a step of the cycle, or      *)
(* leaves it alone.                                                        *)

LEMMA InitRefines == Init => Cycle!Init
  BY DEF Init, Cycle!Init, Cycle!Off, Work, InCycle, Phases

LEMMA WorkerRefines ==
    SafeInv /\ CycleInv /\ WorkerStep => [Cycle!Next]_(Cycle!cycle)
<1> SUFFICES ASSUME SafeInv, CycleInv, WorkerStep
             PROVE  Cycle!Next \/ UNCHANGED <<state, Work, heater, pump>>
    BY DEF Cycle!cycle
<1>0. /\ phase \in Phases /\ pump \in {"off", "fill", "drain"} /\ state \in States
      /\ PumpInv /\ HeaterInv /\ StepInv
      /\ PhaseInv /\ HeatInv
    BY DEF SafeInv, TypeInv, TypeOK, ActuatorInv, CycleInv
<1> USE DEF Phases, PumpInv, HeaterInv, PhaseInv, HeatInv, StepInv, Work, InCycle, Goto,
        Transition, status, hal
<1>1. CASE Enter
  <2>1. CASE phase = "INITIALISING"
    <3>1. Cycle!Start
        BY <1>0, <1>1, <2>1, SafeStates
           DEF Enter, Cycle!Start, Cycle!Enter, Cycle!Off, SafeWhenNotCycling
    <3> QED
        BY <3>1 DEF Cycle!Next
  <2>2. CASE phase # "INITIALISING"
    <3>1. Work = "done" /\ pump = "off" /\ Work' = "todo" /\ UNCHANGED <<heater, pump>>
        BY <1>0, <1>1, <2>2 DEF Enter
    <3>2. Cycle!Advance
        BY <1>0, <1>1, <2>2, <3>1 DEF Enter, Cycle!Advance, Cycle!Enter
    <3> QED
        BY <3>2 DEF Cycle!Next
  <2> QED
      BY <2>1, <2>2
<1>2. CASE LockDoor
  <2>1. Work = "todo" /\ Work' \in {"todo", "tripped"}
        /\ state = "INITIALISING" /\ UNCHANGED <<state, heater, pump>>
      BY <1>0, <1>2 DEF LockDoor
  <2> QED
      BY <2>1 DEF Cycle!Next, Cycle!Trip
<1>3. CASE LockFailed
  <2>1. Cycle!Fail
      BY <1>0, <1>3 DEF LockFailed, Cycle!Fail, Cycle!Off
  <2> QED
      BY <2>1 DEF Cycle!Next
<1>4. CASE SelfTest
  <2>1. Cycle!Initialised
      BY <1>0, <1>4 DEF SelfTest, NextPhase, Cycle!Initialised
  <2> QED
      BY <2>1 DEF Cycle!Next
<1>5. CASE Begin
  <2>1. Cycle!Actuate
      BY <1>0, <1>5 DEF Begin, Cycle!Actuate
  <2> QED
      BY <2>1 DEF Cycle!Next
<1>6. CASE LoopGuard
    BY <1>0, <1>6 DEF LoopGuard, Unwatched
<1>7. CASE CheckDoor
  <2>1. Work = "doing" /\ Work' \in {"doing", "tripped"}
        /\ state \in {"WATER_INTAKE", "HEATING", "PROCESSING"}
        /\ UNCHANGED <<state, heater, pump>>
      BY <1>0, <1>7 DEF CheckDoor
  <2> QED
      BY <2>1 DEF Cycle!Next, Cycle!Trip
<1>8. CASE FaultHeater
  <2>1. Cycle!SwitchOff
      BY <1>0, <1>8 DEF FaultHeater, Cycle!SwitchOff
  <2> QED
      BY <2>1 DEF Cycle!Next
<1>9. CASE FaultPump
  <2>1. Cycle!SwitchOff
      BY <1>0, <1>9 DEF FaultPump, Cycle!SwitchOff
  <2> QED
      BY <2>1 DEF Cycle!Next
<1>10. CASE FaultState
  <2>1. Cycle!Fail
      BY <1>0, <1>10 DEF FaultState, Cycle!Fail, Cycle!Off
  <2> QED
      BY <2>1 DEF Cycle!Next
<1>11. CASE CheckCondition
    BY <1>0, <1>11 DEF CheckCondition
<1>12. CASE EndPhase
  <2>1. Cycle!FinishWork
      BY <1>0, <1>12 DEF EndPhase, StopsPump, TurnsHeaterOff, Cycle!FinishWork
  <2> QED
      BY <2>1 DEF Cycle!Next
<1>13. CASE Gate
    BY <1>0, <1>13 DEF Gate, NextPhase
<1>14. CASE UnlockDoor
    BY <1>0, <1>14 DEF UnlockDoor
<1>15. CASE Complete
  <2>1. Cycle!Complete
      BY <1>0, <1>15 DEF Complete, Cycle!Complete, Cycle!Off
  <2> QED
      BY <2>1 DEF Cycle!Next
<1>16. CASE Finish
    BY <1>0, <1>16 DEF Finish
<1> QED
    BY <1>1, <1>2, <1>3, <1>4, <1>5, <1>6, <1>7, <1>8, <1>9, <1>10, <1>11, <1>12,
       <1>13, <1>14, <1>15, <1>16 DEF WorkerStep

\* Of the handlers, only reset() is seen in the cycle; its pump.stop() finds
\* the pump off.
LEMMA ClientRefines ==
    SafeInv /\ CycleInv /\ ClientStep => [Cycle!Next]_(Cycle!cycle)
<1> SUFFICES ASSUME SafeInv, CycleInv, NEW c \in Clients, Request(c) \/ HandlerStep(c)
             PROVE  Cycle!Next \/ UNCHANGED <<state, Work, heater, pump>>
    BY DEF ClientStep, Cycle!cycle
<1>0. /\ state \in States /\ HandlerInv /\ PhaseInv /\ OneWorker /\ Alive
      /\ SafeWhenNotCycling
      /\ ~StopTransition(c)
    BY NoStopAssumption, SafeStates
       DEF SafeInv, TypeInv, TypeOK, ActuatorInv, CycleInv, Alive, Request, HandlerStep,
           StartCheck, StopTransition, ResetCheck
<1> USE DEF Work, InCycle, Phases, worker, status, hal
<1>1. CASE StartCheck(c) \/ ResetCheck(c) \/ StartExchange(c) \/ ResetError(c) \/ ResetDoor(c)
    BY <1>1 DEF StartCheck, ResetCheck, StartExchange, ResetError, ResetDoor
<1>2. CASE StartSpawn(c)
  <2>1. ~joinable => state = "IDLE"
      BY <1>0 DEF OneWorker, PhaseInv
  <2> QED
      BY <1>2, <2>1 DEF StartSpawn
<1>3. CASE StopRunning(c)
    BY <1>0, <1>3 DEF StopRunning, HandlerInv
<1>4. CASE ResetPump(c)
  <2>1. pump = "off"
      BY <1>0, <1>4 DEF ResetPump, HandlerInv, Resetting, SafeWhenNotCycling, States
  <2> QED
      BY <1>4, <2>1 DEF ResetPump
<1>5. CASE ResetState(c)
  <2>1. state \in {"IDLE", "COMPLETE", "ERROR"}
      BY <1>0, <1>5 DEF ResetState, HandlerInv, Resetting, States
  <2>2. Cycle!Reset \/ UNCHANGED <<state, Work, heater, pump>>
      BY <1>5, <2>1 DEF ResetState, Cycle!Reset
  <2> QED
      BY <2>2 DEF Cycle!Next
<1> QED
    BY <1>0, <1>1, <1>2, <1>3, <1>4, <1>5 DEF Request, HandlerStep

LEMMA OtherRefines ==
    MainStep \/ Quit \/ Restart \/ Tick \/ SensorUpdate \/ UNCHANGED vars
        => [Cycle!Next]_(Cycle!cycle)
<1> SUFFICES ASSUME MainStep \/ Quit \/ Restart \/ Tick \/ SensorUpdate \/ UNCHANGED vars
             PROVE  Cycle!Next \/ UNCHANGED <<state, Work, heater, pump>>
    BY DEF Cycle!cycle
<1> USE DEF Work, InCycle, Phases, worker, status, hal
<1>1. CASE Restart
  <2>1. Cycle!PowerCycle
      BY <1>1 DEF Restart, Transition, Cycle!PowerCycle
  <2> QED
      BY <2>1 DEF Cycle!Next
<1>2. CASE MainStep \/ Quit \/ Tick \/ SensorUpdate \/ UNCHANGED vars
    BY <1>2 DEF MainStep, Destruct, JoinWorker, Quit, Tick, SensorUpdate, vars
<1> QED
    BY <1>1, <1>2

\* The threads of the controller, with any number of handlers in start() and
\* reset(), behave as the documented cycle.
THEOREM CycleRefinement == Spec => ImplementsCycle
<1>1. SafeInv /\ CycleInv /\ [Next]_vars => [Cycle!Next]_(Cycle!cycle)
    BY WorkerRefines, ClientRefines, OtherRefines DEF Next
<1> QED
    BY InitRefines, CycleInvariant, <1>1, PTL DEF Spec, ImplementsCycle, Cycle!Spec
=============================================================================
