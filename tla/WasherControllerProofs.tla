---------------------- MODULE WasherControllerProofs ----------------------
(***************************************************************************)
(* The safety of the controller for any number of handlers, any commands,  *)
(* any door lock and any sensor readings.                                  *)
(*                                                                         *)
(* IInv adds to the types what ties the actuators to the step the worker   *)
(* is at.  None of the properties is inductive alone: that the pump is off *)
(* when the worker has returned rests on where it may be on before, and    *)
(* that rests on there being one worker in the life of a process.          *)
(***************************************************************************)
EXTENDS WasherController, TLAPS

\* The steps that only one phase has.
StepInv ==
    /\ at \in {"lock", "lockFailed", "selfTest"} => phase = "INITIALISING"
    /\ at \in {"unlock", "complete", "finish"} => phase = "DRAINING"

\* A live process without a worker has never had one.
OneWorker == Alive /\ ~joinable => at = "none"

\* Where the pump and the heater may be on.
PumpInv ==
    /\ pump = "fill" => /\ phase = "WATER_INTAKE"
                        /\ at \in {"guard", "door", "cond", "end", "faultPump"}
    /\ pump = "drain" => phase = "DRAINING" /\ at \in {"guard", "cond", "end"}

\* In HEATING until the worker leaves it, and on through PROCESSING to its end.
HeaterInv ==
    heater # 0 =>
        \/ /\ phase = "HEATING"
           /\ at \in {"guard", "door", "cond", "end", "gate", "faultHeater", "returned"}
        \/ /\ phase = "PROCESSING"
           /\ at \in {"enter", "begin", "guard", "door", "cond", "end", "faultHeater"}

\* The door is released before COMPLETE is announced, and not locked after.
CompleteInv ==
    /\ at \in {"complete", "finish"} => ~latch
    /\ state = "COMPLETE" => phase = "DRAINING" /\ at \in {"finish", "returned"} /\ ~latch

\* Only a worker that has given up says so, and no other worker follows.
FaultInv == error \in {"doorUnlocked", "lockRefused"} => at = "returned"

TypeInv     == TypeOK /\ StepInv
ActuatorInv == OneWorker /\ PumpInv /\ HeaterInv /\ CompleteInv
MessageInv  == FaultInv /\ ErrorExplained
IInv        == TypeInv /\ ActuatorInv /\ MessageInv

-----------------------------------------------------------------------------
(* Types.                                                                  *)

LEMMA InitTypes == Init => TypeInv
<1> SUFFICES ASSUME Init PROVE TypeInv
    OBVIOUS
<1>1. frame \in Frames
    BY LevelAssumption, AmbientAssumption DEF Init, Frames, EmptyFrame
<1>2. inRangeFor \in {NotInRange} \cup Nat /\ heldFor \in Nat
    BY TimeAssumption DEF Init
<1>3. running \in BOOLEAN /\ joinable \in BOOLEAN /\ latch \in BOOLEAN
    BY DEF Init
<1> QED
    BY <1>1, <1>2, <1>3
       DEF Init, TypeInv, TypeOK, StepInv, States, Errors, NoError, Phases, Steps,
           ClientSteps, Processes

\* Every step of the worker keeps the types: what NextPhase is applied to is
\* never the last phase.
LEMMA WorkerTypes == TypeInv /\ WorkerStep => TypeInv'
<1> SUFFICES ASSUME TypeInv, WorkerStep PROVE TypeInv'
    OBVIOUS
<1> USE DEF TypeInv, TypeOK, StepInv, States, Errors, NoError, Phases, Steps, Goto,
        Transition, worker, status, hal, timers
<1>0. UNCHANGED <<frame, pc, process>>
    BY DEF WorkerStep
<1>1. CASE Enter
    BY <1>0, <1>1 DEF Enter
<1>2. CASE LockDoor
    BY <1>0, <1>2, LockAssumption DEF LockDoor
<1>3. CASE LockFailed
    BY <1>0, <1>3 DEF LockFailed
<1>4. CASE SelfTest
    BY <1>0, <1>4 DEF SelfTest, NextPhase
<1>5. CASE Begin
    BY <1>0, <1>5 DEF Begin
<1>6. CASE LoopGuard
    BY <1>0, <1>6 DEF LoopGuard
<1>7. CASE CheckDoor
    BY <1>0, <1>7 DEF CheckDoor
<1>8. CASE FaultHeater
    BY <1>0, <1>8 DEF FaultHeater
<1>9. CASE FaultPump
    BY <1>0, <1>9 DEF FaultPump
<1>10. CASE FaultState
    BY <1>0, <1>10 DEF FaultState
<1>11. CASE CheckCondition
    BY <1>0, <1>11 DEF CheckCondition, InRangeNow, NotInRange
<1>12. CASE EndPhase
    BY <1>0, <1>12 DEF EndPhase
<1>13. CASE Gate
    BY <1>0, <1>13 DEF Gate, NextPhase
<1>14. CASE UnlockDoor
    BY <1>0, <1>14 DEF UnlockDoor
<1>15. CASE Complete
    BY <1>0, <1>15 DEF Complete
<1>16. CASE Finish
    BY <1>0, <1>16 DEF Finish
<1> QED
    BY <1>1, <1>2, <1>3, <1>4, <1>5, <1>6, <1>7, <1>8, <1>9, <1>10, <1>11,
       <1>12, <1>13, <1>14, <1>15, <1>16 DEF WorkerStep

\* So does every step of a handler.
LEMMA ClientTypes == TypeInv /\ ClientStep => TypeInv'
<1> SUFFICES ASSUME TypeInv, NEW c \in Clients, Request(c) \/ HandlerStep(c)
             PROVE  TypeInv'
    BY DEF ClientStep
<1> USE DEF TypeInv, TypeOK, StepInv, States, Errors, NoError, Phases, Steps, Processes,
        Transition, worker, status, hal, timers
<1>0. UNCHANGED frame /\ pc' \in [Clients -> ClientSteps]
  <2>1. \E step \in ClientSteps : Jump(c, step)
      BY DEF Request, HandlerStep, StartCheck, StartExchange, StartSpawn,
             StopTransition, StopRunning, ResetCheck, ResetPump, ResetError,
             ResetDoor, ResetState, ClientSteps
  <2> QED
      BY <2>1 DEF Jump, Request, HandlerStep
<1>1. CASE StartCheck(c)
    BY <1>0, <1>1 DEF StartCheck
<1>2. CASE StopTransition(c)
    BY <1>0, <1>2 DEF StopTransition
<1>3. CASE ResetCheck(c)
    BY <1>0, <1>3 DEF ResetCheck
<1>4. CASE StartExchange(c)
    BY <1>0, <1>4 DEF StartExchange
<1>5. CASE StartSpawn(c)
  <2>1. joinable' \in BOOLEAN
      BY <1>5 DEF StartSpawn
  <2>2. UNCHANGED <<running, latch>>
      BY <1>5 DEF StartSpawn
  <2> QED
      BY <1>0, <1>5, <2>1, <2>2 DEF StartSpawn
<1>6. CASE StopRunning(c)
  <2>1. running' \in BOOLEAN
      BY <1>6 DEF StopRunning
  <2>2. UNCHANGED <<joinable, latch>>
      BY <1>6 DEF StopRunning
  <2> QED
      BY <1>0, <1>6, <2>1, <2>2 DEF StopRunning
<1>7. CASE ResetPump(c)
    BY <1>0, <1>7 DEF ResetPump
<1>8. CASE ResetError(c)
    BY <1>0, <1>8 DEF ResetError
<1>9. CASE ResetDoor(c)
  <2>1. latch' \in BOOLEAN
      BY <1>9 DEF ResetDoor
  <2>2. UNCHANGED <<running, joinable>>
      BY <1>9 DEF ResetDoor
  <2> QED
      BY <1>0, <1>9, <2>1, <2>2 DEF ResetDoor
<1>10. CASE ResetState(c)
    BY <1>0, <1>10 DEF ResetState
<1> QED
    BY <1>1, <1>2, <1>3, <1>4, <1>5, <1>6, <1>7, <1>8, <1>9, <1>10
       DEF Request, HandlerStep

\* And every other step: main, the clock, the sensors, a restart.
LEMMA OtherTypes ==
    TypeInv /\ (MainStep \/ Quit \/ Restart \/ Tick \/ SensorUpdate) => TypeInv'
<1> SUFFICES ASSUME TypeInv, MainStep \/ Quit \/ Restart \/ Tick \/ SensorUpdate
             PROVE  TypeInv'
    OBVIOUS
<1> USE DEF TypeInv, TypeOK, StepInv, Processes, worker, status, hal, timers
<1>1. CASE MainStep
    BY <1>1 DEF MainStep, Destruct, JoinWorker
<1>2. CASE Quit
    BY <1>2 DEF Quit
<1>3. CASE Restart
    BY <1>3, LevelAssumption, AmbientAssumption, TimeAssumption
       DEF Restart, Transition, EmptyFrame, Frames, NotInRange, States, Errors, NoError, Phases,
           Steps, ClientSteps
<1>4. CASE Tick
    BY <1>4, TimeAssumption DEF Tick, NotInRange
<1>5. CASE SensorUpdate
    BY <1>5 DEF SensorUpdate
<1> QED
    BY <1>1, <1>2, <1>3, <1>4, <1>5

LEMMA StutterTypes == TypeInv /\ UNCHANGED vars => TypeInv'
  BY DEF TypeInv, TypeOK, StepInv, vars

LEMMA StepTypes == TypeInv /\ [Next]_vars => TypeInv'
  BY WorkerTypes, ClientTypes, OtherTypes, StutterTypes DEF Next

\* The variables keep the types of the fields they model, in every behaviour
\* of any number of handlers.
THEOREM TypeCorrect == Spec => []TypeOK
<1>1. TypeInv => TypeOK
    BY DEF TypeInv
<1> QED
    BY InitTypes, StepTypes, <1>1, PTL DEF Spec
-----------------------------------------------------------------------------
(* The actuators.                                                          *)

LEMMA InitActuators == Init => ActuatorInv
  BY DEF Init, ActuatorInv, OneWorker, PumpInv, HeaterInv, CompleteInv

\* The worker turns on what it turns off, on every path through run().
LEMMA WorkerActuators == TypeInv /\ ActuatorInv /\ WorkerStep => ActuatorInv'
<1> SUFFICES ASSUME TypeInv, ActuatorInv, WorkerStep PROVE ActuatorInv'
    OBVIOUS
<1> USE DEF TypeInv, StepInv, ActuatorInv, OneWorker, PumpInv, HeaterInv, CompleteInv,
        Alive, Goto, Transition, worker, status, hal, timers
<1>0. /\ UNCHANGED <<pc, process>> /\ Alive
      /\ phase \in Phases /\ at \in Steps /\ joinable
    BY DEF WorkerStep, TypeOK, Enter, LockDoor, LockFailed, SelfTest, Begin, LoopGuard,
           CheckDoor, FaultHeater, FaultPump, FaultState, CheckCondition, EndPhase,
           Gate, UnlockDoor, Complete, Finish
<1>1. CASE Enter
    BY <1>0, <1>1 DEF Enter, Phases
<1>2. CASE LockDoor
    BY <1>0, <1>2 DEF LockDoor
<1>3. CASE LockFailed
    BY <1>0, <1>3 DEF LockFailed
<1>4. CASE SelfTest
    BY <1>0, <1>4 DEF SelfTest, NextPhase
<1>5. CASE Begin
    BY <1>0, <1>5 DEF Begin
<1>6. CASE LoopGuard
    BY <1>0, <1>6 DEF LoopGuard, GoesOn, Unwatched
<1>7. CASE CheckDoor
    BY <1>0, <1>7 DEF CheckDoor, DoorLocked
<1>8. CASE FaultHeater
    BY <1>0, <1>8 DEF FaultHeater
<1>9. CASE FaultPump
    BY <1>0, <1>9 DEF FaultPump
<1>10. CASE FaultState
    BY <1>0, <1>10 DEF FaultState
<1>11. CASE CheckCondition
    BY <1>0, <1>11 DEF CheckCondition
<1>12. CASE EndPhase
    BY <1>0, <1>12 DEF EndPhase, StopsPump, TurnsHeaterOff
<1>13. CASE Gate
    BY <1>0, <1>13 DEF Gate, NextPhase
<1>14. CASE UnlockDoor
    BY <1>0, <1>14 DEF UnlockDoor
<1>15. CASE Complete
    BY <1>0, <1>15 DEF Complete
<1>16. CASE Finish
    BY <1>0, <1>16 DEF Finish
<1> QED
    BY <1>1, <1>2, <1>3, <1>4, <1>5, <1>6, <1>7, <1>8, <1>9, <1>10,
       <1>11, <1>12, <1>13, <1>14, <1>15, <1>16 DEF WorkerStep

\* A handler only turns things off, and never gives a process a second worker.
LEMMA ClientActuators == TypeInv /\ ActuatorInv /\ ClientStep => ActuatorInv'
<1> SUFFICES ASSUME TypeInv, ActuatorInv, NEW c \in Clients,
                    Request(c) \/ HandlerStep(c)
             PROVE  ActuatorInv'
    BY DEF ClientStep
<1> USE DEF TypeInv, ActuatorInv, OneWorker, PumpInv, HeaterInv, CompleteInv,
        Alive, Transition, worker, status, hal, timers
<1>0. Alive
    BY DEF Request, HandlerStep, StartCheck, StopTransition, ResetCheck
<1>1. CASE StartCheck(c)
    BY <1>0, <1>1 DEF StartCheck
<1>2. CASE StopTransition(c)
    BY <1>0, <1>2 DEF StopTransition
<1>3. CASE ResetCheck(c)
    BY <1>0, <1>3 DEF ResetCheck
<1>4. CASE StartExchange(c)
    BY <1>0, <1>4 DEF StartExchange
<1>5. CASE StartSpawn(c)
    BY <1>0, <1>5 DEF StartSpawn
<1>6. CASE StopRunning(c)
    BY <1>0, <1>6 DEF StopRunning
<1>7. CASE ResetPump(c)
    BY <1>0, <1>7 DEF ResetPump
<1>8. CASE ResetError(c)
    BY <1>0, <1>8 DEF ResetError
<1>9. CASE ResetDoor(c)
    BY <1>0, <1>9 DEF ResetDoor
<1>10. CASE ResetState(c)
    BY <1>0, <1>10 DEF ResetState
<1> QED
    BY <1>1, <1>2, <1>3, <1>4, <1>5, <1>6, <1>7, <1>8, <1>9, <1>10 DEF
       Request, HandlerStep

LEMMA OtherActuators ==
    ActuatorInv /\ (MainStep \/ Quit \/ Restart \/ Tick \/ SensorUpdate)
        => ActuatorInv'
<1> SUFFICES ASSUME ActuatorInv, MainStep \/ Quit \/ Restart \/ Tick \/ SensorUpdate
             PROVE  ActuatorInv'
    OBVIOUS
<1> USE DEF ActuatorInv, OneWorker, PumpInv, HeaterInv, CompleteInv,
        Alive, worker, status, hal, timers
<1>1. CASE MainStep
    BY <1>1 DEF MainStep, Destruct, JoinWorker
<1>2. CASE Quit
    BY <1>2 DEF Quit
<1>3. CASE Restart
    BY <1>3 DEF Restart, Transition
<1>4. CASE Tick
    BY <1>4 DEF Tick
<1>5. CASE SensorUpdate
    BY <1>5 DEF SensorUpdate
<1> QED
    BY <1>1, <1>2, <1>3, <1>4, <1>5

LEMMA StutterActuators == ActuatorInv /\ UNCHANGED vars => ActuatorInv'
  BY DEF ActuatorInv, OneWorker, PumpInv, HeaterInv, CompleteInv, Alive, vars

LEMMA ActuatorsInvariant == Spec => [](TypeInv /\ ActuatorInv)
<1>1. TypeInv /\ ActuatorInv /\ [Next]_vars => TypeInv' /\ ActuatorInv'
    BY WorkerTypes, ClientTypes, OtherTypes, StutterTypes, WorkerActuators,
       ClientActuators, OtherActuators, StutterActuators DEF Next
<1> QED
    BY InitTypes, InitActuators, <1>1, PTL DEF Spec

\* No path out of run(), and no race of stops, resets and shutdown with it,
\* leaves the pump running.
THEOREM PumpSafety == Spec => []PumpOffWhenWorkerDone
<1>1. TypeInv /\ ActuatorInv => PumpOffWhenWorkerDone
    BY DEF TypeInv, TypeOK, ActuatorInv, PumpInv, PumpOffWhenWorkerDone, WorkerActive
<1> QED
    BY ActuatorsInvariant, <1>1, PTL

\* COMPLETE means everything is off and the door is free.
THEOREM CompletionSafety == Spec => []CompleteIsSafe
<1>1. TypeInv /\ ActuatorInv => CompleteIsSafe
    BY DEF TypeInv, TypeOK, ActuatorInv, PumpInv, HeaterInv, CompleteInv, CompleteIsSafe
<1> QED
    BY ActuatorsInvariant, <1>1, PTL

\* The heater is left on by a cycle cut short in HEATING, and by nothing else.
THEOREM HeaterSafety == Spec => []HeaterLeftOnOnlyInHeating
<1>1. TypeInv /\ ActuatorInv => HeaterLeftOnOnlyInHeating
    BY DEF ActuatorInv, HeaterInv, HeaterLeftOnOnlyInHeating, WorkerActive
<1> QED
    BY ActuatorsInvariant, <1>1, PTL
-----------------------------------------------------------------------------
(* What an operator is told.                                               *)

LEMMA InitMessages == Init => MessageInv
  BY DEF Init, MessageInv, FaultInv, ErrorExplained, NoError

LEMMA WorkerMessages == TypeInv /\ MessageInv /\ WorkerStep => MessageInv'
<1> SUFFICES ASSUME TypeInv, MessageInv, WorkerStep PROVE MessageInv'
    OBVIOUS
<1> USE DEF MessageInv, FaultInv, ErrorExplained, NoError, Goto, Transition, worker, status
<1>0. UNCHANGED pc /\ phase \in Phases
    BY DEF WorkerStep, TypeInv, TypeOK
<1>1. CASE Enter
    BY <1>0, <1>1 DEF Enter, Phases
<1>2. CASE LockDoor
    BY <1>0, <1>2 DEF LockDoor
<1>3. CASE LockFailed
    BY <1>0, <1>3 DEF LockFailed
<1>4. CASE SelfTest
    BY <1>0, <1>4 DEF SelfTest
<1>5. CASE Begin
    BY <1>0, <1>5 DEF Begin
<1>6. CASE LoopGuard
    BY <1>0, <1>6 DEF LoopGuard
<1>7. CASE CheckDoor
    BY <1>0, <1>7 DEF CheckDoor
<1>8. CASE FaultHeater
    BY <1>0, <1>8 DEF FaultHeater
<1>9. CASE FaultPump
    BY <1>0, <1>9 DEF FaultPump
<1>10. CASE FaultState
    BY <1>0, <1>10 DEF FaultState
<1>11. CASE CheckCondition
    BY <1>0, <1>11 DEF CheckCondition
<1>12. CASE EndPhase
    BY <1>0, <1>12 DEF EndPhase
<1>13. CASE Gate
    BY <1>0, <1>13 DEF Gate
<1>14. CASE UnlockDoor
    BY <1>0, <1>14 DEF UnlockDoor
<1>15. CASE Complete
    BY <1>0, <1>15 DEF Complete
<1>16. CASE Finish
    BY <1>0, <1>16 DEF Finish
<1> QED
    BY <1>1, <1>2, <1>3, <1>4, <1>5, <1>6, <1>7, <1>8, <1>9, <1>10,
       <1>11, <1>12, <1>13, <1>14, <1>15, <1>16 DEF WorkerStep

\* A reset may have cleared the message of an ERROR it has yet to leave.
LEMMA ClientMessages ==
    TypeInv /\ ActuatorInv /\ MessageInv /\ ClientStep => MessageInv'
<1> SUFFICES ASSUME TypeInv, ActuatorInv, MessageInv, NEW c \in Clients,
                    Request(c) \/ HandlerStep(c)
             PROVE  MessageInv'
    BY DEF ClientStep
<1> USE DEF MessageInv, FaultInv, ErrorExplained, NoError, Transition, Jump,
        worker, status
<1>0. /\ pc \in [Clients -> ClientSteps]
      /\ ~joinable => at = "none"
    BY DEF TypeInv, TypeOK, ActuatorInv, OneWorker, Alive, Request, HandlerStep,
           StartCheck, StopTransition, ResetCheck
<1>1. CASE StartCheck(c)
    BY <1>0, <1>1 DEF StartCheck
<1>2. CASE StopTransition(c)
    BY <1>0, <1>2 DEF StopTransition
<1>3. CASE ResetCheck(c)
    BY <1>0, <1>3 DEF ResetCheck
<1>4. CASE StartExchange(c)
    BY <1>0, <1>4 DEF StartExchange
<1>5. CASE StartSpawn(c)
    BY <1>0, <1>5 DEF StartSpawn
<1>6. CASE StopRunning(c)
    BY <1>0, <1>6 DEF StopRunning
<1>7. CASE ResetPump(c)
    BY <1>0, <1>7 DEF ResetPump
<1>8. CASE ResetError(c)
    BY <1>0, <1>8 DEF ResetError
<1>9. CASE ResetDoor(c)
    BY <1>0, <1>9 DEF ResetDoor
<1>10. CASE ResetState(c)
    BY <1>0, <1>10 DEF ResetState
<1> QED
    BY <1>1, <1>2, <1>3, <1>4, <1>5, <1>6, <1>7, <1>8, <1>9, <1>10 DEF
       Request, HandlerStep

LEMMA OtherMessages ==
    MessageInv /\ (MainStep \/ Quit \/ Restart \/ Tick \/ SensorUpdate)
        => MessageInv'
<1> SUFFICES ASSUME MessageInv, MainStep \/ Quit \/ Restart \/ Tick \/ SensorUpdate
             PROVE  MessageInv'
    OBVIOUS
<1> USE DEF MessageInv, FaultInv, ErrorExplained, NoError, worker, status
<1>1. CASE MainStep
    BY <1>1 DEF MainStep, Destruct, JoinWorker
<1>2. CASE Quit
    BY <1>2 DEF Quit
<1>3. CASE Restart
    BY <1>3 DEF Restart, Transition
<1>4. CASE Tick
    BY <1>4 DEF Tick
<1>5. CASE SensorUpdate
    BY <1>5 DEF SensorUpdate
<1> QED
    BY <1>1, <1>2, <1>3, <1>4, <1>5

LEMMA InductiveInvariant == Spec => []IInv
<1>1. Init => IInv
    BY InitTypes, InitActuators, InitMessages DEF IInv
<1>2. IInv /\ UNCHANGED vars => IInv'
    BY StutterTypes, StutterActuators
       DEF IInv, MessageInv, FaultInv, ErrorExplained, vars
<1>3. IInv /\ [Next]_vars => IInv'
    BY <1>2, WorkerTypes, ClientTypes, OtherTypes, WorkerActuators, ClientActuators,
       OtherActuators, WorkerMessages, ClientMessages, OtherMessages DEF IInv, Next
<1> QED
    BY <1>1, <1>3, PTL DEF Spec

\* ERROR always comes with its reason, up to the two steps of a reset.
THEOREM ErrorsExplained == Spec => []ErrorExplained
<1>1. IInv => ErrorExplained
    BY DEF IInv, MessageInv
<1> QED
    BY InductiveInvariant, <1>1, PTL

\* No request and no worker takes a faulted appliance out of ERROR except to
\* IDLE: the worker that found the fault was the last to write state_.
THEOREM FaultsLatch == Spec => FaultLatches
<1>1. IInv /\ [Next]_vars =>
        [state = "ERROR" /\ error \in {"doorUnlocked", "lockRefused"}
            /\ state' # "ERROR" => state' = "IDLE"]_vars
  <2> SUFFICES ASSUME IInv, Next, at = "returned", state = "ERROR", state' # "ERROR"
               PROVE  state' = "IDLE"
      BY DEF IInv, MessageInv, FaultInv
  <2> USE DEF status, Transition
  <2>1. CASE WorkerStep
      BY <2>1 DEF WorkerStep, Enter, LockDoor, LockFailed, SelfTest, Begin, LoopGuard,
           CheckDoor, FaultHeater, FaultPump, FaultState, CheckCondition, EndPhase,
           Gate, UnlockDoor, Complete, Finish
  <2>2. ASSUME NEW c \in Clients, Request(c) \/ HandlerStep(c) PROVE state' = "IDLE"
      BY <2>2 DEF Request, HandlerStep, StartCheck, StartExchange, StartSpawn,
             StopTransition, StopRunning, ResetCheck, ResetPump, ResetError,
             ResetDoor, ResetState
  <2>3. CASE MainStep \/ Quit \/ Restart \/ Tick \/ SensorUpdate
      BY <2>3 DEF MainStep, Destruct, JoinWorker, Quit, Restart, Tick, SensorUpdate
  <2> QED
      BY <2>1, <2>2, <2>3 DEF Next, ClientStep
<1> QED
    BY InductiveInvariant, <1>1, PTL DEF Spec, FaultLatches
-----------------------------------------------------------------------------
(* How soon a stop takes effect.                                           *)

\* With running_ clear, what the worker does next brings it nearer to its end.
LEMMA WorkerIsPrompt ==
    TypeInv /\ WorkerStep /\ ~running => StepsLeft' < StepsLeft
<1> SUFFICES ASSUME TypeInv, WorkerStep, ~running PROVE StepsLeft' < StepsLeft
    OBVIOUS
<1> USE DEF TypeInv, StepInv, Goto, StepsLeft, Remaining
<1>0. phase \in Phases
    BY DEF TypeOK
<1>1. CASE Enter
    BY <1>0, <1>1 DEF Enter, Phases
<1>2. CASE LockDoor
    BY <1>2 DEF LockDoor
<1>3. CASE LockFailed
    BY <1>3 DEF LockFailed
<1>4. CASE SelfTest
    BY <1>4 DEF SelfTest, NextPhase
<1>5. CASE Begin
    BY <1>5 DEF Begin
<1>6. CASE LoopGuard
    BY <1>6 DEF LoopGuard, GoesOn
<1>7. CASE CheckDoor
    BY <1>7 DEF CheckDoor
<1>8. CASE FaultHeater
    BY <1>8 DEF FaultHeater
<1>9. CASE FaultPump
    BY <1>9 DEF FaultPump
<1>10. CASE FaultState
    BY <1>10 DEF FaultState
<1>11. CASE CheckCondition
    BY <1>11 DEF CheckCondition
<1>12. CASE EndPhase
    BY <1>12 DEF EndPhase
<1>13. CASE Gate
    BY <1>13 DEF Gate
<1>14. CASE UnlockDoor
    BY <1>14 DEF UnlockDoor
<1>15. CASE Complete
    BY <1>15 DEF Complete
<1>16. CASE Finish
    BY <1>16 DEF Finish
<1> QED
    BY <1>1, <1>2, <1>3, <1>4, <1>5, <1>6, <1>7, <1>8, <1>9, <1>10,
       <1>11, <1>12, <1>13, <1>14, <1>15, <1>16 DEF WorkerStep

\* No handler moves a worker that exists: worker_ is assigned only while there
\* has been none, because a second assignment ends the process instead.
LEMMA OthersLeaveWorker ==
    ActuatorInv /\ WorkerActive
        /\ (ClientStep \/ MainStep \/ Quit \/ Tick \/ SensorUpdate)
        => worker' = worker
<1> SUFFICES ASSUME ActuatorInv, WorkerActive,
                    ClientStep \/ MainStep \/ Quit \/ Tick \/ SensorUpdate
             PROVE  worker' = worker
    OBVIOUS
<1> USE DEF worker
<1>1. ASSUME NEW c \in Clients, Request(c) \/ HandlerStep(c) PROVE worker' = worker
  <2>1. Alive => joinable
      BY DEF ActuatorInv, OneWorker, WorkerActive
  <2> QED
      BY <1>1, <2>1 DEF Request, HandlerStep, StartCheck, StartExchange, StartSpawn,
             StopTransition, StopRunning, ResetCheck, ResetPump, ResetError,
             ResetDoor, ResetState
<1>2. CASE MainStep \/ Quit \/ Tick \/ SensorUpdate
    BY <1>2 DEF MainStep, Destruct, JoinWorker, Quit, Tick, SensorUpdate
<1> QED
    BY <1>1, <1>2 DEF ClientStep

\* A stop or a shutdown is a matter of at most eight steps of the worker, for
\* any number of handlers and whatever the appliance does: a worker that is
\* scheduled ends.
THEOREM StopsArePrompt == Spec => StopIsPrompt
<1>1. TypeInv /\ ActuatorInv /\ [Next]_vars =>
        [~running /\ WorkerActive /\ worker' # worker => StepsLeft' < StepsLeft]_vars
  <2> SUFFICES ASSUME TypeInv, ActuatorInv, Next, ~running, WorkerActive,
                      worker' # worker
               PROVE  StepsLeft' < StepsLeft
      OBVIOUS
  <2>1. CASE Restart
    <3>1. at \in Steps \ {"none", "returned"} /\ at' = "none"
        BY <2>1 DEF Restart, TypeInv, TypeOK, WorkerActive
    <3> QED
        BY <3>1 DEF StepsLeft, Remaining, Steps
  <2> QED
      BY <2>1, WorkerIsPrompt, OthersLeaveWorker DEF Next
<1> QED
    BY ActuatorsInvariant, <1>1, PTL DEF Spec, StopIsPrompt
-----------------------------------------------------------------------------
(* How soon the loss of the door takes effect.                             *)

\* The loops of the phases that use water or heat look at the door before they
\* go on, and what is on tells where the worker is (PumpInv, HeaterInv).
LEMMA FillEnds ==
    TypeInv /\ ActuatorInv /\ WorkerStep /\ ~DoorLocked /\ pump = "fill"
        => pump' # "fill" \/ FillLeft' < FillLeft
<1> SUFFICES ASSUME TypeInv, ActuatorInv, WorkerStep, ~DoorLocked, pump = "fill"
             PROVE  pump' # "fill" \/ FillLeft' < FillLeft
    OBVIOUS
<1>1. phase = "WATER_INTAKE" /\ at \in {"guard", "door", "cond", "end", "faultPump"}
    BY DEF ActuatorInv, PumpInv
<1> USE DEF FillLeft, Goto
<1>2. CASE LoopGuard
    BY <1>1, <1>2 DEF LoopGuard, Unwatched
<1>3. CASE CheckDoor
    BY <1>1, <1>3 DEF CheckDoor
<1>4. CASE FaultPump
    BY <1>4 DEF FaultPump
<1>5. CASE CheckCondition
    BY <1>1, <1>5 DEF CheckCondition
<1>6. CASE EndPhase
    BY <1>1, <1>6 DEF EndPhase, StopsPump
<1> QED
    BY <1>1, <1>2, <1>3, <1>4, <1>5, <1>6
       DEF WorkerStep, Enter, LockDoor, LockFailed, SelfTest, Begin, FaultHeater,
           FaultState, Gate, UnlockDoor, Complete, Finish

LEMMA HeatEnds ==
    TypeInv /\ ActuatorInv /\ WorkerStep /\ ~DoorLocked /\ heater # 0
        => heater' = 0 \/ HeatLeft' < HeatLeft
<1> SUFFICES ASSUME TypeInv, ActuatorInv, WorkerStep, ~DoorLocked, heater # 0
             PROVE  heater' = 0 \/ HeatLeft' < HeatLeft
    OBVIOUS
<1>1. \/ /\ phase = "HEATING"
         /\ at \in {"guard", "door", "cond", "end", "gate", "faultHeater"}
      \/ /\ phase = "PROCESSING"
         /\ at \in {"enter", "begin", "guard", "door", "cond", "end", "faultHeater"}
    BY DEF ActuatorInv, HeaterInv, WorkerStep, Enter, LockDoor, LockFailed, SelfTest,
       Begin, LoopGuard, CheckDoor, FaultHeater, FaultPump, FaultState, CheckCondition,
       EndPhase, Gate, UnlockDoor, Complete, Finish
<1> USE DEF HeatLeft, Goto
<1>2. CASE Enter
    BY <1>1, <1>2 DEF Enter
<1>3. CASE Begin
    BY <1>1, <1>3 DEF Begin
<1>4. CASE LoopGuard
    BY <1>1, <1>4 DEF LoopGuard, Unwatched
<1>5. CASE CheckDoor
    BY <1>1, <1>5 DEF CheckDoor
<1>6. CASE FaultHeater
    BY <1>6 DEF FaultHeater
<1>7. CASE CheckCondition
    BY <1>1, <1>7 DEF CheckCondition
<1>8. CASE EndPhase
    BY <1>1, <1>8 DEF EndPhase, TurnsHeaterOff
<1>9. CASE Gate
    BY <1>1, <1>9 DEF Gate, NextPhase
<1> QED
    BY <1>1, <1>2, <1>3, <1>4, <1>5, <1>6, <1>7, <1>8, <1>9
       DEF WorkerStep, LockDoor, LockFailed, SelfTest, FaultPump, FaultState,
           UnlockDoor, Complete, Finish

\* A handler that gives the process its worker finds everything off.
LEMMA IdleIsOff ==
    ActuatorInv /\ ~WorkerActive /\ ~(at = "returned") => pump # "fill" /\ heater = 0
  BY DEF ActuatorInv, PumpInv, HeaterInv, WorkerActive

\* Without the door, water and heat are a matter of a few steps of the worker,
\* for any number of handlers.
THEOREM DoorLossesArePrompt == Spec => DoorLossIsPrompt
<1> DEFINE Prompt ==
        /\ pump = "fill" => pump' # "fill" \/ FillLeft' < FillLeft
        /\ heater # 0 => heater' = 0 \/ HeatLeft' < HeatLeft
<1>1. TypeInv /\ ActuatorInv /\ [Next]_vars =>
        [~DoorLocked /\ worker' # worker => Prompt]_vars
  <2> SUFFICES ASSUME TypeInv, ActuatorInv, Next, ~DoorLocked, worker' # worker
               PROVE  Prompt
      OBVIOUS
  <2>1. CASE WorkerStep
      BY <2>1, FillEnds, HeatEnds
  <2>2. CASE Restart
      BY <2>2 DEF Restart
  <2>3. CASE ClientStep /\ ~WorkerActive
    <3>1. PICK c \in Clients : StartSpawn(c) /\ ~joinable /\ Alive
        BY <2>3 DEF ClientStep, Request, HandlerStep, StartCheck, StartExchange, StartSpawn,
           StopTransition, StopRunning, ResetCheck, ResetPump, ResetError, ResetDoor,
           ResetState, worker
    <3> QED
        BY <2>3, <3>1, IdleIsOff DEF ActuatorInv, OneWorker
  <2>4. CASE MainStep \/ Quit \/ Tick \/ SensorUpdate
      BY <2>4 DEF MainStep, Destruct, JoinWorker, Quit, Tick, SensorUpdate, worker
  <2> QED
      BY <2>1, <2>2, <2>3, <2>4, OthersLeaveWorker DEF Next
<1> QED
    BY ActuatorsInvariant, <1>1, PTL DEF Spec, DoorLossIsPrompt
=============================================================================
