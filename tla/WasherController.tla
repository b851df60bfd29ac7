-------------------------- MODULE WasherController --------------------------
(***************************************************************************)
(* The cycle controller of the washer (controller/): the worker thread of  *)
(* CycleController::run, the HTTP handlers that call start, emergencyStop  *)
(* and reset from a thread pool, main's shutdown, and the HAL components   *)
(* of SimulatedComponents.h they drive.                                    *)
(*                                                                         *)
(* Granularity.  Every access to an atomic, every HAL call and every       *)
(* critical section of statusMu_ is one step, so that the steps of two     *)
(* threads interleave as in the code.  Two reads are merged:               *)
(*  - `running_ && state_ == X` (the loop guards): only the worker itself  *)
(*    ever stores X, so each outcome of the two reads is one of a single   *)
(*    read of both;                                                        *)
(*  - isLocked(), the latch and the frame: frames arrive freely here.      *)
(*                                                                         *)
(* Data.  A sensor frame keeps a water level, a temperature band and the   *)
(* door switch.  Levels and temperatures are one number per interval that  *)
(* the thresholds tell apart.                                              *)
(***************************************************************************)
EXTENDS Integers

CONSTANTS
    Clients,         \* HTTP handler threads that may be in a call at a time
    Ops,             \* commands they issue, a subset of {"start","stop","reset"}
    LockResults,     \* what IDoorLock::lock() may return
    Levels,          \* water levels a frame can report
    FILL_TARGET_L,   \* the tank is full at this level
    DRAIN_DONE_L,    \* and empty at this one
    Temps,           \* temperature bands a frame can report
    HEAT_TARGET_C,   \* the band around the setpoint
    STABLE_SECS,     \* how long isAtTarget() wants the band held
    PROCESS_SECS     \* length of PROCESSING

ASSUME OpsAssumption    == Ops \subseteq {"start", "stop", "reset"}
ASSUME LockAssumption   == LockResults \subseteq BOOLEAN
ASSUME LevelAssumption  == /\ Levels \subseteq Nat /\ 0 \in Levels
                           /\ DRAIN_DONE_L \in Nat /\ FILL_TARGET_L \in Nat
                           /\ DRAIN_DONE_L < FILL_TARGET_L
ASSUME TempAssumption   == Temps \subseteq Nat /\ HEAT_TARGET_C \in Nat \ {0}
ASSUME AmbientAssumption == 20 \in Temps
ASSUME TimeAssumption   == STABLE_SECS \in Nat /\ PROCESS_SECS \in Nat

VARIABLES
    state,       \* state_
    running,     \* running_
    error,       \* errorMsg_
    joinable,    \* worker_.joinable(): a thread was ever assigned to worker_
    phase, at,   \* where the worker is: the phase of run(), the step in it
    heater,      \* SimulatedHeaterControl::target_
    pump,        \* SimulatedPumpControl::mode_
    latch,       \* SimulatedDoorLock::locked_
    frame,       \* SharedSensorState::frame_
    inRangeFor,  \* seconds since inRangeSince_, or NotInRange
    heldFor,     \* seconds since processingStart_
    pc,          \* where each handler is in its call
    process      \* the controller process

worker   == <<phase, at>>
status   == <<state, error>>
hal      == <<heater, pump, latch>>
timers   == <<inRangeFor, heldFor>>
vars     == <<state, running, error, joinable, phase, at, heater, pump, latch,
              frame, inRangeFor, heldFor, pc, process>>

States  == {"IDLE", "INITIALISING", "WATER_INTAKE", "HEATING", "PROCESSING",
            "DRAINING", "COMPLETE", "ERROR"}
Phases  == {"INITIALISING", "WATER_INTAKE", "HEATING", "PROCESSING", "DRAINING"}
Steps   == {"none", "enter", "lock", "lockFailed", "selfTest", "begin", "guard",
            "door", "cond", "end", "gate", "faultHeater", "faultPump",
            "faultState", "unlock", "complete", "finish", "returned"}
NoError == "none"      \* the empty errorMsg_
Errors  == {NoError, "emergencyStop", "doorUnlocked", "lockRefused"}
Frames  == [level : Levels, temp : Temps, door : BOOLEAN]
Processes == {"serving", "closing", "joining", "exited", "terminated"}
ClientSteps == {"idle", "startExchange", "startSpawn", "stopRunning",
                "resetPump", "resetError", "resetDoor", "resetState"}
NotInRange == -1

\* The order of the phases in run().
NextPhase == [INITIALISING |-> "WATER_INTAKE", WATER_INTAKE |-> "HEATING",
              HEATING |-> "PROCESSING", PROCESSING |-> "DRAINING"]

WorkerActive == at \notin {"none", "returned"}
Alive        == process \notin {"exited", "terminated"}
DoorLocked   == latch /\ frame.door
InCycle      == state \in Phases

\* A default-constructed SensorFrame: nothing has been received yet.
EmptyFrame == [level |-> 0, temp |-> 20, door |-> FALSE]

\* processingStart_ starts at the epoch, longer ago than any hold.
Init ==
    /\ state = "IDLE" /\ running = FALSE /\ error = NoError
    /\ joinable = FALSE
    /\ phase = "INITIALISING" /\ at = "none"
    /\ heater = 0 /\ pump = "off" /\ latch = FALSE
    /\ frame = EmptyFrame
    /\ inRangeFor = NotInRange /\ heldFor = PROCESS_SECS
    /\ pc = [c \in Clients |-> "idle"]
    /\ process = "serving"
-----------------------------------------------------------------------------
(* The worker thread.                                                      *)

Goto(step) == at' = step /\ UNCHANGED phase

\* Mutant: the arguments swapped.
TransitionSwapped(next, message) == state' = message /\ error' = next

Transition(next, message) == state' = next /\ error' = message

\* transition(<phase>), the first step of every phase.
Enter ==
    /\ at = "enter"
    /\ Transition(phase, NoError)
    /\ Goto(IF phase = "INITIALISING" THEN "lock" ELSE "begin")
    /\ UNCHANGED <<running, joinable, hal, timers>>

LockDoor ==
    /\ at = "lock"
    /\ \E locked \in LockResults :
          /\ latch' = locked
          /\ Goto(IF locked THEN "selfTest" ELSE "lockFailed")
    /\ UNCHANGED <<status, running, joinable, heater, pump, timers>>

\* Mutant: the early return is missing.
LockFailedGoesOn ==
    /\ at = "lockFailed"
    /\ Transition("ERROR", "lockRefused")
    /\ Goto("selfTest")
    /\ UNCHANGED <<running, joinable, hal, timers>>

\* The early return: running_ stays set.
LockFailed ==
    /\ at = "lockFailed"
    /\ Transition("ERROR", "lockRefused")
    /\ Goto("returned")
    /\ UNCHANGED <<running, joinable, hal, timers>>

\* The 500 ms sleep: neither running_ nor state_ is looked at after it.
SelfTest ==
    /\ at = "selfTest"
    /\ phase' = NextPhase[phase] /\ at' = "enter"
    /\ UNCHANGED <<status, running, joinable, hal, timers>>

Begin ==
    /\ at = "begin"
    /\ \/ phase = "WATER_INTAKE" /\ pump' = "fill" /\ UNCHANGED <<heater, heldFor>>
       \/ phase = "HEATING" /\ heater' = HEAT_TARGET_C /\ UNCHANGED <<pump, heldFor>>
       \/ phase = "PROCESSING" /\ heldFor' = 0 /\ UNCHANGED <<heater, pump>>
       \/ phase = "DRAINING" /\ pump' = "drain" /\ UNCHANGED <<heater, heldFor>>
    /\ Goto("guard")
    /\ UNCHANGED <<status, running, joinable, latch, inRangeFor>>

\* Mutant: the loop forgets running_.
GoesOnUnlessErrored == state = phase

\* while (running_ && state_ == <phase>)
GoesOn == running /\ state = phase

\* Mutants: a loop without its door check.
FillUnwatched == {"WATER_INTAKE", "DRAINING"}
HeatUnwatched == {"HEATING", "DRAINING"}

\* The loop of DRAINING does not look at the door.
Unwatched == {"DRAINING"}

LoopGuard ==
    /\ at = "guard"
    /\ Goto(IF ~GoesOn THEN "end" ELSE IF phase \in Unwatched THEN "cond" ELSE "door")
    /\ UNCHANGED <<status, running, joinable, hal, timers>>

\* Mutant: a door fault leaves the heater alone.
CheckDoorPumpOnly ==
    /\ at = "door"
    /\ Goto(IF DoorLocked THEN "cond" ELSE "faultPump")
    /\ UNCHANGED <<status, running, joinable, hal, timers>>

CheckDoor ==
    /\ at = "door"
    /\ Goto(IF DoorLocked THEN "cond"
            ELSE IF phase = "WATER_INTAKE" THEN "faultPump" ELSE "faultHeater")
    /\ UNCHANGED <<status, running, joinable, hal, timers>>

FaultHeater ==
    /\ at = "faultHeater"
    /\ heater' = 0
    /\ Goto("faultPump")
    /\ UNCHANGED <<status, running, joinable, pump, latch, timers>>

\* Mutant: a door fault leaves the pump alone.
FaultPumpForgotten ==
    /\ at = "faultPump"
    /\ Goto("faultState")
    /\ UNCHANGED <<status, running, joinable, hal, timers>>

FaultPump ==
    /\ at = "faultPump"
    /\ pump' = "off"
    /\ Goto("faultState")
    /\ UNCHANGED <<status, running, joinable, heater, latch, timers>>

\* Mutants: the message, or the early return, is missing.
FaultStateSilent ==
    /\ at = "faultState"
    /\ Transition("ERROR", NoError)
    /\ Goto("returned")
    /\ UNCHANGED <<running, joinable, hal, timers>>

FaultStateGoesOn ==
    /\ at = "faultState"
    /\ Transition("ERROR", "doorUnlocked")
    /\ Goto("gate")
    /\ UNCHANGED <<running, joinable, hal, timers>>

\* The early return of a door fault: running_ stays set.
FaultState ==
    /\ at = "faultState"
    /\ Transition("ERROR", "doorUnlocked")
    /\ Goto("returned")
    /\ UNCHANGED <<running, joinable, hal, timers>>

\* isAtTarget(): inRangeSince_ after a reading of the frame.
InRangeNow ==
    IF frame.temp # heater THEN NotInRange
    ELSE IF inRangeFor = NotInRange THEN 0 ELSE inRangeFor

\* Mutant: full only above the target.
PhaseDoneStrict ==
    \/ phase = "WATER_INTAKE" /\ frame.level > FILL_TARGET_L
    \/ phase = "HEATING" /\ InRangeNow >= STABLE_SECS
    \/ phase = "PROCESSING" /\ heldFor >= PROCESS_SECS
    \/ phase = "DRAINING" /\ frame.level <= DRAIN_DONE_L

PhaseDone ==
    \/ phase = "WATER_INTAKE" /\ frame.level >= FILL_TARGET_L
    \/ phase = "HEATING" /\ InRangeNow >= STABLE_SECS
    \/ phase = "PROCESSING" /\ heldFor >= PROCESS_SECS
    \/ phase = "DRAINING" /\ frame.level <= DRAIN_DONE_L

\* The condition that ends the phase; if it fails, sleep 100 ms and loop.
CheckCondition ==
    /\ at = "cond"
    /\ Goto(IF PhaseDone THEN "end" ELSE "guard")
    /\ inRangeFor' = IF phase = "HEATING" THEN InRangeNow ELSE inRangeFor
    /\ UNCHANGED <<status, running, joinable, hal, heldFor>>

\* Mutants: the pump is not stopped after filling, the heater not turned off.
StopsPumpLate == {"DRAINING"}
NeverTurnsHeaterOff == {}

\* The phases after whose loop the pump is stopped, and the heater turned off.
StopsPump == {"WATER_INTAKE", "DRAINING"}
TurnsHeaterOff == {"PROCESSING"}

\* What run() does after the loop, however the loop was left.  HEATING does
\* nothing: the heater stays on for PROCESSING.
EndPhase ==
    /\ at = "end"
    /\ pump' = IF phase \in StopsPump THEN "off" ELSE pump
    /\ heater' = IF phase \in TurnsHeaterOff THEN 0 ELSE heater
    /\ Goto("gate")
    /\ UNCHANGED <<status, running, joinable, latch, timers>>

\* if (!running_) return;
Gate ==
    /\ at = "gate"
    /\ \/ ~running /\ Goto("returned")
       \/ running /\ phase = "DRAINING" /\ Goto("unlock")
       \/ running /\ phase # "DRAINING" /\ at' = "enter" /\ phase' = NextPhase[phase]
    /\ UNCHANGED <<status, running, joinable, hal, timers>>

\* Mutant: the door stays locked.
UnlockDoorForgotten ==
    /\ at = "unlock"
    /\ Goto("complete")
    /\ UNCHANGED <<status, running, joinable, hal, timers>>

UnlockDoor ==
    /\ at = "unlock"
    /\ latch' = FALSE
    /\ Goto("complete")
    /\ UNCHANGED <<status, running, joinable, heater, pump, timers>>

Complete ==
    /\ at = "complete"
    /\ Transition("COMPLETE", NoError)
    /\ Goto("finish")
    /\ UNCHANGED <<running, joinable, hal, timers>>

Finish ==
    /\ at = "finish"
    /\ running' = FALSE
    /\ Goto("returned")
    /\ UNCHANGED <<status, joinable, hal, timers>>

WorkerStep ==
    /\ Alive
    /\ \/ Enter \/ LockDoor \/ LockFailed \/ SelfTest \/ Begin \/ LoopGuard
       \/ CheckDoor \/ FaultHeater \/ FaultPump \/ FaultState
       \/ CheckCondition \/ EndPhase \/ Gate
       \/ UnlockDoor \/ Complete \/ Finish
    /\ UNCHANGED <<frame, pc, process>>
-----------------------------------------------------------------------------
(* The HTTP handlers.  A rejected start or reset throws before it changes  *)
(* anything and is answered 400.                                           *)

Jump(c, step) == pc' = [pc EXCEPT ![c] = step]

\* start() up to the check of state_.
StartCheck(c) ==
    /\ pc[c] = "idle" /\ process = "serving" /\ "start" \in Ops
    /\ state = "IDLE"
    /\ Jump(c, "startExchange")
    /\ UNCHANGED <<status, running, joinable, worker, hal, timers, process>>

\* Mutant: a rejected start() takes its claim on running_ back.
StartExchangeTakenBack(c) ==
    /\ pc[c] = "startExchange"
    /\ running' = ~running
    /\ Jump(c, IF running THEN "idle" ELSE "startSpawn")
    /\ UNCHANGED <<status, joinable, worker, hal, timers, process>>

\* running_.exchange(true), which throws if a cycle was running.
StartExchange(c) ==
    /\ pc[c] = "startExchange"
    /\ running' = TRUE
    /\ Jump(c, IF running THEN "idle" ELSE "startSpawn")
    /\ UNCHANGED <<status, joinable, worker, hal, timers, process>>

\* worker_ = std::thread(...).  Assigning over a thread that was never joined
\* calls std::terminate; nothing but the destructor joins worker_.
StartSpawn(c) ==
    /\ pc[c] = "startSpawn"
    /\ IF joinable
         THEN process' = "terminated" /\ UNCHANGED <<joinable, worker>>
         ELSE /\ joinable' = TRUE
              /\ phase' = "INITIALISING" /\ at' = "enter"
              /\ UNCHANGED process
    /\ Jump(c, "idle")
    /\ UNCHANGED <<status, running, hal, timers>>

\* emergencyStop(): the transition, then running_ = false.
StopTransition(c) ==
    /\ pc[c] = "idle" /\ process = "serving" /\ "stop" \in Ops
    /\ Transition("ERROR", "emergencyStop")
    /\ Jump(c, "stopRunning")
    /\ UNCHANGED <<running, joinable, worker, hal, timers, process>>

StopRunning(c) ==
    /\ pc[c] = "stopRunning"
    /\ running' = FALSE
    /\ Jump(c, "idle")
    /\ UNCHANGED <<status, joinable, worker, hal, timers, process>>

\* reset(): state_ is read once, and stored four steps later.
ResetCheck(c) ==
    /\ pc[c] = "idle" /\ process = "serving" /\ "reset" \in Ops
    /\ state \in {"COMPLETE", "ERROR"}
    /\ Jump(c, "resetPump")
    /\ UNCHANGED <<status, running, joinable, worker, hal, timers, process>>

ResetPump(c) ==
    /\ pc[c] = "resetPump"
    /\ pump' = "off"
    /\ Jump(c, "resetError")
    /\ UNCHANGED <<status, running, joinable, worker, heater, latch, timers, process>>

ResetError(c) ==
    /\ pc[c] = "resetError"
    /\ error' = NoError
    /\ Jump(c, "resetDoor")
    /\ UNCHANGED <<state, running, joinable, worker, hal, timers, process>>

ResetDoor(c) ==
    /\ pc[c] = "resetDoor"
    /\ latch' = FALSE
    /\ Jump(c, "resetState")
    /\ UNCHANGED <<status, running, joinable, worker, heater, pump, timers, process>>

\* Outside statusMu_.
ResetState(c) ==
    /\ pc[c] = "resetState"
    /\ state' = "IDLE"
    /\ Jump(c, "idle")
    /\ UNCHANGED <<error, running, joinable, worker, hal, timers, process>>

\* The rest of a call that was accepted.
HandlerStep(c) ==
    /\ Alive
    /\ \/ StartExchange(c) \/ StartSpawn(c) \/ StopRunning(c)
       \/ ResetPump(c) \/ ResetError(c) \/ ResetDoor(c) \/ ResetState(c)
    /\ UNCHANGED frame

Request(c) ==
    /\ StartCheck(c) \/ StopTransition(c) \/ ResetCheck(c)
    /\ UNCHANGED frame
-----------------------------------------------------------------------------
(* main, the clock and the process.                                        *)

\* SIGINT or SIGTERM: svr.stop() ends the accepting of requests.
Quit ==
    /\ process = "serving"
    /\ process' = "closing"
    /\ UNCHANGED <<status, running, joinable, worker, hal, timers, frame, pc>>

\* Mutant: the destructor joins without clearing running_.
DestructRunning ==
    /\ process = "closing"
    /\ \A c \in Clients : pc[c] = "idle"
    /\ process' = "joining"
    /\ UNCHANGED <<status, running, joinable, worker, hal, timers, frame, pc>>

\* httpThread.join() waits for the handlers; then ~CycleController.
Destruct ==
    /\ process = "closing"
    /\ \A c \in Clients : pc[c] = "idle"
    /\ running' = FALSE
    /\ process' = "joining"
    /\ UNCHANGED <<status, joinable, worker, hal, timers, frame, pc>>

\* worker_.join()
JoinWorker ==
    /\ process = "joining"
    /\ ~WorkerActive
    /\ process' = "exited"
    /\ joinable' = FALSE
    /\ UNCHANGED <<status, running, worker, hal, timers, frame, pc>>

MainStep == Destruct \/ JoinWorker

\* docker-compose restarts the container when the process ends.
Restart ==
    /\ ~Alive
    /\ Transition("IDLE", NoError) /\ running' = FALSE /\ joinable' = FALSE
    /\ phase' = "INITIALISING" /\ at' = "none"
    /\ heater' = 0 /\ pump' = "off" /\ latch' = FALSE
    /\ frame' = EmptyFrame
    /\ inRangeFor' = NotInRange /\ heldFor' = PROCESS_SECS
    /\ pc' = [c \in Clients |-> "idle"]
    /\ process' = "serving"

\* steady_clock, one second at a time; the timers stop at their thresholds.
Tick ==
    /\ Alive
    /\ \/ inRangeFor \in 0 .. STABLE_SECS - 1
       \/ heldFor < PROCESS_SECS
    /\ inRangeFor' = IF inRangeFor \in 0 .. STABLE_SECS - 1 THEN inRangeFor + 1
                     ELSE inRangeFor
    /\ heldFor' = IF heldFor < PROCESS_SECS THEN heldFor + 1 ELSE heldFor
    /\ UNCHANGED <<status, running, joinable, worker, hal, frame, pc, process>>

\* The reader thread stores a frame; here any frame may come at any time until
\* main stops the reader.
SensorUpdate ==
    /\ process \in {"serving", "closing"}
    /\ \E f \in Frames \ {frame} : frame' = f
    /\ UNCHANGED <<status, running, joinable, worker, hal, timers, pc, process>>

ClientStep == \E c \in Clients : Request(c) \/ HandlerStep(c)

Next == WorkerStep \/ ClientStep \/ MainStep \/ Quit \/ Restart \/ Tick \/ SensorUpdate

Spec == Init /\ [][Next]_vars

(* Threads that have been started are scheduled, and the clock advances.   *)
(* A container that died is restarted.  Nobody has to send a request, and  *)
(* no frame has to arrive.                                                 *)
Fairness ==
    /\ WF_vars(WorkerStep)
    /\ \A c \in Clients : WF_vars(HandlerStep(c))
    /\ WF_vars(MainStep)
    /\ WF_vars(Tick)
    /\ WF_vars(process = "terminated" /\ Restart)

FairSpec == Spec /\ Fairness
-----------------------------------------------------------------------------

(* Safety.                                                                 *)

\* The variables have the types of the fields they model.
TypeOK ==
    /\ state \in States /\ running \in BOOLEAN /\ error \in Errors
    /\ joinable \in BOOLEAN
    /\ phase \in Phases /\ at \in Steps
    /\ heater \in {0, HEAT_TARGET_C} /\ pump \in {"off", "fill", "drain"}
    /\ latch \in BOOLEAN
    /\ frame \in Frames
    /\ inRangeFor \in {NotInRange} \cup Nat /\ heldFor \in Nat
    /\ pc \in [Clients -> ClientSteps]
    /\ process \in Processes

\* Once the worker has left run(), on whichever path and whatever stop, reset
\* or shutdown raced with it, the pump is off: no water flows unattended.
PumpOffWhenWorkerDone == ~WorkerActive => pump = "off"

\* COMPLETE is announced only after the heater and the pump are off and the
\* door is released, even when the phases before it were skipped by a race.
CompleteIsSafe ==
    state = "COMPLETE" => heater = 0 /\ pump = "off" /\ ~latch

\* An operator who sees ERROR sees why, except between the two halves of a
\* reset (errorMsg_ is cleared under the lock, state_ is stored later).
ErrorExplained ==
    state = "ERROR" =>
        error # NoError \/ \E c \in Clients : pc[c] \in {"resetDoor", "resetState"}

\* The one way to leave the heater on unattended is to be cut short in HEATING:
\* every exit from PROCESSING and every door fault turns it off.
HeaterLeftOnOnlyInHeating == ~WorkerActive /\ heater # 0 => phase = "HEATING"

\* A rejected start() leaves the cycle alone, and running_ outlives the worker:
\* the guard against a second worker holds for the whole of the first.
\* (Without emergency stops, which clear running_ at any time.)
WorkerOwnsRunning ==
    WorkerActive /\ process \in {"serving", "closing"} => running

\* Whatever is not a cycle in progress has every actuator off.
\* (Without emergency stops.)
SafeWhenNotCycling ==
    state \in {"IDLE", "COMPLETE", "ERROR"} => heater = 0 /\ pump = "off"

\* A fault is latched: whatever requests follow, ERROR after a fault is left
\* only to IDLE, by a reset or a restart of the process.
FaultLatches ==
    [][state = "ERROR" /\ error \in {"doorUnlocked", "lockRefused"}
          /\ state' # "ERROR" => state' = "IDLE"]_vars

\* How many steps of its own the worker has before it when running_ is clear:
\* it enters no loop again, and the gate behind each phase lets it go.
Remaining == [
    none |-> 0, returned |-> 0, finish |-> 1, complete |-> 2, unlock |-> 3,
    gate |-> 1, end |-> 2, guard |-> 3, cond |-> 4, door |-> 5,
    faultState |-> 1, faultPump |-> 2, faultHeater |-> 3, begin |-> 4,
    selfTest |-> 6, lockFailed |-> 1, lock |-> 7]
StepsLeft == IF at # "enter" THEN Remaining[at]
             ELSE IF phase = "INITIALISING" THEN 8 ELSE 5

\* With running_ clear every step of the worker brings it nearer to its return,
\* whatever the handlers, the frames and the clock do meanwhile: from anywhere
\* in run() it has at most eight steps to go, and waits at most once.
StopIsPrompt ==
    [][~running /\ WorkerActive /\ worker' # worker => StepsLeft' < StepsLeft]_vars

\* How many steps it takes the worker to turn off the pump of WATER_INTAKE, and
\* the heater, if the door stays open.  A worker that has returned from HEATING
\* leaves the heater on (HeaterLeftOnOnlyInHeating).
FillLeft == [cond |-> 4, guard |-> 3, door |-> 2, end |-> 1, faultPump |-> 1][at]
HeatLeft ==
    IF phase = "HEATING"
      THEN [cond |-> 9, guard |-> 8, door |-> 7, end |-> 7, gate |-> 6,
            faultHeater |-> 1, returned |-> 0][at]
      ELSE [enter |-> 5, begin |-> 4, cond |-> 4, guard |-> 3, door |-> 2, end |-> 1,
            faultHeater |-> 1][at]

\* With the door open or unlatched no step of the worker is spent on going on:
\* each turns the pump or the heater off or comes nearer to that, whichever
\* requests race with it and wherever the door was lost.
DoorLossIsPrompt ==
    [][~DoorLocked /\ worker' # worker =>
          /\ pump = "fill" => pump' # "fill" \/ FillLeft' < FillLeft
          /\ heater # 0 => heater' = 0 \/ HeatLeft' < HeatLeft]_vars

(* Liveness.                                                               *)

\* main returns: the handlers finish and the destructor's join ends.
ShutdownCompletes == (process = "closing") ~> (process \in {"exited", "terminated"})

\* Heating does not go on with the door open or unlatched.  (Without emergency stops and shutdowns.)
DoorLossStopsHeater ==
    (heater # 0 /\ ~DoorLocked /\ process = "serving")
        ~> (heater = 0 \/ DoorLocked \/ process # "serving")

\* A phase whose condition holds is left, so the cycle is never stuck while
\* the appliance does its part.  (Without emergency stops and shutdowns.)
Ready(p) ==
    /\ process = "serving" /\ DoorLocked
    /\ p = "WATER_INTAKE" => frame.level >= FILL_TARGET_L
    /\ p = "HEATING" => frame.temp = HEAT_TARGET_C
    /\ p = "DRAINING" => frame.level <= DRAIN_DONE_L

PhaseAdvances ==
    \A p \in Phases : (state = p /\ Ready(p)) ~> (state # p \/ ~Ready(p))

(* What the documents say and the code does not do.                        *)

\* CycleController.h:33 and docs/washer.md:115: an emergency stop leads to
\* ERROR, which only a reset (to IDLE) leaves.
EmergencyStopLatches ==
    [][state = "ERROR" /\ error = "emergencyStop" /\ state' # "ERROR" =>
          state' = "IDLE"]_vars

\* CycleController.h:32: start() takes IDLE to INITIALISING.  No call to it
\* brings the process down.
StartNeverTerminates == process # "terminated"
=============================================================================
