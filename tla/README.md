# TLA+ models of appliance_control

This directory holds the formal models of the control programs of this
repository: the washer (`controller/`, `simulator.py`, `api.py`), the hardware-
in-the-loop testbed (`hil/`), the batch mixer (`batch_mixer_scada/`) and the
motor node (`bare_metal_foc/`).  Each model is translated from the code; the
documents serve to say what the code is meant to do, and the places where they
disagree are listed under [Findings](#findings).

Source paths below are relative to the repository's root (in `PROJECT.json` they
begin with `src/`).

    tlc -workers 2 -config hil.cfg MCHil      # model-check one configuration
    tlapm HilProofs.tla                       # check one module's proofs

`PROJECT.json` lists components, runs, the source lines of every definition, a
mutant for each property (a plausible bug that makes the run fail), hazards and
theorems.

Contents: [system](#the-system) ·
[modules](#modules-and-code) · [runs](#runs) · [fairness](#fairness) ·
[bounds](#bounds) · [proofs](#proofs) · [findings](#findings) ·
[observations](#further-observations) · [not modelled](#not-modelled) ·
[plan](#plan)

## The system

Four programs that share a style (a state machine, simulated hardware, a
telemetry link) and no code.

### Washer

| Part | State | Operations | Talks to |
|---|---|---|---|
| `CycleController` (`controller/src/CycleController.cpp`) | `state_`, `running_` (atomic), `errorMsg_` (mutex), `worker_` | `run()` in a worker thread; `start`, `emergencyStop`, `reset`, `status` in HTTP threads; destructor | HAL |
| HAL (`SimulatedComponents.h`) | heater setpoint and `inRangeSince_`, pump mode, latch | called by the worker and by `reset` | shared frame |
| `main.cpp` and the HTTP server | the server's thread pool | POST `/cmd/start`, `/cmd/stop`, `/cmd/reset`, GET `/state`; SIGINT/SIGTERM | controller, reader |
| `SocketSensorReader.h` | socket, `running_` | connect, read a frame, store it, answer it with the pump mode; `stop()` joins | simulator |
| `simulator.py` | water level, temperature, pump mode | per connection: send a frame, wait ≤ 100 ms for commands, apply them | reader |
| `api.py` | `_last_state` (one event loop) | forwards `/api/state` and `/api/cmd`; serves the last state when the controller does not answer | HTTP server |
| dashboard (`static/index.html`) | the state on the page, the warning | polls once a second and after each command, buttons enabled by the state shown | `api.py` |

What makes it hard: the worker reads two atomics that the handlers write in
the opposite order; `reset` acts on a state it read four steps earlier; a thread
object is reused; the reader blocks in `read()` while `main` joins it; nothing
but the answer to a frame tells the simulator to stop the water; the page's polls
overlap, and `get_state` stores after an `await`.

What makes it correct: no path leaves the pump on; COMPLETE means everything off
and the door released; a fault is announced with actuators off and stays until a
reset; a stop or a shutdown ends the worker; a phase whose condition holds ends;
the simulated appliance comes to obey whatever is lost; the page passes nothing
old off as current and comes to show what stays.

### HiL testbed

| Part | State | Operations |
|---|---|---|
| `HilFsm` | `state_` (atomic), `initCounter_`, `history_` | `step()` every 20 ms; `emergencyStop`, `reset` from other threads; `computeSetpoint` |
| `main_hil.cpp` | sensor buffer, retry counter | connect with back-off, loop, publish |
| `MqttClient` | socket, `connected_`, packet id | connect, publish, reader thread, disconnect |
| `simulator_hil.py`, `telemetry.py` | spindle, clamp, conveyor; SQLite rows | publish one topic after another, take commands; log |

Hard: `step()` loads `state_` and stores it later while operators store to it;
each sensor topic is a message of its own and overwrites the whole buffer;
messages are QoS 0; a lost connection is not rebuilt, and a write to it may kill
the process; packets carry lengths of one to four bytes, several threads may write
them, and the kernel moves them in pieces.
Correct: a start counts its own frames, whatever an earlier one has left; faults and stops latch; a
breach that was read is acted on, and one that persists ends RUNNING; starting
ends; messages arrive whole, in order and once.

### Batch mixer

| Part | State | Operations |
|---|---|---|
| `BatchController` | state, recipe, `elapsed_s_` | `loadRecipe`, `start`, `step(dt)`, `acknowledge` |
| `PressureGuard`, `PressureSensor` | `tripped_`, threshold; pressure | watcher thread every 100 ms; `acknowledge` |
| Valves, scales, drum | open / leak, mass / filling, rpm | self-test, weigh, turn |
| Windows service (`windows_service.cpp`) | `g_status`, `g_running` | `ServiceMain` runs one batch; `HandlerEx` takes STOP and INTERROGATE in a thread of its own |
| ADS link, database | – | a stub; SQL scripts |

Hard: the watcher's trip and `acknowledge`'s clearing are each a read and a
later store; a trip may come before any step; a batch that was interrupted
leaves its masses behind; the service's two threads write and report one status
record.  Correct: each state uses its own actuators only,
doses are what the recipe orders, overpressure stops the mixer, no step of a batch
is wasted, batches end, and so does a service that was told to; after it nothing
moves.

### Motor node

| Part | State | Operations |
|---|---|---|
| `can_sim` | ring of 64 frames, head, tail | `CanBus_send`, `CanBus_recv` from two contexts |
| `can_frame` | – | pack, unpack |
| `pid` | integrator, previous error | `PID_update`, `PID_reset` |
| `transforms` | – | Clarke, Park, `sin_approx` |
| motor model, tuning tools (`python/`) | – | floating-point simulation, run by hand |

Hard: the two sides of the ring interleave between the frame and the index;
sign and truncation of a torque across bytes; wind-up.  Correct: telemetry is a
lossless queue of rounded torques, the PID stays within its clamp, the transforms'
fixed-point results fit their 32 bits.

## Modules and code

| Module | Models | Remarks |
|---|---|---|
| `WasherController` | `CycleController.cpp/.h`, `SimulatedComponents.h`, the handlers and the shutdown of `main.cpp` | One action per shared access: `Enter` … `Finish` are the lines of `run()`; `StartCheck/StartExchange/StartSpawn`, `StopTransition/StopRunning`, `ResetCheck` … `ResetState` the halves of the handlers; `Quit/Destruct/JoinWorker/Restart` the process. Here frames may arrive freely. |
| `WasherCycle` | abstract: the wash cycle of `docs/washer.md` without threads | what `CycleController.h` promises |
| `WasherRefinement` | the refinement mapping `Work` | `state`, `heater`, `pump` map to themselves, the worker's position to todo / doing / done / tripped |
| `WasherSystem` | `SocketSensorReader.h`, `simulator.py`, `main.cpp` around the reader | composes `WasherController` with the socket and the appliance; replaces free frames by the simulator's |
| `HilFsm` | `HilFsm.cpp`, the sensor buffer | `StepRead/StepAct/StepReturn` split `step()` at its accesses to `state_` |
| `Dashboard` | `api.py`, the script of `static/index.html` | `Read/Store/FallBack` split `get_state()` at its `await`; `Tick`, `Click`, `AskAfterCommand`, `Receive` are the page's. The controller is any process with a state, so that every behaviour of `WasherController` is among its own. |
| `HilSystem` | `main_hil.cpp`, `MqttClient.cpp` (connection), `simulator_hil.py` | composes `HilFsm` with link and machine; the broker's end (`alive`) and `connected_` are two variables, since the reader thread notices later |
| `MqttCodec` | the packets of `MqttClient.cpp` | pure operators: lengths, strings, PUBLISH, and the reader's parsing |
| `MqttStream` | `publish`, `writeAll`, `readerLoop`, `processPacket` of `MqttClient.cpp` | one action per `write()` or `read()`, each of which moves any number of bytes; `Publish` takes `writeMu_`, the last byte of `Write` gives it back; `Cut` breaks the connection anywhere |
| `MessageQueue` | abstract: what QoS 0 promises | whole messages, in order, none twice; a tail is lost with the connection |
| `PressureGuard` | `PressureGuard.cpp`, `PressureSensor.cpp` | the two threads' reads and stores |
| `BatchController` | `BatchController.cpp` and its HAL | composes the guard; one action per call of the controller's thread |
| `BatchService` | `windows_service.cpp`, or a program as in `tests/test_fsm.cpp` | composes `BatchController` with `ServiceMain` and `HandlerEx`; `SetStatus` is a write of `g_status` and a report of what it then holds |
| `CanFrame`, `CanBus`, `Pid` | `can_frame.c`, `can_sim.c`, `pid.c` | pack/unpack with bytes and signs; sends and receives split at their index accesses |
| `TorqueChannel` | abstract: what telemetry promises | in order, once, within one LSB, refused only when full |
| `FocNode` | the loop of `tests/test_integration.c` and `tests/test_can.c` | composes the three; `Channel` is the refinement mapping |
| `Transforms` | `transforms.c`: range reduction, both power series, Clarke, Park and their inverses | pure operators over integers; only proved about (TLC's integers are too narrow) |
| `MC*` | – | small values of the constants for TLC |
| `*Proofs` | – | theorems and proofs |

Definitions whose comment begins with "Mutant" are plausible bugs (a dropped
guard, a missing reset …).  No specification uses them.  `PROJECT.json` pairs
each with the property that catches it.

Data abstraction.  A water level, temperature or pressure is one number for each
interval that the code's thresholds tell apart.  Times are counted in steps and
stop at the threshold they are compared with.  Messages for the operator are
names.  JSON and HTTP are left out; the encodings of the torque and of MQTT's
packets are kept since properties and theorems are about them.

Granularity.  Threads interleave at each access to shared state.  Where two
accesses are merged the module's heading says why that loses no outcome (for
example `running_ && state_ == X`: only the worker stores X).

## Runs

| Run | States | What it shows |
|---|---|---|
| `washer_requests` | 377 276 | Two handlers sending any command, door failures, refusals to lock, shutdown and restart at any point: the pump is off whenever no worker runs; COMPLETE is safe even when phases were skipped by a race; ERROR is explained; the heater stays on only after a stop in HEATING; faults latch; with `running_` clear every step brings the worker nearer to its return, eight steps away at most; without the door no step is spent on going on with water or heat. With fair threads shutdown completes (both joins). |
| `washer_cycle` | 13 448 | Without emergency stops: implements `WasherCycle`; `running_` covers the whole worker; nothing is on outside a cycle; opening the door ends heating; each phase ends when its condition holds. |
| `washer_system` | 221 639 | Reader, socket, simulator, deaths of either side: still a behaviour of `WasherController`; behind a worker that has ended water dries up in the reader's hand, in the socket and at the valve, in this order and for good; the simulator's pump comes to agree with the controller's; filling and draining end; `main` gets past the blocking reader. |
| `dashboard` | 352 656 | Two polls at a time whose answers overtake each other, commands, outages, a restart of the proxy: a state shown without the warning is one the controller has had since the page asked; a state that stays comes to be shown, and through a cycle the stop button stays enabled; an outage comes to be reported. |
| `hil` | 436 032 | One operator, lost messages, a connection that dies before the reader notices or kills it, SIGPIPE, failed connects, restarts, upsets of the machine: INITIALISING becomes RUNNING only with all its frames counted since STANDBY; faults latch, and so do stops that the loop has loaded; a breach that `step()` has copied is acted on in that step; a persisting breach ends RUNNING; starting ends. |
| `mqtt` | 45 595 | Two publishers and the reader on one stream, broken at any byte: implements `MessageQueue`; what is published arrives while the connection lasts. Its ASSUMEs try `MqttCodec` at the lengths where a byte is added. |
| `batch` | 13 518 | Two recipes, leaks, any pressure at any time, trips against acknowledgements, under a program's calls and under the service: actuators follow states; doses as ordered; a trip preempts; each call of `step()` in a batch leaves fewer to go; overpressure stops; batches end unless a STOP breaks them off; a STOP taken in the service's loop ends it and is reported. |
| `foc` | 39 969 | Sender and receiver interleaved, errors that drive the PID into both clamps, full and empty ring: types and clamps; anti-windup; implements `TorqueChannel`; a torque that is being published arrives with its sign. |
| `washer_stop_overwritten`, `washer_second_start`, `batch_recipe_limit`, `hil_cooling_masked` | – | Violations: see [Findings](#findings). |

`ImplementsCycle`, `ImplementsController`, `ImplementsChannel` and
`ImplementsQueue` are refinements checked as temporal properties.  Deadlock is
checked in every run: each program can always be restarted, polled or given a new
input, so a state without successor would be an error of the model or the code.

Only the four violation runs check a single property.  The washer's properties
are divided over two runs because emergency stops break the ones of
`washer_cycle` (that is finding 1).  The type invariants of `BatchController`,
`HilSystem`, `WasherSystem`, `Dashboard` and `MqttStream` are in no run: they are
proved for all values of the constants, as is `StoppedMeansStill`.

## Fairness

Every fairness condition is weak and on something that a scheduler or a clock
does by itself; none is on a request, a signal, a new connection's success or a
disturbance.

* `WasherController`: the worker, a handler that is inside a call, `main` after
  the signal, the clock, and the container's restart after `std::terminate`
  (`docker-compose.yml`, `restart`).  All loops in the code sleep, so no thread
  starves another.  Frames are not assumed to arrive.
* `WasherSystem`: additionally the reader thread, the simulator's loop and the
  flow of water, one condition each because each is a thread, a process or
  physics of its own.  Restarts of the simulator are not fair.
* `HilSystem`: the control loop, the machine's publishing, its physics and the
  container's restart, and the reader thread whose `read()` fails.  Connecting may
  fail for ever, and so may delivery: the properties ask about what is in the
  buffer, not about what was sent.
* `MqttStream`: some publisher's `write()` and the reader's next step, together
  with TCP, which moves the bytes while the connection lasts.  Publishing, the
  loss of the connection and a new one need not happen.
* `BatchService`: the watcher, the thread that calls `step`, a call of
  `acknowledge` that has begun, `ServiceMain`, and a `HandlerEx` that has begun.
  STOP need not come.
* `Dashboard`: the page's interval timer, and each poll on its own: the proxy
  answers or its time limit passes, and the answer arrives.  Clicks, commands,
  outages and restarts need not happen.
* `FocNode`: a call of `CanBus_send` that has begun, and a receiver that polls.
  The control loop may stop between cycles.

## Bounds

| Bound | Value | Why it is enough |
|---|---|---|
| Handlers (`Clients`) | 2 | Every race in the handlers is between two accesses of two threads, with the worker and `main` as third and fourth. The proofs hold for any number. |
| Water levels, temperatures (washer) | 2 each: below and at the threshold; one temperature in `washer_requests` | the code compares with one threshold at a time; how HEATING ends is `washer_cycle`'s question, in `washer_requests` its band is always met and its exits race with the handlers |
| `STABLE_SECS`, `PROCESS_SECS` | 1 (0 in `washer_system` and `washer_requests`) | distinguishes "not yet" from "long enough"; the other two are about water, commands and races |
| `MAX_IN_FLIGHT` | 1 frame | the simulator waits for an answer or 100 ms between frames; more in flight only age a frame |
| `MAX_SIM_RESTARTS` | 1 | death of the simulator at any point; the proof has no such bound |
| `Polls` | 2 | one answer overtakes another; the proof holds for any number |
| States (dashboard) | IDLE, WATER_INTAKE, HEATING | a state at rest, and two between which the stop button must stay enabled; the others differ only in the start and reset buttons |
| `MAX_RESTARTS` | 1 | the proxy forgets its state once at any point; the proof has no such bound |
| `INIT_CYCLES` | 2 (5 in the code) | one count short and the last one; the proof holds for any |
| `MAX_RETRIES` | 1 (10 in the code) | a retry and giving up |
| `Operators` | 1 | `hil`; the proof holds for any number |
| `Publishers`, `MAX_PUBLISHED` | 2, 2 per connection | two packets that could be mixed, two that follow each other; the proof has neither bound |
| `Messages`, `Chunks` | a short one and one with a length of two bytes; pieces of at most 3, 60 and 1000 bytes | a piece ends within the header, within the body, or takes several packets; the proof holds for any messages up to MQTT's limit and any pieces |
| Recipes | 2 | a recipe with the guard's limit and one with its own; masses 2–3 with gains of 1–2 cover hitting and overshooting a target |
| `DEPTH` | 4 (64 in the code) | full, empty and wrapped; the proof holds for any depth |
| PID gains | `KP` 51201, `KI` and `CLAMP` 102400, `KD` 1 | two samples wind the integrator up and one error of the other sign asks for full output; the torque passes the frame's own limit |

No run uses symmetry: each of the passing ones has liveness properties.

## Proofs

TLAPS checks the following for all values of the constants that satisfy the named
assumptions (ASSUME) of the modules.

**`WasherControllerProofs`.**  `IInv` is inductive and has three parts.
`TypeInv` adds to the types which phase each step belongs to (`StepInv`).
`ActuatorInv` says where the worker may be while the pump or the heater is on
(`PumpInv`, `HeaterInv`), what is true when COMPLETE is announced
(`CompleteInv`), and that a process has one worker in its life (`OneWorker`).
`MessageInv` has `ErrorExplained` and that a worker that reported a fault has
returned (`FaultInv`).  The safety properties are not inductive: "the pump is off
when the worker has returned" needs where it could be on before, and that needs
`OneWorker`, since a second worker could begin while the first is filling.  That
there is no second worker follows from `start()` terminating the process
(finding 2): were that repaired by a join, `OneWorker` would have to be replaced
by the ownership of `running_`.  Theorems: `TypeCorrect`, `PumpSafety`,
`CompletionSafety`, `HeaterSafety`, `ErrorsExplained`, `FaultsLatch`.
Two theorems bound what liveness leaves open.  `StopsArePrompt`: with `running_`
clear, the measure `StepsLeft` falls with each step of the worker and nobody else
changes it, so that a scheduled worker returns within eight steps.
`DoorLossesArePrompt`: while the door is lost, each step of the worker turns the
pump of WATER_INTAKE off or lowers `FillLeft`, and likewise for the heater and
`HeatLeft`; `PumpInv` and `HeaterInv` say where the measures are defined.

**`WasherRefinementProofs`** assumes no emergency stops (`NoStopAssumption`).
`PhaseInv` ties `state_` to the worker's position, `HeatInv` the heater to the
hand-over from HEATING to PROCESSING, `HandlerInv` says that resets go on only
after the worker's last store and that one handler at most may spawn, `RunInv`
that `running_` is set for a whole cycle.  With it each action is a step of
`WasherCycle` or a stutter: `CycleRefinement`; also `RunningGuardsCycle`,
`NotCyclingSafety`.

**`WasherSystemProofs`.**  Every action of the system leaves the variables of
`WasherController` alone or is one of its actions.  The one that needs an
argument is `ReaderStore`, which is a `SensorUpdate` if the frame is well-typed
(`SystemTypeOK`) and the reader is not joined (`ReaderInv`).  `SystemRefinement`
carries the safety theorems over to the deployed system: `SystemPumpSafety`.
`WaterStaysOff` follows a command from the reader's hand (`cmd`) through the socket
to the valve: behind a worker that has ended, each place stays free of water once
it and the places before it are (`HeldDry`, `SentDry`, `Dry`), through lost
connections and restarts of either side.  It needs `PumpSafety`, since what the
reader takes is the controller's pump.  A mode that it took before the pump was
stopped is not excluded, and the code does not exclude it either (see
[observations](#further-observations)).

**`HilProofs`.**  `LoadInv`: between the load of `state_` and the store, only an
operator may change it, so that INITIALISING, RUNNING and FAULT are still what
was loaded.  `CountInv` relates the counter to the state, and to the loaded one.
`HistoryInv` is about the history variable `counted`, the frames counted since
STANDBY: a start that was loaded in STANDBY has none, and in INITIALISING it
equals the counter; so `HilInitialised`, the number that RUNNING comes with.
Theorems: `HilTypes`, `HilInitialised`, `HilLatches` (`StopsLatch`; the first
`step()` after a stop may still overwrite it, see below) and `HilBreaches`: a breach
that was copied ends its step in FAULT or where an operator has put the state.

**`BatchControllerProofs`.**  `BatchInvariant` is `TypeOK` with the two safety
invariants and what they need of each other.  Theorems: `BatchTypes`,
`BatchActuators`, `BatchDoses`, `BatchTrips`.  `ServiceImplements`: every step of
the service is one of `BatchController` or leaves it alone, so that the four hold
in the service too (`ServiceSafety`).  `BatchProgress`: the measure `StepsLeft`
(doses and time to go) falls with each call of `step()` in a batch and never rises,
for any recipe and any gains; `BatchBound`: it begins at `Longest(recipe)` at most,
the recipe's doses and duration and four.  So a batch that is stepped ends.
`StoppedIsStill`: STOPPED is written, and so reported, only behind the loop
(`OverInv`), and nothing but the guard's thread moves there.

**`DashboardProofs`.**  `HonestDisplay` needs, besides the types (by which an
answer has a state), that every answer on its way that is not marked old carries a
state the controller has had since the poll was sent; that is inductive together
with the types, for any number of polls, of states and of restarts.
Theorems: `DashTypes`, `DashHonest`.

**`MqttProofs`.**  `LengthRoundTrip`: by cases on the one to four bytes of a
length, with the division facts stated for each.  `PacketFound`: `Stretch` (a
stretch of a concatenation is the part it was made of) finds body and rest behind
the length.  `MessageCarried` puts them together with the topic's two bytes, for
every topic below 65536 bytes (a longer one has its size cast, and is cut) and
every packet up to MQTT's limit.

`StreamInvariant` is about the connection, for any publishers, messages and pieces.
`LockInv`: who has bytes left to write holds the lock.  `PlacesInv`, `ContentInv`
and `RestInv`: the history `from` says where each packet begins in the stream, the
stream holds each one whole behind the other, except for the last, whose rest is
what its publisher has still to write.  `ReaderInv` says, for each place of the
reader, which stretch of which packet it has got; `DeliveredInv` that it has
delivered the messages before.  None of these is inductive alone.  `StreamRefinement`
maps the last byte's processing to `Deliver`, the lock to `Send`, and everything
between to a stutter: the proof's `ProcessDelivers` uses the codec's theorems.
Also `StreamTypes`.

**`FocProofs`.**  `ChannelInv`: what one side of the ring has found out stays
true until it acts on it, whatever the other side does.  `Readings` (the unpacked
contents of the ring) is the channel's queue; lemmas say how it changes when an
index moves.  `RoundTrip` is the codec's: pack, then unpack, gives the clamped
torque within one LSB, for every torque.  Theorems: `FocTypes`, `FocAntiWindup`,
`FocChannel`, `RoundTrip`.

Of `Transforms`: `SeriesRange` (the power series are evaluated in [0, π/4] only),
`ParkAngles` (one addition of the wrapping loops at most), `ClarkeRounding` (off
by less than one LSB), `ClarkeFits` (no overflow below 8192 A), `SineBounded`
(each factor of a term is at most 1.0, so the terms shrink, and sine and cosine
stay within 1.0), and from it `RotationFits` (no overflow of either Park
transform below 16384) and `ThirdPhase`.

Model-checked only: every liveness property (liveness under fairness and ENABLED
are out of the provers' reach; `DoorLossStopsHeater`, `PhaseAdvances`,
`ShutdownCompletes`, `OverpressureStops`, `BatchEnds`, `StopEnds`,
`DisplayFollows`, `OutageShown`, `BreachStops`, `StartsUp`, `PumpObeyed`,
`WaterMoves`, `SystemShutdown`, `TorqueArrives`, `PublishedArrives`), and the four
refuted properties.  Every invariant, action property and refinement of the passing
runs is a theorem.  That a length is read back for every number of bytes is proved by
cases on one to four, since induction over data is out of reach.  No module
with a theorem uses a recursive operator.

## Findings

1. **An emergency stop can be overwritten** (`washer_stop_overwritten`).
   `run()` stores the next phase without looking at `running_` or `state_` after
   its self-test (`CycleController.cpp:76`), and `emergencyStop` stores ERROR
   before it clears `running_`.  ERROR disappears, although the worker still
   ends.  `CycleController.h:33`: "any → ERROR".
2. **A second cycle terminates the process** (`washer_second_start`).
   `worker_` is assigned while it holds the finished thread
   (`CycleController.cpp:23`).  `docs/washer.md:116` has the cycle end in IDLE,
   from where a start is expected to work.
3. **A recipe's pressure limit is not enforced** (`batch_recipe_limit`).  The
   guard takes its threshold at construction (`BatchController.cpp:13`);
   `migrations/003_add_pressure_threshold.sql:1` asks for one per recipe.
4. **A warm spindle need not be cooled** (`hil_cooling_masked`).  A message
   with one field stores a frame with defaults in the others
   (`main_hil.cpp:32`), so the temperature is 20 °C except for the moment
   between two topics.  `HilFsm.cpp:61`: "Request cooling if temp > 60°C".  The
   counterexample is fair: the loop runs, messages arrive, and the loop samples
   the buffer always at another topic.

## Further observations

Disagreements between text and code met in modelling, without a run:

* After a fault `start()` is refused for ever: the fault paths leave `running_` set
  (`CycleController.cpp:82`, 98) and `reset` does not clear it, while
  `CycleController.h:32` has `start()` take IDLE to INITIALISING.  (Finding 2 would
  follow if it did.)
* `docs/hil.md:222` has FAULT follow a sensor timeout, and line 225 a test of it;
  `SensorBuffer` (`HilFsm.h:32`) keeps no time, and `step()` (`HilFsm.cpp:10`) goes on
  with the last frame.
* An emergency stop between `step()`'s load of `state_` and its store
  (`HilFsm.cpp:4`) is overwritten, although by `docs/hil.md:59` only
  `reset()` leaves EMERGENCY_STOP.  `StopsLatch` says what is true of one that was loaded.
* In the same way a start may be skipped: with INITIALISING loaded and the counter
  one short, a stop and a reset put STANDBY, and the store at `HilFsm.cpp:32` makes
  it RUNNING with nothing counted since, although by `docs/hil.md:56` it takes five
  frames.  `RunningInitialised` is about the step from INITIALISING to RUNNING.
* A connection that breaks within a packet's length makes that length 0
  (`MqttClient.cpp:210`), and `processPacket` reads the first byte of an empty vector
  (line 163): undefined, in the models `"undefined"` and `ReaderFaults`.
  `docs/hil.md:219` would have it discarded.
* `MqttClient.cpp:169` speaks of the wildcard `+`, which the comparison does not know.
* `docs/washer.md:72` "JSON frame every 100ms": the simulator sends the next
  frame right after a command; 100 ms is the longest wait.
* No command carries the heater's setpoint (`simulator.py:56`): the simulated
  water stays near ambient, with noise added at each step.
* `CycleController.cpp:67` speaks of verifying sensors, which `run()` does not.
* `main.cpp:76` stops the reader before the controller's destructor stops the
  worker, so the last pump mode never reaches the simulator; the next connection
  does (`PumpObeyed`).
* The reader takes the pump's mode at `SocketSensorReader.h:72` and writes it at line
  74.  If the worker stops the pump and ends in between, a late `fill` or `drain`
  opens the valve behind it, until the next frame's answer.  `StaysDry` says that
  this one command is all.
* `docs/hil.md:95` promises auto-reconnect; `MqttClient.cpp:157` ends its loop.
  `main_hil.cpp` does not ignore SIGPIPE, so that a write to the dead socket ends
  the process, and the container's restart is what connects again.  `BreachStops` and `StartsUp` hold
  through that; neither asks for a connection.
* `sendSubscribe` writes without `writeMu_` (`MqttClient.cpp:142`).  The program
  subscribes before it publishes, so that `ImplementsQueue`, which is about
  publishers, is not disturbed; a `subscribe` beside a `publish` would be.
* `MqttClient.h:29` says that QoS 1 waits for PUBACK; `publish` does not.
  `processPacket` does not skip a packet identifier although `sendSubscribe` asks
  for QoS 1; `sendPing` is declared and never defined, with a keep-alive of 60 s
  announced; `pktId_` wraps to 0, which MQTT forbids.
* The machine publishes at the rate at which the loop samples, so that the masking
  of finding 4 may stay in step.
* `windows_service.cpp:85`: a STOP between the report of RUNNING and
  `g_running.store(true)` is lost (`StopEnds` is about one that is taken later).  Line 88: a STOP within a batch leaves the
  valves open and the drum turning.  Line 86: the result of `start()` is ignored;
  with a leaking valve the service idles for ever.  Line 37: with a trip that
  races a STOP, STOP_PENDING may be the last report.
* `api.py:16` has a fixed controller URL, although `docker-compose.yml` sets
  `CONTROLLER_URL` for it: in the container it reaches nothing.
* After a restart of the proxy during an outage the page gets a 503, which
  `poll()` drops (`index.html:216`): it keeps its state without a warning.
  `OutageShown` asks for a state that the proxy remembers for that reason.
* `index.html:208` leaves the start button enabled in ERROR, where `start()`
  refuses.
* `api.py:58`: a command that timed out may still be executed.
* `transforms.h:25` says that va and vb are written; `FOC_inv_clarke` drops vb.
* `docs/hil.md:56` "5 consecutive valid sensor frames": the code counts steps
  with a valid frame in the buffer, which may be five times the same.
* `HilFsm::emergencyStop` has no caller in the program; the model lets an
  operator call it as the tests do.
* `pid.c:32` speaks of the derivative of the measurement; the code takes that of
  the error.  The model follows the code.
* `can_frame.h:24` and `docs/REQUIREMENTS.md` (REQ-003) give ±200 Nm; the code
  clamps to ±127 Nm, what 16 bits of Q8.8 can hold.
* The ring of 64 holds 63 frames.
* `can_sim` calls itself lock-free with plain fields.  The model takes stores in
  program order, which holds on a single core with a compiler that keeps the
  order; the language promises neither.

## Not modelled

* `/api/history` (snapshots that the page does not ask for), `main.py` (starts the
  server).
* MQTT's CONNECT, CONNACK and SUBSCRIBE packets, the matching of filters and PINGREQ: one
  filter, `sensor/#`, which every topic of the machine matches.  Packet
  identifiers are in the packets; nothing depends on their value.  The conveyor;
  telemetry's database rows, which nothing reads back.
* The ADS link is a stub and is never called; the SQL scripts have no program.
* The error of the power series against the real sine, which is analysis.  The
  motor model and the tuning tools are floating point.  `q16_clamp` has no caller
  and `FOC_reset` is a `memset`.
* Rounding of floats in `pid.c`; the branch for `ki == 0`, dead with the gains of
  `pid_gains.h`.
* Elapsed times and histories that are only displayed (`cycleStart_`, `history_`).
* `httplib.h`, googletest and other vendored code.

## Plan

Done: the washer (controller, cycle, system, dashboard), the batch mixer with its
service, the HiL testbed with its packets, and the motor node with its
transforms, each with its proofs; the byte stream under MQTT.

Worth adding when the code changes:

1. With `start()` repaired (finding 2): several cycles in one process in
   `WasherController`, with the ownership of `running_` in the place of
   `OneWorker`, and the heater's `inRangeSince_` across cycles.
2. With a reconnecting `MqttClient`: a second reader thread beside the first
   one's end, and identifiers that an acknowledgement refers to.
3. A composition of `Dashboard` with `WasherController`, to say what a click on
   a button enabled by an old state can do.
