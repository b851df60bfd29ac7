---------------------------- MODULE WasherSystem ----------------------------
(***************************************************************************)
(* The washer as it is deployed: the controller process of                 *)
(* WasherController with its socket reader thread (SocketSensorReader.h),  *)
(* and the simulator process (simulator.py) that plays the appliance.      *)
(*                                                                         *)
(* The simulator sends a frame, waits up to 100 ms for commands, applies   *)
(* them and sends the next.  The reader stores each frame and answers it   *)
(* with the mode of the pump, and nothing else ever tells the simulator    *)
(* what the pump does.  Frames are a queue.  Of the commands that are not  *)
(* read yet only the last one counts, since a read takes them all.         *)
(*                                                                         *)
(* The temperature of a frame is free: the simulated one is noise around   *)
(* the ambient temperature, as no command carries the heater's setpoint.   *)
(*                                                                         *)
(* The reader takes the pump's mode and writes it in two steps: the worker *)
(* may stop the pump in between.  Steps that it takes alone are merged:    *)
(* read() with update(), since it is the only one to take a frame, and     *)
(* write() with the look at running_ that follows, since main only clears  *)
(* running_ and then waits for the reader, and what the simulator may have *)
(* read by the time of close() is left open there (Close).                 *)
(***************************************************************************)
EXTENDS WasherController, Sequences

CONSTANTS
    MAX_IN_FLIGHT,   \* frames in the socket (a bound)
    MAX_SIM_RESTARTS \* times the simulator dies (a bound)

ASSUME SystemAssumption == MAX_IN_FLIGHT \in Nat \ {0} /\ MAX_SIM_RESTARTS \in Nat

VARIABLES
    reader,        \* where SocketSensorReader::run is
    readerRunning, \* SocketSensorReader::running_
    cmd,           \* the mode in run()'s cmd, "none" between two answers
    sim,           \* where handle_client is, "none" without a connection
    toReader,      \* frames in the socket
    toSim,         \* the last command in the socket, or "none"
    valve,         \* AppliancePhysics.pump_mode
    tank,          \* AppliancePhysics.water_level_l
    simRestarts

thread  == <<reader, readerRunning, cmd>>
socket  == <<sim, toReader, toSim>>
physics == <<valve, tank>>
sysvars == <<vars, thread, socket, physics, simRestarts>>

SystemInit ==
    /\ Init
    /\ reader = "connect" /\ readerRunning = TRUE /\ cmd = "none"
    /\ sim = "none" /\ toReader = <<>> /\ toSim = "none"
    /\ valve = "off" /\ tank = 0
    /\ simRestarts = 0
-----------------------------------------------------------------------------
(* The reader thread.                                                      *)

\* The controller's end of the connection is closed.  What was sent on it
\* before is still there for the simulator, which either reads it or fails in
\* writing the next frame, in either case before a new process connects.
Close(sent) ==
    /\ sim' = "none" /\ toReader' = <<>> /\ toSim' = "none"
    /\ valve' \in {valve} \cup ({sent} \ {"none"})

ReaderConnect ==
    /\ reader = "connect"
    /\ IF readerRunning
         THEN sim = "none" /\ sim' = "frame" /\ reader' = "read"
         ELSE reader' = "ended" /\ UNCHANGED sim
    /\ UNCHANGED <<vars, cmd, toReader, toSim, valve>>

ReaderStore ==
    /\ reader = "read" /\ toReader # <<>>
    /\ frame' = Head(toReader) /\ toReader' = Tail(toReader)
    /\ reader' = "mode"
    /\ UNCHANGED <<state, running, error, joinable, worker, hal, timers, pc, process,
                   cmd, sim, toSim, valve>>

\* pump_.mode(), into the command to be written.
ReaderMode ==
    /\ reader = "mode" /\ reader' = "answer"
    /\ cmd' = pump
    /\ UNCHANGED <<vars, socket, valve>>

\* write(), which fails silently when the simulator has left, and the guard of
\* the loop: read(), or close().
ReaderAnswer ==
    /\ reader = "answer" /\ cmd' = "none"
    /\ LET sent == IF sim = "none" THEN toSim ELSE cmd
       IN  IF readerRunning
             THEN /\ reader' = "read"
                  /\ toSim' = sent /\ UNCHANGED <<sim, toReader, valve>>
             ELSE reader' = "ended" /\ Close(sent)
    /\ UNCHANGED vars

\* Mutant: the reader gives up when read() fails.
ReaderLostForGood ==
    /\ reader = "read" /\ toReader = <<>> /\ sim = "none"
    /\ reader' = "ended"
    /\ UNCHANGED <<vars, cmd, socket, valve>>

\* read() returns 0.
ReaderLost ==
    /\ reader = "read" /\ toReader = <<>> /\ sim = "none"
    /\ reader' = "connect"
    /\ UNCHANGED <<vars, cmd, socket, valve>>

ReaderStep ==
    /\ Alive
    /\ ReaderConnect \/ ReaderStore \/ ReaderMode \/ ReaderAnswer \/ ReaderLost
    /\ UNCHANGED <<readerRunning, tank, simRestarts>>
-----------------------------------------------------------------------------
(* main.                                                                   *)

\* Mutant: stop() joins without clearing running_.
StopReaderRunning ==
    /\ process = "closing" /\ \A c \in Clients : pc[c] = "idle"
    /\ UNCHANGED <<vars, thread, socket, physics, simRestarts>>

\* reader.stop(), after httpThread.join().
StopReader ==
    /\ process = "closing" /\ \A c \in Clients : pc[c] = "idle"
    /\ readerRunning' = FALSE
    /\ UNCHANGED <<vars, reader, cmd, socket, physics, simRestarts>>

\* Mutant: the destructors run beside the reader.
MainAlone ==
    /\ MainStep
    /\ UNCHANGED <<thread, socket, physics, simRestarts>>

\* The destructors follow when the reader is joined.
Main ==
    /\ reader = "ended" /\ MainStep
    /\ UNCHANGED <<thread, socket, physics, simRestarts>>

\* A process that std::terminate ended: its socket is closed with it.
Hangup ==
    /\ ~Alive /\ reader # "ended"
    /\ reader' = "ended" /\ cmd' = "none" /\ Close(toSim)
    /\ UNCHANGED <<vars, readerRunning, tank, simRestarts>>

RestartController ==
    /\ reader = "ended" /\ Restart
    /\ reader' = "connect" /\ readerRunning' = TRUE
    /\ UNCHANGED <<cmd, socket, physics, simRestarts>>

apart == <<thread, socket, physics, simRestarts>>

Worker      == WorkerStep /\ UNCHANGED apart
Handler(c)  == HandlerStep(c) /\ UNCHANGED apart
Environment == (Quit \/ Tick \/ \E c \in Clients : Request(c)) /\ UNCHANGED apart

Controller == Worker \/ (\E c \in Clients : Handler(c)) \/ Environment
-----------------------------------------------------------------------------
(* The simulator.                                                          *)

SendFrame ==
    /\ sim = "frame" /\ Len(toReader) < MAX_IN_FLIGHT
    /\ \E t \in Temps :
          toReader' = Append(toReader, [level |-> tank, temp |-> t, door |-> TRUE])
    /\ sim' = "wait"
    /\ UNCHANGED <<toSim, physics>>

\* Mutant: mode 0 is taken for a missing one.
ApplyCommandIfSet(mode) == valve' = IF mode = "off" THEN valve ELSE mode

ApplyCommand(mode) == valve' = mode

\* wait_for(reader.read()): commands, or the time-out.
ReadCommands ==
    /\ sim = "wait" /\ sim' = "frame"
    /\ \/ toSim # "none" /\ ApplyCommand(toSim) /\ toSim' = "none"
       \/ toSim = "none" /\ UNCHANGED <<valve, toSim>>
    /\ UNCHANGED <<toReader, tank>>

\* physics.step(): the water that runs in the time up to a frame, one interval
\* of levels after the other, and up to the limits.
Flow ==
    /\ \/ valve = "fill" /\ tank + 1 \in Levels /\ tank' = tank + 1
       \/ valve = "drain" /\ tank - 1 \in Levels /\ tank' = tank - 1
    /\ UNCHANGED <<socket, valve>>

SimLoop  == (SendFrame \/ ReadCommands) /\ UNCHANGED <<vars, thread, simRestarts>>
SimWater == Flow /\ UNCHANGED <<vars, thread, simRestarts>>

\* docker-compose restarts the simulator, which begins with an empty tank.
RestartSim ==
    /\ simRestarts < MAX_SIM_RESTARTS /\ simRestarts' = simRestarts + 1
    /\ sim' = "none" /\ toSim' = "none"
    /\ valve' = "off" /\ tank' = 0
    /\ UNCHANGED <<vars, thread, toReader>>

SystemNext ==
    \/ ReaderStep \/ StopReader \/ Main \/ Hangup \/ RestartController \/ Controller
    \/ SimLoop \/ SimWater \/ RestartSim

SystemSpec == SystemInit /\ [][SystemNext]_sysvars

\* As in WasherController; and the reader, the simulator's loop and the water
\* go on.
SystemFairness ==
    /\ WF_sysvars(Worker) /\ \A c \in Clients : WF_sysvars(Handler(c))
    /\ WF_sysvars(StopReader \/ Main \/ Hangup \/ (process = "terminated" /\ RestartController))
    /\ WF_sysvars(ReaderStep) /\ WF_sysvars(SimLoop) /\ WF_sysvars(SimWater)

FairSystem == SystemSpec /\ SystemFairness
-----------------------------------------------------------------------------

\* The simulator's variables have the types of the fields they model, and the
\* tank stays within its limits whatever commands arrive late or twice.
SystemTypeOK ==
    /\ reader \in {"connect", "read", "mode", "answer", "ended"}
    /\ readerRunning \in BOOLEAN /\ cmd \in {"none", "off", "fill", "drain"}
    /\ sim \in {"none", "frame", "wait"}
    /\ toReader \in Seq(Frames) /\ Len(toReader) <= MAX_IN_FLIGHT
    /\ toSim \in {"none", "off", "fill", "drain"}
    /\ valve \in {"off", "fill", "drain"} /\ tank \in Levels

\* The socket does to the controller only what WasherController allows for:
\* whatever is lost, late or cut off, each step is one of its own steps, no frame
\* comes after main has joined the reader, and what holds there holds here.
ImplementsController == Spec

\* Behind a worker that has ended the water stops for good, one stage after the
\* other: the command that the reader holds, the one in the socket, the valve.
\* What has dried stays dry, whatever is late, lost or left over in a dying
\* connection, until another cycle is started.  Only the one command that the
\* reader took before the pump was stopped may still open the valve again.
HeldDry == cmd \in {"none", "off"}
SentDry == HeldDry /\ toSim \in {"none", "off"}
Dry     == SentDry /\ valve = "off"
StaysDry ==
    [][~WorkerActive => /\ HeldDry => HeldDry'
                        /\ SentDry => SentDry'
                        /\ Dry => Dry']_sysvars

\* The appliance obeys: the simulator's pump comes to agree with the
\* controller's, after a lost connection or a restart of either side too.  A
\* process that ended while filling is succeeded by one that stops the water.
PumpObeyed ==
    (process = "serving" /\ valve # pump) ~> (process # "serving" \/ valve = pump)

\* Filling and draining come to their end: the command reaches the simulator,
\* the level comes back, and the worker sees it.
MovingWater == process = "serving" /\ state \in {"WATER_INTAKE", "DRAINING"}
WaterMoves  == MovingWater ~> ~MovingWater

\* main returns although it joins a reader that blocks in read().
SystemShutdown == (process = "closing") ~> (process \in {"exited", "terminated"})
=============================================================================
