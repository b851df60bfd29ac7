----------------------------- MODULE HilSystem -----------------------------
(***************************************************************************)
(* The HiL testbed: the control loop of main_hil.cpp around HilFsm, its    *)
(* MQTT connection, and the machine that simulator_hil.py plays.           *)
(*                                                                         *)
(* The machine publishes one topic after the other, each with its own      *)
(* field only; the reader's callback stores a whole frame per message,     *)
(* with the missing fields at their defaults.  A QoS 0 message may be      *)
(* lost; TCP keeps the order, so that a delay only ages a reading and is   *)
(* left out.  Of a command only the cooling is kept: the conveyor's speed  *)
(* is not measured by anything the controller looks at.                    *)
(***************************************************************************)
EXTENDS HilFsm

CONSTANTS
    COOL_C,        \* above it computeSetpoint() asks for cooling
    WARM_C,        \* where the spindle settles without cooling
    MAX_RETRIES,   \* failed attempts to connect before main gives up
    Upsets,        \* [temp, pressure] pairs that a disturbance may cause
    Delivered      \* may a message arrive, or not: a subset of BOOLEAN

ASSUME PlantAssumption == /\ COOL_C \in Nat /\ WARM_C \in Temps
                          /\ 20 <= COOL_C /\ COOL_C < WARM_C
                          /\ MAX_RETRIES \in Nat
                          /\ Upsets \subseteq [temp : Temps, pressure : Pressures]
                          /\ Delivered \subseteq BOOLEAN

VARIABLES
    alive,       \* the broker's end of the connection
    connected,   \* MqttClient::connected_; the reader thread is in its loop
    attempt,     \* of connecting
    temp,        \* spindle_temp_c
    pressure,    \* clamp_pressure
    cooling,     \* spindle_coolrate as last commanded
    topic        \* the topic published next

link  == <<alive, connected, attempt>>
plant == <<temp, pressure, cooling, topic>>
vars  == <<fsm, buffer, loop, copies, op, link, plant>>

Topics    == {"conveyor", "temperature", "pressure"}
NextTopic == [conveyor |-> "temperature", temperature |-> "pressure", pressure |-> "conveyor"]

Init ==
    /\ FsmInit /\ loop = "connecting"
    /\ alive = FALSE /\ connected = FALSE /\ attempt = 0
    /\ temp = 20 /\ pressure = 1 /\ cooling = FALSE
    /\ topic = "conveyor"
-----------------------------------------------------------------------------
(* The controller process.                                                 *)

\* connect(), up to the start of the reader thread.
Connect ==
    /\ loop = "connecting" /\ loop' = "check"
    /\ alive' = TRUE /\ connected' = TRUE
    /\ UNCHANGED <<fsm, buffer, copies, op, attempt, plant>>

\* Back off and try again, or return 1.
ConnectFails ==
    /\ loop = "connecting"
    /\ IF attempt < MAX_RETRIES
         THEN attempt' = attempt + 1 /\ UNCHANGED loop
         ELSE loop' = "exited" /\ UNCHANGED attempt
    /\ UNCHANGED <<fsm, buffer, copies, op, alive, connected, plant>>

\* isConnected(): the reader may have ended already, and main returns 1.
CheckConnected ==
    /\ loop = "check"
    /\ loop' = IF connected THEN "step" ELSE "exited"
    /\ UNCHANGED <<fsm, buffer, copies, op, link, plant>>

\* The broker goes away, or closes the connection.
LinkLost ==
    /\ alive /\ alive' = FALSE
    /\ UNCHANGED <<fsm, buffer, loop, copies, op, connected, attempt, plant>>

\* The reader thread's read() fails, and its loop ends.  Nothing connects again.
ReaderEnds ==
    /\ connected /\ ~alive
    /\ connected' = FALSE
    /\ UNCHANGED <<fsm, buffer, loop, copies, op, alive, attempt, plant>>

\* It ends inside the length of a PUBLISH (MqttStream): processPacket() then
\* reads from an empty vector, which may be the end of the process.
ReaderFaults ==
    /\ connected /\ ~alive
    /\ connected' = FALSE /\ loop' = "exited"
    /\ UNCHANGED <<fsm, buffer, copies, op, alive, attempt, plant>>

\* computeSetpoint(): whether cooling is requested.
Coolrate(f) == f.temp > COOL_C

\* Mutant: publish() waits for a connection.
PublishWaits ==
    /\ loop = "publish" /\ loop' = "step"
    /\ connected /\ alive
    /\ cooling' = IF seenState = "RUNNING" /\ seen.valid THEN Coolrate(seen) ELSE cooling
    /\ UNCHANGED <<fsm, buffer, copies, op, link, temp, pressure, topic>>

\* The rest of the loop's body, and its sleep.  The machine obeys a command as
\* it is published.  Without a connection publish() returns false, which main
\* does not look at.
Publish ==
    /\ loop = "publish" /\ loop' = "step"
    /\ cooling' = IF connected /\ alive /\ seenState = "RUNNING" /\ seen.valid
                  THEN Coolrate(seen) ELSE cooling
    /\ UNCHANGED <<fsm, buffer, copies, op, link, temp, pressure, topic>>

\* A write to the dead socket before the reader has noticed: the first one is
\* swallowed, as above, a later one raises SIGPIPE, which main does not ignore.
Killed ==
    /\ loop = "publish" /\ connected /\ ~alive
    /\ loop' = "exited" /\ connected' = FALSE
    /\ UNCHANGED <<fsm, buffer, copies, op, alive, attempt, plant>>

LoopStep ==
    \/ (StepRead \/ StepAct \/ StepReturn) /\ UNCHANGED <<link, plant>>
    \/ Publish \/ Killed \/ CheckConnected

\* SIGINT or SIGTERM, at the loop's guard: disconnect() and return.
Quit ==
    /\ loop = "step"
    /\ loop' = "exited" /\ alive' = FALSE /\ connected' = FALSE
    /\ UNCHANGED <<fsm, buffer, copies, op, attempt, plant>>

\* docker-compose starts the container again.
Restart ==
    /\ loop = "exited" /\ loop' = "connecting"
    /\ state' = "STANDBY" /\ initCounter' = 0 /\ counted' = 0
    /\ buffer' = NoFrame /\ seen' = NoFrame /\ seenState' = "STANDBY"
    /\ op' = [o \in Operators |-> "idle"]
    /\ alive' = FALSE /\ connected' = FALSE /\ attempt' = 0
    /\ UNCHANGED plant

Operate ==
    /\ loop \notin {"connecting", "check", "exited"}
    /\ OperatorStep
    /\ UNCHANGED <<link, plant>>
-----------------------------------------------------------------------------
(* The machine.                                                            *)

\* The frame that the callback makes of a message.
Reading(t) ==
    [temp     |-> IF t = "temperature" THEN temp ELSE 20,
     pressure |-> IF t = "pressure" THEN pressure ELSE 1,
     valid    |-> TRUE]

SensorMessage ==
    /\ topic' = NextTopic[topic]
    /\ \E arrives \in Delivered :
          buffer' = IF connected /\ alive /\ arrives THEN Reading(topic) ELSE buffer
    /\ UNCHANGED <<fsm, loop, copies, op, link, temp, pressure, cooling>>

\* The spindle settles where the cooling lets it.
Settle ==
    /\ temp' = IF cooling THEN 20 ELSE WARM_C
    /\ pressure' = 1
    /\ UNCHANGED <<fsm, buffer, loop, copies, op, link, cooling, topic>>

\* Something else happens to the machine.
Upset ==
    /\ \E u \in Upsets : temp' = u.temp /\ pressure' = u.pressure
    /\ UNCHANGED <<fsm, buffer, loop, copies, op, link, cooling, topic>>

Next == \/ Connect \/ ConnectFails \/ LinkLost \/ ReaderEnds \/ ReaderFaults
        \/ LoopStep \/ Quit \/ Restart
        \/ Operate \/ SensorMessage \/ Settle \/ Upset

Spec == Init /\ [][Next]_vars

\* The loop and the machine's publishing are scheduled, the physics goes on,
\* and the container is started again.  Connections may fail for ever.
Fairness ==
    /\ WF_vars(LoopStep) /\ WF_vars(SensorMessage) /\ WF_vars(Settle)
    /\ WF_vars(Restart) /\ WF_vars(ReaderEnds)

FairSpec == Spec /\ Fairness
-----------------------------------------------------------------------------

(* Safety.                                                                 *)

\* The variables have the types of the fields they model, and the counter does
\* not pass INIT_CYCLES whatever resets and stops come between two steps.
TypeOK ==
    /\ FsmTypeOK
    /\ loop \in {"connecting", "check", "step", "act", "return", "publish", "exited"}
    /\ alive \in BOOLEAN /\ connected \in BOOLEAN /\ attempt \in 0 .. MAX_RETRIES
    /\ temp \in Temps /\ pressure \in Pressures /\ cooling \in BOOLEAN
    /\ topic \in Topics

\* RUNNING follows upon INITIALISING only when INIT_CYCLES steps with a valid
\* frame have been counted since STANDBY, whatever an earlier start that was stopped
\* has left in the counter.  (A stop and a reset between step()'s load and its
\* store lead from STANDBY into RUNNING uncounted: README, Further observations.)
RunningInitialised ==
    [][state = "INITIALISING" /\ state' = "RUNNING" => counted' = INIT_CYCLES]_vars

\* A breach that step() has copied is acted on in that very step, whatever state
\* it loaded with it and whatever the operators have done since.
BreachActedOn ==
    [][loop = "act" /\ loop' = "return" /\ Breach(seen)
         => state' \in Stopped \cup {"STANDBY"}]_vars

\* FAULT, and an emergency stop that the loop has loaded, are latched: what
\* step() does next, with whatever it read before, never leads out of them; only
\* an operator or a restart does.
StopsLatch ==
    [][/\ state = "FAULT" => state' \in Stopped \cup {"STANDBY"}
       /\ state = "EMERGENCY_STOP" /\ seenState = "EMERGENCY_STOP"
             => state' \in {"EMERGENCY_STOP", "STANDBY"}]_vars

(* Liveness.                                                               *)

\* A breach that stays in the buffer ends RUNNING.
BreachStops ==
    (state = "RUNNING" /\ Breach(buffer) /\ loop # "exited")
        ~> (state # "RUNNING" \/ ~Breach(buffer) \/ loop = "exited")

\* With a frame in the buffer, initialising comes to an end.
StartsUp ==
    (state = "INITIALISING" /\ buffer.valid /\ loop # "exited")
        ~> (state # "INITIALISING" \/ loop = "exited")

(* What the documents say and the code does not do.                        *)

\* HilFsm.cpp:61: cooling is requested while the spindle is above COOL_C.
WarmSpindleIsCooled ==
    (state = "RUNNING" /\ connected /\ temp > COOL_C)
        ~> (cooling \/ temp <= COOL_C \/ state # "RUNNING" \/ ~connected)
=============================================================================
