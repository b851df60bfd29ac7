------------------------- MODULE WasherSystemProofs -------------------------
(***************************************************************************)
(* The reader, the socket and the simulator are one of the environments    *)
(* that WasherController allows for, so that its theorems hold for the     *)
(* deployed system.                                                        *)
(*                                                                         *)
(* Most steps are steps of the controller or stutter.  The one in question *)
(* is ReaderStore: it is a SensorUpdate if the frame is a frame, and if    *)
(* main has not joined the reader yet (ReaderInv).                         *)
(*                                                                         *)
(* Behind a worker that has ended the pump is off.  The reader then takes  *)
(* nothing else, and each place that a command passes through dries up     *)
(* once the places before it have.                                         *)
(***************************************************************************)
EXTENDS WasherSystem, WasherControllerProofs

\* A reader that has not ended has a process that has not joined it.
ReaderInv == reader # "ended" => process \in {"serving", "closing", "terminated"}

SocketInv == SystemTypeOK /\ ReaderInv
-----------------------------------------------------------------------------
LEMMA InitSocket == SystemInit => SocketInv
  BY LevelAssumption, SystemAssumption
     DEF SystemInit, Init, SocketInv, SystemTypeOK, ReaderInv

LEMMA FrameFits == SystemTypeOK =>
    \A t \in Temps : [level |-> tank, temp |-> t, door |-> TRUE] \in Frames
  BY DEF SystemTypeOK, Frames

\* The queue of frames is used as one.
LEMMA QueueTypes ==
    ASSUME NEW q \in Seq(Frames), NEW f \in Frames
    PROVE  /\ Append(q, f) \in Seq(Frames) /\ Len(Append(q, f)) = Len(q) + 1
           /\ q # <<>> => /\ Head(q) \in Frames /\ Tail(q) \in Seq(Frames)
                          /\ Len(Tail(q)) = Len(q) - 1
  OBVIOUS

\* What the ends of a connection leave of the types.
LEMMA CloseTypes ==
    ASSUME NEW sent \in {"none", "off", "fill", "drain"}, SystemTypeOK, Close(sent)
    PROVE  /\ sim' = "none" /\ toSim' = "none"
           /\ toReader' \in Seq(Frames) /\ Len(toReader') <= MAX_IN_FLIGHT
           /\ valve' \in {"off", "fill", "drain"}
  BY SystemAssumption DEF SystemTypeOK, Close

LEMMA ReaderSocket ==
    ASSUME TypeOK, SocketInv, ReaderStep PROVE SocketInv'
<1> USE DEF SocketInv, SystemTypeOK, ReaderInv, vars
<1>0. UNCHANGED <<readerRunning, tank, simRestarts>> /\ Alive
    BY DEF ReaderStep
<1>1. CASE ReaderConnect
    BY <1>0, <1>1 DEF ReaderConnect
<1>2. CASE ReaderStore
  <2>1. toReader' \in Seq(Frames) /\ Len(toReader') <= MAX_IN_FLIGHT
      BY <1>2, QueueTypes, SystemAssumption DEF ReaderStore, TypeOK
  <2> QED
      BY <1>0, <1>2, <2>1 DEF ReaderStore
<1>3. CASE ReaderAnswer
  <2> DEFINE sent == IF sim = "none" THEN toSim ELSE cmd
  <2>1. sent \in {"none", "off", "fill", "drain"} /\ cmd' = "none"
      BY <1>3 DEF ReaderAnswer
  <2>2. CASE readerRunning
      BY <1>0, <1>3, <2>1, <2>2 DEF ReaderAnswer
  <2>3. CASE ~readerRunning
    <3>1. Close(sent) /\ reader' = "ended"
        BY <1>3, <2>3 DEF ReaderAnswer
    <3> QED
        BY <1>0, <2>1, <3>1, CloseTypes
  <2> QED
      BY <2>2, <2>3
<1>4. CASE ReaderLost
    BY <1>0, <1>4 DEF ReaderLost, socket
<1>5. CASE ReaderMode
    BY <1>0, <1>5 DEF ReaderMode, TypeOK, socket
<1> QED
    BY <1>1, <1>2, <1>3, <1>4, <1>5 DEF ReaderStep

LEMMA ControllerSocket ==
    ASSUME SocketInv, StopReader \/ Main \/ Hangup \/ RestartController \/ Controller
    PROVE  SocketInv'
<1> USE DEF SocketInv, SystemTypeOK, ReaderInv, apart, thread, socket, physics
<1>1. CASE StopReader
    BY <1>1 DEF StopReader, vars
<1>2. CASE Main
    BY <1>2 DEF Main, MainStep
<1>3. CASE Hangup
  <2>1. Close(toSim) /\ reader' = "ended" /\ cmd' = "none"
        /\ UNCHANGED <<readerRunning, tank, simRestarts>>
      BY <1>3 DEF Hangup, physics
  <2> QED
      BY <2>1, CloseTypes
<1>4. CASE RestartController
    BY <1>4 DEF RestartController, Restart
<1>5. CASE Controller
  <2>1. UNCHANGED apart
      BY <1>5 DEF Controller, Worker, Handler, Environment
  <2>2. process' \in {process, "closing", "terminated"}
      BY <1>5 DEF Controller, Worker, Handler, Environment, WorkerStep, HandlerStep,
         StartExchange, StartSpawn, StopRunning, ResetPump, ResetError, ResetDoor,
         ResetState, Request, StartCheck, StopTransition, ResetCheck, Quit, Tick
  <2> QED
      BY <2>1, <2>2
<1> QED
    BY <1>1, <1>2, <1>3, <1>4, <1>5

LEMMA SimSocket ==
    ASSUME SocketInv, SimLoop \/ SimWater \/ RestartSim PROVE SocketInv'
<1> USE DEF SocketInv, SystemTypeOK, ReaderInv, vars, thread, socket, physics
<1>1. CASE SimLoop /\ SendFrame
  <2>1. PICK t \in Temps :
            toReader' = Append(toReader, [level |-> tank, temp |-> t, door |-> TRUE])
      BY <1>1 DEF SendFrame
  <2>2. toReader' \in Seq(Frames) /\ Len(toReader') <= MAX_IN_FLIGHT
      BY <1>1, <2>1, FrameFits, QueueTypes, SystemAssumption DEF SendFrame
  <2> QED
      BY <1>1, <2>2 DEF SimLoop, SendFrame
<1>2. CASE SimLoop /\ ReadCommands
    BY <1>2 DEF SimLoop, ReadCommands, ApplyCommand
<1>3. CASE SimWater
    BY <1>3 DEF SimWater, Flow
<1>4. CASE RestartSim
    BY <1>4, LevelAssumption DEF RestartSim
<1> QED
    BY <1>1, <1>2, <1>3, <1>4 DEF SimLoop
-----------------------------------------------------------------------------
(* The refinement.                                                         *)

LEMMA StoreIsUpdate ==
    ASSUME SocketInv, ReaderStep, ReaderStore PROVE SensorUpdate \/ UNCHANGED vars
<1>1. frame' \in Frames
    BY DEF SocketInv, SystemTypeOK, ReaderStore
<1>2. process \in {"serving", "closing"}
    BY DEF SocketInv, ReaderInv, ReaderStep, ReaderStore, Alive
<1> QED
    BY <1>1, <1>2 DEF ReaderStore, SensorUpdate, vars, status, worker, hal, timers

LEMMA StepIsStep == SocketInv /\ [SystemNext]_sysvars => [Next]_vars
<1> SUFFICES ASSUME SocketInv, [SystemNext]_sysvars PROVE [Next]_vars
    OBVIOUS
<1>1. CASE ReaderStep
    BY <1>1, StoreIsUpdate
       DEF ReaderStep, ReaderConnect, ReaderMode, ReaderAnswer, ReaderLost, Next
<1>2. CASE StopReader \/ Hangup \/ SimLoop \/ SimWater \/ RestartSim \/ UNCHANGED sysvars
    BY <1>2 DEF StopReader, Hangup, SimLoop, SimWater, RestartSim, sysvars
<1>3. CASE Main \/ RestartController
    BY <1>3 DEF Main, RestartController, Next
<1>4. CASE Controller
    BY <1>4 DEF Controller, Worker, Handler, Environment, Next, ClientStep
<1> QED
    BY <1>1, <1>2, <1>3, <1>4 DEF SystemNext

\* A step of the system keeps SocketInv, given the types of the controller.
LEMMA SocketStep == TypeOK /\ SocketInv /\ [SystemNext]_sysvars => SocketInv'
<1>1. SocketInv /\ UNCHANGED sysvars => SocketInv'
    BY DEF SocketInv, SystemTypeOK, ReaderInv, sysvars, vars, thread, socket, physics
<1> QED
    BY <1>1, ReaderSocket, ControllerSocket, SimSocket DEF SystemNext

\* The types of the controller are needed for what the reader takes; a step of
\* the system keeps them because it is a step of the controller.
LEMMA SystemInvariant == SystemSpec => [](TypeInv /\ SocketInv)
<1>1. SystemInit => TypeInv /\ SocketInv
    BY InitSocket, InitTypes DEF SystemInit
<1>2. TypeInv /\ SocketInv /\ [SystemNext]_sysvars => TypeInv' /\ SocketInv'
    BY SocketStep, StepIsStep, StepTypes DEF TypeInv
<1> QED
    BY <1>1, <1>2, PTL DEF SystemSpec

\* The simulator's side keeps its types, and the tank its limits.
THEOREM SystemTypes == SystemSpec => []SystemTypeOK
  BY SystemInvariant, PTL DEF SocketInv

\* The reader, the socket and the simulator are an environment that
\* WasherController allows for.
THEOREM SystemRefinement == SystemSpec => ImplementsController
<1>1. SystemInit => Init
    BY DEF SystemInit
<1> QED
    BY <1>1, StepIsStep, SystemInvariant, PTL DEF SystemSpec, ImplementsController, Spec

\* So in the deployed system too no water is pumped once the worker has ended.
THEOREM SystemPumpSafety == SystemSpec => []PumpOffWhenWorkerDone
  BY SystemRefinement, PumpSafety, PTL DEF ImplementsController
-----------------------------------------------------------------------------
(* The water.                                                              *)

\* The reader takes the pump's mode, sends what it has taken, and both ends of a
\* connection leave nothing but what was sent behind.
LEMMA ReaderDries ==
    ASSUME pump = "off", ReaderStep
    PROVE  (HeldDry => HeldDry') /\ (SentDry => SentDry') /\ (Dry => Dry')
<1> USE DEF HeldDry, SentDry, Dry
<1>1. CASE ReaderConnect \/ ReaderStore \/ ReaderMode \/ ReaderLost
    BY <1>1 DEF ReaderConnect, ReaderStore, ReaderMode, ReaderLost, socket
<1>2. CASE ReaderAnswer
  <2> DEFINE sent == IF sim = "none" THEN toSim ELSE cmd
  <2>1. SentDry => sent \in {"none", "off"}
      OBVIOUS
  <2>2. cmd' = "none" /\ ((toSim' = sent /\ UNCHANGED valve) \/ Close(sent))
      BY <1>2 DEF ReaderAnswer
  <2> QED
      BY <2>1, <2>2 DEF Close
<1> QED
    BY <1>1, <1>2 DEF ReaderStep

\* With the pump off, no step of any process brings water back to a place that
\* it has left.
LEMMA StepDries ==
    ASSUME pump = "off", [SystemNext]_sysvars
    PROVE  (HeldDry => HeldDry') /\ (SentDry => SentDry') /\ (Dry => Dry')
<1> USE DEF HeldDry, SentDry, Dry
<1>1. CASE ReaderStep
    BY <1>1, ReaderDries
<1>2. CASE StopReader \/ Main \/ RestartController
    BY <1>2 DEF StopReader, Main, RestartController, thread, socket, physics
<1>3. CASE Hangup
    BY <1>3 DEF Hangup, Close
<1>4. CASE Controller
    BY <1>4 DEF Controller, Worker, Handler, Environment, apart, thread, socket, physics
<1>5. CASE SimLoop
    BY <1>5 DEF SimLoop, SendFrame, ReadCommands, ApplyCommand, thread, physics
<1>6. CASE SimWater
    BY <1>6 DEF SimWater, Flow, thread, socket
<1>7. CASE RestartSim
    BY <1>7 DEF RestartSim, thread
<1>8. CASE UNCHANGED sysvars
    BY <1>8 DEF sysvars, thread, socket, physics
<1> QED
    BY <1>1, <1>2, <1>3, <1>4, <1>5, <1>6, <1>7, <1>8 DEF SystemNext

\* Across the socket too, and through every loss and restart: behind a worker
\* that has ended, a place that holds no command for water gets none any more,
\* first the reader's, then the socket's, then the valve.
THEOREM WaterStaysOff == SystemSpec => StaysDry
<1> DEFINE Dries == ~WorkerActive => /\ HeldDry => HeldDry'
                                     /\ SentDry => SentDry'
                                     /\ Dry => Dry'
<1>1. PumpOffWhenWorkerDone /\ [SystemNext]_sysvars => [Dries]_sysvars
    BY StepDries DEF PumpOffWhenWorkerDone
<1> QED
    BY SystemPumpSafety, <1>1, PTL DEF SystemSpec, StaysDry
=============================================================================
