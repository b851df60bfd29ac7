------------------------------ MODULE FocNode ------------------------------
(***************************************************************************)
(* The motor node as bare_metal_foc/tests/test_integration.c and           *)
(* tests/test_can.c put it together: the control loop turns an error into  *)
(* a torque with the PID controller, packs it and sends it; the other side *)
(* of the bus receives and unpacks it.  The transforms between the current *)
(* and the error are left out: the error is any of Errors.                 *)
(***************************************************************************)
EXTENDS CanBus, Pid, Sequences

CONSTANTS
    Errors,     \* setpoint - measurement
    Telemetry   \* state of charge and speed, as the caller gives them

ASSUME InputAssumption == /\ Errors \subseteq Int
                          /\ Telemetry \subseteq [soc : Byte, rpm : Word]

VARIABLES
    offer,  \* the torque that PID_update returned, and its telemetry
    got     \* the last reading unpacked

busVars == <<ring, sender, outgoing, receiver, incoming>>
vars    == <<busVars, pid, offer, got>>

Init ==
    /\ BusInit /\ PidInit
    /\ \E x \in Telemetry : offer = [torque |-> 0, soc |-> x.soc, rpm |-> x.rpm]
    /\ got = Unpack(NoFrame)

\* One cycle of the loop: PID_update and CanFrame_pack, then CanBus_send.
Control ==
    /\ sender = "control" /\ sender' = "send"
    /\ \E e \in Errors, x \in Telemetry :
          /\ PidUpdate(e)
          /\ offer' = [torque |-> Output(e), soc |-> x.soc, rpm |-> x.rpm]
          /\ outgoing' = Pack(Output(e), x.soc, x.rpm)
    /\ UNCHANGED <<ring, receiver, incoming, got>>

\* PID_reset, between two cycles.
Reset ==
    /\ sender = "control"
    /\ PidReset
    /\ UNCHANGED <<busVars, offer, got>>

Transmit ==
    /\ Send
    /\ UNCHANGED <<receiver, incoming, pid, offer, got>>

\* The receiver unpacks its copy when CanBus_recv has returned.
Receive ==
    /\ \/ RecvCheck /\ UNCHANGED got
       \/ RecvCopy /\ UNCHANGED got
       \/ RecvAdvance /\ got' = Unpack(incoming)
    /\ UNCHANGED <<sender, outgoing, pid, offer>>

Next == Control \/ Reset \/ Transmit \/ Receive

Spec == Init /\ [][Next]_vars

\* A call that has begun returns and the receiver polls the bus; the loop
\* may stop between two cycles.
FairSpec == Spec /\ WF_vars(Transmit) /\ WF_vars(Receive)
-----------------------------------------------------------------------------
\* The variables have their types; the controller's output and the
\* integral term stay within the clamp, whatever the errors (pid.c).
FocTypeOK ==
    /\ frames \in [Slots -> Frames] /\ head \in Slots /\ tail \in Slots
    /\ sender \in {"control", "send", "store", "publish"}
    /\ receiver \in {"poll", "copy", "advance"}
    /\ outgoing \in Frames /\ incoming \in Frames
    /\ integrator \in -IntLimit .. IntLimit /\ prevError \in Int
    /\ offer.torque \in -CLAMP .. CLAMP
    /\ [soc |-> offer.soc, rpm |-> offer.rpm] \in Telemetry
    /\ got.torque \in SignedWord /\ got.rpm \in Word /\ got.soc \in Byte

\* Anti-windup: whatever the integrator has collected, a sample whose other
\* terms alone ask for full output is not answered with the opposite sign.
AntiWindup ==
    [][sender = "control" /\ sender' = "send" =>
          LET pd == KP * prevError' + KD * (prevError' - prevError)
          IN  /\ pd >= CLAMP  => offer'.torque >= 0
              /\ pd <= -CLAMP => offer'.torque <= 0]_vars

Readings == [k \in 1 .. Occupied |-> Unpack(Contents[k])]

\* The ring and the codec are a channel of readings: in order, none lost,
\* repeated or overwritten while it is read, each within one LSB.
Channel == INSTANCE TorqueChannel WITH
    CAPACITY <- DEPTH - 1, OUTPUT_LIMIT <- CLAMP, FRAME_LIMIT <- TORQUE_MAX,
    NoReading <- Unpack(NoFrame),
    pending <- sender # "control",
    queue <- Readings

ImplementsChannel == Channel!Spec

\* A torque that is being published arrives, with its sign, even if the
\* loop sends nothing after it.
TorqueArrives ==
    /\ (sender = "publish" /\ offer.torque >= LSB)  ~> (got.torque > 0)
    /\ (sender = "publish" /\ offer.torque <= -LSB) ~> (got.torque < 0)
=============================================================================
