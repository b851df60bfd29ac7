----------------------------- MODULE FocProofs -----------------------------
(***************************************************************************)
(* The motor node for any depth of the ring, any gains and any errors: its *)
(* types and clamps, anti-windup, and that ring and codec implement the    *)
(* channel of TorqueChannel; and the transforms for any angle and current: *)
(* the series' arguments, the division's rounding, and no overflow.        *)
(***************************************************************************)
EXTENDS FocNode, Transforms, SequenceTheorems, TLAPS
-----------------------------------------------------------------------------
(* Arithmetic.                                                             *)

LEMMA ModSmall == ASSUME NEW d \in Nat, d > 0, NEW i \in 0 .. d - 1
                  PROVE  i % d = i
  BY SMT

LEMMA ModWrap == ASSUME NEW d \in Nat, d > 0, NEW i \in d .. 2 * d - 1
                 PROVE  i % d = i - d
  BY SMT

LEMMA ModNegative == ASSUME NEW d \in Nat, d > 0, NEW i \in -d .. -1
                     PROVE  i % d = i + d
  BY SMT

LEMMA Monotonic == ASSUME NEW a \in Nat, NEW b \in Int, NEW c \in Int, b <= c
                   PROVE  a * b <= a * c
  BY SMT
-----------------------------------------------------------------------------
(* The codec (can_frame.c).                                                *)

LEMMA Limits == UINT16_MAX = 65535 /\ INT16_MAX = 32767
  BY DEF UINT16_MAX, INT16_MAX

LEMMA SignedRange ==
  ASSUME NEW x \in Int, -32768 <= x, x <= 32767
  PROVE  x \in SignedWord
<1>1. INT16_MAX \in Int /\ (-INT16_MAX) - 1 <= x /\ x <= INT16_MAX
    BY Limits
<1> QED
    BY <1>1 DEF SignedWord

LEMMA UnsignedRange ==
  ASSUME NEW x \in Int, 0 <= x, x < 65536
  PROVE  x \in Word
<1>1. UINT16_MAX \in Int /\ x <= UINT16_MAX
    BY Limits
<1> QED
    BY <1>1 DEF Word

\* The quotient and the rest of a division by 256.
LEMMA Bytes ==
  ASSUME NEW n \in Int
  PROVE  /\ n \div 256 \in Int /\ n % 256 \in Int
         /\ n % 256 >= 0 /\ n % 256 < 256
         /\ n = 256 * (n \div 256) + (n % 256)
  BY SMT

\* Two bytes carry any 16-bit number, with or without a sign.
LEMMA JoinSplit ==
  ASSUME NEW n \in Int, -32768 <= n, n < 65536
  PROVE  /\ High(n) \in Byte /\ Low(n) \in Byte
         /\ n >= 0 => Join(High(n), Low(n)) = n
         /\ n < 0 => Join(High(n), Low(n)) = n + 65536
<1> DEFINE q == n \div 256
           r == n % 256
<1>1. q \in Int /\ r \in Int /\ r >= 0 /\ r < 256 /\ n = 256 * q + r
    BY Bytes
<1>2. High(n) = q % 256 /\ Low(n) = r
    BY DEF High, Low
<1> HIDE DEF q, r
<1>3. High(n) \in Int /\ High(n) >= 0 /\ High(n) < 256
    BY <1>1, <1>2, Bytes
<1>4. n >= 0 => q >= 0 /\ q < 256
    BY <1>1, SMT
<1>5. n < 0 => q >= -128 /\ q < 0
    BY <1>1, SMT
<1>6. n >= 0 => High(n) = q
    BY <1>1, <1>2, <1>4, ModSmall
<1>7. n < 0 => High(n) = q + 256
    BY <1>1, <1>2, <1>5, ModNegative
<1>8. High(n) \in Byte /\ Low(n) \in Byte
    BY <1>1, <1>2, <1>3 DEF Byte
<1>9. n >= 0 => Join(High(n), Low(n)) = n
    BY <1>1, <1>2, <1>6 DEF Join
<1>10. n < 0 => Join(High(n), Low(n)) = n + 65536
    BY <1>1, <1>2, <1>7 DEF Join
<1> QED
    BY <1>8, <1>9, <1>10

\* The conversion to an integer drops less than one LSB.
LEMMA Rounding ==
  ASSUME NEW t \in Int
  PROVE  /\ Q8(t) \in Int
         /\ -1 <= LSB * Q8(t) - t /\ LSB * Q8(t) - t <= 1
<1>1. \A x \in Int : /\ x \div 2 \in Int
                     /\ 2 * (x \div 2) - x >= -1 /\ 2 * (x \div 2) - x <= 0
    BY SMT
<1>2. CASE t >= 0
    BY <1>1, <1>2 DEF Q8, LSB
<1>3. CASE t < 0
  <2>1. -t \in Int /\ Q8(t) = -((-t) \div 2)
      BY <1>3 DEF Q8, LSB
  <2> QED
      BY <1>1, <2>1 DEF LSB
<1> QED
    BY <1>2, <1>3

\* What is unpacked is what was packed: the torque within one LSB of the
\* clamped one, the state of charge and the speed exactly (CanFrame_pack,
\* CanFrame_unpack; REQ-004).
THEOREM RoundTrip ==
  ASSUME NEW t \in Int, NEW soc \in Byte, NEW rpm \in Word
  PROVE  LET r == Unpack(Pack(t, soc, rpm))
         IN  /\ Pack(t, soc, rpm) \in Frames
             /\ LSB * r.torque - ClampTorque(t) \in -1 .. 1
             /\ r.torque \in SignedWord
             /\ r.soc = soc /\ r.rpm = rpm
<1> DEFINE c == ClampTorque(t)
           raw == Q8(c)
           f == Pack(t, soc, rpm)
<1>1. c \in Int /\ c <= 65024 /\ -65024 <= c
    BY SMT DEF ClampTorque, TORQUE_MAX
<1>2. /\ raw \in Int /\ raw <= 32512 /\ -32512 <= raw
      /\ -1 <= LSB * raw - c /\ LSB * raw - c <= 1
  <2> HIDE DEF c
  <2> QED
      BY <1>1, Rounding, SMT DEF LSB
<1>3. f = [torqueHigh |-> High(raw), torqueLow |-> Low(raw), soc |-> soc,
           rpmHigh |-> High(rpm), rpmLow |-> Low(rpm)]
    BY DEF Pack
<1> HIDE DEF raw, c, f
<1>4. rpm \in Int /\ 0 <= rpm /\ rpm < 65536
    BY Limits DEF Word
<1>5. f \in Frames
    BY <1>2, <1>3, <1>4, JoinSplit DEF Frames
<1>6. Unpack(f).torque = raw
  <2>1. CASE raw >= 0
    <3>1. Join(f.torqueHigh, f.torqueLow) = raw
        BY <1>2, <1>3, <2>1, JoinSplit
    <3> QED
        BY <1>2, <2>1, <3>1, Limits DEF Int16, Unpack
  <2>2. CASE raw < 0
    <3>1. Join(f.torqueHigh, f.torqueLow) = raw + 65536
        BY <1>2, <1>3, <2>2, JoinSplit
    <3> QED
        BY <1>2, <2>2, <3>1, Limits DEF Int16, Unpack
  <2> QED
      BY <1>2, <2>1, <2>2
<1>7. Unpack(f).soc = soc /\ Unpack(f).rpm = rpm
  <2>1. Join(f.rpmHigh, f.rpmLow) = rpm
      BY <1>3, <1>4, JoinSplit
  <2> QED
      BY <1>3, <2>1 DEF Unpack
<1>8. LSB * raw - c \in -1 .. 1
    BY <1>1, <1>2, SMT DEF LSB
<1>9. raw \in SignedWord
    BY <1>2, SignedRange
<1> QED
    BY <1>5, <1>6, <1>7, <1>8, <1>9 DEF c, f

\* Any frame unpacks to numbers of the right width.
LEMMA UnpackTypes ==
  ASSUME NEW f \in Frames
  PROVE  /\ Unpack(f).torque \in SignedWord
         /\ Unpack(f).soc \in Byte /\ Unpack(f).rpm \in Word
<1>1. \A high, low \in Byte : /\ Join(high, low) \in Int
                              /\ Join(high, low) >= 0 /\ Join(high, low) < 65536
    BY DEF Byte, Join
<1>2. /\ f.torqueHigh \in Byte /\ f.torqueLow \in Byte /\ f.soc \in Byte
      /\ f.rpmHigh \in Byte /\ f.rpmLow \in Byte
    BY DEF Frames
<1> DEFINE u == Join(f.torqueHigh, f.torqueLow)
           v == Join(f.rpmHigh, f.rpmLow)
<1>3. u \in Int /\ u >= 0 /\ u < 65536 /\ v \in Int /\ v >= 0 /\ v < 65536
    BY <1>1, <1>2
<1>4. Unpack(f).torque = Int16(u) /\ Unpack(f).soc = f.soc /\ Unpack(f).rpm = v
    BY DEF Unpack
<1> HIDE DEF u, v
<1>5. Int16(u) \in Int /\ -32768 <= Int16(u) /\ Int16(u) <= 32767
    BY <1>3, Limits DEF Int16
<1>6. Int16(u) \in SignedWord
    BY <1>5, SignedRange
<1>7. v \in Word
    BY <1>3, UnsignedRange
<1> QED
    BY <1>2, <1>4, <1>6, <1>7
-----------------------------------------------------------------------------
(* The controller (pid.c).                                                 *)

LEMMA Clamped ==
  ASSUME NEW x \in Int, NEW limit \in Nat
  PROVE  Clamp(x, limit) \in -limit .. limit
  BY SMT DEF Clamp

LEMMA LimitTypes == IntLimit \in Nat /\ KI * IntLimit = CLAMP
  BY GainAssumption, SMT DEF IntLimit

\* The integral term alone never asks for more than full output.
LEMMA IntegralTerm ==
  ASSUME NEW i \in -IntLimit .. IntLimit
  PROVE  KI * i \in -CLAMP .. CLAMP
<1>1. KI * i <= KI * IntLimit /\ KI * (-IntLimit) <= KI * i
    BY GainAssumption, LimitTypes, Monotonic
<1>2. KI * (-IntLimit) = -CLAMP
    BY GainAssumption, LimitTypes, SMT
<1>3. KI * i \in Int
    BY GainAssumption, LimitTypes, SMT
<1> QED
    BY <1>1, <1>2, <1>3, GainAssumption, LimitTypes

LEMMA UpdateTypes ==
  ASSUME integrator \in Int, prevError \in Int, NEW e \in Int
  PROVE  /\ Integrate(e) \in -IntLimit .. IntLimit
         /\ PD(e) \in Int
         /\ KI * Integrate(e) \in -CLAMP .. CLAMP
         /\ Output(e) \in -CLAMP .. CLAMP
<1>1. Integrate(e) \in -IntLimit .. IntLimit
    BY Clamped, LimitTypes DEF Integrate
<1>2. PD(e) \in Int
    BY GainAssumption, SMT DEF PD
<1>3. KI * Integrate(e) \in -CLAMP .. CLAMP
    BY <1>1, IntegralTerm
<1>4. PD(e) + KI * Integrate(e) \in Int
    BY <1>2, <1>3, GainAssumption
<1> QED
    BY <1>1, <1>2, <1>3, <1>4, Clamped, GainAssumption DEF Output
-----------------------------------------------------------------------------
(* The ring (can_sim.c).                                                   *)

\* Masking an index brings it back into the ring.
LEMMA Masked ==
  ASSUME NEW m \in Int, -DEPTH <= m, m < 2 * DEPTH
  PROVE  /\ Mask(m) = IF m < 0 THEN m + DEPTH ELSE IF m < DEPTH THEN m ELSE m - DEPTH
         /\ Mask(m) \in Slots
<1>1. CASE m < 0
  <2>1. m \in -DEPTH .. -1
      BY <1>1, DepthAssumption
  <2>2. m % DEPTH = m + DEPTH
      BY <2>1, DepthAssumption, ModNegative
  <2> QED
      BY <1>1, <2>1, <2>2, DepthAssumption DEF Slots, Mask
<1>2. CASE m >= 0 /\ m < DEPTH
  <2>1. m \in 0 .. DEPTH - 1
      BY <1>2, DepthAssumption
  <2>2. m % DEPTH = m
      BY <2>1, DepthAssumption, ModSmall
  <2> QED
      BY <1>2, <2>1, <2>2, DepthAssumption DEF Slots, Mask
<1>3. CASE m >= DEPTH
  <2>1. m \in DEPTH .. 2 * DEPTH - 1
      BY <1>3, DepthAssumption
  <2>2. m % DEPTH = m - DEPTH
      BY <2>1, DepthAssumption, ModWrap
  <2> QED
      BY <1>3, <2>1, <2>2, DepthAssumption DEF Slots, Mask
<1> QED
    BY <1>1, <1>2, <1>3, DepthAssumption

LEMMA Succession ==
  ASSUME NEW i \in Slots
  PROVE  /\ Succ(i) = IF i = DEPTH - 1 THEN 0 ELSE i + 1
         /\ Succ(i) \in Slots
  BY Masked, DepthAssumption DEF Succ, Slots

\* How far slot h is from slot t, going forward.
LEMMA Distance ==
  ASSUME NEW h \in Slots, NEW t \in Slots
  PROVE  Mask(h - t) = IF h >= t THEN h - t ELSE h - t + DEPTH
  BY Masked, DepthAssumption DEF Slots

\* The k-th slot from slot t.
LEMMA SlotAt ==
  ASSUME NEW t \in Slots, NEW k \in 1 .. DEPTH
  PROVE  /\ Mask(t + k - 1) = IF t + k - 1 < DEPTH THEN t + k - 1 ELSE t + k - 1 - DEPTH
         /\ Mask(t + k - 1) \in Slots
  BY Masked, DepthAssumption DEF Slots
-----------------------------------------------------------------------------
(* Types.                                                                  *)

LEMMA NoFrameType == NoFrame \in Frames
  BY DEF NoFrame, Frames, Byte

LEMMA InitFoc == Init => FocTypeOK
<1> SUFFICES ASSUME Init PROVE FocTypeOK
    OBVIOUS
<1>1. /\ frames \in [Slots -> Frames] /\ head \in Slots /\ tail \in Slots
      /\ outgoing \in Frames /\ incoming \in Frames
    BY NoFrameType, DepthAssumption DEF Init, BusInit, Slots
<1>2. /\ offer.torque \in -CLAMP .. CLAMP
      /\ [soc |-> offer.soc, rpm |-> offer.rpm] \in Telemetry
  <2>1. PICK x \in Telemetry : offer = [torque |-> 0, soc |-> x.soc, rpm |-> x.rpm]
      BY DEF Init
  <2>2. x = [soc |-> x.soc, rpm |-> x.rpm]
      BY InputAssumption
  <2> QED
      BY <2>1, <2>2, GainAssumption
<1>3. integrator \in -IntLimit .. IntLimit /\ prevError \in Int
    BY LimitTypes DEF Init, PidInit
<1>4. /\ sender \in {"control", "send", "store", "publish"}
      /\ receiver \in {"poll", "copy", "advance"}
    BY DEF Init, BusInit
<1>5. got.torque \in SignedWord /\ got.rpm \in Word /\ got.soc \in Byte
    BY NoFrameType, UnpackTypes DEF Init
<1> QED
    BY <1>1, <1>2, <1>3, <1>4, <1>5 DEF FocTypeOK

LEMMA TypesStep == FocTypeOK /\ [Next]_vars => FocTypeOK'
<1> SUFFICES ASSUME FocTypeOK, [Next]_vars PROVE FocTypeOK'
    OBVIOUS
<1> USE DEF FocTypeOK, ring
<1>1. CASE Control
  <2>1. PICK e \in Errors, x \in Telemetry :
           /\ PidUpdate(e)
           /\ offer' = [torque |-> Output(e), soc |-> x.soc, rpm |-> x.rpm]
           /\ outgoing' = Pack(Output(e), x.soc, x.rpm)
      BY <1>1 DEF Control
  <2>2. e \in Int /\ x = [soc |-> x.soc, rpm |-> x.rpm] /\ x.soc \in Byte /\ x.rpm \in Word
      BY InputAssumption
  <2>3. /\ Integrate(e) \in -IntLimit .. IntLimit
        /\ Output(e) \in -CLAMP .. CLAMP
      BY <2>2, UpdateTypes, LimitTypes
  <2>4. outgoing' \in Frames
      BY <2>1, <2>2, <2>3, RoundTrip, GainAssumption
  <2>5. integrator' \in -IntLimit .. IntLimit /\ prevError' \in Int
      BY <2>1, <2>2, <2>3 DEF PidUpdate
  <2> QED
      BY <1>1, <2>1, <2>2, <2>3, <2>4, <2>5 DEF Control
<1>2. CASE Reset
    BY <1>2, LimitTypes DEF Reset, PidReset, busVars
<1>3. CASE Transmit
  <2>1. CASE SendCheck
      BY <1>3, <2>1 DEF Transmit, SendCheck, pid
  <2>2. CASE SendStore
      BY <1>3, <2>2 DEF Transmit, SendStore, pid
  <2>3. CASE SendPublish
      BY <1>3, <2>3, Succession DEF Transmit, SendPublish, pid
  <2> QED
      BY <1>3, <2>1, <2>2, <2>3 DEF Transmit, Send
<1>4. CASE Receive
  <2> USE DEF pid
  <2>1. CASE RecvCheck /\ UNCHANGED got
      BY <1>4, <2>1 DEF Receive, RecvCheck
  <2>2. CASE RecvCopy /\ UNCHANGED got
      BY <1>4, <2>2 DEF Receive, RecvCopy
  <2>3. CASE RecvAdvance /\ got' = Unpack(incoming)
      BY <1>4, <2>3, Succession, UnpackTypes DEF Receive, RecvAdvance
  <2> QED
      BY <1>4, <2>1, <2>2, <2>3 DEF Receive
<1>5. CASE UNCHANGED vars
    BY <1>5 DEF vars, busVars, pid
<1> QED
    BY <1>1, <1>2, <1>3, <1>4, <1>5 DEF Next

\* The variables keep their types, and the controller's output and its
\* integral term stay within the clamp, for any gains and any errors.
THEOREM FocTypes == Spec => []FocTypeOK
  BY InitFoc, TypesStep, PTL DEF Spec
-----------------------------------------------------------------------------
(* Anti-windup.                                                            *)

LEMMA WindupStep ==
  ASSUME FocTypeOK, Control
  PROVE  LET pd == KP * prevError' + KD * (prevError' - prevError)
         IN  /\ pd >= CLAMP  => offer'.torque >= 0
             /\ pd <= -CLAMP => offer'.torque <= 0
<1>1. PICK e \in Errors, x \in Telemetry :
         /\ PidUpdate(e)
         /\ offer' = [torque |-> Output(e), soc |-> x.soc, rpm |-> x.rpm]
    BY DEF Control
<1>2. e \in Int /\ integrator \in Int /\ prevError \in Int
    BY InputAssumption, LimitTypes DEF FocTypeOK
<1> DEFINE i == KI * Integrate(e)
           pd == PD(e)
<1>3. pd \in Int /\ i \in -CLAMP .. CLAMP
    BY <1>2, UpdateTypes
<1>4. prevError' = e /\ offer'.torque = Clamp(pd + i, CLAMP)
    BY <1>1 DEF PidUpdate, Output
<1>5. KP * prevError' + KD * (prevError' - prevError) = pd
    BY <1>4 DEF PD
<1> HIDE DEF i, pd
<1>6. /\ pd >= CLAMP => Clamp(pd + i, CLAMP) >= 0
      /\ pd <= -CLAMP => Clamp(pd + i, CLAMP) <= 0
    BY <1>3, GainAssumption DEF Clamp
<1> QED
    BY <1>4, <1>5, <1>6

\* Whatever the integrator has collected, a sample whose other terms ask
\* for full output is not answered with the opposite sign, for any gains.
THEOREM FocAntiWindup == Spec => AntiWindup
<1>1. FocTypeOK /\ [Next]_vars =>
        [sender = "control" /\ sender' = "send" =>
            LET pd == KP * prevError' + KD * (prevError' - prevError)
            IN  /\ pd >= CLAMP  => offer'.torque >= 0
                /\ pd <= -CLAMP => offer'.torque <= 0]_vars
  <2> SUFFICES ASSUME FocTypeOK, [Next]_vars, sender = "control", sender' = "send"
               PROVE  LET pd == KP * prevError' + KD * (prevError' - prevError)
                      IN  /\ pd >= CLAMP  => offer'.torque >= 0
                          /\ pd <= -CLAMP => offer'.torque <= 0
      OBVIOUS
  <2>1. Control
      BY DEF Next, Reset, Transmit, Send, SendCheck, SendStore, SendPublish, Receive,
             RecvCheck, RecvCopy, RecvAdvance, vars, busVars
  <2> QED
      BY <2>1, WindupStep
<1> QED
    BY <1>1, FocTypes, PTL DEF Spec, AntiWindup
-----------------------------------------------------------------------------
(* The channel.                                                            *)

\* What each side has found out stays true until it acts on it, whatever the
\* other side does: the ring has a frame for the receiver and a free slot
\* for the sender, and the frames in the hand are the ones they stand for.
ChannelInv ==
    /\ receiver \in {"copy", "advance"} => head # tail
    /\ receiver = "advance" => incoming = frames[tail]
    /\ sender \in {"store", "publish"} => Succ(head) # tail
    /\ sender = "publish" => frames[head] = outgoing
    /\ sender # "control" => outgoing = Pack(offer.torque, offer.soc, offer.rpm)

LEMMA InitChannel == Init => ChannelInv
  BY DEF Init, BusInit, ChannelInv

LEMMA ChannelStep == FocTypeOK /\ ChannelInv /\ [Next]_vars => ChannelInv'
<1> SUFFICES ASSUME FocTypeOK, ChannelInv, [Next]_vars PROVE ChannelInv'
    OBVIOUS
<1> USE DEF ChannelInv, ring
<1>0. head \in Slots /\ tail \in Slots /\ frames \in [Slots -> Frames]
    BY DEF FocTypeOK
<1>1. CASE Control
  <2>1. PICK e \in Errors, x \in Telemetry :
           /\ offer' = [torque |-> Output(e), soc |-> x.soc, rpm |-> x.rpm]
           /\ outgoing' = Pack(Output(e), x.soc, x.rpm)
      BY <1>1 DEF Control
  <2>2. outgoing' = Pack(offer'.torque, offer'.soc, offer'.rpm)
      BY <2>1
  <2> QED
      BY <1>1, <2>2 DEF Control
<1>2. CASE Reset
    BY <1>2 DEF Reset, busVars, Succ
<1>3. CASE Transmit
  <2>1. CASE SendCheck
      BY <1>3, <2>1 DEF Transmit, SendCheck, Succ
  <2>2. CASE SendStore
      BY <1>0, <1>3, <2>2 DEF Transmit, SendStore, Succ
  <2>3. CASE SendPublish
      BY <1>0, <1>3, <2>3 DEF Transmit, SendPublish
  <2> QED
      BY <1>3, <2>1, <2>2, <2>3 DEF Transmit, Send
<1>4. CASE Receive
  <2>1. CASE RecvCheck /\ UNCHANGED got
      BY <1>4, <2>1 DEF Receive, RecvCheck, Succ
  <2>2. CASE RecvCopy /\ UNCHANGED got
      BY <1>4, <2>2 DEF Receive, RecvCopy, Succ
  <2>3. CASE RecvAdvance /\ got' = Unpack(incoming)
    <3>1. /\ receiver = "advance" /\ receiver' = "poll"
          /\ tail' = Succ(tail) /\ UNCHANGED <<frames, head, sender, outgoing, offer>>
        BY <1>4, <2>3 DEF Receive, RecvAdvance
    <3>2. Succ(head) # Succ(tail)
        BY <1>0, <3>1, Succession, DepthAssumption DEF Slots
    <3>3. Succ(head)' = Succ(head)
        BY <3>1 DEF Succ
    <3> QED
        BY <3>1, <3>2, <3>3
  <2> QED
      BY <1>4, <2>1, <2>2, <2>3 DEF Receive
<1>5. CASE UNCHANGED vars
    BY <1>5 DEF vars, busVars, Succ
<1> QED
    BY <1>1, <1>2, <1>3, <1>4, <1>5 DEF Next

ReadingTypes == [torque : SignedWord, soc : Byte, rpm : Word]

\* What the channel's queue is: the frames from slot tail on.
LEMMA ReadingsAre ==
  ASSUME FocTypeOK
  PROVE  /\ Occupied = IF head >= tail THEN head - tail ELSE head - tail + DEPTH
         /\ Occupied \in 0 .. DEPTH - 1
         /\ Readings \in Seq(ReadingTypes) /\ Len(Readings) = Occupied
         /\ \A k \in 1 .. Occupied : Readings[k] = Unpack(frames[Mask(tail + k - 1)])
<1>0. head \in Slots /\ tail \in Slots /\ frames \in [Slots -> Frames]
    BY DEF FocTypeOK
<1>1. Occupied = IF head >= tail THEN head - tail ELSE head - tail + DEPTH
    BY <1>0, Distance DEF Occupied
<1>2. Occupied \in 0 .. DEPTH - 1
    BY <1>0, <1>1, DepthAssumption DEF Slots
<1>3. \A k \in 1 .. Occupied : Readings[k] = Unpack(frames[Mask(tail + k - 1)])
    BY DEF Readings, Contents
<1>4. \A k \in 1 .. Occupied : Readings[k] \in ReadingTypes
  <2>1. \A f \in Frames : Unpack(f) \in ReadingTypes
    <3> TAKE f \in Frames
    <3> QED
        BY UnpackTypes DEF Unpack, ReadingTypes
  <2> TAKE k \in 1 .. Occupied
  <2>2. Mask(tail + k - 1) \in Slots
      BY <1>0, <1>2, SlotAt, DepthAssumption
  <2> QED
      BY <1>0, <1>3, <2>1, <2>2
<1> HIDE DEF Occupied
<1>5. Readings \in [1 .. Occupied -> ReadingTypes]
    BY <1>4 DEF Readings
<1>6. Readings \in Seq(ReadingTypes)
    BY <1>2, <1>5, SeqDef
<1>7. Len(Readings) = Occupied
    BY <1>2, <1>5, <1>6, LenProperties
<1> QED
    BY <1>1, <1>2, <1>3, <1>6, <1>7

LEMMA ReadingsLength == FocTypeOK => Readings \in Seq(ReadingTypes) /\ Len(Readings) = Occupied
  BY ReadingsAre

LEMMA ReadingsLengthNext ==
  FocTypeOK' => Readings' \in Seq(ReadingTypes) /\ Len(Readings') = Occupied'
<1>1. (FocTypeOK => Readings \in Seq(ReadingTypes) /\ Len(Readings) = Occupied)'
    BY ReadingsLength, PTL
<1> QED
    BY <1>1 DEF ReadingTypes, SignedWord, Byte, Word

LEMMA ChannelStarts == Init => Channel!Init
<1> SUFFICES ASSUME Init PROVE Channel!Init
    OBVIOUS
<1>1. FocTypeOK
    BY InitFoc
<1>2. Occupied = 0
    BY <1>1, ReadingsAre DEF Init, BusInit
<1>3. Readings = <<>>
    BY <1>1, <1>2, ReadingsAre, EmptySeq
<1>4. offer.torque = 0 /\ got = Unpack(NoFrame) /\ ~(sender # "control")
    BY DEF Init, BusInit
<1> QED
    BY <1>3, <1>4 DEF Channel!Init

\* The queue does not change while the indices stand still and only the
\* free slot is written.
LEMMA Untouched ==
  ASSUME FocTypeOK, FocTypeOK', UNCHANGED <<head, tail>>,
         \A i \in Slots : i # head => frames'[i] = frames[i]
  PROVE  Readings' = Readings
<1>1. Occupied' = Occupied
    BY DEF Occupied
<1>2. \A k \in 1 .. Occupied : /\ Mask(tail + k - 1) \in Slots
                               /\ Mask(tail + k - 1) # head
  <2> TAKE k \in 1 .. Occupied
  <2>1. head \in Slots /\ tail \in Slots /\ k \in 1 .. DEPTH
      BY ReadingsAre, DepthAssumption DEF FocTypeOK
  <2> DEFINE s == Mask(tail + k - 1)
  <2>2. /\ s = IF tail + k - 1 < DEPTH THEN tail + k - 1 ELSE tail + k - 1 - DEPTH
        /\ s \in Slots
      BY <2>1, SlotAt
  <2> HIDE DEF s
  <2>3. /\ k <= IF head >= tail THEN head - tail ELSE head - tail + DEPTH
        /\ k \in Int /\ k >= 1
      BY <2>1, ReadingsAre
  <2>4. s # head
      BY <2>1, <2>2, <2>3, DepthAssumption DEF Slots
  <2> QED
      BY <2>2, <2>4 DEF s
<1>3. \A k \in 1 .. Occupied : Readings'[k] = Readings[k]
    BY <1>1, <1>2, ReadingsAre DEF Readings, Contents
<1> QED
    BY <1>1, <1>3 DEF Readings

\* CanBus_send stores and publishes: the frame joins the queue.
LEMMA PublishPuts ==
  ASSUME FocTypeOK, FocTypeOK', ChannelInv, Transmit, SendPublish
  PROVE  Channel!Put
<1>1. /\ sender = "publish" /\ sender' = "control" /\ head' = Succ(head)
      /\ UNCHANGED <<frames, tail, outgoing, offer, got>>
    BY DEF Transmit, SendPublish
<1>2. head \in Slots /\ tail \in Slots /\ Succ(head) # tail
    BY <1>1 DEF FocTypeOK, ChannelInv
<1>3. Occupied < DEPTH - 1 /\ Occupied' = Occupied + 1
  <2>1. /\ Occupied = IF head >= tail THEN head - tail ELSE head - tail + DEPTH
        /\ Occupied' = IF head' >= tail THEN head' - tail ELSE head' - tail + DEPTH
      BY <1>1, ReadingsAre, Distance DEF Occupied, FocTypeOK
  <2>2. head' = IF head = DEPTH - 1 THEN 0 ELSE head + 1
      BY <1>1, <1>2, Succession
  <2> QED
      BY <1>1, <1>2, <2>1, <2>2, DepthAssumption DEF Slots
<1>4. Len(Readings') = Len(Readings) + 1 /\ Len(Readings) = Occupied
    BY <1>3, ReadingsAre, ReadingsLengthNext
<1>5. \A k \in 1 .. Len(Readings) : Readings'[k] = Readings[k]
    BY <1>1, <1>3, <1>4, ReadingsAre DEF Readings, Contents
<1>6. Readings'[Occupied + 1] = Unpack(outgoing)
  <2>1. Mask(tail + (Occupied + 1) - 1) = head
    <3> DEFINE k == Occupied + 1
    <3>1. k \in 1 .. DEPTH
        BY <1>3, ReadingsAre, DepthAssumption
    <3> HIDE DEF k
    <3>2. Mask(tail + k - 1) = IF tail + k - 1 < DEPTH THEN tail + k - 1 ELSE tail + k - 1 - DEPTH
        BY <1>2, <3>1, SlotAt
    <3>3. k = 1 + IF head >= tail THEN head - tail ELSE head - tail + DEPTH
        BY <1>2, ReadingsAre DEF Slots, k
    <3>4. Mask(tail + k - 1) = head
        BY <1>2, <3>2, <3>3, DepthAssumption DEF Slots
    <3> QED
        BY <3>4 DEF k
  <2>2. Readings'[Occupied + 1] = Unpack(frames[Mask(tail + (Occupied + 1) - 1)])
      BY <1>1, <1>3, ReadingsAre DEF Readings, Contents
  <2> QED
      BY <1>1, <2>1, <2>2 DEF ChannelInv
<1>7. Channel!Renders(Readings'[Occupied + 1], offer)
  <2>1. offer.torque \in Int /\ offer.soc \in Byte /\ offer.rpm \in Word
      BY InputAssumption, GainAssumption DEF FocTypeOK
  <2>2. Channel!Nearest(offer.torque) = ClampTorque(offer.torque)
      BY DEF Channel!Nearest, ClampTorque
  <2>3. outgoing = Pack(offer.torque, offer.soc, offer.rpm)
      BY <1>1 DEF ChannelInv
  <2> QED
      BY <1>6, <2>1, <2>2, <2>3, RoundTrip DEF Channel!Renders, LSB
<1> QED
    BY <1>1, <1>3, <1>4, <1>5, <1>7 DEF Channel!Put

\* CanBus_recv advances: the oldest reading leaves the queue.
LEMMA AdvanceGets ==
  ASSUME FocTypeOK, FocTypeOK', ChannelInv, Receive, RecvAdvance, got' = Unpack(incoming)
  PROVE  Channel!Get
<1>1. /\ receiver = "advance" /\ tail' = Succ(tail)
      /\ UNCHANGED <<frames, head, sender, offer>>
    BY DEF Receive, RecvAdvance
<1>2. head \in Slots /\ tail \in Slots /\ head # tail /\ incoming = frames[tail]
    BY <1>1 DEF FocTypeOK, ChannelInv
<1>3. Occupied > 0 /\ Occupied' = Occupied - 1
  <2>1. /\ Occupied = IF head >= tail THEN head - tail ELSE head - tail + DEPTH
        /\ Occupied' = IF head >= tail' THEN head - tail' ELSE head - tail' + DEPTH
      BY <1>1, ReadingsAre, Distance DEF Occupied, FocTypeOK
  <2>2. tail' = IF tail = DEPTH - 1 THEN 0 ELSE tail + 1
      BY <1>1, <1>2, Succession
  <2> QED
      BY <1>1, <1>2, <2>1, <2>2, DepthAssumption DEF Slots
<1>4. /\ Readings \in Seq(ReadingTypes) /\ Len(Readings) = Occupied
      /\ Readings' \in Seq(ReadingTypes) /\ Len(Readings') = Occupied - 1
    BY <1>3, ReadingsAre, ReadingsLengthNext
<1>5. Readings # <<>>
    BY <1>3, <1>4, EmptySeq
<1>6. Head(Readings) = Unpack(incoming)
  <2>1. Mask(tail + 1 - 1) = tail
      BY <1>2, SlotAt, DepthAssumption DEF Slots
  <2>2. Readings[1] = Unpack(frames[Mask(tail + 1 - 1)])
      BY <1>3, ReadingsAre
  <2> QED
      BY <1>2, <1>4, <1>5, <2>1, <2>2, HeadTailProperties
<1>7. \A k \in 1 .. Occupied - 1 : Readings'[k] = Readings[k + 1]
  <2> TAKE k \in 1 .. Occupied - 1
  <2>1. Readings'[k] = Unpack(frames[Mask(tail' + k - 1)])
      BY <1>1, <1>3, ReadingsAre DEF Readings, Contents
  <2>2. Readings[k + 1] = Unpack(frames[Mask(tail + (k + 1) - 1)])
      BY <1>3, ReadingsAre
  <2>3. Mask(tail' + k - 1) = Mask(tail + (k + 1) - 1)
    <3>1. k \in 1 .. DEPTH /\ k + 1 \in 1 .. DEPTH
        BY ReadingsAre, DepthAssumption
    <3>2. tail' \in Slots /\ tail' = IF tail = DEPTH - 1 THEN 0 ELSE tail + 1
        BY <1>1, <1>2, Succession
    <3> QED
        BY <1>2, <3>1, <3>2, SlotAt, DepthAssumption DEF Slots
  <2> QED
      BY <2>1, <2>2, <2>3
<1>8. Readings' = Tail(Readings)
  <2>1. /\ Tail(Readings) \in Seq(ReadingTypes) /\ Len(Tail(Readings)) = Occupied - 1
        /\ \A k \in 1 .. Occupied - 1 : Tail(Readings)[k] = Readings[k + 1]
      BY <1>4, <1>5, HeadTailProperties
  <2> QED
      BY <1>4, <1>7, <2>1, SeqEqual
<1> QED
    BY <1>1, <1>5, <1>6, <1>8 DEF Channel!Get

LEMMA ChannelRefines ==
  FocTypeOK /\ FocTypeOK' /\ ChannelInv /\ [Next]_vars => [Channel!Next]_Channel!vars
<1> SUFFICES ASSUME FocTypeOK, FocTypeOK', ChannelInv, [Next]_vars
             PROVE  [Channel!Next]_Channel!vars
    OBVIOUS
<1> USE DEF ring
<1>1. CASE Control
  <2>1. /\ sender = "control" /\ sender' = "send"
        /\ UNCHANGED <<frames, head, tail, got>>
      BY <1>1 DEF Control
  <2>2. Readings' = Readings
      BY <2>1, Untouched
  <2>3. Channel!Offer
      BY <2>1, <2>2 DEF Channel!Offer, FocTypeOK
  <2> QED
      BY <2>3 DEF Channel!Next
<1>2. CASE Reset
  <2>1. UNCHANGED <<frames, head, tail, sender, offer, got>>
      BY <1>2 DEF Reset, busVars
  <2>2. Readings' = Readings
      BY <2>1, Untouched
  <2> QED
      BY <2>1, <2>2 DEF Channel!vars
<1>3. CASE Transmit
  <2>0. UNCHANGED <<offer, got>>
      BY <1>3 DEF Transmit
  <2>1. CASE SendCheck
    <3>1. sender = "send" /\ UNCHANGED <<frames, head, tail>>
        BY <2>1 DEF SendCheck
    <3>2. Readings' = Readings
        BY <3>1, Untouched
    <3>3. CASE Succ(head) = tail
      <4>1. Occupied = DEPTH - 1
        <5>1. head \in Slots /\ tail \in Slots
            BY DEF FocTypeOK
        <5>2. tail = IF head = DEPTH - 1 THEN 0 ELSE head + 1
            BY <3>3, <5>1, Succession
        <5>3. Occupied = IF head >= tail THEN head - tail ELSE head - tail + DEPTH
            BY ReadingsAre
        <5> QED
            BY <5>1, <5>2, <5>3, DepthAssumption DEF Slots
      <4>2. sender' = "control" /\ Len(Readings) = DEPTH - 1
          BY <2>1, <3>3, <4>1, ReadingsAre DEF SendCheck
      <4> QED
          BY <2>0, <3>1, <3>2, <4>2 DEF Channel!Next, Channel!Refuse
    <3>4. CASE Succ(head) # tail
        BY <2>0, <2>1, <3>1, <3>2, <3>4 DEF SendCheck, Channel!vars
    <3> QED
        BY <3>3, <3>4
  <2>2. CASE SendStore
    <3>1. /\ sender = "store" /\ sender' = "publish" /\ UNCHANGED <<head, tail>>
          /\ frames' = [frames EXCEPT ![head] = outgoing]
        BY <2>2 DEF SendStore
    <3>2. Readings' = Readings
        BY <3>1, Untouched DEF FocTypeOK
    <3> QED
        BY <2>0, <3>1, <3>2 DEF Channel!vars
  <2>3. CASE SendPublish
      BY <1>3, <2>3, PublishPuts DEF Channel!Next
  <2> QED
      BY <1>3, <2>1, <2>2, <2>3 DEF Transmit, Send
<1>4. CASE Receive
  <2>0. UNCHANGED <<sender, offer>>
      BY <1>4 DEF Receive
  <2>1. CASE RecvCheck /\ UNCHANGED got
    <3>1. UNCHANGED <<frames, head, tail, got>>
        BY <2>1 DEF RecvCheck
    <3>2. Readings' = Readings
        BY <3>1, Untouched
    <3> QED
        BY <2>0, <3>1, <3>2 DEF Channel!vars
  <2>2. CASE RecvCopy /\ UNCHANGED got
    <3>1. UNCHANGED <<frames, head, tail, got>>
        BY <2>2 DEF RecvCopy
    <3>2. Readings' = Readings
        BY <3>1, Untouched
    <3> QED
        BY <2>0, <3>1, <3>2 DEF Channel!vars
  <2>3. CASE RecvAdvance /\ got' = Unpack(incoming)
      BY <1>4, <2>3, AdvanceGets DEF Channel!Next
  <2> QED
      BY <1>4, <2>1, <2>2, <2>3 DEF Receive
<1>5. CASE UNCHANGED vars
  <2>1. UNCHANGED <<frames, head, tail, sender, offer, got>>
      BY <1>5 DEF vars, busVars
  <2>2. Readings' = Readings
      BY <2>1, Untouched
  <2> QED
      BY <2>1, <2>2 DEF Channel!vars
<1> QED
    BY <1>1, <1>2, <1>3, <1>4, <1>5 DEF Next

\* For any depth of the ring the bus and the codec are a channel: readings
\* arrive in order, each once and within one LSB, and a send is refused
\* only when DEPTH - 1 frames wait.
THEOREM FocChannel == Spec => ImplementsChannel
<1>1. Spec => []ChannelInv
    BY InitFoc, TypesStep, InitChannel, ChannelStep, PTL DEF Spec
<1> QED
    BY <1>1, FocTypes, ChannelStarts, ChannelRefines, PTL
       DEF Spec, ImplementsChannel, Channel!Spec
-----------------------------------------------------------------------------
(* The transforms (transforms.c).                                          *)

\* Both series are only ever evaluated in [0, pi/4], where they were made
\* for, whatever the angle (sin_approx).
THEOREM SeriesRange ==
  ASSUME NEW x \in Int
  PROVE  Argument(x) \in Int /\ 0 <= Argument(x) /\ Argument(x) <= PI_OVER_4
<1>1. Wrapped(x) \in Int /\ 0 <= Wrapped(x) /\ Wrapped(x) < 411775
    BY SMT DEF Wrapped, TWO_PI
<1>2. Half(x) \in Int /\ 0 <= Half(x) /\ Half(x) <= 205887
    BY <1>1 DEF Half, Negative, PI
<1>3. Folded(x) \in Int /\ 0 <= Folded(x) /\ Folded(x) <= 102944
    BY <1>2 DEF Folded, PI, PI_OVER_2
<1> QED
    BY <1>3 DEF Argument, PI_OVER_2, PI_OVER_4

\* Park's two angles need at most one turn of sin_approx's loops: the sine's
\* none, the cosine's one addition.
THEOREM ParkAngles ==
  ASSUME NEW ticks \in Int, 0 <= ticks, ticks < 65536
  PROVE  /\ Theta(ticks) \in Int /\ 0 <= Theta(ticks) /\ Theta(ticks) < TWO_PI
         /\ -TWO_PI <= CosArgument(Theta(ticks)) /\ CosArgument(Theta(ticks)) < TWO_PI
<1> DEFINE n == ticks * 411775
<1>1. n \in Int /\ 0 <= n /\ n < 65536 * 411775
    BY SMT
<1>2. Theta(ticks) = n \div 65536
    BY DEF Theta, TWO_PI
<1> HIDE DEF n
<1>3. Theta(ticks) \in Int /\ 0 <= Theta(ticks) /\ Theta(ticks) < 411775
    BY <1>1, <1>2, SMT
<1> QED
    BY <1>3 DEF CosArgument, TWO_PI, PI_OVER_2

\* The division by sqrt(3) loses less than one LSB (FOC_clarke, REQ-001).
THEOREM ClarkeRounding ==
  ASSUME NEW a \in Int, NEW b \in Int
  PROVE  /\ ClarkeBeta(a, b) \in Int
         /\ SQRT3 * ClarkeBeta(a, b) - (a + 2 * b) * 65536 < SQRT3
         /\ SQRT3 * ClarkeBeta(a, b) - (a + 2 * b) * 65536 > -SQRT3
<1>1. ASSUME NEW n \in Int
      PROVE  /\ n \div 113512 \in Int
             /\ 113512 * (n \div 113512) <= n /\ n < 113512 * (n \div 113512) + 113512
    BY SMT
<1> DEFINE n == (a + 2 * b) * 65536
<1>2. n \in Int /\ -n \in Int
    BY SMT
<1>3. ClarkeBeta(a, b) = Quotient(n, SQRT3)
    BY DEF ClarkeBeta
<1> HIDE DEF n
<1>4. CASE n >= 0
    BY <1>1, <1>2, <1>3, <1>4 DEF Quotient, SQRT3, n
<1>5. CASE n < 0
    BY <1>1, <1>2, <1>3, <1>5 DEF Quotient, SQRT3, n
<1> QED
    BY <1>2, <1>4, <1>5

\* Narrowing beta to 32 bits loses nothing while both currents are below
\* 8192 A (FOC_clarke's cast to q16_t).
THEOREM ClarkeFits ==
  ASSUME NEW a \in Int, NEW b \in Int,
         -536870912 < a, a < 536870912, -536870912 < b, b < 536870912
  PROVE  -2147483648 <= ClarkeBeta(a, b) /\ ClarkeBeta(a, b) <= 2147483647
<1> DEFINE c == ClarkeBeta(a, b)
<1>1. /\ c \in Int
      /\ 113512 * c - (a + 2 * b) * 65536 < 113512
      /\ 113512 * c - (a + 2 * b) * 65536 > -113512
    BY ClarkeRounding DEF SQRT3
<1> HIDE DEF c
<1>2. -2147483648 <= c /\ c <= 2147483647
    BY <1>1, SMT
<1> QED
    BY <1>2 DEF c

\* A product with a factor from 0 to 1.0 is no larger than the other factor.
LEMMA Shrinks ==
  ASSUME NEW a \in Nat, NEW b \in Nat, b <= 65536
  PROVE  Mul(a, b) \in Nat /\ Mul(a, b) <= a
<1>1. a * b \in Nat
    BY SMT
<1>2. a * b <= a * 65536
    BY Monotonic, SMT
<1> DEFINE n == a * b
<1>3. n \in Nat /\ n <= a * 65536
    BY <1>1, <1>2
<1>4. Mul(a, b) = n \div 65536
    BY DEF Mul
<1> HIDE DEF n
<1> QED
    BY <1>3, <1>4, SMT

LEMMA SinRawRange ==
  ASSUME NEW x \in Nat, x <= 51472
  PROVE  SinRaw(x) \in Int /\ 0 <= SinRaw(x) /\ SinRaw(x) <= 65536
<1> DEFINE x2 == Mul(x, x)
           x3 == Mul(x2, x)
           x5 == Mul(x3, x2)
           x7 == Mul(x5, x2)
<1>0. x \in Nat /\ x <= 51472
    OBVIOUS
<1>1. x2 \in Nat /\ x2 <= x
    BY <1>0, Shrinks, SMT
<1>2. SinRaw(x) = x - (x3 \div 6) + (x5 \div 120) - (x7 \div 5040)
    BY DEF SinRaw
<1> HIDE DEF x2
<1>3. x3 \in Nat /\ x3 <= x2
    BY <1>0, <1>1, Shrinks, SMT
<1> HIDE DEF x3
<1>4. x5 \in Nat /\ x5 <= x3
    BY <1>0, <1>1, <1>3, Shrinks, SMT
<1> HIDE DEF x5
<1>5. x7 \in Nat /\ x7 <= x5
    BY <1>0, <1>1, <1>4, Shrinks, SMT
<1> HIDE DEF x7
<1> QED
    BY <1>0, <1>1, <1>2, <1>3, <1>4, <1>5, SMT

LEMMA CosRawRange ==
  ASSUME NEW x \in Nat, x <= 51472
  PROVE  CosRaw(x) \in Int /\ 0 <= CosRaw(x) /\ CosRaw(x) <= 65536
<1> DEFINE x2 == Mul(x, x)
           x4 == Mul(x2, x2)
           x6 == Mul(x4, x2)
<1>0. x \in Nat /\ x <= 51472
    OBVIOUS
<1>1. x2 \in Nat /\ x2 <= x
    BY <1>0, Shrinks, SMT
<1>2. CosRaw(x) = 65536 - (x2 \div 2) + (x4 \div 24) - (x6 \div 720)
    BY DEF CosRaw
<1> HIDE DEF x2
<1>3. x4 \in Nat /\ x4 <= x2
    BY <1>0, <1>1, Shrinks, SMT
<1> HIDE DEF x4
<1>4. x6 \in Nat /\ x6 <= x4
    BY <1>0, <1>1, <1>3, Shrinks, SMT
<1> HIDE DEF x6
<1> QED
    BY <1>0, <1>1, <1>2, <1>3, <1>4, SMT

\* Neither sine nor cosine ever passes 1.0, although the two series are cut
\* off and their terms rounded (sin_approx, cos_approx).
THEOREM SineBounded ==
  ASSUME NEW x \in Int
  PROVE  Sine(x) \in Int /\ -65536 <= Sine(x) /\ Sine(x) <= 65536
<1>1. Argument(x) \in Nat /\ Argument(x) <= 51472
    BY SeriesRange, SMT DEF PI_OVER_4
<1>2. Magnitude(x) \in Int /\ 0 <= Magnitude(x) /\ Magnitude(x) <= 65536
    BY <1>1, SinRawRange, CosRawRange DEF Magnitude
<1> QED
    BY <1>2, SMT DEF Sine

\* A factor of at most 1.0 does not enlarge a number.
LEMMA Rotated ==
  ASSUME NEW c \in Int, -65536 <= c, c <= 65536, NEW a \in Int, NEW m \in Nat, -m <= a, a <= m
  PROVE  Mul(c, a) \in Int /\ -m <= Mul(c, a) /\ Mul(c, a) <= m
<1> DEFINE n == c * a
<1>1. Mul(c, a) = n \div 65536 /\ n \in Int
    BY DEF Mul
<1>2. CASE a >= 0
  <2>1. a * c <= a * 65536 /\ a * (-65536) <= a * c
      BY <1>2, Monotonic, SMT
  <2>2. n <= a * 65536 /\ a * (-65536) <= n
      BY <2>1, SMT
  <2> HIDE DEF n
  <2> QED
      BY <1>1, <1>2, <2>2, SMT
<1>3. CASE a < 0
  <2>1. (-a) * c <= (-a) * 65536 /\ (-a) * (-65536) <= (-a) * c
      BY <1>3, Monotonic, SMT
  <2>2. n <= (-a) * 65536 /\ (-a) * (-65536) <= n
      BY <2>1, SMT
  <2> HIDE DEF n
  <2> QED
      BY <1>1, <1>3, <2>2, SMT
<1> QED
    BY <1>2, <1>3, SMT

\* What a q16_t holds, and a current or a voltage below 16384.
Q16(x)   == x \in Int /\ -2147483648 <= x /\ x <= 2147483647
Below(x) == x \in Int /\ -1073741823 <= x /\ x <= 1073741823

LEMMA SumFits ==
  ASSUME NEW x, NEW y, Below(x), Below(y)
  PROVE  Q16(x + y) /\ Q16(x - y)
BY SMT DEF Below, Q16

LEMMA RotatedBelow ==
  ASSUME NEW c \in Int, -65536 <= c, c <= 65536, NEW a, Below(a)
  PROVE  Below(Mul(c, a))
<1>1. \E m \in Nat : m = 1073741823
    BY SMT
<1>2. PICK m \in Nat : m = 1073741823
    BY <1>1
<1>3. a \in Int /\ -m <= a /\ a <= m
    BY <1>2, SMT DEF Below
<1>4. Mul(c, a) \in Int /\ -m <= Mul(c, a) /\ Mul(c, a) <= m
    BY <1>3, Rotated, SMT
<1> QED
    BY <1>2, <1>4, SMT DEF Below

\* Whatever the encoder reads, neither Park transform overflows its 32 bits
\* while the two components are below 16384 A or V (FOC_park, FOC_inv_park;
\* REQ-002).
THEOREM RotationFits ==
  ASSUME NEW a, NEW b, Below(a), Below(b), NEW ticks \in Int, 0 <= ticks, ticks < 65536
  PROVE  /\ Q16(Park(a, b, ticks).d) /\ Q16(Park(a, b, ticks).q)
         /\ Q16(InvPark(a, b, ticks).alpha) /\ Q16(InvPark(a, b, ticks).beta)
<1> DEFINE c == Cosine(Theta(ticks))
           s == Sine(Theta(ticks))
<1>1. Theta(ticks) \in Int /\ CosArgument(Theta(ticks)) \in Int
    BY ParkAngles, SMT DEF CosArgument, PI_OVER_2
<1>2. c \in Int /\ -65536 <= c /\ c <= 65536 /\ s \in Int /\ -65536 <= s /\ s <= 65536
    BY <1>1, SineBounded DEF Cosine
<1>3. /\ Park(a, b, ticks) = [d |-> Mul(c, a) + Mul(s, b), q |-> Mul(-s, a) + Mul(c, b)]
      /\ InvPark(a, b, ticks) = [alpha |-> Mul(c, a) - Mul(s, b), beta |-> Mul(s, a) + Mul(c, b)]
    BY DEF Park, InvPark
<1> HIDE DEF c, s
<1>4. -s \in Int /\ -65536 <= -s /\ -s <= 65536
    BY <1>2, SMT
<1>5. /\ Below(Mul(c, a)) /\ Below(Mul(c, b)) /\ Below(Mul(s, a)) /\ Below(Mul(s, b))
      /\ Below(Mul(-s, a))
    BY <1>2, <1>4, RotatedBelow, SMT
<1>6. /\ Q16(Mul(c, a) + Mul(s, b)) /\ Q16(Mul(-s, a) + Mul(c, b))
      /\ Q16(Mul(c, a) - Mul(s, b)) /\ Q16(Mul(s, a) + Mul(c, b))
    BY <1>5, SumFits
<1> QED
    BY <1>3, <1>6

\* The third phase balances the other two to within one LSB, and nothing
\* overflows below 8192 V (FOC_inv_clarke).
THEOREM ThirdPhase ==
  ASSUME NEW a \in Int, NEW b \in Int,
         -536870912 < a, a < 536870912, -536870912 < b, b < 536870912
  PROVE  LET m == Mul(SQRT3, b)
             vc == InvClarke(a, b).vc
         IN  /\ -2147483648 <= m - a /\ m - a <= 2147483647
             /\ 2 * vc - (-a - m) \in 0 .. 1
             /\ -2147483648 <= vc /\ vc <= 2147483647
<1> DEFINE m == Mul(SQRT3, b)
           vb == (m - a) \div 2
<1>1. m \in Int /\ -929944511 <= m /\ m <= 929944511
    BY SMT DEF Mul, SQRT3
<1>2. InvClarke(a, b).vc = -a - vb
    BY DEF InvClarke
<1> HIDE DEF m
<1>3. vb \in Int /\ 2 * vb <= m - a /\ m - a <= 2 * vb + 1
    BY <1>1, SMT
<1> HIDE DEF vb
<1> QED
    BY <1>1, <1>2, <1>3, SMT DEF m
=============================================================================
