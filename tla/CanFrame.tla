------------------------------ MODULE CanFrame ------------------------------
(***************************************************************************)
(* The TPDO1 frame of the motor node (bare_metal_foc/src/can_frame.c):     *)
(* torque in Q8.8, state of charge and speed, split into bytes.            *)
(*                                                                         *)
(* A torque is an integer in steps of 1/512 Nm, half of the frame's        *)
(* resolution, so that the truncation shows.  Null pointers and the        *)
(* constant fields (id, dlc, the reserved bytes) are left out.             *)
(***************************************************************************)
EXTENDS Integers

TORQUE_MAX == 127 * 512
LSB        == 2            \* 1/256 Nm
UINT16_MAX == 65535
INT16_MAX  == 32767

ClampTorque(t) == IF t > TORQUE_MAX THEN TORQUE_MAX
                  ELSE IF t < -TORQUE_MAX THEN -TORQUE_MAX
                  ELSE t

\* (int16_t)(torque_Nm * 256): a conversion from float drops the fraction.
Q8(t) == IF t >= 0 THEN t \div LSB ELSE -((-t) \div LSB)

\* The shift and the mask, of a negative number too.
High(n) == (n \div 256) % 256
Low(n)  == n % 256
Join(high, low) == 256 * high + low

\* Mutant: the bytes read as an unsigned number.
Unsigned(u) == u

Int16(u) == IF u <= INT16_MAX THEN u ELSE u - UINT16_MAX - 1

Byte    == 0 .. 255
Word    == 0 .. UINT16_MAX
SignedWord == (-INT16_MAX) - 1 .. INT16_MAX
Frames  == [torqueHigh : Byte, torqueLow : Byte, soc : Byte,
            rpmHigh : Byte, rpmLow : Byte]
NoFrame == [torqueHigh |-> 0, torqueLow |-> 0, soc |-> 0,
            rpmHigh |-> 0, rpmLow |-> 0]

Pack(t, soc, rpm) ==
    LET raw == Q8(ClampTorque(t))
    IN  [torqueHigh |-> High(raw), torqueLow |-> Low(raw), soc |-> soc,
         rpmHigh |-> High(rpm), rpmLow |-> Low(rpm)]

Unpack(f) ==
    [torque |-> Int16(Join(f.torqueHigh, f.torqueLow)), soc |-> f.soc,
     rpm |-> Join(f.rpmHigh, f.rpmLow)]
=============================================================================
