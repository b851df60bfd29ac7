---------------------------- MODULE TorqueChannel ----------------------------
(***************************************************************************)
(* What the motor node's telemetry promises: readings arrive in the order  *)
(* in which they were sent, none twice, each within one LSB of the torque  *)
(* it was made from (clamped to what a frame can carry), and a reading is  *)
(* refused only while the channel is full.                                 *)
(***************************************************************************)
EXTENDS Integers, Sequences

CONSTANTS
    CAPACITY,     \* readings that the channel holds
    OUTPUT_LIMIT, \* the torques that may be offered
    FRAME_LIMIT,  \* the torques that a reading may carry
    Telemetry,    \* the other fields of a reading
    NoReading     \* before the first one

VARIABLES
    offer,    \* the torque and telemetry to be sent
    pending,  \* and whether they still are
    queue,    \* readings sent and not received
    got       \* the last reading received

vars == <<offer, pending, queue, got>>

Nearest(t) == IF t > FRAME_LIMIT THEN FRAME_LIMIT
              ELSE IF t < -FRAME_LIMIT THEN -FRAME_LIMIT
              ELSE t

\* r.torque is in LSB, t in halves of it.
Renders(r, o) ==
    /\ 2 * r.torque - Nearest(o.torque) \in -1 .. 1
    /\ r.soc = o.soc /\ r.rpm = o.rpm

Init == /\ offer.torque = 0
        /\ pending = FALSE /\ queue = <<>> /\ got = NoReading

Offer ==
    /\ ~pending /\ pending'
    /\ offer'.torque \in -OUTPUT_LIMIT .. OUTPUT_LIMIT
    /\ [soc |-> offer'.soc, rpm |-> offer'.rpm] \in Telemetry
    /\ UNCHANGED <<queue, got>>

Put ==
    /\ pending /\ pending' = FALSE
    /\ Len(queue) < CAPACITY
    /\ Len(queue') = Len(queue) + 1
    /\ \A k \in 1 .. Len(queue) : queue'[k] = queue[k]
    /\ Renders(queue'[Len(queue) + 1], offer)
    /\ UNCHANGED <<offer, got>>

Refuse ==
    /\ pending /\ pending' = FALSE
    /\ Len(queue) = CAPACITY
    /\ UNCHANGED <<offer, queue, got>>

Get ==
    /\ queue # <<>>
    /\ got' = Head(queue) /\ queue' = Tail(queue)
    /\ UNCHANGED <<offer, pending>>

Next == Offer \/ Put \/ Refuse \/ Get

Spec == Init /\ [][Next]_vars
=============================================================================
