------------------------------- MODULE CanBus -------------------------------
(***************************************************************************)
(* The simulated CAN bus (bare_metal_foc/src/can_sim.c): "64-slot SPSC     *)
(* ring buffer; lock-free via index masking".  One thread sends and one    *)
(* receives; each call is split at its accesses to the fields the other    *)
(* one writes.                                                             *)
(*                                                                         *)
(* The fields are plain.  The model is that of a single core (a main loop  *)
(* and an interrupt handler) whose compiled code stores in the order       *)
(* written, as "lock-free" needs; the language promises no such order.     *)
(***************************************************************************)
EXTENDS CanFrame

CONSTANT DEPTH  \* CAN_BUS_DEPTH

ASSUME DepthAssumption == DEPTH \in Nat /\ DEPTH > 1

VARIABLES
    frames, head, tail,  \* CanBus_t
    sender, outgoing,    \* where the sender is, and its frame
    receiver, incoming   \* where the receiver is, and its copy

ring == <<frames, head, tail>>

\* i & (CAN_BUS_DEPTH - 1), for a power of two.
Mask(i) == i % DEPTH
Succ(i) == Mask(i + 1)
Slots   == 0 .. DEPTH - 1

BusInit ==
    /\ frames = [i \in Slots |-> NoFrame] /\ head = 0 /\ tail = 0
    /\ sender = "control" /\ outgoing = NoFrame
    /\ receiver = "poll" /\ incoming = NoFrame
-----------------------------------------------------------------------------
(* CanBus_send.                                                            *)

\* The full test: the call returns -1, or goes on to store the frame.
SendCheck ==
    /\ sender = "send"
    /\ sender' = IF Succ(head) = tail THEN "control" ELSE "store"
    /\ UNCHANGED <<ring, outgoing>>

SendStore ==
    /\ sender = "store" /\ sender' = "publish"
    /\ frames' = [frames EXCEPT ![head] = outgoing]
    /\ UNCHANGED <<head, tail, outgoing>>

SendPublish ==
    /\ sender = "publish" /\ sender' = "control"
    /\ head' = Succ(head)
    /\ UNCHANGED <<frames, tail, outgoing>>

Send == SendCheck \/ SendStore \/ SendPublish
-----------------------------------------------------------------------------
(* CanBus_recv.  A call that finds the ring empty changes nothing.         *)

\* Mutant: the last frame taken for an empty ring.
RecvCheckLeavesOne ==
    /\ receiver = "poll" /\ head # tail /\ head # Succ(tail)
    /\ receiver' = "copy"
    /\ UNCHANGED <<ring, incoming>>

RecvCheck ==
    /\ receiver = "poll" /\ head # tail
    /\ receiver' = "copy"
    /\ UNCHANGED <<ring, incoming>>

RecvCopy ==
    /\ receiver = "copy" /\ receiver' = "advance"
    /\ incoming' = frames[tail]
    /\ UNCHANGED ring

RecvAdvance ==
    /\ receiver = "advance" /\ receiver' = "poll"
    /\ tail' = Succ(tail)
    /\ UNCHANGED <<frames, head, incoming>>
-----------------------------------------------------------------------------
\* What lies in the ring, the oldest frame first.
Occupied == Mask(head - tail)
Contents == [k \in 1 .. Occupied |-> frames[Mask(tail + k - 1)]]
=============================================================================
