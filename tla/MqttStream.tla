----------------------------- MODULE MqttStream -----------------------------
(***************************************************************************)
(* A connection of MqttClient.cpp as a stream of bytes: threads that       *)
(* publish() through writeMu_ and writeAll(), and the reader thread that   *)
(* takes the packets out again (readerLoop(), processPacket()).            *)
(*                                                                         *)
(* The kernel may take a write, and return a read, in pieces of any size;  *)
(* the order of the bytes is TCP's.  The broker stands between the two     *)
(* ends and passes a QoS 0 packet on as it is.  When the connection is     *)
(* lost, the reader may have got any part of what was written.             *)
(*                                                                         *)
(* Packets of other types than PUBLISH are left out: processPacket()       *)
(* ignores them, and the program sends them before anything is published   *)
(* (sendSubscribe() does not take writeMu_).                               *)
(***************************************************************************)
EXTENDS MqttCodec

CONSTANTS
    Publishers,     \* threads that call publish()
    NoOne,          \* nobody holds writeMu_
    Messages,       \* what they may publish
    Chunks,         \* how many bytes a read() or write() may move at most
    MAX_PUBLISHED   \* publishes over one connection

ASSUME ThreadAssumption  == NoOne \notin Publishers
ASSUME ChunkAssumption   == Chunks \subseteq Nat \ {0}
ASSUME MessageAssumption ==
    \A m \in Messages :
        /\ m.topic \in Seq(Byte) /\ m.payload \in Seq(Byte)
        /\ m = [topic |-> m.topic, payload |-> m.payload]
        /\ Short(Len(m.topic))
        /\ 2 + Len(m.topic) + Len(m.payload) <= MaxLength

VARIABLES
    holder,    \* who holds writeMu_
    unsent,    \* what writeAll() has still to write, of each publisher
    stream,    \* the bytes written to the connection
    alive,     \* the connection
    taken,     \* how many bytes the reader has read
    reader,    \* where it is in its loop
    first,     \* the first byte of the packet being read
    digits,    \* the bytes of its length, so far
    data,      \* its body, so far
    published, \* history: the messages in the order of their locks
    from,      \* history: how much of the stream was before each
    delivered  \* history: the messages given to the callbacks

writing == <<holder, unsent, stream>>
reading == <<taken, reader, first, digits, data>>
history == <<published, from>>
vars    == <<writing, alive, reading, history, delivered>>

ReaderSteps == {"first", "length", "body", "process", "ended", "undefined"}

Init ==
    /\ holder = NoOne /\ unsent = [p \in Publishers |-> << >>]
    /\ stream = << >> /\ alive = TRUE
    /\ taken = 0 /\ reader = "first" /\ first = 0 /\ digits = << >> /\ data = << >>
    /\ published = << >> /\ from = << >> /\ delivered = << >>

Body(m) == PublishBody(m.topic, m.payload, 0, 0)
Bytes(m) == Packet(PublishFirst(0), Body(m))

AtMost(c, n) == IF c < n THEN c ELSE n
-----------------------------------------------------------------------------
(* publish()                                                               *)

\* The lock and the packet.  On a dead connection publish() returns false.
Publish(p, m) ==
    /\ holder = NoOne /\ alive /\ Len(published) < MAX_PUBLISHED
    /\ holder' = p
    /\ unsent' = [unsent EXCEPT ![p] = Bytes(m)]
    /\ published' = Append(published, m) /\ from' = Append(from, Len(stream))
    /\ UNCHANGED <<stream, alive, reading, delivered>>

\* One write() of writeAll(); the lock goes with the last byte.
Write(p) ==
    /\ alive /\ unsent[p] # << >>
    /\ \E c \in Chunks :
          LET n == AtMost(c, Len(unsent[p]))
          IN  /\ stream' = stream \o SubSeq(unsent[p], 1, n)
              /\ unsent' = [unsent EXCEPT ![p] = SubSeq(@, n + 1, Len(@))]
              /\ holder' = IF n = Len(unsent[p]) THEN NoOne ELSE holder
    /\ UNCHANGED <<alive, reading, history, delivered>>

\* write() fails and writeAll() gives up.
WriteFails(p) ==
    /\ ~alive /\ unsent[p] # << >>
    /\ unsent' = [unsent EXCEPT ![p] = << >>]
    /\ holder' = NoOne
    /\ UNCHANGED <<stream, alive, reading, history, delivered>>
-----------------------------------------------------------------------------
(* readerLoop()                                                            *)

Available == Len(stream) - taken

ReadFirst ==
    /\ reader = "first" /\ Available > 0
    /\ first' = stream[taken + 1] /\ taken' = taken + 1
    /\ digits' = << >> /\ data' = << >>
    /\ reader' = "length"
    /\ UNCHANGED <<writing, alive, history, delivered>>

\* Mutant: the loop looks at the first byte again and again.
ReadDigitsStale ==
    /\ reader = "length" /\ Available > 0
    /\ digits' = Append(digits, stream[taken + 1]) /\ taken' = taken + 1
    /\ reader' = IF digits'[1] >= 128 THEN "length"
                 ELSE IF ReadLength(digits') > 0 THEN "body" ELSE "process"
    /\ UNCHANGED <<writing, alive, first, data, history, delivered>>

\* A byte of readRemainingLength(), which ends with one below 128.
ReadDigits ==
    /\ reader = "length" /\ Available > 0
    /\ digits' = Append(digits, stream[taken + 1]) /\ taken' = taken + 1
    /\ reader' = IF stream[taken + 1] >= 128 THEN "length"
                 ELSE IF ReadLength(digits') > 0 THEN "body" ELSE "process"
    /\ UNCHANGED <<writing, alive, first, data, history, delivered>>

Missing == ReadLength(digits) - Len(data)

\* Mutant: a short read() is taken for a whole one.
ReadBodyOnce ==
    /\ reader = "body" /\ Available > 0
    /\ \E c \in Chunks :
          LET n == AtMost(c, AtMost(Missing, Available))
          IN  /\ data' = SubSeq(stream, taken + 1, taken + n) \o [i \in 1 .. Missing - n |-> 0]
              /\ taken' = taken + n
              /\ reader' = "process"
    /\ UNCHANGED <<writing, alive, first, digits, history, delivered>>

\* One read() of readExact().
ReadBody ==
    /\ reader = "body" /\ Available > 0
    /\ \E c \in Chunks :
          LET n == AtMost(c, AtMost(Missing, Available))
          IN  /\ data' = data \o SubSeq(stream, taken + 1, taken + n)
              /\ taken' = taken + n
              /\ reader' = IF n = Missing THEN "process" ELSE "body"
    /\ UNCHANGED <<writing, alive, first, digits, history, delivered>>

IsPublish == first \div 16 = 3

\* processPacket()
Process ==
    /\ reader = "process"
    /\ delivered' = IF IsPublish THEN Append(delivered, ProcessPublish(data)) ELSE delivered
    /\ reader' = "first"
    /\ UNCHANGED <<writing, alive, taken, first, digits, data, history>>

\* read() returns 0 or an error.  Inside a packet's length that is taken for a
\* length of 0, and processPacket() reads data[0] of an empty vector.
ReadFails ==
    /\ ~alive /\ reader \in {"first", "length", "body"}
    /\ reader' = IF reader = "length" /\ IsPublish THEN "undefined" ELSE "ended"
    /\ UNCHANGED <<writing, alive, taken, first, digits, data, history, delivered>>
-----------------------------------------------------------------------------
Cut ==
    /\ alive /\ alive' = FALSE
    /\ UNCHANGED <<writing, reading, history, delivered>>

\* The process starts again and connects, with a clean session.
Reconnect ==
    /\ reader \in {"ended", "undefined"}
    /\ holder' = NoOne /\ unsent' = [p \in Publishers |-> << >>]
    /\ stream' = << >> /\ alive' = TRUE
    /\ taken' = 0 /\ reader' = "first" /\ first' = 0 /\ digits' = << >> /\ data' = << >>
    /\ published' = << >> /\ from' = << >> /\ delivered' = << >>

WriteStep  == \E p \in Publishers : Write(p) \/ WriteFails(p)
ReaderStep == ReadFirst \/ ReadDigits \/ ReadBody \/ Process \/ ReadFails

Next == \/ \E p \in Publishers, m \in Messages : Publish(p, m)
        \/ WriteStep \/ ReaderStep \/ Cut \/ Reconnect

Spec == Init /\ [][Next]_vars

\* Both ends are scheduled and TCP moves the bytes.
FairSpec == Spec /\ WF_vars(WriteStep) /\ WF_vars(ReaderStep)
-----------------------------------------------------------------------------

(* Safety.                                                                 *)

\* The variables have the types of the fields they model; what the callbacks
\* get is a message that somebody published.
StreamTypeOK ==
    /\ holder \in Publishers \cup {NoOne} /\ unsent \in [Publishers -> Seq(Byte)]
    /\ stream \in Seq(Byte) /\ alive \in BOOLEAN
    /\ taken \in 0 .. Len(stream) /\ reader \in ReaderSteps
    /\ first \in Byte /\ digits \in Seq(Byte) /\ data \in Seq(Byte)
    /\ published \in Seq(Messages) /\ from \in Seq(Nat) /\ delivered \in Seq(Messages)

Queue == INSTANCE MessageQueue WITH sent <- published, got <- delivered, open <- alive

\* However reads and writes cut the packets up, and whoever publishes at the
\* same time, messages arrive whole, in order and once.
ImplementsQueue == Queue!Spec

(* Liveness.                                                               *)

\* While the connection lasts, what was published arrives.
PublishedArrives ==
    \A n \in 1 .. MAX_PUBLISHED :
        (alive /\ Len(published) >= n) ~> (~alive \/ Len(delivered) >= n)
=============================================================================
