------------------------------- MODULE MCMqtt -------------------------------
(* A short message, and one whose length takes two bytes.  The codec is    *)
(* tried wherever a length gets another byte.                              *)
EXTENDS MqttStream

Text(n) == [i \in 1 .. n |-> (7 * i) % 256]

ShortAndLong == {[topic |-> Text(1), payload |-> << >>], [topic |-> Text(2), payload |-> Text(125)]}
Pieces       == {3, 60, 1000}

EdgeLengths == {0, 1, 127, 128, 16383, 16384, 2097151, 2097152, MaxLength}

\* readRemainingLength() undoes appendRemainingLen(), whatever follows.
ASSUME LengthsRead ==
    \A n \in EdgeLengths :
        LET s == RemainingLen(n) \o <<200, 3>>
        IN  ReadLength(s) = n /\ LengthUsed(s) = Len(RemainingLen(n))

\* Messages of 127 and 128 bytes, and a topic whose size needs both bytes.
ASSUME MessagesCarried ==
    \A t \in {0, 1, 9, 300}, p \in {0, 1, 116, 117, 200}, r \in {0, 3} :
        CarriesMessage(Text(t), Text(p), Text(r))
=============================================================================
