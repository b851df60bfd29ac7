----------------------------- MODULE MqttCodec -----------------------------
(***************************************************************************)
(* The packets of MqttClient.cpp: how publish() frames a message and how   *)
(* readerLoop() and processPacket() take it apart.  Bytes are numbers, a   *)
(* string is the sequence of its bytes.                                    *)
(***************************************************************************)
EXTENDS Integers, Sequences

Byte == 0 .. 255

\* appendU16(), for a number of 16 bits.
U16(n) == <<n \div 256, n % 256>>

Cast16(n) == n % 65536   \* to uint16_t

Short(n) == n < 65536    \* a size that the cast keeps

Str(s) == U16(Cast16(Len(s))) \o s

Weight(i) ==   \* the place values of a length's bytes
    IF i = 1 THEN 1 ELSE IF i = 2 THEN 128 ELSE IF i = 3 THEN 16384 ELSE 2097152

\* The length of an MQTT packet has four bytes at most.
MaxLength == 268435455

LengthBytes(n) ==
    IF n < 128 THEN 1 ELSE IF n < 16384 THEN 2 ELSE IF n < 2097152 THEN 3 ELSE 4

\* appendRemainingLen(): seven bits a byte, the lowest first; all bytes but the
\* last have the high bit.
RemainingLen(n) ==
    [i \in 1 .. LengthBytes(n) |->
        ((n \div Weight(i)) % 128) + (IF i < LengthBytes(n) THEN 128 ELSE 0)]

\* readRemainingLength(): the bytes of s up to the first without the high bit.
LengthUsed(s) ==
    IF s[1] < 128 THEN 1 ELSE IF s[2] < 128 THEN 2 ELSE IF s[3] < 128 THEN 3 ELSE 4

ReadDigit(s, i) == IF i <= LengthUsed(s) THEN (s[i] % 128) * Weight(i) ELSE 0

ReadLength(s) == ReadDigit(s, 1) + ReadDigit(s, 2) + ReadDigit(s, 3) + ReadDigit(s, 4)
-----------------------------------------------------------------------------
\* pktId_, in packets with a QoS above 0.
Identifier(qos, id) == IF qos > 0 THEN U16(id) ELSE << >>

\* What publish() puts behind the length.
PublishBody(topic, payload, qos, id) == Str(topic) \o (Identifier(qos, id) \o payload)

\* first: the packet's type and its flags.
Packet(first, body) == <<first>> \o (RemainingLen(Len(body)) \o body)

PublishFirst(qos) == 48 + 2 * qos

\* readerLoop() on a stream of bytes: the type, the body and what is left.
ReadPacket(stream) ==
    LET rest == Tail(stream)
        from == LengthUsed(rest) + 1
        to   == LengthUsed(rest) + ReadLength(rest)
    IN  [type |-> stream[1] \div 16,
         body |-> SubSeq(rest, from, to),
         left |-> SubSeq(rest, to + 1, Len(rest))]

\* processPacket() of a PUBLISH.  It expects no packet identifier, although
\* sendSubscribe() asks for QoS 1: the identifier would come out as the first
\* two bytes of the payload.
TopicLen(body) == body[1] * 256 + body[2]

ProcessPublish(body) ==
    [topic   |-> SubSeq(body, 3, 2 + TopicLen(body)),
     payload |-> SubSeq(body, 3 + TopicLen(body), Len(body))]
-----------------------------------------------------------------------------
\* What two clients that use this code owe each other: a message that is
\* published arrives as it is, and the bytes behind it are left alone.
CarriesMessage(topic, payload, rest) ==
    LET sent == Packet(PublishFirst(0), PublishBody(topic, payload, 0, 0))
        got  == ReadPacket(sent \o rest)
    IN  /\ got.type = 3 /\ got.left = rest
        /\ ProcessPublish(got.body) = [topic |-> topic, payload |-> payload]
=============================================================================
