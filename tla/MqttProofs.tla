----------------------------- MODULE MqttProofs -----------------------------
(***************************************************************************)
(* MqttClient.cpp for messages of any length.  Its packets: a length is    *)
(* read back as it was written, a packet is found in the stream, and a     *)
(* message arrives as it was published.  Its connection: whatever pieces   *)
(* read() and write() move, it is a queue of messages.                     *)
(***************************************************************************)
EXTENDS MqttStream, SequenceTheorems, TLAPS
-----------------------------------------------------------------------------
(* Sequences.                                                              *)

\* A stretch of a sequence is taken out of it whole.
LEMMA Stretch ==
    ASSUME NEW a \in Seq(Byte), NEW b \in Seq(Byte), NEW c \in Seq(Byte)
    PROVE  /\ SubSeq((a \o b) \o c, Len(a) + 1, Len(a) + Len(b)) = b
           /\ SubSeq((a \o b) \o c, Len(a) + Len(b) + 1, Len((a \o b) \o c)) = c
<1> DEFINE s == (a \o b) \o c
<1>1. Len(a) \in Nat /\ Len(b) \in Nat /\ Len(c) \in Nat
    BY LenProperties
<1>2. a \o b \in Seq(Byte) /\ s \in Seq(Byte)
    BY ConcatProperties
<1>3. Len(a \o b) = Len(a) + Len(b) /\ Len(s) = Len(a) + Len(b) + Len(c)
    BY <1>2, ConcatProperties
<1>4. \A i \in 1 .. Len(b) : s[Len(a) + i] = b[i]
  <2> TAKE i \in 1 .. Len(b)
  <2>1. s[Len(a) + i] = (a \o b)[Len(a) + i]
      BY <1>1, <1>2, <1>3, ConcatProperties
  <2>2. (a \o b)[Len(a) + i] = b[i]
      BY <1>1, ConcatProperties
  <2> QED
      BY <2>1, <2>2
<1>5. \A i \in 1 .. Len(c) : s[Len(a) + Len(b) + i] = c[i]
    BY <1>1, <1>2, <1>3, ConcatProperties
<1>6. \A i \in 1 .. Len(s) : s[i] \in Byte
    BY <1>2, ElementOfSeq
<1> DEFINE t == SubSeq(s, Len(a) + 1, Len(a) + Len(b))
           u == SubSeq(s, Len(a) + Len(b) + 1, Len(s))
<1> HIDE DEF s
<1>7. t = b
  <2>1. \A i \in Len(a) + 1 .. Len(a) + Len(b) : s[i] \in Byte
      BY <1>1, <1>3, <1>6
  <2>2. t \in Seq(Byte)
      BY <1>1, <2>1, SubSeqProperties
  <2>3. Len(t) = IF Len(a) + 1 <= Len(a) + Len(b)
                   THEN (Len(a) + Len(b)) - (Len(a) + 1) + 1 ELSE 0
      BY <1>1, <2>1, SubSeqProperties
  <2>4. Len(t) = Len(b)
      BY <1>1, <2>3
  <2>5. \A i \in 1 .. (Len(a) + Len(b)) - (Len(a) + 1) + 1 : t[i] = s[(Len(a) + 1) + i - 1]
      BY <1>1, <2>1, SubSeqProperties
  <2>6. \A i \in 1 .. Len(t) : t[i] = b[i]
    <3> TAKE i \in 1 .. Len(t)
    <3>1. i \in 1 .. (Len(a) + Len(b)) - (Len(a) + 1) + 1 /\ (Len(a) + 1) + i - 1 = Len(a) + i
        BY <1>1, <2>4
    <3> QED
        BY <1>4, <2>4, <2>5, <3>1
  <2> QED
      BY <2>2, <2>4, <2>6, SeqEqual
<1>8. u = c
  <2>1. \A i \in Len(a) + Len(b) + 1 .. Len(s) : s[i] \in Byte
      BY <1>1, <1>3, <1>6
  <2>2. u \in Seq(Byte)
      BY <1>1, <1>3, <2>1, SubSeqProperties
  <2>3. Len(u) = IF Len(a) + Len(b) + 1 <= Len(s)
                   THEN Len(s) - (Len(a) + Len(b) + 1) + 1 ELSE 0
      BY <1>1, <1>3, <2>1, SubSeqProperties
  <2>4. Len(u) = Len(c)
      BY <1>1, <1>3, <2>3
  <2>5. \A i \in 1 .. Len(s) - (Len(a) + Len(b) + 1) + 1 :
             u[i] = s[(Len(a) + Len(b) + 1) + i - 1]
      BY <1>1, <1>3, <2>1, SubSeqProperties
  <2>6. \A i \in 1 .. Len(u) : u[i] = c[i]
    <3> TAKE i \in 1 .. Len(u)
    <3>1. /\ i \in 1 .. Len(s) - (Len(a) + Len(b) + 1) + 1
          /\ (Len(a) + Len(b) + 1) + i - 1 = Len(a) + Len(b) + i
        BY <1>1, <1>3, <2>4
    <3> QED
        BY <1>5, <2>4, <2>5, <3>1
  <2> QED
      BY <2>2, <2>4, <2>6, SeqEqual
<1> QED
    BY <1>7, <1>8 DEF s

LEMMA TailOfConcat ==
    ASSUME NEW x \in Byte, NEW t \in Seq(Byte)
    PROVE  Tail(<<x>> \o t) = t /\ (<<x>> \o t)[1] = x
<1> DEFINE s == <<x>> \o t
<1>1. <<x>> \in Seq(Byte) /\ Len(<<x>>) = 1 /\ <<x>>[1] = x
    OBVIOUS
<1>2. Len(t) \in Nat
    BY LenProperties
<1>3. s \in Seq(Byte) /\ Len(s) = 1 + Len(t)
    BY <1>1, ConcatProperties
<1>4. \A i \in 1 .. 1 + Len(t) : s[i] = IF i <= 1 THEN <<x>>[i] ELSE t[i - 1]
    BY <1>1, ConcatProperties
<1> HIDE DEF s
<1>5. s # << >>
    BY <1>2, <1>3, EmptySeq
<1>6. /\ Tail(s) \in Seq(Byte) /\ Len(Tail(s)) = Len(s) - 1
      /\ \A i \in 1 .. Len(Tail(s)) : Tail(s)[i] = s[i + 1]
    BY <1>3, <1>5, HeadTailProperties
<1>7. Len(Tail(s)) = Len(t)
    BY <1>2, <1>3, <1>6
<1>8. \A i \in 1 .. Len(t) : Tail(s)[i] = t[i]
  <2> TAKE i \in 1 .. Len(t)
  <2>1. i + 1 \in 1 .. 1 + Len(t) /\ ~(i + 1 <= 1) /\ (i + 1) - 1 = i
      BY <1>2
  <2> QED
      BY <1>4, <1>6, <1>7, <2>1
<1>9. Tail(s) = t
    BY <1>6, <1>7, <1>8, SeqEqual
<1>10. s[1] = x
    BY <1>1, <1>2, <1>4
<1> QED
    BY <1>9, <1>10 DEF s

-----------------------------------------------------------------------------
(* The length of a packet.                                                 *)

\* appendRemainingLen() appends one to four bytes.
LEMMA LengthTyped ==
    ASSUME NEW n \in Nat, n <= MaxLength
    PROVE  /\ RemainingLen(n) \in Seq(Byte)
           /\ Len(RemainingLen(n)) = LengthBytes(n)
           /\ LengthBytes(n) \in 1 .. 4
           /\ \A i \in 1 .. LengthBytes(n) : RemainingLen(n)[i] =
                ((n \div Weight(i)) % 128) + (IF i < LengthBytes(n) THEN 128 ELSE 0)
<1>0. n \in Nat
    OBVIOUS
<1> DEFINE e(i) == ((n \div Weight(i)) % 128) + (IF i < LengthBytes(n) THEN 128 ELSE 0)
<1>1. LengthBytes(n) \in 1 .. 4
    BY SMT DEF LengthBytes
<1>3. \A i \in 1 .. 4 : e(i) \in Byte
  <2> TAKE i \in 1 .. 4
  <2> DEFINE d == (n \div Weight(i))
  <2>2. d \in Int
    <3>1. CASE i = 1
        BY <1>0, <3>1, SMT DEF Weight
    <3>2. CASE i = 2
        BY <1>0, <3>2, SMT DEF Weight
    <3>3. CASE i = 3
        BY <1>0, <3>3, SMT DEF Weight
    <3>4. CASE i = 4
        BY <1>0, <3>4, SMT DEF Weight
    <3> QED
        BY <3>1, <3>2, <3>3, <3>4, SMT
  <2> HIDE DEF d
  <2>3. (d % 128) \in 0 .. 127
      BY <2>2, SMT
  <2>4. e(i) = (d % 128) + (IF i < LengthBytes(n) THEN 128 ELSE 0)
      BY DEF d
  <2> HIDE DEF e
  <2> QED
      BY <1>1, <2>3, <2>4, SMT DEF Byte
<1>4. RemainingLen(n) = [i \in 1 .. LengthBytes(n) |-> e(i)]
    BY DEF RemainingLen
<1> HIDE DEF e
<1>5. RemainingLen(n) \in [1 .. LengthBytes(n) -> Byte]
    BY <1>1, <1>3, <1>4
<1>6. RemainingLen(n) \in Seq(Byte)
    BY <1>1, <1>5, SeqDef
<1>7. Len(RemainingLen(n)) = LengthBytes(n)
    BY <1>1, <1>4, <1>6
<1> QED
    BY <1>1, <1>4, <1>6, <1>7 DEF e

\* Dividing by 128 step by step.
LEMMA Quotients ==
    ASSUME NEW n \in Nat, n <= 268435455
    PROVE  /\ (n \div 128) \in Nat /\ (n \div 16384) \in Nat /\ (n \div 2097152) \in Nat
           /\ n \div 2097152 < 128
           /\ n = 128 * (n \div 128) + (n % 128)
           /\ n \div 128 = 128 * (n \div 16384) + ((n \div 128) % 128)
           /\ n \div 16384 = 128 * (n \div 2097152) + ((n \div 16384) % 128)
<1>1. (n \div 128) \in Nat /\ n = 128 * (n \div 128) + (n % 128) /\ (n % 128) \in 0 .. 127
    BY SMT
<1>2. (n \div 16384) \in Nat /\ n \div 128 = 128 * (n \div 16384) + ((n \div 128) % 128)
    BY SMT
<1>3. /\ (n \div 2097152) \in Nat
      /\ n \div 16384 = 128 * (n \div 2097152) + ((n \div 16384) % 128)
    BY SMT
<1>4. n \div 2097152 < 128
    BY SMT
<1> QED
    BY <1>1, <1>2, <1>3, <1>4

\* readRemainingLength() takes the bytes that appendRemainingLen() wrote and no
\* more, and makes of them the length that was written, whatever follows.
THEOREM LengthRoundTrip ==
    ASSUME NEW n \in Nat, n <= MaxLength, NEW rest \in Seq(Byte)
    PROVE  /\ LengthUsed(RemainingLen(n) \o rest) = LengthBytes(n)
           /\ ReadLength(RemainingLen(n) \o rest) = n
<1> DEFINE s == RemainingLen(n) \o rest
           k == LengthBytes(n)
<1>0. n \in Nat /\ n <= 268435455
  <2>1. n \in Nat /\ n <= MaxLength
      OBVIOUS
  <2> QED
      BY <2>1, SMT DEF MaxLength
<1>1. \A i \in 1 .. k : s[i] = ((n \div Weight(i)) % 128) + (IF i < k THEN 128 ELSE 0)
  <2> TAKE i \in 1 .. k
  <2>1. /\ RemainingLen(n) \in Seq(Byte) /\ Len(RemainingLen(n)) = k
        /\ RemainingLen(n)[i] = ((n \div Weight(i)) % 128) + (IF i < k THEN 128 ELSE 0)
      BY LengthTyped
  <2>2. i \in 1 .. Len(RemainingLen(n)) + Len(rest) /\ i <= Len(RemainingLen(n))
      BY <2>1, LengthTyped, LenProperties
  <2>3. s[i] = RemainingLen(n)[i]
      BY <2>1, <2>2, ConcatProperties
  <2> QED
      BY <2>1, <2>3
<1>2. Weight(1) = 1 /\ Weight(2) = 128 /\ Weight(3) = 16384 /\ Weight(4) = 2097152
    BY SMT DEF Weight
<1> HIDE DEF s
<1>3. CASE n < 128
  <2>1. k = 1
      BY <1>3, SMT DEF LengthBytes
  <2>2. s[1] = n
      BY <1>0, <1>1, <1>2, <1>3, <2>1, SMT
  <2> QED
      BY <1>0, <1>2, <1>3, <2>1, <2>2, SMT DEF LengthUsed, ReadLength, ReadDigit, s
<1>4. CASE 128 <= n /\ n < 16384
  <2>1. k = 2
      BY <1>0, <1>4, SMT DEF LengthBytes
  <2>2. s[1] = (n % 128) + 128 /\ s[2] = (n \div 128) % 128
      BY <1>0, <1>1, <1>2, <2>1, SMT
  <2>3. s[2] < 128 /\ ~(s[1] < 128)
      BY <1>0, <2>2, SMT
  <2>4. (s[1] % 128) + (s[2] % 128) * 128 = n
      BY <1>0, <1>4, <2>2, SMT
  <2>5. LengthUsed(s) = 2
      BY <2>3, SMT DEF LengthUsed
  <2>6. ReadLength(s) = (s[1] % 128) * 1 + (s[2] % 128) * 128 + 0 + 0
      BY <1>2, <2>5, SMT DEF ReadLength, ReadDigit
  <2> QED
      BY <1>0, <2>1, <2>2, <2>4, <2>5, <2>6, SMT DEF s
<1>5. CASE 16384 <= n /\ n < 2097152
  <2>1. k = 3
      BY <1>0, <1>5, SMT DEF LengthBytes
  <2>2. /\ s[1] = (n % 128) + 128 /\ s[2] = ((n \div 128) % 128) + 128
        /\ s[3] = (n \div 16384) % 128
      BY <1>0, <1>1, <1>2, <2>1, SMT
  <2>3. s[3] < 128 /\ ~(s[1] < 128) /\ ~(s[2] < 128)
      BY <1>0, <2>2, SMT
  <2>4. (s[1] % 128) + (s[2] % 128) * 128 + (s[3] % 128) * 16384 = n
      BY <1>0, <1>5, <2>2, SMT
  <2>5. LengthUsed(s) = 3
      BY <2>3, SMT DEF LengthUsed
  <2>6. ReadLength(s) = (s[1] % 128) * 1 + (s[2] % 128) * 128 + (s[3] % 128) * 16384 + 0
      BY <1>2, <2>5, SMT DEF ReadLength, ReadDigit
  <2> QED
      BY <1>0, <2>1, <2>2, <2>4, <2>5, <2>6, SMT DEF s
<1>6. CASE 2097152 <= n
  <2>1. k = 4
      BY <1>0, <1>6, SMT DEF LengthBytes
  <2>2. /\ s[1] = (n % 128) + 128 /\ s[2] = ((n \div 128) % 128) + 128
        /\ s[3] = ((n \div 16384) % 128) + 128 /\ s[4] = (n \div 2097152) % 128
      BY <1>0, <1>1, <1>2, <2>1, SMTT(30)
  <2>3. ~(s[1] < 128) /\ ~(s[2] < 128) /\ ~(s[3] < 128)
      BY <1>0, <2>2, SMT
  <2>4. (s[1] % 128) + (s[2] % 128) * 128 + (s[3] % 128) * 16384 + (s[4] % 128) * 2097152 = n
    <3> DEFINE p == n \div 128
               q == n \div 16384
               r == n \div 2097152
    <3>1. /\ p \in Nat /\ q \in Nat /\ r \in Nat /\ r < 128
          /\ n = 128 * p + (n % 128) /\ p = 128 * q + (p % 128) /\ q = 128 * r + (q % 128)
        BY <1>0, <1>6, Quotients, SMT
    <3>2. (s[1] % 128) = (n % 128)
        BY <1>0, <2>2, SMT
    <3> HIDE DEF p, q, r
    <3>3. (s[2] % 128) = (p % 128)
        BY <2>2, <3>1, SMT DEF p
    <3>4. (s[3] % 128) = (q % 128)
        BY <2>2, <3>1, SMT DEF q
    <3>5. (s[4] % 128) = r
        BY <2>2, <3>1, SMT DEF r
    <3> QED
        BY <1>0, <3>1, <3>2, <3>3, <3>4, <3>5, SMTT(30)
  <2>5. LengthUsed(s) = 4
      BY <2>3, SMT DEF LengthUsed
  <2>6. ReadLength(s) = (s[1] % 128) * 1 + (s[2] % 128) * 128 + (s[3] % 128) * 16384
                          + (s[4] % 128) * 2097152
      BY <1>2, <2>5, SMT DEF ReadLength, ReadDigit
  <2> QED
      BY <1>0, <2>1, <2>2, <2>4, <2>5, <2>6, SMT DEF s
<1> QED
    BY <1>0, <1>3, <1>4, <1>5, <1>6, SMT

\* A packet is found in the stream by its length, and the next one behind it.
LEMMA PacketFound ==
    ASSUME NEW body \in Seq(Byte), NEW rest \in Seq(Byte), NEW kind \in Byte,
           Len(body) <= MaxLength
    PROVE  ReadPacket(Packet(kind, body) \o rest)
             = [type |-> kind \div 16, body |-> body, left |-> rest]
<1> DEFINE r      == RemainingLen(Len(body))
           after  == (r \o body) \o rest
           packets == Packet(kind, body) \o rest
<1> HIDE DEF r, after, packets
<1>1. Len(body) \in Nat
    BY LenProperties
<1>2. r \in Seq(Byte) /\ Len(r) = LengthBytes(Len(body)) /\ Len(r) \in Nat
    BY <1>1, LengthTyped DEF r
<1>3. r \o body \in Seq(Byte) /\ body \o rest \in Seq(Byte)
    BY <1>2, ConcatProperties
<1>4. after \in Seq(Byte)
    BY <1>3, ConcatProperties DEF after
<1>5. after = r \o (body \o rest)
    BY <1>2, ConcatAssociative, SMTT(30) DEF after
<1>6. LengthUsed(r \o (body \o rest)) = LengthBytes(Len(body))
      /\ ReadLength(r \o (body \o rest)) = Len(body)
    BY <1>1, <1>3, LengthRoundTrip DEF r
<1>7. LengthUsed(after) = Len(r) /\ ReadLength(after) = Len(body)
    BY <1>2, <1>5, <1>6
<1>8. /\ SubSeq(after, Len(r) + 1, Len(r) + Len(body)) = body
      /\ SubSeq(after, Len(r) + Len(body) + 1, Len(after)) = rest
  <2>1. r \in Seq(Byte)
      BY <1>2
  <2>2. \A a, b, c \in Seq(Byte) :
            /\ SubSeq((a \o b) \o c, Len(a) + 1, Len(a) + Len(b)) = b
            /\ SubSeq((a \o b) \o c, Len(a) + Len(b) + 1, Len((a \o b) \o c)) = c
      BY Stretch
  <2>3. /\ SubSeq((r \o body) \o rest, Len(r) + 1, Len(r) + Len(body)) = body
        /\ SubSeq((r \o body) \o rest, Len(r) + Len(body) + 1,
                  Len((r \o body) \o rest)) = rest
      BY <2>1, <2>2
  <2> QED
      BY <2>3, Zenon DEF after
<1>9. packets = <<kind>> \o after
  <2>1. <<kind>> \in Seq(Byte)
      OBVIOUS
  <2>2. packets = (<<kind>> \o (r \o body)) \o rest
      BY Zenon DEF packets, Packet, r
  <2>3. (<<kind>> \o (r \o body)) \o rest = <<kind>> \o ((r \o body) \o rest)
      BY <1>3, <2>1, ConcatAssociative
  <2> QED
      BY <2>2, <2>3, Zenon DEF after
<1>10. Tail(packets) = after /\ packets[1] = kind
    BY <1>4, <1>9, TailOfConcat
<1>11. ReadPacket(packets) =
         [type |-> packets[1] \div 16,
          body |-> SubSeq(after, Len(r) + 1, Len(r) + Len(body)),
          left |-> SubSeq(after, Len(r) + Len(body) + 1, Len(after))]
    BY <1>7, <1>10, Zenon DEF ReadPacket
<1> QED
    BY <1>8, <1>10, <1>11, Zenon DEF packets

-----------------------------------------------------------------------------
(* A message.                                                              *)

\* Two bytes hold a number of 16 bits.
LEMMA TwoBytes ==
    ASSUME NEW n \in Nat, Short(n)
    PROVE  \E h, l \in Byte : U16(Cast16(n)) = <<h, l>> /\ h * 256 + l = n
<1>0. n \in Nat /\ n < 65536
  <2>1. n \in Nat /\ Short(n)
      OBVIOUS
  <2> QED
      BY <2>1, SMT DEF Short
<1>1. (n % 65536) = n
    BY <1>0, SMT
<1> DEFINE h == n \div 256
           l == n % 256
<1>2. h \in Int /\ 0 <= h /\ h <= 255
    BY <1>0, SMT
<1>3. l \in Int /\ 0 <= l /\ l <= 255
    BY <1>0, SMT
<1>4. h * 256 + l = n
    BY <1>0, SMT
<1>5. U16(Cast16(n)) = <<h, l>>
  <2>1. Cast16(n) = n
      BY <1>1, SMT DEF Cast16
  <2> QED
      BY <2>1 DEF U16
<1> HIDE DEF h, l
<1>6. h \in Byte /\ l \in Byte
    BY <1>2, <1>3, SMT DEF Byte
<1> QED
    BY <1>4, <1>5, <1>6, Zenon

LEMMA Pair ==
    ASSUME NEW h \in Byte, NEW l \in Byte
    PROVE  <<h, l>> \in Seq(Byte) /\ Len(<<h, l>>) = 2 /\ <<h, l>>[1] = h /\ <<h, l>>[2] = l
<1> HIDE DEF Byte
<1> QED
    OBVIOUS

LEMMA SizeBytes ==
    ASSUME NEW n \in Nat, Short(n)
    PROVE  /\ U16(Cast16(n)) \in Seq(Byte) /\ Len(U16(Cast16(n))) = 2
           /\ TopicLen(U16(Cast16(n))) = n
<1>1. PICK h \in Byte, l \in Byte : U16(Cast16(n)) = <<h, l>> /\ h * 256 + l = n
    BY TwoBytes, Zenon
<1>2. <<h, l>> \in Seq(Byte) /\ Len(<<h, l>>) = 2 /\ <<h, l>>[1] = h /\ <<h, l>>[2] = l
    BY Pair, Zenon
<1>3. TopicLen(<<h, l>>) = n
    BY <1>1, <1>2, Zenon DEF TopicLen
<1> QED
    BY <1>1, <1>2, <1>3, Zenon

LEMMA PublishIsThree == PublishFirst(0) \in Byte /\ (PublishFirst(0) \div 16) = 3
<1>1. PublishFirst(0) = 48
    BY SMT DEF PublishFirst
<1> HIDE DEF PublishFirst
<1>2. (48 \div 16) = 3 /\ 48 \in 0 .. 255
    BY SMT
<1> QED
    BY <1>1, <1>2, SMT DEF Byte

\* processPacket() takes a body apart as publish() put it together.
LEMMA BodyTakenApart ==
    ASSUME NEW topic \in Seq(Byte), NEW payload \in Seq(Byte), Short(Len(topic))
    PROVE  /\ PublishBody(topic, payload, 0, 0) \in Seq(Byte)
           /\ Len(PublishBody(topic, payload, 0, 0)) = 2 + Len(topic) + Len(payload)
           /\ ProcessPublish(PublishBody(topic, payload, 0, 0))
                = [topic |-> topic, payload |-> payload]
<1> DEFINE u    == U16(Cast16(Len(topic)))
           body == (u \o topic) \o payload
<1> HIDE DEF u, body
<1>1. Len(topic) \in Nat /\ Len(payload) \in Nat
    BY LenProperties
<1>2. u \in Seq(Byte) /\ Len(u) = 2 /\ TopicLen(u) = Len(topic)
    BY <1>1, SizeBytes, Zenon DEF u
<1>3. /\ u \o topic \in Seq(Byte) /\ Len(u \o topic) = Len(u) + Len(topic)
      /\ \A i \in 1 .. Len(u) + Len(topic) :
            (u \o topic)[i] = IF i <= Len(u) THEN u[i] ELSE topic[i - Len(u)]
    BY <1>2, ConcatProperties
<1>4. /\ body \in Seq(Byte) /\ Len(body) = Len(u \o topic) + Len(payload)
      /\ \A i \in 1 .. Len(u \o topic) + Len(payload) :
            body[i] = IF i <= Len(u \o topic) THEN (u \o topic)[i]
                      ELSE payload[i - Len(u \o topic)]
    BY <1>3, ConcatProperties DEF body
<1>5. PublishBody(topic, payload, 0, 0) = body
  <2>1. << >> \o payload = payload
      BY ConcatEmptySeq
  <2>2. Identifier(0, 0) = << >>
      BY SMT DEF Identifier
  <2>3. Str(topic) = u \o topic
      BY DEF Str, u
  <2> QED
      BY <2>1, <2>2, <2>3, Zenon DEF PublishBody, body
<1>6. body[1] = u[1] /\ body[2] = u[2]
    BY <1>1, <1>2, <1>3, <1>4
<1>7. TopicLen(body) = Len(topic)
    BY <1>2, <1>6, Zenon DEF TopicLen
<1>8. /\ SubSeq(body, Len(u) + 1, Len(u) + Len(topic)) = topic
      /\ SubSeq(body, Len(u) + Len(topic) + 1, Len(body)) = payload
  <2>1. u \in Seq(Byte)
      BY <1>2
  <2>2. \A a, b, c \in Seq(Byte) :
            /\ SubSeq((a \o b) \o c, Len(a) + 1, Len(a) + Len(b)) = b
            /\ SubSeq((a \o b) \o c, Len(a) + Len(b) + 1, Len((a \o b) \o c)) = c
      BY Stretch
  <2>3. /\ SubSeq((u \o topic) \o payload, Len(u) + 1, Len(u) + Len(topic)) = topic
        /\ SubSeq((u \o topic) \o payload, Len(u) + Len(topic) + 1,
                  Len((u \o topic) \o payload)) = payload
      BY <2>1, <2>2
  <2> QED
      BY <2>3, Zenon DEF body
<1>9. /\ Len(u) + 1 = 3 /\ Len(u) + Len(topic) = 2 + Len(topic)
      /\ Len(u) + Len(topic) + 1 = 3 + Len(topic)
    BY <1>1, <1>2
<1>10. ProcessPublish(body) = [topic |-> topic, payload |-> payload]
    BY <1>7, <1>8, <1>9, Zenon DEF ProcessPublish
<1> QED
    BY <1>1, <1>2, <1>3, <1>4, <1>5, <1>10

\* A message published with QoS 0 is delivered with its topic and its payload,
\* and the reader stands at the next packet (publish(), readerLoop(),
\* processPacket()), if its topic fits the 16 bits its size is cast to.
THEOREM MessageCarried ==
    ASSUME NEW topic \in Seq(Byte), NEW payload \in Seq(Byte), NEW rest \in Seq(Byte),
           Short(Len(topic)), 2 + Len(topic) + Len(payload) <= MaxLength
    PROVE  CarriesMessage(topic, payload, rest)
<1> DEFINE body == PublishBody(topic, payload, 0, 0)
           got  == ReadPacket(Packet(PublishFirst(0), body) \o rest)
<1> HIDE DEF body, got
<1>1. /\ body \in Seq(Byte) /\ Len(body) = 2 + Len(topic) + Len(payload)
      /\ ProcessPublish(body) = [topic |-> topic, payload |-> payload]
    BY BodyTakenApart, Zenon DEF body
<1>3. Len(body) <= MaxLength
    BY <1>1
<1>4. got = [type |-> PublishFirst(0) \div 16, body |-> body, left |-> rest]
    BY <1>1, PublishIsThree, <1>3, PacketFound, Zenon DEF got
<1>5. got.type = 3 /\ got.body = body /\ got.left = rest
    BY PublishIsThree, <1>4, Zenon
<1>6. ProcessPublish(got.body) = [topic |-> topic, payload |-> payload]
    BY <1>1, <1>5, Zenon
<1> QED
    BY <1>5, <1>6, Zenon DEF CarriesMessage, body, got
-----------------------------------------------------------------------------
(* A packet, byte by byte.                                                 *)

\* How many bytes the length of m's packet takes.
Width(m) == LengthBytes(Len(Body(m)))

LEMMA BodyLayout ==
    ASSUME NEW m \in Messages
    PROVE  /\ Body(m) \in Seq(Byte) /\ Len(Body(m)) \in Nat
           /\ 2 <= Len(Body(m)) /\ Len(Body(m)) <= MaxLength
           /\ ProcessPublish(Body(m)) = m
<1>1. /\ m.topic \in Seq(Byte) /\ m.payload \in Seq(Byte)
      /\ m = [topic |-> m.topic, payload |-> m.payload]
      /\ Short(Len(m.topic)) /\ 2 + Len(m.topic) + Len(m.payload) <= MaxLength
    BY MessageAssumption, Zenon DEF MessageAssumption
<1>2. Len(m.topic) \in Nat /\ Len(m.payload) \in Nat
    BY <1>1, LenProperties
<1>3. Short(Len(m.topic))
    BY <1>1
<1>4. /\ Body(m) \in Seq(Byte) /\ Len(Body(m)) = 2 + Len(m.topic) + Len(m.payload)
      /\ ProcessPublish(Body(m)) = [topic |-> m.topic, payload |-> m.payload]
    BY <1>1, <1>3, BodyTakenApart, Zenon DEF Body
<1>5. ProcessPublish(Body(m)) = m
    BY <1>1, <1>4, Zenon
<1>6. \A a, b \in Nat : 2 + a + b \in Nat /\ 2 <= 2 + a + b
    OBVIOUS
<1>7. Len(Body(m)) \in Nat /\ 2 <= Len(Body(m)) /\ Len(Body(m)) <= MaxLength
    BY <1>1, <1>2, <1>4, <1>6, Zenon
<1> QED
    BY <1>4, <1>5, <1>7

\* The last byte of a length, and only that one, is below 128.
LEMMA LastDigit ==
    ASSUME NEW n \in Nat, n <= MaxLength, NEW i \in 1 .. LengthBytes(n)
    PROVE  RemainingLen(n)[i] < 128 <=> i = LengthBytes(n)
<1>1. RemainingLen(n)[i] = ((n \div Weight(i)) % 128) + (IF i < LengthBytes(n) THEN 128 ELSE 0)
      /\ LengthBytes(n) \in 1 .. 4
    BY LengthTyped
<1>2. Weight(i) \in Nat \ {0}
    BY <1>1, SMT DEF Weight
<1>3. (n \div Weight(i)) \in Int
    BY <1>2, SMT
<1> DEFINE d == n \div Weight(i)
<1> HIDE DEF d
<1>4. (d % 128) \in 0 .. 127
    BY <1>3, SMT DEF d
<1>5. RemainingLen(n)[i] = (d % 128) + (IF i < LengthBytes(n) THEN 128 ELSE 0)
    BY <1>1 DEF d
<1> QED
    BY <1>1, <1>4, <1>5, SMT

LEMMA DigitsWhole ==
    ASSUME NEW n \in Nat, n <= MaxLength, NEW s \in Seq(Byte), Len(s) = LengthBytes(n),
           \A i \in 1 .. Len(s) : s[i] = RemainingLen(n)[i]
    PROVE  ReadLength(s) = n
<1>1. RemainingLen(n) \in Seq(Byte) /\ Len(RemainingLen(n)) = LengthBytes(n)
    BY LengthTyped
<1>2. s = RemainingLen(n)
    BY <1>1, SeqEqual
<1>3. << >> \in Seq(Byte)
    BY EmptySeq
<1>4. RemainingLen(n) \o << >> = RemainingLen(n)
    BY <1>1, ConcatEmptySeq
<1>5. ReadLength(RemainingLen(n) \o << >>) = n
    BY <1>3, LengthRoundTrip
<1> QED
    BY <1>2, <1>4, <1>5

LEMMA PacketLayout ==
    ASSUME NEW m \in Messages
    PROVE  /\ Width(m) \in 1 .. 4
           /\ Bytes(m) \in Seq(Byte) /\ Len(Bytes(m)) = 1 + Width(m) + Len(Body(m))
           /\ Bytes(m)[1] = 48
           /\ \A i \in 1 .. Width(m) : Bytes(m)[1 + i] = RemainingLen(Len(Body(m)))[i]
           /\ \A j \in 1 .. Len(Body(m)) : Bytes(m)[1 + Width(m) + j] = Body(m)[j]
<1> DEFINE b == Body(m)
           r == RemainingLen(Len(b))
<1> HIDE DEF b, r
<1>1. b \in Seq(Byte) /\ Len(b) \in Nat /\ Len(b) <= MaxLength
    BY BodyLayout DEF b
<1>2. r \in Seq(Byte) /\ Len(r) = Width(m) /\ Width(m) \in 1 .. 4
    BY <1>1, LengthTyped DEF r, Width, b
<1>3. PublishFirst(0) = 48
    BY SMT DEF PublishFirst
<1>4. 48 \in Byte
    BY SMT DEF Byte
<1>5. /\ r \o b \in Seq(Byte) /\ Len(r \o b) = Len(r) + Len(b)
      /\ \A i \in 1 .. Len(r) + Len(b) : (r \o b)[i] = IF i <= Len(r) THEN r[i] ELSE b[i - Len(r)]
    BY <1>1, <1>2, ConcatProperties
<1>6. <<48>> \in Seq(Byte) /\ Len(<<48>>) = 1 /\ <<48>>[1] = 48
    BY <1>4
<1>7. Bytes(m) = <<48>> \o (r \o b)
    BY <1>3, Zenon DEF Bytes, Packet, r, b
<1>8. /\ Bytes(m) \in Seq(Byte) /\ Len(Bytes(m)) = 1 + Len(r \o b)
      /\ \A i \in 1 .. 1 + Len(r \o b) :
            Bytes(m)[i] = IF i <= 1 THEN <<48>>[i] ELSE (r \o b)[i - 1]
    BY <1>5, <1>6, <1>7, ConcatProperties
<1>9. Bytes(m)[1] = 48
    BY <1>1, <1>2, <1>5, <1>6, <1>8
<1>10. \A i \in 1 .. Width(m) : Bytes(m)[1 + i] = r[i]
  <2> TAKE i \in 1 .. Width(m)
  <2>1. 1 + i \in 1 .. 1 + Len(r \o b) /\ ~(1 + i <= 1) /\ (1 + i) - 1 = i
        /\ i \in 1 .. Len(r) + Len(b) /\ i <= Len(r)
      BY <1>1, <1>2, <1>5
  <2> QED
      BY <1>5, <1>8, <2>1
<1>11. \A j \in 1 .. Len(b) : Bytes(m)[1 + Width(m) + j] = b[j]
  <2> TAKE j \in 1 .. Len(b)
  <2> DEFINE i == Width(m) + j
  <2>1. 1 + i \in 1 .. 1 + Len(r \o b) /\ ~(1 + i <= 1) /\ (1 + i) - 1 = i
        /\ i \in 1 .. Len(r) + Len(b) /\ ~(i <= Len(r)) /\ i - Len(r) = j
        /\ 1 + Width(m) + j = 1 + i
      BY <1>1, <1>2, <1>5, SMTT(30)
  <2> HIDE DEF i
  <2> QED
      BY <1>5, <1>8, <2>1
<1> QED
    BY <1>1, <1>2, <1>5, <1>8, <1>9, <1>10, <1>11 DEF b, r
-----------------------------------------------------------------------------
(* The connection.                                                         *)

\* Where the i-th packet ends in the stream.
End(i) == IF i = 0 THEN 0 ELSE from[i] + Len(Bytes(published[i]))

\* The packet that the reader is in.
Current == published[Len(delivered) + 1]
Place   == from[Len(delivered) + 1]

\* The rest of a packet is the lock holder's.
LockInv == \A p \in Publishers : unsent[p] # << >> => holder = p

\* The packets lie one behind the other.
PlacesInv ==
    /\ Len(from) = Len(published)
    /\ \A i \in 1 .. Len(published) : from[i] = End(i - 1) /\ from[i] <= Len(stream)
    /\ Len(stream) <= End(Len(published))

\* What was written of each is what publish() made of it.
ContentInv ==
    \A i \in 1 .. Len(published) : \A j \in 1 .. Len(Bytes(published[i])) :
        from[i] + j <= Len(stream) => stream[from[i] + j] = Bytes(published[i])[j]

\* While the connection lasts, the lock holder has just what is missing of the
\* last packet; without one nothing is missing.
RestInv ==
    alive =>
    /\ holder = NoOne => Len(stream) = End(Len(published))
    /\ holder # NoOne =>
          /\ Len(published) > 0
          /\ Len(stream) + Len(unsent[holder]) = End(Len(published))
          /\ \A j \in 1 .. Len(unsent[holder]) :
                unsent[holder][j]
                  = Bytes(published[Len(published)])[Len(stream) - from[Len(published)] + j]

\* What was delivered is the beginning of what was published.
DeliveredInv ==
    /\ Len(delivered) <= Len(published)
    /\ \A i \in 1 .. Len(delivered) : delivered[i] = published[i]

\* The reader is inside a packet.
WithinInv == Len(delivered) < Len(published) /\ first = 48

LengthInv ==
    /\ WithinInv /\ data = << >>
    /\ Len(digits) < Width(Current) /\ taken = Place + 1 + Len(digits)
    /\ \A i \in 1 .. Len(digits) : digits[i] = RemainingLen(Len(Body(Current)))[i]

BodyInv ==
    /\ WithinInv
    /\ Len(data) < Len(Body(Current)) /\ taken = Place + 1 + Width(Current) + Len(data)
    /\ ReadLength(digits) = Len(Body(Current))
    /\ \A i \in 1 .. Len(data) : data[i] = Body(Current)[i]

WholeInv == WithinInv /\ data = Body(Current) /\ taken = End(Len(delivered) + 1)

ReaderInv ==
    /\ reader = "first"   => taken = End(Len(delivered))
    /\ reader = "length"  => LengthInv
    /\ reader = "body"    => BodyInv
    /\ reader = "process" => WholeInv
    /\ reader \in {"ended", "undefined"} => ~alive

StreamInv ==
    /\ StreamTypeOK
    /\ LockInv /\ PlacesInv /\ ContentInv /\ RestInv
    /\ DeliveredInv /\ ReaderInv
-----------------------------------------------------------------------------
(* Sequences of bytes.                                                     *)

\* A part of a sequence.
LEMMA Part ==
    ASSUME NEW s \in Seq(Byte), NEW a \in Nat, NEW b \in Nat, a <= b, b <= Len(s)
    PROVE  /\ SubSeq(s, a + 1, b) \in Seq(Byte) /\ Len(SubSeq(s, a + 1, b)) = b - a
           /\ \A i \in 1 .. b - a : SubSeq(s, a + 1, b)[i] = s[a + i]
<1> DEFINE t == SubSeq(s, a + 1, b)
<1>1. Len(s) \in Nat
    BY LenProperties
<1>2. \A i \in a + 1 .. b : s[i] \in Byte
    BY <1>1, ElementOfSeq
<1>3. /\ t \in Seq(Byte) /\ Len(t) = IF a + 1 <= b THEN b - (a + 1) + 1 ELSE 0
      /\ \A i \in 1 .. b - (a + 1) + 1 : t[i] = s[(a + 1) + i - 1]
    BY <1>2, SubSeqProperties
<1> HIDE DEF t
<1>4. Len(t) = b - a
    BY <1>3
<1>5. \A i \in 1 .. b - a : t[i] = s[a + i]
  <2> TAKE i \in 1 .. b - a
  <2>1. i \in 1 .. b - (a + 1) + 1 /\ (a + 1) + i - 1 = a + i
      OBVIOUS
  <2> QED
      BY <1>3, <2>1
<1> QED
    BY <1>3, <1>4, <1>5 DEF t

\* A sequence to which a part of another is appended.
LEMMA PartAppended ==
    ASSUME NEW r \in Seq(Byte), NEW s \in Seq(Byte),
           NEW a \in Nat, NEW b \in Nat, a <= b, b <= Len(s)
    PROVE  /\ r \o SubSeq(s, a + 1, b) \in Seq(Byte)
           /\ Len(r \o SubSeq(s, a + 1, b)) = Len(r) + (b - a)
           /\ \A i \in 1 .. Len(r) : (r \o SubSeq(s, a + 1, b))[i] = r[i]
           /\ \A i \in 1 .. b - a : (r \o SubSeq(s, a + 1, b))[Len(r) + i] = s[a + i]
<1> DEFINE t == SubSeq(s, a + 1, b)
<1>1. /\ t \in Seq(Byte) /\ Len(t) = b - a
      /\ \A i \in 1 .. b - a : t[i] = s[a + i]
    BY Part
<1> HIDE DEF t
<1>2. Len(r) \in Nat
    BY LenProperties
<1>3. /\ r \o t \in Seq(Byte) /\ Len(r \o t) = Len(r) + Len(t)
      /\ \A i \in 1 .. Len(r) + Len(t) : (r \o t)[i] = IF i <= Len(r) THEN r[i] ELSE t[i - Len(r)]
    BY <1>1, ConcatProperties, ZenonT(40)
<1>4. \A i \in 1 .. Len(r) : (r \o t)[i] = r[i]
    BY <1>1, <1>2, <1>3
<1>5. \A i \in 1 .. b - a : (r \o t)[Len(r) + i] = s[a + i]
  <2> TAKE i \in 1 .. b - a
  <2>1. Len(r) + i \in 1 .. Len(r) + Len(t) /\ ~(Len(r) + i <= Len(r)) /\ (Len(r) + i) - Len(r) = i
      BY <1>1, <1>2
  <2> QED
      BY <1>1, <1>3, <2>1
<1> QED
    BY <1>1, <1>3, <1>4, <1>5 DEF t

LEMMA Appended ==
    ASSUME NEW S, NEW s \in Seq(S), NEW x \in S
    PROVE  /\ Append(s, x) \in Seq(S) /\ Len(Append(s, x)) = Len(s) + 1 /\ Len(s) \in Nat
           /\ Append(s, x)[Len(s) + 1] = x
           /\ \A i \in 1 .. Len(s) : Append(s, x)[i] = s[i]
    BY AppendProperties, LenProperties

\* The packets of the history, one behind the other.
LEMMA Layout ==
    ASSUME StreamInv
    PROVE  /\ Len(published) \in Nat /\ Len(delivered) \in Nat /\ Len(stream) \in Nat
           /\ taken \in Nat /\ taken <= Len(stream)
           /\ Len(from) = Len(published) /\ Len(delivered) <= Len(published)
           /\ End(0) = 0
           /\ \A i \in 1 .. Len(published) :
                 /\ published[i] \in Messages /\ from[i] \in Nat
                 /\ from[i] = End(i - 1) /\ from[i] <= Len(stream)
                 /\ End(i) = from[i] + Len(Bytes(published[i]))
                 /\ End(i) \in Nat /\ from[i] < End(i)
           /\ Len(stream) <= End(Len(published))
<1>1. /\ published \in Seq(Messages) /\ from \in Seq(Nat) /\ delivered \in Seq(Messages)
      /\ stream \in Seq(Byte) /\ taken \in 0 .. Len(stream)
    BY DEF StreamInv, StreamTypeOK
<1>2. Len(published) \in Nat /\ Len(delivered) \in Nat /\ Len(stream) \in Nat
    BY <1>1, LenProperties
<1>3. taken \in Nat /\ taken <= Len(stream)
    BY <1>1, <1>2
<1>4. /\ Len(from) = Len(published) /\ Len(delivered) <= Len(published)
      /\ Len(stream) <= End(Len(published))
      /\ \A i \in 1 .. Len(published) : from[i] = End(i - 1) /\ from[i] <= Len(stream)
    BY DEF StreamInv, PlacesInv, DeliveredInv
<1>5. End(0) = 0
    BY DEF End
<1>6. ASSUME NEW i \in 1 .. Len(published)
      PROVE  /\ published[i] \in Messages /\ from[i] \in Nat
             /\ End(i) = from[i] + Len(Bytes(published[i]))
             /\ End(i) \in Nat /\ from[i] < End(i)
  <2>1. published[i] \in Messages /\ from[i] \in Nat
      BY <1>1, <1>4, ElementOfSeq
  <2>2. End(i) = from[i] + Len(Bytes(published[i]))
      BY <1>2 DEF End
  <2>3. Len(Bytes(published[i])) = 1 + Width(published[i]) + Len(Body(published[i]))
        /\ Width(published[i]) \in 1 .. 4 /\ Len(Body(published[i])) \in Nat
      BY <2>1, PacketLayout, BodyLayout
  <2> QED
      BY <2>1, <2>2, <2>3
<1> QED
    BY <1>2, <1>3, <1>4, <1>5, <1>6

\* The reader's next byte is in the packet it is in, or there is none.
LEMMA InPacket ==
    ASSUME StreamInv, Len(delivered) < Len(published)
    PROVE  /\ Current \in Messages /\ Place \in Nat /\ Place = End(Len(delivered))
           /\ End(Len(delivered) + 1) = Place + 1 + Width(Current) + Len(Body(Current))
           /\ Width(Current) \in 1 .. 4
           /\ Len(Body(Current)) \in Nat /\ 2 <= Len(Body(Current))
           /\ Body(Current) \in Seq(Byte)
           /\ \A j \in 1 .. 1 + Width(Current) + Len(Body(Current)) :
                 Place + j <= Len(stream) => stream[Place + j] = Bytes(Current)[j]
<1>1. Len(delivered) + 1 \in 1 .. Len(published) /\ (Len(delivered) + 1) - 1 = Len(delivered)
    BY Layout
<1>2. /\ Current \in Messages /\ Place \in Nat /\ Place = End(Len(delivered))
      /\ End(Len(delivered) + 1) = Place + Len(Bytes(Current))
    BY <1>1, Layout DEF Current, Place
<1>3. /\ Len(Bytes(Current)) = 1 + Width(Current) + Len(Body(Current))
      /\ Width(Current) \in 1 .. 4
    BY <1>2, PacketLayout
<1>4. /\ Len(Body(Current)) \in Nat /\ 2 <= Len(Body(Current))
      /\ Body(Current) \in Seq(Byte)
    BY <1>2, BodyLayout
<1>5. \A j \in 1 .. Len(Bytes(Current)) :
          Place + j <= Len(stream) => stream[Place + j] = Bytes(Current)[j]
    BY <1>1 DEF StreamInv, ContentInv, Current, Place
<1>6. \A a, c, d \in Nat : a + (1 + c + d) = a + 1 + c + d
    OBVIOUS
<1>7. End(Len(delivered) + 1) = Place + 1 + Width(Current) + Len(Body(Current))
  <2>1. End(Len(delivered) + 1) = Place + (1 + Width(Current) + Len(Body(Current)))
      BY <1>2, <1>3, Zenon
  <2>2. Width(Current) \in Nat
      BY <1>3
  <2> QED
      BY <1>2, <1>4, <1>6, <2>1, <2>2, Zenon
<1> HIDE DEF Place, Current
<1> QED
    BY <1>2, <1>3, <1>4, <1>5, <1>7, Zenon
-----------------------------------------------------------------------------
(* The actions of publish() and of the connection.                         *)

\* What the reader has got does not depend on what is published or written
\* behind it.
LEMMA ReaderUndisturbed ==
    ASSUME StreamInv, UNCHANGED <<reading, delivered>>, alive' => alive,
           Len(published') \in Nat, Len(published) <= Len(published'),
           \A i \in 1 .. Len(published) : published'[i] = published[i] /\ from'[i] = from[i]
    PROVE  DeliveredInv' /\ ReaderInv'
<1>0. UNCHANGED <<taken, reader, first, digits, data, delivered>>
    BY DEF reading
<1>1. /\ Len(published) \in Nat /\ Len(delivered) \in Nat /\ Len(delivered) <= Len(published)
    BY Layout
<1>2. DeliveredInv'
    BY <1>0, <1>1 DEF StreamInv, DeliveredInv
<1>3. End(Len(delivered))' = End(Len(delivered))
  <2>1. CASE Len(delivered) = 0
      BY <1>0, <2>1 DEF End
  <2>2. CASE Len(delivered) # 0
    <3>1. Len(delivered) \in 1 .. Len(published)
        BY <1>1, <2>2
    <3> QED
        BY <1>0, <3>1 DEF End
  <2> QED
      BY <2>1, <2>2
<1>4. CASE Len(delivered) < Len(published)
  <2>1. Len(delivered) + 1 \in 1 .. Len(published) /\ Len(delivered) + 1 # 0
      BY <1>1, <1>4
  <2>2. Current' = Current /\ Place' = Place
      BY <1>0, <2>1 DEF Current, Place
  <2>3. End(Len(delivered) + 1)' = End(Len(delivered) + 1)
      BY <1>0, <2>1 DEF End
  <2>4. WithinInv => WithinInv'
      BY <1>0, <1>1, <1>4 DEF WithinInv
  <2>5. LengthInv => LengthInv'
      BY <1>0, <2>2, <2>4 DEF LengthInv
  <2>6. BodyInv => BodyInv'
      BY <1>0, <2>2, <2>4 DEF BodyInv
  <2>7. WholeInv => WholeInv'
      BY <1>0, <2>2, <2>3, <2>4 DEF WholeInv
  <2> QED
      BY <1>0, <1>2, <1>3, <2>5, <2>6, <2>7 DEF StreamInv, ReaderInv
<1>5. CASE ~(Len(delivered) < Len(published))
  <2>1. ~WithinInv
      BY <1>5 DEF WithinInv
  <2>2. ~LengthInv /\ ~BodyInv /\ ~WholeInv
      BY <2>1 DEF LengthInv, BodyInv, WholeInv
  <2> QED
      BY <1>0, <1>2, <1>3, <2>2 DEF StreamInv, ReaderInv
<1> QED
    BY <1>4, <1>5

LEMMA PublishKeeps ==
    ASSUME StreamInv, NEW p \in Publishers, NEW m \in Messages, Publish(p, m)
    PROVE  StreamInv'
<1> DEFINE n == Len(published)
<1>1. /\ holder = NoOne /\ alive /\ holder' = p
      /\ unsent' = [unsent EXCEPT ![p] = Bytes(m)]
      /\ published' = Append(published, m) /\ from' = Append(from, Len(stream))
      /\ UNCHANGED <<stream, alive, reading, delivered>>
    BY DEF Publish
<1>2. /\ holder \in Publishers \cup {NoOne} /\ unsent \in [Publishers -> Seq(Byte)]
      /\ published \in Seq(Messages) /\ from \in Seq(Nat) /\ stream \in Seq(Byte)
    BY DEF StreamInv, StreamTypeOK
<1>3. Bytes(m) \in Seq(Byte) /\ Len(Bytes(m)) \in Nat
    BY PacketLayout, LenProperties
<1>4. /\ Len(stream) \in Nat /\ n \in Nat /\ Len(from) = n
      /\ published' \in Seq(Messages) /\ Len(published') = n + 1 /\ published'[n + 1] = m
      /\ from' \in Seq(Nat) /\ Len(from') = n + 1 /\ from'[n + 1] = Len(stream)
      /\ \A i \in 1 .. n : published'[i] = published[i] /\ from'[i] = from[i]
    BY <1>1, <1>2, Layout, Appended, SMTT(30)
<1>5. StreamTypeOK'
    BY <1>1, <1>2, <1>3, <1>4 DEF StreamInv, StreamTypeOK, reading
<1>6. LockInv'
  <2> SUFFICES ASSUME NEW q \in Publishers, unsent'[q] # << >>
               PROVE  q = p
      BY <1>1 DEF LockInv
  <2>1. q # p => unsent[q] # << >>
      BY <1>1, <1>2
  <2> QED
      BY <1>1, <2>1, ThreadAssumption DEF StreamInv, LockInv, ThreadAssumption
<1>7. Len(stream) = End(n)
    BY <1>1 DEF StreamInv, RestInv
<1>8. \A i \in 0 .. n : End(i)' = End(i)
    BY <1>4 DEF End
<1>9. End(Len(published))' = Len(stream) + Len(Bytes(m))
  <2>1. n + 1 # 0
      BY <1>4
  <2> QED
      BY <1>4, <2>1 DEF End
<1>10. PlacesInv'
  <2>1. ASSUME NEW i \in 1 .. n + 1
        PROVE  from'[i] = End(i - 1)' /\ from'[i] <= Len(stream)
    <3>1. CASE i \in 1 .. n
      <4>1. i - 1 \in 0 .. n
          BY <1>4, <3>1
      <4> QED
          BY <1>4, <1>8, <3>1, <4>1, Layout
    <3>2. CASE i = n + 1
      <4>1. i - 1 = n /\ n \in 0 .. n
          BY <1>4, <3>2
      <4> QED
          BY <1>4, <1>7, <1>8, <3>2, <4>1
    <3> QED
        BY <1>4, <3>1, <3>2
  <2>2. Len(stream) <= End(Len(published))'
      BY <1>3, <1>4, <1>9
  <2> QED
      BY <1>1, <1>4, <1>9, <2>1, <2>2 DEF PlacesInv
<1>11. ContentInv'
  <2>0. stream' = stream /\ Len(published') = n + 1
      BY <1>1, <1>4
  <2> SUFFICES ASSUME NEW i \in 1 .. n + 1, NEW j \in 1 .. Len(Bytes(published'[i])),
                      from'[i] + j <= Len(stream)
               PROVE  stream[from'[i] + j] = Bytes(published'[i])[j]
      BY <2>0, Zenon DEF ContentInv
  <2>1. CASE i \in 1 .. n
      BY <1>4, <2>1 DEF StreamInv, ContentInv
  <2>2. CASE i = n + 1
      BY <1>3, <1>4, <2>2
  <2> QED
      BY <1>4, <2>1, <2>2
<1>12. RestInv'
  <2>1. unsent'[p] = Bytes(m) /\ holder' = p /\ p # NoOne
      BY <1>1, <1>2, ThreadAssumption DEF ThreadAssumption
  <2>2. /\ Len(published') > 0
        /\ published'[Len(published')] = m /\ from'[Len(published')] = Len(stream)
      BY <1>4
  <2>3. ASSUME NEW j \in 1 .. Len(Bytes(m))
        PROVE  Bytes(m)[j] = Bytes(m)[Len(stream) - Len(stream) + j]
    <3>1. Len(stream) - Len(stream) + j = j
        BY <1>3, <1>4
    <3> QED
        BY <3>1
  <2> QED
      BY <1>1, <1>9, <2>1, <2>2, <2>3 DEF RestInv
<1>13. DeliveredInv' /\ ReaderInv'
  <2>1. n + 1 \in Nat /\ n <= n + 1
      BY <1>4
  <2> QED
      BY <1>1, <1>4, <2>1, ReaderUndisturbed
<1> QED
    BY <1>5, <1>6, <1>10, <1>11, <1>12, <1>13 DEF StreamInv

LEMMA WriteKeeps ==
    ASSUME StreamInv, NEW p \in Publishers, Write(p)
    PROVE  StreamInv'
<1> DEFINE n == Len(published)
           u == unsent[p]
<1>1. PICK c \in Chunks :
          /\ stream' = stream \o SubSeq(u, 1, AtMost(c, Len(u)))
          /\ unsent' = [unsent EXCEPT ![p] = SubSeq(@, AtMost(c, Len(u)) + 1, Len(@))]
          /\ holder' = IF AtMost(c, Len(u)) = Len(u) THEN NoOne ELSE holder
    BY DEF Write
<1> DEFINE k == AtMost(c, Len(u))
<1>2. alive /\ u # << >> /\ UNCHANGED <<alive, reading, history, delivered>>
    BY DEF Write
<1>3. /\ holder \in Publishers \cup {NoOne} /\ unsent \in [Publishers -> Seq(Byte)]
      /\ stream \in Seq(Byte) /\ u \in Seq(Byte)
      /\ Len(stream) \in Nat /\ n \in Nat /\ Len(u) \in Nat
  <2>1. holder \in Publishers \cup {NoOne} /\ unsent \in [Publishers -> Seq(Byte)] /\ stream \in Seq(Byte)
      BY DEF StreamInv, StreamTypeOK
  <2>2. u \in Seq(Byte)
      BY <2>1
  <2> QED
      BY <2>1, <2>2, Layout, LenProperties
<1>4. k \in Nat /\ 1 <= k /\ k <= Len(u)
  <2>1. c \in Nat \ {0}
      BY ChunkAssumption DEF ChunkAssumption
  <2>2. Len(u) # 0
      BY <1>2, <1>3, EmptySeq
  <2> QED
      BY <1>3, <2>1, <2>2 DEF AtMost
<1> HIDE DEF k
<1>5. holder = p /\ p # NoOne
    BY <1>2, ThreadAssumption DEF StreamInv, LockInv, ThreadAssumption
<1>6. n > 0 /\ Len(stream) + Len(u) = End(n)
    BY <1>2, <1>5 DEF StreamInv, RestInv
<1>21. \A j \in 1 .. Len(u) : u[j] = Bytes(published[n])[Len(stream) - from[n] + j]
    BY <1>2, <1>5 DEF StreamInv, RestInv
<1>7. /\ stream' \in Seq(Byte) /\ Len(stream') = Len(stream) + k
      /\ \A i \in 1 .. Len(stream) : stream'[i] = stream[i]
      /\ \A i \in 1 .. k : stream'[Len(stream) + i] = u[i]
  <2>1. 0 \in Nat /\ 0 <= k /\ 0 + 1 = 1 /\ k - 0 = k
      BY <1>4
  <2>2. \A i \in 1 .. k : 0 + i = i
      BY <1>4
  <2>3. stream' = stream \o SubSeq(u, 0 + 1, k)
      BY <1>1, <2>1 DEF k
  <2> QED
      BY <1>3, <1>4, <2>1, <2>2, <2>3, PartAppended
<1>8. /\ unsent'[p] = SubSeq(u, k + 1, Len(u)) /\ unsent'[p] \in Seq(Byte)
      /\ Len(unsent'[p]) = Len(u) - k
      /\ \A j \in 1 .. Len(u) - k : unsent'[p][j] = u[k + j]
  <2>1. unsent'[p] = SubSeq(u, k + 1, Len(u))
      BY <1>1, <1>3 DEF k
  <2> QED
      BY <1>3, <1>4, <2>1, Part
<1>22. Len(stream') = Len(stream) + k /\ Len(unsent'[p]) = Len(u) - k
    BY <1>7, <1>8
<1>9. /\ unsent' \in [Publishers -> Seq(Byte)]
      /\ \A q \in Publishers : q # p => unsent'[q] = unsent[q]
  <2>1. unsent' = [unsent EXCEPT ![p] = unsent'[p]]
      BY <1>1, <1>3, <1>8 DEF k
  <2> QED
      BY <1>3, <1>8, <2>1
<1>10. holder' = IF k = Len(u) THEN NoOne ELSE p
    BY <1>1, <1>5 DEF k
<1> HIDE DEF u
<1>11. /\ UNCHANGED <<published, from, delivered, alive>>
       /\ UNCHANGED <<taken, reader, first, digits, data>>
    BY <1>2 DEF history, reading
<1>12. StreamTypeOK'
  <2>1. taken \in 0 .. Len(stream')
      BY <1>3, <1>4, <1>7 DEF StreamInv, StreamTypeOK
  <2> QED
      BY <1>5, <1>7, <1>9, <1>10, <1>11, <2>1 DEF StreamInv, StreamTypeOK
<1>13. LockInv'
  <2> SUFFICES ASSUME NEW q \in Publishers, unsent'[q] # << >>
               PROVE  holder' = q
      BY DEF LockInv
  <2>1. q = p
      BY <1>5, <1>9 DEF StreamInv, LockInv
  <2>2. k # Len(u)
    <3>1. Len(unsent'[p]) # 0
        BY <1>8, <2>1, EmptySeq
    <3> QED
        BY <1>3, <1>4, <1>8, <3>1
  <2> QED
      BY <1>10, <2>1, <2>2
<1>14. \A i : End(i)' = End(i)
    BY <1>11 DEF End
<1>15. Len(stream') <= End(n) /\ End(n) \in Nat
    BY <1>3, <1>4, <1>6, <1>7, Layout
<1>16. PlacesInv'
    BY <1>3, <1>4, <1>7, <1>11, <1>14, <1>15, Layout, SMTT(30) DEF PlacesInv
<1>17. from[n] \in Nat /\ from[n] <= Len(stream) /\ n \in 1 .. n /\ from[n] + Len(Bytes(published[n])) = End(n)
    BY <1>3, <1>6, Layout
<1>18. ContentInv'
  <2> SUFFICES ASSUME NEW i \in 1 .. n, NEW j \in 1 .. Len(Bytes(published[i])),
                      from[i] + j <= Len(stream')
               PROVE  stream'[from[i] + j] = Bytes(published[i])[j]
      BY <1>11 DEF ContentInv
  <2>1. /\ from[i] \in Nat /\ Len(Bytes(published[i])) \in Nat
        /\ End(i) = from[i] + Len(Bytes(published[i]))
    <3>1. published[i] \in Messages
        BY Layout
    <3>2. Bytes(published[i]) \in Seq(Byte)
        BY <3>1, PacketLayout
    <3> QED
        BY <3>2, Layout, LenProperties
  <2>2. CASE from[i] + j <= Len(stream)
    <3>1. from[i] + j \in 1 .. Len(stream)
        BY <1>3, <2>1, <2>2
    <3> QED
        BY <1>7, <2>2, <3>1 DEF StreamInv, ContentInv
  <2>3. CASE ~(from[i] + j <= Len(stream))
    <3>1. i = n
      <4> SUFFICES ASSUME i # n PROVE FALSE
          OBVIOUS
      <4>1. i + 1 \in 1 .. n /\ (i + 1) - 1 = i
          BY <1>3
      <4>2. End(i) <= Len(stream)
          BY <4>1, Layout
      <4> QED
          BY <1>3, <2>1, <2>3, <4>2
    <3> DEFINE a == (from[n] + j) - Len(stream)
    <3>2. a \in 1 .. k /\ a \in 1 .. Len(u) /\ Len(stream) + a = from[n] + j
          /\ (Len(stream) - from[n]) + a = j
        BY <1>3, <1>4, <1>22, <1>17, <2>1, <2>3, <3>1, SMTT(30)
    <3> HIDE DEF a
    <3>3. stream'[Len(stream) + a] = u[a]
        BY <1>7, <3>2
    <3>4. u[a] = Bytes(published[n])[j]
        BY <1>21, <3>2
    <3> QED
        BY <3>1, <3>2, <3>3, <3>4
  <2> QED
      BY <2>2, <2>3
<1>19. RestInv'
  <2>1. CASE k = Len(u)
    <3>1. Len(stream') = End(n) /\ holder' = NoOne
        BY <1>3, <1>6, <1>7, <1>10, <2>1
    <3> QED
        BY <1>11, <1>14, <3>1 DEF RestInv
  <2>2. CASE k # Len(u)
    <3>1. holder' = p
        BY <1>10, <2>2
    <3>2. Len(stream') + Len(unsent'[p]) = End(n)
        BY <1>3, <1>4, <1>6, <1>22
    <3>3. ASSUME NEW j \in 1 .. Len(unsent'[p])
          PROVE  unsent'[p][j] = Bytes(published[n])[Len(stream') - from[n] + j]
      <4>1. j \in 1 .. Len(u) - k /\ k + j \in 1 .. Len(u)
            /\ Len(stream') - from[n] + j = Len(stream) - from[n] + (k + j)
          BY <1>3, <1>4, <1>22, <1>17
      <4> QED
          BY <1>21, <1>8, <4>1
    <3> QED
        BY <1>5, <1>6, <1>11, <1>14, <3>1, <3>2, <3>3 DEF RestInv
  <2> QED
      BY <2>1, <2>2
<1>20. DeliveredInv' /\ ReaderInv'
    BY <1>2, <1>3, <1>11, ReaderUndisturbed
<1> QED
    BY <1>12, <1>13, <1>16, <1>18, <1>19, <1>20 DEF StreamInv
LEMMA WriteFailsKeeps ==
    ASSUME StreamInv, NEW p \in Publishers, WriteFails(p)
    PROVE  StreamInv'
<1>1. /\ ~alive /\ unsent[p] # << >>
      /\ unsent' = [unsent EXCEPT ![p] = << >>] /\ holder' = NoOne
      /\ UNCHANGED <<stream, alive, published, from, delivered>>
      /\ UNCHANGED reading /\ UNCHANGED <<taken, reader, first, digits, data>>
    BY DEF WriteFails, history, reading
<1>2. unsent \in [Publishers -> Seq(Byte)] /\ << >> \in Seq(Byte)
    BY EmptySeq DEF StreamInv, StreamTypeOK
<1>3. StreamTypeOK'
    BY <1>1, <1>2 DEF StreamInv, StreamTypeOK
<1>4. LockInv'
  <2> SUFFICES ASSUME NEW q \in Publishers PROVE unsent'[q] = << >>
      BY DEF LockInv
  <2>1. unsent[q] # << >> => q = p
      BY <1>1 DEF StreamInv, LockInv
  <2> QED
      BY <1>1, <1>2, <2>1
<1>5. \A i : End(i)' = End(i)
    BY <1>1 DEF End
<1>6. PlacesInv' /\ ContentInv' /\ RestInv'
    BY <1>1, <1>5 DEF StreamInv, PlacesInv, ContentInv, RestInv
<1>7. DeliveredInv' /\ ReaderInv'
    BY <1>1, Layout, ReaderUndisturbed
<1> QED
    BY <1>3, <1>4, <1>6, <1>7 DEF StreamInv

LEMMA WriterUndisturbed ==
    ASSUME StreamInv, UNCHANGED <<writing, history>>, alive' => alive
    PROVE  LockInv' /\ PlacesInv' /\ ContentInv' /\ RestInv'
<1>1. UNCHANGED <<holder, unsent, stream, published, from>>
    BY DEF writing, history
<1>2. \A i : End(i)' = End(i)
    BY <1>1 DEF End
<1> QED
    BY <1>1, <1>2 DEF StreamInv, LockInv, PlacesInv, ContentInv, RestInv

LEMMA CutKeeps ==
    ASSUME StreamInv, Cut
    PROVE  StreamInv'
<1>1. /\ alive' = FALSE /\ UNCHANGED <<writing, history>> /\ UNCHANGED reading
      /\ UNCHANGED <<holder, unsent, stream, taken, reader, first, digits, data>>
      /\ UNCHANGED <<published, from, delivered>>
    BY DEF Cut, writing, history, reading
<1>2. StreamTypeOK'
    BY <1>1 DEF StreamInv, StreamTypeOK
<1>3. LockInv' /\ PlacesInv' /\ ContentInv' /\ RestInv'
    BY <1>1, WriterUndisturbed
<1>4. DeliveredInv' /\ ReaderInv'
    BY <1>1, Layout, ReaderUndisturbed
<1> QED
    BY <1>2, <1>3, <1>4 DEF StreamInv
-----------------------------------------------------------------------------
(* The actions of the reader.                                              *)

LEMMA ReadFirstKeeps ==
    ASSUME StreamInv, ReadFirst
    PROVE  StreamInv'
<1>1. /\ reader = "first" /\ Len(stream) - taken > 0
      /\ first' = stream[taken + 1] /\ taken' = taken + 1
      /\ digits' = << >> /\ data' = << >> /\ reader' = "length"
      /\ UNCHANGED <<writing, history>> /\ UNCHANGED <<holder, unsent, stream, alive>>
      /\ UNCHANGED <<published, from, delivered>>
    BY DEF ReadFirst, Available, writing, history
<1>2. /\ taken = End(Len(delivered)) /\ stream \in Seq(Byte) /\ DeliveredInv
    BY <1>1 DEF StreamInv, StreamTypeOK, ReaderInv
<1>3. Len(delivered) < Len(published)
    BY <1>1, <1>2, Layout
<1>4. first' = 48
  <2>1. Place + 1 = taken + 1 /\ Place + 1 <= Len(stream)
        /\ 1 \in 1 .. 1 + Width(Current) + Len(Body(Current)) /\ Current \in Messages
      BY <1>1, <1>2, <1>3, InPacket, Layout, SMTT(30)
  <2>2. stream[Place + 1] = Bytes(Current)[1]
      BY <1>3, <2>1, InPacket
  <2> QED
      BY <1>1, <2>1, <2>2, PacketLayout
<1>5. StreamTypeOK'
  <2>1. << >> \in Seq(Byte) /\ 48 \in Byte /\ taken' \in 0 .. Len(stream)
      BY <1>1, EmptySeq, Layout DEF Byte
  <2> QED
      BY <1>1, <1>4, <2>1 DEF StreamInv, StreamTypeOK, ReaderSteps
<1>6. LockInv' /\ PlacesInv' /\ ContentInv' /\ RestInv'
    BY <1>1, WriterUndisturbed
<1>7. DeliveredInv'
    BY <1>1, <1>2 DEF DeliveredInv
<1>8. LengthInv'
  <2>1. Current' = Current /\ Place' = Place
      BY <1>1 DEF Current, Place
  <2>2. Len(<< >>) = 0 /\ 0 < Width(Current) /\ taken + 1 = Place + 1 + 0
      BY <1>2, <1>3, InPacket, EmptySeq
  <2> QED
      BY <1>1, <1>3, <1>4, <2>1, <2>2 DEF LengthInv, WithinInv
<1> QED
    BY <1>1, <1>5, <1>6, <1>7, <1>8 DEF StreamInv, ReaderInv

LEMMA ReadDigitsKeeps ==
    ASSUME StreamInv, ReadDigits
    PROVE  StreamInv'
<1> DEFINE x == stream[taken + 1]
           k == Len(digits) + 1
           b == Body(Current)
<1>1. /\ reader = "length" /\ Len(stream) - taken > 0
      /\ digits' = Append(digits, x) /\ taken' = taken + 1
      /\ reader' = IF x >= 128 THEN "length"
                   ELSE IF ReadLength(digits') > 0 THEN "body" ELSE "process"
      /\ UNCHANGED <<writing, history>> /\ UNCHANGED <<holder, unsent, stream, alive>>
      /\ UNCHANGED <<first, data, published, from, delivered>>
    BY DEF ReadDigits, Available, writing, history
<1>2. /\ Len(delivered) < Len(published) /\ first = 48 /\ data = << >>
      /\ Len(digits) < Width(Current) /\ taken = Place + 1 + Len(digits)
      /\ \A i \in 1 .. Len(digits) : digits[i] = RemainingLen(Len(b))[i]
    BY <1>1 DEF StreamInv, ReaderInv, LengthInv, WithinInv
<1>3. stream \in Seq(Byte) /\ digits \in Seq(Byte) /\ DeliveredInv
    BY DEF StreamInv, StreamTypeOK
<1>4. /\ Current \in Messages /\ Place \in Nat /\ Width(Current) \in 1 .. 4
      /\ Len(b) \in Nat /\ 2 <= Len(b) /\ Len(b) <= MaxLength
      /\ \A j \in 1 .. 1 + Width(Current) + Len(b) :
            Place + j <= Len(stream) => stream[Place + j] = Bytes(Current)[j]
    BY <1>2, InPacket, BodyLayout
<1>5. Len(digits) \in Nat /\ taken \in Nat /\ Len(stream) \in Nat
    BY <1>3, Layout, LenProperties
<1>6. k \in 1 .. Width(Current) /\ Place + (1 + k) = taken + 1
      /\ 1 + k \in 1 .. 1 + Width(Current) + Len(b) /\ Place + (1 + k) <= Len(stream)
      /\ taken + 1 \in 1 .. Len(stream)
    BY <1>1, <1>2, <1>4, <1>5, SMTT(30)
<1>7. x \in Byte /\ x = RemainingLen(Len(b))[k]
  <2>1. x = Bytes(Current)[1 + k]
      BY <1>4, <1>6
  <2> QED
      BY <1>3, <1>4, <1>6, <2>1, PacketLayout, ElementOfSeq
<1>8. x \in Int /\ (x < 128 <=> k = Width(Current))
  <2>1. RemainingLen(Len(b))[k] < 128 <=> k = LengthBytes(Len(b))
      BY <1>4, <1>6, LastDigit DEF Width
  <2>2. Width(Current) = LengthBytes(Len(b))
      BY DEF Width
  <2> HIDE DEF x
  <2>3. x \in Int
      BY <1>7 DEF Byte
  <2> QED
      BY <1>7, <2>1, <2>2, <2>3
<1> HIDE DEF x, b
<1>9. /\ digits' \in Seq(Byte) /\ Len(digits') = k
      /\ \A i \in 1 .. k : digits'[i] = RemainingLen(Len(b))[i]
  <2>1. /\ digits' \in Seq(Byte) /\ Len(digits') = k /\ digits'[k] = x
        /\ \A i \in 1 .. Len(digits) : digits'[i] = digits[i]
      BY <1>1, <1>3, <1>7, Appended
  <2>2. ASSUME NEW i \in 1 .. k PROVE digits'[i] = RemainingLen(Len(b))[i]
    <3>1. i \in 1 .. Len(digits) \/ i = k
        BY <1>5
    <3> QED
        BY <1>2, <1>7, <2>1, <3>1
  <2> QED
      BY <2>1, <2>2
<1>10. Current' = Current /\ Place' = Place
    BY <1>1 DEF Current, Place
<1>11. reader' \in {"length", "body", "process"}
    BY <1>1
<1>12. StreamTypeOK'
  <2>1. taken' \in 0 .. Len(stream')
      BY <1>1, <1>5, <1>6
  <2> QED
      BY <1>1, <1>9, <1>11, <2>1 DEF StreamInv, StreamTypeOK, ReaderSteps
<1>13. LockInv' /\ PlacesInv' /\ ContentInv' /\ RestInv'
    BY <1>1, WriterUndisturbed
<1>14. DeliveredInv'
    BY <1>1, <1>3 DEF DeliveredInv
<1>15. WithinInv'
    BY <1>1, <1>2 DEF WithinInv
<1>16. CASE k = Width(Current)
  <2>1. ReadLength(digits') = Len(b)
      BY <1>4, <1>9, <1>16, DigitsWhole DEF Width, b
  <2>2. reader' = "body"
      BY <1>1, <1>4, <1>8, <1>16, <2>1
  <2>3. Len(<< >>) = 0 /\ 0 < Len(b) /\ taken' = Place + 1 + Width(Current) + 0
    <3>1. taken' = (Place + 1 + Len(digits)) + 1
        BY <1>1, <1>2
    <3> QED
        BY <1>4, <1>5, <1>16, <3>1, EmptySeq
  <2>4. BodyInv'
      BY <1>1, <1>2, <1>10, <1>15, <2>1, <2>3 DEF BodyInv, b
  <2> QED
      BY <1>12, <1>13, <1>14, <2>2, <2>4 DEF StreamInv, ReaderInv
<1>17. CASE k # Width(Current)
  <2>1. reader' = "length"
      BY <1>1, <1>8, <1>17
  <2>2. k < Width(Current) /\ taken' = Place + 1 + k
      BY <1>1, <1>2, <1>4, <1>5, <1>6, <1>17, SMTT(30)
  <2>3. LengthInv'
      BY <1>1, <1>2, <1>9, <1>10, <1>15, <2>2 DEF LengthInv, b
  <2> QED
      BY <1>12, <1>13, <1>14, <2>1, <2>3 DEF StreamInv, ReaderInv
<1> QED
    BY <1>16, <1>17
LEMMA ReadBodyKeeps ==
    ASSUME StreamInv, ReadBody
    PROVE  StreamInv'
<1> DEFINE b == Body(Current)
           w == Width(Current)
<1>1. /\ reader = "body" /\ Len(stream) - taken > 0
      /\ UNCHANGED <<writing, history>> /\ UNCHANGED <<holder, unsent, stream, alive>>
      /\ UNCHANGED <<first, digits, published, from, delivered>>
    BY DEF ReadBody, Available, writing, history
<1>2. /\ Len(delivered) < Len(published) /\ first = 48
      /\ Len(data) < Len(b) /\ taken = Place + 1 + w + Len(data)
      /\ ReadLength(digits) = Len(b)
      /\ \A i \in 1 .. Len(data) : data[i] = b[i]
    BY <1>1 DEF StreamInv, ReaderInv, BodyInv, WithinInv
<1>3. stream \in Seq(Byte) /\ data \in Seq(Byte) /\ DeliveredInv
    BY DEF StreamInv, StreamTypeOK
<1>4. /\ Current \in Messages /\ Place \in Nat /\ w \in 1 .. 4
      /\ Len(b) \in Nat /\ 2 <= Len(b) /\ b \in Seq(Byte)
      /\ End(Len(delivered) + 1) = Place + 1 + w + Len(b)
      /\ \A j \in 1 .. 1 + w + Len(b) :
            Place + j <= Len(stream) => stream[Place + j] = Bytes(Current)[j]
    BY <1>2, InPacket
<1>5. Len(data) \in Nat /\ taken \in Nat /\ Len(stream) \in Nat
    BY <1>3, Layout, LenProperties
<1>6. PICK c \in Chunks :
          LET n == AtMost(c, AtMost(Missing, Available))
          IN  /\ data' = data \o SubSeq(stream, taken + 1, taken + n)
              /\ taken' = taken + n
              /\ reader' = IF n = Missing THEN "process" ELSE "body"
    BY DEF ReadBody
<1> DEFINE n == AtMost(c, AtMost(Missing, Available))
<1>7. Missing = Len(b) - Len(data) /\ Available = Len(stream) - taken
    BY <1>2 DEF Missing, Available
<1>8. n \in Nat /\ 1 <= n /\ n <= Len(b) - Len(data) /\ taken + n <= Len(stream)
  <2>1. c \in Nat \ {0}
      BY ChunkAssumption DEF ChunkAssumption
  <2>2. /\ Missing \in Nat /\ 1 <= Missing
        /\ Available \in Nat /\ 1 <= Available
      BY <1>1, <1>2, <1>4, <1>5, <1>7, SMTT(30)
  <2>3. n \in Nat /\ 1 <= n /\ n <= Missing /\ n <= Available
    <3> HIDE DEF Missing, Available
    <3> QED
        BY <2>1, <2>2 DEF AtMost
  <2> HIDE DEF n
  <2> QED
      BY <1>5, <1>7, <2>3
<1>9. /\ data' = data \o SubSeq(stream, taken + 1, taken + n) /\ taken' = taken + n
      /\ reader' = IF n = Len(b) - Len(data) THEN "process" ELSE "body"
    BY <1>6, <1>7
<1> HIDE DEF n, b, w
<1>10. /\ data' \in Seq(Byte) /\ Len(data') = Len(data) + n
       /\ \A i \in 1 .. Len(data) : data'[i] = data[i]
       /\ \A i \in 1 .. n : data'[Len(data) + i] = stream[taken + i]
  <2>1. taken + n \in Nat /\ taken <= taken + n /\ (taken + n) - taken = n
      BY <1>5, <1>8
  <2> DEFINE e == taken + n
  <2>2. data' = data \o SubSeq(stream, taken + 1, e)
      BY <1>9
  <2> HIDE DEF e
  <2>3. e \in Nat /\ taken <= e /\ e - taken = n /\ e <= Len(stream)
      BY <1>8, <2>1 DEF e
  <2> QED
      BY <1>3, <1>5, <2>2, <2>3, PartAppended
<1>11. \A i \in 1 .. Len(data') : data'[i] = b[i]
  <2> SUFFICES ASSUME NEW i \in 1 .. Len(data) + n PROVE data'[i] = b[i]
      BY <1>10
  <2>1. CASE i \in 1 .. Len(data)
      BY <1>2, <1>10, <2>1
  <2>2. CASE i \notin 1 .. Len(data)
    <3> DEFINE a == i - Len(data)
    <3>1. /\ a \in 1 .. n /\ Len(data) + a = i /\ i \in 1 .. Len(b)
          /\ taken + a = Place + (1 + w + i) /\ Place + (1 + w + i) <= Len(stream)
          /\ 1 + w + i \in 1 .. 1 + w + Len(b)
        BY <1>2, <1>4, <1>5, <1>8, <2>2, SMTT(30)
    <3> HIDE DEF a
    <3>2. data'[i] = stream[Place + (1 + w + i)]
        BY <1>10, <3>1
    <3>3. stream[Place + (1 + w + i)] = Bytes(Current)[1 + w + i]
        BY <1>4, <3>1
    <3>4. Bytes(Current)[1 + w + i] = b[i]
        BY <1>4, <3>1, PacketLayout DEF b, w
    <3> QED
        BY <3>2, <3>3, <3>4
  <2> QED
      BY <2>1, <2>2
<1>12. Current' = Current /\ Place' = Place
    BY <1>1 DEF Current, Place
<1>13. StreamTypeOK'
  <2>1. taken' \in 0 .. Len(stream') /\ reader' \in {"body", "process"}
      BY <1>1, <1>5, <1>8, <1>9
  <2> QED
      BY <1>1, <1>10, <2>1 DEF StreamInv, StreamTypeOK, ReaderSteps
<1>14. LockInv' /\ PlacesInv' /\ ContentInv' /\ RestInv'
    BY <1>1, WriterUndisturbed
<1>15. DeliveredInv'
    BY <1>1, <1>3 DEF DeliveredInv
<1>16. WithinInv'
    BY <1>1, <1>2 DEF WithinInv
<1>17. taken' = Place + 1 + w + Len(data')
  <2>1. taken' = (Place + 1 + w + Len(data)) + n /\ Len(data') = Len(data) + n
      BY <1>2, <1>9, <1>10
  <2> QED
      BY <1>4, <1>5, <1>8, <2>1
<1>18. CASE n = Len(b) - Len(data)
  <2>1. reader' = "process"
      BY <1>9, <1>18
  <2>2. Len(data') = Len(b)
      BY <1>4, <1>5, <1>10, <1>18
  <2>3. data' = b
      BY <1>4, <1>10, <1>11, <2>2, SeqEqual
  <2>4. End(Len(delivered) + 1)' = End(Len(delivered) + 1)
      BY <1>1 DEF End
  <2>5. taken' = End(Len(delivered) + 1)
      BY <1>4, <1>17, <2>2
  <2>6. WholeInv'
      BY <1>12, <1>16, <2>3, <2>4, <2>5 DEF WholeInv, b
  <2> QED
      BY <1>13, <1>14, <1>15, <2>1, <2>6 DEF StreamInv, ReaderInv
<1>19. CASE n # Len(b) - Len(data)
  <2>1. reader' = "body"
      BY <1>9, <1>19
  <2>2. Len(data') < Len(b)
    <3>1. Len(data') = Len(data) + n
        BY <1>10
    <3> QED
        BY <1>4, <1>5, <1>8, <1>19, <3>1
  <2>3. BodyInv'
      BY <1>1, <1>2, <1>11, <1>12, <1>16, <1>17, <2>2 DEF BodyInv, b, w
  <2> QED
      BY <1>13, <1>14, <1>15, <2>1, <2>3 DEF StreamInv, ReaderInv
<1> QED
    BY <1>18, <1>19

\* processPacket() gives the callbacks the next message.
LEMMA ProcessDelivers ==
    ASSUME StreamInv, Process
    PROVE  /\ Len(delivered) < Len(published) /\ Current \in Messages
           /\ delivered' = Append(delivered, Current)
           /\ taken = End(Len(delivered) + 1)
<1>1. WithinInv /\ data = Body(Current) /\ taken = End(Len(delivered) + 1)
    BY DEF Process, StreamInv, ReaderInv, WholeInv
<1>2. Len(delivered) < Len(published) /\ first = 48
    BY <1>1 DEF WithinInv
<1>3. Current \in Messages
    BY <1>2, InPacket
<1>4. ProcessPublish(data) = Current
    BY <1>1, <1>3, BodyLayout
<1>5. (48 \div 16) = 3
    BY SMT
<1>6. IsPublish
    BY <1>2, <1>5 DEF IsPublish
<1> QED
    BY <1>1, <1>2, <1>3, <1>4, <1>6 DEF Process

LEMMA ProcessKeeps ==
    ASSUME StreamInv, Process
    PROVE  StreamInv'
<1> DEFINE d == Len(delivered)
<1>1. /\ reader' = "first"
      /\ UNCHANGED <<writing, history>> /\ UNCHANGED <<holder, unsent, stream, alive>>
      /\ UNCHANGED <<taken, first, digits, data, published, from>>
    BY DEF Process, writing, history
<1>2. /\ d < Len(published) /\ Current \in Messages
      /\ delivered' = Append(delivered, Current) /\ taken = End(d + 1)
    BY ProcessDelivers
<1>3. delivered \in Seq(Messages) /\ d \in Nat /\ Len(published) \in Nat
    BY Layout DEF StreamInv, StreamTypeOK
<1>4. /\ delivered' \in Seq(Messages) /\ Len(delivered') = d + 1
      /\ delivered'[d + 1] = published[d + 1]
      /\ \A i \in 1 .. d : delivered'[i] = delivered[i]
    BY <1>2, <1>3, Appended DEF Current
<1>5. StreamTypeOK'
    BY <1>1, <1>4 DEF StreamInv, StreamTypeOK, ReaderSteps
<1>6. LockInv' /\ PlacesInv' /\ ContentInv' /\ RestInv'
    BY <1>1, WriterUndisturbed
<1>7. DeliveredInv'
  <2>1. ASSUME NEW i \in 1 .. d + 1 PROVE delivered'[i] = published[i]
    <3>1. i \in 1 .. d \/ i = d + 1
        BY <1>3
    <3> QED
        BY <1>4, <3>1 DEF StreamInv, DeliveredInv
  <2>2. d + 1 <= Len(published)
      BY <1>2, <1>3
  <2> QED
      BY <1>1, <1>4, <2>1, <2>2 DEF DeliveredInv
<1>8. \A i : End(i)' = End(i)
    BY <1>1 DEF End
<1>9. taken' = End(Len(delivered))'
  <2>1. d + 1 # 0
      BY <1>3
  <2> QED
      BY <1>1, <1>2, <1>4, <2>1 DEF End
<1> QED
    BY <1>1, <1>5, <1>6, <1>7, <1>9 DEF StreamInv, ReaderInv

LEMMA ReadFailsKeeps ==
    ASSUME StreamInv, ReadFails
    PROVE  StreamInv'
<1>1. /\ ~alive /\ reader' \in {"ended", "undefined"}
      /\ UNCHANGED <<writing, history>> /\ UNCHANGED <<holder, unsent, stream, alive>>
      /\ UNCHANGED <<taken, first, digits, data, published, from, delivered>>
    BY DEF ReadFails, writing, history
<1>2. StreamTypeOK'
    BY <1>1 DEF StreamInv, StreamTypeOK, ReaderSteps
<1>3. LockInv' /\ PlacesInv' /\ ContentInv' /\ RestInv'
    BY <1>1, WriterUndisturbed
<1>4. DeliveredInv'
    BY <1>1 DEF StreamInv, DeliveredInv
<1>5. ReaderInv'
    BY <1>1 DEF ReaderInv
<1> QED
    BY <1>2, <1>3, <1>4, <1>5 DEF StreamInv

\* A new connection, like the first one.
LEMMA ConnectionBegins ==
    ASSUME Init
    PROVE  StreamInv
<1>1. Len(<< >>) = 0 /\ << >> \in Seq(Byte) /\ << >> \in Seq(Nat) /\ << >> \in Seq(Messages)
    BY EmptySeq
<1>2. End(0) = 0
    BY DEF End
<1>3. StreamTypeOK
    BY <1>1 DEF Init, StreamTypeOK, ReaderSteps, Byte
<1>4. LockInv
    BY DEF Init, LockInv
<1>5. PlacesInv /\ ContentInv /\ DeliveredInv
    BY <1>1, <1>2 DEF Init, PlacesInv, ContentInv, DeliveredInv
<1>6. RestInv
    BY <1>1, <1>2 DEF Init, RestInv
<1>7. ReaderInv
    BY <1>1, <1>2 DEF Init, ReaderInv
<1> QED
    BY <1>3, <1>4, <1>5, <1>6, <1>7 DEF StreamInv

LEMMA ReconnectKeeps ==
    ASSUME Reconnect
    PROVE  StreamInv'
<1>1. /\ holder' = NoOne /\ unsent' = [p \in Publishers |-> << >>] /\ stream' = << >>
      /\ alive' = TRUE /\ taken' = 0 /\ reader' = "first" /\ first' = 0
      /\ digits' = << >> /\ data' = << >>
      /\ published' = << >> /\ from' = << >> /\ delivered' = << >>
    BY DEF Reconnect
<1>2. Len(<< >>) = 0 /\ << >> \in Seq(Byte) /\ << >> \in Seq(Nat) /\ << >> \in Seq(Messages)
    BY EmptySeq
<1>3. \A i : i = 0 => End(i)' = 0
    BY DEF End
<1>4. StreamTypeOK'
    BY <1>1, <1>2 DEF StreamTypeOK, ReaderSteps, Byte
<1>5. LockInv'
    BY <1>1 DEF LockInv
<1>6. PlacesInv' /\ ContentInv' /\ DeliveredInv'
    BY <1>1, <1>2 DEF PlacesInv, ContentInv, DeliveredInv, End
<1>7. RestInv'
    BY <1>1, <1>2 DEF RestInv, End
<1>8. ReaderInv'
    BY <1>1, <1>2 DEF ReaderInv, End
<1> QED
    BY <1>4, <1>5, <1>6, <1>7, <1>8 DEF StreamInv

-----------------------------------------------------------------------------
(* The specification.                                                      *)

THEOREM StreamInvariant == Spec => []StreamInv
<1>1. Init => StreamInv
    BY ConnectionBegins
<1>2. StreamInv /\ [Next]_vars => StreamInv'
  <2> SUFFICES ASSUME StreamInv, [Next]_vars PROVE StreamInv'
      OBVIOUS
  <2>1. CASE UNCHANGED vars
    <3>1. UNCHANGED <<writing, history>> /\ UNCHANGED reading
          /\ UNCHANGED <<holder, unsent, stream, alive, taken, reader, first, digits, data>>
          /\ UNCHANGED <<published, from, delivered>>
        BY <2>1 DEF vars, writing, reading, history
    <3>2. StreamTypeOK'
        BY <3>1 DEF StreamInv, StreamTypeOK
    <3> QED
        BY <3>1, <3>2, Layout, WriterUndisturbed, ReaderUndisturbed DEF StreamInv
  <2>2. ASSUME NEW p \in Publishers, NEW m \in Messages, Publish(p, m)
        PROVE  StreamInv'
      BY <2>2, PublishKeeps
  <2>3. ASSUME NEW p \in Publishers, Write(p) \/ WriteFails(p)
        PROVE  StreamInv'
      BY <2>3, WriteKeeps, WriteFailsKeeps
  <2>4. CASE ReaderStep
      BY <2>4, ReadFirstKeeps, ReadDigitsKeeps, ReadBodyKeeps, ProcessKeeps, ReadFailsKeeps
         DEF ReaderStep
  <2>5. CASE Cut
      BY <2>5, CutKeeps
  <2>6. CASE Reconnect
      BY <2>6, ReconnectKeeps
  <2> QED
      BY <2>1, <2>2, <2>3, <2>4, <2>5, <2>6 DEF Next, WriteStep
<1> QED
    BY <1>1, <1>2, PTL DEF Spec

\* What the callbacks get is a message that somebody published, however reads
\* and writes cut the packets up (readerLoop(), processPacket()).
THEOREM StreamTypes == Spec => []StreamTypeOK
    BY StreamInvariant, PTL DEF StreamInv

\* A connection of MqttClient is a queue: messages arrive whole, in the order
\* of writeMu_ and once, for any number of publishers and any sizes of messages,
\* reads and writes; a new connection begins empty.
THEOREM StreamRefinement == Spec => ImplementsQueue
<1>1. Init => Queue!Init
    BY DEF Init, Queue!Init
<1>2. StreamInv /\ [Next]_vars => [Queue!Next]_(Queue!vars)
  <2> SUFFICES ASSUME StreamInv, [Next]_vars PROVE [Queue!Next]_(Queue!vars)
      OBVIOUS
  <2>1. CASE UNCHANGED vars
      BY <2>1 DEF vars, history, Queue!vars
  <2>2. ASSUME NEW p \in Publishers, NEW m \in Messages, Publish(p, m)
        PROVE  Queue!Send
      BY <2>2 DEF Publish, Queue!Send
  <2>3. ASSUME NEW p \in Publishers, Write(p) \/ WriteFails(p)
        PROVE  UNCHANGED Queue!vars
      BY <2>3 DEF Write, WriteFails, history, Queue!vars
  <2>4. CASE ReadFirst \/ ReadDigits \/ ReadBody \/ ReadFails
      BY <2>4 DEF ReadFirst, ReadDigits, ReadBody, ReadFails, history, Queue!vars
  <2>5. ASSUME Process PROVE Queue!Deliver
      BY <2>5, ProcessDelivers DEF Process, history, Current, Queue!Deliver
  <2>6. ASSUME Cut PROVE Queue!Close
      BY <2>6 DEF Cut, history, Queue!Close
  <2>7. ASSUME Reconnect PROVE Queue!Renew
      BY <2>7 DEF Reconnect, StreamInv, ReaderInv, Queue!Renew
  <2> QED
      BY <2>1, <2>2, <2>3, <2>4, <2>5, <2>6, <2>7
         DEF Next, WriteStep, ReaderStep, Queue!Next
<1> QED
    BY <1>1, <1>2, StreamInvariant, PTL DEF Spec, ImplementsQueue, Queue!Spec
=============================================================================
