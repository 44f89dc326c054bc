------------------------------ MODULE CodecProofs ------------------------------
(***************************************************************************)
(* What holds of the codecs for every text: what one library writes the    *)
(* other reads; what the broker writes the gateway reads; an id it writes  *)
(* over a packet is read with it; what it makes of a packet tells a client *)
(* what the broker meant, and what it makes of a client's message tells    *)
(* the broker what the client meant; and all that is ever in the air is    *)
(* octets.                                                                 *)
(***************************************************************************)
EXTENDS Codecs, SequenceTheorems, TLAPS

----------------------------------------------------------------------------
(* The parts of a packet. *)

Octets == Seq(Nat)

\* What two octets hold is a number: the interval by its ends.
LEMMA WordIs == \A n : n \in Word <=> n \in Int /\ 0 <= n /\ n <= 65535
<1> DEFINE last == 65535
<1>1. Word = 0 .. last /\ last \in Int
  BY DEF Word
<1> HIDE DEF last
<1>2. \A n : n \in Word <=> n \in Int /\ 0 <= n /\ n <= last
  BY <1>1
<1> QED BY <1>2 DEF last

LEMMA WordIsNat == Word \subseteq Nat
BY WordIs

\* One octet.
LEMMA OneOctet ==
    ASSUME NEW n \in Nat
    PROVE  <<n>> \in Octets /\ Len(<<n>>) = 1 /\ <<n>>[1] = n
BY DEF Octets

\* writeInt makes two octets, from which readInt gets the number back.
LEMMA IntOctets ==
    ASSUME NEW n \in Word
    PROVE  /\ writeInt(n) \in Octets /\ Len(writeInt(n)) = 2
           /\ readInt(writeInt(n), 1) = n
           /\ writeInt(n)[1] = n \div 256 /\ writeInt(n)[2] = n % 256
<1> DEFINE h == n \div 256
           l == n % 256
<1>1. h \in 0 .. 255 /\ l \in 0 .. 255 /\ 256 * h + l = n
  <2>1. n \in Nat /\ n < 65536
    BY WordIs
  <2>2. h \in Int /\ l \in Int /\ n = 256 * h + l /\ 0 <= l /\ l < 256
    BY <2>1
  <2> HIDE DEF h, l
  <2>3. 0 <= h /\ h <= 255
    BY <2>1, <2>2
  <2> QED BY <2>2, <2>3
<1>2. h % 256 = h
  BY <1>1
<1> HIDE DEF h, l
<1>3. writeInt(n) = <<h, l>>
  BY <1>2 DEF writeInt, h, l
<1> QED BY <1>1, <1>3 DEF readInt, h, l, Octets

\* Octets have a length.
LEMMA LenIsNat ==
    ASSUME NEW a \in Octets
    PROVE  Len(a) \in Nat
BY DEF Octets

\* Two sequences one behind the other.
LEMMA Both ==
    ASSUME NEW a \in Octets, NEW b \in Octets
    PROVE  a \o b \in Octets /\ Len(a \o b) = Len(a) + Len(b)
BY DEF Octets

\* Two more octets.
LEMMA TwoMore ==
    ASSUME NEW a \in Octets, NEW b \in Octets, Len(b) = 2
    PROVE  a \o b \in Octets /\ Len(a \o b) = Len(a) + 2
<1>1. a \o b \in Octets /\ Len(a \o b) = Len(a) + Len(b)
  BY Both
<1> QED BY <1>1

\* An octet of the first of two sequences.
LEMMA InFirst ==
    ASSUME NEW a \in Octets, NEW b \in Octets, NEW i \in Nat, 1 <= i, i <= Len(a)
    PROVE  (a \o b)[i] = a[i]
<1>1. Len(a) \in Nat /\ Len(b) \in Nat
  BY LenIsNat
<1> QED BY <1>1, ConcatProperties DEF Octets

\* A part of the first.
LEMMA PartOfFirst ==
    ASSUME NEW a \in Octets, NEW b \in Octets, NEW i \in 1 .. Len(a), NEW j \in 1 .. Len(a)
    PROVE  SubSeq(a \o b, i, j) = SubSeq(a, i, j)
<1> DEFINE S == Nat
<1>1. a \in Seq(S) /\ b \in Seq(S)
  BY DEF Octets
<1> HIDE DEF S
<1> QED BY <1>1, SubSeqOfConcat1

\* A part of a part.
LEMMA PartOfPart ==
    ASSUME NEW a \in Octets, NEW i \in 1 .. Len(a), NEW j \in 1 .. Len(a),
           NEW k \in 1 .. j - i + 1, NEW l \in 1 .. j - i + 1
    PROVE  SubSeq(SubSeq(a, i, j), k, l) = SubSeq(a, i + k - 1, i + l - 1)
<1> DEFINE S == Nat
<1>1. a \in Seq(S)
  BY DEF Octets
<1> HIDE DEF S
<1> QED BY <1>1, SubSeqOfSubSeq

\* An octet of the second.
LEMMA InSecond ==
    ASSUME NEW a \in Octets, NEW b \in Octets, NEW i \in Nat, 1 <= i, i <= Len(b)
    PROVE  (a \o b)[Len(a) + i] = b[i]
<1>1. Len(a) \in Nat /\ Len(b) \in Nat
  BY LenIsNat
<1>2. Len(a) + i \in 1 .. Len(a) + Len(b) /\ ~(Len(a) + i <= Len(a)) /\ Len(a) + i - Len(a) = i
  BY <1>1
<1> QED BY <1>1, <1>2, ConcatProperties DEF Octets

\* The second begins where the first ends.
LEMMA Second ==
    ASSUME NEW a \in Octets, NEW b \in Octets
    PROVE  From(a \o b, Len(a) + 1) = b
<1>1. Len(a) \in Nat /\ Len(b) \in Nat
  BY LenIsNat
<1>2. a \o b \in Octets /\ Len(a \o b) = Len(a) + Len(b)
  BY Both
<1> QED BY <1>1, <1>2, SubSeqOfConcat2 DEF Octets, From

\* An integer is read from the part it was written to.
LEMMA ReadFirst ==
    ASSUME NEW a \in Octets, NEW b \in Octets, NEW i \in Nat, 1 <= i, i + 1 <= Len(a)
    PROVE  readInt(a \o b, i) = readInt(a, i)
<1>1. Len(a) \in Nat /\ i <= Len(a) /\ 1 <= i + 1 /\ i + 1 \in Nat
  BY LenIsNat
<1>2. (a \o b)[i] = a[i] /\ (a \o b)[i + 1] = a[i + 1]
  BY <1>1, InFirst
<1> QED BY <1>2 DEF readInt

\* A number in the second.
LEMMA ReadSecond ==
    ASSUME NEW a \in Octets, NEW b \in Octets, NEW i \in Nat, 1 <= i, i + 1 <= Len(b)
    PROVE  readInt(a \o b, Len(a) + i) = readInt(b, i)
<1>1. Len(a) \in Nat /\ Len(b) \in Nat /\ i <= Len(b) /\ 1 <= i + 1 /\ i + 1 \in Nat
      /\ Len(a) + i + 1 = Len(a) + (i + 1)
  BY LenIsNat
<1>2. (a \o b)[Len(a) + i] = b[i] /\ (a \o b)[Len(a) + (i + 1)] = b[i + 1]
  BY <1>1, InSecond
<1> QED BY <1>1, <1>2 DEF readInt

\* The octets the length of a packet takes.
Width(n) == IF n <= 255 THEN 1 ELSE 3

\* The length of a packet comes back.
LEMMA LengthField ==
    ASSUME NEW n \in Word, n >= 2
    PROVE  /\ MQTTSNPacket_encode(n) \in Octets /\ Len(MQTTSNPacket_encode(n)) = Width(n)
           /\ \A t \in Octets :
                MQTTSNPacket_decode(MQTTSNPacket_encode(n) \o t) = [rc |-> Width(n), value |-> n]
<1> DEFINE e == MQTTSNPacket_encode(n)
<1>0. n \in Nat
  BY WordIsNat
<1>1. CASE n <= 255
  <2>1. e = <<n>>
    BY <1>0, <1>1 DEF MQTTSNPacket_encode
  <2>2. e \in Octets /\ Len(e) = 1 /\ e[1] = n
    BY <1>0, <2>1, OneOctet
  <2> HIDE DEF e
  <2>3. ASSUME NEW t \in Octets
        PROVE  MQTTSNPacket_decode(e \o t) = [rc |-> 1, value |-> n]
    <3>1. 1 \in Nat /\ 1 <= 1 /\ 1 <= Len(e)
      BY <2>2
    <3>2. (e \o t)[1] = e[1]
      BY <2>2, <3>1, InFirst
    <3> QED BY <1>0, <2>2, <3>2 DEF MQTTSNPacket_decode
  <2> QED BY <1>0, <1>1, <2>2, <2>3 DEF e, Width
<1>2. CASE n > 255
  <2> DEFINE c == <<1>>
             w == writeInt(n)
  <2>1. e = c \o w
    BY <1>0, <1>2 DEF MQTTSNPacket_encode
  <2>2. c \in Octets /\ Len(c) = 1
    BY OneOctet
  <2>a. c[1] = 1
    BY OneOctet
  <2>3. w \in Octets /\ Len(w) = 2
    BY IntOctets
  <2>b. readInt(w, 1) = n
    BY IntOctets
  <2> HIDE DEF e, c, w
  <2>4. e \in Octets /\ Len(e) = 3
    <3>1. c \o w \in Octets /\ Len(c \o w) = Len(c) + Len(w)
      BY <2>2, <2>3, Both
    <3>2. Len(c) + Len(w) = 3
      BY <2>2, <2>3
    <3> QED BY <2>1, <3>1, <3>2
  <2>5. e[1] = 1
    <3>1. (c \o w)[1] = c[1]
      BY <2>2, <2>3, InFirst
    <3> QED BY <2>1, <2>a, <3>1
  <2>6. readInt(e, 2) = n
    <3>1. 1 \in Nat /\ 1 <= 1 /\ 1 + 1 <= Len(w)
      BY <2>3
    <3>2. readInt(c \o w, Len(c) + 1) = readInt(w, 1)
      BY <2>2, <2>3, <3>1, ReadSecond
    <3> QED BY <2>1, <2>2, <2>b, <3>2
  <2>7. ASSUME NEW t \in Octets
        PROVE  MQTTSNPacket_decode(e \o t) = [rc |-> 3, value |-> n]
    <3>1. (e \o t)[1] = e[1]
      <4>1. 1 \in Nat /\ 1 <= 1 /\ 1 <= Len(e)
        BY <2>4
      <4> QED BY <2>4, <4>1, InFirst
    <3>2. readInt(e \o t, 2) = readInt(e, 2)
      <4>1. 2 \in Nat /\ 1 <= 2 /\ 2 + 1 <= Len(e)
        BY <2>4
      <4> QED BY <2>4, <4>1, ReadFirst
    <3> QED BY <2>5, <2>6, <3>1, <3>2 DEF MQTTSNPacket_decode
  <2> QED BY <1>0, <1>2, <2>4, <2>7 DEF e, Width
<1> QED BY <1>0, <1>1, <1>2

\* The length MQTTSNPacket_len computes is that of the packet, but where the field grows.
LEMMA LengthOfPacket ==
    ASSUME NEW l \in Nat
    PROVE  /\ MQTTSNPacket_len(1 + l) \in Nat /\ MQTTSNPacket_len(1 + l) >= 2
           /\ Width(MQTTSNPacket_len(1 + l)) \in {1, 3}
           /\ IF l = 254 THEN Width(MQTTSNPacket_len(1 + l)) = 3
              ELSE MQTTSNPacket_len(1 + l) = Width(MQTTSNPacket_len(1 + l)) + 1 + l
<1>1. CASE l < 254
  BY <1>1 DEF MQTTSNPacket_len, Width
<1>2. CASE l > 254
  BY <1>2 DEF MQTTSNPacket_len, Width
<1>3. CASE l = 254
  BY <1>3 DEF MQTTSNPacket_len, Width
<1> QED BY <1>1, <1>2, <1>3

\* What a packet may carry.
Bodies == {b \in Octets : MQTTSNPacket_len(1 + Len(b)) \in Word}

\* The place of the type.
TypeAt(body) == Width(MQTTSNPacket_len(1 + Len(body))) + 1

\* A packet: its type and its body are found again behind the length, unless the body has 254
\* octets.
LEMMA PacketParts ==
    ASSUME NEW type, Code[type] \in Nat, NEW body \in Bodies
    PROVE  /\ Packet(type, body) \in Octets
           /\ Len(Packet(type, body)) = TypeAt(body) + Len(body) /\ TypeAt(body) \in {2, 4}
           /\ MQTTSNPacket_decode(Packet(type, body))
                = [rc |-> TypeAt(body) - 1, value |-> MQTTSNPacket_len(1 + Len(body))]
           /\ TypeOf(Packet(type, body)) = Code[type]
           /\ From(Packet(type, body), TypeAt(body) + 1) = body
           /\ IF Len(body) = 254 THEN Len(Packet(type, body)) = 258
              ELSE Body(Packet(type, body)) = body
<1> DEFINE n == MQTTSNPacket_len(1 + Len(body))
           e == MQTTSNPacket_encode(n)
           k == Width(n)
           c == <<Code[type]>>
           h == e \o c
           s == Packet(type, body)
<1>1. Len(body) \in Nat /\ n \in Word /\ body \in Octets
  BY LenIsNat DEF Bodies
<1>2. n \in Nat /\ n >= 2 /\ k \in {1, 3}
  BY <1>1, LengthOfPacket
<1>3. c \in Octets /\ Len(c) = 1 /\ c[1] = Code[type]
  BY OneOctet
<1>4. s = h \o body
  BY DEF Packet
<1>c. k = TypeAt(body) - 1 /\ k + 1 = TypeAt(body) /\ TypeAt(body) \in {2, 4}
      /\ n = MQTTSNPacket_len(1 + Len(body))
  BY <1>2 DEF TypeAt
<1>a. IF Len(body) = 254 THEN k = 3 ELSE n = k + 1 + Len(body)
  BY <1>1, LengthOfPacket
<1>5. e \in Octets /\ Len(e) = k /\ \A t \in Octets : MQTTSNPacket_decode(e \o t) = [rc |-> k, value |-> n]
  <2> HIDE DEF n
  <2> QED BY <1>1, <1>2, LengthField
<1> HIDE DEF n, c, k, e, s
<1>6. h \in Octets /\ Len(h) = k + 1
  BY <1>3, <1>5, Both
<1>7. h[k + 1] = Code[type]
  <2>1. c \in Octets /\ Len(c) = 1
    BY <1>3
  <2>2. (e \o c)[Len(e) + 1] = c[1]
    BY <1>5, <2>1, InSecond
  <2> QED BY <1>3, <1>5, <2>2
<1>8. s = e \o (c \o body) /\ c \o body \in Octets
  <2>1. (e \o c) \o body = e \o (c \o body)
    BY <1>1, <1>3, <1>5, ConcatAssociative DEF Octets
  <2> QED BY <1>1, <1>3, <1>4, <2>1, Both
<1>9. MQTTSNPacket_decode(s) = [rc |-> k, value |-> n]
  BY <1>5, <1>8
<1> HIDE DEF h
<1>10. s \in Octets /\ Len(s) = k + 1 + Len(body)
  BY <1>1, <1>4, <1>6, Both
<1>11. From(s, k + 1 + 1) = body
  BY <1>1, <1>4, <1>6, Second
<1>13. s[k + 1] = Code[type]
  <2>1. k + 1 \in Nat /\ 1 <= k + 1 /\ k + 1 <= Len(h)
    BY <1>2, <1>6
  <2> QED BY <1>1, <1>4, <1>6, <1>7, <2>1, InFirst
<1>14. TypeOf(s) = Code[type]
  BY <1>9, <1>13 DEF TypeOf
<1>15. CASE Len(body) # 254
  <2>1. k + 1 + 1 = k + 2 /\ Len(s) = n
    BY <1>2, <1>a, <1>10, <1>15
  <2>2. Body(s) = body
    BY <1>9, <1>11, <2>1 DEF Body, From
  <2> QED BY <1>c, <1>9, <1>10, <1>11, <1>14, <1>15, <2>2 DEF s
<1>16. CASE Len(body) = 254
  <2>1. Len(s) = 258
    BY <1>a, <1>10, <1>16
  <2> QED BY <1>c, <1>9, <1>10, <1>11, <1>14, <1>16, <2>1 DEF s
<1> QED BY <1>15, <1>16

\* What stands before and behind an integer.
LEMMA Around ==
    ASSUME NEW h \in Octets, NEW n \in Word, NEW t \in Octets
    PROVE  /\ h \o writeInt(n) \o t \in Octets
           /\ Len(h \o writeInt(n) \o t) = Len(h) + 2 + Len(t)
           /\ readInt(h \o writeInt(n) \o t, Len(h) + 1) = n
           /\ From(h \o writeInt(n) \o t, Len(h) + 3) = t
<1> DEFINE w == writeInt(n)
           g == h \o w
<1>1. w \in Octets /\ Len(w) = 2
  BY IntOctets
<1>2. readInt(w, 1) = n
  BY IntOctets
<1> HIDE DEF w
<1>3. Len(h) \in Nat /\ Len(t) \in Nat
  BY LenIsNat
<1>4. g \in Octets /\ Len(g) = Len(h) + 2
  BY <1>1, TwoMore
<1>5. readInt(g, Len(h) + 1) = n
  <2>1. 1 \in Nat /\ 1 <= 1 /\ 1 + 1 <= Len(w)
    BY <1>1
  <2>2. readInt(g, Len(h) + 1) = readInt(w, 1)
    BY <1>1, <2>1, ReadSecond
  <2> QED BY <1>2, <2>2
<1> HIDE DEF g
<1>6. g \o t \in Octets /\ Len(g \o t) = Len(h) + 2 + Len(t)
  BY <1>3, <1>4, Both
<1>7. readInt(g \o t, Len(h) + 1) = n
  <2>1. Len(h) + 1 \in Nat /\ 1 <= Len(h) + 1 /\ Len(h) + 1 + 1 <= Len(g)
    BY <1>3, <1>4
  <2>2. readInt(g \o t, Len(h) + 1) = readInt(g, Len(h) + 1)
    BY <1>4, <2>1, ReadFirst
  <2> QED BY <1>5, <2>2
<1>8. From(g \o t, Len(h) + 3) = t
  <2>1. From(g \o t, Len(g) + 1) = t
    BY <1>4, Second
  <2>2. Len(g) + 1 = Len(h) + 3
    BY <1>3, <1>4
  <2> QED BY <2>1, <2>2
<1> QED BY <1>6, <1>7, <1>8 DEF g, w

\* What is before the number stays where it was.
LEMMA BeforeInt ==
    ASSUME NEW h \in Octets, NEW n \in Word, NEW t \in Octets, NEW i \in Nat, 1 <= i, i <= Len(h)
    PROVE  /\ (h \o writeInt(n) \o t)[i] = h[i]
           /\ i + 1 <= Len(h) => readInt(h \o writeInt(n) \o t, i) = readInt(h, i)
<1> DEFINE w == writeInt(n)
           g == h \o w
<1>1. w \in Octets /\ Len(w) = 2
  BY IntOctets
<1> HIDE DEF w
<1>2. Len(h) \in Nat
  BY LenIsNat
<1>3. g \in Octets /\ Len(g) = Len(h) + 2
  BY <1>1, TwoMore
<1>4. g[i] = h[i]
  BY <1>1, InFirst
<1>5. i + 1 <= Len(h) => readInt(g, i) = readInt(h, i)
  BY <1>1, ReadFirst
<1> HIDE DEF g
<1>6. i <= Len(g) /\ i + 1 <= Len(g)
  BY <1>2, <1>3
<1>7. (g \o t)[i] = g[i]
  BY <1>3, <1>6, InFirst
<1>8. readInt(g \o t, i) = readInt(g, i)
  BY <1>3, <1>6, ReadFirst
<1> QED BY <1>4, <1>5, <1>7, <1>8 DEF g, w

\* The octet behind the number.
LEMMA BehindInt ==
    ASSUME NEW h \in Octets, NEW n \in Word, NEW t \in Octets, 1 <= Len(t)
    PROVE  (h \o writeInt(n) \o t)[Len(h) + 3] = t[1]
<1> DEFINE w == writeInt(n)
           g == h \o w
<1>1. w \in Octets /\ Len(w) = 2
  BY IntOctets
<1> HIDE DEF w
<1>2. Len(h) \in Nat
  BY LenIsNat
<1>3. g \in Octets /\ Len(g) = Len(h) + 2
  BY <1>1, TwoMore
<1> HIDE DEF g
<1>4. 1 \in Nat /\ 1 <= 1
  OBVIOUS
<1>5. (g \o t)[Len(g) + 1] = t[1]
  BY <1>3, <1>4, InSecond
<1>6. Len(g) + 1 = Len(h) + 3
  BY <1>2, <1>3
<1> QED BY <1>5, <1>6 DEF g, w

\* A number behind one octet.
LEMMA After1 ==
    ASSUME NEW h \in Octets, Len(h) = 1, NEW n \in Word, NEW t \in Octets
    PROVE  /\ h \o writeInt(n) \o t \in Octets
           /\ Len(h \o writeInt(n) \o t) = 3 + Len(t)
           /\ (h \o writeInt(n) \o t)[1] = h[1]
           /\ readInt(h \o writeInt(n) \o t, 2) = n
           /\ From(h \o writeInt(n) \o t, 4) = t
           /\ 1 <= Len(t) => (h \o writeInt(n) \o t)[4] = t[1]
<1>1. Len(h) + 1 = 2 /\ Len(h) + 2 = 3 /\ Len(h) + 3 = 4
  OBVIOUS
<1>2. (h \o writeInt(n) \o t)[1] = h[1]
  <2>1. 1 \in Nat /\ 1 <= 1 /\ 1 <= Len(h)
    OBVIOUS
  <2> QED BY <2>1, BeforeInt
<1>a. h \o writeInt(n) \o t \in Octets /\ Len(h \o writeInt(n) \o t) = 3 + Len(t)
  <2>1. h \o writeInt(n) \o t \in Octets /\ Len(h \o writeInt(n) \o t) = Len(h) + 2 + Len(t)
    BY Around
  <2> QED BY <2>1, <1>1
<1>b. readInt(h \o writeInt(n) \o t, 2) = n
  <2>1. readInt(h \o writeInt(n) \o t, Len(h) + 1) = n
    BY Around
  <2> QED BY <2>1, <1>1
<1>c. From(h \o writeInt(n) \o t, 4) = t
  <2>1. From(h \o writeInt(n) \o t, Len(h) + 3) = t
    BY Around
  <2> QED BY <2>1, <1>1
<1>d. ASSUME 1 <= Len(t)
      PROVE  (h \o writeInt(n) \o t)[4] = t[1]
  <2>1. (h \o writeInt(n) \o t)[Len(h) + 3] = t[1]
    BY <1>d, BehindInt
  <2> QED BY <2>1, <1>1
<1> QED BY <1>2, <1>a, <1>b, <1>c, <1>d

\* A number behind two octets.
LEMMA After2 ==
    ASSUME NEW h \in Octets, Len(h) = 2, NEW n \in Word, NEW t \in Octets
    PROVE  /\ h \o writeInt(n) \o t \in Octets
           /\ Len(h \o writeInt(n) \o t) = 4 + Len(t)
           /\ (h \o writeInt(n) \o t)[1] = h[1]
           /\ (h \o writeInt(n) \o t)[2] = h[2]
           /\ readInt(h \o writeInt(n) \o t, 1) = readInt(h, 1)
           /\ readInt(h \o writeInt(n) \o t, 3) = n
           /\ From(h \o writeInt(n) \o t, 5) = t
           /\ 1 <= Len(t) => (h \o writeInt(n) \o t)[5] = t[1]
<1>1. Len(h) + 1 = 3 /\ Len(h) + 2 = 4 /\ Len(h) + 3 = 5
  OBVIOUS
<1>2. (h \o writeInt(n) \o t)[1] = h[1] /\ readInt(h \o writeInt(n) \o t, 1) = readInt(h, 1)
  <2>1. 1 \in Nat /\ 1 <= 1 /\ 1 <= Len(h) /\ 1 + 1 <= Len(h)
    OBVIOUS
  <2> QED BY <2>1, BeforeInt
<1>3. (h \o writeInt(n) \o t)[2] = h[2]
  <2>1. 2 \in Nat /\ 1 <= 2 /\ 2 <= Len(h)
    OBVIOUS
  <2> QED BY <2>1, BeforeInt
<1>a. h \o writeInt(n) \o t \in Octets /\ Len(h \o writeInt(n) \o t) = 4 + Len(t)
  <2>1. h \o writeInt(n) \o t \in Octets /\ Len(h \o writeInt(n) \o t) = Len(h) + 2 + Len(t)
    BY Around
  <2> QED BY <2>1, <1>1
<1>b. readInt(h \o writeInt(n) \o t, 3) = n
  <2>1. readInt(h \o writeInt(n) \o t, Len(h) + 1) = n
    BY Around
  <2> QED BY <2>1, <1>1
<1>c. From(h \o writeInt(n) \o t, 5) = t
  <2>1. From(h \o writeInt(n) \o t, Len(h) + 3) = t
    BY Around
  <2> QED BY <2>1, <1>1
<1>d. ASSUME 1 <= Len(t)
      PROVE  (h \o writeInt(n) \o t)[5] = t[1]
  <2>1. (h \o writeInt(n) \o t)[Len(h) + 3] = t[1]
    BY <1>d, BehindInt
  <2> QED BY <2>1, <1>1
<1> QED BY <1>2, <1>3, <1>a, <1>b, <1>c, <1>d

\* A number behind three octets.
LEMMA After3 ==
    ASSUME NEW h \in Octets, Len(h) = 3, NEW n \in Word, NEW t \in Octets
    PROVE  /\ h \o writeInt(n) \o t \in Octets
           /\ Len(h \o writeInt(n) \o t) = 5 + Len(t)
           /\ (h \o writeInt(n) \o t)[1] = h[1]
           /\ (h \o writeInt(n) \o t)[2] = h[2]
           /\ (h \o writeInt(n) \o t)[3] = h[3]
           /\ readInt(h \o writeInt(n) \o t, 1) = readInt(h, 1)
           /\ readInt(h \o writeInt(n) \o t, 2) = readInt(h, 2)
           /\ readInt(h \o writeInt(n) \o t, 4) = n
           /\ From(h \o writeInt(n) \o t, 6) = t
           /\ 1 <= Len(t) => (h \o writeInt(n) \o t)[6] = t[1]
<1>1. Len(h) + 1 = 4 /\ Len(h) + 2 = 5 /\ Len(h) + 3 = 6
  OBVIOUS
<1>2. (h \o writeInt(n) \o t)[1] = h[1] /\ readInt(h \o writeInt(n) \o t, 1) = readInt(h, 1)
  <2>1. 1 \in Nat /\ 1 <= 1 /\ 1 <= Len(h) /\ 1 + 1 <= Len(h)
    OBVIOUS
  <2> QED BY <2>1, BeforeInt
<1>3. (h \o writeInt(n) \o t)[2] = h[2] /\ readInt(h \o writeInt(n) \o t, 2) = readInt(h, 2)
  <2>1. 2 \in Nat /\ 1 <= 2 /\ 2 <= Len(h) /\ 2 + 1 <= Len(h)
    OBVIOUS
  <2> QED BY <2>1, BeforeInt
<1>4. (h \o writeInt(n) \o t)[3] = h[3]
  <2>1. 3 \in Nat /\ 1 <= 3 /\ 3 <= Len(h)
    OBVIOUS
  <2> QED BY <2>1, BeforeInt
<1>a. h \o writeInt(n) \o t \in Octets /\ Len(h \o writeInt(n) \o t) = 5 + Len(t)
  <2>1. h \o writeInt(n) \o t \in Octets /\ Len(h \o writeInt(n) \o t) = Len(h) + 2 + Len(t)
    BY Around
  <2> QED BY <2>1, <1>1
<1>b. readInt(h \o writeInt(n) \o t, 4) = n
  <2>1. readInt(h \o writeInt(n) \o t, Len(h) + 1) = n
    BY Around
  <2> QED BY <2>1, <1>1
<1>c. From(h \o writeInt(n) \o t, 6) = t
  <2>1. From(h \o writeInt(n) \o t, Len(h) + 3) = t
    BY Around
  <2> QED BY <2>1, <1>1
<1>d. ASSUME 1 <= Len(t)
      PROVE  (h \o writeInt(n) \o t)[6] = t[1]
  <2>1. (h \o writeInt(n) \o t)[Len(h) + 3] = t[1]
    BY <1>d, BehindInt
  <2> QED BY <2>1, <1>1
<1> QED BY <1>2, <1>3, <1>4, <1>a, <1>b, <1>c, <1>d

\* The flags keep what was put in, each in its bits.
LEMMA Flagged ==
    ASSUME NEW dup \in Bit, NEW qos \in 0 .. 3, NEW retain \in Bit, NEW kind \in 0 .. 2
    PROVE  /\ Flags(dup, qos, retain, kind) \in Nat
           /\ FlagsOf(Flags(dup, qos, retain, kind)).dup = dup
           /\ FlagsOf(Flags(dup, qos, retain, kind)).qos = qos
           /\ FlagsOf(Flags(dup, qos, retain, kind)).retain = retain
           /\ FlagsOf(Flags(dup, qos, retain, kind)).kind = kind
BY DEF Flags, FlagsOf, Bit

\* The flags of CONNECT do as well.
LEMMA ConnectFlagged ==
    ASSUME NEW will \in Bit, NEW clean \in Bit
    PROVE  /\ ConnectFlags(will, clean) \in Nat
           /\ FlagsOf(ConnectFlags(will, clean)).will = will
           /\ FlagsOf(ConnectFlags(will, clean)).clean = clean
BY DEF ConnectFlags, FlagsOf, Bit

\* Each library has its copy of these.
LEMMA SameForClient ==
    /\ Client!Code = Code
    /\ \A n : Client!writeInt(n) = writeInt(n)
    /\ \A s, i : Client!readInt(s, i) = readInt(s, i) /\ Client!From(s, i) = From(s, i)
    /\ \A s : /\ Client!MQTTSNPacket_decode(s) = MQTTSNPacket_decode(s)
              /\ Client!TypeOf(s) = TypeOf(s) /\ Client!Body(s) = Body(s)
              /\ Client!FlagsOf(s) = FlagsOf(s)
    /\ \A n : Client!MQTTSNPacket_len(n) = MQTTSNPacket_len(n)
    /\ \A a, b, c, d : Client!Flags(a, b, c, d) = Flags(a, b, c, d)
    /\ \A a, b : Client!ConnectFlags(a, b) = ConnectFlags(a, b)
    /\ \A a, b, c : Client!Topic(a, b, c) = Topic(a, b, c)
    /\ \A type, body : Client!Packet(type, body) = Packet(type, body)
    /\ Client!NORMAL = NORMAL /\ Client!PREDEFINED = PREDEFINED /\ Client!SHORT = SHORT
    /\ Client!Rejected = Rejected
<1>1. Client!Code = Code
  BY DEF Client!Code, Code
<1>2. \A n : Client!writeInt(n) = writeInt(n)
  BY DEF Client!writeInt, writeInt
<1>3. \A s, i : Client!readInt(s, i) = readInt(s, i) /\ Client!From(s, i) = From(s, i)
  BY DEF Client!readInt, readInt, Client!From, From
<1>4. \A s : Client!MQTTSNPacket_decode(s) = MQTTSNPacket_decode(s)
  BY <1>3 DEF Client!MQTTSNPacket_decode, MQTTSNPacket_decode
<1>5. \A s : Client!TypeOf(s) = TypeOf(s) /\ Client!Body(s) = Body(s)
  BY <1>4 DEF Client!TypeOf, TypeOf, Client!Body, Body
<1>6. \A s : Client!FlagsOf(s) = FlagsOf(s)
  BY DEF Client!FlagsOf, FlagsOf
<1>7. \A n : Client!MQTTSNPacket_len(n) = MQTTSNPacket_len(n)
  BY DEF Client!MQTTSNPacket_len, MQTTSNPacket_len
<1>8. \A a, b, c, d : Client!Flags(a, b, c, d) = Flags(a, b, c, d)
  BY DEF Client!Flags, Flags
<1>9. \A a, b : Client!ConnectFlags(a, b) = ConnectFlags(a, b)
  BY DEF Client!ConnectFlags, ConnectFlags
<1>10. \A a, b, c : Client!Topic(a, b, c) = Topic(a, b, c)
  BY DEF Client!Topic, Topic
<1>11. \A type, body : Client!Packet(type, body) = Packet(type, body)
  <2>1. \A n : Client!MQTTSNPacket_encode(n) = MQTTSNPacket_encode(n)
    BY <1>2 DEF Client!MQTTSNPacket_encode, MQTTSNPacket_encode
  <2> QED BY <1>1, <1>7, <2>1 DEF Client!Packet, Packet
<1>12. Client!NORMAL = NORMAL /\ Client!PREDEFINED = PREDEFINED /\ Client!SHORT = SHORT
  BY DEF Client!NORMAL, Client!PREDEFINED, Client!SHORT, NORMAL, PREDEFINED, SHORT
<1>13. Client!Rejected = Rejected
  BY DEF Client!Rejected, Rejected
<1> QED BY <1>1, <1>2, <1>3, <1>4, <1>5, <1>6, <1>7, <1>8, <1>9, <1>10, <1>11, <1>12, <1>13

\* The gateway's library has the same.
LEMMA SameForGateway ==
    /\ Gw!Code = Code
    /\ \A n : Gw!writeInt(n) = writeInt(n)
    /\ \A s, i : Gw!readInt(s, i) = readInt(s, i) /\ Gw!From(s, i) = From(s, i)
    /\ \A s : /\ Gw!MQTTSNPacket_decode(s) = MQTTSNPacket_decode(s)
              /\ Gw!TypeOf(s) = TypeOf(s) /\ Gw!Body(s) = Body(s)
              /\ Gw!FlagsOf(s) = FlagsOf(s)
    /\ \A n : Gw!MQTTSNPacket_len(n) = MQTTSNPacket_len(n)
    /\ \A a, b, c, d : Gw!Flags(a, b, c, d) = Flags(a, b, c, d)
    /\ \A a, b : Gw!ConnectFlags(a, b) = ConnectFlags(a, b)
    /\ \A a, b, c : Gw!Topic(a, b, c) = Topic(a, b, c)
    /\ \A type, body : Gw!Packet(type, body) = Packet(type, body)
    /\ Gw!NORMAL = NORMAL /\ Gw!PREDEFINED = PREDEFINED /\ Gw!SHORT = SHORT
    /\ Gw!Rejected = Rejected
<1>1. Gw!Code = Code
  BY DEF Gw!Code, Code
<1>2. \A n : Gw!writeInt(n) = writeInt(n)
  BY DEF Gw!writeInt, writeInt
<1>3. \A s, i : Gw!readInt(s, i) = readInt(s, i) /\ Gw!From(s, i) = From(s, i)
  BY DEF Gw!readInt, readInt, Gw!From, From
<1>4. \A s : Gw!MQTTSNPacket_decode(s) = MQTTSNPacket_decode(s)
  BY <1>3 DEF Gw!MQTTSNPacket_decode, MQTTSNPacket_decode
<1>5. \A s : Gw!TypeOf(s) = TypeOf(s) /\ Gw!Body(s) = Body(s)
  BY <1>4 DEF Gw!TypeOf, TypeOf, Gw!Body, Body
<1>6. \A s : Gw!FlagsOf(s) = FlagsOf(s)
  BY DEF Gw!FlagsOf, FlagsOf
<1>7. \A n : Gw!MQTTSNPacket_len(n) = MQTTSNPacket_len(n)
  BY DEF Gw!MQTTSNPacket_len, MQTTSNPacket_len
<1>8. \A a, b, c, d : Gw!Flags(a, b, c, d) = Flags(a, b, c, d)
  BY DEF Gw!Flags, Flags
<1>9. \A a, b : Gw!ConnectFlags(a, b) = ConnectFlags(a, b)
  BY DEF Gw!ConnectFlags, ConnectFlags
<1>10. \A a, b, c : Gw!Topic(a, b, c) = Topic(a, b, c)
  BY DEF Gw!Topic, Topic
<1>11. \A type, body : Gw!Packet(type, body) = Packet(type, body)
  <2>1. \A n : Gw!MQTTSNPacket_encode(n) = MQTTSNPacket_encode(n)
    BY <1>2 DEF Gw!MQTTSNPacket_encode, MQTTSNPacket_encode
  <2> QED BY <1>1, <1>7, <2>1 DEF Gw!Packet, Packet
<1>12. Gw!NORMAL = NORMAL /\ Gw!PREDEFINED = PREDEFINED /\ Gw!SHORT = SHORT
  BY DEF Gw!NORMAL, Gw!PREDEFINED, Gw!SHORT, NORMAL, PREDEFINED, SHORT
<1>13. Gw!Rejected = Rejected
  BY DEF Gw!Rejected, Rejected
<1> QED BY <1>1, <1>2, <1>3, <1>4, <1>5, <1>6, <1>7, <1>8, <1>9, <1>10, <1>11, <1>12, <1>13

AnyText == {t \in Octets : Len(t) <= 1016}

\* A body that fits into the buffers gets a length of two octets.
LEMMA Carried ==
    ASSUME NEW b \in Octets, Len(b) <= 3000
    PROVE  b \in Bodies
<1> DEFINE n == MQTTSNPacket_len(1 + Len(b))
<1>1. Len(b) \in Nat
  BY LenIsNat
<1>2. n \in Nat /\ n <= 3004
  BY <1>1 DEF MQTTSNPacket_len
<1> HIDE DEF n
<1>3. 0 <= n /\ n <= 65535 /\ n \in Int
  BY <1>2
<1>4. n \in Word
  BY <1>3, WordIs
<1> QED BY <1>4 DEF Bodies, n

\* The size of a body that gets a length of three octets in a buffer for one.
Wrong(size) == size = 254

\* A body in the packet s, sent by a function with a buffer of its own.
Sends(body, s) ==
    LET sent == Client!Sent(MQTTSNPacket_len(1 + Len(body)), s)
    IN  /\ sent.octets = s
        /\ Overruns(sent) <=> Wrong(Len(body))
        /\ Cut(s) <=> Wrong(Len(body))

\* A packet in a buffer of the size its sender computes; a sender compares the length it
\* announces with the size.
LEMMA Sending ==
    ASSUME NEW type, Code[type] \in Nat, NEW b \in Octets, Len(b) <= 3000
    PROVE  /\ Packet(type, b) \in Octets /\ Packet(type, b) # <<>>
           /\ Sends(b, Packet(type, b))
           /\ TypeOf(Packet(type, b)) = Code[type]
           /\ ~Cut(Packet(type, b)) => Body(Packet(type, b)) = b
<1> DEFINE n == MQTTSNPacket_len(1 + Len(b))
           s == Packet(type, b)
<1>1. b \in Bodies
  BY Carried
<1>2. n \in Nat /\ Len(b) \in Nat
  BY LenIsNat, LengthOfPacket
<1>3. MQTTSNPacket_decode(s).value = n
  BY <1>1, PacketParts
<1>4. TypeOf(s) = Code[type] /\ (IF Len(b) = 254 THEN Len(s) = 258 ELSE Body(s) = b)
  BY <1>1, PacketParts
<1>5. s \in Octets /\ Len(s) = TypeAt(b) + Len(b) /\ TypeAt(b) \in {2, 4}
  BY <1>1, PacketParts
<1> HIDE DEF n, s
<1>6. ~(Client!MQTTSNPacket_decode(s).value > n)
  BY <1>2, <1>3, SameForClient
<1>7. Client!Sent(n, s) = [size |-> n, octets |-> s]
  BY <1>6 DEF Client!Sent
<1>a. (Overruns(Client!Sent(n, s)) <=> Wrong(Len(b))) /\ (Cut(s) <=> Wrong(Len(b)))
  <2> DEFINE k == Len(b)
             l == Len(s)
             c == TypeAt(b)
  <2>1. n = k + (IF k < 255 THEN 2 ELSE 4) /\ c = (IF k < 254 THEN 2 ELSE 4) /\ l = c + k /\ k \in Nat
    BY <1>2, <1>5 DEF n, TypeAt, Width, MQTTSNPacket_len
  <2>2. Overruns(Client!Sent(n, s)) <=> l > n
    BY <1>7 DEF Overruns
  <2>3. Cut(s) <=> l = 258
    BY DEF Cut
  <2> HIDE DEF c, k, l
  <2>4. (l > n <=> k = 254) /\ (l = 258 <=> k = 254)
    BY ONLY <2>1
  <2> QED BY ONLY <2>2, <2>3, <2>4 DEF Wrong, k
<1>8. s # <<>>
  BY <1>2, <1>5
<1>9. ~Cut(s) => Body(s) = b
  BY <1>4 DEF Cut
<1>10. Sends(b, s)
  BY <1>7, <1>a DEF Sends, n
<1> QED BY <1>4, <1>5, <1>8, <1>9, <1>10 DEF s

\* The messages that are written into a buffer of the caller.
ByCaller(msg) ==
    \/ msg.type \in {"WILLTOPICUPD", "WILLMSGUPD", "SEARCHGW", "UNSUBSCRIBE"}
    \/ msg.type = "PUBLISH" /\ msg.topic.name # <<>>

\* A sender overruns its buffer with the texts of the wrong length alone, and a message that is
\* cut has one of these or a buffer that is not of the sender.
Sized(msg) ==
    /\ Overruns(ClientSender(msg)) <=> OfTheWrongLength(msg)
    /\ Cut(ClientWriter(msg)) => OfTheWrongLength(msg) \/ ByCaller(msg)

\* A text is of the wrong length if it makes the body of that size.
LEMMA WrongLengths ==
    ASSUME NEW msg
    PROVE  /\ msg.type = "CONNECT" /\ Len(msg.clientID) \in Nat =>
                 (OfTheWrongLength(msg) <=> Wrong(4 + Len(msg.clientID)))
           /\ msg.type = "PINGREQ" => (OfTheWrongLength(msg) <=> Wrong(Len(msg.clientID)))
           /\ msg.type = "WILLTOPIC" /\ Len(msg.topic) \in Nat =>
                 (OfTheWrongLength(msg) <=> Wrong(1 + Len(msg.topic)))
           /\ msg.type = "WILLMSG" => (OfTheWrongLength(msg) <=> Wrong(Len(msg.msg)))
           /\ msg.type = "REGISTER" /\ Len(msg.name) \in Nat =>
                 (OfTheWrongLength(msg) <=> Wrong(4 + Len(msg.name)))
           /\ msg.type = "SUBSCRIBE" /\ msg.topic.kind = NORMAL /\ Len(msg.topic.name) \in Nat =>
                 (OfTheWrongLength(msg) <=> Wrong(3 + Len(msg.topic.name)))
           /\ msg.type = "SUBSCRIBE" /\ msg.topic.kind # NORMAL => ~OfTheWrongLength(msg)
           /\ msg.type = "PUBLISH" /\ msg.topic.name = <<>> /\ Len(msg.payload) \in Nat =>
                 (OfTheWrongLength(msg) <=> Wrong(5 + Len(msg.payload)))
           /\ msg.type = "PUBLISH" /\ msg.topic.name # <<>> => ~OfTheWrongLength(msg)
           /\ msg.type \in {"DISCONNECT", "PINGRESP", "WILLTOPICUPD", "WILLMSGUPD", "SEARCHGW",
                            "UNSUBSCRIBE", "PUBACK", "REGACK", "PUBREC", "PUBREL", "PUBCOMP"} =>
                 ~OfTheWrongLength(msg)
<1> DEFINE n249 == 249
           n250 == 250
           n251 == 251
           n253 == 253
           n254 == 254
<1>1. /\ \A n \in Nat : Wrong(1 + n) <=> n = n253
      /\ \A n \in Nat : Wrong(3 + n) <=> n = n251
      /\ \A n \in Nat : Wrong(4 + n) <=> n = n250
      /\ \A n \in Nat : Wrong(5 + n) <=> n = n249
      /\ \A n : Wrong(n) <=> n = n254
  BY DEF Wrong
<1>2. /\ msg.type = "CONNECT" => (OfTheWrongLength(msg) <=> Len(msg.clientID) = n250)
      /\ msg.type = "PINGREQ" => (OfTheWrongLength(msg) <=> Len(msg.clientID) = n254)
      /\ msg.type = "WILLTOPIC" => (OfTheWrongLength(msg) <=> Len(msg.topic) = n253)
      /\ msg.type = "WILLMSG" => (OfTheWrongLength(msg) <=> Len(msg.msg) = n254)
      /\ msg.type = "REGISTER" => (OfTheWrongLength(msg) <=> Len(msg.name) = n250)
      /\ msg.type = "SUBSCRIBE" =>
            (OfTheWrongLength(msg) <=> msg.topic.kind = NORMAL /\ Len(msg.topic.name) = n251)
      /\ msg.type = "PUBLISH" =>
            (OfTheWrongLength(msg) <=> msg.topic.name = <<>> /\ Len(msg.payload) = n249)
  BY DEF OfTheWrongLength
<1>3. msg.type \in {"DISCONNECT", "PINGRESP", "WILLTOPICUPD", "WILLMSGUPD", "SEARCHGW",
                   "UNSUBSCRIBE", "PUBACK", "REGACK", "PUBREC", "PUBREL", "PUBCOMP"} =>
        ~OfTheWrongLength(msg)
  BY DEF OfTheWrongLength
<1> HIDE DEF n249, n250, n251, n253, n254
<1> QED BY ONLY <1>1, <1>2, <1>3, Zenon

\* A message that a sender with a buffer of its own writes.
LEMMA SentBy ==
    ASSUME NEW msg, NEW b, NEW s, Sends(b, s), OfTheWrongLength(msg) <=> Wrong(Len(b)),
           ClientSender(msg) = Client!Sent(MQTTSNPacket_len(1 + Len(b)), s)
    PROVE  ClientWriter(msg) = s /\ Sized(msg)
BY Zenon DEF Sends, ClientWriter, Sized

\* A message that is written into a buffer of the caller.
LEMMA GivenBy ==
    ASSUME NEW msg, NEW s \in Octets, ClientSender(msg) = Client!Given(s), ByCaller(msg),
           ~OfTheWrongLength(msg)
    PROVE  ClientWriter(msg) = s /\ Sized(msg)
<1>1. Len(s) \in Nat
  BY LenIsNat
<1>2. ClientWriter(msg) = s
  BY DEF ClientWriter, Client!Given
<1>3. ~Overruns(ClientSender(msg))
  BY <1>1 DEF Overruns, Client!Given
<1> QED BY <1>2, <1>3 DEF Sized

\* The gateway reads each message with the function for its type.
LEMMA GatewayChooses ==
    ASSUME NEW s
    PROVE  /\ TypeOf(s) = Code["SEARCHGW"] => Gw!GetPacket(s) = Gw!MQTTSNDeserialize_searchgw(s)
           /\ TypeOf(s) = Code["CONNECT"] => Gw!GetPacket(s) = Gw!MQTTSNDeserialize_connect(s)
           /\ TypeOf(s) = Code["WILLTOPIC"] => Gw!GetPacket(s) = Gw!MQTTSNDeserialize_willtopic(s)
           /\ TypeOf(s) = Code["WILLMSG"] => Gw!GetPacket(s) = Gw!MQTTSNDeserialize_willmsg(s)
           /\ TypeOf(s) = Code["WILLTOPICUPD"] => Gw!GetPacket(s) = Gw!MQTTSNDeserialize_willtopicupd(s)
           /\ TypeOf(s) = Code["WILLMSGUPD"] => Gw!GetPacket(s) = Gw!MQTTSNDeserialize_willmsgupd(s)
           /\ TypeOf(s) = Code["REGISTER"] => Gw!GetPacket(s) = Gw!MQTTSNDeserialize_register(s)
           /\ TypeOf(s) = Code["REGACK"] => Gw!GetPacket(s) = Gw!MQTTSNDeserialize_regack(s)
           /\ TypeOf(s) = Code["PUBLISH"] => Gw!GetPacket(s) = Gw!MQTTSNDeserialize_publish(s)
           /\ TypeOf(s) = Code["PUBACK"] => Gw!GetPacket(s) = Gw!MQTTSNDeserialize_puback(s)
           /\ TypeOf(s) = Code["PUBREC"] => Gw!GetPacket(s) = Gw!MQTTSNDeserialize_ack("PUBREC", s)
           /\ TypeOf(s) = Code["PUBREL"] => Gw!GetPacket(s) = Gw!MQTTSNDeserialize_ack("PUBREL", s)
           /\ TypeOf(s) = Code["PUBCOMP"] => Gw!GetPacket(s) = Gw!MQTTSNDeserialize_ack("PUBCOMP", s)
           /\ TypeOf(s) = Code["SUBSCRIBE"] => Gw!GetPacket(s) = Gw!MQTTSNDeserialize_subscribe(s)
           /\ TypeOf(s) = Code["UNSUBSCRIBE"] => Gw!GetPacket(s) = Gw!MQTTSNDeserialize_unsubscribe(s)
           /\ TypeOf(s) = Code["PINGREQ"] => Gw!GetPacket(s) = [type |-> "PINGREQ"]
           /\ TypeOf(s) = Code["PINGRESP"] => Gw!GetPacket(s) = [type |-> "PINGRESP"]
           /\ TypeOf(s) = Code["DISCONNECT"] => Gw!GetPacket(s) = Gw!MQTTSNDeserialize_disconnect(s)
<1>1. Gw!TypeOf(s) = TypeOf(s) /\ Gw!Code = Code
  BY SameForGateway
<1> QED BY <1>1 DEF Gw!GetPacket, Code

----------------------------------------------------------------------------
(* A number in a packet that is not read. *)

\* An id written over the number.
LEMMA Overwritten ==
    ASSUME NEW h \in Octets, NEW n \in Word, NEW i \in Word, NEW t \in Octets
    PROVE  [h \o writeInt(n) \o t EXCEPT ![Len(h) + 1] = i \div 256, ![Len(h) + 2] = i % 256]
             = h \o writeInt(i) \o t
<1> DEFINE a == h \o writeInt(n) \o t
           b == h \o writeInt(i) \o t
           k == Len(h)
           c == [a EXCEPT ![k + 1] = i \div 256, ![k + 2] = i % 256]
<1>1. k \in Nat /\ Len(t) \in Nat
  BY LenIsNat
<1>2. a \in Octets /\ Len(a) = k + 2 + Len(t)
  BY Around
<1>3. b \in Octets /\ Len(b) = k + 2 + Len(t)
  BY Around
<1>4. ASSUME NEW j \in 1 .. k
      PROVE  a[j] = h[j] /\ b[j] = h[j]
  <2>1. j \in Nat /\ 1 <= j /\ j <= Len(h)
    BY <1>1
  <2>2. a[j] = h[j]
    BY <2>1, BeforeInt
  <2>3. b[j] = h[j]
    BY <2>1, BeforeInt
  <2> QED BY <2>2, <2>3
<1>5. b[k + 1] = i \div 256 /\ b[k + 2] = i % 256
  <2> DEFINE w == writeInt(i)
             g == h \o w
  <2>1. w \in Octets /\ Len(w) = 2
    BY IntOctets
  <2>2. w[1] = i \div 256 /\ w[2] = i % 256
    BY IntOctets
  <2> HIDE DEF w
  <2>3. g \in Octets /\ Len(g) = k + 2
    <3>1. g \in Octets /\ Len(g) = Len(h) + Len(w)
      BY <2>1, Both
    <3> QED BY <2>1, <3>1
  <2>4. g[k + 1] = w[1]
    <3>1. 1 \in Nat /\ 1 <= 1 /\ 1 <= Len(w)
      BY <2>1
    <3> QED BY <2>1, <3>1, InSecond
  <2>5. g[k + 2] = w[2]
    <3>1. 2 \in Nat /\ 1 <= 2 /\ 2 <= Len(w)
      BY <2>1
    <3> QED BY <2>1, <3>1, InSecond
  <2> HIDE DEF g, k
  <2>6. (g \o t)[k + 1] = g[k + 1]
    <3>1. k + 1 \in Nat /\ 1 <= k + 1 /\ k + 1 <= Len(g)
      BY <1>1, <2>3
    <3> QED BY <2>3, <3>1, InFirst
  <2>7. (g \o t)[k + 2] = g[k + 2]
    <3>1. k + 2 \in Nat /\ 1 <= k + 2 /\ k + 2 <= Len(g)
      BY <1>1, <2>3
    <3> QED BY <2>3, <3>1, InFirst
  <2> QED BY <2>2, <2>4, <2>5, <2>6, <2>7 DEF g, w
<1>6. ASSUME NEW j \in k + 3 .. k + 2 + Len(t)
      PROVE  a[j] = b[j]
  <2>1. From(a, k + 3) = t
    BY Around
  <2>2. From(b, k + 3) = t
    BY Around
  <2> HIDE DEF a, b, k
  <2> DEFINE l == j - (k + 2)
  <2>3. l \in 1 .. Len(t) /\ k + 3 + l - 1 = j
    BY <1>1
  <2>4. SubSeq(a, k + 3, Len(a))[l] = a[k + 3 + l - 1]
    BY <1>1, <1>2, <2>3 DEF Octets
  <2>5. SubSeq(b, k + 3, Len(b))[l] = b[k + 3 + l - 1]
    BY <1>1, <1>3, <2>3 DEF Octets
  <2> QED BY <2>1, <2>2, <2>3, <2>4, <2>5 DEF From
<1> HIDE DEF a, b, k
<1>7. c \in [1 .. Len(a) -> Nat]
  <2>1. a \in [1 .. Len(a) -> Nat] /\ i \div 256 \in Nat /\ i % 256 \in Nat
    BY <1>2, WordIsNat DEF Octets
  <2> QED BY <2>1
<1>8. b \in [1 .. Len(b) -> Nat] /\ c \in [1 .. Len(b) -> Nat]
  <2>1. Len(a) = Len(b)
    BY <1>2, <1>3
  <2>2. b \in Seq(Nat)
    BY <1>3 DEF Octets
  <2> HIDE DEF c
  <2>3. b \in [1 .. Len(b) -> Nat]
    BY <2>2
  <2> QED BY <1>7, <2>1, <2>3
<1>9. ASSUME NEW j \in 1 .. Len(b)
      PROVE  c[j] = b[j]
  <2>0. a \in [1 .. Len(b) -> Nat]
    BY <1>2, <1>3 DEF Octets
  <2>1. CASE j \in 1 .. k
    BY <1>1, <1>3, <1>4, <2>0, <2>1
  <2>2. CASE j \in k + 3 .. k + 2 + Len(t)
    BY <1>1, <1>3, <1>6, <2>0, <2>2
  <2>3. CASE j = k + 1
    BY <1>1, <1>3, <1>5, <2>0, <2>3
  <2>4. CASE j = k + 2
    BY <1>1, <1>3, <1>5, <2>0, <2>4
  <2> QED BY <1>1, <1>3, <2>1, <2>2, <2>3, <2>4
<1>10. c = b
  <2> HIDE DEF c
  <2> QED BY <1>8, <1>9
<1> QED BY <1>10 DEF a, b, c, k

\* Three sequences one behind the other.
LEMMA Associative ==
    ASSUME NEW a \in Octets, NEW b \in Octets, NEW c \in Octets
    PROVE  a \o (b \o c) = (a \o b) \o c
<1> DEFINE S == Nat
<1>1. a \in Seq(S) /\ b \in Seq(S) /\ c \in Seq(S)
  BY DEF Octets
<1> HIDE DEF S
<1> QED BY <1>1

\* What stands before the body of a packet.
LEMMA FrontOfPacket ==
    ASSUME NEW x \in Nat, NEW l \in Word, l >= 2
    PROVE  /\ MQTTSNPacket_encode(l) \o <<x>> \in Octets
           /\ Len(MQTTSNPacket_encode(l) \o <<x>>) = Width(l) + 1
<1> DEFINE e == MQTTSNPacket_encode(l)
           c == <<x>>
<1>1. e \in Octets /\ Len(e) = Width(l)
  BY LengthField
<1>2. c \in Octets /\ Len(c) = 1
  BY OneOctet
<1> HIDE DEF e, c
<1>3. e \o c \in Octets /\ Len(e \o c) = Len(e) + Len(c)
  BY <1>1, <1>2, Both
<1> QED BY <1>1, <1>2, <1>3 DEF e, c

\* The length and the type.
FrontOf(type, size) == MQTTSNPacket_encode(MQTTSNPacket_len(1 + size)) \o <<Code[type]>>

\* Every length has a length field.
LEMMA LengthFits ==
    ASSUME NEW size \in Nat
    PROVE  MQTTSNPacket_len(1 + size) >= 2 /\ Width(MQTTSNPacket_len(1 + size)) \in {1, 3}
BY LengthOfPacket

\* A number between octets.
Holding(h, n, t) == h \o writeInt(n) \o t

\* What the buffers hold.
Fits(b) == Len(b) <= 3000

\* The number is read where it is.
LEMMA HoldingParts ==
    ASSUME NEW h \in Octets, NEW n \in Word, NEW t \in Octets
    PROVE  /\ Holding(h, n, t) \in Octets
           /\ Len(Holding(h, n, t)) = Len(h) + 2 + Len(t)
           /\ Len(Holding(h, n, t)) \in Nat
           /\ readInt(Holding(h, n, t), Len(h) + 1) = n
<1>1. Holding(h, n, t) \in Octets
  BY Around DEF Holding
<1>2. Len(Holding(h, n, t)) = Len(h) + 2 + Len(t) /\ readInt(Holding(h, n, t), Len(h) + 1) = n
  BY Around DEF Holding
<1> QED BY <1>1, <1>2, LenIsNat

\* Octets before it.
LEMMA HoldingBehind ==
    ASSUME NEW a \in Octets, NEW b \in Octets, NEW i \in Word, NEW c \in Octets
    PROVE  a \o Holding(b, i, c) = Holding(a \o b, i, c)
<1> DEFINE w == writeInt(i)
<1>1. w \in Octets
  BY IntOctets
<1> HIDE DEF w
<1>2. a \o (b \o w \o c) = a \o b \o w \o c
  <2> DEFINE g == b \o w
  <2>1. g \in Octets
    BY <1>1, Both
  <2>2. a \o g = (a \o b) \o w
    BY <1>1, Associative
  <2> HIDE DEF g
  <2>3. a \o (g \o c) = (a \o g) \o c
    BY <2>1, Associative
  <2>4. a \o (g \o c) = ((a \o b) \o w) \o c
    BY ONLY <2>2, <2>3
  <2> QED BY ONLY <2>4 DEF g
<1>3. Holding(b, i, c) = b \o w \o c /\ Holding(a \o b, i, c) = a \o b \o w \o c
  BY Zenon DEF w, Holding
<1> QED BY <1>2, <1>3, Zenon

\* A packet with a number in its body, taken apart around the number.
LEMMA AroundId ==
    ASSUME NEW type, Code[type] \in Nat, NEW h \in Octets, NEW n \in Word, NEW t \in Octets,
           Fits(Holding(h, n, t))
    PROVE  LET b == Holding(h, n, t)
               g == FrontOf(type, Len(b)) \o h
           IN  /\ g \in Octets /\ Len(g) = TypeAt(b) + Len(h)
               /\ Packet(type, b) = Holding(g, n, t)
<1> DEFINE b == Holding(h, n, t)
           l == MQTTSNPacket_len(1 + Len(b))
           f == FrontOf(type, Len(b))
<1>1. b \in Octets /\ Len(b) \in Nat
  BY HoldingParts
<1> HIDE DEF b
<1>2. b \in Bodies
  BY <1>1, Carried DEF b, Fits
<1>3. l >= 2 /\ Width(l) \in {1, 3}
  BY <1>1, LengthFits
<1>4. l \in Word
  BY <1>2 DEF Bodies
<1>5. f \in Octets /\ Len(f) = Width(l) + 1
  <2>1. f = MQTTSNPacket_encode(l) \o <<Code[type]>>
    BY DEF FrontOf
  <2> HIDE DEF l, f
  <2> QED BY <1>3, <1>4, <2>1, FrontOfPacket
<1>6. Width(l) + 1 = TypeAt(b)
  BY DEF TypeAt
<1>7. Packet(type, b) = f \o b
  BY DEF Packet, FrontOf
<1> HIDE DEF f, l
<1>8. f \o h \in Octets /\ Len(f \o h) = TypeAt(b) + Len(h)
  BY <1>5, <1>6, Both
<1>10. f \o b = Holding(f \o h, n, t)
  <2>1. f \in Octets
    BY <1>5
  <2>2. f \o Holding(h, n, t) = Holding(f \o h, n, t)
    BY <2>1, HoldingBehind, Zenon
  <2> QED BY <2>2 DEF b
<1> QED BY <1>7, <1>8, <1>10 DEF f, b

\* The number in a packet, read where it is and written over.
LEMMA IdInPacket ==
    ASSUME NEW type, Code[type] \in Nat, NEW h \in Octets, NEW n \in Word, NEW t \in Octets,
           Fits(Holding(h, n, t)), NEW i \in Word
    PROVE  LET s == Packet(type, Holding(h, n, t))
               p == TypeAt(Holding(h, n, t)) + Len(h) + 1
           IN  /\ readInt(s, p) = n
               /\ [s EXCEPT ![p] = i \div 256, ![p + 1] = i % 256] = Packet(type, Holding(h, i, t))
               /\ Len(Holding(h, i, t)) = Len(Holding(h, n, t))
<1> DEFINE b == Holding(h, n, t)
           c == Holding(h, i, t)
           g == FrontOf(type, Len(b)) \o h
           p == TypeAt(b) + Len(h) + 1
<1>1. g \in Octets /\ Len(g) = TypeAt(b) + Len(h) /\ Packet(type, b) = Holding(g, n, t)
  BY AroundId
<1>2. Len(b) = Len(c)
  BY HoldingParts
<1>3. Packet(type, c) = Holding(FrontOf(type, Len(c)) \o h, i, t)
  <2>1. Fits(Holding(h, i, t))
    BY <1>2 DEF Fits, b, c
  <2> QED BY <2>1, AroundId
<1>4. Packet(type, c) = Holding(g, i, t)
  BY <1>2, <1>3
<1>5. Len(g) \in Nat
  BY <1>1, LenIsNat
<1>6. p = Len(g) + 1 /\ p + 1 = Len(g) + 2
  BY <1>1, <1>5
<1> HIDE DEF g, b, c, p
<1>7. readInt(Holding(g, n, t), Len(g) + 1) = n
  BY <1>1, HoldingParts
<1>8. [Holding(g, n, t) EXCEPT ![Len(g) + 1] = i \div 256, ![Len(g) + 2] = i % 256]
        = Holding(g, i, t)
  BY <1>1, Overwritten DEF Holding
<1>9. readInt(Packet(type, b), p) = n
  BY <1>1, <1>6, <1>7
<1>10. [Packet(type, b) EXCEPT ![p] = i \div 256, ![p + 1] = i % 256] = Packet(type, c)
  BY <1>1, <1>4, <1>6, <1>8
<1> QED BY <1>2, <1>9, <1>10 DEF b, c, p

\* The topic of a PUBLISH in two octets: an id or a short name.
TwoOctets(topic) == IF topic.kind = SHORT THEN topic.name ELSE writeInt(topic.id)

\* What a client writes before the message id, behind the type.
IdHead(msg) ==
    CASE msg.type = "PUBLISH" ->
           <<Flags(msg.dup, msg.qos, msg.retain, msg.topic.kind)>>
             \o (IF Client!LongName(msg.qos, msg.topic) THEN writeInt(Len(msg.topic.name))
                 ELSE TwoOctets(msg.topic))
      [] msg.type = "SUBSCRIBE"   -> <<Flags(msg.dup, msg.qos, 0, msg.topic.kind)>>
      [] msg.type = "UNSUBSCRIBE" -> <<msg.topic.kind>>
      [] msg.type \in {"PUBACK", "REGACK", "REGISTER"}  -> writeInt(msg.topicID)
      [] msg.type \in {"PUBREC", "PUBREL", "PUBCOMP"}   -> <<>>

\* What it writes behind the message id.
IdTail(msg) ==
    CASE msg.type = "PUBLISH" ->
           (IF Client!LongName(msg.qos, msg.topic) THEN msg.topic.name ELSE <<>>) \o msg.payload
      [] msg.type \in {"SUBSCRIBE", "UNSUBSCRIBE"}     -> Client!FilterOctets(msg.topic)
      [] msg.type \in {"PUBACK", "REGACK"}             -> <<msg.rc>>
      [] msg.type = "REGISTER"                         -> msg.name
      [] msg.type \in {"PUBREC", "PUBREL", "PUBCOMP"}  -> <<>>

\* The body of a message with the message id i.
WithId(msg, i) == Holding(IdHead(msg), i, IdTail(msg))

Written(msg) ==
    /\ IdHead(msg) \in Octets /\ IdTail(msg) \in Octets /\ Fits(WithId(msg, msg.msgID))
    /\ ClientWriter(msg) = Packet(msg.type, WithId(msg, msg.msgID))

----------------------------------------------------------------------------
(* What a client sends is read by the gateway. *)

\* A message is one packet.
Made(msg) == \E body \in Octets : Fits(body) /\ ClientWriter(msg) = Packet(msg.type, body)

Arrives(msg, read) ==
    /\ ClientWriter(msg) \in Octets /\ ClientWriter(msg) # <<>> /\ Sized(msg)
    /\ TypeOf(ClientWriter(msg)) = Code[msg.type]
    /\ ~Cut(ClientWriter(msg)) => Gw!GetPacket(ClientWriter(msg)) = read

\* CONNECT; the gateway rejects it without a client id.
LEMMA ConnectArrives ==
    ASSUME NEW msg \in [type : {"CONNECT"}, will : Bit, clean : Bit, duration : Word,
                        clientID : AnyText]
    PROVE  Arrives(msg, IF msg.clientID = <<>> THEN Rejected ELSE msg) /\ Made(msg)
<1> DEFINE f == ConnectFlags(msg.will, msg.clean)
           h == <<f, 1>>
           t == msg.clientID
           b == h \o writeInt(msg.duration) \o t
           s == Packet("CONNECT", b)
<1>1. /\ msg.will \in Bit /\ msg.clean \in Bit /\ msg.duration \in Word /\ t \in Octets
      /\ Len(t) \in Nat /\ Len(t) <= 1016 /\ f \in Nat
      /\ FlagsOf(f).will = msg.will /\ FlagsOf(f).clean = msg.clean
  BY LenIsNat, ConnectFlagged DEF AnyText
<1>2. h \in Octets /\ Len(h) = 2
  BY <1>1 DEF Octets
<1>3. h[1] = f /\ h[2] = 1
  OBVIOUS
<1> HIDE DEF f, h, t
<1>4. b \in Octets /\ Len(b) = 4 + Len(t)
  BY <1>1, <1>2, After2
<1>5. b[1] = f /\ b[2] = 1 /\ readInt(b, 3) = msg.duration /\ From(b, 5) = t
  <2>1. b[1] = h[1] /\ b[2] = h[2] /\ readInt(b, 3) = msg.duration /\ From(b, 5) = t
    BY <1>1, <1>2, After2
  <2> QED BY <1>3, <2>1
<1> HIDE DEF b
<1>6. b \in Octets /\ Len(b) <= 3000 /\ Code["CONNECT"] \in Nat
  BY <1>1, <1>4 DEF Code
<1>7. ClientWriter(msg) = s /\ Sized(msg)
  <2>1. ClientSender(msg) = Client!connect(msg)
    BY DEF ClientSender
  <2>2. Client!MQTTSNSerialize_connect(msg) = s
    BY SameForClient DEF Client!MQTTSNSerialize_connect, b, h, t, f
  <2>3. Client!connect(msg) = Client!Sent(MQTTSNPacket_len(1 + Len(b)), s)
    <3>1. 5 + Len(msg.clientID) = 1 + Len(b)
      BY <1>1, <1>4 DEF t
    <3> QED BY <2>2, <3>1, SameForClient DEF Client!connect
  <2>4. OfTheWrongLength(msg) <=> Wrong(Len(b))
    <3>1. OfTheWrongLength(msg) <=> Wrong(4 + Len(t))
      BY <1>1, WrongLengths DEF t
    <3> QED BY <1>4, <3>1
  <2>s. Sends(b, s)
    BY <1>6, Sending
  <2> QED BY <2>1, <2>3, <2>4, <2>s, SentBy, Zenon
<1>a. Made(msg)
  BY <1>6, <1>7 DEF Made, Fits
<1>8. TypeOf(s) = Code["CONNECT"] /\ s \in Octets /\ s # <<>> /\ (~Cut(s) => Body(s) = b)
  BY <1>6, Sending
<1> HIDE DEF s
<1>9. ASSUME Body(s) = b
      PROVE  Gw!GetPacket(s) = IF msg.clientID = <<>> THEN Rejected ELSE msg
  <2>1. Gw!GetPacket(s) = Gw!MQTTSNDeserialize_connect(s)
    BY <1>8, GatewayChooses
  <2>2. Gw!MQTTSNDeserialize_connect(s)
          = IF t = <<>> THEN Rejected
            ELSE [type |-> "CONNECT", will |-> msg.will, clean |-> msg.clean,
                  duration |-> msg.duration, clientID |-> t]
    BY <1>1, <1>5, <1>9, SameForGateway DEF Gw!MQTTSNDeserialize_connect, Gw!IfText
  <2> QED BY <2>1, <2>2 DEF t
<1> QED BY <1>7, <1>8, <1>9, <1>a DEF Arrives

\* DISCONNECT, with a duration or without.
LEMMA DisconnectArrives ==
    ASSUME NEW msg \in [type : {"DISCONNECT"}, duration : Word]
    PROVE  Arrives(msg, msg)
<1> DEFINE b == IF msg.duration > 0 THEN writeInt(msg.duration) ELSE <<>>
           s == Packet("DISCONNECT", b)
<1>0. msg.duration \in Word /\ msg.duration \in Nat
  BY WordIsNat
<1>1. /\ b \in Octets /\ Len(b) = IF msg.duration > 0 THEN 2 ELSE 0
      /\ msg.duration > 0 => readInt(b, 1) = msg.duration
  <2>1. CASE msg.duration > 0
    BY <1>0, <2>1, IntOctets
  <2>2. CASE ~(msg.duration > 0)
    BY <2>2 DEF Octets
  <2> QED BY <2>1, <2>2
<1> HIDE DEF b
<1>2. b \in Octets /\ Len(b) <= 3000 /\ Code["DISCONNECT"] \in Nat
  <2>1. Len(b) \in {0, 2}
    BY <1>1
  <2> QED BY <1>1, <2>1 DEF Code
<1>3. ClientWriter(msg) = s /\ Sized(msg)
  <2>1. ClientSender(msg) = Client!disconnect(msg)
    BY DEF ClientSender
  <2>2. Client!MQTTSNSerialize_disconnect(msg) = s
    BY SameForClient DEF Client!MQTTSNSerialize_disconnect, b
  <2>3. Client!disconnect(msg) = Client!Sent(MQTTSNPacket_len(1 + Len(b)), s)
    <3>1. (IF msg.duration > 0 THEN 3 ELSE 1) = 1 + Len(b)
      BY <1>1
    <3> QED BY <2>2, <3>1, SameForClient DEF Client!disconnect
  <2>4. ~OfTheWrongLength(msg) /\ ~Wrong(Len(b))
    BY <1>1, WrongLengths DEF Wrong
  <2>s. Sends(b, s)
    BY <1>2, Sending
  <2> QED BY <2>1, <2>3, <2>4, <2>s, SentBy, Zenon
<1>4. TypeOf(s) = Code["DISCONNECT"] /\ s \in Octets /\ s # <<>> /\ (~Cut(s) => Body(s) = b)
  BY <1>2, Sending
<1> HIDE DEF s
<1>5. ASSUME Body(s) = b
      PROVE  Gw!GetPacket(s) = msg
  <2>1. Gw!GetPacket(s) = Gw!MQTTSNDeserialize_disconnect(s)
    BY <1>4, GatewayChooses
  <2>2. Gw!MQTTSNDeserialize_disconnect(s) = [type |-> "DISCONNECT", duration |-> msg.duration]
    <3>1. CASE msg.duration > 0
      BY <1>1, <1>5, <3>1, SameForGateway DEF Gw!MQTTSNDeserialize_disconnect
    <3>2. CASE ~(msg.duration > 0)
      <4>1. msg.duration = 0 /\ Len(b) = 0
        BY <1>0, <1>1, <3>2
      <4> QED BY <1>5, <4>1, SameForGateway DEF Gw!MQTTSNDeserialize_disconnect
    <3> QED BY <3>1, <3>2
  <2> QED BY <2>1, <2>2
<1> QED BY <1>3, <1>4, <1>5 DEF Arrives

\* PINGREQ, whose client id getPacket drops, and PINGRESP.
LEMMA PingArrives ==
    ASSUME NEW msg, \/ msg \in [type : {"PINGREQ"}, clientID : AnyText]
                    \/ msg \in [type : {"PINGRESP"}]
    PROVE  Arrives(msg, [type |-> msg.type])
<1>1. CASE msg \in [type : {"PINGREQ"}, clientID : AnyText]
  <2> DEFINE b == msg.clientID
             s == Packet("PINGREQ", b)
  <2>1. b \in Octets /\ Len(b) \in Nat /\ Len(b) <= 1016 /\ msg.type = "PINGREQ"
    BY <1>1, LenIsNat DEF AnyText
  <2>2. b \in Octets /\ Len(b) <= 3000 /\ Code["PINGREQ"] \in Nat
    BY <2>1 DEF Code
  <2>3. ClientWriter(msg) = s /\ Sized(msg)
    <3>1. ClientSender(msg) = Client!pingReq(msg)
      BY <2>1 DEF ClientSender
    <3>2. Client!MQTTSNSerialize_pingreq(msg) = s
      BY SameForClient DEF Client!MQTTSNSerialize_pingreq
    <3>3. (IF b = <<>> THEN 2 ELSE MQTTSNPacket_len(Len(b) + 1)) = MQTTSNPacket_len(1 + Len(b))
      <4>1. CASE b = <<>>
        BY <4>1 DEF MQTTSNPacket_len
      <4>2. CASE b # <<>>
        BY <2>1, <4>2
      <4> QED BY <4>1, <4>2
    <3>4. Client!pingReq(msg) = Client!Sent(MQTTSNPacket_len(1 + Len(b)), s)
      BY <3>2, <3>3, SameForClient DEF Client!pingReq
    <3>5. OfTheWrongLength(msg) <=> Wrong(Len(b))
      BY <2>1, WrongLengths
    <3>s. Sends(b, s)
      BY <2>2, Sending
    <3> QED BY <3>1, <3>4, <3>5, <3>s, SentBy, Zenon
  <2>4. TypeOf(s) = Code["PINGREQ"] /\ s \in Octets /\ s # <<>>
    BY <2>2, Sending
  <2> QED BY <2>1, <2>3, <2>4, GatewayChooses DEF Arrives
<1>2. CASE msg \in [type : {"PINGRESP"}]
  <2> DEFINE s == Packet("PINGRESP", <<>>)
  <2>1. msg.type = "PINGRESP"
    BY <1>2
  <2>2. <<>> \in Octets /\ Len(<<>>) <= 3000 /\ Code["PINGRESP"] \in Nat
    BY DEF Octets, Code
  <2>3. ClientWriter(msg) = s /\ Sized(msg)
    <3>1. ClientSender(msg) = Client!pingResp(msg)
      BY <2>1 DEF ClientSender
    <3>2. MQTTSNPacket_len(1 + Len(<<>>)) = 2
      BY DEF MQTTSNPacket_len
    <3>3. Client!pingResp(msg) = Client!Sent(MQTTSNPacket_len(1 + Len(<<>>)), s)
      BY <3>2, SameForClient DEF Client!pingResp
    <3>4. ~OfTheWrongLength(msg) /\ ~Wrong(Len(<<>>))
      <4>1. Len(<<>>) = 0
        OBVIOUS
      <4> QED BY <2>1, <4>1, WrongLengths DEF Wrong
    <3>s. Sends(<<>>, s)
      BY <2>2, Sending
    <3> QED BY <3>1, <3>3, <3>4, <3>s, SentBy, Zenon
  <2>4. TypeOf(s) = Code["PINGRESP"] /\ s \in Octets /\ s # <<>>
    BY <2>2, Sending
  <2> QED BY <2>1, <2>3, <2>4, GatewayChooses DEF Arrives
<1> QED BY <1>1, <1>2

\* One octet before others.
LEMMA AfterOctet ==
    ASSUME NEW x \in Nat, NEW t \in Octets
    PROVE  /\ <<x>> \o t \in Octets /\ Len(<<x>> \o t) = 1 + Len(t)
           /\ (<<x>> \o t)[1] = x /\ From(<<x>> \o t, 2) = t
<1> DEFINE h == <<x>>
<1>1. h \in Octets /\ Len(h) = 1
  BY OneOctet
<1>2. h[1] = x
  BY OneOctet
<1> HIDE DEF h
<1>3. h \o t \in Octets /\ Len(h \o t) = 1 + Len(t)
  BY <1>1, Both
<1>4. From(h \o t, 2) = t
  <2>1. From(h \o t, Len(h) + 1) = t
    BY <1>1, Second
  <2> QED BY <1>1, <2>1
<1>5. (h \o t)[1] = h[1]
  <2>1. 1 \in Nat /\ 1 <= 1 /\ 1 <= Len(h)
    BY <1>1
  <2> QED BY <1>1, <2>1, InFirst
<1> QED BY <1>2, <1>3, <1>4, <1>5 DEF h

\* The types of the messages of the will have codes.
LEMMA WillCodes ==
    /\ Code["WILLTOPIC"] \in Nat /\ Code["WILLTOPICUPD"] \in Nat
    /\ Code["WILLMSG"] \in Nat /\ Code["WILLMSGUPD"] \in Nat
<1>1. Code["WILLTOPIC"] \in Nat
  BY DEF Code
<1>2. Code["WILLTOPICUPD"] \in Nat
  BY DEF Code
<1>3. Code["WILLMSG"] \in Nat
  BY DEF Code
<1>4. Code["WILLMSGUPD"] \in Nat
  BY DEF Code
<1> QED BY <1>1, <1>2, <1>3, <1>4

\* WILLTOPIC and WILLTOPICUPD.
LEMMA WillTopicArrives ==
    ASSUME NEW msg \in [type : {"WILLTOPIC", "WILLTOPICUPD"}, qos : Qos, retain : Bit,
                        topic : AnyText]
    PROVE  Arrives(msg, IF msg.topic = <<>> THEN Rejected ELSE msg)
<1> DEFINE f == Flags(0, msg.qos, msg.retain, 0)
           t == msg.topic
           b == <<f>> \o t
           s == Packet(msg.type, b)
<1>1. /\ msg.type \in {"WILLTOPIC", "WILLTOPICUPD"} /\ t \in Octets
      /\ msg.qos \in 0 .. 3 /\ msg.retain \in Bit /\ 0 \in Bit /\ 0 \in 0 .. 2
      /\ Len(t) \in Nat /\ Len(t) <= 1016
  BY LenIsNat DEF AnyText, Qos, Bit
<1>2. f \in Nat /\ FlagsOf(f).qos = msg.qos /\ FlagsOf(f).retain = msg.retain
  BY <1>1 DEF Flags, FlagsOf, Bit
<1> HIDE DEF f, t
<1>3. b \in Octets /\ Len(b) = 1 + Len(t)
  BY <1>1, <1>2, AfterOctet
<1>4. b[1] = f /\ From(b, 2) = t
  BY <1>1, <1>2, AfterOctet
<1> HIDE DEF b
<1>5. b \in Octets /\ Len(b) <= 3000 /\ Code[msg.type] \in Nat
  <2>1. Len(b) <= 3000
    BY <1>1, <1>3
  <2>2. Code[msg.type] \in Nat
    BY <1>1, WillCodes
  <2> QED BY <1>3, <2>1, <2>2
<1>6. TypeOf(s) = Code[msg.type] /\ s \in Octets /\ s # <<>> /\ (~Cut(s) => Body(s) = b)
  BY <1>5, Sending
<1>7. ClientWriter(msg) = s /\ Sized(msg)
  <2>1. Client!MQTTSNSerialize_willtopic1(msg, msg.type) = s
    BY SameForClient DEF Client!MQTTSNSerialize_willtopic1, b, t, f
  <2>2. CASE msg.type = "WILLTOPIC"
    <3>1. ClientSender(msg) = Client!willTopic(msg)
      BY <2>2 DEF ClientSender
    <3>2. Client!willTopic(msg) = Client!Sent(MQTTSNPacket_len(1 + Len(b)), s)
      <4>1. Len(msg.topic) + 2 = 1 + Len(b)
        BY <1>1, <1>3 DEF t
      <4> QED
        BY <2>1, <2>2, <4>1, SameForClient DEF Client!willTopic, Client!MQTTSNSerialize_willtopic
    <3>3. OfTheWrongLength(msg) <=> Wrong(Len(b))
      <4>1. OfTheWrongLength(msg) <=> Wrong(1 + Len(t))
        BY <1>1, <2>2, WrongLengths DEF t
      <4> QED BY <1>3, <4>1
    <3>s. Sends(b, s)
      BY <1>5, Sending
    <3> QED BY <3>1, <3>2, <3>3, <3>s, SentBy, Zenon
  <2>3. CASE msg.type = "WILLTOPICUPD"
    <3>1. ClientSender(msg) = Client!Given(Client!MQTTSNSerialize_willtopicupd(msg))
      BY <2>3 DEF ClientSender
    <3>2. ClientSender(msg) = Client!Given(s)
      BY <2>1, <2>3, <3>1 DEF Client!MQTTSNSerialize_willtopicupd
    <3>3. ByCaller(msg) /\ ~OfTheWrongLength(msg)
      BY <2>3, WrongLengths DEF ByCaller
    <3> QED BY <1>6, <3>2, <3>3, GivenBy
  <2> QED BY <1>1, <2>2, <2>3
<1> HIDE DEF s
<1>8. ASSUME Body(s) = b
      PROVE  Gw!GetPacket(s) = IF msg.topic = <<>> THEN Rejected ELSE msg
  <2>1. Gw!GetPacket(s) = Gw!MQTTSNDeserialize_willtopic1(s, msg.type)
    <3>1. CASE msg.type = "WILLTOPIC"
      BY <1>6, <3>1, GatewayChooses DEF Gw!MQTTSNDeserialize_willtopic
    <3>2. CASE msg.type = "WILLTOPICUPD"
      BY <1>6, <3>2, GatewayChooses DEF Gw!MQTTSNDeserialize_willtopicupd
    <3> QED BY <1>1, <3>1, <3>2
  <2>2. Gw!MQTTSNDeserialize_willtopic1(s, msg.type)
          = IF t = <<>> THEN Rejected
            ELSE [type |-> msg.type, qos |-> msg.qos, retain |-> msg.retain, topic |-> t]
    BY <1>2, <1>4, <1>8, SameForGateway DEF Gw!MQTTSNDeserialize_willtopic1, Gw!IfText
  <2> QED BY <2>1, <2>2 DEF t
<1> QED BY <1>6, <1>7, <1>8 DEF Arrives

\* WILLMSG and WILLMSGUPD.
LEMMA WillMsgArrives ==
    ASSUME NEW msg \in [type : {"WILLMSG", "WILLMSGUPD"}, msg : AnyText]
    PROVE  Arrives(msg, IF msg.msg = <<>> THEN Rejected ELSE msg) /\ Made(msg)
<1> DEFINE b == msg.msg
           s == Packet(msg.type, b)
<1>1. /\ msg.type \in {"WILLMSG", "WILLMSGUPD"} /\ b \in Octets
      /\ Len(b) \in Nat /\ Len(b) <= 1016
  BY LenIsNat DEF AnyText
<1> HIDE DEF b
<1>2. b \in Octets /\ Len(b) <= 3000 /\ Code[msg.type] \in Nat
  <2>1. Len(b) <= 3000
    BY <1>1
  <2>2. Code[msg.type] \in Nat
    BY <1>1, WillCodes
  <2> QED BY <1>1, <2>1, <2>2
<1>3. TypeOf(s) = Code[msg.type] /\ s \in Octets /\ s # <<>> /\ (~Cut(s) => Body(s) = b)
  BY <1>2, Sending
<1>4. ClientWriter(msg) = s /\ Sized(msg)
  <2>1. Client!MQTTSNSerialize_willmsg1(msg, msg.type) = s
    BY SameForClient DEF Client!MQTTSNSerialize_willmsg1, b
  <2>2. CASE msg.type = "WILLMSG"
    <3>1. ClientSender(msg) = Client!willMsg(msg)
      BY <2>2 DEF ClientSender
    <3>2. Client!willMsg(msg) = Client!Sent(MQTTSNPacket_len(1 + Len(b)), s)
      <4>1. Len(msg.msg) + 1 = 1 + Len(b)
        BY <1>1 DEF b
      <4> QED BY <2>1, <2>2, <4>1, SameForClient DEF Client!willMsg, Client!MQTTSNSerialize_willmsg
    <3>3. OfTheWrongLength(msg) <=> Wrong(Len(b))
      BY <2>2, WrongLengths DEF b
    <3>s. Sends(b, s)
      BY <1>2, Sending
    <3> QED BY <3>1, <3>2, <3>3, <3>s, SentBy, Zenon
  <2>3. CASE msg.type = "WILLMSGUPD"
    <3>1. ClientSender(msg) = Client!Given(Client!MQTTSNSerialize_willmsgupd(msg))
      BY <2>3 DEF ClientSender
    <3>2. ClientSender(msg) = Client!Given(s)
      BY <2>1, <2>3, <3>1 DEF Client!MQTTSNSerialize_willmsgupd
    <3>3. ByCaller(msg) /\ ~OfTheWrongLength(msg)
      BY <2>3, WrongLengths DEF ByCaller
    <3> QED BY <1>3, <3>2, <3>3, GivenBy
  <2> QED BY <1>1, <2>2, <2>3
<1>a. Made(msg)
  BY <1>2, <1>4 DEF Made, Fits
<1> HIDE DEF s
<1>5. ASSUME Body(s) = b
      PROVE  Gw!GetPacket(s) = IF msg.msg = <<>> THEN Rejected ELSE msg
  <2>1. Gw!GetPacket(s) = Gw!MQTTSNDeserialize_willmsg1(s, msg.type)
    <3>1. CASE msg.type = "WILLMSG"
      BY <1>3, <3>1, GatewayChooses DEF Gw!MQTTSNDeserialize_willmsg
    <3>2. CASE msg.type = "WILLMSGUPD"
      BY <1>3, <3>2, GatewayChooses DEF Gw!MQTTSNDeserialize_willmsgupd
    <3> QED BY <1>1, <3>1, <3>2
  <2>2. Gw!MQTTSNDeserialize_willmsg1(s, msg.type)
          = IF b = <<>> THEN Rejected ELSE [type |-> msg.type, msg |-> b]
    BY <1>5, SameForGateway DEF Gw!MQTTSNDeserialize_willmsg1, Gw!IfText
  <2> QED BY <2>1, <2>2 DEF b
<1> QED BY <1>3, <1>4, <1>5, <1>a DEF Arrives

\* SEARCHGW.
LEMMA SearchArrives ==
    ASSUME NEW msg \in [type : {"SEARCHGW"}, radius : Bit]
    PROVE  Arrives(msg, msg)
<1> DEFINE b == <<msg.radius>>
           s == Packet("SEARCHGW", b)
<1>1. msg.radius \in Nat
  BY DEF Bit
<1>2. b \in Octets /\ Len(b) = 1
  BY <1>1, OneOctet
<1>3. b[1] = msg.radius
  BY <1>1, OneOctet
<1> HIDE DEF b
<1>4. b \in Octets /\ Len(b) <= 3000 /\ Code["SEARCHGW"] \in Nat
  BY <1>2 DEF Code
<1>5. TypeOf(s) = Code["SEARCHGW"] /\ s \in Octets /\ s # <<>> /\ (~Cut(s) => Body(s) = b)
  BY <1>4, Sending
<1>6. ClientWriter(msg) = s /\ Sized(msg)
  <2>1. ClientSender(msg) = Client!Given(Client!MQTTSNSerialize_searchgw(msg))
    BY DEF ClientSender
  <2>2. ClientSender(msg) = Client!Given(s)
    BY <2>1, SameForClient DEF Client!MQTTSNSerialize_searchgw, b
  <2>3. ByCaller(msg) /\ ~OfTheWrongLength(msg)
    BY WrongLengths DEF ByCaller
  <2> QED BY <1>5, <2>2, <2>3, GivenBy
<1> HIDE DEF s
<1>7. ASSUME Body(s) = b
      PROVE  Gw!GetPacket(s) = msg
  <2>1. Gw!GetPacket(s) = [type |-> "SEARCHGW", radius |-> msg.radius]
    BY <1>3, <1>5, <1>7, GatewayChooses, SameForGateway DEF Gw!MQTTSNDeserialize_searchgw
  <2> QED BY <2>1
<1> QED BY <1>5, <1>6, <1>7 DEF Arrives

\* What a topic filter is read as; a short one has two octets.
IsFilter(topic) ==
    \/ topic \in [kind : {NORMAL}, id : {0}, name : AnyText \ {<<>>}]
    \/ topic \in [kind : {PREDEFINED}, id : Word, name : {<<>>}]
    \/ topic \in [kind : {SHORT}, id : {0}, name : {t \in Octets : Len(t) = 2}]

\* What SUBSCRIBE and UNSUBSCRIBE carry of a topic.
LEMMA FilterIsKept ==
    ASSUME NEW topic, IsFilter(topic)
    PROVE  /\ topic.kind \in 0 .. 2
           /\ Client!FilterOctets(topic) \in Octets
           /\ Len(Client!FilterOctets(topic)) = IF topic.kind = NORMAL THEN Len(topic.name) ELSE 2
           /\ Len(Client!FilterOctets(topic)) \in Nat /\ Len(Client!FilterOctets(topic)) <= 1016
           /\ Gw!FilterOf(topic.kind, Client!FilterOctets(topic)) = topic
<1>1. CASE topic \in [kind : {NORMAL}, id : {0}, name : AnyText \ {<<>>}]
  <2>1. topic.kind = NORMAL /\ topic.id = 0 /\ topic.name \in Octets /\ Len(topic.name) <= 1016
        /\ topic.kind = 0 /\ topic = [kind |-> topic.kind, id |-> 0, name |-> topic.name]
    BY <1>1 DEF AnyText, NORMAL
  <2>2. Client!FilterOctets(topic) = topic.name
    BY <2>1, SameForClient DEF Client!FilterOctets, NORMAL, PREDEFINED
  <2>3. Len(topic.name) \in Nat
    BY <2>1, LenIsNat
  <2>4. Gw!FilterOf(topic.kind, topic.name) = topic
    BY <2>1, SameForGateway DEF Gw!FilterOf, NORMAL, PREDEFINED, Topic
  <2> QED BY <2>1, <2>2, <2>3, <2>4
<1>2. CASE topic \in [kind : {PREDEFINED}, id : Word, name : {<<>>}]
  <2>1. topic.kind = PREDEFINED /\ topic.id \in Word /\ topic.kind = 1 /\ topic.kind # NORMAL
        /\ topic = [kind |-> topic.kind, id |-> topic.id, name |-> <<>>]
    BY <1>2 DEF PREDEFINED, NORMAL
  <2>2. Client!FilterOctets(topic) = writeInt(topic.id)
    BY <2>1, SameForClient DEF Client!FilterOctets
  <2>3. writeInt(topic.id) \in Octets /\ Len(writeInt(topic.id)) = 2
    BY <2>1, IntOctets
  <2>4. readInt(writeInt(topic.id), 1) = topic.id
    BY <2>1, IntOctets
  <2>5. Gw!FilterOf(topic.kind, writeInt(topic.id)) = topic
    BY <2>1, <2>4, SameForGateway DEF Gw!FilterOf, Topic
  <2> QED BY <2>1, <2>2, <2>3, <2>5
<1>3. CASE topic \in [kind : {SHORT}, id : {0}, name : {t \in Octets : Len(t) = 2}]
  <2>1. topic.kind = 2 /\ topic.kind # NORMAL /\ topic.kind # PREDEFINED
        /\ topic.name \in Octets /\ Len(topic.name) = 2 /\ topic.kind \in 0 .. 2
        /\ topic = [kind |-> topic.kind, id |-> 0, name |-> topic.name]
    BY <1>3 DEF NORMAL, PREDEFINED, SHORT
  <2>2. Client!FilterOctets(topic) = topic.name
    BY <2>1, SameForClient DEF Client!FilterOctets
  <2>3. Gw!FilterOf(topic.kind, topic.name) = topic
    BY <2>1, SameForGateway DEF Gw!FilterOf, Topic
  <2>4. Len(topic.name) \in Nat /\ Len(topic.name) <= 1016
    BY ONLY <2>1
  <2>5. Len(topic.name) = IF topic.kind = NORMAL THEN Len(topic.name) ELSE 2
    BY ONLY <2>1
  <2>6. topic.kind \in 0 .. 2 /\ topic.name \in Octets
    BY ONLY <2>1
  <2> QED BY ONLY <2>2, <2>3, <2>4, <2>5, <2>6, SMT
<1> QED BY <1>1, <1>2, <1>3 DEF IsFilter

\* SUBSCRIBE.
LEMMA SubscribeArrives ==
    ASSUME NEW msg, NEW topic, IsFilter(topic),
           msg \in [type : {"SUBSCRIBE"}, dup : Bit, qos : Qos, msgID : Word, topic : {topic}]
    PROVE  Arrives(msg, msg) /\ Written(msg)
<1> DEFINE f == Flags(msg.dup, msg.qos, 0, topic.kind)
           h == <<f>>
           t == Client!FilterOctets(topic)
           b == h \o writeInt(msg.msgID) \o t
           s == Packet("SUBSCRIBE", b)
<1>1. /\ msg.dup \in Bit /\ msg.qos \in 0 .. 3 /\ msg.msgID \in Word /\ msg.topic = topic
      /\ msg.type = "SUBSCRIBE"
      /\ msg = [type |-> "SUBSCRIBE", dup |-> msg.dup, qos |-> msg.qos, msgID |-> msg.msgID,
                topic |-> topic]
  BY DEF Qos
<1>2. /\ topic.kind \in 0 .. 2 /\ t \in Octets /\ Len(t) \in Nat /\ Len(t) <= 1016
      /\ Len(t) = IF topic.kind = NORMAL THEN Len(topic.name) ELSE 2
      /\ Gw!FilterOf(topic.kind, t) = topic
  BY FilterIsKept
<1>3. /\ f \in Nat /\ FlagsOf(f).dup = msg.dup /\ FlagsOf(f).qos = msg.qos
      /\ FlagsOf(f).kind = topic.kind
  <2>1. msg.dup \in Bit /\ msg.qos \in 0 .. 3 /\ 0 \in Bit /\ topic.kind \in 0 .. 2
    BY <1>1, <1>2 DEF Bit
  <2> QED BY <2>1, Flagged
<1> HIDE DEF f, t
<1>4. h \in Octets /\ Len(h) = 1
  BY <1>3, OneOctet
<1>5. h[1] = f
  OBVIOUS
<1> HIDE DEF h
<1>6. b \in Octets /\ Len(b) = 3 + Len(t)
  <2>1. msg.msgID \in Word
    BY ONLY <1>1
  <2>2. t \in Octets
    BY ONLY <1>2
  <2> QED BY ONLY <1>4, <2>1, <2>2, After1
<1>7. b[1] = f /\ readInt(b, 2) = msg.msgID /\ From(b, 4) = t
  <2>1. b[1] = h[1] /\ readInt(b, 2) = msg.msgID /\ From(b, 4) = t
    BY <1>1, <1>2, <1>4, After1
  <2> QED BY <1>5, <2>1
<1> HIDE DEF b
<1>8. b \in Octets /\ Len(b) <= 3000 /\ Code["SUBSCRIBE"] \in Nat
  <2>1. Len(b) <= 3000
    BY <1>2, <1>6
  <2> QED BY <1>6, <2>1 DEF Code
<1>9. ClientWriter(msg) = s /\ Sized(msg)
  <2>1. ClientSender(msg) = Client!subscribe(msg)
    BY <1>1 DEF ClientSender
  <2>2. Client!MQTTSNSerialize_subscribe(msg) = s
    BY <1>1, SameForClient DEF Client!MQTTSNSerialize_subscribe, b, h, t, f
  <2>3. 4 + (IF topic.kind = NORMAL THEN Len(topic.name) ELSE 2) = 1 + Len(b)
    BY <1>2, <1>6
  <2>4. Client!subscribe(msg) = Client!Sent(MQTTSNPacket_len(1 + Len(b)), s)
    BY <1>1, <2>2, <2>3, SameForClient DEF Client!subscribe
  <2>5. OfTheWrongLength(msg) <=> Wrong(Len(b))
    <3>1. CASE topic.kind = NORMAL
      BY <1>1, <1>2, <1>6, <3>1, WrongLengths
    <3>2. CASE topic.kind # NORMAL
      BY <1>1, <1>2, <1>6, <3>2, WrongLengths DEF Wrong
    <3> QED BY <3>1, <3>2
  <2>s. Sends(b, s)
    BY <1>8, Sending
  <2> QED BY <2>1, <2>4, <2>5, <2>s, SentBy, Zenon
<1>10. TypeOf(s) = Code["SUBSCRIBE"] /\ s \in Octets /\ s # <<>> /\ (~Cut(s) => Body(s) = b)
  BY <1>8, Sending
<1> HIDE DEF s
<1>11. ASSUME Body(s) = b
       PROVE  Gw!GetPacket(s) = msg
  <2>1. Gw!GetPacket(s) = Gw!MQTTSNDeserialize_subscribe(s)
    BY <1>10, GatewayChooses
  <2>2. Gw!MQTTSNDeserialize_subscribe(s)
          = [type |-> "SUBSCRIBE", dup |-> msg.dup, qos |-> msg.qos, msgID |-> msg.msgID,
             topic |-> Gw!FilterOf(topic.kind, t)]
    BY <1>3, <1>7, <1>11, SameForGateway DEF Gw!MQTTSNDeserialize_subscribe
  <2> QED BY <1>1, <1>2, <2>1, <2>2
<1>12. Written(msg)
  <2>1. h = IdHead(msg) /\ t = IdTail(msg)
    BY <1>1 DEF IdHead, IdTail, f, h, t
  <2>2. b = WithId(msg, msg.msgID)
    BY <2>1 DEF WithId, Holding, b
  <2> QED BY <1>1, <1>2, <1>4, <1>8, <1>9, <2>1, <2>2 DEF Written, Fits, s
<1> QED BY <1>1, <1>9, <1>10, <1>11, <1>12 DEF Arrives

\* UNSUBSCRIBE.
LEMMA UnsubscribeArrives ==
    ASSUME NEW msg, NEW topic, IsFilter(topic),
           msg \in [type : {"UNSUBSCRIBE"}, msgID : Word, topic : {topic}]
    PROVE  Arrives(msg, msg) /\ Written(msg)
<1> DEFINE f == topic.kind
           h == <<f>>
           t == Client!FilterOctets(topic)
           b == h \o writeInt(msg.msgID) \o t
           s == Packet("UNSUBSCRIBE", b)
<1>1. /\ msg.msgID \in Word /\ msg.topic = topic /\ msg.type = "UNSUBSCRIBE"
      /\ msg = [type |-> "UNSUBSCRIBE", msgID |-> msg.msgID, topic |-> topic]
  OBVIOUS
<1>2. /\ f \in 0 .. 2 /\ t \in Octets /\ Len(t) \in Nat /\ Len(t) <= 1016
      /\ Gw!FilterOf(f, t) = topic
  BY FilterIsKept
<1>3. f \in Nat /\ FlagsOf(f).kind = f
  BY <1>2 DEF FlagsOf
<1> HIDE DEF f, t
<1>4. h \in Octets /\ Len(h) = 1
  BY <1>3, OneOctet
<1>5. h[1] = f
  OBVIOUS
<1> HIDE DEF h
<1>6. b \in Octets /\ Len(b) = 3 + Len(t)
  <2>1. msg.msgID \in Word
    BY ONLY <1>1
  <2>2. t \in Octets
    BY ONLY <1>2
  <2> QED BY ONLY <1>4, <2>1, <2>2, After1
<1>7. b[1] = f /\ readInt(b, 2) = msg.msgID /\ From(b, 4) = t
  <2>1. b[1] = h[1] /\ readInt(b, 2) = msg.msgID /\ From(b, 4) = t
    BY <1>1, <1>2, <1>4, After1
  <2> QED BY <1>5, <2>1
<1> HIDE DEF b
<1>8. b \in Octets /\ Len(b) <= 3000 /\ Code["UNSUBSCRIBE"] \in Nat
  <2>1. Len(b) <= 3000
    BY <1>2, <1>6
  <2> QED BY <1>6, <2>1 DEF Code
<1>10. TypeOf(s) = Code["UNSUBSCRIBE"] /\ s \in Octets /\ s # <<>> /\ (~Cut(s) => Body(s) = b)
  BY <1>8, Sending
<1>9. ClientWriter(msg) = s /\ Sized(msg)
  <2>1. ClientSender(msg) = Client!Given(Client!MQTTSNSerialize_unsubscribe(msg))
    BY <1>1 DEF ClientSender
  <2>2. Client!MQTTSNSerialize_unsubscribe(msg) = s
    BY <1>1, SameForClient DEF Client!MQTTSNSerialize_unsubscribe, b, h, t, f
  <2>3. ByCaller(msg) /\ ~OfTheWrongLength(msg)
    BY <1>1, WrongLengths DEF ByCaller
  <2> QED BY <1>10, <2>1, <2>2, <2>3, GivenBy
<1> HIDE DEF s
<1>11. ASSUME Body(s) = b
       PROVE  Gw!GetPacket(s) = msg
  <2>1. Gw!GetPacket(s) = Gw!MQTTSNDeserialize_unsubscribe(s)
    BY <1>10, GatewayChooses
  <2>2. Gw!MQTTSNDeserialize_unsubscribe(s)
          = [type |-> "UNSUBSCRIBE", msgID |-> msg.msgID, topic |-> Gw!FilterOf(f, t)]
    BY <1>3, <1>7, <1>11, SameForGateway DEF Gw!MQTTSNDeserialize_unsubscribe
  <2> QED BY <1>1, <1>2, <2>1, <2>2
<1>12. Written(msg)
  <2>1. h = IdHead(msg) /\ t = IdTail(msg)
    BY <1>1 DEF IdHead, IdTail, f, h, t
  <2>2. b = WithId(msg, msg.msgID)
    BY <2>1 DEF WithId, Holding, b
  <2> QED BY <1>1, <1>2, <1>4, <1>8, <1>9, <2>1, <2>2 DEF Written, Fits, s
<1> QED BY <1>1, <1>9, <1>10, <1>11, <1>12 DEF Arrives

\* PUBACK and REGACK.
LEMMA AckWithTopicArrives ==
    ASSUME NEW msg \in [type : {"PUBACK", "REGACK"}, topicID : Word, msgID : Word, rc : Nat]
    PROVE  Arrives(msg, msg) /\ Written(msg)
<1> DEFINE h == writeInt(msg.topicID)
           t == <<msg.rc>>
           b == h \o writeInt(msg.msgID) \o t
           s == Packet(msg.type, b)
<1>1. msg.type \in {"PUBACK", "REGACK"} /\ msg.topicID \in Word /\ msg.msgID \in Word /\ msg.rc \in Nat
  OBVIOUS
<1>2. h \in Octets /\ Len(h) = 2
  BY <1>1, IntOctets
<1>3. readInt(h, 1) = msg.topicID
  BY <1>1, IntOctets
<1>4. t \in Octets /\ Len(t) = 1
  BY <1>1, OneOctet
<1>5. t[1] = msg.rc
  OBVIOUS
<1> HIDE DEF h, t
<1>6. b \in Octets /\ Len(b) = 5
  <2>1. b \in Octets /\ Len(b) = 4 + Len(t)
    BY <1>1, <1>2, <1>4, After2
  <2> QED BY <1>4, <2>1
<1>7. readInt(b, 1) = msg.topicID /\ readInt(b, 3) = msg.msgID /\ b[5] = msg.rc
  <2>1. readInt(b, 1) = readInt(h, 1) /\ readInt(b, 3) = msg.msgID
    BY <1>1, <1>2, <1>4, After2
  <2>2. b[5] = t[1]
    <3>1. 1 <= Len(t)
      BY <1>4
    <3> QED BY <1>1, <1>2, <1>4, <3>1, After2
  <2> QED BY <1>3, <1>5, <2>1, <2>2
<1> HIDE DEF b
<1>8. b \in Octets /\ Len(b) <= 3000 /\ Code[msg.type] \in Nat
  <2>1. Code[msg.type] \in Nat
    BY <1>1 DEF Code
  <2> QED BY <1>6, <2>1
<1>9. TypeOf(s) = Code[msg.type] /\ s \in Octets /\ s # <<>> /\ (~Cut(s) => Body(s) = b)
  BY <1>8, Sending
<1>10. ClientWriter(msg) = s /\ Sized(msg)
  <2>1. MQTTSNPacket_len(1 + Len(b)) = 7
    BY <1>6 DEF MQTTSNPacket_len
  <2>2. ASSUME msg.type = "PUBACK"
        PROVE  ClientSender(msg) = Client!Sent(7, s)
    <3>1. ClientSender(msg) = Client!pubAck(msg)
      BY <2>2 DEF ClientSender
    <3> QED BY <2>2, <3>1, SameForClient DEF Client!pubAck, Client!MQTTSNSerialize_puback, b, h, t
  <2>3. ASSUME msg.type = "REGACK"
        PROVE  ClientSender(msg) = Client!Sent(7, s)
    <3>1. ClientSender(msg) = Client!regAck(msg)
      BY <2>3 DEF ClientSender
    <3> QED BY <2>3, <3>1, SameForClient DEF Client!regAck, Client!MQTTSNSerialize_regack, b, h, t
  <2>4. ClientSender(msg) = Client!Sent(MQTTSNPacket_len(1 + Len(b)), s)
    BY <1>1, <2>1, <2>2, <2>3
  <2>5. ~OfTheWrongLength(msg) /\ ~Wrong(Len(b))
    BY <1>1, <1>6, WrongLengths DEF Wrong
  <2>s. Sends(b, s)
    BY <1>8, Sending
  <2> QED BY <2>4, <2>5, <2>s, SentBy, Zenon
<1> HIDE DEF s
<1>11. ASSUME Body(s) = b
       PROVE  Gw!GetPacket(s) = msg
  <2>1. Gw!GetPacket(s) = Gw!Acked(msg.type, s)
    <3>1. CASE msg.type = "PUBACK"
      BY <1>9, <3>1, GatewayChooses DEF Gw!MQTTSNDeserialize_puback
    <3>2. CASE msg.type = "REGACK"
      BY <1>9, <3>2, GatewayChooses DEF Gw!MQTTSNDeserialize_regack
    <3> QED BY <1>1, <3>1, <3>2
  <2>2. Gw!Acked(msg.type, s)
          = [type |-> msg.type, topicID |-> msg.topicID, msgID |-> msg.msgID, rc |-> msg.rc]
    BY <1>7, <1>11, SameForGateway DEF Gw!Acked
  <2> QED BY <2>1, <2>2
<1>12. Written(msg)
  <2>1. h = IdHead(msg) /\ t = IdTail(msg)
    BY <1>1 DEF IdHead, IdTail, h, t
  <2>2. b = WithId(msg, msg.msgID)
    BY <2>1 DEF WithId, Holding, b
  <2> QED BY <1>2, <1>4, <1>8, <1>10, <2>1, <2>2 DEF Written, Fits, s
<1> QED BY <1>9, <1>10, <1>11, <1>12 DEF Arrives

\* PUBREC, PUBREL and PUBCOMP.
LEMMA AckArrives ==
    ASSUME NEW msg \in [type : {"PUBREC", "PUBREL", "PUBCOMP"}, msgID : Word]
    PROVE  Arrives(msg, msg) /\ Written(msg)
<1> DEFINE b == writeInt(msg.msgID)
           s == Packet(msg.type, b)
<1>1. msg.type \in {"PUBREC", "PUBREL", "PUBCOMP"} /\ msg.msgID \in Word
  OBVIOUS
<1>2. b \in Octets /\ Len(b) = 2
  BY <1>1, IntOctets
<1>3. readInt(b, 1) = msg.msgID
  BY <1>1, IntOctets
<1> HIDE DEF b
<1>4. b \in Octets /\ Len(b) <= 3000 /\ Code[msg.type] \in Nat
  <2>1. Code[msg.type] \in Nat
    BY <1>1 DEF Code
  <2> QED BY <1>2, <2>1
<1>5. TypeOf(s) = Code[msg.type] /\ s \in Octets /\ s # <<>> /\ (~Cut(s) => Body(s) = b)
  BY <1>4, Sending
<1>6. ClientWriter(msg) = s /\ Sized(msg)
  <2>1. MQTTSNPacket_len(1 + Len(b)) = 4
    BY <1>2 DEF MQTTSNPacket_len
  <2>2. ClientSender(msg) = Client!pubRecRelComp(msg)
    BY <1>1 DEF ClientSender
  <2>3. ClientSender(msg) = Client!Sent(MQTTSNPacket_len(1 + Len(b)), s)
    BY <2>1, <2>2, SameForClient DEF Client!pubRecRelComp, Client!MQTTSNSerialize_ack, b
  <2>4. ~OfTheWrongLength(msg) /\ ~Wrong(Len(b))
    BY <1>1, <1>2, WrongLengths DEF Wrong
  <2>s. Sends(b, s)
    BY <1>4, Sending
  <2> QED BY <2>3, <2>4, <2>s, SentBy, Zenon
<1> HIDE DEF s
<1>7. ASSUME Body(s) = b
      PROVE  Gw!GetPacket(s) = msg
  <2>1. Gw!GetPacket(s) = Gw!MQTTSNDeserialize_ack(msg.type, s)
    <3>1. CASE msg.type = "PUBREC"
      BY <1>5, <3>1, GatewayChooses
    <3>2. CASE msg.type = "PUBREL"
      BY <1>5, <3>2, GatewayChooses
    <3>3. CASE msg.type = "PUBCOMP"
      BY <1>5, <3>3, GatewayChooses
    <3> QED BY <1>1, <3>1, <3>2, <3>3
  <2>2. Gw!MQTTSNDeserialize_ack(msg.type, s) = [type |-> msg.type, msgID |-> msg.msgID]
    BY <1>3, <1>7, SameForGateway DEF Gw!MQTTSNDeserialize_ack
  <2> QED BY <2>1, <2>2
<1>8. Written(msg)
  <2> DEFINE e == <<>>
  <2>1. e = IdHead(msg) /\ e = IdTail(msg)
    BY <1>1 DEF IdHead, IdTail
  <2>2. e \in Octets
    BY DEF Octets
  <2>3. e \o b \o e = b
    BY <1>2 DEF Octets
  <2> HIDE DEF e
  <2>4. b = WithId(msg, msg.msgID)
    BY <2>1, <2>3 DEF WithId, Holding, b
  <2> QED BY <1>4, <1>6, <2>1, <2>2, <2>4 DEF Written, Fits, s
<1> QED BY <1>5, <1>6, <1>7, <1>8 DEF Arrives

\* REGISTER.
LEMMA RegisterArrives ==
    ASSUME NEW msg \in [type : {"REGISTER"}, topicID : Word, msgID : Word, name : AnyText]
    PROVE  Arrives(msg, msg) /\ Written(msg)
<1> DEFINE h == writeInt(msg.topicID)
           t == msg.name
           b == h \o writeInt(msg.msgID) \o t
           s == Packet("REGISTER", b)
<1>1. msg.topicID \in Word /\ msg.msgID \in Word /\ t \in Octets /\ Len(t) \in Nat /\ Len(t) <= 1016
  BY LenIsNat DEF AnyText
<1>2. h \in Octets /\ Len(h) = 2
  BY <1>1, IntOctets
<1>3. readInt(h, 1) = msg.topicID
  BY <1>1, IntOctets
<1> HIDE DEF h, t
<1>4. b \in Octets /\ Len(b) = 4 + Len(t)
  BY <1>1, <1>2, After2
<1>5. readInt(b, 1) = msg.topicID /\ readInt(b, 3) = msg.msgID /\ From(b, 5) = t
  <2>1. readInt(b, 1) = readInt(h, 1) /\ readInt(b, 3) = msg.msgID /\ From(b, 5) = t
    BY <1>1, <1>2, After2
  <2> QED BY <1>3, <2>1
<1> HIDE DEF b
<1>6. b \in Octets /\ Len(b) <= 3000 /\ Code["REGISTER"] \in Nat
  <2>1. Len(b) <= 3000
    BY <1>1, <1>4
  <2> QED BY <1>4, <2>1 DEF Code
<1>7. ClientWriter(msg) = s /\ Sized(msg)
  <2>1. ClientSender(msg) = Client!reg(msg)
    BY DEF ClientSender
  <2>2. Client!MQTTSNSerialize_register(msg) = s
    BY SameForClient DEF Client!MQTTSNSerialize_register, b, h, t
  <2>3. Len(msg.name) + 5 = 1 + Len(b)
    BY <1>1, <1>4 DEF t
  <2>4. Client!reg(msg) = Client!Sent(MQTTSNPacket_len(1 + Len(b)), s)
    BY <2>2, <2>3, SameForClient DEF Client!reg
  <2>5. OfTheWrongLength(msg) <=> Wrong(Len(b))
    <3>1. OfTheWrongLength(msg) <=> Wrong(4 + Len(t))
      BY <1>1, WrongLengths DEF t
    <3> QED BY <1>4, <3>1
  <2>s. Sends(b, s)
    BY <1>6, Sending
  <2> QED BY <2>1, <2>4, <2>5, <2>s, SentBy, Zenon
<1>8. TypeOf(s) = Code["REGISTER"] /\ s \in Octets /\ s # <<>> /\ (~Cut(s) => Body(s) = b)
  BY <1>6, Sending
<1> HIDE DEF s
<1>9. ASSUME Body(s) = b
      PROVE  Gw!GetPacket(s) = msg
  <2>1. Gw!GetPacket(s) = Gw!MQTTSNDeserialize_register(s)
    BY <1>8, GatewayChooses
  <2>2. Gw!MQTTSNDeserialize_register(s)
          = [type |-> "REGISTER", topicID |-> msg.topicID, msgID |-> msg.msgID, name |-> t]
    BY <1>5, <1>9, SameForGateway DEF Gw!MQTTSNDeserialize_register
  <2> QED BY <2>1, <2>2 DEF t
<1>10. Written(msg)
  <2>1. h = IdHead(msg) /\ t = IdTail(msg) /\ msg.type = "REGISTER"
    BY DEF IdHead, IdTail, h, t
  <2>2. b = WithId(msg, msg.msgID)
    BY <2>1 DEF WithId, Holding, b
  <2> QED BY <1>1, <1>2, <1>6, <1>7, <2>1, <2>2 DEF Written, Fits, s
<1> QED BY <1>7, <1>8, <1>9, <1>10 DEF Arrives

\* The body of a PUBLISH: flags, two octets for the topic, the message id, a name, the payload.
LEMMA PublishHead ==
    ASSUME NEW f \in Nat, NEW id \in Octets, Len(id) = 2
    PROVE  LET h == <<f>> \o id
           IN  /\ h \in Octets /\ Len(h) = 3
               /\ h[1] = f /\ From(h, 2) = id /\ readInt(h, 2) = readInt(id, 1)
<1> DEFINE h == <<f>> \o id
           c == <<f>>
<1>1. h \in Octets /\ Len(h) = 3
  <2>1. h \in Octets /\ Len(h) = 1 + Len(id)
    BY AfterOctet
  <2> QED BY <2>1
<1>2. h[1] = f /\ From(h, 2) = id
  BY AfterOctet
<1>3. c \in Octets /\ Len(c) = 1
  BY OneOctet
<1> HIDE DEF c
<1>4. 1 \in Nat /\ 1 <= 1 /\ 1 + 1 <= Len(id)
  OBVIOUS
<1>5. readInt(c \o id, Len(c) + 1) = readInt(id, 1)
  BY <1>3, <1>4, ReadSecond
<1>6. Len(c) + 1 = 2
  BY <1>3
<1> QED BY <1>1, <1>2, <1>5, <1>6 DEF c

Part(s, i, j) == SubSeq(s, i, j)

\* How long the body of a PUBLISH is.
LEMMA PublishSize ==
    ASSUME NEW h \in Octets, Len(h) = 3, NEW n \in Word, NEW name \in Octets,
           NEW payload \in Octets, Len(name) <= 1016, Len(payload) <= 1016
    PROVE  /\ h \o writeInt(n) \o name \o payload \in Octets
           /\ Len(h \o writeInt(n) \o name \o payload) = 5 + Len(name) + Len(payload)
           /\ Len(h \o writeInt(n) \o name \o payload) <= 3000
<1> DEFINE w == writeInt(n)
           g == h \o w \o name
           b == g \o payload
<1>1. Len(name) \in Nat /\ Len(payload) \in Nat
  BY LenIsNat
<1>4. g \in Octets /\ Len(g) = 5 + Len(name)
  BY <1>1, After3
<1> HIDE DEF g
<1>5. b \in Octets /\ Len(b) = 5 + Len(name) + Len(payload) /\ Len(b) <= 3000
  <2>1. b \in Octets /\ Len(b) = Len(g) + Len(payload)
    BY <1>4, Both
  <2> QED BY <1>1, <1>4, <2>1
<1> QED BY <1>5 DEF g

\* Where its fields are.
LEMMA PublishParts ==
    ASSUME NEW h \in Octets, Len(h) = 3, NEW n \in Word, NEW name \in Octets,
           NEW payload \in Octets, Len(name) <= 1016, Len(payload) <= 1016
    PROVE  /\ (h \o writeInt(n) \o name \o payload)[1] = h[1]
           /\ SubSeq(h \o writeInt(n) \o name \o payload, 2, 3) = From(h, 2)
           /\ readInt(h \o writeInt(n) \o name \o payload, 2) = readInt(h, 2)
           /\ readInt(h \o writeInt(n) \o name \o payload, 4) = n
           /\ From(h \o writeInt(n) \o name \o payload, 6 + Len(name)) = payload
<1> DEFINE w == writeInt(n)
           g == h \o w \o name
           b == g \o payload
<1>1. Len(name) \in Nat /\ Len(payload) \in Nat
  BY LenIsNat
<1>4. g \in Octets /\ Len(g) = 5 + Len(name)
  BY <1>1, After3
<1>5. g[1] = h[1] /\ readInt(g, 2) = readInt(h, 2) /\ readInt(g, 4) = n
  BY <1>1, After3
<1>6. From(g, 6) = name
  BY <1>1, After3
<1>7. SubSeq(g, 2, 3) = From(h, 2)
  <2>1. w \in Octets /\ Len(w) = 2
    BY IntOctets
  <2>2. h \o w \in Octets /\ Len(h \o w) = 5
    <3>1. h \o w \in Octets /\ Len(h \o w) = Len(h) + 2
      BY ONLY h \in Octets, <2>1, TwoMore
    <3> QED BY ONLY <3>1, Len(h) = 3
  <2> DEFINE hw == h \o w
  <2> HIDE DEF w
  <2>3. 2 \in 1 .. Len(h) /\ 3 \in 1 .. Len(h)
    BY <1>1
  <2>4. SubSeq(hw, 2, 3) = SubSeq(h, 2, 3)
    BY ONLY h \in Octets, <2>1, <2>3, PartOfFirst
  <2>5. 2 \in 1 .. Len(hw) /\ 3 \in 1 .. Len(hw)
    BY <2>2
  <2> HIDE DEF hw
  <2>6. SubSeq(hw \o name, 2, 3) = SubSeq(hw, 2, 3)
    BY <2>2, <2>5, PartOfFirst DEF hw
  <2>7. SubSeq(hw \o name, 2, 3) = SubSeq(h, 2, 3)
    BY ONLY <2>4, <2>6
  <2>8. SubSeq(h, 2, 3) = From(h, 2)
    BY ONLY Len(h) = 3 DEF From
  <2>9. g = hw \o name
    BY DEF g, hw, w
  <2> QED BY ONLY <2>7, <2>8, <2>9
<1> HIDE DEF g
<1>9. b[1] = h[1] /\ readInt(b, 2) = readInt(h, 2) /\ readInt(b, 4) = n
  <2>1. 1 \in Nat /\ 1 <= 1 /\ 1 <= Len(g)
    BY <1>1, <1>4
  <2>2. 2 \in Nat /\ 1 <= 2 /\ 2 + 1 <= Len(g)
    BY <1>1, <1>4
  <2>3. 4 \in Nat /\ 1 <= 4 /\ 4 + 1 <= Len(g)
    BY <1>1, <1>4
  <2>4. b[1] = g[1]
    BY <1>4, <2>1, InFirst
  <2>5. readInt(b, 2) = readInt(g, 2)
    BY <1>4, <2>2, ReadFirst
  <2>6. readInt(b, 4) = readInt(g, 4)
    BY <1>4, <2>3, ReadFirst
  <2> QED BY ONLY <1>5, <2>4, <2>5, <2>6
<1>10. From(b, 6 + Len(name)) = payload
  <2>1. From(b, Len(g) + 1) = payload
    BY <1>4, Second
  <2>2. Len(g) + 1 = 6 + Len(name)
    BY <1>1, <1>4
  <2> QED BY ONLY <2>1, <2>2
<1>11. SubSeq(b, 2, 3) = From(h, 2)
  <2>1. 2 \in 1 .. Len(g) /\ 3 \in 1 .. Len(g)
    BY <1>1, <1>4
  <2>2. SubSeq(b, 2, 3) = SubSeq(g, 2, 3)
    BY ONLY <1>4, payload \in Octets, <2>1, PartOfFirst
  <2> QED BY ONLY <1>7, <2>2
<1>12. b = h \o writeInt(n) \o name \o payload
  BY DEF g
<1> HIDE DEF b
<1> QED BY ONLY <1>9, <1>10, <1>11, <1>12

\* Where the name is that a PUBLISH at QoS -1 carries behind the message id.
LEMMA PublishName ==
    ASSUME NEW h \in Octets, Len(h) = 3, NEW n \in Word, NEW name \in Octets,
           NEW payload \in Octets, 1 <= Len(name)
    PROVE  Part(h \o writeInt(n) \o name \o payload, 6, 5 + Len(name)) = name
<1> DEFINE w == writeInt(n)
           g == h \o w \o name
           b == g \o payload
<1>1. Len(name) \in Nat
  BY LenIsNat
<1>2. g \in Octets /\ Len(g) = 5 + Len(name)
  BY <1>1, After3
<1>3. From(g, 6) = name
  BY <1>1, After3
<1> HIDE DEF g
<1>4. 6 \in 1 .. Len(g) /\ 5 + Len(name) \in 1 .. Len(g)
  BY <1>1, <1>2
<1>5. SubSeq(b, 6, 5 + Len(name)) = SubSeq(g, 6, 5 + Len(name))
  BY ONLY <1>2, payload \in Octets, <1>4, PartOfFirst
<1>6. Part(b, 6, 5 + Len(name)) = name
  BY <1>2, <1>3, <1>5 DEF From, Part
<1> QED BY <1>6 DEF g

\* The body of a PUBLISH with a topic of two octets.
LEMMA PublishNoName ==
    ASSUME NEW f \in Nat, NEW id \in Octets, Len(id) = 2, NEW n \in Word, NEW t \in Octets,
           Len(t) <= 1016
    PROVE  LET b == <<f>> \o id \o writeInt(n) \o <<>> \o t
           IN  /\ b \in Octets /\ Len(b) = 5 + Len(t) /\ Len(b) <= 3000
               /\ b[1] = f /\ SubSeq(b, 2, 3) = id /\ readInt(b, 2) = readInt(id, 1)
               /\ readInt(b, 4) = n /\ From(b, 6) = t
<1> DEFINE e == <<>>
           h == <<f>> \o id
           c == h \o writeInt(n) \o e \o t
<1>1. e \in Octets /\ Len(e) <= 1016
  BY DEF Octets
<1>a. Len(e) = 0
  OBVIOUS
<1>2. h \in Octets /\ Len(h) = 3
  BY PublishHead
<1>3. h[1] = f /\ From(h, 2) = id /\ readInt(h, 2) = readInt(id, 1)
  BY PublishHead
<1> HIDE DEF e, h
<1>4. Len(t) \in Nat
  BY LenIsNat
<1>5. c \in Octets /\ Len(c) = 5 + Len(e) + Len(t) /\ Len(c) <= 3000
  BY <1>1, <1>2, PublishSize
<1>6. /\ c[1] = h[1] /\ SubSeq(c, 2, 3) = From(h, 2) /\ readInt(c, 2) = readInt(h, 2)
      /\ readInt(c, 4) = n /\ From(c, 6 + Len(e)) = t
  BY <1>1, <1>2, PublishParts
<1>7. 5 + Len(e) + Len(t) = 5 + Len(t) /\ 6 + Len(e) = 6
  BY <1>a, <1>4
<1>8. /\ c \in Octets /\ Len(c) = 5 + Len(t) /\ Len(c) <= 3000
      /\ c[1] = f /\ SubSeq(c, 2, 3) = id /\ readInt(c, 2) = readInt(id, 1)
      /\ readInt(c, 4) = n /\ From(c, 6) = t
  BY <1>3, <1>5, <1>6, <1>7
<1> QED BY <1>8 DEF c, h, e

PublishSet(topic) ==
    [type : {"PUBLISH"}, dup : Bit, qos : 0 .. 3, retain : Bit, msgID : Word, topic : {topic},
     payload : AnyText]

\* The flags of a PUBLISH.
LEMMA PublishFlags ==
    ASSUME NEW topic, topic.kind \in 0 .. 2, NEW msg \in PublishSet(topic), NEW f,
           f = Flags(msg.dup, msg.qos, msg.retain, topic.kind)
    PROVE  /\ f \in Nat /\ FlagsOf(f).dup = msg.dup /\ FlagsOf(f).qos = msg.qos
           /\ FlagsOf(f).retain = msg.retain /\ FlagsOf(f).kind = topic.kind
<1>1. msg.dup \in Bit /\ msg.qos \in 0 .. 3 /\ msg.retain \in Bit
  BY DEF PublishSet
<1> QED BY <1>1, Flagged

IsTwoOctets(topic) ==
    \/ topic \in [kind : {NORMAL, PREDEFINED}, id : Word, name : {<<>>}]
    \/ topic \in [kind : {SHORT}, id : {0}, name : {t \in Octets : Len(t) = 2}]

\* The body of a PUBLISH without a long name.
PublishBody(msg) ==
    <<Flags(msg.dup, msg.qos, msg.retain, msg.topic.kind)>> \o TwoOctets(msg.topic)
      \o writeInt(msg.msgID) \o <<>> \o msg.payload

\* PUBLISH with a topic of two octets, whatever its QoS and message id.
LEMMA PublishIsRead ==
    ASSUME NEW topic, IsTwoOctets(topic), NEW msg \in PublishSet(topic),
           ~Client!LongName(msg.qos, topic)
    PROVE  /\ Client!MQTTSNSerialize_publish(msg) = Packet("PUBLISH", PublishBody(msg))
           /\ PublishBody(msg) \in Octets /\ Len(PublishBody(msg)) = 5 + Len(msg.payload)
           /\ Len(PublishBody(msg)) <= 3000
           /\ ~Cut(Packet("PUBLISH", PublishBody(msg))) =>
                 Gw!GetPacket(Packet("PUBLISH", PublishBody(msg))) = msg
<1> DEFINE f == Flags(msg.dup, msg.qos, msg.retain, topic.kind)
           id == TwoOctets(topic)
           t == msg.payload
           b == <<f>> \o id \o writeInt(msg.msgID) \o <<>> \o t
           s == Packet("PUBLISH", b)
<1>1. /\ msg.msgID \in Word /\ msg.topic = topic /\ msg.type = "PUBLISH" /\ t \in Octets
      /\ Len(t) \in Nat /\ Len(t) <= 1016
      /\ msg = [type |-> "PUBLISH", dup |-> msg.dup, qos |-> msg.qos, retain |-> msg.retain,
                msgID |-> msg.msgID, topic |-> topic, payload |-> t]
  BY LenIsNat DEF PublishSet, AnyText
<1>2. /\ topic.kind \in 0 .. 2 /\ id \in Octets /\ Len(id) = 2
      /\ topic.kind # SHORT => readInt(id, 1) = topic.id
      /\ topic = IF topic.kind = SHORT THEN Topic(SHORT, 0, id) ELSE Topic(topic.kind, topic.id, <<>>)
      /\ topic.name = <<>> <=> topic.kind # SHORT
  <2>1. CASE topic \in [kind : {NORMAL, PREDEFINED}, id : Word, name : {<<>>}]
    <3>1. topic.kind \in 0 .. 2 /\ topic.kind # SHORT /\ topic.id \in Word /\ topic.name = <<>>
          /\ topic = [kind |-> topic.kind, id |-> topic.id, name |-> <<>>]
      BY <2>1 DEF NORMAL, PREDEFINED, SHORT
    <3>2. id = writeInt(topic.id)
      BY <3>1 DEF TwoOctets
    <3>3. id \in Octets /\ Len(id) = 2
      BY <3>1, <3>2, IntOctets
    <3>4. readInt(id, 1) = topic.id
      BY <3>1, <3>2, IntOctets
    <3> QED BY <3>1, <3>3, <3>4 DEF Topic
  <2>2. CASE topic \in [kind : {SHORT}, id : {0}, name : {u \in Octets : Len(u) = 2}]
    <3>1. topic.kind \in 0 .. 2 /\ topic.kind = SHORT /\ topic.name \in Octets /\ Len(topic.name) = 2
          /\ topic = [kind |-> topic.kind, id |-> 0, name |-> topic.name]
      BY <2>2 DEF SHORT
    <3>2. id = topic.name
      BY <3>1 DEF TwoOctets
    <3>3. topic.name # <<>>
      BY <3>1
    <3> QED BY <3>1, <3>2, <3>3 DEF Topic
  <2> QED BY <2>1, <2>2 DEF IsTwoOctets
<1>a. b = PublishBody(msg)
  BY <1>1 DEF PublishBody
<1>3. /\ f \in Nat /\ FlagsOf(f).dup = msg.dup /\ FlagsOf(f).qos = msg.qos
      /\ FlagsOf(f).retain = msg.retain /\ FlagsOf(f).kind = topic.kind
  BY <1>2, PublishFlags
<1> HIDE DEF f, id, t
<1>4. /\ b \in Octets /\ Len(b) = 5 + Len(t) /\ Len(b) <= 3000
      /\ b[1] = f /\ SubSeq(b, 2, 3) = id /\ readInt(b, 2) = readInt(id, 1)
      /\ readInt(b, 4) = msg.msgID /\ From(b, 6) = t
  BY <1>1, <1>2, <1>3, PublishNoName
<1> HIDE DEF b
<1>5. b \in Octets /\ Len(b) <= 3000 /\ Code["PUBLISH"] \in Nat
  BY <1>4 DEF Code
<1>6. TypeOf(s) = Code["PUBLISH"] /\ s \in Octets /\ s # <<>> /\ (~Cut(s) => Body(s) = b)
  BY <1>5, Sending
<1>7. Client!MQTTSNSerialize_publish(msg) = s
  <2>1. id = IF topic.kind = SHORT THEN topic.name ELSE writeInt(topic.id)
    BY DEF id, TwoOctets
  <2> QED BY <1>1, <2>1, SameForClient DEF Client!MQTTSNSerialize_publish, b, f, t
<1> HIDE DEF s
<1>8. ASSUME Body(s) = b
      PROVE  Gw!GetPacket(s) = msg
  <2>1. Gw!GetPacket(s) = Gw!MQTTSNDeserialize_publish(s)
    BY <1>6, GatewayChooses
  <2>2. ~(msg.qos = 3 /\ topic.kind = NORMAL)
    BY SameForClient DEF Client!LongName
  <2>3. Gw!MQTTSNDeserialize_publish(s)
          = [type |-> "PUBLISH", dup |-> msg.dup, qos |-> msg.qos, retain |-> msg.retain,
             msgID |-> msg.msgID,
             topic |-> IF topic.kind = SHORT THEN Topic(SHORT, 0, id)
                       ELSE Topic(topic.kind, readInt(id, 1), <<>>),
             payload |-> t]
    <3> DEFINE g == Gw!FlagsOf(Gw!Body(s)[1])
    <3>1. Gw!Body(s) = b /\ g = FlagsOf(f)
      BY <1>4, <1>8, SameForGateway
    <3>2. g.dup = msg.dup /\ g.qos = msg.qos /\ g.retain = msg.retain /\ g.kind = topic.kind
      BY <1>3, <3>1
    <3>3. ~(g.qos = 3 /\ g.kind = Gw!NORMAL)
      BY <2>2, <3>2, SameForGateway
    <3>4. Gw!readInt(b, 2) = readInt(id, 1) /\ Gw!readInt(b, 4) = msg.msgID /\ Gw!From(b, 6) = t
          /\ SubSeq(b, 2, 3) = id
      BY <1>4, SameForGateway
    <3>5. Gw!SHORT = SHORT /\ \A x, y, z : Gw!Topic(x, y, z) = Topic(x, y, z)
      BY SameForGateway
    <3> HIDE DEF g
    <3>6. Gw!MQTTSNDeserialize_publish(s)
            = [type |-> "PUBLISH", dup |-> g.dup, qos |-> g.qos, retain |-> g.retain,
               msgID |-> Gw!readInt(b, 4),
               topic |-> IF g.kind = Gw!SHORT THEN Gw!Topic(Gw!SHORT, 0, SubSeq(b, 2, 3))
                         ELSE Gw!Topic(g.kind, Gw!readInt(b, 2), <<>>),
               payload |-> Gw!From(b, 6)]
      BY <3>1, <3>3 DEF Gw!MQTTSNDeserialize_publish, g
    <3> QED BY <3>2, <3>4, <3>5, <3>6
  <2> QED BY <1>1, <1>2, <2>1, <2>3
<1> QED BY <1>a, <1>4, <1>6, <1>7, <1>8 DEF s, t

\* At QoS 0 a client writes no message id.
LEMMA PublishArrives ==
    ASSUME NEW topic, IsTwoOctets(topic), NEW msg \in PublishSet(topic),
           msg.qos = 0 => msg.msgID = 0, ~Client!LongName(msg.qos, topic)
    PROVE  /\ ClientWriter(msg) = Packet("PUBLISH", PublishBody(msg))
           /\ Arrives(msg, msg)
<1> DEFINE b == PublishBody(msg)
           s == Packet("PUBLISH", b)
<1>1. /\ msg.topic = topic /\ msg.type = "PUBLISH" /\ Len(msg.payload) \in Nat
      /\ msg = [type |-> "PUBLISH", dup |-> msg.dup, qos |-> msg.qos, retain |-> msg.retain,
                msgID |-> msg.msgID, topic |-> topic, payload |-> msg.payload]
  BY LenIsNat DEF PublishSet, AnyText
<1>2. /\ Client!MQTTSNSerialize_publish(msg) = s
      /\ b \in Octets /\ Len(b) = 5 + Len(msg.payload) /\ Len(b) <= 3000
  BY PublishIsRead
<1>3. ~Cut(s) => Gw!GetPacket(s) = msg
  BY PublishIsRead
<1> HIDE DEF b
<1>4. b \in Octets /\ Len(b) <= 3000 /\ Code["PUBLISH"] \in Nat
  BY <1>2 DEF Code
<1>5. TypeOf(s) = Code["PUBLISH"] /\ s \in Octets /\ s # <<>>
  BY <1>4, Sending
<1>6. ClientWriter(msg) = s /\ Sized(msg)
  <2>1. CASE topic.name = <<>>
    <3>1. ClientSender(msg) = Client!publish(msg)
      BY <1>1, <2>1 DEF ClientSender
    <3>2. [msg EXCEPT !.msgID = IF msg.qos = 0 THEN 0 ELSE @] = msg
      BY <1>1
    <3>3. 6 + Len(msg.payload) = 1 + Len(b)
      BY <1>1, <1>2
    <3>4. Client!publish(msg) = Client!Sent(MQTTSNPacket_len(1 + Len(b)), s)
      BY <1>2, <3>2, <3>3, SameForClient DEF Client!publish
    <3>5. OfTheWrongLength(msg) <=> Wrong(Len(b))
      BY <1>1, <1>2, <2>1, WrongLengths
    <3>s. Sends(b, s)
      BY <1>4, Sending
    <3> QED BY <3>1, <3>4, <3>5, <3>s, SentBy, Zenon
  <2>2. CASE topic.name # <<>>
    <3>1. ClientSender(msg) = Client!Given(s)
      BY <1>1, <1>2, <2>2 DEF ClientSender
    <3>2. ByCaller(msg) /\ ~OfTheWrongLength(msg)
      BY <1>1, <2>2, WrongLengths DEF ByCaller
    <3> QED BY <1>5, <3>1, <3>2, GivenBy
  <2> QED BY <2>1, <2>2
<1> HIDE DEF s
<1> QED BY <1>1, <1>3, <1>5, <1>6 DEF Arrives, s, b

\* What a packet has behind its type.
LEMMA WithinPacket ==
    ASSUME NEW type, Code[type] \in Nat, NEW b \in Octets, Len(b) <= 3000,
           NEW i \in Nat, NEW j \in Nat, 1 <= i, i <= j, j <= Len(b)
    PROVE  /\ MQTTSNPacket_decode(Packet(type, b)).rc = TypeAt(b) - 1
           /\ TypeAt(b) \in {2, 4}
           /\ Part(Packet(type, b), TypeAt(b) + i, TypeAt(b) + j) = Part(b, i, j)
<1> DEFINE s == Packet(type, b)
           k == TypeAt(b)
<1>1. b \in Bodies /\ Len(b) \in Nat
  BY Carried, LenIsNat
<1>2. s \in Octets /\ Len(s) = k + Len(b) /\ k \in {2, 4}
  BY <1>1, PacketParts
<1>3. MQTTSNPacket_decode(s).rc = k - 1
  BY <1>1, PacketParts
<1>4. Part(s, k + 1, Len(s)) = b
  BY <1>1, PacketParts DEF From, Part
<1> HIDE DEF s, k
<1>5. /\ k + 1 \in 1 .. Len(s) /\ Len(s) \in 1 .. Len(s)
      /\ i \in 1 .. Len(s) - (k + 1) + 1 /\ j \in 1 .. Len(s) - (k + 1) + 1
  BY <1>1, <1>2
<1> DEFINE u == k + 1 + i - 1
           v == k + 1 + j - 1
<1>6. Part(Part(s, k + 1, Len(s)), i, j) = Part(s, u, v)
  BY ONLY <1>2, <1>5, PartOfPart DEF Part, u, v
<1>7. u = k + i /\ v = k + j
  BY <1>2
<1> HIDE DEF u, v
<1>8. Part(s, k + i, k + j) = Part(b, i, j)
  BY <1>4, <1>6, <1>7
<1>9. k \in {2, 4}
  BY <1>2
<1> QED BY <1>3, <1>8, <1>9 DEF s, k

\* A length that fits into the buffers fits into two octets.
LEMMA LengthIsWord ==
    ASSUME NEW l \in Nat, l <= 1016
    PROVE  l \in Word
<1>1. 0 <= l /\ l <= 65535 /\ l \in Int
  OBVIOUS
<1> QED BY <1>1, WordIs

\* The length of a name.
LEMMA HasLength ==
    ASSUME NEW name \in AnyText \ {<<>>}
    PROVE  /\ name \in Octets /\ Len(name) \in Nat /\ 1 <= Len(name) /\ Len(name) <= 1016
           /\ Len(name) \in Word
<1>1. name \in Octets /\ Len(name) <= 1016
  BY DEF AnyText
<1>2. Len(name) \in Nat
  BY <1>1, LenIsNat
<1>3. Len(name) # 0
  BY DEF AnyText, Octets
<1>4. Len(name) \in Word
  BY <1>1, <1>2, LengthIsWord
<1> QED BY <1>1, <1>2, <1>3, <1>4

\* A PUBLISH at QoS -1 whose topic is a name: the length of the name takes the place of the id.
LEMMA LongPublishSize ==
    ASSUME NEW f \in Nat, NEW n \in Word, NEW name \in Octets, Len(name) <= 1016,
           Len(name) \in Word, 1 <= Len(name), NEW t \in Octets, Len(t) <= 1016
    PROVE  /\ <<f>> \o writeInt(Len(name)) \o writeInt(n) \o name \o t \in Octets
           /\ Len(<<f>> \o writeInt(Len(name)) \o writeInt(n) \o name \o t) = 5 + Len(name) + Len(t)
           /\ Len(<<f>> \o writeInt(Len(name)) \o writeInt(n) \o name \o t) <= 3000
<1> DEFINE id == writeInt(Len(name))
           h == <<f>> \o id
           c == h \o writeInt(n) \o name \o t
<1>1. id \in Octets /\ Len(id) = 2
  BY IntOctets
<1> HIDE DEF id
<1>3. h \in Octets /\ Len(h) = 3
  BY <1>1, PublishHead
<1> HIDE DEF h
<1>5. c \in Octets /\ Len(c) = 5 + Len(name) + Len(t) /\ Len(c) <= 3000
  BY <1>3, PublishSize
<1> QED BY <1>5 DEF h, id

\* Where the fields are when the name is longer than two octets.
LEMMA LongPublishParts ==
    ASSUME NEW f \in Nat, NEW n \in Word, NEW name \in Octets, Len(name) <= 1016,
           Len(name) \in Word, 1 <= Len(name), NEW t \in Octets, Len(t) <= 1016
    PROVE  /\ (<<f>> \o writeInt(Len(name)) \o writeInt(n) \o name \o t)[1] = f
           /\ readInt(<<f>> \o writeInt(Len(name)) \o writeInt(n) \o name \o t, 2) = Len(name)
           /\ readInt(<<f>> \o writeInt(Len(name)) \o writeInt(n) \o name \o t, 4) = n
           /\ From(<<f>> \o writeInt(Len(name)) \o writeInt(n) \o name \o t, 6 + Len(name)) = t
           /\ Part(<<f>> \o writeInt(Len(name)) \o writeInt(n) \o name \o t, 6, 5 + Len(name)) = name
<1> DEFINE id == writeInt(Len(name))
           h == <<f>> \o id
           c == h \o writeInt(n) \o name \o t
<1>1. id \in Octets /\ Len(id) = 2
  BY IntOctets
<1>2. readInt(id, 1) = Len(name)
  BY IntOctets
<1> HIDE DEF id
<1>3. h \in Octets /\ Len(h) = 3
  BY <1>1, PublishHead
<1>4. h[1] = f /\ readInt(h, 2) = readInt(id, 1)
  BY <1>1, PublishHead
<1> HIDE DEF h
<1>6. /\ c[1] = h[1] /\ readInt(c, 2) = readInt(h, 2)
      /\ readInt(c, 4) = n /\ From(c, 6 + Len(name)) = t
  BY <1>3, PublishParts
<1>7. Part(c, 6, 5 + Len(name)) = name
  BY <1>3, PublishName
<1> HIDE DEF c
<1>8. /\ c[1] = f /\ readInt(c, 2) = Len(name) /\ readInt(c, 4) = n
      /\ From(c, 6 + Len(name)) = t /\ Part(c, 6, 5 + Len(name)) = name
  BY <1>2, <1>4, <1>6, <1>7
<1> QED BY <1>8 DEF c, h, id

\* PUBLISH at QoS -1 with a long name.
LEMMA PublishLongArrives ==
    ASSUME NEW topic \in [kind : {NORMAL}, id : {0}, name : AnyText \ {<<>>}],
           NEW msg \in PublishSet(topic), msg.qos = 3
    PROVE  /\ Arrives(msg, msg)
           /\ Written(msg) /\ Len(IdHead(msg)) = 3
           /\ IdHead(msg)[1] = Flags(msg.dup, msg.qos, msg.retain, topic.kind)
<1> DEFINE f == Flags(msg.dup, msg.qos, msg.retain, topic.kind)
           name == topic.name
           t == msg.payload
           b == <<f>> \o writeInt(Len(name)) \o writeInt(msg.msgID) \o name \o t
           s == Packet("PUBLISH", b)
<1>1. /\ msg.msgID \in Word /\ msg.topic = topic /\ msg.type = "PUBLISH" /\ t \in AnyText
      /\ msg = [type |-> "PUBLISH", dup |-> msg.dup, qos |-> msg.qos, retain |-> msg.retain,
                msgID |-> msg.msgID, topic |-> topic, payload |-> t]
  BY DEF PublishSet
<1>2. /\ topic.kind \in 0 .. 2 /\ topic.kind = NORMAL /\ name \in AnyText \ {<<>>}
      /\ topic = [kind |-> NORMAL, id |-> 0, name |-> name]
  BY DEF NORMAL
<1>3. /\ f \in Nat /\ FlagsOf(f).dup = msg.dup /\ FlagsOf(f).qos = msg.qos
      /\ FlagsOf(f).retain = msg.retain /\ FlagsOf(f).kind = topic.kind
  BY <1>2, PublishFlags
<1>4. ClientSender(msg) = Client!Given(s) /\ ByCaller(msg) /\ ~OfTheWrongLength(msg)
  <2>1. msg.topic = topic /\ Client!LongName(msg.qos, topic) /\ topic.name # <<>>
    BY <1>1, <1>2, SameForClient DEF Client!LongName
  <2>2. Client!MQTTSNSerialize_publish(msg)
          = Client!Packet("PUBLISH",
                          <<Client!Flags(msg.dup, msg.qos, msg.retain, msg.topic.kind)>>
                            \o Client!writeInt(Len(msg.topic.name)) \o Client!writeInt(msg.msgID)
                            \o msg.topic.name \o msg.payload)
    <3> DEFINE long == Client!LongName(msg.qos, msg.topic)
    <3>1. long
      BY <2>1
    <3> HIDE DEF long
    <3>2. Client!MQTTSNSerialize_publish(msg)
            = Client!Packet("PUBLISH",
                <<Client!Flags(msg.dup, msg.qos, msg.retain, msg.topic.kind)>>
                  \o (CASE long -> Client!writeInt(Len(msg.topic.name))
                        [] msg.topic.kind = Client!SHORT -> msg.topic.name
                        [] OTHER -> Client!writeInt(msg.topic.id))
                  \o Client!writeInt(msg.msgID)
                  \o (IF long THEN msg.topic.name ELSE <<>>) \o msg.payload)
      BY DEF Client!MQTTSNSerialize_publish, long
    <3>3. (IF long THEN msg.topic.name ELSE <<>>) = msg.topic.name
      BY <3>1
    <3>4. (CASE long -> Client!writeInt(Len(msg.topic.name))
             [] msg.topic.kind = Client!SHORT -> msg.topic.name
             [] OTHER -> Client!writeInt(msg.topic.id)) = Client!writeInt(Len(msg.topic.name))
      BY <2>1, <3>1, SameForClient DEF Client!LongName, NORMAL, SHORT
    <3> QED BY <3>2, <3>3, <3>4
  <2>3. Client!MQTTSNSerialize_publish(msg) = s
    BY <2>1, <2>2, SameForClient
  <2> QED BY <1>1, <2>1, <2>3, WrongLengths DEF ClientSender, ByCaller
<1>a. name \in Octets /\ Len(name) \in Nat /\ 1 <= Len(name) /\ Len(name) <= 1016
      /\ Len(name) \in Word
  BY HasLength
<1>b. t \in Octets /\ Len(t) <= 1016
  BY <1>1 DEF AnyText
<1>c. Len(t) \in Nat
  BY <1>b, LenIsNat
<1> HIDE DEF f, name, t
<1>d. f \in Nat /\ msg.msgID \in Word
  BY <1>1, <1>3
<1>e. name \in Octets /\ Len(name) <= 1016 /\ Len(name) \in Word /\ 1 <= Len(name)
  BY <1>a
<1>5. b \in Octets /\ Len(b) = 5 + Len(name) + Len(t) /\ Len(b) <= 3000
  BY <1>b, <1>d, <1>e, LongPublishSize
<1>6. /\ b[1] = f /\ readInt(b, 2) = Len(name) /\ readInt(b, 4) = msg.msgID
      /\ From(b, 6 + Len(name)) = t /\ Part(b, 6, 5 + Len(name)) = name
  <2> DEFINE n == msg.msgID
             c == <<f>> \o writeInt(Len(name)) \o writeInt(n) \o name \o t
  <2>1. b = c
    OBVIOUS
  <2>2. f \in Nat /\ n \in Word
    BY <1>d
  <2> HIDE DEF b, n
  <2>3. /\ c[1] = f /\ readInt(c, 2) = Len(name) /\ readInt(c, 4) = n
        /\ From(c, 6 + Len(name)) = t /\ Part(c, 6, 5 + Len(name)) = name
    BY <1>b, <1>e, <2>2, LongPublishParts, SMTT(60)
  <2> HIDE DEF c
  <2> QED BY <2>1, <2>3 DEF n
<1> HIDE DEF b
<1>7. b \in Octets /\ Len(b) <= 3000 /\ Code["PUBLISH"] \in Nat
  BY <1>5 DEF Code
<1>8. TypeOf(s) = Code["PUBLISH"] /\ s \in Octets /\ s # <<>> /\ (~Cut(s) => Body(s) = b)
  BY <1>7, Sending
<1>f. ClientWriter(msg) = s /\ Sized(msg)
  BY <1>4, <1>8, GivenBy
<1>9. Gw!LongNameAt(s, Len(name)) = name
  <2>1. /\ 6 \in Nat /\ 5 + Len(name) \in Nat /\ 1 <= 6 /\ 6 <= 5 + Len(name)
        /\ 5 + Len(name) <= Len(b)
    BY <1>5, <1>a, <1>c
  <2>2. /\ MQTTSNPacket_decode(s).rc = TypeAt(b) - 1 /\ TypeAt(b) \in {2, 4}
        /\ Part(s, TypeAt(b) + 6, TypeAt(b) + (5 + Len(name))) = Part(b, 6, 5 + Len(name))
    BY <1>7, <2>1, WithinPacket
  <2>3. /\ TypeAt(b) - 1 + 7 = TypeAt(b) + 6
        /\ TypeAt(b) + 6 + Len(name) - 1 = TypeAt(b) + (5 + Len(name))
    BY <1>a, <2>2
  <2> QED BY <1>6, <2>2, <2>3, SameForGateway DEF Gw!LongNameAt, Part
<1> HIDE DEF s
<1>10. ASSUME Body(s) = b
       PROVE  Gw!GetPacket(s) = msg
  <2> DEFINE g == Gw!FlagsOf(Gw!Body(s)[1])
  <2>1. Gw!GetPacket(s) = Gw!MQTTSNDeserialize_publish(s)
    BY <1>8, GatewayChooses
  <2>2. Gw!Body(s) = b /\ g = FlagsOf(f)
    BY <1>6, <1>10, SameForGateway
  <2>3. g.dup = msg.dup /\ g.qos = 3 /\ g.retain = msg.retain /\ g.kind = Gw!NORMAL
    BY <1>2, <1>3, <2>2, SameForGateway
  <2>4. Gw!readInt(b, 2) = Len(name) /\ Gw!readInt(b, 4) = msg.msgID
        /\ Gw!From(b, 6 + Len(name)) = t /\ 6 + Len(name) - 6 = Len(name)
    BY <1>6, <1>a, SameForGateway
  <2> HIDE DEF g
  <2>5. Gw!MQTTSNDeserialize_publish(s)
          = [type |-> "PUBLISH", dup |-> g.dup, qos |-> g.qos, retain |-> g.retain,
             msgID |-> Gw!readInt(b, 4),
             topic |-> Gw!Topic(Gw!NORMAL, 0, Gw!LongNameAt(s, Len(name))),
             payload |-> Gw!From(b, 6 + Len(name))]
    <3> DEFINE long == g.qos = 3 /\ g.kind = Gw!NORMAL
               start == 6 + IF long THEN Gw!readInt(b, 2) ELSE 0
    <3>1. long
      BY <2>3
    <3>2. start = 6 + Len(name)
      BY <3>1, <2>4
    <3> HIDE DEF long, start
    <3>3. Gw!MQTTSNDeserialize_publish(s)
            = [type |-> "PUBLISH", dup |-> g.dup, qos |-> g.qos, retain |-> g.retain,
               msgID |-> Gw!readInt(b, 4),
               topic |-> CASE long               -> Gw!Topic(Gw!NORMAL, 0, Gw!LongNameAt(s, start - 6))
                           [] g.kind = Gw!SHORT -> Gw!Topic(Gw!SHORT, 0, SubSeq(b, 2, 3))
                           [] OTHER             -> Gw!Topic(g.kind, Gw!readInt(b, 2), <<>>),
               payload |-> Gw!From(b, start)]
      BY <2>2 DEF Gw!MQTTSNDeserialize_publish, g, long, start
    <3>4. (CASE long              -> Gw!Topic(Gw!NORMAL, 0, Gw!LongNameAt(s, start - 6))
             [] g.kind = Gw!SHORT -> Gw!Topic(Gw!SHORT, 0, SubSeq(b, 2, 3))
             [] OTHER             -> Gw!Topic(g.kind, Gw!readInt(b, 2), <<>>))
            = Gw!Topic(Gw!NORMAL, 0, Gw!LongNameAt(s, start - 6))
      BY <2>3, <3>1, SameForGateway DEF NORMAL, SHORT
    <3> QED BY <2>4, <3>2, <3>3, <3>4
  <2>6. Gw!Topic(Gw!NORMAL, 0, name) = topic
    BY <1>2, SameForGateway DEF Gw!Topic
  <2> QED BY <1>1, <1>9, <2>1, <2>3, <2>4, <2>5, <2>6
<1>11. s \in Octets /\ s # <<>> /\ TypeOf(s) = Code[msg.type]
  BY <1>1, <1>8
<1>12. ~Cut(s) => Gw!GetPacket(s) = msg
  BY <1>8, <1>10
<1>13. /\ Written(msg) /\ Len(IdHead(msg)) = 3 /\ IdHead(msg)[1] = f
  <2> DEFINE id == writeInt(Len(name))
             h == <<f>> \o id
             w == writeInt(msg.msgID)
  <2>1. id \in Octets /\ Len(id) = 2 /\ w \in Octets
    BY <1>d, <1>e, IntOctets
  <2> HIDE DEF id, w
  <2>2. h \in Octets /\ Len(h) = 3 /\ h[1] = f
    BY <1>d, <2>1, PublishHead
  <2> HIDE DEF h
  <2>3. IdHead(msg) = h /\ IdTail(msg) = name \o t
    <3>1. Client!LongName(msg.qos, msg.topic)
      BY <1>1, <1>2, SameForClient DEF Client!LongName
    <3> QED BY <1>1, <3>1 DEF IdHead, IdTail, f, id, h, name, t
  <2>4. name \o t \in Octets
    BY <1>b, <1>e, Both
  <2>5. h \o w \o name \o t = h \o w \o (name \o t)
    <3> DEFINE g == h \o w
    <3>1. g \in Octets
      BY <2>1, <2>2, Both
    <3> HIDE DEF g
    <3>2. g \o (name \o t) = (g \o name) \o t
      <4>1. name \in Octets /\ t \in Octets
        BY <1>b, <1>e
      <4> QED BY ONLY <3>1, <4>1, Associative
    <3> QED BY <3>2 DEF g
  <2>6. b = WithId(msg, msg.msgID)
    BY <2>3, <2>5 DEF WithId, Holding, b, h, id, w
  <2>7. Fits(b) /\ ClientWriter(msg) = Packet(msg.type, b)
    BY <1>1, <1>f, <1>7 DEF Fits, s
  <2> QED BY <2>2, <2>3, <2>4, <2>6, <2>7 DEF Written
<1> QED BY <1>f, <1>11, <1>12, <1>13 DEF Arrives, f

----------------------------------------------------------------------------
(* What the gateway sends on its own account is read by the client. *)

\* The client reads each message with the function for its type.
LEMMA ClientChooses ==
    ASSUME NEW s
    PROVE  /\ TypeOf(s) = Code["ADVERTISE"] => ClientReader(s) = Client!MQTTSNDeserialize_advertise(s)
           /\ TypeOf(s) = Code["GWINFO"] => ClientReader(s) = Client!MQTTSNDeserialize_gwinfo(s)
           /\ TypeOf(s) = Code["WILLTOPICREQ"] => ClientReader(s) = Client!MQTTSNDeserialize_willtopicreq(s)
           /\ TypeOf(s) = Code["WILLMSGREQ"] => ClientReader(s) = Client!MQTTSNDeserialize_willmsgreq(s)
           /\ TypeOf(s) = Code["WILLTOPICRESP"] => ClientReader(s) = Client!MQTTSNDeserialize_willtopicresp(s)
           /\ TypeOf(s) = Code["WILLMSGRESP"] => ClientReader(s) = Client!MQTTSNDeserialize_willmsgresp(s)
           /\ TypeOf(s) = Code["PINGRESP"] => ClientReader(s) = Client!MQTTSNDeserialize_pingresp(s)
           /\ TypeOf(s) = Code["DISCONNECT"] => ClientReader(s) = Client!MQTTSNDeserialize_disconnect(s)
           /\ TypeOf(s) = Code["SUBACK"] => ClientReader(s) = Client!MQTTSNDeserialize_suback(s)
           /\ TypeOf(s) = Code["UNSUBACK"] => ClientReader(s) = Client!MQTTSNDeserialize_unsuback(s)
           /\ TypeOf(s) = Code["PUBACK"] => ClientReader(s) = Client!MQTTSNDeserialize_puback(s)
           /\ TypeOf(s) = Code["REGACK"] => ClientReader(s) = Client!MQTTSNDeserialize_regack(s)
           /\ TypeOf(s) = Code["REGISTER"] => ClientReader(s) = Client!MQTTSNDeserialize_register(s)
           /\ TypeOf(s) = Code["PUBREC"] => ClientReader(s) = Client!MQTTSNDeserialize_ack("PUBREC", s)
           /\ TypeOf(s) = Code["PUBREL"] => ClientReader(s) = Client!MQTTSNDeserialize_ack("PUBREL", s)
           /\ TypeOf(s) = Code["PUBCOMP"] => ClientReader(s) = Client!MQTTSNDeserialize_ack("PUBCOMP", s)
           /\ TypeOf(s) = Code["CONNACK"] => ClientReader(s) = Client!MQTTSNDeserialize_connack(s)
           /\ TypeOf(s) = Code["PUBLISH"] => ClientReader(s) = Client!MQTTSNDeserialize_publish(s)
BY DEF ClientReader, Code

IsTold(msg) == ~Cut(Gw!Serialize(msg)) => ClientReader(Gw!Serialize(msg)) = msg

\* The buffer of its set function is large enough for a message.
HasRoom(msg) == Gw!SetPacket(msg) # <<>>

\* A buffer of n octets has room for l, and for two or four before them.
RoomIn(n, l) ==
    l \in Nat /\ n \in Nat /\ ((2 + l <= n /\ l <= 253) \/ (4 + l <= n /\ l <= 1020))

LEMMA Room ==
    ASSUME NEW msg, NEW type, msg.type = type, Code[type] \in Nat, NEW b \in Octets,
           Gw!Serialize(msg) = Packet(type, b), RoomIn(Gw!BufferSize(type), Len(b))
    PROVE  HasRoom(msg)
<1> DEFINE s == Packet(type, b)
           k == TypeAt(b)
           l == Len(b)
           n == Gw!BufferSize(type)
<1>0. l \in Nat /\ n \in Nat /\ ((2 + l <= n /\ l <= 253) \/ (4 + l <= n /\ l <= 1020))
  BY DEF RoomIn
<1>1. Len(b) <= 3000
  BY <1>0
<1>2. b \in Bodies
  BY <1>1, Carried
<1>3. Len(s) = k + l /\ k \in {2, 4}
  BY <1>2, PacketParts
<1>4. l <= 253 => k = 2
  BY <1>0 DEF TypeAt, Width, MQTTSNPacket_len
<1>5. s # <<>>
  BY <1>1, Sending
<1>6. Len(s) <= n
  <2> HIDE DEF s, k, l, n
  <2> QED BY <1>0, <1>3, <1>4
<1> QED BY <1>5, <1>6 DEF HasRoom, Gw!SetPacket

\* ADVERTISE.
LEMMA AdvertiseTold ==
    ASSUME NEW msg \in [type : {"ADVERTISE"}, gwID : Bit, duration : Word]
    PROVE  IsTold(msg) /\ HasRoom(msg)
<1> DEFINE c == <<msg.gwID>>
           w == writeInt(msg.duration)
           b == c \o w
           s == Packet("ADVERTISE", b)
<1>1. msg.gwID \in Nat /\ msg.duration \in Word
  BY DEF Bit
<1>2. b \in Octets /\ Len(b) = 3
  <2>1. w \in Octets /\ Len(w) = 2
    BY <1>1, IntOctets
  <2> HIDE DEF w
  <2>2. b \in Octets /\ Len(b) = 1 + Len(w)
    BY <1>1, <2>1, AfterOctet
  <2> QED BY <2>1, <2>2
<1>3. b[1] = msg.gwID
  <2>1. w \in Octets
    BY <1>1, IntOctets
  <2> HIDE DEF w
  <2> QED BY <1>1, <2>1, AfterOctet
<1>4. readInt(b, 2) = msg.duration
  <2>1. w \in Octets /\ Len(w) = 2
    BY <1>1, IntOctets
  <2>2. readInt(w, 1) = msg.duration
    BY <1>1, IntOctets
  <2>3. c \in Octets /\ Len(c) = 1
    BY <1>1, OneOctet
  <2> HIDE DEF c, w
  <2>4. 1 \in Nat /\ 1 <= 1 /\ 1 + 1 <= Len(w)
    BY <2>1
  <2>5. readInt(c \o w, Len(c) + 1) = readInt(w, 1)
    BY <2>1, <2>3, <2>4, ReadSecond
  <2> QED BY <2>2, <2>3, <2>5
<1>5. Gw!Serialize(msg) = s
  BY SameForGateway DEF Gw!Serialize, Gw!MQTTSNSerialize_advertise
<1> HIDE DEF b
<1>6. b \in Octets /\ Len(b) <= 3000 /\ Code["ADVERTISE"] \in Nat
  BY <1>2 DEF Code
<1>7. TypeOf(s) = Code["ADVERTISE"] /\ (~Cut(s) => Body(s) = b)
  BY <1>6, Sending
<1> HIDE DEF s
<1>8. ASSUME Body(s) = b
      PROVE  ClientReader(s) = msg
  <2>1. ClientReader(s) = Client!MQTTSNDeserialize_advertise(s)
    BY <1>7, ClientChooses
  <2>2. Client!MQTTSNDeserialize_advertise(s)
          = [type |-> "ADVERTISE", gwID |-> msg.gwID, duration |-> msg.duration]
    BY <1>3, <1>4, <1>8, SameForClient DEF Client!MQTTSNDeserialize_advertise
  <2> QED BY <2>1, <2>2
<1>r. HasRoom(msg)
  <2>1. RoomIn(Gw!BufferSize("ADVERTISE"), Len(b))
    BY <1>2 DEF Gw!BufferSize, RoomIn
  <2>2. msg.type = "ADVERTISE"
    OBVIOUS
  <2> QED BY <1>6, <1>5, <2>1, <2>2, Room DEF s
<1> QED BY <1>r, <1>5, <1>7, <1>8 DEF IsTold

\* GWINFO.
LEMMA GwinfoTold ==
    ASSUME NEW msg \in [type : {"GWINFO"}, gwID : Bit, address : {<<>>}]
    PROVE  IsTold(msg) /\ HasRoom(msg)
<1> DEFINE t == msg.address
           b == <<msg.gwID>> \o t
           s == Packet("GWINFO", b)
<1>1. msg.gwID \in Nat
  BY DEF Bit
<1>2. t \in Octets /\ Len(t) = 0
  <2>1. t = <<>>
    OBVIOUS
  <2> QED BY <2>1 DEF Octets
<1>3. Gw!Serialize(msg) = s
  BY SameForGateway DEF Gw!Serialize, Gw!MQTTSNSerialize_gwinfo
<1> HIDE DEF t
<1>4. b \in Octets /\ Len(b) = 1 + Len(t)
  BY <1>1, <1>2, AfterOctet
<1>5. b[1] = msg.gwID /\ From(b, 2) = t
  BY <1>1, <1>2, AfterOctet
<1> HIDE DEF b
<1>6. b \in Octets /\ Len(b) <= 3000 /\ Code["GWINFO"] \in Nat
  BY <1>2, <1>4 DEF Code
<1>7. TypeOf(s) = Code["GWINFO"] /\ (~Cut(s) => Body(s) = b)
  BY <1>6, Sending
<1> HIDE DEF s
<1>8. ASSUME Body(s) = b
      PROVE  ClientReader(s) = msg
  <2>1. ClientReader(s) = Client!MQTTSNDeserialize_gwinfo(s)
    BY <1>7, ClientChooses
  <2>2. Client!MQTTSNDeserialize_gwinfo(s)
          = [type |-> "GWINFO", gwID |-> msg.gwID, address |-> t]
    BY <1>5, <1>8, SameForClient DEF Client!MQTTSNDeserialize_gwinfo
  <2> QED BY <2>1, <2>2 DEF t
<1>r. HasRoom(msg)
  <2>1. RoomIn(Gw!BufferSize("GWINFO"), Len(b))
    BY <1>2, <1>4 DEF Gw!BufferSize, RoomIn
  <2>2. msg.type = "GWINFO"
    OBVIOUS
  <2> QED BY <1>6, <1>3, <2>1, <2>2, Room DEF s
<1> QED BY <1>r, <1>3, <1>7, <1>8 DEF IsTold

\* The messages with nothing but a type.
LEMMA EmptyTold ==
    ASSUME NEW msg \in [type : {"WILLTOPICREQ", "WILLMSGREQ", "PINGRESP"}]
    PROVE  IsTold(msg) /\ HasRoom(msg)
<1> DEFINE s == Packet(msg.type, <<>>)
<1>1. msg.type \in {"WILLTOPICREQ", "WILLMSGREQ", "PINGRESP"} /\ msg = [type |-> msg.type]
  OBVIOUS
<1>2. <<>> \in Octets /\ Len(<<>>) <= 3000 /\ Code[msg.type] \in Nat
  BY <1>1 DEF Code, Octets
<1>3. TypeOf(s) = Code[msg.type]
  BY <1>2, Sending
<1>r. HasRoom(msg)
  <2> DEFINE b == <<>>
  <2>0. Gw!BufferSize(msg.type) \in {2, 32}
    BY <1>1 DEF Gw!BufferSize
  <2>1. RoomIn(Gw!BufferSize(msg.type), Len(b))
    <3>1. Len(b) = 0
      OBVIOUS
    <3> QED BY <2>0, <3>1 DEF RoomIn
  <2>2. Gw!Serialize(msg) = Packet(msg.type, b)
    BY <1>1, SameForGateway DEF Gw!Serialize, Gw!MQTTSNSerialize_willtopicreq,
       Gw!MQTTSNSerialize_willmsgreq, Gw!MQTTSNSerialize_pingresp
  <2>3. b \in Octets
    BY <1>2
  <2> HIDE DEF b
  <2> QED BY <1>2, <2>1, <2>2, <2>3, Room
<1> HIDE DEF s
<1>4. CASE msg.type = "WILLTOPICREQ"
  <2>1. Gw!Serialize(msg) = s
    BY <1>4, SameForGateway DEF Gw!Serialize, Gw!MQTTSNSerialize_willtopicreq, s
  <2> QED
    BY <1>r, <1>1, <1>3, <1>4, <2>1, ClientChooses DEF IsTold, Client!MQTTSNDeserialize_willtopicreq
<1>5. CASE msg.type = "WILLMSGREQ"
  <2>1. Gw!Serialize(msg) = s
    BY <1>5, SameForGateway DEF Gw!Serialize, Gw!MQTTSNSerialize_willmsgreq, s
  <2> QED
    BY <1>r, <1>1, <1>3, <1>5, <2>1, ClientChooses DEF IsTold, Client!MQTTSNDeserialize_willmsgreq
<1>6. CASE msg.type = "PINGRESP"
  <2>1. Gw!Serialize(msg) = s
    BY <1>6, SameForGateway DEF Gw!Serialize, Gw!MQTTSNSerialize_pingresp, s
  <2> QED
    BY <1>r, <1>1, <1>3, <1>6, <2>1, ClientChooses DEF IsTold, Client!MQTTSNDeserialize_pingresp
<1> QED BY <1>1, <1>4, <1>5, <1>6

\* WILLTOPICRESP and WILLMSGRESP.
LEMMA WillRespTold ==
    ASSUME NEW msg \in [type : {"WILLTOPICRESP", "WILLMSGRESP"}, rc : Nat]
    PROVE  IsTold(msg) /\ HasRoom(msg)
<1> DEFINE b == <<msg.rc>>
           s == Packet(msg.type, b)
<1>1. msg.type \in {"WILLTOPICRESP", "WILLMSGRESP"} /\ msg.rc \in Nat
  OBVIOUS
<1>2. b \in Octets /\ Len(b) = 1
  BY <1>1, OneOctet
<1>3. b[1] = msg.rc
  OBVIOUS
<1>4. Gw!Serialize(msg) = s
  <2>1. CASE msg.type = "WILLTOPICRESP"
    BY <2>1, SameForGateway DEF Gw!Serialize, Gw!MQTTSNSerialize_willtopicresp
  <2>2. CASE msg.type = "WILLMSGRESP"
    BY <2>2, SameForGateway DEF Gw!Serialize, Gw!MQTTSNSerialize_willmsgresp
  <2> QED BY <1>1, <2>1, <2>2
<1> HIDE DEF b
<1>5. b \in Octets /\ Len(b) <= 3000 /\ Code[msg.type] \in Nat
  <2>1. Code[msg.type] \in Nat
    BY <1>1 DEF Code
  <2> QED BY <1>2, <2>1
<1>6. TypeOf(s) = Code[msg.type] /\ (~Cut(s) => Body(s) = b)
  BY <1>5, Sending
<1> HIDE DEF s
<1>7. ASSUME Body(s) = b
      PROVE  ClientReader(s) = msg
  <2>1. Client!Body(s)[1] = msg.rc
    BY <1>3, <1>7, SameForClient
  <2>2. msg = [type |-> msg.type, rc |-> msg.rc]
    OBVIOUS
  <2>3. CASE msg.type = "WILLTOPICRESP"
    BY <1>6, <2>1, <2>2, <2>3, ClientChooses DEF Client!MQTTSNDeserialize_willtopicresp
  <2>4. CASE msg.type = "WILLMSGRESP"
    BY <1>6, <2>1, <2>2, <2>4, ClientChooses DEF Client!MQTTSNDeserialize_willmsgresp
  <2> QED BY <1>1, <2>3, <2>4
<1>r. HasRoom(msg)
  <2>1. RoomIn(Gw!BufferSize(msg.type), Len(b))
    BY <1>1, <1>2 DEF Gw!BufferSize, RoomIn, Gw!MQTTSNGW_MAX_PACKET_SIZE
  <2>2. msg.type = msg.type
    OBVIOUS
  <2> QED BY <1>5, <1>4, <2>1, <2>2, Room DEF s
<1> QED BY <1>r, <1>4, <1>6, <1>7 DEF IsTold

\* CONNACK.
LEMMA ConnackTold ==
    ASSUME NEW msg \in [type : {"CONNACK"}, rc : Nat]
    PROVE  IsTold(msg) /\ HasRoom(msg)
<1> DEFINE b == <<msg.rc>>
           s == Packet("CONNACK", b)
<1>1. msg.type = "CONNACK" /\ msg.rc \in Nat /\ msg = [type |-> "CONNACK", rc |-> msg.rc]
  OBVIOUS
<1>2. b \in Octets /\ Len(b) = 1 /\ b[1] = msg.rc
  BY <1>1, OneOctet
<1>3. Gw!Serialize(msg) = s
  BY <1>1, SameForGateway DEF Gw!Serialize, Gw!MQTTSNSerialize_connack
<1> HIDE DEF b
<1>4. b \in Octets /\ Len(b) <= 3000 /\ Code["CONNACK"] \in Nat
  BY <1>2 DEF Code
<1>5. TypeOf(s) = Code["CONNACK"] /\ (~Cut(s) => Body(s) = b)
  BY <1>4, Sending
<1>6. HasRoom(msg)
  <2>1. RoomIn(Gw!BufferSize("CONNACK"), Len(b))
    BY <1>2 DEF Gw!BufferSize, RoomIn
  <2> QED BY <1>1, <1>3, <1>4, <2>1, Room
<1> HIDE DEF s
<1>7. ASSUME Body(s) = b
      PROVE  ClientReader(s) = msg
  <2>1. Client!Body(s)[1] = msg.rc
    BY <1>2, <1>7, SameForClient
  <2>2. ClientReader(s) = Client!MQTTSNDeserialize_connack(s)
    BY <1>5, ClientChooses
  <2> QED BY <1>1, <2>1, <2>2 DEF Client!MQTTSNDeserialize_connack
<1> QED BY <1>3, <1>5, <1>6, <1>7 DEF IsTold

\* DISCONNECT.
LEMMA DisconnectTold ==
    ASSUME NEW msg \in [type : {"DISCONNECT"}, duration : Word]
    PROVE  IsTold(msg) /\ HasRoom(msg)
<1> DEFINE b == IF msg.duration > 0 THEN writeInt(msg.duration) ELSE <<>>
           s == Packet("DISCONNECT", b)
<1>0. msg.duration \in Word /\ msg.duration \in Nat
  BY WordIsNat
<1>1. /\ b \in Octets /\ Len(b) = IF msg.duration > 0 THEN 2 ELSE 0
      /\ msg.duration > 0 => readInt(b, 1) = msg.duration
  <2>1. CASE msg.duration > 0
    BY <1>0, <2>1, IntOctets
  <2>2. CASE ~(msg.duration > 0)
    BY <2>2 DEF Octets
  <2> QED BY <2>1, <2>2
<1>3. Gw!Serialize(msg) = s
  BY SameForGateway DEF Gw!Serialize, Gw!MQTTSNSerialize_disconnect
<1> HIDE DEF b
<1>2. b \in Octets /\ Len(b) <= 3000 /\ Code["DISCONNECT"] \in Nat
  <2>1. Len(b) \in {0, 2}
    BY <1>1
  <2> QED BY <1>1, <2>1 DEF Code
<1>4. TypeOf(s) = Code["DISCONNECT"] /\ (~Cut(s) => Body(s) = b)
  BY <1>2, Sending
<1> HIDE DEF s
<1>5. ASSUME Body(s) = b
      PROVE  ClientReader(s) = msg
  <2>1. ClientReader(s) = Client!MQTTSNDeserialize_disconnect(s)
    BY <1>4, ClientChooses
  <2>2. Client!MQTTSNDeserialize_disconnect(s) = [type |-> "DISCONNECT", duration |-> msg.duration]
    <3>1. CASE msg.duration > 0
      BY <1>1, <1>5, <3>1, SameForClient DEF Client!MQTTSNDeserialize_disconnect
    <3>2. CASE ~(msg.duration > 0)
      <4>1. msg.duration = 0 /\ Len(b) = 0
        BY <1>0, <1>1, <3>2
      <4> QED BY <1>5, <4>1, SameForClient DEF Client!MQTTSNDeserialize_disconnect
    <3> QED BY <3>1, <3>2
  <2> QED BY <2>1, <2>2
<1>r. HasRoom(msg)
  <2>1. RoomIn(Gw!BufferSize("DISCONNECT"), Len(b))
    BY <1>1 DEF Gw!BufferSize, RoomIn
  <2>2. msg.type = "DISCONNECT"
    OBVIOUS
  <2> QED BY <1>2, <1>3, <2>1, <2>2, Room DEF s
<1> QED BY <1>r, <1>3, <1>4, <1>5 DEF IsTold

\* SUBACK.
LEMMA SubackTold ==
    ASSUME NEW msg \in [type : {"SUBACK"}, qos : Qos, topicID : Word, msgID : Word, rc : Nat]
    PROVE  IsTold(msg) /\ HasRoom(msg)
<1> DEFINE f == Flags(0, msg.qos, 0, 0)
           id == writeInt(msg.topicID)
           h == <<f>> \o id
           t == <<msg.rc>>
           b == h \o writeInt(msg.msgID) \o t
           s == Packet("SUBACK", b)
<1>1. msg.qos \in 0 .. 3 /\ msg.topicID \in Word /\ msg.msgID \in Word /\ msg.rc \in Nat
  BY DEF Qos
<1>2. f \in Nat /\ FlagsOf(f).qos = msg.qos
  BY <1>1 DEF Flags, FlagsOf
<1>3. id \in Octets /\ Len(id) = 2
  BY <1>1, IntOctets
<1>4. readInt(id, 1) = msg.topicID
  BY <1>1, IntOctets
<1>5. t \in Octets /\ Len(t) = 1
  BY <1>1, OneOctet
<1>6. t[1] = msg.rc
  OBVIOUS
<1>7. Gw!Serialize(msg) = s
  BY SameForGateway DEF Gw!Serialize, Gw!MQTTSNSerialize_suback
<1> HIDE DEF f, id, t
<1>8. h \in Octets /\ Len(h) = 3
  BY <1>2, <1>3, PublishHead
<1>9. h[1] = f /\ readInt(h, 2) = readInt(id, 1)
  BY <1>2, <1>3, PublishHead
<1> HIDE DEF h
<1>10. b \in Octets /\ Len(b) = 6
  <2>1. b \in Octets /\ Len(b) = 5 + Len(t)
    BY <1>1, <1>5, <1>8, After3
  <2> QED BY <1>5, <2>1
<1>11. b[1] = f /\ readInt(b, 2) = msg.topicID /\ readInt(b, 4) = msg.msgID /\ b[6] = msg.rc
  <2>1. b[1] = h[1] /\ readInt(b, 2) = readInt(h, 2) /\ readInt(b, 4) = msg.msgID
    BY <1>1, <1>5, <1>8, After3
  <2>2. b[6] = t[1]
    <3>1. 1 <= Len(t)
      BY <1>5
    <3> QED BY <1>1, <1>5, <1>8, <3>1, After3
  <2> QED BY <1>4, <1>6, <1>9, <2>1, <2>2
<1> HIDE DEF b
<1>12. b \in Octets /\ Len(b) <= 3000 /\ Code["SUBACK"] \in Nat
  BY <1>10 DEF Code
<1>13. TypeOf(s) = Code["SUBACK"] /\ (~Cut(s) => Body(s) = b)
  BY <1>12, Sending
<1> HIDE DEF s
<1>14. ASSUME Body(s) = b
       PROVE  ClientReader(s) = msg
  <2>1. ClientReader(s) = Client!MQTTSNDeserialize_suback(s)
    BY <1>13, ClientChooses
  <2>2. Client!MQTTSNDeserialize_suback(s)
          = [type |-> "SUBACK", qos |-> msg.qos, topicID |-> msg.topicID, msgID |-> msg.msgID,
             rc |-> msg.rc]
    BY <1>2, <1>11, <1>14, SameForClient DEF Client!MQTTSNDeserialize_suback
  <2> QED BY <2>1, <2>2
<1>r. HasRoom(msg)
  <2>1. RoomIn(Gw!BufferSize("SUBACK"), Len(b))
    BY <1>10 DEF Gw!BufferSize, RoomIn
  <2>2. msg.type = "SUBACK"
    OBVIOUS
  <2> QED BY <1>12, <1>7, <2>1, <2>2, Room DEF s
<1> QED BY <1>r, <1>7, <1>13, <1>14 DEF IsTold

\* PUBACK and REGACK.
LEMMA AckWithTopicTold ==
    ASSUME NEW msg \in [type : {"PUBACK", "REGACK"}, topicID : Word, msgID : Word, rc : Nat]
    PROVE  IsTold(msg) /\ HasRoom(msg)
<1> DEFINE h == writeInt(msg.topicID)
           t == <<msg.rc>>
           b == h \o writeInt(msg.msgID) \o t
           s == Packet(msg.type, b)
<1>1. msg.type \in {"PUBACK", "REGACK"} /\ msg.topicID \in Word /\ msg.msgID \in Word /\ msg.rc \in Nat
  OBVIOUS
<1>2. h \in Octets /\ Len(h) = 2
  BY <1>1, IntOctets
<1>3. readInt(h, 1) = msg.topicID
  BY <1>1, IntOctets
<1>4. t \in Octets /\ Len(t) = 1
  BY <1>1, OneOctet
<1>5. t[1] = msg.rc
  OBVIOUS
<1>10. Gw!Serialize(msg) = s
  <2>1. CASE msg.type = "PUBACK"
    BY <2>1, SameForGateway DEF Gw!Serialize, Gw!MQTTSNSerialize_puback
  <2>2. CASE msg.type = "REGACK"
    BY <2>2, SameForGateway DEF Gw!Serialize, Gw!MQTTSNSerialize_regack
  <2> QED BY <1>1, <2>1, <2>2
<1> HIDE DEF h, t
<1>6. b \in Octets /\ Len(b) = 5
  <2>1. b \in Octets /\ Len(b) = 4 + Len(t)
    BY <1>1, <1>2, <1>4, After2
  <2> QED BY <1>4, <2>1
<1>7. readInt(b, 1) = msg.topicID /\ readInt(b, 3) = msg.msgID /\ b[5] = msg.rc
  <2>1. readInt(b, 1) = readInt(h, 1) /\ readInt(b, 3) = msg.msgID
    BY <1>1, <1>2, <1>4, After2
  <2>2. b[5] = t[1]
    <3>1. 1 <= Len(t)
      BY <1>4
    <3> QED BY <1>1, <1>2, <1>4, <3>1, After2
  <2> QED BY <1>3, <1>5, <2>1, <2>2
<1> HIDE DEF b
<1>8. b \in Octets /\ Len(b) <= 3000 /\ Code[msg.type] \in Nat
  <2>1. Code[msg.type] \in Nat
    BY <1>1 DEF Code
  <2> QED BY <1>6, <2>1
<1>9. TypeOf(s) = Code[msg.type] /\ (~Cut(s) => Body(s) = b)
  BY <1>8, Sending
<1> HIDE DEF s
<1>11. ASSUME Body(s) = b
       PROVE  ClientReader(s) = msg
  <2>1. ClientReader(s) = Client!Acked(msg.type, s)
    <3>1. CASE msg.type = "PUBACK"
      BY <1>9, <3>1, ClientChooses DEF Client!MQTTSNDeserialize_puback
    <3>2. CASE msg.type = "REGACK"
      BY <1>9, <3>2, ClientChooses DEF Client!MQTTSNDeserialize_regack
    <3> QED BY <1>1, <3>1, <3>2
  <2>2. Client!Acked(msg.type, s)
          = [type |-> msg.type, topicID |-> msg.topicID, msgID |-> msg.msgID, rc |-> msg.rc]
    BY <1>7, <1>11, SameForClient DEF Client!Acked
  <2> QED BY <2>1, <2>2
<1>r. HasRoom(msg)
  <2>1. RoomIn(Gw!BufferSize(msg.type), Len(b))
    BY <1>1, <1>6 DEF Gw!BufferSize, RoomIn
  <2>2. msg.type = msg.type
    OBVIOUS
  <2> QED BY <1>8, <1>10, <2>1, <2>2, Room DEF s
<1> QED BY <1>r, <1>9, <1>10, <1>11 DEF IsTold

\* The answers with nothing but a message id.
LEMMA AckTold ==
    ASSUME NEW msg \in [type : {"PUBREC", "PUBREL", "PUBCOMP", "UNSUBACK"}, msgID : Word]
    PROVE  IsTold(msg) /\ HasRoom(msg)
<1> DEFINE b == writeInt(msg.msgID)
           s == Packet(msg.type, b)
<1>1. msg.type \in {"PUBREC", "PUBREL", "PUBCOMP", "UNSUBACK"} /\ msg.msgID \in Word
  OBVIOUS
<1>2. b \in Octets /\ Len(b) = 2
  BY <1>1, IntOctets
<1>3. readInt(b, 1) = msg.msgID
  BY <1>1, IntOctets
<1>6. Gw!Serialize(msg) = s
  <2>1. CASE msg.type = "UNSUBACK"
    BY <2>1, SameForGateway DEF Gw!Serialize, Gw!MQTTSNSerialize_unsuback
  <2>2. CASE msg.type # "UNSUBACK"
    BY <1>1, <2>2, SameForGateway DEF Gw!Serialize, Gw!MQTTSNSerialize_ack
  <2> QED BY <2>1, <2>2
<1> HIDE DEF b
<1>4. b \in Octets /\ Len(b) <= 3000 /\ Code[msg.type] \in Nat
  <2>1. Code[msg.type] \in Nat
    BY <1>1 DEF Code
  <2> QED BY <1>2, <2>1
<1>5. TypeOf(s) = Code[msg.type] /\ (~Cut(s) => Body(s) = b)
  BY <1>4, Sending
<1> HIDE DEF s
<1>7. ASSUME Body(s) = b
      PROVE  ClientReader(s) = msg
  <2>1. CASE msg.type = "UNSUBACK"
    <3>1. ClientReader(s) = [type |-> msg.type, msgID |-> msg.msgID]
      BY <1>3, <1>5, <1>7, <2>1, ClientChooses, SameForClient DEF Client!MQTTSNDeserialize_unsuback
    <3> QED BY <3>1
  <2>2. CASE msg.type # "UNSUBACK"
    <3>1. ClientReader(s) = Client!MQTTSNDeserialize_ack(msg.type, s)
      <4>1. CASE msg.type = "PUBREC"
        BY <1>5, <4>1, ClientChooses
      <4>2. CASE msg.type = "PUBREL"
        BY <1>5, <4>2, ClientChooses
      <4>3. CASE msg.type = "PUBCOMP"
        BY <1>5, <4>3, ClientChooses
      <4> QED BY <1>1, <2>2, <4>1, <4>2, <4>3
    <3>2. Client!MQTTSNDeserialize_ack(msg.type, s) = [type |-> msg.type, msgID |-> msg.msgID]
      BY <1>3, <1>7, SameForClient DEF Client!MQTTSNDeserialize_ack
    <3> QED BY <3>1, <3>2
  <2> QED BY <2>1, <2>2
<1>r. HasRoom(msg)
  <2>1. RoomIn(Gw!BufferSize(msg.type), Len(b))
    BY <1>1, <1>2 DEF Gw!BufferSize, RoomIn
  <2>2. msg.type = msg.type
    OBVIOUS
  <2> QED BY <1>4, <1>6, <2>1, <2>2, Room DEF s
<1> QED BY <1>r, <1>5, <1>6, <1>7 DEF IsTold

\* REGISTER.
LEMMA RegisterTold ==
    ASSUME NEW msg \in [type : {"REGISTER"}, topicID : Word, msgID : Word, name : AnyText]
    PROVE  IsTold(msg) /\ (Len(msg.name) <= 1015 => HasRoom(msg))
<1> DEFINE h == writeInt(msg.topicID)
           t == msg.name
           b == h \o writeInt(msg.msgID) \o t
           s == Packet("REGISTER", b)
<1>1. msg.topicID \in Word /\ msg.msgID \in Word /\ t \in Octets /\ Len(t) \in Nat /\ Len(t) <= 1016
  BY LenIsNat DEF AnyText
<1>2. h \in Octets /\ Len(h) = 2
  BY <1>1, IntOctets
<1>3. readInt(h, 1) = msg.topicID
  BY <1>1, IntOctets
<1>7. Gw!Serialize(msg) = s
  BY SameForGateway DEF Gw!Serialize, Gw!MQTTSNSerialize_register
<1> HIDE DEF h, t
<1>4. b \in Octets /\ Len(b) = 4 + Len(t)
  BY <1>1, <1>2, After2
<1>5. readInt(b, 1) = msg.topicID /\ readInt(b, 3) = msg.msgID /\ From(b, 5) = t
  <2>1. readInt(b, 1) = readInt(h, 1) /\ readInt(b, 3) = msg.msgID /\ From(b, 5) = t
    BY <1>1, <1>2, After2
  <2> QED BY <1>3, <2>1
<1> HIDE DEF b
<1>6. b \in Octets /\ Len(b) <= 3000 /\ Code["REGISTER"] \in Nat
  <2>1. Len(b) <= 3000
    BY <1>1, <1>4
  <2> QED BY <1>4, <2>1 DEF Code
<1>8. TypeOf(s) = Code["REGISTER"] /\ (~Cut(s) => Body(s) = b)
  BY <1>6, Sending
<1> HIDE DEF s
<1>9. ASSUME Body(s) = b
      PROVE  ClientReader(s) = msg
  <2>1. ClientReader(s) = Client!MQTTSNDeserialize_register(s)
    BY <1>8, ClientChooses
  <2>2. Client!MQTTSNDeserialize_register(s)
          = [type |-> "REGISTER", topicID |-> msg.topicID, msgID |-> msg.msgID, name |-> t]
    BY <1>5, <1>9, SameForClient DEF Client!MQTTSNDeserialize_register
  <2> QED BY <2>1, <2>2 DEF t
<1>r. ASSUME Len(msg.name) <= 1015
      PROVE  HasRoom(msg)
  <2>1. RoomIn(Gw!BufferSize("REGISTER"), Len(b))
    BY <1>r, <1>1, <1>4 DEF Gw!BufferSize, RoomIn, t, Gw!MQTTSNGW_MAX_PACKET_SIZE
  <2>2. msg.type = "REGISTER"
    OBVIOUS
  <2> QED BY <1>6, <1>7, <2>1, <2>2, Room DEF s
<1> QED BY <1>r, <1>7, <1>8, <1>9 DEF IsTold

\* The client reads a PUBLISH as the gateway does.
LEMMA SamePublish ==
    ASSUME NEW s
    PROVE  Client!MQTTSNDeserialize_publish(s) = Gw!MQTTSNDeserialize_publish(s)
<1>1. Client!MQTTSNPacket_decode(s) = Gw!MQTTSNPacket_decode(s)
  BY SameForClient, SameForGateway
<1>2. Client!Body(s) = Gw!Body(s)
  BY SameForClient, SameForGateway
<1>3. \A x : Client!FlagsOf(x) = Gw!FlagsOf(x)
  BY SameForClient, SameForGateway
<1>4. \A x, i : Client!readInt(x, i) = Gw!readInt(x, i) /\ Client!From(x, i) = Gw!From(x, i)
  BY SameForClient, SameForGateway
<1>5. \A x, y, z : Client!Topic(x, y, z) = Gw!Topic(x, y, z)
  BY SameForClient, SameForGateway
<1>6. Client!NORMAL = Gw!NORMAL /\ Client!SHORT = Gw!SHORT
  BY SameForClient, SameForGateway
<1>7. \A n : Client!LongNameAt(s, n) = Gw!LongNameAt(s, n)
  BY <1>1 DEF Client!LongNameAt, Gw!LongNameAt
<1> QED BY <1>2, <1>3, <1>4, <1>5, <1>6, <1>7, Zenon
  DEF Client!MQTTSNDeserialize_publish, Gw!MQTTSNDeserialize_publish

\* PUBLISH, with a topic of two octets.
LEMMA PublishTold ==
    ASSUME NEW topic, IsTwoOctets(topic), NEW msg \in PublishSet(topic), msg.qos # 3
    PROVE  IsTold(msg) /\ (Len(msg.payload) <= 1015 => HasRoom(msg))
<1> DEFINE b == PublishBody(msg)
           s == Packet("PUBLISH", b)
           h == <<Flags(msg.dup, msg.qos, msg.retain, msg.topic.kind)>> \o TwoOctets(msg.topic)
                  \o writeInt(msg.msgID)
           t == msg.payload
           n == Len(t)
<1>1. ~Client!LongName(msg.qos, topic)
  BY DEF Client!LongName
<1>2. b \in Octets /\ Len(b) = 5 + n /\ Len(b) <= 3000
  BY <1>1, PublishIsRead
<1>3. ~Cut(s) => Gw!GetPacket(s) = msg
  BY <1>1, PublishIsRead
<1>4. msg.type = "PUBLISH" /\ msg.topic = topic /\ t \in Octets /\ n \in Nat
  BY LenIsNat DEF PublishSet, AnyText
<1>5. Gw!Serialize(msg) = s
  <2>1. h \in Octets
    <3> DEFINE f == Flags(msg.dup, msg.qos, msg.retain, topic.kind)
               u == TwoOctets(topic)
               w == writeInt(msg.msgID)
    <3>1. msg.msgID \in Word
      BY DEF PublishSet
    <3>2. w \in Octets
      BY <3>1, IntOctets
    <3>3. u \in Octets /\ Len(u) = 2 /\ topic.kind \in 0 .. 2
      <4>1. CASE topic \in [kind : {NORMAL, PREDEFINED}, id : Word, name : {<<>>}]
        <5>1. topic.kind # SHORT /\ topic.id \in Word /\ topic.kind \in 0 .. 2
          BY <4>1 DEF NORMAL, PREDEFINED, SHORT
        <5>2. writeInt(topic.id) \in Octets /\ Len(writeInt(topic.id)) = 2
          BY <5>1, IntOctets
        <5> QED BY <5>1, <5>2 DEF TwoOctets
      <4>2. CASE topic \in [kind : {SHORT}, id : {0}, name : {x \in Octets : Len(x) = 2}]
        <5>1. topic.kind = SHORT /\ topic.name \in Octets /\ Len(topic.name) = 2 /\ topic.kind \in 0 .. 2
          BY <4>2 DEF SHORT
        <5> QED BY <5>1 DEF TwoOctets
      <4> QED BY <4>1, <4>2 DEF IsTwoOctets
    <3>4. f \in Nat
      BY <3>3, PublishFlags
    <3> HIDE DEF f, u, w
    <3>5. <<f>> \o u \in Octets
      BY <3>3, <3>4, PublishHead
    <3>6. (<<f>> \o u) \o w \in Octets
      BY <3>2, <3>5, Both
    <3> QED BY <1>4, <3>6 DEF f, u, w
  <2>2. b = h \o <<>> \o t
    BY DEF PublishBody
  <2>3. Gw!Serialize(msg) = Packet("PUBLISH", h \o t)
    BY <1>4, SameForGateway DEF Gw!Serialize, Gw!MQTTSNSerialize_publish, TwoOctets
  <2> HIDE DEF h, b
  <2>4. h \o <<>> = h
    BY <2>1 DEF Octets
  <2> QED BY <2>2, <2>3, <2>4
<1> HIDE DEF b
<1>6. Code["PUBLISH"] \in Nat
  BY DEF Code
<1>7. TypeOf(s) = Code["PUBLISH"]
  BY <1>2, <1>6, Sending
<1>8. ASSUME n <= 1015
      PROVE  HasRoom(msg)
  <2> HIDE DEF n
  <2>1. RoomIn(Gw!BufferSize("PUBLISH"), Len(b))
    BY <1>2, <1>4, <1>8 DEF Gw!BufferSize, Gw!MQTTSNGW_MAX_PACKET_SIZE, RoomIn
  <2> QED BY <1>2, <1>4, <1>5, <1>6, <2>1, Room
<1> HIDE DEF s
<1>9. ClientReader(s) = Gw!GetPacket(s)
  <2>1. ClientReader(s) = Client!MQTTSNDeserialize_publish(s)
    BY <1>7, ClientChooses
  <2>2. Gw!GetPacket(s) = Gw!MQTTSNDeserialize_publish(s)
    BY <1>7, GatewayChooses
  <2> QED BY <2>1, <2>2, SamePublish
<1> QED BY <1>3, <1>5, <1>8, <1>9 DEF IsTold

----------------------------------------------------------------------------
(* The messages of module Codecs. *)

\* The ids fit into two octets.
LEMMA IdIsWord ==
    ASSUME NEW i \in Ids
    PROVE  i \in Word
BY IdsAssumption

\* So do the small numbers.
LEMMA SmallWord ==
    ASSUME NEW n \in 0 .. 3
    PROVE  n \in Word /\ n \in Nat
<1>1. n \in Word
  BY WordIs
<1> QED BY <1>1

\* The lengths of the texts by their ends.
LEMMA LengthsFit == \A n \in TextLengths : n \in Nat /\ n <= 1015
<1> DEFINE last == 1015
<1>1. TextLengths \subseteq 0 .. last /\ last \in Int
  BY LengthsAssumption
<1> HIDE DEF last
<1>2. \A n \in TextLengths : n \in Nat /\ n <= last
  BY <1>1
<1> QED BY <1>2 DEF last

\* The texts of the model fit into the buffers.
LEMMA TextIsText ==
    ASSUME NEW n \in Nat, n <= 1016
    PROVE  /\ Text(n) \in AnyText /\ Len(Text(n)) = n
           /\ n # 0 => Text(n) # <<>>
<1>1. Text(n) \in Seq(Nat) /\ Len(Text(n)) = n
  BY DEF Text
<1> QED BY <1>1 DEF AnyText, Octets

\* The short ones the model has for ids.
LEMMA FewLetters ==
    ASSUME NEW n \in 1 .. 4
    PROVE  /\ Text(n) \in AnyText /\ Text(n) \in Octets /\ Len(Text(n)) = n
           /\ 1 <= Len(Text(n)) /\ Len(Text(n)) <= 1016
<1>1. n \in Nat /\ n <= 1016 /\ 1 <= n
  OBVIOUS
<1>2. Text(n) \in AnyText /\ Len(Text(n)) = n
  BY <1>1, TextIsText
<1>3. Text(n) \in Octets
  BY <1>2 DEF AnyText
<1> QED BY <1>1, <1>2, <1>3

\* All of them.
LEMMA TextsAreTexts ==
    Texts \subseteq AnyText /\ ShortTexts \subseteq AnyText
<1>1. ASSUME NEW n \in TextLengths
      PROVE  Text(n) \in AnyText
  <2>1. n \in Nat /\ n <= 1016
    BY LengthsFit
  <2> QED BY <2>1, TextIsText
<1>2. ShortLengths \subseteq TextLengths
  BY LengthsAssumption
<1> QED BY <1>1, <1>2 DEF Texts, ShortTexts

\* The short topic has two octets.
LEMMA ShortTopicIsShort ==
    ShortTopic \in [kind : {SHORT}, id : {0}, name : {t \in Octets : Len(t) = 2}]
<1>1. <<97, 98>> \in Octets /\ Len(<<97, 98>>) = 2
  BY DEF Octets
<1> QED BY <1>1 DEF ShortTopic, Topic

\* The filters of the model are filters.
LEMMA FiltersAreFilters ==
    ASSUME NEW topic \in Filters
    PROVE  IsFilter(topic)
<1>1. ASSUME NEW t \in Texts \ {<<>>}, topic = Topic(NORMAL, 0, t)
      PROVE  IsFilter(topic)
  BY <1>1, TextsAreTexts DEF IsFilter, Topic
<1>2. ASSUME NEW i \in Ids, topic = Topic(PREDEFINED, i, <<>>)
      PROVE  IsFilter(topic)
  BY <1>2, IdIsWord DEF IsFilter, Topic
<1>3. CASE topic = ShortTopic
  BY <1>3, ShortTopicIsShort DEF IsFilter
<1> QED BY <1>1, <1>2, <1>3 DEF Filters

\* What the gateway makes of a message that is not cut.
Understood(msg) ==
    CASE ~HasText(msg)        -> Rejected
      [] msg.type = "PINGREQ" -> [type |-> "PINGREQ"]
      [] OTHER                -> msg

\* So are the topics a PUBLISH names by two octets.
LEMMA TwoOctetTopics ==
    ASSUME NEW topic \in PublishTopics
    PROVE  IsTwoOctets(topic)
<1>1. ASSUME NEW kind \in {NORMAL, PREDEFINED}, NEW i \in Ids, topic = Topic(kind, i, <<>>)
      PROVE  IsTwoOctets(topic)
  BY <1>1, IdIsWord DEF Topic, IsTwoOctets
<1>2. CASE topic = ShortTopic
  BY <1>2, ShortTopicIsShort DEF IsTwoOctets
<1> QED BY <1>1, <1>2 DEF PublishTopics

\* The gateway is to understand of a PUBLISH all of it.
LEMMA PublishUnderstood ==
    ASSUME NEW msg, msg.type = "PUBLISH"
    PROVE  Understood(msg) = msg
BY DEF Understood, HasText

\* What a PUBLISH of the model consists of.
LEMMA PublishesArrive ==
    ASSUME NEW qos, qos \subseteq 0 .. 3, NEW topics, NEW payloads, payloads \subseteq AnyText,
           NEW msg \in Publishes(topics, qos, payloads)
    PROVE  /\ msg.topic \in topics /\ msg.qos \in qos /\ msg.type = "PUBLISH"
           /\ msg \in PublishSet(msg.topic)
           /\ [msg EXCEPT !.msgID = 0] \in PublishSet(msg.topic)
<1>1. /\ msg.type = "PUBLISH" /\ msg.dup \in Bit /\ msg.qos \in qos /\ msg.retain \in Bit
      /\ msg.msgID \in Ids /\ msg.topic \in topics /\ msg.payload \in payloads
      /\ msg = [type |-> "PUBLISH", dup |-> msg.dup, qos |-> msg.qos, retain |-> msg.retain,
                msgID |-> msg.msgID, topic |-> msg.topic, payload |-> msg.payload]
  BY DEF Publishes
<1>2. msg.msgID \in Word /\ 0 \in Word
  BY <1>1, IdIsWord, SmallWord
<1>3. msg.qos \in 0 .. 3 /\ msg.payload \in AnyText
  BY <1>1
<1>4. [msg EXCEPT !.msgID = 0]
        = [type |-> "PUBLISH", dup |-> msg.dup, qos |-> msg.qos, retain |-> msg.retain,
           msgID |-> 0, topic |-> msg.topic, payload |-> msg.payload]
  BY <1>1
<1> QED BY <1>1, <1>2, <1>3, <1>4 DEF PublishSet

\* Every PUBLISH of the model with a topic of two octets.
LEMMA TwoOctetsArrive ==
    ASSUME NEW topic \in PublishTopics, NEW msg \in PublishSet(topic),
           msg.qos = 0 => msg.msgID = 0, ~(msg.qos = 3 /\ topic.kind = NORMAL)
    PROVE  Arrives(msg, Understood(msg))
<1>1. IsTwoOctets(topic)
  BY TwoOctetTopics
<1>2. ~Client!LongName(msg.qos, topic)
  BY SameForClient DEF Client!LongName
<1>3. Arrives(msg, msg)
  BY <1>1, <1>2, PublishArrives
<1>4. msg.type = "PUBLISH"
  BY DEF PublishSet
<1> QED BY <1>3, <1>4, PublishUnderstood

\* Every PUBLISH of the model with a long name.
LEMMA LongArrive ==
    ASSUME NEW topic \in LongTopics, NEW msg \in PublishSet(topic), msg.qos = 3
    PROVE  Arrives(msg, Understood(msg))
<1>1. topic \in [kind : {NORMAL}, id : {0}, name : AnyText \ {<<>>}]
  BY TextsAreTexts DEF LongTopics, Topic
<1>2. Arrives(msg, msg)
  BY <1>1, PublishLongArrives
<1>3. msg.type = "PUBLISH"
  BY DEF PublishSet
<1> QED BY <1>2, <1>3, PublishUnderstood

\* What is published without a connection is made like every other PUBLISH.
LEMMA QoSMinusIsPublished ==
    QoSMinus \subseteq Publishes(LongTopics \cup {t \in PublishTopics : t.kind # NORMAL}, {3}, ShortTexts)
BY DEF QoSMinus

\* The PUBLISHes of the model: by a topic of two octets, or by a long name.
IsPublish(msg) ==
    \/ msg \in Publishes(PublishTopics, 1 .. 2, ShortTexts)
    \/ msg \in Publishes({ShortTopic}, {1}, Texts)
    \/ msg \in {[p EXCEPT !.msgID = 0] : p \in Publishes(PublishTopics, {0}, ShortTexts)}
    \/ msg \in Publishes(LongTopics \cup {t \in PublishTopics : t.kind # NORMAL}, {3}, ShortTexts)

LEMMA PublishesAre ==
    ASSUME NEW msg, IsPublish(msg)
    PROVE  /\ msg.type = "PUBLISH" /\ msg.payload \in Texts /\ msg \in PublishSet(msg.topic)
           /\ \/ /\ msg.topic \in PublishTopics /\ (msg.qos = 0 => msg.msgID = 0)
                 /\ ~(msg.qos = 3 /\ msg.topic.kind = NORMAL)
              \/ msg.topic \in LongTopics /\ msg.qos = 3
<1>1. ASSUME NEW topics, NEW qos, qos \subseteq 0 .. 3, NEW payloads, payloads \subseteq Texts,
             NEW p \in Publishes(topics, qos, payloads), NEW x \in {p, [p EXCEPT !.msgID = 0]}
      PROVE  /\ x.type = "PUBLISH" /\ x.payload \in Texts /\ x.topic \in topics /\ x.qos \in qos
             /\ x \in PublishSet(x.topic)
  <2>1. payloads \subseteq AnyText
    BY <1>1, TextsAreTexts
  <2>2. /\ p.type = "PUBLISH" /\ p.topic \in topics /\ p.qos \in qos
        /\ p \in PublishSet(p.topic) /\ [p EXCEPT !.msgID = 0] \in PublishSet(p.topic)
    BY <1>1, <2>1, PublishesArrive
  <2>3. /\ p.payload \in payloads /\ x.payload = p.payload /\ x.type = p.type
        /\ x.topic = p.topic /\ x.qos = p.qos
    BY DEF Publishes
  <2> QED BY <1>1, <2>2, <2>3
<1>2. /\ 1 .. 2 \subseteq 0 .. 3 /\ {1} \subseteq 0 .. 3 /\ {0} \subseteq 0 .. 3 /\ {3} \subseteq 0 .. 3
      /\ ShortTexts \subseteq Texts /\ Texts \subseteq Texts
  BY LengthsAssumption DEF ShortTexts, Texts
<1>3. CASE msg \in Publishes(PublishTopics, 1 .. 2, ShortTexts)
  <2>1. /\ msg.type = "PUBLISH" /\ msg.payload \in Texts /\ msg.topic \in PublishTopics
        /\ msg.qos \in 1 .. 2 /\ msg \in PublishSet(msg.topic)
    BY <1>1, <1>2, <1>3
  <2> QED BY <2>1
<1>4. CASE msg \in Publishes({ShortTopic}, {1}, Texts)
  <2> DEFINE topics == {ShortTopic}
             qos == {1}
  <2>1. qos \subseteq 0 .. 3 /\ msg \in Publishes(topics, qos, Texts)
    BY <1>4
  <2> HIDE DEF topics, qos
  <2>2. /\ msg.type = "PUBLISH" /\ msg.payload \in Texts /\ msg.topic \in topics
        /\ msg.qos \in qos /\ msg \in PublishSet(msg.topic)
    BY <1>1, <1>2, <2>1
  <2> QED BY <2>2 DEF topics, qos, PublishTopics
<1>5. ASSUME NEW p \in Publishes(PublishTopics, {0}, ShortTexts), msg = [p EXCEPT !.msgID = 0]
      PROVE  /\ msg.type = "PUBLISH" /\ msg.payload \in Texts /\ msg.topic \in PublishTopics
             /\ msg.qos \in {0} /\ msg \in PublishSet(msg.topic) /\ msg.msgID = 0
  <2>1. msg.msgID = 0
    BY <1>5 DEF Publishes
  <2> QED BY <1>1, <1>2, <1>5, <2>1
<1>6. CASE msg \in Publishes(LongTopics \cup {t \in PublishTopics : t.kind # NORMAL}, {3}, ShortTexts)
  <2>1. /\ msg.type = "PUBLISH" /\ msg.payload \in Texts
        /\ msg.topic \in LongTopics \cup {t \in PublishTopics : t.kind # NORMAL}
        /\ msg.qos \in {3} /\ msg \in PublishSet(msg.topic)
    BY <1>1, <1>2, <1>6
  <2> QED BY <2>1
<1> QED BY <1>3, <1>4, <1>5, <1>6 DEF IsPublish

\* Every message of a client arrives.
LEMMA ClientMessagesArrive ==
    ASSUME NEW msg \in ClientMessages
    PROVE  Arrives(msg, Understood(msg))
<1>1. CASE msg \in [type : {"CONNECT"}, will : Bit, clean : Bit, duration : Ids, clientID : Texts]
  <2>1. msg \in [type : {"CONNECT"}, will : Bit, clean : Bit, duration : Word, clientID : AnyText]
    BY <1>1, IdIsWord, TextsAreTexts
  <2>2. Arrives(msg, IF msg.clientID = <<>> THEN Rejected ELSE msg)
    BY <2>1, ConnectArrives
  <2>3. Understood(msg) = IF msg.clientID = <<>> THEN Rejected ELSE msg
    BY <1>1 DEF Understood, HasText
  <2> QED BY <2>2, <2>3
<1>2. CASE msg \in [type : {"DISCONNECT"}, duration : Ids \cup {0}]
  <2>1. msg \in [type : {"DISCONNECT"}, duration : Word]
    BY <1>2, IdIsWord, SmallWord
  <2>2. Understood(msg) = msg
    BY <1>2 DEF Understood, HasText
  <2> QED BY <2>1, <2>2, DisconnectArrives
<1>3. CASE msg \in [type : {"PINGRESP"}] \/ msg \in [type : {"PINGREQ"}, clientID : Texts]
  <2>1. msg \in [type : {"PINGRESP"}] \/ msg \in [type : {"PINGREQ"}, clientID : AnyText]
    BY <1>3, TextsAreTexts
  <2>2. Arrives(msg, [type |-> msg.type])
    BY <2>1, PingArrives
  <2>3. Understood(msg) = [type |-> msg.type]
    <3>1. CASE msg \in [type : {"PINGRESP"}]
      BY <3>1 DEF Understood, HasText
    <3>2. CASE msg \in [type : {"PINGREQ"}, clientID : Texts]
      BY <3>2 DEF Understood, HasText
    <3> QED BY <1>3, <3>1, <3>2
  <2> QED BY <2>2, <2>3
<1>4. CASE msg \in [type : {"WILLTOPIC", "WILLTOPICUPD"}, qos : Qos, retain : Bit, topic : Texts]
  <2>1. msg \in [type : {"WILLTOPIC", "WILLTOPICUPD"}, qos : Qos, retain : Bit, topic : AnyText]
    BY <1>4, TextsAreTexts
  <2>2. Arrives(msg, IF msg.topic = <<>> THEN Rejected ELSE msg)
    BY <2>1, WillTopicArrives
  <2>3. Understood(msg) = IF msg.topic = <<>> THEN Rejected ELSE msg
    BY <1>4 DEF Understood, HasText
  <2> QED BY <2>2, <2>3
<1>5. CASE msg \in [type : {"WILLMSG", "WILLMSGUPD"}, msg : Texts]
  <2>1. msg \in [type : {"WILLMSG", "WILLMSGUPD"}, msg : AnyText]
    BY <1>5, TextsAreTexts
  <2>2. Arrives(msg, IF msg.msg = <<>> THEN Rejected ELSE msg)
    BY <2>1, WillMsgArrives
  <2>3. Understood(msg) = IF msg.msg = <<>> THEN Rejected ELSE msg
    BY <1>5 DEF Understood, HasText
  <2> QED BY <2>2, <2>3
<1>6. CASE msg \in [type : {"SEARCHGW"}, radius : Bit]
  <2>1. Understood(msg) = msg
    BY <1>6 DEF Understood, HasText
  <2> QED BY <1>6, <2>1, SearchArrives
<1>7. CASE msg \in [type : {"SUBSCRIBE"}, dup : Bit, qos : Qos, msgID : Ids, topic : Filters]
  <2>1. msg \in [type : {"SUBSCRIBE"}, dup : Bit, qos : Qos, msgID : Word, topic : {msg.topic}]
    BY <1>7, IdIsWord
  <2>2. IsFilter(msg.topic)
    BY <1>7, FiltersAreFilters
  <2>3. Understood(msg) = msg
    BY <1>7 DEF Understood, HasText
  <2> QED BY <2>1, <2>2, <2>3, SubscribeArrives
<1>8. CASE msg \in [type : {"UNSUBSCRIBE"}, msgID : Ids, topic : Filters]
  <2>1. msg \in [type : {"UNSUBSCRIBE"}, msgID : Word, topic : {msg.topic}]
    BY <1>8, IdIsWord
  <2>2. IsFilter(msg.topic)
    BY <1>8, FiltersAreFilters
  <2>3. Understood(msg) = msg
    BY <1>8 DEF Understood, HasText
  <2> QED BY <2>1, <2>2, <2>3, UnsubscribeArrives
<1>9. CASE IsPublish(msg)
  BY <1>9, PublishesAre, TwoOctetsArrive, LongArrive
<1>10. CASE msg \in AcksWithTopic
  <2>1. msg \in [type : {"PUBACK", "REGACK"}, topicID : Word, msgID : Word, rc : Nat]
    BY <1>10, IdIsWord, SmallWord DEF AcksWithTopic
  <2>2. Understood(msg) = msg
    BY <1>10 DEF Understood, HasText, AcksWithTopic
  <2> QED BY <2>1, <2>2, AckWithTopicArrives
<1>11. CASE msg \in Acks({"PUBREC", "PUBREL", "PUBCOMP"})
  <2>1. msg \in [type : {"PUBREC", "PUBREL", "PUBCOMP"}, msgID : Word]
    BY <1>11, IdIsWord DEF Acks
  <2>2. Understood(msg) = msg
    BY <1>11 DEF Understood, HasText, Acks
  <2> QED BY <2>1, <2>2, AckArrives
<1>12. CASE msg \in [type : {"REGISTER"}, topicID : {0}, msgID : Ids, name : Texts]
  <2>1. msg \in [type : {"REGISTER"}, topicID : Word, msgID : Word, name : AnyText]
    BY <1>12, IdIsWord, SmallWord, TextsAreTexts
  <2>2. Understood(msg) = msg
    BY <1>12 DEF Understood, HasText
  <2> QED BY <2>1, <2>2, RegisterArrives
<1> QED
  BY <1>1, <1>2, <1>3, <1>4, <1>5, <1>6, <1>7, <1>8, <1>9, <1>10, <1>11, <1>12,
     QoSMinusIsPublished DEF ClientMessages, IsPublish

\* The texts of the model leave room for what is before them.
LEMMA ShorterTexts ==
    ASSUME NEW t \in Texts
    PROVE  Len(t) <= 1015
<1>1. PICK n \in TextLengths : t = Text(n)
  BY DEF Texts
<1>2. n \in Nat /\ n <= 1015 /\ n <= 1016
  BY LengthsFit
<1>3. Len(Text(n)) = n
  BY <1>2, TextIsText
<1> QED BY <1>1, <1>2, <1>3

\* Every message of the gateway.
LEMMA GatewayMessagesTold ==
    ASSUME NEW msg \in GatewayMessages
    PROVE  IsTold(msg) /\ HasRoom(msg)
<1>1. CASE msg \in [type : {"ADVERTISE"}, gwID : Bit, duration : Ids]
  BY <1>1, IdIsWord, AdvertiseTold
<1>2. CASE msg \in [type : {"GWINFO"}, gwID : Bit, address : {<<>>}]
  BY <1>2, GwinfoTold
<1>3. CASE msg \in [type : {"WILLTOPICREQ", "WILLMSGREQ", "PINGRESP"}]
  BY <1>3, EmptyTold
<1>4. CASE msg \in [type : {"WILLTOPICRESP", "WILLMSGRESP"}, rc : 0 .. 3]
  BY <1>4, WillRespTold
<1>5. CASE msg \in [type : {"DISCONNECT"}, duration : Ids \cup {0}]
  <2>1. msg \in [type : {"DISCONNECT"}, duration : Word]
    BY <1>5, IdIsWord, SmallWord
  <2> QED BY <2>1, DisconnectTold
<1>6. CASE msg \in [type : {"SUBACK"}, qos : Qos, topicID : Ids, msgID : Ids, rc : 0 .. 3]
  BY <1>6, IdIsWord, SubackTold
<1>7. CASE msg \in [type : {"REGISTER"}, topicID : Ids, msgID : Ids, name : Texts]
  <2>1. msg.name \in Texts
    BY <1>7
  <2> QED BY <1>7, <2>1, IdIsWord, TextsAreTexts, ShorterTexts, RegisterTold
<1>8. CASE msg \in AcksWithTopic
  BY <1>8, IdIsWord, AckWithTopicTold DEF AcksWithTopic
<1>9. CASE msg \in Acks({"PUBREC", "PUBREL", "PUBCOMP", "UNSUBACK"})
  BY <1>9, IdIsWord, AckTold DEF Acks
<1> QED BY <1>1, <1>2, <1>3, <1>4, <1>5, <1>6, <1>7, <1>8, <1>9 DEF GatewayMessages

----------------------------------------------------------------------------
(* The header of a forwarder. *)

\* A forwarder's header comes off again, with the node it names.
LEMMA HeaderComesOff ==
    ASSUME NEW node \in Octets, 1 <= Len(node), NEW p \in Octets
    PROVE  /\ Gw!Desirialize(Gw!Encapsulate(0, node, p)).nodeID = node
           /\ Gw!Desirialize(Gw!Encapsulate(0, node, p)).packet = p
<1> DEFINE l == Len(node) + 3
           h == <<l, Gw!Code["ENCAPSULATED"], 0>>
           g == h \o node
           s == g \o p
<1>1. Len(node) \in Nat /\ Gw!Code["ENCAPSULATED"] \in Nat
  BY LenIsNat DEF Gw!Code
<1>2. h \in Octets /\ Len(h) = 3
  BY <1>1 DEF Octets
<1>3. h[1] = l
  OBVIOUS
<1>4. Gw!Encapsulate(0, node, p) = s
  BY DEF Gw!Encapsulate
<1> HIDE DEF h
<1>5. g \in Octets /\ Len(g) = l
  <2>1. g \in Octets /\ Len(g) = Len(h) + Len(node)
    BY <1>2, Both
  <2> QED BY <1>1, <1>2, <2>1
<1>6. Part(g, 4, l) = node
  <2>1. From(g, Len(h) + 1) = node
    BY <1>2, Second
  <2>2. Len(h) + 1 = 4
    BY <1>2
  <2> QED BY <1>5, <2>1, <2>2 DEF From, Part
<1>7. g[1] = l
  <2>1. 1 \in Nat /\ 1 <= 1 /\ 1 <= Len(h)
    BY <1>2
  <2>2. g[1] = h[1]
    BY <1>2, <2>1, InFirst
  <2> QED BY <1>3, <2>2
<1> HIDE DEF g
<1>8. s[1] = l
  <2>1. 1 \in Nat /\ 1 <= 1 /\ 1 <= Len(g)
    BY <1>1, <1>5
  <2>2. s[1] = g[1]
    BY <1>5, <2>1, InFirst
  <2> QED BY <1>7, <2>2
<1>9. Part(s, 4, l) = node
  <2>1. 4 \in 1 .. Len(g) /\ l \in 1 .. Len(g)
    BY <1>1, <1>5
  <2> HIDE DEF l
  <2>2. SubSeq(s, 4, l) = SubSeq(g, 4, l)
    BY <1>5, <2>1, PartOfFirst
  <2> QED BY <1>6, <2>2 DEF Part
<1>10. From(s, l + 1) = p
  <2>1. From(s, Len(g) + 1) = p
    BY <1>5, Second
  <2> QED BY <1>5, <2>1
<1> HIDE DEF s, l
<1>11. Gw!Desirialize(s) = [ctrl |-> s[3], nodeID |-> Part(s, 4, s[1]), packet |-> From(s, s[1] + 1)]
  BY SameForGateway DEF Gw!Desirialize, Part
<1>12. Part(s, 4, s[1]) = node /\ From(s, s[1] + 1) = p
  BY <1>8, <1>9, <1>10
<1> QED BY <1>4, <1>11, <1>12

----------------------------------------------------------------------------
(* What the gateway takes from a packet it has not read. *)

\* The body of a PUBLISH without a long name, around its message id.
LEMMA PublishShape ==
    ASSUME NEW topic, IsTwoOctets(topic), NEW msg \in PublishSet(topic),
           ~Client!LongName(msg.qos, topic)
    PROVE  /\ IdHead(msg) \in Octets /\ Len(IdHead(msg)) = 3 /\ IdTail(msg) \in Octets
           /\ IdHead(msg)[1] = Flags(msg.dup, msg.qos, msg.retain, topic.kind)
           /\ PublishBody(msg) = WithId(msg, msg.msgID)
<1> DEFINE f == Flags(msg.dup, msg.qos, msg.retain, topic.kind)
           id == TwoOctets(topic)
           h == <<f>> \o id
           w == writeInt(msg.msgID)
           e == <<>>
           t == msg.payload
<1>1. msg.topic = topic /\ msg.type = "PUBLISH" /\ t \in Octets /\ msg.msgID \in Word
  BY DEF PublishSet, AnyText
<1>2. id \in Octets /\ Len(id) = 2 /\ topic.kind \in 0 .. 2
  <2>1. CASE topic \in [kind : {NORMAL, PREDEFINED}, id : Word, name : {<<>>}]
    <3>1. topic.kind # SHORT /\ topic.id \in Word /\ topic.kind \in 0 .. 2
      BY <2>1 DEF NORMAL, PREDEFINED, SHORT
    <3>2. writeInt(topic.id) \in Octets /\ Len(writeInt(topic.id)) = 2
      BY <3>1, IntOctets
    <3> QED BY <3>1, <3>2 DEF TwoOctets
  <2>2. CASE topic \in [kind : {SHORT}, id : {0}, name : {u \in Octets : Len(u) = 2}]
    BY <2>2 DEF TwoOctets, SHORT
  <2> QED BY <2>1, <2>2 DEF IsTwoOctets
<1>3. f \in Nat
  BY <1>2, PublishFlags
<1>4. w \in Octets /\ e \in Octets
  BY <1>1, IntOctets DEF Octets
<1> HIDE DEF id, f
<1>5. h \in Octets /\ Len(h) = 3 /\ h[1] = f
  BY <1>2, <1>3, PublishHead
<1> HIDE DEF w, e, t, h
<1>6. IdHead(msg) = h /\ IdTail(msg) = e \o t
  BY <1>1 DEF IdHead, IdTail, f, id, h, e, t
<1>7. e \o t \in Octets
  BY <1>1, <1>4, Both
<1>8. h \o w \o e \o t = h \o w \o (e \o t)
  <2>1. h \o w \in Octets
    BY <1>4, <1>5, Both
  <2> DEFINE g == h \o w
  <2> HIDE DEF g
  <2>2. g \o (e \o t) = (g \o e) \o t
    BY <1>1, <1>4, <2>1, Associative DEF g
  <2> QED BY <2>2 DEF g
<1>9. PublishBody(msg) = h \o w \o e \o t
  BY <1>1 DEF PublishBody, f, id, h, w, e, t
<1>10. WithId(msg, msg.msgID) = h \o w \o (e \o t)
  BY <1>6 DEF WithId, Holding, w
<1> QED BY <1>5, <1>6, <1>7, <1>8, <1>9, <1>10 DEF f

\* What the gateway finds of a packet it does not read.
LEMMA FrontIsKnown ==
    ASSUME NEW type, Code[type] \in Nat, NEW b \in Octets, Fits(b)
    PROVE  /\ Gw!TypeOf(Packet(type, b)) = Code[type]
           /\ Gw!MQTTSNPacket_decode(Packet(type, b)).rc = TypeAt(b) - 1
           /\ TypeAt(b) \in {2, 4}
           /\ Len(Packet(type, b)) = TypeAt(b) + Len(b)
           /\ 1 <= Len(b) => Packet(type, b)[TypeAt(b) + 1] = b[1]
<1> DEFINE s == Packet(type, b)
           k == TypeAt(b)
<1>1. b \in Bodies
  BY Carried DEF Fits
<1>2. s \in Octets /\ Len(s) = k + Len(b) /\ k \in {2, 4}
  BY <1>1, PacketParts
<1>3. MQTTSNPacket_decode(s).rc = k - 1
  BY <1>1, PacketParts
<1>4. TypeOf(s) = Code[type] /\ From(s, k + 1) = b
  BY <1>1, PacketParts
<1> HIDE DEF s, k
<1>5. ASSUME 1 <= Len(b)
      PROVE  s[k + 1] = b[1]
  <2>1. Len(b) \in Nat /\ k + 1 \in Nat /\ Len(s) \in Nat
    BY <1>2, LenIsNat
  <2>2. 1 \in 1 .. Len(s) - (k + 1) + 1 /\ k + 1 + 1 - 1 = k + 1
    BY <1>2, <1>5, <2>1
  <2>3. SubSeq(s, k + 1, Len(s))[1] = s[k + 1 + 1 - 1]
    BY ONLY <1>2, <2>1, <2>2, SMTT(60) DEF Octets
  <2>4. SubSeq(s, k + 1, Len(s)) = b
    BY <1>4, Zenon DEF From
  <2> QED BY <2>2, <2>3, <2>4, Zenon
<1> QED BY <1>2, <1>3, <1>4, <1>5, SameForGateway DEF s, k

\* Where it looks for the message id.
LEMMA PlaceIsKnown ==
    ASSUME NEW type, Code[type] \in Nat, NEW b \in Octets, Fits(b)
    PROVE  /\ type = "PUBLISH" => Gw!MsgIdPlace(Packet(type, b)) = TypeAt(b) + 4
           /\ type \in {"SUBSCRIBE", "UNSUBSCRIBE"} =>
                Gw!MsgIdPlace(Packet(type, b)) = TypeAt(b) + 2
           /\ type \in {"PUBACK", "REGACK", "REGISTER"} => Gw!MsgIdPlace(Packet(type, b)) = 5
           /\ type \in {"PUBREC", "PUBREL", "PUBCOMP"} => Gw!MsgIdPlace(Packet(type, b)) = 3
<1> DEFINE s == Packet(type, b)
           k == TypeAt(b)
<1>1. Gw!TypeOf(s) = Code[type] /\ Gw!MQTTSNPacket_decode(s).rc = k - 1 /\ k \in {2, 4}
  BY FrontIsKnown
<1>2. k - 1 + 5 = k + 4 /\ k - 1 + 3 = k + 2
  BY <1>1
<1> HIDE DEF s, k
<1>3. Gw!Code = Code
  BY SameForGateway
<1>4. ASSUME type = "PUBLISH"
      PROVE  Gw!MsgIdPlace(s) = k + 4
  BY <1>1, <1>2, <1>3, <1>4 DEF Gw!MsgIdPlace, Code
<1>5. ASSUME type \in {"SUBSCRIBE", "UNSUBSCRIBE"}
      PROVE  Gw!MsgIdPlace(s) = k + 2
  BY <1>1, <1>2, <1>3, <1>5 DEF Gw!MsgIdPlace, Code
<1>6. ASSUME type \in {"PUBACK", "REGACK", "REGISTER"}
      PROVE  Gw!MsgIdPlace(s) = 5
  BY <1>1, <1>3, <1>6 DEF Gw!MsgIdPlace, Code
<1>7. ASSUME type \in {"PUBREC", "PUBREL", "PUBCOMP"}
      PROVE  Gw!MsgIdPlace(s) = 3
  BY <1>1, <1>3, <1>7 DEF Gw!MsgIdPlace, Code
<1> QED BY <1>4, <1>5, <1>6, <1>7 DEF s, k

\* The message id is what the gateway takes from the packet, and what it puts there is what a
\* reader finds.
IdKnown(msg) ==
    ~Cut(ClientWriter(msg)) =>
        /\ Gw!GetMsgId(ClientWriter(msg)) = msg.msgID
        /\ \A i \in Word :
              Gw!GetPacket(Gw!SetMsgId(ClientWriter(msg), i)) = [msg EXCEPT !.msgID = i]

\* What the gateway reads of a message with the id i.
ReadWithId(msg, i) ==
    ~Cut(Packet(msg.type, WithId(msg, i))) =>
        Gw!GetPacket(Packet(msg.type, WithId(msg, i))) = [msg EXCEPT !.msgID = i]

\* The id is known when it is where the gateway looks for it.
LEMMA IdIsKnown ==
    ASSUME NEW msg, Code[msg.type] \in Nat, msg.msgID \in Word, Written(msg),
           Gw!MsgIdPlace(Packet(msg.type, WithId(msg, msg.msgID)))
             = TypeAt(WithId(msg, msg.msgID)) + Len(IdHead(msg)) + 1,
           \A i \in Word : ReadWithId(msg, i)
    PROVE  IdKnown(msg)
<1> DEFINE type == msg.type
           h == IdHead(msg)
           t == IdTail(msg)
           n == msg.msgID
           b == Holding(h, n, t)
           s == Packet(type, b)
           p == TypeAt(b) + Len(h) + 1
<1>1. h \in Octets /\ t \in Octets /\ n \in Word /\ Code[type] \in Nat
  BY DEF Written
<1>2. Fits(b) /\ ClientWriter(msg) = s
  BY DEF Written, WithId
<1>3. Gw!MsgIdPlace(s) = p
  BY DEF WithId
<1>4. ASSUME NEW i \in Word
      PROVE  ReadWithId(msg, i)
  OBVIOUS
<1> HIDE DEF h, t, n, type
<1>5. b \in Octets
  BY <1>1, HoldingParts
<1>6. p # 0
  <2>1. TypeAt(b) \in {2, 4} /\ Len(h) \in Nat
    BY <1>1, <1>2, <1>5, FrontIsKnown, LenIsNat
  <2> QED BY <2>1
<1>7. ASSUME NEW i \in Word
      PROVE  /\ readInt(s, p) = n
             /\ [s EXCEPT ![p] = i \div 256, ![p + 1] = i % 256] = Packet(type, Holding(h, i, t))
             /\ Len(Holding(h, i, t)) = Len(b)
  BY <1>1, <1>2, IdInPacket
<1> HIDE DEF b, p
<1>8. Gw!GetMsgId(s) = n
  <2>1. readInt(s, p) = n
    BY <1>1, <1>7
  <2> QED BY <1>3, <1>6, <2>1, SameForGateway DEF Gw!GetMsgId
<1>9. ASSUME NEW i \in Word
      PROVE  Gw!SetMsgId(s, i) = Packet(type, Holding(h, i, t))
  BY <1>3, <1>6, <1>7 DEF Gw!SetMsgId
<1>10. ASSUME NEW i \in Word
       PROVE  Len(Packet(type, Holding(h, i, t))) = Len(s)
  <2>1. Holding(h, i, t) \in Octets /\ Len(Holding(h, i, t)) = Len(b)
    BY <1>1, <1>7, HoldingParts
  <2>2. Fits(Holding(h, i, t)) /\ TypeAt(Holding(h, i, t)) = TypeAt(b)
    BY <1>2, <2>1 DEF Fits, TypeAt
  <2>3. Len(Packet(type, Holding(h, i, t))) = TypeAt(Holding(h, i, t)) + Len(Holding(h, i, t))
    BY <1>1, <2>1, <2>2, FrontIsKnown
  <2>4. Len(s) = TypeAt(b) + Len(b)
    BY <1>1, <1>2, <1>5, FrontIsKnown
  <2> QED BY <2>1, <2>2, <2>3, <2>4
<1> HIDE DEF s
<1>11. ASSUME ~Cut(s), NEW i \in Word
       PROVE  Gw!GetPacket(Gw!SetMsgId(s, i)) = [msg EXCEPT !.msgID = i]
  <2>1. ~Cut(Packet(type, Holding(h, i, t)))
    BY <1>10, <1>11 DEF Cut
  <2>2. Gw!GetPacket(Packet(type, Holding(h, i, t))) = [msg EXCEPT !.msgID = i]
    BY <1>4, <2>1 DEF ReadWithId, WithId, h, t, type
  <2> QED BY <1>9, <2>2
<1> QED BY <1>2, <1>8, <1>11 DEF IdKnown, n

\* A message with another id is read as it is when a client sends it.
LEMMA ReadAsSent ==
    ASSUME NEW msg, NEW i \in Word, NEW p, p = [msg EXCEPT !.msgID = i], Arrives(p, p), Written(p),
           p.type = msg.type, p.msgID = i, IdHead(p) = IdHead(msg), IdTail(p) = IdTail(msg)
    PROVE  ReadWithId(msg, i)
<1>1. ClientWriter(p) = Packet(msg.type, WithId(msg, i))
  BY DEF Written, WithId
<1>2. ~Cut(ClientWriter(p)) => Gw!GetPacket(ClientWriter(p)) = p
  BY DEF Arrives
<1> QED BY <1>1, <1>2 DEF ReadWithId

\* The id of a SUBSCRIBE.
LEMMA SubscribeId ==
    ASSUME NEW topic, IsFilter(topic),
           NEW msg \in [type : {"SUBSCRIBE"}, dup : Bit, qos : Qos, msgID : Word, topic : {topic}]
    PROVE  Written(msg) /\ IdKnown(msg)
<1>1. Written(msg) /\ msg.type = "SUBSCRIBE" /\ msg.msgID \in Word /\ Code[msg.type] \in Nat
  BY SubscribeArrives DEF Code
<1>2. Len(IdHead(msg)) = 1
  BY <1>1 DEF IdHead
<1>3. ASSUME NEW i \in Word
      PROVE  ReadWithId(msg, i)
  <2> DEFINE p == [msg EXCEPT !.msgID = i]
  <2>1. p \in [type : {"SUBSCRIBE"}, dup : Bit, qos : Qos, msgID : Word, topic : {topic}]
    OBVIOUS
  <2>2. /\ p.type = msg.type /\ p.msgID = i /\ p.dup = msg.dup /\ p.qos = msg.qos
        /\ p.topic = msg.topic
    OBVIOUS
  <2> HIDE DEF p
  <2>3. Arrives(p, p) /\ Written(p)
    BY <2>1, SubscribeArrives
  <2>4. IdHead(p) = IdHead(msg) /\ IdTail(p) = IdTail(msg)
    BY <1>1, <2>2 DEF IdHead, IdTail
  <2> QED BY <2>2, <2>3, <2>4, ReadAsSent DEF p
<1>4. Gw!MsgIdPlace(Packet(msg.type, WithId(msg, msg.msgID)))
        = TypeAt(WithId(msg, msg.msgID)) + Len(IdHead(msg)) + 1
  <2> DEFINE b == WithId(msg, msg.msgID)
  <2>1. b \in Octets /\ Fits(b)
    BY <1>1, HoldingParts DEF Written, WithId
  <2> HIDE DEF b
  <2>2. Gw!MsgIdPlace(Packet(msg.type, b)) = TypeAt(b) + 2 /\ TypeAt(b) \in {2, 4}
    BY <1>1, <2>1, PlaceIsKnown, FrontIsKnown
  <2>3. TypeAt(b) + 2 = TypeAt(b) + 1 + 1
    BY <2>2
  <2> QED BY <1>2, <2>2, <2>3 DEF b
<1> QED BY <1>1, <1>3, <1>4, IdIsKnown

\* Of an UNSUBSCRIBE.
LEMMA UnsubscribeId ==
    ASSUME NEW topic, IsFilter(topic),
           NEW msg \in [type : {"UNSUBSCRIBE"}, msgID : Word, topic : {topic}]
    PROVE  Written(msg) /\ IdKnown(msg)
<1>1. Written(msg) /\ msg.type = "UNSUBSCRIBE" /\ msg.msgID \in Word /\ Code[msg.type] \in Nat
  BY UnsubscribeArrives DEF Code
<1>2. Len(IdHead(msg)) = 1
  BY <1>1 DEF IdHead
<1>3. ASSUME NEW i \in Word
      PROVE  ReadWithId(msg, i)
  <2> DEFINE p == [msg EXCEPT !.msgID = i]
  <2>1. p \in [type : {"UNSUBSCRIBE"}, msgID : Word, topic : {topic}]
    OBVIOUS
  <2>2. p.type = msg.type /\ p.msgID = i /\ p.topic = msg.topic
    OBVIOUS
  <2> HIDE DEF p
  <2>3. Arrives(p, p) /\ Written(p)
    BY <2>1, UnsubscribeArrives
  <2>4. IdHead(p) = IdHead(msg) /\ IdTail(p) = IdTail(msg)
    BY <1>1, <2>2 DEF IdHead, IdTail
  <2> QED BY <2>2, <2>3, <2>4, ReadAsSent DEF p
<1>4. Gw!MsgIdPlace(Packet(msg.type, WithId(msg, msg.msgID)))
        = TypeAt(WithId(msg, msg.msgID)) + Len(IdHead(msg)) + 1
  <2> DEFINE b == WithId(msg, msg.msgID)
  <2>1. b \in Octets /\ Fits(b)
    BY <1>1, HoldingParts DEF Written, WithId
  <2> HIDE DEF b
  <2>2. Gw!MsgIdPlace(Packet(msg.type, b)) = TypeAt(b) + 2 /\ TypeAt(b) \in {2, 4}
    BY <1>1, <2>1, PlaceIsKnown, FrontIsKnown
  <2>3. TypeAt(b) + 2 = TypeAt(b) + 1 + 1
    BY <2>2
  <2> QED BY <1>2, <2>2, <2>3 DEF b
<1> QED BY <1>1, <1>3, <1>4, IdIsKnown

\* A packet of fewer than 256 octets has a length of one octet.
LEMMA ShortFront ==
    ASSUME NEW type, Code[type] \in Nat, NEW b \in Octets, Fits(b), Len(Packet(type, b)) < 256
    PROVE  TypeAt(b) = 2
<1>1. Len(Packet(type, b)) = TypeAt(b) + Len(b) /\ TypeAt(b) \in {2, 4} /\ Len(b) \in Nat
  BY FrontIsKnown, LenIsNat
<1>2. Len(b) < 254
  BY <1>1
<1> QED BY <1>1, <1>2 DEF TypeAt, Width, MQTTSNPacket_len

\* Of a PUBACK, a REGACK or a REGISTER that is short enough: it is looked for at a fixed place.
LEMMA FixedId ==
    ASSUME NEW msg,
           \/ msg \in [type : {"PUBACK", "REGACK"}, topicID : Word, msgID : Word, rc : Nat]
           \/ msg \in [type : {"REGISTER"}, topicID : Word, msgID : Word, name : AnyText],
           Len(ClientWriter(msg)) < 256
    PROVE  IdKnown(msg)
<1> DEFINE PA == [type : {"PUBACK", "REGACK"}, topicID : Word, msgID : Word, rc : Nat]
           RG == [type : {"REGISTER"}, topicID : Word, msgID : Word, name : AnyText]
<1>1. /\ Written(msg) /\ msg.type \in {"PUBACK", "REGACK", "REGISTER"} /\ msg.msgID \in Word
      /\ msg.topicID \in Word
  <2>1. CASE msg \in PA
    BY <2>1, AckWithTopicArrives
  <2>2. CASE msg \in RG
    BY <2>2, RegisterArrives
  <2> QED BY <2>1, <2>2
<1>2. Len(IdHead(msg)) = 2 /\ Code[msg.type] \in Nat
  <2>1. IdHead(msg) = writeInt(msg.topicID)
    BY <1>1 DEF IdHead
  <2>2. Len(IdHead(msg)) = 2
    BY <1>1, <2>1, IntOctets
  <2>3. msg.type \in {"PUBACK", "REGACK", "REGISTER"}
    BY <1>1
  <2>4. Code["PUBACK"] \in Nat /\ Code["REGACK"] \in Nat /\ Code["REGISTER"] \in Nat
    BY DEF Code
  <2>5. Code[msg.type] \in Nat
    BY <2>3, <2>4
  <2> QED BY <2>2, <2>5
<1>3. ASSUME NEW i \in Word
      PROVE  ReadWithId(msg, i)
  <2> DEFINE p == [msg EXCEPT !.msgID = i]
  <2>1. CASE msg \in PA
    <3>1. p \in PA /\ p.type = msg.type /\ p.msgID = i /\ p.topicID = msg.topicID /\ p.rc = msg.rc
      BY <2>1
    <3> HIDE DEF p
    <3>2. Arrives(p, p) /\ Written(p)
      BY <3>1, AckWithTopicArrives
    <3>3. msg.type \in {"PUBACK", "REGACK"}
      BY <2>1
    <3>4. IdHead(p) = IdHead(msg) /\ IdTail(p) = IdTail(msg)
      BY <3>1, <3>3 DEF IdHead, IdTail
    <3> QED BY <3>1, <3>2, <3>4, ReadAsSent DEF p
  <2>2. CASE msg \in RG
    <3>1. p \in RG /\ p.type = msg.type /\ p.msgID = i /\ p.topicID = msg.topicID /\ p.name = msg.name
      BY <2>2
    <3> HIDE DEF p
    <3>2. Arrives(p, p) /\ Written(p)
      BY <3>1, RegisterArrives
    <3>3. msg.type = "REGISTER"
      BY <2>2
    <3>4. IdHead(p) = IdHead(msg) /\ IdTail(p) = IdTail(msg)
      BY <3>1, <3>3 DEF IdHead, IdTail
    <3> QED BY <3>1, <3>2, <3>4, ReadAsSent DEF p
  <2> QED BY <2>1, <2>2
<1>4. Gw!MsgIdPlace(Packet(msg.type, WithId(msg, msg.msgID)))
        = TypeAt(WithId(msg, msg.msgID)) + Len(IdHead(msg)) + 1
  <2> DEFINE b == WithId(msg, msg.msgID)
  <2>1. b \in Octets /\ Fits(b) /\ ClientWriter(msg) = Packet(msg.type, b)
    BY <1>1, HoldingParts DEF Written, WithId
  <2> HIDE DEF b
  <2>2. Gw!MsgIdPlace(Packet(msg.type, b)) = 5
    BY <1>1, <1>2, <2>1, PlaceIsKnown
  <2>3. Len(Packet(msg.type, b)) < 256
    BY <2>1
  <2>4. TypeAt(b) = 2
    BY <1>2, <2>1, <2>3, ShortFront
  <2>5. 5 = TypeAt(b) + Len(IdHead(msg)) + 1
    BY <1>2, <2>4
  <2> QED BY <2>2, <2>5 DEF b
<1> QED BY <1>1, <1>2, <1>3, <1>4, IdIsKnown

\* Of a PUBREC, a PUBREL or a PUBCOMP.
LEMMA AckId ==
    ASSUME NEW msg \in [type : {"PUBREC", "PUBREL", "PUBCOMP"}, msgID : Word]
    PROVE  Written(msg) /\ IdKnown(msg)
<1>1. Written(msg) /\ msg.type \in {"PUBREC", "PUBREL", "PUBCOMP"} /\ msg.msgID \in Word
  BY AckArrives
<1>2. Code[msg.type] \in Nat
  BY <1>1 DEF Code
<1>a. Len(IdHead(msg)) = 0 /\ Len(IdTail(msg)) = 0
  BY <1>1 DEF IdHead, IdTail
<1>3. ASSUME NEW i \in Word
      PROVE  ReadWithId(msg, i)
  <2> DEFINE p == [msg EXCEPT !.msgID = i]
  <2>1. p \in [type : {"PUBREC", "PUBREL", "PUBCOMP"}, msgID : Word]
    OBVIOUS
  <2>2. p.type = msg.type /\ p.msgID = i
    OBVIOUS
  <2> HIDE DEF p
  <2>3. Arrives(p, p) /\ Written(p)
    BY <2>1, AckArrives
  <2>4. IdHead(p) = IdHead(msg) /\ IdTail(p) = IdTail(msg)
    BY <1>1, <2>2 DEF IdHead, IdTail
  <2> QED BY <2>2, <2>3, <2>4, ReadAsSent DEF p
<1>4. Gw!MsgIdPlace(Packet(msg.type, WithId(msg, msg.msgID)))
        = TypeAt(WithId(msg, msg.msgID)) + Len(IdHead(msg)) + 1
  <2> DEFINE b == WithId(msg, msg.msgID)
  <2>1. b \in Octets /\ Fits(b) /\ Len(b) = Len(IdHead(msg)) + 2 + Len(IdTail(msg))
    BY <1>1, HoldingParts DEF Written, WithId
  <2> HIDE DEF b
  <2>2. Gw!MsgIdPlace(Packet(msg.type, b)) = 3
    BY <1>1, <1>2, <2>1, PlaceIsKnown
  <2>3. TypeAt(b) = 2
    BY <1>a, <2>1 DEF TypeAt, Width, MQTTSNPacket_len
  <2>4. 3 = TypeAt(b) + Len(IdHead(msg)) + 1
    BY <1>a, <2>3
  <2> QED BY <2>2, <2>4 DEF b
<1> QED BY <1>1, <1>2, <1>3, <1>4, IdIsKnown

\* A PUBLISH with another id.
LEMMA OtherPublish ==
    ASSUME NEW topic, NEW msg \in PublishSet(topic), NEW i \in Word
    PROVE  LET p == [msg EXCEPT !.msgID = i]
           IN  /\ p \in PublishSet(topic) /\ p.type = "PUBLISH" /\ msg.type = "PUBLISH"
               /\ p.msgID = i /\ p.qos = msg.qos /\ p.topic = topic /\ msg.topic = topic
               /\ IdHead(p) = IdHead(msg) /\ IdTail(p) = IdTail(msg)
<1> DEFINE p == [msg EXCEPT !.msgID = i]
<1>1. /\ p \in PublishSet(topic) /\ p.type = "PUBLISH" /\ msg.type = "PUBLISH" /\ p.msgID = i
      /\ p.dup = msg.dup /\ p.qos = msg.qos /\ p.retain = msg.retain /\ p.payload = msg.payload
      /\ p.topic = topic /\ msg.topic = topic
  BY DEF PublishSet
<1> HIDE DEF p
<1>2. IdHead(p) = IdHead(msg) /\ IdTail(p) = IdTail(msg)
  BY <1>1 DEF IdHead, IdTail
<1> QED BY <1>1, <1>2 DEF p

\* The id of a PUBLISH is looked for behind three octets.
LEMMA PublishPlace ==
    ASSUME NEW msg, msg.type = "PUBLISH", msg.msgID \in Word, Written(msg), Len(IdHead(msg)) = 3
    PROVE  /\ Code[msg.type] \in Nat
           /\ Gw!MsgIdPlace(Packet(msg.type, WithId(msg, msg.msgID)))
                = TypeAt(WithId(msg, msg.msgID)) + Len(IdHead(msg)) + 1
<1> DEFINE b == WithId(msg, msg.msgID)
<1>1. b \in Octets /\ Fits(b)
  BY HoldingParts DEF Written, WithId
<1>2. Code[msg.type] \in Nat
  BY DEF Code
<1> HIDE DEF b
<1>3. Gw!MsgIdPlace(Packet(msg.type, b)) = TypeAt(b) + 4 /\ TypeAt(b) \in {2, 4}
  BY <1>1, <1>2, PlaceIsKnown, FrontIsKnown
<1>4. TypeAt(b) + 4 = TypeAt(b) + Len(IdHead(msg)) + 1
  BY <1>3
<1> QED BY <1>2, <1>3, <1>4 DEF b

\* With a topic of two octets.
LEMMA PublishId ==
    ASSUME NEW topic, IsTwoOctets(topic), NEW msg \in PublishSet(topic),
           msg.qos = 0 => msg.msgID = 0, ~Client!LongName(msg.qos, topic)
    PROVE  /\ Written(msg) /\ IdKnown(msg)
           /\ Len(IdHead(msg)) = 3
           /\ IdHead(msg)[1] = Flags(msg.dup, msg.qos, msg.retain, topic.kind)
<1>1. msg.type = "PUBLISH" /\ msg.msgID \in Word
  BY DEF PublishSet
<1>2. /\ IdHead(msg) \in Octets /\ IdTail(msg) \in Octets /\ Len(IdHead(msg)) = 3
      /\ PublishBody(msg) = WithId(msg, msg.msgID)
      /\ IdHead(msg)[1] = Flags(msg.dup, msg.qos, msg.retain, topic.kind)
  BY PublishShape
<1>3. Written(msg)
  <2>1. ClientWriter(msg) = Packet("PUBLISH", PublishBody(msg))
    BY PublishArrives
  <2>2. Len(PublishBody(msg)) <= 3000
    BY PublishIsRead
  <2> QED BY <1>1, <1>2, <2>1, <2>2 DEF Written, Fits
<1>4. ASSUME NEW i \in Word
      PROVE  ReadWithId(msg, i)
  <2> DEFINE p == [msg EXCEPT !.msgID = i]
  <2>1. /\ p \in PublishSet(topic) /\ p.type = "PUBLISH" /\ p.msgID = i /\ p.qos = msg.qos
        /\ IdHead(p) = IdHead(msg) /\ IdTail(p) = IdTail(msg)
    BY OtherPublish
  <2> HIDE DEF p
  <2>2. ~Client!LongName(p.qos, topic)
    BY <2>1
  <2>3. ~Cut(Packet("PUBLISH", PublishBody(p))) => Gw!GetPacket(Packet("PUBLISH", PublishBody(p))) = p
    BY <2>1, <2>2, PublishIsRead
  <2>4. PublishBody(p) = WithId(p, p.msgID)
    BY <2>1, <2>2, PublishShape
  <2>5. WithId(p, p.msgID) = WithId(msg, i)
    BY <2>1 DEF WithId
  <2> QED BY <1>1, <2>3, <2>4, <2>5 DEF ReadWithId, p
<1>5. /\ Code[msg.type] \in Nat
      /\ Gw!MsgIdPlace(Packet(msg.type, WithId(msg, msg.msgID)))
           = TypeAt(WithId(msg, msg.msgID)) + Len(IdHead(msg)) + 1
  BY <1>1, <1>2, <1>3, PublishPlace
<1>6. IdKnown(msg)
  BY <1>1, <1>3, <1>4, <1>5, IdIsKnown
<1> QED BY <1>2, <1>3, <1>6

\* With a long name.
LEMMA PublishLongId ==
    ASSUME NEW topic \in [kind : {NORMAL}, id : {0}, name : AnyText \ {<<>>}],
           NEW msg \in PublishSet(topic), msg.qos = 3
    PROVE  /\ Written(msg) /\ IdKnown(msg)
           /\ Len(IdHead(msg)) = 3
           /\ IdHead(msg)[1] = Flags(msg.dup, msg.qos, msg.retain, topic.kind)
<1>1. msg.type = "PUBLISH" /\ msg.msgID \in Word
  BY DEF PublishSet
<1>2. /\ Written(msg) /\ Len(IdHead(msg)) = 3
      /\ IdHead(msg)[1] = Flags(msg.dup, msg.qos, msg.retain, topic.kind)
  BY PublishLongArrives
<1>3. ASSUME NEW i \in Word
      PROVE  ReadWithId(msg, i)
  <2> DEFINE p == [msg EXCEPT !.msgID = i]
  <2>1. /\ p \in PublishSet(topic) /\ p.type = "PUBLISH" /\ p.msgID = i /\ p.qos = msg.qos
        /\ IdHead(p) = IdHead(msg) /\ IdTail(p) = IdTail(msg)
    BY OtherPublish
  <2> HIDE DEF p
  <2>2. Arrives(p, p) /\ Written(p)
    BY <2>1, PublishLongArrives
  <2>3. p.type = msg.type
    BY <1>1, <2>1
  <2> QED BY <2>1, <2>2, <2>3, ReadAsSent DEF p
<1>4. /\ Code[msg.type] \in Nat
      /\ Gw!MsgIdPlace(Packet(msg.type, WithId(msg, msg.msgID)))
           = TypeAt(WithId(msg, msg.msgID)) + Len(IdHead(msg)) + 1
  BY <1>1, <1>2, PublishPlace
<1>5. IdKnown(msg)
  BY <1>1, <1>2, <1>3, <1>4, IdIsKnown
<1> QED BY <1>2, <1>5

\* The octet behind the type.
LEMMA FlagOctet ==
    ASSUME NEW msg, Code[msg.type] \in Nat, msg.msgID \in Word, Written(msg),
           1 <= Len(IdHead(msg))
    PROVE  /\ ClientWriter(msg)[Gw!MQTTSNPacket_decode(ClientWriter(msg)).rc + 2] = IdHead(msg)[1]
           /\ Gw!TypeOf(ClientWriter(msg)) = Code[msg.type]
<1> DEFINE h == IdHead(msg)
           b == WithId(msg, msg.msgID)
           s == Packet(msg.type, b)
<1>1. ClientWriter(msg) = s /\ h \in Octets /\ IdTail(msg) \in Octets /\ Fits(b)
  BY DEF Written
<1>2. b \in Octets /\ Len(b) = Len(h) + 2 + Len(IdTail(msg))
  BY <1>1, HoldingParts DEF WithId
<1>3. b[1] = h[1]
  <2>1. 1 \in Nat /\ 1 <= 1 /\ 1 <= Len(h)
    OBVIOUS
  <2> HIDE DEF h
  <2>2. (h \o writeInt(msg.msgID) \o IdTail(msg))[1] = h[1]
    BY <1>1, <2>1, BeforeInt
  <2> QED BY <2>2 DEF WithId, Holding, h
<1>4. 1 <= Len(b)
  <2>1. Len(h) \in Nat /\ Len(IdTail(msg)) \in Nat
    BY <1>1, LenIsNat
  <2> QED BY <1>2, <2>1
<1> HIDE DEF b
<1>5. /\ Gw!TypeOf(s) = Code[msg.type] /\ Gw!MQTTSNPacket_decode(s).rc = TypeAt(b) - 1
      /\ TypeAt(b) \in {2, 4} /\ s[TypeAt(b) + 1] = b[1]
  BY <1>1, <1>2, <1>4, FrontIsKnown
<1>6. TypeAt(b) - 1 + 2 = TypeAt(b) + 1
  BY <1>5
<1> QED BY <1>1, <1>3, <1>5, <1>6 DEF h

\* The first bit of the flags, and the QoS.
LEMMA DupAndQos ==
    ASSUME NEW dup \in Bit, NEW qos \in 0 .. 3, NEW retain \in Bit, NEW kind \in 0 .. 2
    PROVE  /\ Flags(dup, qos, retain, kind) >= 128 <=> dup = 1
           /\ FlagsOf(Flags(dup, qos, retain, kind)).qos = qos
<1>1. Flags(dup, qos, retain, kind) >= 128 <=> dup = 1
  BY DEF Flags, Bit
<1> QED BY <1>1, Flagged

\* What the gateway takes from the flags without reading the message.
LEMMA FlagsKnown ==
    ASSUME NEW msg, Code[msg.type] \in Nat, msg.msgID \in Word, Written(msg),
           1 <= Len(IdHead(msg)), NEW dup \in Bit, NEW qos \in 0 .. 3, NEW retain \in Bit,
           NEW kind \in 0 .. 2, IdHead(msg)[1] = Flags(dup, qos, retain, kind)
    PROVE  /\ Gw!IsDuplicate(ClientWriter(msg)) = (dup = 1)
           /\ Gw!IsQoSMinusPUBLISH(ClientWriter(msg))
                = (Code[msg.type] = Code["PUBLISH"] /\ qos = 3)
<1> DEFINE s == ClientWriter(msg)
           f == Flags(dup, qos, retain, kind)
<1>1. s[Gw!MQTTSNPacket_decode(s).rc + 2] = f /\ Gw!TypeOf(s) = Code[msg.type]
  BY FlagOctet
<1>2. f >= 128 <=> dup = 1
  BY DupAndQos
<1>3. FlagsOf(f).qos = qos
  BY DupAndQos
<1> HIDE DEF s, f
<1>4. Gw!IsDuplicate(s) = (dup = 1)
  BY <1>1, <1>2 DEF Gw!IsDuplicate
<1>5. Gw!IsQoSMinusPUBLISH(s) = (Code[msg.type] = Code["PUBLISH"] /\ qos = 3)
  BY <1>1, <1>3, SameForGateway DEF Gw!IsQoSMinusPUBLISH
<1> QED BY <1>4, <1>5 DEF s

\* What is known of a message that is not read.
Unread(msg) ==
    ~Cut(ClientWriter(msg)) /\ (msg.type = "REGISTER" => Len(ClientWriter(msg)) < 256) =>
        /\ "msgID" \in DOMAIN msg =>
              /\ Gw!GetMsgId(ClientWriter(msg)) = msg.msgID
              /\ \A i \in Word :
                    Gw!GetPacket(Gw!SetMsgId(ClientWriter(msg), i)) = [msg EXCEPT !.msgID = i]
        /\ "dup" \in DOMAIN msg => Gw!IsDuplicate(ClientWriter(msg)) = (msg.dup = 1)
        /\ Gw!IsQoSMinusPUBLISH(ClientWriter(msg)) = (msg.type = "PUBLISH" /\ msg.qos = 3)

\* No other message is taken for a PUBLISH at QoS -1.
LEMMA NotMinusOne ==
    ASSUME NEW msg \in ClientMessages, Code[msg.type] # Code["PUBLISH"]
    PROVE  Gw!IsQoSMinusPUBLISH(ClientWriter(msg)) = (msg.type = "PUBLISH" /\ msg.qos = 3)
<1>1. TypeOf(ClientWriter(msg)) = Code[msg.type]
  BY ClientMessagesArrive DEF Arrives
<1>2. ~Gw!IsQoSMinusPUBLISH(ClientWriter(msg))
  BY <1>1, SameForGateway DEF Gw!IsQoSMinusPUBLISH
<1>3. msg.type # "PUBLISH"
  OBVIOUS
<1> QED BY <1>2, <1>3 DEF Gw!IsQoSMinusPUBLISH

\* Of a PUBLISH of the model, with a topic of two octets or a name.
LEMMA PublishUnread ==
    ASSUME NEW topic, topic.kind \in 0 .. 2, NEW msg \in PublishSet(topic), Written(msg),
           IdKnown(msg), Len(IdHead(msg)) = 3,
           IdHead(msg)[1] = Flags(msg.dup, msg.qos, msg.retain, topic.kind)
    PROVE  Unread(msg)
<1>1. /\ msg.type = "PUBLISH" /\ msg.dup \in Bit /\ msg.qos \in 0 .. 3 /\ msg.retain \in Bit
      /\ msg.msgID \in Word
  BY DEF PublishSet
<1>2. Code[msg.type] \in Nat /\ 1 <= Len(IdHead(msg)) /\ Code[msg.type] = Code["PUBLISH"]
  BY <1>1 DEF Code
<1>3. /\ Gw!IsDuplicate(ClientWriter(msg)) = (msg.dup = 1)
      /\ Gw!IsQoSMinusPUBLISH(ClientWriter(msg))
           = (Code[msg.type] = Code["PUBLISH"] /\ msg.qos = 3)
  BY <1>1, <1>2, FlagsKnown
<1>4. Gw!IsQoSMinusPUBLISH(ClientWriter(msg)) = (msg.type = "PUBLISH" /\ msg.qos = 3)
  BY <1>1, <1>2, <1>3
<1> QED BY <1>3, <1>4 DEF Unread, IdKnown

\* With a topic of two octets.
LEMMA TwoOctetsUnread ==
    ASSUME NEW topic \in PublishTopics, NEW msg \in PublishSet(topic),
           msg.qos = 0 => msg.msgID = 0, ~(msg.qos = 3 /\ topic.kind = NORMAL)
    PROVE  Unread(msg)
<1>1. IsTwoOctets(topic)
  BY TwoOctetTopics
<1>2. ~Client!LongName(msg.qos, topic)
  BY SameForClient DEF Client!LongName
<1>3. topic.kind \in 0 .. 2
  BY <1>1 DEF IsTwoOctets, NORMAL, PREDEFINED, SHORT
<1>4. /\ Written(msg) /\ IdKnown(msg) /\ Len(IdHead(msg)) = 3
      /\ IdHead(msg)[1] = Flags(msg.dup, msg.qos, msg.retain, topic.kind)
  BY <1>1, <1>2, PublishId
<1> QED BY <1>3, <1>4, PublishUnread

\* With a name.
LEMMA LongUnread ==
    ASSUME NEW topic \in LongTopics, NEW msg \in PublishSet(topic), msg.qos = 3
    PROVE  Unread(msg)
<1>1. topic \in [kind : {NORMAL}, id : {0}, name : AnyText \ {<<>>}]
  BY TextsAreTexts DEF LongTopics, Topic
<1>2. topic.kind \in 0 .. 2
  BY <1>1 DEF NORMAL
<1>3. /\ Written(msg) /\ IdKnown(msg) /\ Len(IdHead(msg)) = 3
      /\ IdHead(msg)[1] = Flags(msg.dup, msg.qos, msg.retain, topic.kind)
  BY <1>1, PublishLongId
<1> QED BY <1>2, <1>3, PublishUnread

\* Of every message of a client.
LEMMA ClientMessagesUnread ==
    ASSUME NEW msg \in ClientMessages
    PROVE  Unread(msg)
<1>1. ASSUME "msgID" \notin DOMAIN msg, "dup" \notin DOMAIN msg, Code[msg.type] # Code["PUBLISH"]
      PROVE  Unread(msg)
  BY <1>1, NotMinusOne DEF Unread
<1>2. ASSUME "dup" \notin DOMAIN msg, Code[msg.type] # Code["PUBLISH"], IdKnown(msg)
      PROVE  Unread(msg)
  BY <1>2, NotMinusOne DEF Unread, IdKnown
<1>3. CASE msg \in [type : {"CONNECT"}, will : Bit, clean : Bit, duration : Ids, clientID : Texts]
  BY <1>1, <1>3 DEF Code
<1>4. CASE \/ msg \in [type : {"DISCONNECT"}, duration : Ids \cup {0}]
           \/ msg \in [type : {"PINGRESP"}]
           \/ msg \in [type : {"PINGREQ"}, clientID : Texts]
  BY <1>1, <1>4 DEF Code
<1>5. CASE \/ msg \in [type : {"WILLTOPIC", "WILLTOPICUPD"}, qos : Qos, retain : Bit, topic : Texts]
           \/ msg \in [type : {"WILLMSG", "WILLMSGUPD"}, msg : Texts]
           \/ msg \in [type : {"SEARCHGW"}, radius : Bit]
  BY <1>1, <1>5 DEF Code
<1>6. CASE msg \in [type : {"SUBSCRIBE"}, dup : Bit, qos : Qos, msgID : Ids, topic : Filters]
  <2>1. msg \in [type : {"SUBSCRIBE"}, dup : Bit, qos : Qos, msgID : Word, topic : {msg.topic}]
    BY <1>6, IdIsWord
  <2>2. IsFilter(msg.topic)
    BY <1>6, FiltersAreFilters
  <2>3. Written(msg) /\ IdKnown(msg)
    BY <2>1, <2>2, SubscribeId
  <2>4. msg.topic.kind \in 0 .. 2
    BY <2>2, FilterIsKept
  <2>5. msg.dup \in Bit /\ msg.qos \in 0 .. 3 /\ 0 \in Bit /\ msg.msgID \in Word
        /\ msg.type = "SUBSCRIBE"
    BY <2>1 DEF Qos, Bit
  <2>6. 1 <= Len(IdHead(msg)) /\ IdHead(msg)[1] = Flags(msg.dup, msg.qos, 0, msg.topic.kind)
    BY <2>5 DEF IdHead
  <2>7. Code[msg.type] \in Nat /\ Code[msg.type] # Code["PUBLISH"]
    BY <2>5 DEF Code
  <2>8. Gw!IsDuplicate(ClientWriter(msg)) = (msg.dup = 1)
    BY <2>3, <2>4, <2>5, <2>6, <2>7, FlagsKnown
  <2> QED BY <2>3, <2>7, <2>8, NotMinusOne DEF Unread, IdKnown
<1>7. CASE msg \in [type : {"UNSUBSCRIBE"}, msgID : Ids, topic : Filters]
  <2>1. msg \in [type : {"UNSUBSCRIBE"}, msgID : Word, topic : {msg.topic}]
    BY <1>7, IdIsWord
  <2>2. IsFilter(msg.topic)
    BY <1>7, FiltersAreFilters
  <2>3. IdKnown(msg)
    BY <2>1, <2>2, UnsubscribeId
  <2> QED BY <1>2, <1>7, <2>3 DEF Code
<1>8. CASE IsPublish(msg)
  BY <1>8, PublishesAre, TwoOctetsUnread, LongUnread
<1>9. CASE msg \in AcksWithTopic
  <2>1. msg \in [type : {"PUBACK", "REGACK"}, topicID : Word, msgID : Word, rc : Nat]
    BY <1>9, IdIsWord, SmallWord DEF AcksWithTopic
  <2>2. Len(ClientWriter(msg)) < 256
    <3>1. Written(msg) /\ msg.type \in {"PUBACK", "REGACK"} /\ msg.topicID \in Word /\ msg.msgID \in Word
      BY <2>1, AckWithTopicArrives
    <3> DEFINE b == WithId(msg, msg.msgID)
    <3>2. b \in Octets /\ Len(b) = Len(IdHead(msg)) + 2 + Len(IdTail(msg)) /\ Fits(b)
      BY <3>1, HoldingParts DEF Written, WithId
    <3>3. IdHead(msg) = writeInt(msg.topicID) /\ IdTail(msg) = <<msg.rc>>
      BY <3>1 DEF IdHead, IdTail
    <3>4. Len(IdHead(msg)) = 2 /\ Len(IdTail(msg)) = 1
      BY <3>1, <3>3, IntOctets
    <3>5. Code["PUBACK"] \in Nat /\ Code["REGACK"] \in Nat
      BY DEF Code
    <3>6. Code[msg.type] \in Nat
      BY <3>1, <3>5
    <3>7. ClientWriter(msg) = Packet(msg.type, b)
      BY <3>1 DEF Written
    <3> HIDE DEF b
    <3>8. Len(Packet(msg.type, b)) = TypeAt(b) + Len(b) /\ TypeAt(b) \in {2, 4}
      BY <3>2, <3>6, FrontIsKnown
    <3>9. Len(b) = 5
      BY <3>2, <3>4
    <3>10. Len(Packet(msg.type, b)) < 256
      BY <3>8, <3>9
    <3> QED BY <3>7, <3>10
  <2>3. IdKnown(msg)
    BY <2>1, <2>2, FixedId
  <2> QED BY <1>2, <1>9, <2>3 DEF Code, AcksWithTopic
<1>10. CASE msg \in Acks({"PUBREC", "PUBREL", "PUBCOMP"})
  <2>1. msg \in [type : {"PUBREC", "PUBREL", "PUBCOMP"}, msgID : Word]
    BY <1>10, IdIsWord DEF Acks
  <2>2. IdKnown(msg)
    BY <2>1, AckId
  <2> QED BY <1>2, <1>10, <2>2 DEF Code, Acks
<1>11. CASE msg \in [type : {"REGISTER"}, topicID : {0}, msgID : Ids, name : Texts]
  <2>1. msg \in [type : {"REGISTER"}, topicID : Word, msgID : Word, name : AnyText]
    BY <1>11, IdIsWord, SmallWord, TextsAreTexts
  <2>2. Len(ClientWriter(msg)) < 256 => IdKnown(msg)
    BY <2>1, FixedId
  <2>3. msg.type = "REGISTER" /\ "dup" \notin DOMAIN msg /\ Code[msg.type] # Code["PUBLISH"]
    BY <1>11 DEF Code
  <2> QED BY <2>2, <2>3, NotMinusOne DEF Unread, IdKnown
<1> QED
  BY <1>3, <1>4, <1>5, <1>6, <1>7, <1>8, <1>9, <1>10, <1>11,
     QoSMinusIsPublished DEF ClientMessages, IsPublish

----------------------------------------------------------------------------
(* The way of the messages. *)

Nodes == {Text(1), Text(4)}

\* What GatewayTranslates translates.
Passes(g) ==
    /\ g.type \in Translated
    /\ g.type = "CONNECT" => g.will = 0
    /\ g.type = "PUBLISH" => ~Client!LongName(g.qos, g.topic)

\* What the handlers have made of the message of a client.
WasTranslated == got = Gw!GetPacket(ClientWriter(m)) /\ Passes(got)

\* What is where.
WayInv ==
    /\ at = "nowhere" => got = None
    /\ at \in {"to gateway", "forwarded", "gateway", "to broker"} =>
         m \in ClientMessages /\ ~OfTheWrongLength(m)
    /\ at = "overrun" =>
         /\ m \in ClientMessages
         /\ got = None => OfTheWrongLength(m)
         /\ got # None => /\ ~OfTheWrongLength(m)
                          /\ WasTranslated /\ Overruns(send(ToMqtt(got)))
    /\ at = "to broker" => WasTranslated /\ ~Overruns(send(ToMqtt(got)))
    /\ at = "to gateway" =>
         /\ octets = ClientWriter(m)
         /\ got # None => got.nodeID \in Nodes
    /\ at = "forwarded" =>
         \E node \in Nodes : octets = Gw!Encapsulate(0, node, ClientWriter(m))
    /\ at = "gateway" => octets = ClientWriter(m) /\ got = Gw!GetPacket(octets)
    /\ at = "to client" => m \in GatewayMessages /\ octets = Gw!SetPacket(m)
    /\ at = "client" =>
         /\ m \in GatewayMessages
         /\ octets = Gw!SetPacket(m) /\ octets # <<>> /\ got = ClientReader(octets)

\* The wireless nodes have ids of octets.
LEMMA NodesAreTexts ==
    ASSUME NEW node \in Nodes
    PROVE  node \in Octets /\ 1 <= Len(node)
<1>1. 1 \in 1 .. 4 /\ 4 \in 1 .. 4
  OBVIOUS
<1>2. Text(1) \in Octets /\ 1 <= Len(Text(1))
  BY <1>1, FewLetters
<1>3. Text(4) \in Octets /\ 1 <= Len(Text(4))
  BY <1>1, FewLetters
<1>4. node = Text(1) \/ node = Text(4)
  BY DEF Nodes
<1>5. CASE node = Text(1)
  BY <1>2, <1>5
<1>6. CASE node = Text(4)
  BY <1>3, <1>6
<1> QED BY <1>4, <1>5, <1>6

\* What the gateway writes for a client is octets, and not none.
LEMMA WrittenIsOctets ==
    ASSUME NEW msg \in ClientMessages
    PROVE  ClientWriter(msg) \in Octets /\ ClientWriter(msg) # <<>>
BY ClientMessagesArrive DEF Arrives

\* At every place of its way a message is what its writer has made of it (WayInv).
THEOREM WayAlways == Spec => []WayInv
<1>1. Init => WayInv
  BY DEF Init, WayInv
<1>2. WayInv /\ [Next]_vars => WayInv'
  <2> SUFFICES ASSUME WayInv, [Next]_vars
               PROVE  WayInv'
    OBVIOUS
  <2>1. CASE ClientWrites
    <3>1. /\ at = "nowhere" /\ m' \in ClientMessages /\ octets' = ClientWriter(m') /\ got' = got
          /\ at' = IF Overruns(ClientSender(m')) THEN "overrun" ELSE "to gateway"
      BY <2>1 DEF ClientWrites, Put
    <3>2. got' = None
      BY <3>1 DEF WayInv
    <3>3. Overruns(ClientSender(m')) <=> OfTheWrongLength(m')
      <4> DEFINE msg == m'
      <4>1. msg \in ClientMessages
        BY <3>1
      <4> HIDE DEF msg
      <4>2. Overruns(ClientSender(msg)) <=> OfTheWrongLength(msg)
        BY <4>1, ClientMessagesArrive DEF Arrives, Sized
      <4> QED BY <4>2 DEF msg
    <3> QED BY <3>1, <3>2, <3>3 DEF WayInv
  <2>2. CASE ForwarderWraps
    <3>1. at = "to gateway" /\ at' = "forwarded" /\ m' = m
          /\ \E n \in {1, 4} : octets' = Gw!Encapsulate(0, Text(n), octets)
      BY <2>2 DEF ForwarderWraps, Move
    <3>2. octets = ClientWriter(m) /\ m \in ClientMessages /\ ~OfTheWrongLength(m)
      BY <3>1 DEF WayInv
    <3>3. \E node \in Nodes : octets' = Gw!Encapsulate(0, node, ClientWriter(m))
      BY <3>1, <3>2 DEF Nodes
    <3> QED BY <3>1, <3>2, <3>3 DEF WayInv
  <2>3. CASE GatewayUnwraps
    <3>1. at = "forwarded" /\ at' = "to gateway" /\ m' = m
          /\ octets' = Gw!Desirialize(octets).packet
          /\ got' = [type |-> "ENCAPSULATED", nodeID |-> Gw!Desirialize(octets).nodeID]
      BY <2>3 DEF GatewayUnwraps, Move
    <3>2. m \in ClientMessages /\ ~OfTheWrongLength(m)
          /\ \E node \in Nodes : octets = Gw!Encapsulate(0, node, ClientWriter(m))
      BY <3>1 DEF WayInv
    <3>3. PICK node \in Nodes : octets = Gw!Encapsulate(0, node, ClientWriter(m))
      BY <3>2
    <3>4. Gw!Desirialize(octets).packet = ClientWriter(m) /\ Gw!Desirialize(octets).nodeID = node
      BY <3>2, <3>3, NodesAreTexts, WrittenIsOctets, HeaderComesOff
    <3>5. octets' = ClientWriter(m') /\ got'.nodeID \in Nodes
      BY <3>1, <3>4
    <3> QED BY <3>1, <3>2, <3>5 DEF WayInv
  <2>4. CASE GatewayReads
    <3>1. at = "to gateway" /\ at' = "gateway" /\ m' = m /\ octets' = octets
          /\ got' = Gw!GetPacket(octets)
      BY <2>4 DEF GatewayReads, Move
    <3>2. m \in ClientMessages /\ ~OfTheWrongLength(m) /\ octets = ClientWriter(m)
      BY <3>1 DEF WayInv
    <3> QED BY <3>1, <3>2 DEF WayInv
  <2>5. CASE GatewayTranslates
    <3>1. /\ at = "gateway" /\ m' = m /\ got' = got /\ Passes(got)
          /\ at' = IF Overruns(send(ToMqtt(got))) THEN "overrun" ELSE "to broker"
      BY <2>5 DEF GatewayTranslates, Put, Passes
    <3>2. m \in ClientMessages /\ ~OfTheWrongLength(m) /\ WasTranslated
      BY <3>1 DEF WayInv, WasTranslated
    <3>3. got # None
      <4>1. None.type = "none" /\ "none" \notin Translated
        BY DEF None, Translated
      <4>2. got.type \in Translated
        BY <3>1 DEF Passes
      <4> QED BY <4>1, <4>2
    <3>4. WasTranslated' /\ send(ToMqtt(got'))= send(ToMqtt(got)) /\ OfTheWrongLength(m') = OfTheWrongLength(m)
      BY <3>1, <3>2 DEF WasTranslated
    <3> QED BY <3>1, <3>2, <3>3, <3>4 DEF WayInv
  <2>6. CASE BrokerReceives \/ BrokerSends \/ GatewayReceives \/ GatewayAnswers
    BY <2>6 DEF BrokerReceives, BrokerSends, GatewayReceives, GatewayAnswers, Move, WayInv
  <2>7. CASE GatewayWrites
    <3>1. at' = "to client" /\ m' \in GatewayMessages /\ octets' = Gw!SetPacket(m')
      BY <2>7 DEF GatewayWrites, Move
    <3> QED BY <3>1 DEF WayInv
  <2>8. CASE ClientReads
    <3>1. m' = m /\ octets' = octets /\ octets # <<>> /\ got' = ClientReader(octets)
      BY <2>8 DEF ClientReads
    <3>2. CASE at = "to client" /\ at' = "client"
      <4>1. m \in GatewayMessages /\ octets = Gw!SetPacket(m)
        BY <3>2 DEF WayInv
      <4> QED BY <3>1, <3>2, <4>1 DEF WayInv
    <3>3. CASE at' = "told"
      BY <3>3 DEF WayInv
    <3> QED BY <2>8, <3>2, <3>3 DEF ClientReads, Move
  <2>9. CASE UNCHANGED vars
    BY <2>9 DEF vars, WayInv, WasTranslated
  <2> QED BY <2>1, <2>2, <2>3, <2>4, <2>5, <2>6, <2>7, <2>8, <2>9 DEF Next
<1> QED BY <1>1, <1>2, PTL DEF Spec

\* What the gateway reads is what a client has written, and the other way round, but for a
\* body of 254 octets, whose length field counts two octets too few.
THEOREM AlwaysRead == Spec => []SentIsRead
<1>1. WayInv => SentIsRead
  <2> SUFFICES ASSUME WayInv
               PROVE  SentIsRead
    OBVIOUS
  <2>1. ASSUME at = "gateway", ~Cut(octets)
        PROVE  got = Understood(m)
    <3>1. m \in ClientMessages /\ octets = ClientWriter(m) /\ got = Gw!GetPacket(octets)
      BY <2>1 DEF WayInv
    <3>2. Arrives(m, Understood(m))
      BY <3>1, ClientMessagesArrive
    <3> QED BY <2>1, <3>1, <3>2 DEF Arrives
  <2>2. ASSUME at = "client", ~Cut(octets)
        PROVE  got = m
    <3>1. /\ m \in GatewayMessages /\ octets = Gw!SetPacket(m) /\ octets # <<>>
          /\ got = ClientReader(octets)
      BY <2>2 DEF WayInv
    <3>2. octets = Gw!Serialize(m)
      BY <3>1 DEF Gw!SetPacket
    <3>3. IsTold(m)
      BY <3>1, GatewayMessagesTold
    <3> QED BY <2>2, <3>1, <3>2, <3>3 DEF IsTold
  <2> QED BY <2>1, <2>2 DEF SentIsRead, Understood
<1> QED BY <1>1, WayAlways, PTL

\* The wireless node of an encapsulated packet is the one the forwarder has named.
THEOREM NodeAlwaysKnown == Spec => []NodeIsKnown
<1>1. WayInv => NodeIsKnown
  BY DEF WayInv, NodeIsKnown, Nodes
<1> QED BY <1>1, WayAlways, PTL

\* What the gateway takes from a packet it has not read is what the client has written, and an
\* id written over it is read; but for a REGISTER with a long name.
THEOREM UnreadAlwaysKnown == Spec => []UnreadIsKnown
<1>1. WayInv => UnreadIsKnown
  <2> SUFFICES ASSUME WayInv, at = "to gateway", ~Cut(octets),
                      m.type = "REGISTER" => Len(octets) < 256
               PROVE  /\ "msgID" \in DOMAIN m =>
                            /\ Gw!GetMsgId(octets) = m.msgID
                            /\ \A i \in Ids : Gw!GetPacket(Gw!SetMsgId(octets, i)) = [m EXCEPT !.msgID = i]
                      /\ "dup" \in DOMAIN m => Gw!IsDuplicate(octets) = (m.dup = 1)
                      /\ Gw!IsQoSMinusPUBLISH(octets) = (m.type = "PUBLISH" /\ m.qos = 3)
    BY DEF UnreadIsKnown
  <2>1. m \in ClientMessages /\ octets = ClientWriter(m)
    BY DEF WayInv
  <2>2. Unread(m)
    BY <2>1, ClientMessagesUnread
  <2> QED BY <2>1, <2>2, IdIsWord DEF Unread
<1> QED BY <1>1, WayAlways, PTL

----------------------------------------------------------------------------
(* What the gateway makes of the broker's packets. *)

\* The remaining length, as the broker writes it.
SizeOf(l) == IF l < 128 THEN <<l>> ELSE <<128 + (l % 128), l \div 128>>

\* The parts of a packet of MQTT: the header, one or two digits, the data.
LEMMA Framed ==
    ASSUME NEW x \in Nat, NEW d \in Octets, Len(d) < 16384
    PROVE  LET l == Len(d)
               s == <<x>> \o SizeOf(l) \o d
           IN  /\ s[1] = x
               /\ l < 128 => s[2] = l /\ s \in Octets /\ Len(s) = 2 + l /\ From(s, 3) = d
               /\ ~(l < 128) => /\ s[2] \in Nat /\ s[2] >= 128 /\ s[2] < 256 /\ s[3] \in Nat /\ s[3] < 128
                                /\ s[2] - 128 + 128 * s[3] = l
                                /\ s \in Octets /\ Len(s) = 3 + l /\ From(s, 4) = d
<1> DEFINE l == Len(d)
           c == <<x>>
           z == SizeOf(l)
           g == c \o z
           s == g \o d
<1>1. l \in Nat
  BY LenIsNat
<1>2. c \in Octets /\ Len(c) = 1 /\ c[1] = x
  BY OneOctet
<1>3. ASSUME l < 128
      PROVE  s[1] = x /\ s[2] = l /\ s \in Octets /\ Len(s) = 2 + l /\ From(s, 3) = d
  <2>1. z = <<l>>
    BY <1>3 DEF SizeOf
  <2>2. z \in Octets /\ Len(z) = 1 /\ z[1] = l
    BY <1>1, <2>1, OneOctet
  <2>3. z \in Octets /\ c \in Octets /\ 1 \in Nat /\ 1 <= 1 /\ 1 <= Len(z) /\ 1 <= Len(c)
    BY <1>2, <2>2
  <2> HIDE DEF c, z
  <2>4. g \in Octets /\ Len(g) = Len(c) + Len(z)
    BY <2>3, Both
  <2>5. g[1] = c[1]
    BY <2>3, InFirst
  <2>6. g[Len(c) + 1] = z[1]
    BY <2>3, InSecond
  <2> HIDE DEF g
  <2>7. Len(g) = 2 /\ Len(c) + 1 = 2 /\ g[1] = x /\ g[2] = l
    BY <1>2, <2>2, <2>4, <2>5, <2>6
  <2>8. 1 \in Nat /\ 2 \in Nat /\ 1 <= 1 /\ 1 <= Len(g) /\ 1 <= 2 /\ 2 <= Len(g)
    BY <2>7
  <2>9. s[1] = g[1] /\ s[2] = g[2]
    BY <2>4, <2>8, InFirst
  <2>10. s \in Octets /\ Len(s) = Len(g) + l
    BY <2>4, Both
  <2>11. From(s, Len(g) + 1) = d
    BY <2>4, Second
  <2> HIDE DEF s, l
  <2>12. Len(g) + 1 = 3 /\ Len(s) = 2 + l
    BY <1>1, <2>7, <2>10
  <2> QED BY <2>7, <2>9, <2>10, <2>11, <2>12
<1>4. ASSUME ~(l < 128)
      PROVE  /\ s[1] = x /\ s[2] \in Nat /\ s[2] >= 128 /\ s[2] < 256 /\ s[3] \in Nat /\ s[3] < 128
             /\ s[2] - 128 + 128 * s[3] = l
             /\ s \in Octets /\ Len(s) = 3 + l /\ From(s, 4) = d
  <2> DEFINE y == 128 + (l % 128)
             v == l \div 128
  <2>1. z = <<y, v>>
    BY <1>4 DEF SizeOf
  <2>2. y \in Nat /\ v \in Nat /\ y >= 128 /\ y < 256 /\ v < 128 /\ y - 128 + 128 * v = l
    BY <1>1
  <2> HIDE DEF y, v
  <2>3. z \in Octets /\ Len(z) = 2 /\ z[1] = y /\ z[2] = v
    BY <2>1, <2>2 DEF Octets
  <2>4. /\ z \in Octets /\ c \in Octets /\ 1 \in Nat /\ 2 \in Nat /\ 1 <= 1 /\ 1 <= 2
        /\ 1 <= Len(z) /\ 2 <= Len(z) /\ 1 <= Len(c)
    BY <1>2, <2>3
  <2> HIDE DEF c, z
  <2>5. g \in Octets /\ Len(g) = Len(c) + Len(z)
    BY <2>4, Both
  <2>6. g[1] = c[1]
    BY <2>4, InFirst
  <2>7. g[Len(c) + 1] = z[1] /\ g[Len(c) + 2] = z[2]
    BY <2>4, InSecond
  <2> HIDE DEF g
  <2>8. Len(c) + 1 = 2 /\ Len(c) + 2 = 3 /\ Len(g) = 3
    BY <1>2, <2>3, <2>5
  <2>9. g[1] = x /\ g[2] = y /\ g[3] = v
    BY <1>2, <2>3, <2>6, <2>7, <2>8
  <2>10. /\ 1 \in Nat /\ 2 \in Nat /\ 3 \in Nat /\ 1 <= 1 /\ 1 <= 2 /\ 1 <= 3
         /\ 1 <= Len(g) /\ 2 <= Len(g) /\ 3 <= Len(g)
    BY <2>8
  <2>11. s[1] = g[1] /\ s[2] = g[2] /\ s[3] = g[3]
    BY <2>5, <2>10, InFirst
  <2>12. s \in Octets /\ Len(s) = Len(g) + l
    BY <2>5, Both
  <2>13. From(s, Len(g) + 1) = d
    BY <2>5, Second
  <2> HIDE DEF s, l
  <2>14. Len(g) + 1 = 4 /\ Len(s) = 3 + l
    BY <1>1, <2>8, <2>12
  <2>15. s[1] = x /\ s[2] = y /\ s[3] = v
    BY <2>9, <2>11
  <2> QED BY <2>2, <2>12, <2>13, <2>14, <2>15
<1>5. s = <<x>> \o SizeOf(Len(d)) \o d
  BY DEF s, g, c, z, l
<1> HIDE DEF s, l
<1>6. s[1] = x
  BY <1>3, <1>4
<1> QED BY <1>3, <1>4, <1>5, <1>6 DEF l

\* The gateway gets them.
LEMMA Received ==
    ASSUME NEW x \in Nat, NEW d \in Octets, Len(d) < 16384
    PROVE  recv(<<x>> \o SizeOf(Len(d)) \o d) = [header |-> x, data |-> d]
<1> DEFINE l == Len(d)
           s == <<x>> \o SizeOf(Len(d)) \o d
<1>1. l \in Nat
  BY LenIsNat
<1>2. /\ s[1] = x
      /\ l < 128 => s[2] = l /\ s \in Octets /\ Len(s) = 2 + l /\ From(s, 3) = d
      /\ ~(l < 128) => /\ s[2] \in Nat /\ s[2] >= 128 /\ s[3] \in Nat /\ s[3] < 128
                       /\ s[2] - 128 + 128 * s[3] = l
                       /\ s \in Octets /\ Len(s) = 3 + l /\ From(s, 4) = d
  BY Framed
<1>b. s = <<x>> \o SizeOf(Len(d)) \o d
  OBVIOUS
<1> HIDE DEF s, l
<1>a. ASSUME NEW i, 2 + RemainingLength(s).octets = i, From(s, i) = d, s[1] = x,
             1 + RemainingLength(s).octets + RemainingLength(s).value = Len(s)
      PROVE  recv(<<x>> \o SizeOf(Len(d)) \o d) = [header |-> x, data |-> d]
  <2> DEFINE r == RemainingLength(s)
             e == SubSeq(s, 2 + r.octets, 1 + r.octets + r.value)
             h == s[1]
  <2>1. recv(s) = [header |-> h, data |-> e]
    BY DEF recv
  <2>2. e = d /\ h = x
    BY <1>a DEF From
  <2> HIDE DEF h, e
  <2> QED BY <1>b, <2>1, <2>2
<1>3. CASE l < 128
  <2>1. s[2] = l /\ s[2] < 128 /\ ~(s[2] >= 128)
    BY <1>1, <1>2, <1>3
  <2>2. RemainingLength(s) = [value |-> s[2], octets |-> 1]
    BY <2>1 DEF RemainingLength
  <2>3. RemainingLength(s).value = l /\ RemainingLength(s).octets = 1
    BY <2>1, <2>2
  <2>4. 2 + RemainingLength(s).octets = 3 /\ 1 + RemainingLength(s).octets + RemainingLength(s).value = Len(s)
    BY <1>1, <1>2, <1>3, <2>3
  <2> QED BY <1>2, <1>3, <2>4, <1>a
<1>4. CASE ~(l < 128)
  <2>1. s[2] >= 128 /\ s[3] < 128 /\ ~(s[2] < 128)
    BY <1>2, <1>4
  <2>2. RemainingLength(s) = [value |-> s[2] - 128 + 128 * s[3], octets |-> 2]
    BY <2>1 DEF RemainingLength
  <2>3. RemainingLength(s).value = l /\ RemainingLength(s).octets = 2
    BY <1>2, <1>4, <2>2
  <2>4. 2 + RemainingLength(s).octets = 4 /\ 1 + RemainingLength(s).octets + RemainingLength(s).value = Len(s)
    BY <1>1, <1>2, <1>4, <2>3
  <2> QED BY <1>2, <1>4, <2>4, <1>a
<1> QED BY <1>3, <1>4

\* The low half of the header.
BrokerFlags(msg) ==
    CASE msg.type = "PUBLISH" -> 8 * msg.dup + 2 * msg.qos + msg.retain
      [] msg.type = "PUBREL"  -> 2
      [] OTHER                -> 0

\* The header and the data of a packet of the broker, as the gateway receives them.
Sendable == {s \in Octets : Len(s) < 16384}

LEMMA BrokerPacket ==
    ASSUME NEW msg, NEW d \in Sendable, BrokerData(msg) = d, NEW k \in Nat, MqttCode[msg.type] = k,
           NEW f \in 0 .. 15, BrokerFlags(msg) = f
    PROVE  /\ recv(BrokerWrites(msg)) = [header |-> 16 * k + f, data |-> d]
           /\ (16 * k + f) \div 16 = k
<1> DEFINE x == 16 * k + f
<1>1. x \in Nat /\ x \div 16 = k
  OBVIOUS
<1>2. BrokerWrites(msg) = <<x>> \o SizeOf(Len(d)) \o d
  BY DEF BrokerWrites, SizeOf, BrokerFlags
<1> HIDE DEF x
<1>3. d \in Octets /\ Len(d) < 16384
  BY DEF Sendable
<1>4. recv(BrokerWrites(msg)) = [header |-> x, data |-> d]
  BY <1>1, <1>2, <1>3, Received
<1> QED BY <1>1, <1>4 DEF x

\* The gateway reads each packet with the function for its type.
LEMMA BrokerChooses ==
    ASSUME NEW p
    PROVE  /\ HeaderType(p) = MqttCode["PUBLISH"] => BrokerReader(p) = getPUBLISH(p)
           /\ HeaderType(p) = MqttCode["CONNACK"] => BrokerReader(p) = getCONNACK(p)
           /\ HeaderType(p) = MqttCode["SUBACK"] => BrokerReader(p) = getSUBACK(p)
           /\ HeaderType(p) = MqttCode["UNSUBACK"] => BrokerReader(p) = getAck("UNSUBACK", p)
           /\ HeaderType(p) = MqttCode["PUBACK"] => BrokerReader(p) = getAck("PUBACK", p)
           /\ HeaderType(p) = MqttCode["PUBREC"] => BrokerReader(p) = getAck("PUBREC", p)
           /\ HeaderType(p) = MqttCode["PUBREL"] => BrokerReader(p) = getAck("PUBREL", p)
           /\ HeaderType(p) = MqttCode["PUBCOMP"] => BrokerReader(p) = getAck("PUBCOMP", p)
BY DEF BrokerReader, MqttCode

\* An id written over the one in the data is read, and what follows it is kept.
LEMMA DataWithId ==
    ASSUME NEW h, NEW n \in Word, NEW b \in Octets, NEW i \in Word
    PROVE  /\ setAckMsgId([header |-> h, data |-> writeInt(n) \o b], i)
                 = [header |-> h, data |-> writeInt(i) \o b]
           /\ readInt(writeInt(n) \o b, 1) = n
<1> DEFINE a == writeInt(n)
           w == writeInt(i)
           d == a \o b
<1>1. a \in Octets /\ Len(a) = 2 /\ readInt(a, 1) = n
  BY IntOctets
<1> HIDE DEF a, w
<1>2. 1 \in Nat /\ 1 <= 1 /\ 1 + 1 <= Len(a) /\ Len(a) + 1 = 3
  BY <1>1
<1>3. readInt(d, 1) = n
  BY <1>1, <1>2, ReadFirst
<1>4. From(d, 3) = b
  BY <1>1, <1>2, Second
<1> HIDE DEF d
<1>5. setAckMsgId([header |-> h, data |-> d], i) = [header |-> h, data |-> w \o b]
  <2> DEFINE p == [header |-> h, data |-> d]
             e == w \o From(p.data, 3)
  <2>1. setAckMsgId(p, i) = [p EXCEPT !.data = e]
    BY DEF setAckMsgId, w
  <2>2. e = w \o b
    BY <1>4
  <2> HIDE DEF e
  <2>3. [p EXCEPT !.data = e] = [header |-> h, data |-> e]
    OBVIOUS
  <2> QED BY <2>1, <2>2, <2>3
<1> QED BY <1>3, <1>5 DEF a, w, d

BrokerAcks == {"PUBACK", "PUBREC", "PUBREL", "PUBCOMP", "UNSUBACK"}

\* An acknowledgement of the broker, also with another id.
LEMMA BrokerAckRead ==
    ASSUME NEW type \in BrokerAcks, NEW h, h \div 16 = MqttCode[type], NEW n \in Word
    PROVE  /\ BrokerReader([header |-> h, data |-> writeInt(n)]) = [type |-> type, msgID |-> n]
           /\ mqttMsgId([header |-> h, data |-> writeInt(n)]) = n
<1> DEFINE p == [header |-> h, data |-> writeInt(n)]
<1>1. HeaderType(p) = MqttCode[type] /\ readInt(p.data, 1) = n
  BY IntOctets DEF HeaderType
<1> HIDE DEF p
<1>2. BrokerReader(p) = getAck(type, p)
  BY <1>1, BrokerChooses DEF BrokerAcks
<1>3. HeaderType(p) # MqttCode["PUBLISH"]
  BY <1>1 DEF BrokerAcks, MqttCode
<1> QED BY <1>1, <1>2, <1>3 DEF getAck, mqttMsgId, p

LEMMA BrokerSubackRead ==
    ASSUME NEW h, h \div 16 = MqttCode["SUBACK"], NEW n \in Word, NEW rc \in Nat
    PROVE  LET p == [header |-> h, data |-> writeInt(n) \o <<rc>>]
           IN  /\ BrokerReader(p) = [type |-> "SUBACK", msgID |-> n, rc |-> rc]
               /\ mqttMsgId(p) = n
<1> DEFINE a == writeInt(n)
           b == <<rc>>
           d == a \o b
           p == [header |-> h, data |-> d]
<1>1. a \in Octets /\ Len(a) = 2 /\ readInt(a, 1) = n
  BY IntOctets
<1>2. b \in Octets /\ Len(b) = 1 /\ b[1] = rc
  BY OneOctet
<1> HIDE DEF a, b
<1>3. /\ 1 \in Nat /\ 1 <= 1 /\ 1 + 1 <= Len(a) /\ Len(a) + 1 = 3 /\ 1 <= Len(b)
  BY <1>1, <1>2
<1>4. readInt(d, 1) = n
  BY <1>1, <1>2, <1>3, ReadFirst
<1>5. d[Len(a) + 1] = b[1]
  BY <1>1, <1>2, <1>3, InSecond
<1>6. d[3] = rc
  BY <1>2, <1>3, <1>5
<1> HIDE DEF d
<1>7. HeaderType(p) = MqttCode["SUBACK"] /\ p.data = d
  BY DEF HeaderType
<1> HIDE DEF p
<1>8. BrokerReader(p) = [type |-> "SUBACK", msgID |-> n, rc |-> rc]
  BY <1>4, <1>6, <1>7, BrokerChooses DEF getSUBACK
<1>9. HeaderType(p) # MqttCode["PUBLISH"]
  BY <1>7 DEF MqttCode
<1>10. mqttMsgId(p) = n
  BY <1>4, <1>7, <1>9 DEF mqttMsgId
<1> QED BY <1>8, <1>10 DEF p, d, a, b

\* A text between octets.
LEMMA TextInside ==
    ASSUME NEW h \in Octets, NEW t \in Octets, Len(t) \in Word, NEW r \in Octets
    PROVE  /\ h \o writeUTF(t) \o r \in Octets
           /\ Len(h \o writeUTF(t) \o r) = Len(h) + 2 + Len(t) + Len(r)
           /\ readInt(h \o writeUTF(t) \o r, Len(h) + 1) = Len(t)
           /\ Utf(h \o writeUTF(t) \o r, Len(h) + 1) = t
           /\ After(h \o writeUTF(t) \o r, Len(h) + 1) = r
           /\ h \o writeUTF(t) \o r = h \o writeInt(Len(t)) \o (t \o r)
<1> DEFINE n == Len(t)
           w == writeInt(n)
           f == h \o w
           g == f \o t
           s == h \o writeUTF(t) \o r
           k == Len(h) + 1
<1>1. n \in Nat /\ n \in Word /\ Len(h) \in Nat /\ Len(r) \in Nat
  BY LenIsNat
<1>2. w \in Octets /\ Len(w) = 2
  BY <1>1, IntOctets
<1>3. writeUTF(t) = w \o t
  BY DEF writeUTF
<1>4. t \o r \in Octets
  BY Both
<1>5. /\ readInt(f \o (t \o r), Len(h) + 1) = n
      /\ g \in Octets /\ Len(g) = Len(h) + 2 + n /\ From(g, Len(h) + 3) = t
  BY <1>1, <1>4, Around
<1> HIDE DEF w, n
<1>6. f \in Octets
  BY <1>2, Both
<1>7. h \o (w \o t) = f \o t
  BY <1>2, Associative
<1> HIDE DEF f
<1>8. f \o (t \o r) = (f \o t) \o r
  BY <1>6, Associative
<1>9. s = g \o r
  BY <1>3, <1>7
<1> HIDE DEF g
<1>10. s \in Octets /\ Len(s) = Len(g) + Len(r)
  BY <1>5, <1>9, Both
<1>11. From(g \o r, Len(g) + 1) = r
  BY <1>5, Second
<1>12. s = f \o (t \o r)
  BY <1>8, <1>9 DEF g
<1> HIDE DEF s
<1>13. readInt(s, k) = n
  BY <1>5, <1>12
<1>14. After(s, k) = r
  <2>1. k + 2 + n = Len(g) + 1
    BY <1>1, <1>5
  <2> QED BY <1>9, <1>11, <1>13, <2>1 DEF After
<1>15. Utf(s, k) = t
  <2>1. Utf(s, k) = SubSeq(s, k + 2, k + 1 + n)
    BY <1>13 DEF Utf
  <2>2. k + 2 = Len(h) + 3 /\ k + 1 + n = Len(g) /\ Len(g) \in Nat
    BY <1>1, <1>5
  <2>3. SubSeq(g, Len(h) + 3, Len(g)) = t
    BY <1>5 DEF From
  <2>4. CASE n = 0
    <3>1. t = <<>>
      BY <2>4 DEF n, Octets
    <3>3. Len(h) + 3 = Len(g) + 1 /\ Len(g) + 1 > Len(g)
      BY <1>1, <1>5, <2>2, <2>4
    <3>4. s \in Seq(Nat)
      BY <1>10 DEF Octets
    <3>5. SubSeq(s, Len(g) + 1, Len(g)) = <<>>
      BY <2>2, <3>3, <3>4, SubSeqEmpty
    <3>6. k + 2 = Len(g) + 1
      BY <2>2, <3>3
    <3> QED BY <2>1, <2>2, <3>1, <3>5, <3>6
  <2>5. CASE n # 0
    <3>1. Len(h) + 3 \in 1 .. Len(g) /\ Len(g) \in 1 .. Len(g)
      BY <1>1, <1>5, <2>5
    <3>2. SubSeq(g \o r, Len(h) + 3, Len(g)) = SubSeq(g, Len(h) + 3, Len(g))
      BY <1>5, <3>1, PartOfFirst
    <3> QED BY <1>9, <2>1, <2>2, <2>3, <3>2
  <2> QED BY <2>4, <2>5
<1>16. Len(s) = Len(h) + 2 + n + Len(r)
  BY <1>1, <1>5, <1>10
<1> QED BY <1>10, <1>12, <1>13, <1>14, <1>15, <1>16 DEF s, n, f, w, k

LEMMA NoOctets ==
    ASSUME NEW a \in Octets
    PROVE  <<>> \in Octets /\ Len(<<>>) = 0 /\ a \o <<>> = a /\ <<>> \o a = a
<1>1. a \in Seq(Nat)
  BY DEF Octets
<1>2. a \o <<>> = a /\ <<>> \o a = a
  BY <1>1, ConcatEmptySeq
<1> QED BY <1>2 DEF Octets

\* A text before octets, and one behind them.
LEMMA TextFirst ==
    ASSUME NEW t \in Octets, Len(t) \in Word, NEW r \in Octets
    PROVE  /\ writeUTF(t) \in Octets /\ Len(writeUTF(t)) = 2 + Len(t)
           /\ writeUTF(t) \o r \in Octets
           /\ Len(writeUTF(t) \o r) = 2 + Len(t) + Len(r)
           /\ readInt(writeUTF(t) \o r, 1) = Len(t)
           /\ Utf(writeUTF(t) \o r, 1) = t
           /\ After(writeUTF(t) \o r, 1) = r
<1> DEFINE u == writeUTF(t)
           e == <<>>
<1>1. writeInt(Len(t)) \in Octets /\ Len(writeInt(Len(t))) = 2
  BY IntOctets
<1>2. u \in Octets /\ Len(u) = 2 + Len(t)
  BY <1>1, Both DEF writeUTF
<1>3. e \in Octets /\ Len(e) = 0 /\ e \o u = u
  BY <1>2, NoOctets
<1> HIDE DEF u, e
<1>4. 1 = Len(e) + 1
  BY ONLY <1>3
<1> USE DEF u
<1>5. /\ e \o u \o r \in Octets /\ Len(e \o u \o r) = Len(e) + 2 + Len(t) + Len(r)
      /\ readInt(e \o u \o r, Len(e) + 1) = Len(t) /\ Utf(e \o u \o r, Len(e) + 1) = t /\ After(e \o u \o r, Len(e) + 1) = r
  <2>a. e \in Octets
    BY <1>3
  <2>1. /\ e \o writeUTF(t) \o r \in Octets
        /\ Len(e \o writeUTF(t) \o r) = Len(e) + 2 + Len(t) + Len(r)
    BY ONLY <2>a, t \in Octets, Len(t) \in Word, r \in Octets, TextInside
  <2>2. /\ readInt(e \o writeUTF(t) \o r, Len(e) + 1) = Len(t)
        /\ Utf(e \o writeUTF(t) \o r, Len(e) + 1) = t
    BY ONLY <2>a, t \in Octets, Len(t) \in Word, r \in Octets, TextInside
  <2>3. After(e \o writeUTF(t) \o r, Len(e) + 1) = r
    BY ONLY <2>a, t \in Octets, Len(t) \in Word, r \in Octets, TextInside
  <2> QED BY ONLY <2>1, <2>2, <2>3 DEF u
<1>6. Len(e) + 2 + Len(t) + Len(r) = 2 + Len(t) + Len(r)
  BY <1>3, LenIsNat
<1> HIDE DEF u
<1>7. /\ u \o r \in Octets /\ Len(u \o r) = 2 + Len(t) + Len(r)
      /\ readInt(u \o r, 1) = Len(t) /\ Utf(u \o r, 1) = t /\ After(u \o r, 1) = r
  BY <1>3, <1>4, <1>5, <1>6
<1> QED BY <1>2, <1>7 DEF u

LEMMA TextLast ==
    ASSUME NEW h \in Octets, NEW t \in Octets, Len(t) \in Word
    PROVE  /\ h \o writeUTF(t) \in Octets
           /\ Len(h \o writeUTF(t)) = Len(h) + 2 + Len(t)
           /\ Utf(h \o writeUTF(t), Len(h) + 1) = t
           /\ After(h \o writeUTF(t), Len(h) + 1) = <<>>
<1> DEFINE u == h \o writeUTF(t)
           e == <<>>
<1>1. writeUTF(t) \in Octets /\ e \in Octets /\ Len(e) = 0
  BY TextFirst, NoOctets
<1>2. u \in Octets
  BY <1>1, Both
<1>3. u \o e = u
  BY <1>2, NoOctets
<1> HIDE DEF e
<1>a. ASSUME NEW r \in Octets
      PROVE  /\ Len(u \o r) = Len(h) + 2 + Len(t) + Len(r)
             /\ Utf(u \o r, Len(h) + 1) = t /\ After(u \o r, Len(h) + 1) = r
  BY TextInside
<1>4. /\ Len(u \o e) = Len(h) + 2 + Len(t) + Len(e)
      /\ Utf(u \o e, Len(h) + 1) = t /\ After(u \o e, Len(h) + 1) = e
  BY <1>1, <1>a
<1>5. Len(h) + 2 + Len(t) + Len(e) = Len(h) + 2 + Len(t)
  BY <1>1, LenIsNat
<1> HIDE DEF u
<1>6. Len(u) = Len(h) + 2 + Len(t) /\ Utf(u, Len(h) + 1) = t /\ After(u, Len(h) + 1) = e
  BY <1>3, <1>4, <1>5
<1> QED BY <1>2, <1>6 DEF u, e

\* The data of a PUBLISH: the name of the topic, the id unless the level is 0, the payload.
PublishData(t, qos, n, q) == writeUTF(t) \o (IF qos = 0 THEN <<>> ELSE writeInt(n)) \o q

IsPublishData(d, t, qos, n, q) ==
    /\ d \in Octets /\ Len(d) = Len(t) + Len(q) + (IF qos = 0 THEN 2 ELSE 4)
    /\ readInt(d, 1) = Len(t)
    /\ Utf(d, 1) = t
    /\ qos = 0 => From(d, Len(t) + 3) = q /\ After(d, 1) = q
    /\ qos # 0 => /\ readInt(d, Len(t) + 3) = n
                 /\ From(d, Len(t) + 5) = q
                 /\ After(d, 1) = writeInt(n) \o q
    /\ readInt(writeInt(n) \o q, 1) = n /\ From(writeInt(n) \o q, 3) = q

LEMMA PublishDataParts ==
    ASSUME NEW t \in Octets, Len(t) \in Word, NEW qos, NEW n \in Word, NEW q \in Octets
    PROVE  IsPublishData(PublishData(t, qos, n, q), t, qos, n, q)
<1> DEFINE d == PublishData(t, qos, n, q)
           u == writeUTF(t)
           w == writeInt(n)
<1>1. u \in Octets /\ Len(u) = 2 + Len(t) /\ Len(t) \in Nat /\ Len(q) \in Nat
  BY TextFirst, LenIsNat
<1>2. w \in Octets /\ Len(w) = 2 /\ readInt(w, 1) = n
  BY IntOctets
<1>3. readInt(w \o q, 1) = n /\ From(w \o q, 3) = q
  <2> HIDE DEF w
  <2>1. 1 \in Nat /\ 1 <= 1 /\ 1 + 1 <= Len(w) /\ Len(w) + 1 = 3
    BY <1>2
  <2> QED BY <1>2, <2>1, ReadFirst, Second
<1>4. CASE qos = 0
  <2>1. d = u \o q
    BY <1>1, <1>4, NoOctets DEF PublishData
  <2>2. /\ d \in Octets /\ Len(d) = 2 + Len(t) + Len(q) /\ readInt(d, 1) = Len(t)
        /\ Utf(d, 1) = t /\ After(d, 1) = q
    BY <2>1, TextFirst
  <2> HIDE DEF d, u, w
  <2>3. Len(d) = Len(t) + Len(q) + 2
    BY <1>1, <2>2
  <2>4. From(d, Len(t) + 3) = q
    <3>1. Len(u) + 1 = Len(t) + 3
      BY <1>1
    <3> QED BY <1>1, <2>1, <3>1, Second
  <2> QED BY <1>3, <1>4, <2>2, <2>3, <2>4 DEF IsPublishData, d, u, w
<1>5. CASE qos # 0
  <2>1. d = u \o w \o q
    BY <1>5 DEF PublishData
  <2>2. w \o q \in Octets /\ Len(w \o q) = 2 + Len(q)
    BY <1>2, Both
  <2>3. u \o w \o q = u \o (w \o q)
    BY <1>1, <1>2, Associative
  <2>4. LET r == w \o q
        IN  /\ u \o r \in Octets /\ Len(u \o r) = 2 + Len(t) + Len(r)
            /\ readInt(u \o r, 1) = Len(t) /\ Utf(u \o r, 1) = t /\ After(u \o r, 1) = r
    BY <2>2, TextFirst
  <2>5. readInt(u \o w \o q, Len(u) + 1) = n /\ From(u \o w \o q, Len(u) + 3) = q
    BY <1>1, Around
  <2>6. Len(u) + 1 = Len(t) + 3 /\ Len(u) + 3 = Len(t) + 5
    BY <1>1
  <2> HIDE DEF d, u, w
  <2>7. readInt(d, Len(t) + 3) = n /\ From(d, Len(t) + 5) = q
    BY <2>1, <2>5, <2>6
  <2>8. /\ d \in Octets /\ readInt(d, 1) = Len(t) /\ Utf(d, 1) = t /\ After(d, 1) = w \o q
    BY <2>1, <2>3, <2>4
  <2>9. Len(d) = Len(t) + Len(q) + 4
    BY <1>1, <2>1, <2>2, <2>3, <2>4
  <2> QED BY <1>3, <1>5, <2>7, <2>8, <2>9 DEF IsPublishData, d, u, w
<1> QED BY <1>4, <1>5

LEMMA BrokerPublishRead ==
    ASSUME NEW dup \in {0, 1}, NEW qos \in 0 .. 2, NEW retain \in {0, 1}, NEW n \in Word,
           NEW t \in Octets, Len(t) \in Word, NEW q \in Octets,
           NEW h, h = 16 * 3 + (8 * dup + 2 * qos + retain)
    PROVE  BrokerReader([header |-> h, data |-> PublishData(t, qos, n, q)])
             = [type |-> "PUBLISH", dup |-> dup, qos |-> qos, retain |-> retain, topic |-> t,
                msgID |-> IF qos = 0 THEN 0 ELSE n, payload |-> q]
<1> DEFINE d == PublishData(t, qos, n, q)
           p == [header |-> h, data |-> d]
           l == readInt(p.data, 1)
           start == l + 3 + IF HeaderQos(p) > 0 THEN 2 ELSE 0
<1>1. /\ h \div 16 = 3 /\ (h \div 8) % 2 = dup /\ (h \div 2) % 4 = qos /\ h % 2 = retain
  <2> DEFINE k == 3
  <2>1. k \in Nat /\ h \in Nat /\ h = 16 * k + (8 * dup + 2 * qos + retain)
    OBVIOUS
  <2> HIDE DEF k
  <2>2. /\ h \div 16 = k /\ (h \div 8) % 2 = dup /\ (h \div 2) % 4 = qos /\ h % 2 = retain
    BY ONLY <2>1, dup \in {0, 1}, qos \in 0 .. 2, retain \in {0, 1}
  <2> QED BY <2>2 DEF k
<1>2. /\ readInt(d, 1) = Len(t) /\ Utf(d, 1) = t
      /\ qos = 0 => From(d, Len(t) + 3) = q
      /\ qos # 0 => readInt(d, Len(t) + 3) = n /\ From(d, Len(t) + 5) = q
  <2>1. IsPublishData(d, t, qos, n, q)
    BY PublishDataParts
  <2> QED BY <2>1 DEF IsPublishData
<1>3. Len(t) \in Nat
  BY LenIsNat
<1> HIDE DEF d
<1>4. p.data = d /\ p.header = h
  OBVIOUS
<1> HIDE DEF p
<1>5. HeaderDup(p) = dup /\ HeaderQos(p) = qos /\ HeaderRetain(p) = retain
  BY <1>1, <1>4 DEF HeaderDup, HeaderQos, HeaderRetain
<1>6. l = Len(t)
  BY <1>2, <1>4
<1>7. From(p.data, start) = q
  <2>1. CASE qos = 0
    <3>1. start = Len(t) + 3
      BY <1>3, <1>5, <1>6, <2>1
    <3> QED BY <1>2, <1>4, <2>1, <3>1
  <2>2. CASE qos # 0
    <3>1. start = Len(t) + 5
      BY <1>3, <1>5, <1>6, <2>2
    <3> QED BY <1>2, <1>4, <2>2, <3>1
  <2> QED BY <2>1, <2>2
<1>8. SubSeq(p.data, 3, l + 2) = t
  <2>1. 1 + 2 = 3 /\ 1 + 1 + Len(t) = l + 2
    BY <1>3, <1>6
  <2> QED BY <1>2, <1>4, <2>1 DEF Utf
<1>9. (IF HeaderQos(p) > 0 THEN readInt(p.data, l + 3) ELSE 0) = IF qos = 0 THEN 0 ELSE n
  BY <1>2, <1>4, <1>5, <1>6
<1>10. BrokerReader(p) = getPUBLISH(p)
  <2>1. HeaderType(p) = MqttCode["PUBLISH"]
    BY <1>1, <1>4 DEF HeaderType, MqttCode
  <2> QED BY <2>1, BrokerChooses
<1>11. getPUBLISH(p)
         = [type |-> "PUBLISH", dup |-> HeaderDup(p), qos |-> HeaderQos(p),
            retain |-> HeaderRetain(p), topic |-> SubSeq(p.data, 3, l + 2),
            msgID |-> IF HeaderQos(p) > 0 THEN readInt(p.data, l + 3) ELSE 0,
            payload |-> From(p.data, start)]
  BY DEF getPUBLISH
<1> HIDE DEF l, start
<1>12. getPUBLISH(p)
         = [type |-> "PUBLISH", dup |-> dup, qos |-> qos, retain |-> retain, topic |-> t,
            msgID |-> IF qos = 0 THEN 0 ELSE n, payload |-> q]
  BY <1>5, <1>7, <1>8, <1>9, <1>11, Zenon
<1> QED BY <1>10, <1>12 DEF p, d

\* The names of the model are names.
Name ==
    {s \in Octets : Len(s) = 2 \/ (Len(s) = 4 /\ \E i \in DOMAIN Names : Names[i] = s)}

LEMMA NamesAreNames ==
    /\ \A i \in DOMAIN Names : Names[i] \in Name /\ Len(Names[i]) = 4
    /\ ShortTopic.name \in Name /\ Len(ShortTopic.name) = 2
<1>1. ASSUME NEW i \in DOMAIN Names
      PROVE  Names[i] \in Name /\ Len(Names[i]) = 4
  <2> DEFINE a == <<110 + i[1], 47>>
             w == writeInt(i[2])
  <2>0. DOMAIN Names = {NORMAL, PREDEFINED} \X Ids
    BY DEF Names
  <2>1. i \in {NORMAL, PREDEFINED} \X Ids /\ Names[i] = a \o w
    BY <2>0 DEF Names
  <2>2. i[1] \in Nat /\ i[2] \in Word
    <3>1. i[1] \in {0, 1} /\ i[2] \in Ids
      BY <2>1 DEF NORMAL, PREDEFINED
    <3> QED BY <3>1, IdIsWord
  <2>3. a \in Octets /\ Len(a) = 2
    BY <2>2 DEF Octets
  <2> HIDE DEF a
  <2>4. w \in Octets /\ Len(w) = 2
    BY <2>2, IntOctets
  <2> HIDE DEF w
  <2>5. a \o w \in Octets /\ Len(a \o w) = Len(a) + Len(w)
    BY <2>3, <2>4, Both
  <2>6. Len(a \o w) = 4
    BY <2>3, <2>4, <2>5
  <2> QED BY <2>1, <2>5, <2>6 DEF Name
<1>2. ShortTopic.name \in Name /\ Len(ShortTopic.name) = 2
  <2>1. ShortTopic.name \in Octets /\ Len(ShortTopic.name) = 2
    BY ShortTopicIsShort
  <2> DEFINE t == ShortTopic.name
  <2> HIDE DEF t
  <2>2. t \in Octets /\ Len(t) = 2 => t \in Name
    BY DEF Name
  <2> QED BY <2>1, <2>2 DEF t
<1> QED BY <1>1, <1>2

BrokerPublishes ==
    [type : {"PUBLISH"}, dup : {0, 1}, qos : 0 .. 2, retain : {0, 1}, msgID : Word,
     topic : Name, payload : AnyText]

\* What the broker sends.
LEMMA BrokerMessagesAre ==
    ASSUME NEW msg \in BrokerMessages
    PROVE  \/ msg \in BrokerPublishes
           \/ msg \in [type : {"CONNACK"}, rc : 0 .. 5]
           \/ msg \in [type : {"SUBACK"}, msgID : Ids, rc : {0, 1, 2, 128}]
           \/ msg \in [type : BrokerAcks, msgID : Ids]
<1>1. ASSUME NEW t, t \in {Names[i] : i \in DOMAIN Names} \cup {ShortTopic.name}
      PROVE  t \in Name
  BY <1>1, NamesAreNames
<1>2. Ids \subseteq Word
  BY IdIsWord
<1>3. Texts \subseteq AnyText /\ ShortTexts \subseteq AnyText
  BY TextsAreTexts
<1>4. CASE msg \in [type : {"PUBLISH"}, dup : Bit, qos : Qos, retain : Bit, msgID : Ids,
                    topic : {Names[i] : i \in DOMAIN Names} \cup {ShortTopic.name},
                    payload : ShortTexts]
  <2> DEFINE T == {Names[i] : i \in DOMAIN Names} \cup {ShortTopic.name}
  <2>1. T \subseteq Name
    BY <1>1
  <2> HIDE DEF T
  <2>2. msg \in [type : {"PUBLISH"}, dup : Bit, qos : Qos, retain : Bit, msgID : Ids,
                 topic : T, payload : ShortTexts]
    BY <1>4 DEF T
  <2>3. msg \in BrokerPublishes
    BY <1>2, <1>3, <2>1, <2>2 DEF Bit, Qos, BrokerPublishes
  <2> QED BY <2>3
<1>5. CASE msg \in [type : {"PUBLISH"}, dup : {0}, qos : {1}, retain : {0}, msgID : Ids,
                    topic : {ShortTopic.name}, payload : Texts]
  <2>1. {ShortTopic.name} \subseteq Name
    BY <1>1
  <2>2. msg \in BrokerPublishes
    BY <1>2, <1>3, <1>5, <2>1 DEF BrokerPublishes
  <2> QED BY <2>2
<1> QED BY <1>4, <1>5 DEF BrokerMessages, Acks, BrokerAcks

\* What the gateway makes of it: the id of a PUBLISH at QoS 0 is 0.
Heard(msg) ==
    IF msg.type = "PUBLISH"
    THEN [type |-> "PUBLISH", dup |-> msg.dup, qos |-> msg.qos, retain |-> msg.retain,
          topic |-> msg.topic, msgID |-> IF msg.qos = 0 THEN 0 ELSE msg.msgID,
          payload |-> msg.payload]
    ELSE msg

LEMMA NameLength ==
    ASSUME NEW t \in Name
    PROVE  t \in Octets /\ Len(t) \in Word /\ Len(t) \in Nat /\ Len(t) <= 4
<1> DEFINE l == Len(t)
<1>1. t \in Octets /\ l \in {2, 4}
  BY DEF Name
<1> HIDE DEF l
<1>2. l \in Nat /\ l <= 4 /\ l <= 1016
  BY <1>1
<1>3. l \in Word
  BY <1>2, LengthIsWord
<1> QED BY <1>1, <1>2, <1>3 DEF l

LEMMA PublishDataFits ==
    ASSUME NEW t \in Name, NEW qos, NEW n \in Word, NEW q \in AnyText
    PROVE  PublishData(t, qos, n, q) \in Sendable
<1> DEFINE d == PublishData(t, qos, n, q)
           l == Len(d)
           x == Len(t)
           y == Len(q)
<1>1. t \in Octets /\ x \in Word /\ x \in Nat /\ x <= 4
  BY NameLength
<1>2. q \in Octets /\ y <= 1016
  BY DEF AnyText
<1>3. y \in Nat
  BY <1>2, LenIsNat
<1>4. IsPublishData(d, t, qos, n, q)
  BY <1>1, <1>2, PublishDataParts
<1> HIDE DEF d
<1>5. d \in Octets /\ l = x + y + (IF qos = 0 THEN 2 ELSE 4)
  BY <1>4 DEF IsPublishData
<1> HIDE DEF l, x, y
<1>6. l = x + y + 2 \/ l = x + y + 4
  BY <1>5
<1>7. l < 16384
  BY <1>1, <1>2, <1>3, <1>6
<1> QED BY <1>5, <1>7 DEF Sendable, l, d

LEMMA PublishHeard ==
    ASSUME NEW msg \in BrokerPublishes
    PROVE  BrokerReader(recv(BrokerWrites(msg))) = Heard(msg)
<1>1. PICK dup \in {0, 1}, qos \in 0 .. 2, retain \in {0, 1}, n \in Word, t \in Name, q \in AnyText :
        msg = [type |-> "PUBLISH", dup |-> dup, qos |-> qos, retain |-> retain, msgID |-> n,
               topic |-> t, payload |-> q]
  <2>1. /\ msg.dup \in {0, 1} /\ msg.qos \in 0 .. 2 /\ msg.retain \in {0, 1}
        /\ msg.msgID \in Word /\ msg.topic \in Name /\ msg.payload \in AnyText
        /\ msg = [type |-> "PUBLISH", dup |-> msg.dup, qos |-> msg.qos, retain |-> msg.retain,
                  msgID |-> msg.msgID, topic |-> msg.topic, payload |-> msg.payload]
    BY DEF BrokerPublishes
  <2> QED BY <2>1, Zenon
<1> DEFINE d == PublishData(t, qos, n, q)
           f == 8 * dup + 2 * qos + retain
           k == 3
           h == 16 * k + f
<1>2. d \in Sendable /\ t \in Octets /\ Len(t) \in Word /\ q \in Octets
  BY PublishDataFits, NameLength DEF AnyText
<1>3. BrokerData(msg) = d
  BY <1>1 DEF BrokerData, PublishData, writeUTF
<1>4. f \in 0 .. 15
  OBVIOUS
<1>5. BrokerFlags(msg) = f
  BY <1>1 DEF BrokerFlags
<1>6. k \in Nat /\ MqttCode[msg.type] = k
  BY <1>1 DEF MqttCode
<1>7. h = 16 * 3 + (8 * dup + 2 * qos + retain)
  OBVIOUS
<1>8. ASSUME NEW x, x = h
      PROVE  BrokerReader([header |-> x, data |-> PublishData(t, qos, n, q)])
         = [type |-> "PUBLISH", dup |-> dup, qos |-> qos, retain |-> retain, topic |-> t,
            msgID |-> IF qos = 0 THEN 0 ELSE n, payload |-> q]
  <2>1. x = 16 * 3 + (8 * dup + 2 * qos + retain)
    BY <1>7, <1>8
  <2> HIDE DEF h
  <2> QED BY <1>2, <2>1, BrokerPublishRead
<1> HIDE DEF d, f, k
<1>9. recv(BrokerWrites(msg)) = [header |-> h, data |-> d]
  BY <1>2, <1>3, <1>4, <1>5, <1>6, BrokerPacket
<1>10. Heard(msg) = [type |-> "PUBLISH", dup |-> dup, qos |-> qos, retain |-> retain, topic |-> t,
                     msgID |-> IF qos = 0 THEN 0 ELSE n, payload |-> q]
  BY <1>1 DEF Heard
<1> QED BY <1>8, <1>9, <1>10 DEF d

LEMMA ConnackHeard ==
    ASSUME NEW msg \in [type : {"CONNACK"}, rc : 0 .. 5]
    PROVE  BrokerReader(recv(BrokerWrites(msg))) = Heard(msg)
<1> DEFINE d == <<0, msg.rc>>
<1>1. msg.type = "CONNACK" /\ msg.rc \in 0 .. 5 /\ msg = [type |-> "CONNACK", rc |-> msg.rc]
  OBVIOUS
<1>2. BrokerData(msg) = d /\ BrokerFlags(msg) = 0
  BY <1>1 DEF BrokerData, BrokerFlags
<1>3. d \in Sendable /\ d[2] = msg.rc
  BY <1>1 DEF Octets, Sendable
<1> HIDE DEF d
<1> DEFINE k == MqttCode["CONNACK"]
           f == 0
           p == recv(BrokerWrites(msg))
<1>4. k \in Nat /\ MqttCode[msg.type] = k /\ f \in 0 .. 15 /\ BrokerFlags(msg) = f
  BY <1>1, <1>2 DEF MqttCode
<1> HIDE DEF k, f
<1>a. p = [header |-> 16 * k + f, data |-> d] /\ (16 * k + f) \div 16 = k
  BY <1>2, <1>3, <1>4, BrokerPacket
<1>5. p.data = d /\ HeaderType(p) = MqttCode["CONNACK"]
  BY <1>a DEF HeaderType, k
<1> HIDE DEF p
<1>6. BrokerReader(p) = [type |-> "CONNACK", rc |-> msg.rc]
  BY <1>3, <1>5, BrokerChooses DEF getCONNACK
<1> QED BY <1>1, <1>6 DEF Heard, p

\* An acknowledgement, also with another id.
LEMMA SubackHeard ==
    ASSUME NEW msg, NEW n \in Ids, NEW rc \in Nat, msg = [type |-> "SUBACK", msgID |-> n, rc |-> rc]
    PROVE  LET p == recv(BrokerWrites(msg))
           IN  /\ BrokerReader(p) = msg /\ mqttMsgId(p) = n
               /\ \A i \in Ids : BrokerReader(setAckMsgId(p, i)) = [msg EXCEPT !.msgID = i]
<1> DEFINE b == <<rc>>
           w == writeInt(n)
           d == w \o b
           k == MqttCode["SUBACK"]
           f == 0
           h == 16 * k + f
<1>1. n \in Word
  BY IdIsWord
<1>2. BrokerData(msg) = d /\ BrokerFlags(msg) = f
  BY DEF BrokerData, BrokerFlags
<1>3. b \in Octets /\ Len(b) = 1
  BY OneOctet
<1>4. w \in Octets /\ Len(w) = 2
  BY <1>1, IntOctets
<1> HIDE DEF b, w
<1>5. d \in Octets /\ Len(d) = Len(w) + Len(b)
  BY <1>3, <1>4, Both
<1> HIDE DEF d
<1>6. d \in Sendable
  BY <1>3, <1>4, <1>5 DEF Sendable
<1>7. k \in Nat /\ MqttCode[msg.type] = k /\ f \in 0 .. 15
  BY DEF MqttCode
<1> HIDE DEF k, f
<1>8. recv(BrokerWrites(msg)) = [header |-> h, data |-> d] /\ h \div 16 = k
  BY <1>2, <1>6, <1>7, BrokerPacket
<1> HIDE DEF h
<1>9. ASSUME NEW i \in Word
      PROVE  /\ BrokerReader([header |-> h, data |-> writeInt(i) \o b])
                   = [type |-> "SUBACK", msgID |-> i, rc |-> rc]
             /\ mqttMsgId([header |-> h, data |-> writeInt(i) \o b]) = i
  BY <1>8, BrokerSubackRead DEF k, b
<1>10. ASSUME NEW i \in Ids
       PROVE  BrokerReader(setAckMsgId([header |-> h, data |-> d], i)) = [msg EXCEPT !.msgID = i]
  <2>1. i \in Word
    BY IdIsWord
  <2>2. setAckMsgId([header |-> h, data |-> writeInt(n) \o b], i)
          = [header |-> h, data |-> writeInt(i) \o b]
    BY <1>1, <1>3, <2>1, DataWithId
  <2>3. BrokerReader([header |-> h, data |-> writeInt(i) \o b])
          = [type |-> "SUBACK", msgID |-> i, rc |-> rc]
    BY <1>9, <2>1
  <2>4. [msg EXCEPT !.msgID = i] = [type |-> "SUBACK", msgID |-> i, rc |-> rc]
    OBVIOUS
  <2> QED BY <2>2, <2>3, <2>4 DEF d, w
<1>11. BrokerReader([header |-> h, data |-> d]) = msg /\ mqttMsgId([header |-> h, data |-> d]) = n
  BY <1>1, <1>9 DEF d, w
<1> QED BY <1>8, <1>10, <1>11

LEMMA FewOctets ==
    ASSUME NEW d \in Octets, NEW l \in Nat, Len(d) = l, l < 16384
    PROVE  d \in Sendable
BY DEF Sendable

LEMMA AckHeard ==
    ASSUME NEW msg, NEW n \in Ids, NEW type \in BrokerAcks, msg = [type |-> type, msgID |-> n]
    PROVE  LET p == recv(BrokerWrites(msg))
           IN  /\ BrokerReader(p) = msg /\ mqttMsgId(p) = n
               /\ \A i \in Ids : BrokerReader(setAckMsgId(p, i)) = [msg EXCEPT !.msgID = i]
<1> DEFINE e == <<>>
           d == writeInt(n)
           k == MqttCode[type]
           f == BrokerFlags(msg)
           h == 16 * k + f
<1>1. n \in Word
  BY IdIsWord
<1>2. BrokerData(msg) = d
  BY DEF BrokerData, BrokerAcks
<1>3. f \in 0 .. 15
  <2>1. f = 0 \/ f = 2
    BY DEF BrokerFlags, BrokerAcks
  <2> QED BY <2>1
<1>4. d \in Octets /\ Len(d) = 2 /\ e \in Octets /\ d \o e = d
  BY <1>1, IntOctets, NoOctets
<1> HIDE DEF d, k, f, e
<1>5. d \in Sendable
  <2>1. 2 \in Nat /\ 2 < 16384
    OBVIOUS
  <2> QED BY <1>4, <2>1, FewOctets
<1>6. k \in Nat /\ MqttCode[msg.type] = k
  BY DEF MqttCode, BrokerAcks, k
<1>7. recv(BrokerWrites(msg)) = [header |-> h, data |-> d] /\ h \div 16 = k
  BY <1>2, <1>3, <1>5, <1>6, BrokerPacket DEF f
<1> HIDE DEF h
<1>8. ASSUME NEW i \in Word
      PROVE  /\ BrokerReader([header |-> h, data |-> writeInt(i)]) = [type |-> type, msgID |-> i]
             /\ mqttMsgId([header |-> h, data |-> writeInt(i)]) = i
  BY <1>7, BrokerAckRead DEF k
<1>9. BrokerReader([header |-> h, data |-> d]) = msg /\ mqttMsgId([header |-> h, data |-> d]) = n
  BY <1>1, <1>8 DEF d
<1>10. ASSUME NEW i \in Ids
       PROVE  BrokerReader(setAckMsgId([header |-> h, data |-> d], i)) = [msg EXCEPT !.msgID = i]
  <2>1. i \in Word
    BY IdIsWord
  <2>2. setAckMsgId([header |-> h, data |-> writeInt(n) \o e], i)
          = [header |-> h, data |-> writeInt(i) \o e]
    BY <1>1, <1>4, <2>1, DataWithId
  <2>3. writeInt(i) \o e = writeInt(i)
    BY <2>1, IntOctets, NoOctets DEF e
  <2>4. setAckMsgId([header |-> h, data |-> d], i) = [header |-> h, data |-> writeInt(i)]
    BY <1>4, <2>2, <2>3 DEF d
  <2>5. BrokerReader([header |-> h, data |-> writeInt(i)]) = [type |-> type, msgID |-> i]
    BY <1>8, <2>1
  <2>6. [msg EXCEPT !.msgID = i] = [type |-> type, msgID |-> i]
    OBVIOUS
  <2> QED BY <2>4, <2>5, <2>6
<1> QED BY <1>7, <1>9, <1>10

\* Every packet of the broker is read, and every id is replaced.
LEMMA BrokerMessagesHeard ==
    ASSUME NEW msg \in BrokerMessages
    PROVE  /\ BrokerReader(recv(BrokerWrites(msg))) = Heard(msg)
           /\ msg.type \notin {"PUBLISH", "CONNACK"} =>
                /\ mqttMsgId(recv(BrokerWrites(msg))) = msg.msgID
                /\ \A i \in Ids : BrokerReader(setAckMsgId(recv(BrokerWrites(msg)), i))
                                    = [msg EXCEPT !.msgID = i]
<1>1. CASE msg \in BrokerPublishes
  <2>1. msg.type = "PUBLISH"
    BY <1>1 DEF BrokerPublishes
  <2> QED BY <1>1, <2>1, PublishHeard
<1>2. CASE msg \in [type : {"CONNACK"}, rc : 0 .. 5]
  <2>1. msg.type = "CONNACK"
    BY <1>2
  <2> QED BY <1>2, <2>1, ConnackHeard
<1>3. CASE msg \in [type : {"SUBACK"}, msgID : Ids, rc : {0, 1, 2, 128}]
  <2>1. /\ msg.type = "SUBACK" /\ msg.msgID \in Ids /\ msg.rc \in Nat
        /\ msg = [type |-> "SUBACK", msgID |-> msg.msgID, rc |-> msg.rc]
    BY <1>3
  <2>2. Heard(msg) = msg
    BY <2>1 DEF Heard
  <2> QED BY <2>1, <2>2, SubackHeard
<1>4. CASE msg \in [type : BrokerAcks, msgID : Ids]
  <2>1. /\ msg.type \in BrokerAcks /\ msg.msgID \in Ids
        /\ msg = [type |-> msg.type, msgID |-> msg.msgID]
    BY <1>4
  <2>2. Heard(msg) = msg
    BY <2>1 DEF Heard, BrokerAcks
  <2> QED BY <2>1, <2>2, AckHeard
<1> QED BY <1>1, <1>2, <1>3, <1>4, BrokerMessagesAre

---------------------------------------------------------------------------
(* What a client is told. *)

\* What the gateway makes of what it has heard.
Answer(msg) == ToSn(Heard(msg))

\* The payloads leave room.
LEMMA ShorterPayloads ==
    ASSUME NEW msg \in BrokerMessages, msg.type = "PUBLISH"
    PROVE  msg \in BrokerPublishes /\ msg.payload \in Texts
<1>1. msg \in BrokerPublishes
  <2>1. \A x : x \in [type : {"CONNACK"}, rc : 0 .. 5] => x.type # "PUBLISH"
    OBVIOUS
  <2>2. \A x : x \in [type : {"SUBACK"}, msgID : Ids, rc : {0, 1, 2, 128}] => x.type # "PUBLISH"
    OBVIOUS
  <2>3. \A x : x \in [type : BrokerAcks, msgID : Ids] => x.type # "PUBLISH"
    BY DEF BrokerAcks
  <2> QED BY <2>1, <2>2, <2>3, BrokerMessagesAre
<1>2. ShortTexts \subseteq Texts
  BY LengthsAssumption DEF Texts, ShortTexts
<1>3. msg.payload \in Texts
  <2>1. CASE msg \in [type : {"PUBLISH"}, dup : Bit, qos : Qos, retain : Bit, msgID : Ids,
                      topic : {Names[i] : i \in DOMAIN Names} \cup {ShortTopic.name},
                      payload : ShortTexts]
    BY <1>2, <2>1
  <2>2. CASE msg \in [type : {"PUBLISH"}, dup : {0}, qos : {1}, retain : {0}, msgID : Ids,
                      topic : {ShortTopic.name}, payload : Texts]
    BY <2>2
  <2>3. \A x : x \in Acks({"PUBACK", "PUBREC", "PUBREL", "PUBCOMP", "UNSUBACK"}) => x.type # "PUBLISH"
    BY DEF Acks
  <2> QED BY <2>1, <2>2, <2>3 DEF BrokerMessages
<1> QED BY <1>1, <1>3

\* The topic by which a client knows a name of the broker.
TopicFor(t) ==
    IF Len(t) = 2 THEN Topic(SHORT, 0, t)
    ELSE LET i == CHOOSE i \in {i \in DOMAIN Names : Names[i] = t} : TRUE
         IN  Topic(i[1], i[2], <<>>)

LEMMA TopicIsKnown ==
    ASSUME NEW t \in Name
    PROVE  IsTwoOctets(TopicFor(t)) /\ NameOf(TopicFor(t), Names) = t
<1> DEFINE ids == {i \in DOMAIN Names : Names[i] = t}
           j == CHOOSE i \in ids : TRUE
<1>1. CASE Len(t) = 2
  <2>1. TopicFor(t) = [kind |-> SHORT, id |-> 0, name |-> t] /\ t \in Octets
    BY <1>1 DEF TopicFor, Topic, Name
  <2> QED BY <1>1, <2>1 DEF IsTwoOctets, NameOf
<1>2. CASE Len(t) # 2
  <2>1. \E i \in DOMAIN Names : Names[i] = t
    BY <1>2 DEF Name
  <2>2. j \in DOMAIN Names /\ Names[j] = t
    <3>1. \E i : i \in ids
      BY <2>1
    <3>2. j \in ids
      BY <3>1, Zenon
    <3> QED BY <3>2
  <2>3. TopicFor(t) = Topic(j[1], j[2], <<>>)
    BY <1>2 DEF TopicFor
  <2> HIDE DEF j
  <2>4. DOMAIN Names = {NORMAL, PREDEFINED} \X Ids
    BY DEF Names
  <2>5. j[1] \in {NORMAL, PREDEFINED} /\ j[2] \in Ids /\ j = <<j[1], j[2]>>
    BY <2>2, <2>4
  <2>6. j[2] \in Word
    BY <2>5, IdIsWord
  <2>7. TopicFor(t) = [kind |-> j[1], id |-> j[2], name |-> <<>>]
    BY <2>3 DEF Topic
  <2>8. j[1] # SHORT
    BY <2>5 DEF NORMAL, PREDEFINED, SHORT
  <2>9. IsTwoOctets(TopicFor(t))
    BY <2>5, <2>6, <2>7 DEF IsTwoOctets
  <2>10. NameOf(TopicFor(t), Names) = Names[<<j[1], j[2]>>]
    BY <2>7, <2>8 DEF NameOf
  <2> QED BY <2>2, <2>5, <2>9, <2>10
<1> QED BY <1>1, <1>2

\* A PUBLISH.
LEMMA PublishAnswered ==
    ASSUME NEW msg \in BrokerMessages, msg.type = "PUBLISH"
    PROVE  /\ IsTold(Answer(msg)) /\ HasRoom(Answer(msg))
           /\ [Answer(msg) EXCEPT !.topic = NameOf(@, Names)]
                = [msg EXCEPT !.msgID = IF msg.qos = 0 THEN 0 ELSE @]
<1> DEFINE a == Answer(msg)
           k == TopicFor(msg.topic)
           n == IF msg.qos = 0 THEN 0 ELSE msg.msgID
<1>1. msg \in BrokerPublishes /\ msg.payload \in Texts
  BY ShorterPayloads
<1>2. /\ msg.dup \in {0, 1} /\ msg.qos \in 0 .. 2 /\ msg.retain \in {0, 1} /\ msg.msgID \in Word
      /\ msg.topic \in Name /\ msg.payload \in AnyText
      /\ msg = [type |-> "PUBLISH", dup |-> msg.dup, qos |-> msg.qos, retain |-> msg.retain,
                msgID |-> msg.msgID, topic |-> msg.topic, payload |-> msg.payload]
  BY <1>1 DEF BrokerPublishes
<1>3. IsTwoOctets(k) /\ NameOf(k, Names) = msg.topic
  BY <1>2, TopicIsKnown
<1>4. n \in Word
  BY <1>2, SmallWord
<1>5. a = [type |-> "PUBLISH", dup |-> msg.dup, qos |-> msg.qos, retain |-> msg.retain, msgID |-> n,
           topic |-> k, payload |-> msg.payload]
  <2> DEFINE h == Heard(msg)
  <2>1. h = [type |-> "PUBLISH", dup |-> msg.dup, qos |-> msg.qos, retain |-> msg.retain,
             topic |-> msg.topic, msgID |-> n, payload |-> msg.payload]
    BY DEF Heard
  <2> HIDE DEF h, n
  <2>2. ToSn(h) = ToSnPublish(h, Names)
    BY <2>1 DEF ToSn
  <2>3. ToSnPublish(h, Names)
          = [type |-> "PUBLISH", dup |-> h.dup, qos |-> h.qos, retain |-> h.retain,
             msgID |-> h.msgID, topic |-> TopicFor(h.topic), payload |-> h.payload]
    BY DEF ToSnPublish, TopicFor
  <2> QED BY <2>1, <2>2, <2>3 DEF Answer, h
<1> HIDE DEF a, k, n
<1>6. a \in PublishSet(k) /\ a.qos # 3
  <2>1. msg.qos \in 0 .. 3 /\ msg.qos # 3
    BY <1>2
  <2> QED BY <1>2, <1>4, <1>5, <2>1 DEF PublishSet, Bit
<1>7. a.payload \in Texts
  BY <1>1, <1>5
<1>8. IsTold(a) /\ HasRoom(a)
  BY <1>3, <1>6, <1>7, PublishTold, ShorterTexts
<1>9. [a EXCEPT !.topic = NameOf(@, Names)]
        = [type |-> "PUBLISH", dup |-> msg.dup, qos |-> msg.qos, retain |-> msg.retain,
           msgID |-> n, topic |-> msg.topic, payload |-> msg.payload]
  BY <1>3, <1>5
<1>10. [msg EXCEPT !.msgID = IF msg.qos = 0 THEN 0 ELSE @]
        = [type |-> "PUBLISH", dup |-> msg.dup, qos |-> msg.qos, retain |-> msg.retain,
           msgID |-> n, topic |-> msg.topic, payload |-> msg.payload]
  <2> DEFINE x == [msg EXCEPT !.msgID = IF msg.qos = 0 THEN 0 ELSE @]
  <2>1. x = [msg EXCEPT !.msgID = n]
    BY DEF n
  <2>2. [msg EXCEPT !.msgID = n]
          = [type |-> "PUBLISH", dup |-> msg.dup, qos |-> msg.qos, retain |-> msg.retain,
             msgID |-> n, topic |-> msg.topic, payload |-> msg.payload]
    BY <1>2
  <2> QED BY <2>1, <2>2
<1> QED BY <1>8, <1>9, <1>10 DEF a

\* The others.
LEMMA ConnackAnswered ==
    ASSUME NEW msg \in [type : {"CONNACK"}, rc : 0 .. 5]
    PROVE  /\ IsTold(Answer(msg)) /\ HasRoom(Answer(msg))
           /\ Answer(msg).type = "CONNACK" /\ (Answer(msg).rc = 0 <=> msg.rc = 0)
<1> DEFINE a == Answer(msg)
           rc == CASE msg.rc = 0 -> 0 [] msg.rc = 3 -> 1 [] OTHER -> 3
<1>1. msg.type = "CONNACK" /\ msg.rc \in 0 .. 5
  OBVIOUS
<1>2. a = [type |-> "CONNACK", rc |-> rc]
  BY <1>1 DEF Answer, Heard, ToSn, ToSnConnack
<1>3. rc \in Nat /\ (rc = 0 <=> msg.rc = 0)
  <2>1. CASE msg.rc = 0
    BY <2>1
  <2>2. CASE msg.rc = 3
    BY <2>2
  <2>3. CASE msg.rc # 0 /\ msg.rc # 3
    BY <2>3
  <2> QED BY <2>1, <2>2, <2>3
<1> HIDE DEF a, rc
<1>4. a \in [type : {"CONNACK"}, rc : Nat]
  BY <1>2, <1>3
<1>5. IsTold(a) /\ HasRoom(a)
  BY <1>4, ConnackTold
<1> QED BY <1>2, <1>3, <1>5 DEF a

LEMMA SubackAnswered ==
    ASSUME NEW msg \in [type : {"SUBACK"}, msgID : Ids, rc : {0, 1, 2, 128}]
    PROVE  /\ IsTold(Answer(msg)) /\ HasRoom(Answer(msg))
           /\ Answer(msg).msgID = msg.msgID
           /\ IF Answer(msg).rc = 0 THEN Answer(msg).qos = msg.rc ELSE msg.rc = 128
<1> DEFINE a == Answer(msg)
           qos == IF msg.rc = 128 THEN 0 ELSE msg.rc
           rc == IF msg.rc = 128 THEN 2 ELSE 0
<1>1. msg.type = "SUBACK" /\ msg.msgID \in Ids /\ msg.rc \in {0, 1, 2, 128}
  OBVIOUS
<1>2. a = [type |-> "SUBACK", qos |-> qos, topicID |-> 1, msgID |-> msg.msgID, rc |-> rc]
  BY <1>1 DEF Answer, Heard, ToSn, ToSnSuback
<1>3. /\ qos \in Qos /\ rc \in Nat /\ (IF rc = 0 THEN qos = msg.rc ELSE msg.rc = 128)
  BY <1>1 DEF Qos
<1>4. msg.msgID \in Word /\ 1 \in Word
  BY <1>1, IdIsWord, SmallWord
<1> HIDE DEF a, qos, rc
<1>5. a \in [type : {"SUBACK"}, qos : Qos, topicID : Word, msgID : Word, rc : Nat]
  BY <1>2, <1>3, <1>4
<1>6. IsTold(a) /\ HasRoom(a)
  BY <1>5, SubackTold
<1> QED BY <1>2, <1>3, <1>6 DEF a

LEMMA AckAnswered ==
    ASSUME NEW msg \in [type : BrokerAcks, msgID : Ids]
    PROVE  /\ IsTold(Answer(msg)) /\ HasRoom(Answer(msg))
           /\ IF msg.type = "PUBACK"
              THEN Answer(msg).type = "PUBACK" /\ Answer(msg).msgID = msg.msgID /\ Answer(msg).rc = 0
              ELSE Answer(msg) = msg
<1> DEFINE a == Answer(msg)
<1>1. msg.type \in BrokerAcks /\ msg.msgID \in Ids /\ msg = [type |-> msg.type, msgID |-> msg.msgID]
  OBVIOUS
<1>2. msg.msgID \in Word /\ 1 \in Word
  BY <1>1, IdIsWord, SmallWord
<1>3. CASE msg.type = "PUBACK"
  <2>1. a = [type |-> "PUBACK", topicID |-> 1, msgID |-> msg.msgID, rc |-> 0]
    BY <1>3 DEF Answer, Heard, ToSn
  <2> HIDE DEF a
  <2>2. a \in [type : {"PUBACK", "REGACK"}, topicID : Word, msgID : Word, rc : Nat]
    BY <1>2, <2>1
  <2>3. IsTold(a) /\ HasRoom(a)
    BY <2>2, AckWithTopicTold
  <2> QED BY <1>3, <2>1, <2>3 DEF a
<1>4. CASE msg.type # "PUBACK"
  <2>1. msg.type \in {"PUBREC", "PUBREL", "PUBCOMP", "UNSUBACK"}
    BY <1>1, <1>4 DEF BrokerAcks
  <2>2. a = msg
    BY <2>1 DEF Answer, Heard, ToSn
  <2>3. msg \in [type : {"PUBREC", "PUBREL", "PUBCOMP", "UNSUBACK"}, msgID : Word]
    BY <1>1, <1>2, <2>1
  <2>4. IsTold(msg) /\ HasRoom(msg)
    BY <2>3, AckTold
  <2> QED BY <1>4, <2>2, <2>4
<1> QED BY <1>3, <1>4

\* What the client is to learn from a message of the broker.
Learned(msg, a) ==
    CASE msg.type = "PUBLISH" ->
           [a EXCEPT !.topic = NameOf(@, Names)] = [msg EXCEPT !.msgID = IF msg.qos = 0 THEN 0 ELSE @]
      [] msg.type = "SUBACK"  ->
           /\ a.msgID = msg.msgID
           /\ IF a.rc = 0 THEN a.qos = msg.rc ELSE msg.rc = 128
      [] msg.type = "CONNACK" -> a.type = "CONNACK" /\ (a.rc = 0 <=> msg.rc = 0)
      [] msg.type = "PUBACK"  -> a.type = "PUBACK" /\ a.msgID = msg.msgID /\ a.rc = 0
      [] OTHER                -> a = msg

\* Every answer.
LEMMA BrokerMessagesAnswered ==
    ASSUME NEW msg \in BrokerMessages
    PROVE  IsTold(Answer(msg)) /\ HasRoom(Answer(msg)) /\ Learned(msg, Answer(msg))
<1>1. CASE msg.type = "PUBLISH"
  BY <1>1, PublishAnswered DEF Learned
<1>2. CASE msg \in BrokerPublishes
  <2>1. msg.type = "PUBLISH"
    BY <1>2 DEF BrokerPublishes
  <2> QED BY <1>1, <2>1
<1>3. CASE msg \in [type : {"CONNACK"}, rc : 0 .. 5]
  <2>1. msg.type = "CONNACK"
    BY <1>3
  <2> QED BY <1>3, <2>1, ConnackAnswered DEF Learned
<1>4. CASE msg \in [type : {"SUBACK"}, msgID : Ids, rc : {0, 1, 2, 128}]
  <2>1. msg.type = "SUBACK"
    BY <1>4
  <2> QED BY <1>4, <2>1, SubackAnswered DEF Learned
<1>5. CASE msg \in [type : BrokerAcks, msgID : Ids]
  <2>1. msg.type \in {"PUBACK", "PUBREC", "PUBREL", "PUBCOMP", "UNSUBACK"}
    BY <1>5 DEF BrokerAcks
  <2> QED BY <1>5, <2>1, AckAnswered DEF Learned
<1> QED BY <1>2, <1>3, <1>4, <1>5, BrokerMessagesAre

----------------------------------------------------------------------------
(* The way of the broker's messages. *)

\* What is where.
BrokerWayInv ==
    /\ at \in {"from broker", "answering", "answered", "told"} => m \in BrokerMessages
    /\ at = "from broker" => octets = BrokerWrites(m)
    /\ at = "answering" => got = Heard(m)
    /\ at \in {"answered", "told"} => octets = Gw!SetPacket(ToSn(Heard(m)))
    /\ at = "told" => octets # <<>> /\ got = ClientReader(octets)

\* At every place of its way to a client a message of the broker is what its writer, its reader
\* or its translator has made of it (BrokerWayInv).
THEOREM BrokerWayAlways == Spec => []BrokerWayInv
<1>1. Init => BrokerWayInv
  BY DEF Init, BrokerWayInv
<1>2. BrokerWayInv /\ [Next]_vars => BrokerWayInv'
  <2> SUFFICES ASSUME BrokerWayInv, [Next]_vars
               PROVE  BrokerWayInv'
    OBVIOUS
  <2>1. CASE ClientWrites \/ ForwarderWraps \/ GatewayUnwraps \/ GatewayReads \/ GatewayTranslates
             \/ BrokerReceives \/ GatewayWrites
    <3>1. at' \notin {"from broker", "answering", "answered", "told"}
      BY <2>1 DEF ClientWrites, ForwarderWraps, GatewayUnwraps, GatewayReads, GatewayTranslates,
                  BrokerReceives, GatewayWrites, Move, Put
    <3> QED BY <3>1 DEF BrokerWayInv
  <2>2. CASE BrokerSends
    BY <2>2 DEF BrokerSends, Move, BrokerWayInv
  <2>3. CASE GatewayReceives
    <3>1. /\ at = "from broker" /\ at' = "answering" /\ m' = m
          /\ got' = BrokerReader(recv(octets))
      BY <2>3 DEF GatewayReceives, Move
    <3>2. m \in BrokerMessages /\ octets = BrokerWrites(m)
      BY <3>1 DEF BrokerWayInv
    <3>3. got' = Heard(m')
      BY <3>1, <3>2, BrokerMessagesHeard
    <3> QED BY <3>1, <3>2, <3>3 DEF BrokerWayInv
  <2>4. CASE GatewayAnswers
    <3>1. at = "answering" /\ at' = "answered" /\ m' = m /\ octets' = Gw!SetPacket(ToSn(got))
      BY <2>4 DEF GatewayAnswers, Move
    <3>2. m \in BrokerMessages /\ got = Heard(m)
      BY <3>1 DEF BrokerWayInv
    <3> QED BY <3>1, <3>2 DEF BrokerWayInv
  <2>5. CASE ClientReads
    <3>1. m' = m /\ octets' = octets /\ octets # <<>> /\ got' = ClientReader(octets)
      BY <2>5 DEF ClientReads
    <3>2. CASE at = "answered" /\ at' = "told"
      <4>1. m \in BrokerMessages /\ octets = Gw!SetPacket(ToSn(Heard(m)))
        BY <3>2 DEF BrokerWayInv
      <4> QED BY <3>1, <3>2, <4>1 DEF BrokerWayInv
    <3>3. CASE at' = "client"
      BY <3>3 DEF BrokerWayInv
    <3> QED BY <2>5, <3>2, <3>3 DEF ClientReads, Move
  <2>6. CASE UNCHANGED vars
    BY <2>6 DEF vars, BrokerWayInv
  <2> QED BY <2>1, <2>2, <2>3, <2>4, <2>5, <2>6 DEF Next
<1> QED BY <1>1, <1>2, PTL DEF Spec

\* An acknowledgement of the broker, with an id written over its own as the aggregater does, is
\* read as the same acknowledgement with that id.
THEOREM IdAlwaysReplaced == Spec => []IdIsReplaced
<1>1. BrokerWayInv => IdIsReplaced
  BY BrokerMessagesHeard DEF BrokerWayInv, IdIsReplaced
<1> QED BY <1>1, BrokerWayAlways, PTL

\* A client is told what the broker meant.
THEOREM AlwaysTold == Spec => []ClientIsTold
<1>1. BrokerWayInv => ClientIsTold
  <2> SUFFICES ASSUME BrokerWayInv, at = "told", ~Cut(octets)
               PROVE  Learned(m, got)
    BY DEF ClientIsTold, Learned
  <2>1. m \in BrokerMessages /\ octets = Gw!SetPacket(Answer(m)) /\ octets # <<>>
        /\ got = ClientReader(octets)
    BY DEF BrokerWayInv, Answer
  <2>2. octets = Gw!Serialize(Answer(m))
    BY <2>1 DEF Gw!SetPacket
  <2>3. IsTold(Answer(m)) /\ Learned(m, Answer(m))
    BY <2>1, BrokerMessagesAnswered
  <2>4. got = Answer(m)
    BY <2>1, <2>2, <2>3 DEF IsTold
  <2> QED BY <2>3, <2>4
<1> QED BY <1>1, BrokerWayAlways, PTL

----------------------------------------------------------------------------
(* What the broker reads. *)

\* The lengths that take one, two and three octets.
TwoDigits == 16384
Lengths == 0 .. MaxRemainingLength

\* Each octet takes seven bits off.
LEMMA DigitsLeft ==
    ASSUME NEW n \in Lengths
    PROVE  /\ n \div 128 \in Lengths
           /\ n < TwoDigits => n \div 128 < 128
           /\ ~(n < 128) => ~(n \div 128 = 0)
           /\ n \div 128 < TwoDigits
           /\ ~(n < TwoDigits) => ~(n \div 128 < 128)
<1> DEFINE q == n \div 128
           r == n % 128
           max == MaxRemainingLength
           two == TwoDigits
<1>1. n \in Nat /\ n <= max /\ max \in Nat /\ max < 128 * two
  <2>1. max \in Nat /\ two \in Nat
    BY SMT DEF TwoDigits, MaxRemainingLength
  <2>2. max < 128 * two
    BY SMT DEF TwoDigits, MaxRemainingLength
  <2>3. n \in 0 .. max
    BY Zenon DEF Lengths
  <2> HIDE DEF max, two
  <2> QED BY <2>1, <2>2, <2>3, SMT
<1>2. q \in Nat /\ r \in Nat /\ r < 128 /\ n = 128 * q + r
  BY <1>1, SMT
<1>3. two = 128 * 128
  BY SMT DEF TwoDigits
<1> HIDE DEF q, r, max, two
<1>4. q <= max /\ q < two
  BY <1>1, <1>2, <1>3, SMT
<1>5. n < two => q < 128
  BY <1>1, <1>2, <1>3, SMT
<1>6. ~(n < 128) => ~(q = 0)
  BY <1>1, <1>2, SMT
<1>7. ~(n < two) => ~(q < 128)
  BY <1>1, <1>2, <1>3, SMT
<1>8. q \in Lengths
  <2>1. q \in 0 .. max
    BY <1>1, <1>2, <1>4, SMT
  <2> QED BY <2>1 DEF Lengths, max
<1> QED BY <1>4, <1>5, <1>6, <1>7, <1>8, Zenon DEF q, two

Digit(n) == <<128 + (n % 128)>>
Last(n) == <<n>>
Two(n) == Digit(n) \o Last(n \div 128)
Three(n) == Digit(n) \o Two(n \div 128)
Written3(n) == IF n < 128 THEN Last(n) ELSE IF n < TwoDigits THEN Two(n) ELSE Three(n)

\* They are written one by one.
LEMMA DigitsWritten ==
    ASSUME NEW n \in Lengths
    PROVE  Written3(n) = IF n < 128 THEN Last(n) ELSE Digit(n) \o Written3(n \div 128)
<1> DEFINE k == n \div 128
<1>1. /\ n < TwoDigits => k < 128
      /\ k < TwoDigits
      /\ ~(n < TwoDigits) => ~(k < 128)
  BY DigitsLeft
<1>2. Two(n) = Digit(n) \o Last(k) /\ Three(n) = Digit(n) \o Two(k)
  BY DEF Two, Three
<1> HIDE DEF k
<1>3. CASE n < 128
  BY <1>3 DEF Written3
<1>4. CASE ~(n < 128) /\ n < TwoDigits
  <2>1. Written3(n) = Two(n)
    BY <1>4 DEF Written3
  <2>2. Written3(k) = Last(k)
    BY <1>1, <1>4 DEF Written3
  <2> QED BY <1>2, <1>4, <2>1, <2>2 DEF k
<1>5. CASE ~(n < 128) /\ ~(n < TwoDigits)
  <2>1. Written3(n) = Three(n)
    BY <1>5 DEF Written3
  <2>2. Written3(k) = Two(k)
    BY <1>1, <1>5 DEF Written3
  <2> QED BY <1>2, <1>5, <2>1, <2>2 DEF k
<1> QED BY <1>3, <1>4, <1>5

\* What the recursion of MQTTPacket_encode writes.
LEMMA RecursionWrites ==
    ASSUME NEW n \in Lengths
    PROVE  MQTTPacket_encode[n] = IF n < 128 THEN Last(n) ELSE Digit(n) \o MQTTPacket_encode[n \div 128]
<1> DEFINE body(g) == [i \in Lengths |-> IF i < 128 THEN Last(i) ELSE Digit(i) \o g[i \div 128]]
           w == [i \in Lengths |-> Written3(i)]
           f == MQTTPacket_encode
<1>1. f = CHOOSE g : g = body(g)
  BY DEF MQTTPacket_encode, Lengths, Last, Digit
<1>2. w = body(w)
  <2>1. ASSUME NEW i \in Lengths
        PROVE  Written3(i) = IF i < 128 THEN Last(i) ELSE Digit(i) \o w[i \div 128]
    <3>1. w[i \div 128] = Written3(i \div 128)
      BY DigitsLeft
    <3> HIDE DEF w
    <3> QED BY <3>1, DigitsWritten
  <2>2. \A i \in Lengths : Written3(i) = IF i < 128 THEN Last(i) ELSE Digit(i) \o w[i \div 128]
    BY <2>1
  <2>3. w = [i \in Lengths |-> Written3(i)]
    OBVIOUS
  <2> HIDE DEF w
  <2> QED BY <2>2, <2>3
<1> HIDE DEF f, w
<1>3. f = body(f)
  <2> HIDE DEF body
  <2>1. \E g : g = body(g)
    BY <1>2, Zenon
  <2> QED BY <1>1, <2>1, Zenon
<1>4. f[n] = body(f)[n]
  BY <1>3, Zenon
<1>5. body(f)[n] = IF n < 128 THEN Last(n) ELSE Digit(n) \o f[n \div 128]
  OBVIOUS
<1> QED BY <1>4, <1>5 DEF f

\* The remaining length of the packets of the model.
LEMMA RemainingLengthWritten ==
    ASSUME NEW l \in Nat, l < TwoDigits
    PROVE  MQTTPacket_encode[l] = SizeOf(l)
<1> DEFINE k == l \div 128
<1>0. 128 + (l % 128) \in Nat /\ k \in Nat
  OBVIOUS
<1>1. l \in Lengths
  <2>1. TwoDigits \in Nat /\ MaxRemainingLength \in Nat /\ TwoDigits <= MaxRemainingLength
    BY SMT DEF TwoDigits, MaxRemainingLength
  <2> QED BY <2>1, SMT DEF Lengths
<1>2. k \in Lengths /\ k < 128
  BY <1>1, DigitsLeft
<1>3. MQTTPacket_encode[l] = IF l < 128 THEN Last(l) ELSE Digit(l) \o MQTTPacket_encode[k]
  BY <1>1, RecursionWrites
<1> HIDE DEF k
<1>4. MQTTPacket_encode[k] = Last(k)
  BY <1>2, RecursionWrites
<1>5. CASE l < 128
  BY <1>3, <1>5 DEF SizeOf, Last
<1>6. CASE ~(l < 128)
  <2>1. MQTTPacket_encode[l] = <<128 + (l % 128)>> \o <<k>>
    BY <1>3, <1>4, <1>6 DEF Last, Digit
  <2>2. ASSUME NEW a \in Nat, NEW b \in Nat
        PROVE  <<a>> \o <<b>> = <<a, b>>
    <3> DEFINE s == <<a>> \o <<b>>
    <3>1. /\ <<a>> \in Octets /\ Len(<<a>>) = 1 /\ <<a>>[1] = a
          /\ <<b>> \in Octets /\ Len(<<b>>) = 1 /\ <<b>>[1] = b
      BY OneOctet
    <3>2. s \in Octets /\ Len(s) = 2
      BY <3>1, Both
    <3>3. s[1] = a
      BY <3>1, InFirst
    <3>4. s[2] = b
      BY <3>1, InSecond
    <3>5. s = [i \in 1 .. 2 |-> s[i]]
      <4> HIDE DEF s
      <4> QED BY <3>2 DEF Octets
    <3> HIDE DEF s
    <3>6. [i \in 1 .. 2 |-> s[i]] = <<s[1], s[2]>>
      OBVIOUS
    <3> QED BY <3>3, <3>4, <3>5, <3>6 DEF s
  <2>3. <<128 + (l % 128)>> \o <<k>> = <<128 + (l % 128), k>>
    BY <1>0, <2>2
  <2> QED BY <1>6, <2>1, <2>3 DEF SizeOf, k
<1> QED BY <1>5, <1>6

\* Behind it is the data.
LEMMA RemainingRead ==
    ASSUME NEW x \in Nat, NEW d \in Octets, Len(d) < 16384
    PROVE  LET s == <<x>> \o SizeOf(Len(d)) \o d
           IN  /\ s[1] = x /\ RemainingValue(s) = Len(d)
               /\ From(s, 2 + RemainingOctets(s)) = d
<1> DEFINE l == Len(d)
           s == <<x>> \o SizeOf(l) \o d
           n == RemainingOctets(s)
           P(i) == s[i + 1] < 128 /\ \A j \in 2 .. i : s[j] >= 128
<1>1. l \in Nat
  BY LenIsNat
<1>2. /\ s[1] = x
      /\ l < 128 => s[2] = l /\ From(s, 3) = d
      /\ ~(l < 128) => /\ s[2] \in Nat /\ s[2] >= 128 /\ s[2] < 256 /\ s[3] \in Nat /\ s[3] < 128
                       /\ s[2] - 128 + 128 * s[3] = l
                       /\ From(s, 4) = d
  BY Framed
<1>3. n = CHOOSE i \in 1 .. 4 : P(i)
  BY DEF RemainingOctets
<1> HIDE DEF s, l
<1>4. CASE l < 128
  <2>1. P(1)
    BY <1>1, <1>2, <1>4
  <2>2. ASSUME NEW i \in 1 .. 4, P(i)
        PROVE  i = 1
    <3>1. 2 \in 2 .. i => s[2] >= 128
      BY <2>2
    <3>2. ~(s[2] >= 128)
      BY <1>1, <1>2, <1>4
    <3> QED BY <3>1, <3>2
  <2>3. n = 1
    <3>1. \E i \in 1 .. 4 : P(i)
      BY <2>1
    <3>2. n \in 1 .. 4 /\ P(n)
      <4> HIDE DEF P, n
      <4> QED BY <1>3, <3>1
    <3> QED BY <2>2, <3>2
  <2> HIDE DEF n
  <2>4. RemainingValue(s) = (s[2] % 128) + 128 * 0 + 16384 * 0 + 2097152 * 0
    BY <2>3 DEF RemainingValue, n
  <2>5. RemainingValue(s) = l
    BY <1>1, <1>2, <1>4, <2>4
  <2>6. 2 + n = 3
    BY <2>3
  <2> QED BY <1>2, <1>4, <2>5, <2>6 DEF s, l, n
<1>5. CASE ~(l < 128)
  <2>1. P(2)
    <3>1. 2 .. 2 = {2}
      OBVIOUS
    <3> QED BY <1>1, <1>2, <1>5, <3>1
  <2>2. ASSUME NEW i \in 1 .. 4, P(i)
        PROVE  i = 2
    <3>1. i # 1
      BY <1>2, <1>5, <2>2
    <3>2. 3 \in 2 .. i => s[3] >= 128
      BY <2>2
    <3>3. ~(s[3] >= 128)
      BY <1>2, <1>5
    <3> QED BY <3>1, <3>2, <3>3
  <2>3. n = 2
    <3>1. \E i \in 1 .. 4 : P(i)
      BY <2>1
    <3>2. n \in 1 .. 4 /\ P(n)
      <4> HIDE DEF P, n
      <4> QED BY <1>3, <3>1
    <3> QED BY <2>2, <3>2
  <2> HIDE DEF n
  <2>4. RemainingValue(s) = (s[2] % 128) + 128 * (s[3] % 128) + 16384 * 0 + 2097152 * 0
    BY <2>3 DEF RemainingValue, n
  <2>5. RemainingValue(s) = l
    <3> DEFINE y == s[2]
               z == s[3]
    <3>1. /\ y \in Nat /\ y >= 128 /\ y < 256 /\ z \in Nat /\ z < 128
          /\ y - 128 + 128 * z = l
      BY <1>2, <1>5
    <3> HIDE DEF y, z
    <3>2. (y % 128) = y - 128 /\ z % 128 = z
      BY <3>1
    <3> QED BY <2>4, <3>1, <3>2 DEF y, z
  <2>6. 2 + n = 4
    BY <2>3
  <2> QED BY <1>2, <1>5, <2>5, <2>6 DEF s, l, n
<1> QED BY <1>4, <1>5

\* The code in a header names one type.
LEMMA TypeOfHeader ==
    ASSUME NEW type \in DOMAIN MqttCode
    PROVE  /\ MqttCode[type] \in Nat
           /\ (CHOOSE t \in DOMAIN MqttCode : MqttCode[t] = MqttCode[type]) = type
<1>1. \A t, u \in DOMAIN MqttCode : MqttCode[t] = MqttCode[u] => t = u
  BY DEF MqttCode
<1>2. MqttCode[type] \in Nat
  BY DEF MqttCode
<1>3. (CHOOSE t \in DOMAIN MqttCode : MqttCode[t] = MqttCode[type]) = type
  BY <1>1, Zenon
<1> QED BY <1>2, <1>3

\* What the broker makes of a packet.
LEMMA BrokerReadsData ==
    ASSUME NEW type \in DOMAIN MqttCode, NEW f \in 0 .. 15, NEW d \in Sendable,
           NEW h, h = 16 * MqttCode[type] + f
    PROVE  BrokerReads(getPacketData([header |-> h, data |-> d])) = ParseData(type, f, d)
<1> DEFINE l == Len(d)
           k == MqttCode[type]
           s == <<h>> \o SizeOf(l) \o d
           p == [header |-> h, data |-> d]
<1>1. d \in Octets /\ l \in Nat /\ l < 16384
  BY LenIsNat DEF Sendable
<1>2. getPacketData(p) = s
  <2>1. l < TwoDigits
    BY <1>1 DEF TwoDigits
  <2>2. MQTTPacket_encode[l] = SizeOf(l)
    BY <1>1, <2>1, RemainingLengthWritten
  <2>3. getPacketData(p) = <<h>> \o MQTTPacket_encode[l] \o d
    BY DEF getPacketData
  <2> QED BY <2>2, <2>3
<1>3. k \in Nat /\ (CHOOSE t \in DOMAIN MqttCode : MqttCode[t] = k) = type
  BY TypeOfHeader
<1> HIDE DEF k
<1>4. h \in Nat /\ h \div 16 = k /\ h % 16 = f
  <2>1. h = 16 * k + f
    BY DEF k
  <2>2. f \in Nat /\ f < 16 /\ k \in Nat
    BY <1>3
  <2>3. ASSUME NEW a \in Nat, NEW b \in Nat, NEW c \in Nat, b < 16, c = 16 * a + b
        PROVE  c \div 16 = a /\ c % 16 = b
    BY <2>3
  <2>4. h \in Nat
    BY <2>1, <2>2
  <2> QED BY <2>1, <2>2, <2>3, <2>4, Zenon
<1>5. s[1] = h /\ RemainingValue(s) = l /\ From(s, 2 + RemainingOctets(s)) = d
  BY <1>1, <1>4, RemainingRead
<1> HIDE DEF s, l
<1>6. BrokerReads(s) = ParseData(type, f, d)
  BY <1>3, <1>4, <1>5 DEF BrokerReads, l
<1> QED BY <1>2, <1>6

----------------------------------------------------------------------------
(* What each message tells the broker. *)

\* What a packet with this header and these data tells the broker.
TellsBroker(p, told) == BrokerReads(getPacketData(p)) = told

\* A packet with these flags in its header.
LEMMA PacketTells ==
    ASSUME NEW type \in DOMAIN MqttCode, NEW dup \in {0, 1}, NEW qos \in 0 .. 2,
           NEW retain \in {0, 1}, NEW d \in Sendable, NEW f, f = 8 * dup + 2 * qos + retain
    PROVE  TellsBroker([header |-> Header(type, dup, qos, retain), data |-> d],
                       ParseData(type, f, d))
<1> DEFINE h == Header(type, dup, qos, retain)
<1>1. MqttCode[type] \in Nat
  BY TypeOfHeader
<1>2. f \in 0 .. 15
  OBVIOUS
<1>3. h = 16 * MqttCode[type] + f
  <2> DEFINE k == MqttCode[type]
  <2>1. h = 16 * k + 8 * dup + 2 * qos + retain
    BY DEF Header
  <2>2. k \in Nat
    BY <1>1
  <2> HIDE DEF k, h
  <2>3. h = 16 * k + f
    BY <2>1, <2>2
  <2> QED BY <2>3 DEF k
<1> HIDE DEF h
<1>4. BrokerReads(getPacketData([header |-> h, data |-> d])) = ParseData(type, f, d)
  BY <1>2, <1>3, BrokerReadsData
<1> QED BY <1>4 DEF TellsBroker, h

\* Which types MQTT has.
LEMMA MqttTypes ==
    {"CONNECT", "PUBLISH", "PUBACK", "PUBREC", "PUBREL", "PUBCOMP", "SUBSCRIBE", "UNSUBSCRIBE",
     "PINGREQ", "DISCONNECT"} \subseteq DOMAIN MqttCode
BY DEF MqttCode

\* PINGREQ and DISCONNECT.
LEMMA HeaderTells ==
    ASSUME NEW type \in {"PINGREQ", "DISCONNECT"}
    PROVE  TellsBroker(setHeader(type), [type |-> type])
<1> DEFINE d == <<>>
           f == 0
<1>1. d \in Octets /\ Len(d) = 0
  BY NoOctets, IntOctets, SmallWord DEF Octets
<1>2. d \in Sendable
  BY <1>1 DEF Sendable
<1>3. f = 8 * 0 + 2 * 0 + 0 /\ 0 \in {0, 1} /\ 0 \in 0 .. 2
  OBVIOUS
<1>4. type \in DOMAIN MqttCode
  BY MqttTypes
<1> HIDE DEF d, f
<1>5. TellsBroker([header |-> Header(type, 0, 0, 0), data |-> d], ParseData(type, f, d))
  BY <1>2, <1>3, <1>4, PacketTells
<1>6. ParseData(type, f, d) = [type |-> type]
  BY DEF ParseData, d
<1>7. setHeader(type) = [header |-> Header(type, 0, 0, 0), data |-> d]
  BY DEF setHeader, d
<1> QED BY <1>5, <1>6, <1>7

\* An id alone.
LEMMA IntIsSendable ==
    ASSUME NEW n \in Word
    PROVE  writeInt(n) \in Sendable
<1> DEFINE d == writeInt(n)
<1>1. d \in Octets /\ Len(d) = 2
  BY IntOctets
<1> DEFINE l == Len(d)
<1> HIDE DEF d
<1>2. l \in Nat /\ l < 16384
  BY <1>1
<1> HIDE DEF l
<1>3. d \in Sendable
  <2>1. Len(d) = l
    BY DEF l
  <2> QED BY <1>1, <1>2, <2>1, FewOctets
<1> QED BY <1>3 DEF d

\* The acknowledgements.
LEMMA AckTells ==
    ASSUME NEW type \in {"PUBACK", "PUBREC", "PUBREL", "PUBCOMP"}, NEW n \in Word
    PROVE  TellsBroker(setAck(type, n),
                       [type |-> type, flags |-> IF type = "PUBREL" THEN 2 ELSE 0, msgID |-> n])
<1> DEFINE d == writeInt(n)
           q == IF type = "PUBREL" THEN 1 ELSE 0
           f == IF type = "PUBREL" THEN 2 ELSE 0
<1>1. d \in Octets /\ Len(d) = 2 /\ readInt(d, 1) = n
  BY IntOctets
<1> HIDE DEF d
<1>2. d \in Sendable /\ d # <<>>
  <2>1. d \in Sendable
    BY IntIsSendable DEF d
  <2>2. d # <<>>
    BY <1>1 DEF Octets
  <2> QED BY <2>1, <2>2
<1>3. f = 8 * 0 + 2 * q + 0 /\ 0 \in {0, 1} /\ q \in 0 .. 2
  OBVIOUS
<1>4. type \in DOMAIN MqttCode
  BY MqttTypes
<1> HIDE DEF q, f
<1>5. TellsBroker([header |-> Header(type, 0, q, 0), data |-> d], ParseData(type, f, d))
  BY <1>2, <1>3, <1>4, PacketTells
<1>6. ParseData(type, f, d) = [type |-> type, flags |-> f, msgID |-> n]
  BY <1>1, <1>2 DEF ParseData
<1>7. setAck(type, n) = [header |-> Header(type, 0, q, 0), data |-> d]
  BY DEF setAck, d, q
<1> QED BY <1>5, <1>6, <1>7 DEF f

\* The data of SUBSCRIBE and UNSUBSCRIBE begin with the id.
LEMMA IdInFront ==
    ASSUME NEW n \in Word, NEW t \in Octets, Len(t) \in Word, NEW r \in Octets
    PROVE  readInt(writeInt(n) \o writeUTF(t) \o r, 1) = n
<1> DEFINE h == writeInt(n)
           w == writeInt(Len(t))
           x == t \o r
           y == h \o w
<1>1. h \in Octets /\ Len(h) = 2 /\ readInt(h, 1) = n /\ w \in Octets /\ Len(w) = 2
  BY IntOctets
<1>2. x \in Octets
  BY Both
<1>3. h \o writeUTF(t) \o r = y \o x
  BY <1>1, TextInside
<1> HIDE DEF h, w, x
<1>4. y \in Octets /\ Len(y) = 4
  <2>1. y \in Octets /\ Len(y) = Len(h) + Len(w)
    BY <1>1, Both
  <2> HIDE DEF y
  <2> QED BY <1>1, <2>1
<1>5. readInt(y, 1) = readInt(h, 1)
  <2>1. 1 \in Nat /\ 1 <= 1 /\ 1 + 1 <= Len(h)
    BY <1>1
  <2> QED BY <1>1, <2>1, ReadFirst
<1> HIDE DEF y
<1>6. readInt(y \o x, 1) = readInt(y, 1)
  <2>1. 1 \in Nat /\ 1 <= 1 /\ 1 + 1 <= Len(y)
    BY <1>4
  <2> QED BY <1>2, <1>4, <2>1, ReadFirst
<1> QED BY <1>1, <1>3, <1>5, <1>6 DEF h

\* The text d has between h and r.
TextBetween(d, h, t, r) ==
    /\ d \in Octets /\ Len(d) = Len(h) + 2 + Len(t) + Len(r)
    /\ Utf(d, Len(h) + 1) = t /\ After(d, Len(h) + 1) = r

\* A text written between two others is the text between them.
LEMMA TextIsBetween ==
    ASSUME NEW h \in Octets, NEW t \in Octets, Len(t) \in Word, NEW r \in Octets
    PROVE  TextBetween(h \o writeUTF(t) \o r, h, t, r)
<1> DEFINE d == h \o writeUTF(t) \o r
<1>1. d \in Octets /\ Len(d) = Len(h) + 2 + Len(t) + Len(r)
  BY TextInside
<1>2. Utf(d, Len(h) + 1) = t /\ After(d, Len(h) + 1) = r
  BY TextInside
<1> HIDE DEF d
<1>3. TextBetween(d, h, t, r)
  BY <1>1, <1>2 DEF TextBetween
<1> QED BY <1>3 DEF d

\* SUBSCRIBE.
LEMMA SubscribeTells ==
    ASSUME NEW n \in Word, NEW t \in AnyText, NEW q \in 0 .. 2
    PROVE  TellsBroker(setSUBSCRIBE(t, q, n),
                       [type |-> "SUBSCRIBE", flags |-> 2, msgID |-> n, topic |-> t, qos |-> q])
<1> DEFINE h == writeInt(n)
           r == <<q>>
           d == h \o writeUTF(t) \o r
           f == 2
           one == 1
<1>1. t \in Octets /\ Len(t) <= 1016 /\ Len(t) \in Nat /\ Len(t) \in Word
  BY LenIsNat, LengthIsWord DEF AnyText
<1>2. h \in Octets /\ Len(h) = 2
  BY IntOctets
<1>3. q \in Nat /\ r \in Octets /\ Len(r) = 1 /\ r[1] = q
  BY OneOctet
<1>4. readInt(d, 1) = n
  BY <1>1, <1>3, IdInFront
<1> HIDE DEF h, r
<1>5. TextBetween(d, h, t, r)
  BY <1>1, <1>2, <1>3, TextIsBetween
<1> HIDE DEF d
<1>6. /\ d \in Octets /\ Len(d) = Len(h) + 2 + Len(t) + Len(r)
      /\ Utf(d, Len(h) + 1) = t /\ After(d, Len(h) + 1) = r
  BY <1>5 DEF TextBetween
<1>7. Len(h) + 1 = 3 /\ Len(d) < 16384
  BY <1>1, <1>2, <1>3, <1>6
<1>8. d \in Sendable
  BY <1>6, <1>7 DEF Sendable
<1>9. f = 8 * 0 + 2 * one + 0 /\ 0 \in {0, 1} /\ one \in 0 .. 2
  OBVIOUS
<1> HIDE DEF f, one
<1>10. TellsBroker([header |-> Header("SUBSCRIBE", 0, one, 0), data |-> d], ParseData("SUBSCRIBE", f, d))
  BY <1>8, <1>9, MqttTypes, PacketTells
<1>11. ParseData("SUBSCRIBE", f, d)
         = [type |-> "SUBSCRIBE", flags |-> f, msgID |-> n, topic |-> t, qos |-> q]
  BY <1>3, <1>4, <1>6, <1>7 DEF ParseData
<1>12. setSUBSCRIBE(t, q, n) = [header |-> Header("SUBSCRIBE", 0, one, 0), data |-> d]
  BY DEF setSUBSCRIBE, d, h, r, one
<1> QED BY <1>10, <1>11, <1>12 DEF f

\* UNSUBSCRIBE.
LEMMA UnsubscribeTells ==
    ASSUME NEW n \in Word, NEW t \in AnyText
    PROVE  TellsBroker(setUNSUBSCRIBE(t, n),
                       [type |-> "UNSUBSCRIBE", flags |-> 2, msgID |-> n, topic |-> t])
<1> DEFINE h == writeInt(n)
           e == <<>>
           d == h \o writeUTF(t)
           f == 2
           one == 1
<1>1. t \in Octets /\ Len(t) <= 1016 /\ Len(t) \in Nat /\ Len(t) \in Word
  BY LenIsNat, LengthIsWord DEF AnyText
<1>2. h \in Octets /\ Len(h) = 2 /\ e \in Octets
  BY IntOctets, NoOctets
<1>3. readInt(h \o writeUTF(t) \o e, 1) = n
  BY <1>1, <1>2, IdInFront
<1> HIDE DEF h
<1>4. /\ d \in Octets /\ Len(d) = Len(h) + 2 + Len(t) /\ Utf(d, Len(h) + 1) = t
  BY <1>1, <1>2, TextLast
<1> HIDE DEF d
<1>5. readInt(d, 1) = n
  <2>1. d \o <<>> = d
    BY <1>4, NoOctets
  <2> QED BY <1>3, <2>1 DEF d
<1>6. Len(h) + 1 = 3 /\ Len(d) < 16384
  BY <1>1, <1>2, <1>4
<1>7. d \in Sendable
  BY <1>4, <1>6 DEF Sendable
<1>8. f = 8 * 0 + 2 * one + 0 /\ 0 \in {0, 1} /\ one \in 0 .. 2
  OBVIOUS
<1> HIDE DEF f, one
<1>9. TellsBroker([header |-> Header("UNSUBSCRIBE", 0, one, 0), data |-> d],
                  ParseData("UNSUBSCRIBE", f, d))
  BY <1>7, <1>8, MqttTypes, PacketTells
<1>10. ParseData("UNSUBSCRIBE", f, d)
         = [type |-> "UNSUBSCRIBE", flags |-> f, msgID |-> n, topic |-> t]
  BY <1>4, <1>5, <1>6 DEF ParseData
<1>11. setUNSUBSCRIBE(t, n) = [header |-> Header("UNSUBSCRIBE", 0, one, 0), data |-> d]
  BY DEF setUNSUBSCRIBE, d, h, one
<1> QED BY <1>9, <1>10, <1>11 DEF f

\* PUBLISH.
LEMMA PublishTells ==
    ASSUME NEW dup \in {0, 1}, NEW qos \in 0 .. 2, NEW retain \in {0, 1}, NEW n \in Word,
           NEW t \in Name, NEW q \in AnyText
    PROVE  TellsBroker(setPUBLISH([dup |-> dup, qos |-> qos, retain |-> retain, topic |-> t,
                                   msgID |-> n, payload |-> q]),
                       [type |-> "PUBLISH", dup |-> dup, qos |-> qos, retain |-> retain,
                        topic |-> t, msgID |-> IF qos = 0 THEN 0 ELSE n, payload |-> q])
<1> DEFINE d == PublishData(t, qos, n, q)
           f == 8 * dup + 2 * qos + retain
           r == After(d, 1)
<1>1. d \in Sendable /\ t \in Octets /\ Len(t) \in Word /\ q \in Octets
  BY PublishDataFits, NameLength DEF AnyText
<1>2. /\ Utf(d, 1) = t /\ d # <<>>
      /\ qos = 0 => r = q
      /\ qos # 0 => readInt(r, 1) = n /\ From(r, 3) = q
  <2>1. IsPublishData(d, t, qos, n, q)
    BY <1>1, PublishDataParts
  <2> HIDE DEF d
  <2>2. Len(t) \in Nat /\ Len(q) \in Nat /\ Len(d) = Len(t) + Len(q) + (IF qos = 0 THEN 2 ELSE 4)
    BY <1>1, <2>1, LenIsNat DEF IsPublishData
  <2>3. Len(d) # 0
    BY <2>2
  <2>4. d # <<>>
    BY <2>3, NoOctets, <1>1
  <2> QED BY <2>1, <2>4 DEF IsPublishData
<1>3. f \div 8 = dup /\ (f \div 2) % 4 = qos /\ f % 2 = retain
  OBVIOUS
<1>4. f = 8 * dup + 2 * qos + retain
  OBVIOUS
<1> HIDE DEF f
<1>5. TellsBroker([header |-> Header("PUBLISH", dup, qos, retain), data |-> d],
                  ParseData("PUBLISH", f, d))
  <2> HIDE DEF d
  <2> QED BY <1>1, <1>4, MqttTypes, PacketTells
<1>6. setPUBLISH([dup |-> dup, qos |-> qos, retain |-> retain, topic |-> t, msgID |-> n,
                  payload |-> q])
        = [header |-> Header("PUBLISH", dup, qos, retain), data |-> d]
  <2>1. qos > 0 <=> qos # 0
    OBVIOUS
  <2>2. (IF qos > 0 THEN writeInt(n) ELSE <<>>) = IF qos = 0 THEN <<>> ELSE writeInt(n)
    BY <2>1
  <2> QED BY <2>2 DEF setPUBLISH, PublishData
<1> HIDE DEF d
<1>7. ParsePublish(f, d)
        = [type |-> "PUBLISH", dup |-> f \div 8, qos |-> (f \div 2) % 4, retain |-> f % 2,
           topic |-> Utf(d, 1), msgID |-> IF (f \div 2) % 4 = 0 THEN 0 ELSE readInt(r, 1),
           payload |-> IF (f \div 2) % 4 = 0 THEN r ELSE From(r, 3)]
  BY DEF ParsePublish
<1> HIDE DEF r
<1>8. ParsePublish(f, d)
        = [type |-> "PUBLISH", dup |-> dup, qos |-> qos, retain |-> retain, topic |-> t,
           msgID |-> IF qos = 0 THEN 0 ELSE n, payload |-> q]
  <2>1. CASE qos = 0
    BY <1>2, <1>3, <1>7, <2>1, Zenon
  <2>2. CASE qos # 0
    BY <1>2, <1>3, <1>7, <2>2, Zenon
  <2> QED BY <2>1, <2>2
<1>9. ParseData("PUBLISH", f, d) = ParsePublish(f, d)
  BY <1>2 DEF ParseData
<1> QED BY <1>5, <1>6, <1>8, <1>9

\* The elements of two sequences one behind the other.
LEMMA Elements ==
    ASSUME NEW a \in Octets, NEW b \in Octets
    PROVE  /\ a \o b \in Octets /\ Len(a \o b) = Len(a) + Len(b)
           /\ \A i \in 1 .. Len(a) : (a \o b)[i] = a[i]
           /\ \A i \in 1 .. Len(b) : (a \o b)[Len(a) + i] = b[i]
<1>1. Len(a) \in Nat /\ Len(b) \in Nat
  BY LenIsNat
<1>2. ASSUME NEW i \in 1 .. Len(a)
      PROVE  (a \o b)[i] = a[i]
  <2>1. i \in Nat /\ 1 <= i /\ i <= Len(a)
    BY <1>1
  <2> QED BY <2>1, InFirst
<1>3. ASSUME NEW i \in 1 .. Len(b)
      PROVE  (a \o b)[Len(a) + i] = b[i]
  <2>1. i \in Nat /\ 1 <= i /\ i <= Len(b)
    BY <1>1
  <2> QED BY <2>1, InSecond
<1> QED BY <1>2, <1>3, Both

\* The first ten octets of a CONNECT.
ConnectHead(o, n) == writeUTF(<<77, 81, 84, 84>>) \o <<4, o>> \o writeInt(n)

IsConnectHead(s, o, n) ==
    /\ s[1] = 0 /\ s[2] = 4 /\ s[3] = 77 /\ s[4] = 81 /\ s[5] = 84 /\ s[6] = 84 /\ s[7] = 4
    /\ s[8] = o /\ readInt(s, 9) = n

\* Octet by octet.
LEMMA ConnectHeadParts ==
    ASSUME NEW o \in Nat, NEW n \in Word
    PROVE  /\ ConnectHead(o, n) \in Octets /\ Len(ConnectHead(o, n)) = 10
           /\ IsConnectHead(ConnectHead(o, n), o, n)
<1> DEFINE a == <<0, 4>>
           b == <<77, 81, 84, 84>>
           c == <<4, o>>
           w == writeInt(n)
           g == a \o b
           y == g \o c
           x == y \o w
<1>1. /\ a \in Octets /\ Len(a) = 2 /\ a[1] = 0 /\ a[2] = 4
      /\ b \in Octets /\ Len(b) = 4 /\ b[1] = 77 /\ b[2] = 81 /\ b[3] = 84 /\ b[4] = 84
      /\ c \in Octets /\ Len(c) = 2 /\ c[1] = 4 /\ c[2] = o
  BY DEF Octets
<1>2. w \in Octets /\ Len(w) = 2 /\ readInt(w, 1) = n
  BY IntOctets
<1>3. writeUTF(b) = g
  <2>1. writeInt(4) = a
    BY DEF writeInt
  <2>2. Len(b) = 4
    BY <1>1
  <2> QED BY <2>1, <2>2 DEF writeUTF
<1>4. ConnectHead(o, n) = x
  BY <1>3 DEF ConnectHead
<1> HIDE DEF a, b, c, w
<1>5. /\ g \in Octets /\ Len(g) = 6
      /\ g[1] = 0 /\ g[2] = 4 /\ g[3] = 77 /\ g[4] = 81 /\ g[5] = 84 /\ g[6] = 84
  <2>1. /\ g \in Octets /\ Len(g) = Len(a) + Len(b)
        /\ \A i \in 1 .. Len(a) : g[i] = a[i]
        /\ \A i \in 1 .. Len(b) : g[Len(a) + i] = b[i]
    <3>1. a \in Octets /\ b \in Octets
      BY <1>1
    <3> QED BY ONLY <3>1, Elements
  <2> HIDE DEF g
  <2> QED BY <1>1, <2>1
<1> HIDE DEF g
<1>6. /\ y \in Octets /\ Len(y) = 8
      /\ y[1] = 0 /\ y[2] = 4 /\ y[3] = 77 /\ y[4] = 81 /\ y[5] = 84 /\ y[6] = 84 /\ y[7] = 4
      /\ y[8] = o
  <2>1. /\ y \in Octets /\ Len(y) = Len(g) + Len(c)
        /\ \A i \in 1 .. Len(g) : y[i] = g[i]
        /\ \A i \in 1 .. Len(c) : y[Len(g) + i] = c[i]
    <3>1. g \in Octets /\ c \in Octets
      BY <1>1, <1>5
    <3> QED BY ONLY <3>1, Elements
  <2> HIDE DEF y
  <2> QED BY <1>1, <1>5, <2>1
<1> HIDE DEF y
<1>7. /\ x \in Octets /\ Len(x) = 10 /\ \A i \in 1 .. 8 : x[i] = y[i]
  <2>1. /\ x \in Octets /\ Len(x) = Len(y) + Len(w)
        /\ \A i \in 1 .. Len(y) : x[i] = y[i]
    <3>1. y \in Octets /\ w \in Octets
      BY <1>2, <1>6
    <3> QED BY ONLY <3>1, Elements
  <2> HIDE DEF x
  <2> QED BY <1>2, <1>6, <2>1
<1>8. readInt(x, 9) = n
  <2>1. 1 \in Nat /\ 1 <= 1 /\ 1 + 1 <= Len(w) /\ Len(y) + 1 = 9
    BY <1>2, <1>6
  <2>2. readInt(x, Len(y) + 1) = readInt(w, 1)
    <3>1. y \in Octets /\ w \in Octets
      BY <1>2, <1>6
    <3> QED BY ONLY <2>1, <3>1, ReadSecond
  <2> QED BY <1>2, <2>1, <2>2
<1> HIDE DEF x
<1>9. IsConnectHead(x, o, n)
  BY <1>6, <1>7, <1>8 DEF IsConnectHead
<1> QED BY <1>4, <1>7, <1>9

\* What stands in the first octets of a sequence stands there when more follows.
LEMMA HeadBefore ==
    ASSUME NEW x \in Octets, Len(x) = 10, NEW o, NEW n, IsConnectHead(x, o, n), NEW r \in Octets
    PROVE  IsConnectHead(x \o r, o, n) /\ x \o r \in Octets
<1> DEFINE s == x \o r
<1>1. s \in Octets /\ \A i \in 1 .. 10 : s[i] = x[i]
  <2>1. s \in Octets /\ \A i \in 1 .. Len(x) : s[i] = x[i]
    BY Elements
  <2> HIDE DEF s
  <2> QED BY <2>1
<1> HIDE DEF s
<1>2. readInt(s, 9) = readInt(x, 9)
  BY <1>1 DEF readInt
<1>3. IsConnectHead(s, o, n)
  BY <1>1, <1>2 DEF IsConnectHead
<1> QED BY <1>1, <1>3 DEF s

\* The name and the version of the protocol.
LEMMA Protocol ==
    ASSUME NEW s \in Octets, 10 <= Len(s), NEW o, NEW n, IsConnectHead(s, o, n)
    PROVE  SubSeq(s, 1, 7) = <<0, 4, 77, 81, 84, 84, 4>>
<1>1. SubSeq(s, 1, 7) = [i \in 1 .. 7 |-> s[i]]
  BY DEF Octets
<1>2. [i \in 1 .. 7 |-> s[i]] = <<s[1], s[2], s[3], s[4], s[5], s[6], s[7]>>
  OBVIOUS
<1> QED BY <1>1, <1>2 DEF IsConnectHead

\* The will behind the client id.
WillData(will) ==
    IF will = <<>> THEN <<>> ELSE writeUTF(will[1].topic) \o writeUTF(will[1].msg)

Wills == [qos : 0 .. 2, retain : {0, 1}, topic : AnyText, msg : AnyText]

\* The flags of a CONNECT.
LEMMA ConnectBits ==
    ASSUME NEW clean \in {0, 1}, NEW qos \in 0 .. 2, NEW retain \in {0, 1}
    PROVE  /\ 2 * clean + 0 \in Nat /\ ((2 * clean + 0) \div 2) % 2 = clean
           /\ ((2 * clean + 0) \div 4) % 2 = 0
           /\ 2 * clean + (4 + 8 * qos + 32 * retain) \in Nat
           /\ ((2 * clean + (4 + 8 * qos + 32 * retain)) \div 2) % 2 = clean
           /\ ((2 * clean + (4 + 8 * qos + 32 * retain)) \div 4) % 2 = 1
           /\ ((2 * clean + (4 + 8 * qos + 32 * retain)) \div 8) % 4 = qos
           /\ ((2 * clean + (4 + 8 * qos + 32 * retain)) \div 32) % 2 = retain
OBVIOUS

\* A text is short.
LEMMA ShortText ==
    ASSUME NEW t \in AnyText
    PROVE  t \in Octets /\ Len(t) \in Nat /\ Len(t) <= 1016 /\ Len(t) \in Word
BY LenIsNat, LengthIsWord DEF AnyText

\* What the broker makes of the will.
LEMMA WillRead ==
    ASSUME NEW w \in Wills, NEW flags, (flags \div 4) % 2 = 1, (flags \div 8) % 4 = w.qos,
           (flags \div 32) % 2 = w.retain
    PROVE  /\ WillData(<<w>>) \in Octets /\ Len(WillData(<<w>>)) <= 2036
           /\ ParseWill(flags, WillData(<<w>>)) = <<w>>
<1> DEFINE t == w.topic
           q == w.msg
           r == writeUTF(q)
           e == <<>>
           d == writeUTF(t) \o r
<1>1. /\ t \in AnyText /\ q \in AnyText
      /\ w = [qos |-> w.qos, retain |-> w.retain, topic |-> t, msg |-> q]
  BY DEF Wills
<1> HIDE DEF t, q
<1>2. /\ t \in Octets /\ Len(t) \in Nat /\ Len(t) <= 1016 /\ Len(t) \in Word
      /\ q \in Octets /\ Len(q) \in Nat /\ Len(q) <= 1016 /\ Len(q) \in Word
  BY <1>1, ShortText
<1>3. e \in Octets
  BY NoOctets, <1>2
<1>4. r \in Octets /\ Len(r) = 2 + Len(q) /\ Utf(r \o e, 1) = q
  <2>1. q \in Octets /\ Len(q) \in Word
    BY ONLY <1>2
  <2> HIDE DEF e
  <2>2. writeUTF(q) \in Octets /\ Len(writeUTF(q)) = 2 + Len(q)
    BY ONLY <1>3, <2>1, TextFirst
  <2>3. Utf(writeUTF(q) \o e, 1) = q
    BY ONLY <1>3, <2>1, TextFirst
  <2> QED BY ONLY <2>2, <2>3 DEF r
<1>5. r \o e = r
  BY <1>4, NoOctets, Zenon DEF e
<1> HIDE DEF r, e
<1>6. d \in Octets /\ Len(d) = 2 + Len(t) + Len(r) /\ Utf(d, 1) = t /\ After(d, 1) = r
  <2>1. t \in Octets /\ Len(t) \in Word
    BY <1>2
  <2>2. r \in Octets
    BY <1>4
  <2> HIDE DEF d
  <2>3. d = writeUTF(t) \o r
    BY DEF d
  <2>4. writeUTF(t) \o r \in Octets /\ Len(writeUTF(t) \o r) = 2 + Len(t) + Len(r)
    BY <2>1, <2>2, TextFirst
  <2>5. Utf(writeUTF(t) \o r, 1) = t /\ After(writeUTF(t) \o r, 1) = r
    BY <2>1, <2>2, TextFirst
  <2> QED BY <2>3, <2>4, <2>5, Zenon
<1> HIDE DEF d
<1>7. Len(d) <= 2036
  BY <1>2, <1>4, <1>6, SMTT(30)
<1>8. WillData(<<w>>) = d
  BY DEF WillData, d, r, t, q
<1>9. ParseWill(flags, d)
        = <<[qos |-> (flags \div 8) % 4, retain |-> (flags \div 32) % 2, topic |-> Utf(d, 1),
             msg |-> Utf(After(d, 1), 1)]>>
  BY DEF ParseWill
<1>10. ParseWill(flags, d) = <<w>>
  BY <1>1, <1>4, <1>5, <1>6, <1>9
<1> QED BY <1>6, <1>7, <1>8, <1>10

\* What the broker makes of the data of a CONNECT.
IsConnectData(d, o, n, id, w) ==
    /\ d \in Octets /\ Len(d) < 16384 /\ d # <<>>
    /\ ParseConnect(d)
         = [type |-> "CONNECT", protocol |-> <<0, 4, 77, 81, 84, 84, 4>>,
            clean |-> (o \div 2) % 2, duration |-> n, clientID |-> id,
            will |-> ParseWill(o, w)]

LEMMA ConnectRead ==
    ASSUME NEW o \in Nat, NEW n \in Word, NEW id \in AnyText, NEW w \in Octets, Len(w) <= 2036
    PROVE  IsConnectData(ConnectHead(o, n) \o writeUTF(id) \o w, o, n, id, w)
<1> DEFINE x == ConnectHead(o, n)
           u == writeUTF(id)
           d == x \o u \o w
<1>1. x \in Octets /\ Len(x) = 10 /\ IsConnectHead(x, o, n)
  BY ConnectHeadParts
<1>2. id \in Octets /\ Len(id) \in Nat /\ Len(id) <= 1016 /\ Len(id) \in Word
  BY ShortText
<1> HIDE DEF x
<1>3. TextBetween(d, x, id, w)
  BY <1>1, <1>2, TextIsBetween
<1>4. /\ d \in Octets /\ Len(d) = Len(x) + 2 + Len(id) + Len(w)
      /\ Utf(d, Len(x) + 1) = id /\ After(d, Len(x) + 1) = w
  <2> HIDE DEF d
  <2> QED BY <1>3 DEF TextBetween
<1>5. IsConnectHead(d, o, n)
  <2>1. u \in Octets
    BY <1>2, NoOctets, TextFirst
  <2> HIDE DEF u
  <2>2. d = x \o (u \o w) /\ u \o w \in Octets
    BY <1>1, <2>1, Both, Associative
  <2> QED BY <1>1, <2>2, HeadBefore
<1> HIDE DEF d
<1>6. Len(w) \in Nat
  BY LenIsNat
<1>7. Len(x) + 1 = 11 /\ Len(d) < 16384 /\ 10 <= Len(d)
  BY <1>1, <1>2, <1>4, <1>6
<1>8. SubSeq(d, 1, 7) = <<0, 4, 77, 81, 84, 84, 4>>
  BY <1>4, <1>5, <1>7, Protocol
<1>9. d[8] = o /\ readInt(d, 9) = n
  BY <1>5 DEF IsConnectHead
<1>10. Utf(d, 11) = id /\ After(d, 11) = w
  BY <1>4, <1>7
<1>11. d # <<>>
  BY <1>4, <1>7, NoOctets
<1>12. ParseConnect(d)
         = [type |-> "CONNECT", protocol |-> <<0, 4, 77, 81, 84, 84, 4>>,
            clean |-> (o \div 2) % 2, duration |-> n, clientID |-> id, will |-> ParseWill(o, w)]
  BY <1>8, <1>9, <1>10, Zenon DEF ParseConnect
<1>13. IsConnectData(d, o, n, id, w)
  <2> DEFINE read == ParseConnect(d)
  <2>1. d \in Octets /\ Len(d) < 16384 /\ d # <<>>
    BY <1>4, <1>7, <1>11
  <2>2. read = [type |-> "CONNECT", protocol |-> <<0, 4, 77, 81, 84, 84, 4>>,
                clean |-> (o \div 2) % 2, duration |-> n, clientID |-> id,
                will |-> ParseWill(o, w)]
    BY <1>12
  <2> HIDE DEF read
  <2>3. IsConnectData(d, o, n, id, w)
          <=> /\ d \in Octets /\ Len(d) < 16384 /\ d # <<>>
              /\ read = [type |-> "CONNECT", protocol |-> <<0, 4, 77, 81, 84, 84, 4>>,
                         clean |-> (o \div 2) % 2, duration |-> n, clientID |-> id,
                         will |-> ParseWill(o, w)]
    BY DEF IsConnectData, read
  <2> QED BY <2>1, <2>2, <2>3
<1> QED BY <1>13 DEF d, x, u

\* The flags of a CONNECT say whether there is a will and which.
LEMMA ConnectFlagsTell ==
    ASSUME NEW c, c.clean \in {0, 1}, NEW will, c.will = will,
           will = <<>> \/ \E w \in Wills : will = <<w>>
    PROVE  /\ ConnectOctet(c) \in Nat /\ (ConnectOctet(c) \div 2) % 2 = c.clean
           /\ WillData(will) \in Octets /\ Len(WillData(will)) <= 2036
           /\ ParseWill(ConnectOctet(c), WillData(will)) = will
<1> DEFINE o == ConnectOctet(c)
           clean == c.clean
<1>1. CASE will = <<>>
  <2> DEFINE e == <<>>
  <2>1. o = 2 * clean + 0
    BY <1>1 DEF ConnectOctet
  <2>2. o \in Nat /\ (o \div 2) % 2 = clean /\ (o \div 4) % 2 = 0
    <3> HIDE DEF o, clean
    <3>1. clean \in {0, 1}
      BY DEF clean
    <3>2. 0 \in 0 .. 2 /\ 0 \in {0, 1}
      OBVIOUS
    <3>3. 2 * clean + 0 \in Nat /\ ((2 * clean + 0) \div 2) % 2 = clean /\ ((2 * clean + 0) \div 4) % 2 = 0
      BY <3>1, <3>2, ConnectBits
    <3> QED BY <2>1, <3>3
  <2>3. WillData(will) = <<>> /\ ParseWill(o, WillData(will)) = will
    BY <1>1, <2>2 DEF WillData, ParseWill
  <2>4. <<>> \in Octets /\ Len(<<>>) <= 2036
    BY DEF Octets
  <2> QED BY <2>2, <2>3, <2>4
<1>2. ASSUME NEW w \in Wills, will = <<w>>
      PROVE  /\ o \in Nat /\ (o \div 2) % 2 = clean
             /\ WillData(will) \in Octets /\ Len(WillData(will)) <= 2036
             /\ ParseWill(o, WillData(will)) = will
  <2> DEFINE qos == w.qos
             retain == w.retain
             f == 2 * clean + (4 + 8 * qos + 32 * retain)
  <2>1. qos \in 0 .. 2 /\ retain \in {0, 1} /\ clean \in {0, 1}
    BY DEF Wills
  <2>2. o = f
    <3>1. will # <<>> /\ will[1] = w
      BY <1>2
    <3> QED BY <3>1 DEF ConnectOctet
  <2> HIDE DEF o, clean, qos, retain
  <2>3. /\ f \in Nat /\ (f \div 2) % 2 = clean /\ (f \div 4) % 2 = 1 /\ (f \div 8) % 4 = qos
        /\ (f \div 32) % 2 = retain
    BY <2>1, ConnectBits
  <2> HIDE DEF f
  <2>4. /\ WillData(<<w>>) \in Octets /\ Len(WillData(<<w>>)) <= 2036
        /\ ParseWill(f, WillData(<<w>>)) = <<w>>
    BY <2>3, WillRead DEF qos, retain
  <2> QED BY <1>2, <2>2, <2>3, <2>4
<1> QED BY <1>1, <1>2

\* CONNECT, with or without a will.
LEMMA ConnectTells ==
    ASSUME NEW c, c.clean \in {0, 1}, c.duration \in Word, c.clientID \in AnyText, NEW will,
           will = <<>> \/ \E w \in Wills : will = <<w>>
    PROVE  TellsBroker(ToMqttConnect(c, will), ConnectMeant(c, will))
<1> DEFINE k == [clean |-> c.clean, duration |-> c.duration, clientID |-> c.clientID, will |-> will]
           o == ConnectOctet(k)
           w == WillData(will)
           n == c.duration
           id == c.clientID
           d == ConnectHead(o, n) \o writeUTF(id) \o w
           f == 0
<1>1. k.clean \in {0, 1} /\ k.clean = c.clean /\ k.will = will
  OBVIOUS
<1>2. /\ o \in Nat /\ (o \div 2) % 2 = c.clean /\ w \in Octets /\ Len(w) <= 2036
      /\ ParseWill(o, w) = will
  <2> HIDE DEF k
  <2> QED BY <1>1, ConnectFlagsTell
<1>3. setCONNECT(k) = [header |-> Header("CONNECT", 0, 0, 0), data |-> d]
  <2>1. setCONNECT(k) = [header |-> Header("CONNECT", 0, 0, 0),
                         data |-> ConnectHead(o, n) \o writeUTF(id) \o w]
    BY DEF setCONNECT, ConnectHead, WillData
  <2> QED BY <2>1
<1>4. ToMqttConnect(c, will) = setCONNECT(k)
  BY DEF ToMqttConnect
<1> HIDE DEF k, o, w
<1>5. IsConnectData(d, o, n, id, w)
  BY <1>2, ConnectRead
<1> HIDE DEF d
<1>6. d \in Sendable
  BY <1>5 DEF IsConnectData, Sendable
<1>7. f = 8 * 0 + 2 * 0 + 0 /\ 0 \in {0, 1} /\ 0 \in 0 .. 2
  OBVIOUS
<1> HIDE DEF f
<1>8. TellsBroker([header |-> Header("CONNECT", 0, 0, 0), data |-> d], ParseData("CONNECT", f, d))
  BY <1>6, <1>7, MqttTypes, PacketTells
<1>9. ParseData("CONNECT", f, d) = ParseConnect(d)
  <2>1. d # <<>>
    BY <1>5 DEF IsConnectData
  <2> QED BY <2>1 DEF ParseData
<1>10. ParseConnect(d) = ConnectMeant(c, will)
  BY <1>2, <1>5 DEF ConnectMeant, IsConnectData
<1> QED BY <1>3, <1>4, <1>8, <1>9, <1>10

\* The names of the topics.
LEMMA PublishedName ==
    ASSUME NEW topic \in PublishTopics
    PROVE  NameOf(topic, Names) \in Name /\ NameOfTopic(topic) = NameOf(topic, Names)
<1>1. ASSUME NEW kind \in {NORMAL, PREDEFINED}, NEW i \in Ids, topic = Topic(kind, i, <<>>)
      PROVE  NameOf(topic, Names) \in Name /\ NameOfTopic(topic) = NameOf(topic, Names)
  <2>1. topic.kind = kind /\ topic.id = i /\ topic.name = <<>>
    BY <1>1 DEF Topic
  <2>2. kind # SHORT
    BY DEF NORMAL, PREDEFINED, SHORT
  <2>3. NameOf(topic, Names) = Names[<<kind, i>>]
    BY <2>1, <2>2 DEF NameOf
  <2>4. <<kind, i>> \in DOMAIN Names
    BY DEF Names
  <2>5. NameOfTopic(topic) = NameOf(topic, Names)
    BY <2>1 DEF NameOfTopic
  <2> QED BY <2>3, <2>4, <2>5, NamesAreNames
<1>2. CASE topic = ShortTopic
  <2>1. topic.kind = SHORT /\ topic.name = ShortTopic.name
    BY <1>2 DEF ShortTopic, Topic
  <2>2. NORMAL # SHORT
    BY DEF NORMAL, SHORT
  <2> QED BY <2>1, <2>2, NamesAreNames DEF NameOf, NameOfTopic
<1> QED BY <1>1, <1>2 DEF PublishTopics

\* A name is a text.
LEMMA NameIsText ==
    ASSUME NEW t \in Name
    PROVE  t \in AnyText
<1>1. t \in Octets /\ Len(t) \in Nat /\ Len(t) <= 4
  BY NameLength
<1>2. Len(t) <= 1016
  BY <1>1
<1> QED BY <1>1, <1>2 DEF AnyText

\* The names of the filters.
LEMMA FilteredName ==
    ASSUME NEW topic \in Filters
    PROVE  /\ FilterName(topic, Names) \in AnyText
           /\ NameOfTopic(topic) = FilterName(topic, Names)
<1>1. ASSUME NEW t \in Texts \ {<<>>}, topic = Topic(NORMAL, 0, t)
      PROVE  /\ FilterName(topic, Names) \in AnyText
             /\ NameOfTopic(topic) = FilterName(topic, Names)
  <2>1. topic.kind = NORMAL /\ topic.name = t /\ t \in AnyText /\ t # <<>>
    BY <1>1, TextsAreTexts DEF Topic
  <2> QED BY <2>1 DEF FilterName, NameOfTopic
<1>2. CASE topic \in PublishTopics /\ topic.kind # NORMAL
  <2>1. FilterName(topic, Names) = NameOf(topic, Names)
    BY <1>2 DEF FilterName
  <2> QED BY <1>2, <2>1, PublishedName, NameIsText
<1>3. ASSUME NEW i \in Ids, topic = Topic(PREDEFINED, i, <<>>)
      PROVE  topic \in PublishTopics /\ topic.kind # NORMAL
  BY <1>3 DEF PublishTopics, Topic, PREDEFINED, NORMAL
<1>4. ASSUME topic = ShortTopic
      PROVE  topic \in PublishTopics /\ topic.kind # NORMAL
  BY <1>4 DEF PublishTopics, ShortTopic, Topic, SHORT, NORMAL
<1> QED BY <1>1, <1>2, <1>3, <1>4 DEF Filters

----------------------------------------------------------------------------
(* The messages of the clients. *)

\* A PUBLISH, with QoS 0 for QoS -1.
LEMMA PublishMeans ==
    ASSUME NEW topic \in PublishTopics, NEW msg \in PublishSet(topic)
    PROVE  TellsBroker(ToMqtt(msg), Meant(msg))
<1>1. PICK dup \in {0, 1}, qos \in 0 .. 3, retain \in {0, 1}, n \in Word, q \in AnyText :
        msg = [type |-> "PUBLISH", dup |-> dup, qos |-> qos, retain |-> retain, msgID |-> n,
               topic |-> topic, payload |-> q]
  <2>1. /\ msg.dup \in {0, 1} /\ msg.qos \in 0 .. 3 /\ msg.retain \in {0, 1}
        /\ msg.msgID \in Word /\ msg.payload \in AnyText
        /\ msg = [type |-> "PUBLISH", dup |-> msg.dup, qos |-> msg.qos, retain |-> msg.retain,
                  msgID |-> msg.msgID, topic |-> topic, payload |-> msg.payload]
    BY DEF PublishSet, Bit
  <2> QED BY <2>1, Zenon
<1> DEFINE l == IF qos = 3 THEN 0 ELSE qos
           t == NameOf(topic, Names)
<1>2. l \in 0 .. 2 /\ l = qos % 3 /\ (l = 0 <=> ~(qos \in 1 .. 2))
  OBVIOUS
<1>3. t \in Name /\ NameOfTopic(topic) = t
  BY PublishedName
<1>4. ToMqtt(msg) = setPUBLISH([dup |-> dup, qos |-> l, retain |-> retain, topic |-> t,
                                msgID |-> n, payload |-> q])
  BY <1>1 DEF ToMqtt, ToMqttPublish
<1> HIDE DEF l, t
<1>5. Meant(msg) = [type |-> "PUBLISH", dup |-> dup, qos |-> l, retain |-> retain,
                    topic |-> t, msgID |-> IF l = 0 THEN 0 ELSE n, payload |-> q]
  <2>1. Meant(msg) = [type |-> "PUBLISH", dup |-> dup, qos |-> qos % 3, retain |-> retain,
                      topic |-> NameOfTopic(topic), payload |-> q,
                      msgID |-> IF qos \in 1 .. 2 THEN n ELSE 0]
    BY <1>1 DEF Meant
  <2> QED BY <1>2, <1>3, <2>1
<1>6. TellsBroker(setPUBLISH([dup |-> dup, qos |-> l, retain |-> retain, topic |-> t,
                              msgID |-> n, payload |-> q]),
                  [type |-> "PUBLISH", dup |-> dup, qos |-> l, retain |-> retain,
                   topic |-> t, msgID |-> IF l = 0 THEN 0 ELSE n, payload |-> q])
  BY <1>2, <1>3, PublishTells
<1> QED BY <1>4, <1>5, <1>6

\* A SUBSCRIBE.
LEMMA SubscribeMeans ==
    ASSUME NEW msg \in [type : {"SUBSCRIBE"}, dup : Bit, qos : Qos, msgID : Ids, topic : Filters]
    PROVE  TellsBroker(ToMqtt(msg), Meant(msg))
<1> DEFINE n == msg.msgID
           q == msg.qos
           t == FilterName(msg.topic, Names)
<1>1. n \in Word /\ q \in 0 .. 2 /\ msg.type = "SUBSCRIBE"
  BY IdIsWord DEF Qos
<1>2. t \in AnyText /\ NameOfTopic(msg.topic) = t
  BY FilteredName
<1>3. ToMqtt(msg) = setSUBSCRIBE(t, q, n)
  BY <1>1 DEF ToMqtt, ToMqttSubscribe
<1>4. Meant(msg) = [type |-> "SUBSCRIBE", flags |-> 2, msgID |-> n, topic |-> t, qos |-> q]
  BY <1>1, <1>2 DEF Meant
<1> HIDE DEF n, q, t
<1> QED BY <1>1, <1>2, <1>3, <1>4, SubscribeTells

\* An UNSUBSCRIBE.
LEMMA UnsubscribeMeans ==
    ASSUME NEW msg \in [type : {"UNSUBSCRIBE"}, msgID : Ids, topic : Filters]
    PROVE  TellsBroker(ToMqtt(msg), Meant(msg))
<1> DEFINE n == msg.msgID
           t == FilterName(msg.topic, Names)
<1>1. n \in Word /\ msg.type = "UNSUBSCRIBE"
  BY IdIsWord
<1>2. t \in AnyText /\ NameOfTopic(msg.topic) = t
  BY FilteredName
<1>3. ToMqtt(msg) = setUNSUBSCRIBE(t, n)
  BY <1>1 DEF ToMqtt, ToMqttUnsubscribe
<1>4. Meant(msg) = [type |-> "UNSUBSCRIBE", flags |-> 2, msgID |-> n, topic |-> t]
  BY <1>1, <1>2 DEF Meant
<1> HIDE DEF n, t
<1> QED BY <1>1, <1>2, <1>3, <1>4, UnsubscribeTells

\* An acknowledgement.
LEMMA AckMeans ==
    ASSUME NEW msg, msg.type \in {"PUBACK", "PUBREC", "PUBREL", "PUBCOMP"}, msg.msgID \in Ids
    PROVE  TellsBroker(ToMqtt(msg), Meant(msg))
<1> DEFINE n == msg.msgID
           type == msg.type
<1>1. n \in Word
  BY IdIsWord
<1>2. ToMqtt(msg) = setAck(type, n)
  BY DEF ToMqtt
<1>3. Meant(msg) = [type |-> type, flags |-> IF type = "PUBREL" THEN 2 ELSE 0, msgID |-> n]
  BY DEF Meant
<1>4. type \in {"PUBACK", "PUBREC", "PUBREL", "PUBCOMP"}
  OBVIOUS
<1> HIDE DEF n, type
<1> QED BY <1>1, <1>2, <1>3, <1>4, AckTells

\* A CONNECT without a will.
LEMMA ConnectMeans ==
    ASSUME NEW msg \in [type : {"CONNECT"}, will : Bit, clean : Bit, duration : Ids, clientID : Texts]
    PROVE  TellsBroker(ToMqtt(msg), Meant(msg))
<1>1. /\ msg.type = "CONNECT" /\ msg.clean \in {0, 1} /\ msg.duration \in Word
      /\ msg.clientID \in AnyText
  BY IdIsWord, TextsAreTexts DEF Bit
<1>2. TellsBroker(ToMqttConnect(msg, <<>>), ConnectMeant(msg, <<>>))
  BY <1>1, ConnectTells
<1>3. ToMqtt(msg) = ToMqttConnect(msg, <<>>)
  BY <1>1 DEF ToMqtt
<1>4. Meant(msg) = ConnectMeant(msg, <<>>)
  BY <1>1 DEF Meant
<1> QED BY <1>2, <1>3, <1>4

\* The will message that completes a CONNECT.
LEMMA WillMsgMeans ==
    ASSUME NEW msg, msg.type = "WILLMSG", msg.msg \in Texts
    PROVE  TellsBroker(ToMqtt(msg), Meant(msg))
<1> DEFINE c == Connected
           w == WillOf(msg)
<1>1. Text(3) \in AnyText /\ Text(2) \in AnyText
  <2>1. 3 \in 1 .. 4 /\ 2 \in 1 .. 4
    OBVIOUS
  <2> QED BY <2>1, FewLetters
<1>2. c.clean \in {0, 1} /\ c.duration \in Word /\ c.clientID \in AnyText
  <2>1. 60 \in Word
    BY WordIs
  <2> QED BY <1>1, <2>1 DEF Connected
<1>3. w \in Wills
  BY <1>1, TextsAreTexts DEF WillOf, Wills
<1> HIDE DEF c, w
<1>4. TellsBroker(ToMqttConnect(c, <<w>>), ConnectMeant(c, <<w>>))
  BY <1>2, <1>3, ConnectTells
<1>5. ToMqtt(msg) = ToMqttConnect(c, <<w>>)
  BY DEF ToMqtt, c, w
<1>6. Meant(msg) = ConnectMeant(c, <<w>>)
  BY DEF Meant, c, w
<1> QED BY <1>4, <1>5, <1>6

\* PINGREQ and DISCONNECT.
LEMMA HeaderMeans ==
    ASSUME NEW msg, NEW g, msg.type \in {"PINGREQ", "DISCONNECT"}, g.type = msg.type
    PROVE  TellsBroker(ToMqtt(g), Meant(msg))
<1>1. ToMqtt(g) = setHeader(msg.type)
  BY DEF ToMqtt
<1>2. Meant(msg) = [type |-> msg.type]
  BY DEF Meant
<1> QED BY <1>1, <1>2, HeaderTells

\* Of a message that is read the broker is told what is meant.
LEMMA ClientMessagesMean ==
    ASSUME NEW msg \in ClientMessages, Passes(Understood(msg))
    PROVE  TellsBroker(ToMqtt(Understood(msg)), Meant(msg))
<1> DEFINE g == Understood(msg)
<1>1. g # Rejected
  BY DEF Passes, Translated, Rejected
<1>2. g = msg \/ (msg.type = "PINGREQ" /\ g = [type |-> "PINGREQ"])
  BY <1>1 DEF Understood
<1>3. g.type \in Translated /\ g.type = msg.type
  BY <1>2 DEF Passes
<1> HIDE DEF g
<1>4. CASE msg \in [type : {"CONNECT"}, will : Bit, clean : Bit, duration : Ids, clientID : Texts]
  <2>1. g = msg
    BY <1>2, <1>4
  <2> QED BY <1>4, <2>1, ConnectMeans DEF g
<1>5. CASE msg \in [type : {"DISCONNECT"}, duration : Ids \cup {0}]
  BY <1>3, <1>5, HeaderMeans DEF g
<1>6. CASE msg \in [type : {"PINGRESP"}] \/ msg \in [type : {"PINGREQ"}, clientID : Texts]
  <2>1. msg.type = "PINGREQ"
    BY <1>3, <1>6 DEF Translated
  <2> QED BY <1>3, <2>1, HeaderMeans DEF g
<1>7. CASE msg \in [type : {"WILLTOPIC", "WILLTOPICUPD"}, qos : Qos, retain : Bit, topic : Texts]
  BY <1>3, <1>7 DEF Translated
<1>8. CASE msg \in [type : {"WILLMSG", "WILLMSGUPD"}, msg : Texts]
  <2>1. msg.type = "WILLMSG" /\ g = msg /\ msg.msg \in Texts
    BY <1>2, <1>3, <1>8 DEF Translated
  <2> QED BY <2>1, WillMsgMeans DEF g
<1>9. CASE msg \in [type : {"SEARCHGW"}, radius : Bit]
  BY <1>3, <1>9 DEF Translated
<1>10. CASE msg \in [type : {"SUBSCRIBE"}, dup : Bit, qos : Qos, msgID : Ids, topic : Filters]
  <2>1. g = msg
    BY <1>2, <1>10
  <2> QED BY <1>10, <2>1, SubscribeMeans DEF g
<1>11. CASE msg \in [type : {"UNSUBSCRIBE"}, msgID : Ids, topic : Filters]
  <2>1. g = msg
    BY <1>2, <1>11
  <2> QED BY <1>11, <2>1, UnsubscribeMeans DEF g
<1>12. CASE IsPublish(msg)
  <2>1. /\ msg.type = "PUBLISH" /\ msg \in PublishSet(msg.topic)
        /\ msg.topic \in PublishTopics \/ (msg.topic \in LongTopics /\ msg.qos = 3)
    BY <1>12, PublishesAre
  <2>2. g = msg
    BY <1>2, <2>1
  <2>3. ~Client!LongName(msg.qos, msg.topic)
    BY <2>1, <2>2 DEF Passes, g
  <2>4. ~(msg.topic \in LongTopics /\ msg.qos = 3)
    BY <2>3, SameForClient DEF Client!LongName, LongTopics, Topic
  <2> QED BY <2>1, <2>2, <2>4, PublishMeans DEF g
<1>13. CASE msg \in AcksWithTopic
  <2>1. msg.type = "PUBACK" /\ g = msg /\ msg.msgID \in Ids
    BY <1>2, <1>3, <1>13 DEF AcksWithTopic, Translated
  <2> QED BY <2>1, AckMeans DEF g
<1>14. CASE msg \in Acks({"PUBREC", "PUBREL", "PUBCOMP"})
  <2>1. msg.type \in {"PUBREC", "PUBREL", "PUBCOMP"} /\ g = msg /\ msg.msgID \in Ids
    BY <1>2, <1>14 DEF Acks
  <2> QED BY <2>1, AckMeans DEF g
<1>15. CASE msg \in [type : {"REGISTER"}, topicID : {0}, msgID : Ids, name : Texts]
  BY <1>3, <1>15 DEF Translated
<1> QED
  BY <1>4, <1>5, <1>6, <1>7, <1>8, <1>9, <1>10, <1>11, <1>12, <1>13, <1>14, <1>15,
     QoSMinusIsPublished DEF ClientMessages, IsPublish

\* What the broker is to be told at each place of the way to it.
ToldInv ==
    /\ at = "to broker" /\ ~Cut(ClientWriter(m)) => BrokerReads(octets) = Meant(m)
    /\ BrokerIsTold

\* At every place of its way to the broker a message is translated into a packet that says what
\* it means (BrokerIsTold), and so is the way back.
THEOREM MeaningAlwaysKept == Spec => []MeaningKept
<1>1. Init => ToldInv
  BY DEF Init, ToldInv, BrokerIsTold
<1>2. WayInv /\ ToldInv /\ [Next]_vars => ToldInv'
  <2> SUFFICES ASSUME WayInv, ToldInv, [Next]_vars
               PROVE  ToldInv'
    OBVIOUS
  <2>1. CASE ClientWrites \/ ForwarderWraps \/ GatewayUnwraps \/ GatewayReads \/ BrokerSends
             \/ GatewayReceives \/ GatewayAnswers \/ GatewayWrites \/ ClientReads
    <3>1. at' \notin {"to broker", "broker"}
      BY <2>1 DEF ClientWrites, ForwarderWraps, GatewayUnwraps, GatewayReads, BrokerSends,
                  GatewayReceives, GatewayAnswers, GatewayWrites, ClientReads, Move, Put
    <3> QED BY <3>1 DEF ToldInv, BrokerIsTold
  <2>2. CASE GatewayTranslates
    <3>1. /\ at = "gateway" /\ at' # "broker" /\ m' = m
          /\ octets' = getPacketData(ToMqtt(got)) /\ Passes(got)
      BY <2>2 DEF GatewayTranslates, Put, Passes
    <3>2. m \in ClientMessages /\ got = Gw!GetPacket(ClientWriter(m))
      BY <3>1 DEF WayInv
    <3>3. ASSUME ~Cut(ClientWriter(m))
          PROVE  BrokerReads(octets') = Meant(m)
      <4>1. Arrives(m, Understood(m))
        BY <3>2, ClientMessagesArrive
      <4>2. got = Understood(m)
        BY <3>2, <3>3, <4>1 DEF Arrives
      <4>3. TellsBroker(ToMqtt(got), Meant(m))
        BY <3>1, <3>2, <4>2, ClientMessagesMean
      <4> QED BY <3>1, <4>3 DEF TellsBroker
    <3>4. ClientWriter(m') = ClientWriter(m) /\ Meant(m') = Meant(m)
      BY <3>1
    <3> QED BY <3>1, <3>3, <3>4 DEF ToldInv, BrokerIsTold
  <2>3. CASE BrokerReceives
    <3>1. at = "to broker" /\ at' = "broker" /\ m' = m /\ got' = BrokerReads(octets)
      BY <2>3 DEF BrokerReceives, Move
    <3>2. ~Cut(ClientWriter(m)) => got' = Meant(m)
      BY <3>1 DEF ToldInv
    <3>3. ClientWriter(m') = ClientWriter(m) /\ Meant(m') = Meant(m)
      BY <3>1
    <3> QED BY <3>1, <3>2, <3>3 DEF ToldInv, BrokerIsTold
  <2>4. CASE UNCHANGED vars
    BY <2>4 DEF vars, ToldInv, BrokerIsTold
  <2> QED BY <2>1, <2>2, <2>3, <2>4 DEF Next
<1>3. Spec => []ToldInv
  BY <1>1, <1>2, WayAlways, PTL DEF Spec
<1>4. ToldInv /\ ClientIsTold => MeaningKept
  BY DEF ToldInv, MeaningKept
<1> QED BY <1>3, <1>4, AlwaysTold, PTL

----------------------------------------------------------------------------
(* What is in the air is made of octets. *)

Byte == 0 .. 255
Bytes == Seq(Byte)

\* Sequences of octets, alone and one behind the other.
LEMMA BytesAreOctets ==
    ASSUME NEW a \in Bytes
    PROVE  a \in Octets /\ Len(a) \in Nat /\ \A i \in DOMAIN a : a[i] \in 0 .. 255
<1>1. Len(a) \in Nat /\ DOMAIN a = 1 .. Len(a)
  BY DEF Bytes
<1>2. \A i \in 1 .. Len(a) : a[i] \in Byte
  BY DEF Bytes
<1>3. Byte \subseteq Nat
  BY DEF Byte
<1>4. a \in Seq(Nat)
  <2>1. a = [i \in 1 .. Len(a) |-> a[i]]
    BY DEF Bytes
  <2>2. \A i \in 1 .. Len(a) : a[i] \in Nat
    BY <1>2, <1>3
  <2>3. [i \in 1 .. Len(a) |-> a[i]] \in Seq(Nat)
    BY <1>1, <2>2
  <2> QED BY <2>1, <2>3
<1> QED BY <1>1, <1>2, <1>4 DEF Byte, Octets

\* Two sequences of octets behind one another.
LEMMA Joined ==
    ASSUME NEW a \in Bytes, NEW b \in Bytes
    PROVE  a \o b \in Bytes
BY DEF Bytes

\* Short ones.
LEMMA FewBytes ==
    /\ <<>> \in Bytes
    /\ \A x \in Byte : <<x>> \in Bytes
    /\ \A x, y \in Byte : <<x, y>> \in Bytes
    /\ \A x, y, z \in Byte : <<x, y, z>> \in Bytes
BY DEF Bytes

\* writeInt writes two octets of any number.
LEMMA IntBytes ==
    ASSUME NEW n \in Nat
    PROVE  writeInt(n) \in Bytes
<1>1. (n \div 256) % 256 \in Byte /\ n % 256 \in Byte
  BY DEF Byte
<1> QED BY <1>1, FewBytes DEF writeInt

\* The texts of the model are made of letters.
LEMMA TextBytes ==
    ASSUME NEW n \in Nat
    PROVE  Text(n) \in Bytes
<1>1. \A i \in 1 .. n : 97 + (i % 26) \in Byte
  BY DEF Byte
<1> QED BY <1>1 DEF Text, Bytes

\* All of them.
LEMMA TextsAreBytes == Texts \subseteq Bytes /\ ShortTexts \subseteq Bytes
<1>1. TextLengths \subseteq Nat /\ ShortLengths \subseteq Nat
  BY LengthsFit, LengthsAssumption
<1> QED BY <1>1, TextBytes DEF Texts, ShortTexts

\* The names the Topics of a client have for the ids.
LEMMA NamesAreBytes ==
    /\ \A i \in DOMAIN Names : Names[i] \in Bytes
    /\ ShortTopic.name \in Bytes
<1>1. ASSUME NEW i \in DOMAIN Names
      PROVE  Names[i] \in Bytes
  <2> DEFINE a == <<110 + i[1], 47>>
             w == writeInt(i[2])
  <2>1. DOMAIN Names = {NORMAL, PREDEFINED} \X Ids
    BY DEF Names
  <2>2. i \in {NORMAL, PREDEFINED} \X Ids /\ Names[i] = a \o w
    BY <2>1 DEF Names
  <2>3. i[1] \in {0, 1} /\ i[2] \in Ids
    BY <2>2 DEF NORMAL, PREDEFINED
  <2>4. i[2] \in Nat
    BY <2>3, IdIsWord, WordIsNat
  <2>5. 110 + i[1] \in Byte /\ 47 \in Byte
    BY <2>3 DEF Byte
  <2>6. a \in Bytes /\ w \in Bytes
    BY <2>4, <2>5, FewBytes, IntBytes
  <2> HIDE DEF a, w
  <2> QED BY <2>2, <2>6, Joined
<1>2. ShortTopic.name = <<97, 98>>
  BY DEF ShortTopic, Topic
<1>3. 97 \in Byte /\ 98 \in Byte
  BY DEF Byte
<1> QED BY <1>1, <1>2, <1>3, FewBytes

\* Flags and codes are octets.
LEMMA FlagsAreBytes ==
    /\ \A dup \in 0 .. 1, qos \in 0 .. 3, retain \in 0 .. 1, kind \in 0 .. 2 :
         Flags(dup, qos, retain, kind) \in Byte
    /\ \A will, clean \in 0 .. 1 : ConnectFlags(will, clean) \in Byte
BY DEF Flags, ConnectFlags, Byte

\* The types are octets.
LEMMA CodesAreBytes == \A type \in DOMAIN Code : Code[type] \in Byte
BY DEF Code, Byte

\* A packet is made of octets if its body is.
LEMMA PacketBytes ==
    ASSUME NEW type \in DOMAIN Code, NEW body \in Bytes
    PROVE  Packet(type, body) \in Bytes
<1> DEFINE n == MQTTSNPacket_len(1 + Len(body))
           e == MQTTSNPacket_encode(n)
           t == <<Code[type]>>
<1>1. n \in Nat
  BY BytesAreOctets DEF MQTTSNPacket_len
<1> HIDE DEF n
<1>2. e \in Bytes
  <2>1. CASE n > 255
    <3>1. e = <<1>> \o writeInt(n)
      BY <2>1 DEF MQTTSNPacket_encode
    <3>2. 1 \in Byte
      BY DEF Byte
    <3>3. <<1>> \in Bytes /\ writeInt(n) \in Bytes
      BY <1>1, <3>2, FewBytes, IntBytes
    <3> QED BY <3>1, <3>3, Joined
  <2>2. CASE ~(n > 255)
    <3>1. e = <<n>> /\ n \in Byte
      BY <1>1, <2>2 DEF MQTTSNPacket_encode, Byte
    <3> QED BY <3>1, FewBytes
  <2> QED BY <2>1, <2>2
<1> HIDE DEF e
<1>3. t \in Bytes
  BY CodesAreBytes, FewBytes
<1> HIDE DEF t
<1>4. e \o t \in Bytes
  BY <1>2, <1>3, Joined
<1>5. e \o t \o body \in Bytes
  BY <1>4, Joined
<1> QED BY <1>5 DEF Packet, e, t, n

\* What a sender sends is nothing or the packet.
LEMMA SentBytes ==
    ASSUME NEW n, NEW s \in Bytes
    PROVE  Client!Sent(n, s).octets \in Bytes /\ Client!Given(s).octets \in Bytes
BY FewBytes DEF Client!Sent, Client!Given

\* What a client writes around a message id.
LEMMA WrittenBytes ==
    ASSUME NEW msg, msg.type \in DOMAIN Code, msg.msgID \in Nat, Written(msg),
           IdHead(msg) \in Bytes, IdTail(msg) \in Bytes
    PROVE  ClientWriter(msg) \in Bytes
<1> DEFINE h == IdHead(msg)
           w == writeInt(msg.msgID)
           t == IdTail(msg)
<1>1. w \in Bytes
  BY IntBytes
<1>2. ClientWriter(msg) = Packet(msg.type, h \o w \o t)
  BY DEF Written, WithId, Holding
<1> HIDE DEF h, w, t
<1>3. h \o w \in Bytes
  BY <1>1, Joined DEF h
<1>4. h \o w \o t \in Bytes
  BY <1>3, Joined DEF t
<1> QED BY <1>2, <1>4, PacketBytes

\* CONNECT.
LEMMA ConnectBytes ==
    ASSUME NEW msg, msg.type = "CONNECT", msg.will \in Bit, msg.clean \in Bit,
           msg.duration \in Nat, msg.clientID \in Bytes
    PROVE  ClientWriter(msg) \in Bytes
<1> DEFINE h == <<ConnectFlags(msg.will, msg.clean), 1>>
           w == writeInt(msg.duration)
           t == msg.clientID
           s == Packet("CONNECT", h \o w \o t)
           n == MQTTSNPacket_len(5 + Len(t))
<1>1. ClientSender(msg) = Client!Sent(n, s)
  <2>1. ClientSender(msg) = Client!connect(msg)
    BY DEF ClientSender
  <2>2. Client!MQTTSNSerialize_connect(msg) = s
    BY SameForClient DEF Client!MQTTSNSerialize_connect
  <2> QED BY <2>1, <2>2, SameForClient DEF Client!connect
<1>2. h \in Bytes
  <2>1. msg.will \in 0 .. 1 /\ msg.clean \in 0 .. 1 /\ 1 \in Byte
    BY DEF Bit, Byte
  <2>2. ConnectFlags(msg.will, msg.clean) \in Byte
    BY <2>1, FlagsAreBytes
  <2> QED BY <2>1, <2>2, FewBytes
<1>3. w \in Bytes /\ t \in Bytes
  BY IntBytes
<1> HIDE DEF h, w, t, n
<1>4. h \o w \in Bytes
  BY <1>2, <1>3, Joined
<1>5. h \o w \o t \in Bytes
  BY <1>3, <1>4, Joined
<1>6. "CONNECT" \in DOMAIN Code
  BY DEF Code
<1>7. s \in Bytes
  BY <1>5, <1>6, PacketBytes
<1> QED BY <1>1, <1>7, SentBytes DEF ClientWriter

\* DISCONNECT.
LEMMA DisconnectBytes ==
    ASSUME NEW msg, msg.type = "DISCONNECT", msg.duration \in Nat
    PROVE  ClientWriter(msg) \in Bytes
<1> DEFINE b == IF msg.duration > 0 THEN writeInt(msg.duration) ELSE <<>>
           s == Packet("DISCONNECT", b)
           n == MQTTSNPacket_len(IF msg.duration > 0 THEN 3 ELSE 1)
<1>1. ClientSender(msg) = Client!Sent(n, s)
  <2>1. ClientSender(msg) = Client!disconnect(msg)
    BY DEF ClientSender
  <2>2. Client!MQTTSNSerialize_disconnect(msg) = s
    BY SameForClient DEF Client!MQTTSNSerialize_disconnect
  <2> QED BY <2>1, <2>2, SameForClient DEF Client!disconnect
<1>2. b \in Bytes
  BY IntBytes, FewBytes
<1>3. "DISCONNECT" \in DOMAIN Code
  BY DEF Code
<1> HIDE DEF b, n
<1>4. s \in Bytes
  BY <1>2, <1>3, PacketBytes
<1> QED BY <1>1, <1>4, SentBytes DEF ClientWriter

\* PINGREQ and PINGRESP.
LEMMA PingBytes ==
    ASSUME NEW msg, msg.type = "PINGRESP" \/ (msg.type = "PINGREQ" /\ msg.clientID \in Bytes)
    PROVE  ClientWriter(msg) \in Bytes
<1>1. CASE msg.type = "PINGRESP"
  <2> DEFINE s == Packet("PINGRESP", <<>>)
  <2>1. ClientSender(msg) = Client!Sent(2, s)
    BY <1>1, SameForClient DEF ClientSender, Client!pingResp
  <2>2. "PINGRESP" \in DOMAIN Code
    BY DEF Code
  <2>3. s \in Bytes
    BY <2>2, FewBytes, PacketBytes
  <2> QED BY <2>1, <2>3, SentBytes DEF ClientWriter
<1>2. CASE msg.type = "PINGREQ"
  <2> DEFINE s == Packet("PINGREQ", msg.clientID)
             n == IF msg.clientID = <<>> THEN 2 ELSE MQTTSNPacket_len(Len(msg.clientID) + 1)
  <2>1. ClientSender(msg) = Client!pingReq(msg)
    BY <1>2 DEF ClientSender
  <2>2. Client!pingReq(msg) = Client!Sent(n, s)
    BY SameForClient DEF Client!pingReq, Client!MQTTSNSerialize_pingreq
  <2>3. "PINGREQ" \in DOMAIN Code
    BY DEF Code
  <2>4. s \in Bytes
    BY <1>2, <2>3, PacketBytes
  <2> HIDE DEF n
  <2> QED BY <2>1, <2>2, <2>4, SentBytes DEF ClientWriter
<1> QED BY <1>1, <1>2

\* WILLTOPIC and WILLTOPICUPD.
LEMMA WillTopicBytes ==
    ASSUME NEW msg, msg.type \in {"WILLTOPIC", "WILLTOPICUPD"}, msg.qos \in Qos,
           msg.retain \in Bit, msg.topic \in Bytes
    PROVE  ClientWriter(msg) \in Bytes
<1> DEFINE h == <<Flags(0, msg.qos, msg.retain, 0)>>
           t == msg.topic
           s == Packet(msg.type, h \o t)
           n == MQTTSNPacket_len(Len(t) + 2)
<1>1. h \in Bytes
  <2>1. 0 \in 0 .. 1 /\ msg.qos \in 0 .. 3 /\ msg.retain \in 0 .. 1 /\ 0 \in 0 .. 2
    BY DEF Qos, Bit
  <2>2. Flags(0, msg.qos, msg.retain, 0) \in Byte
    BY <2>1, FlagsAreBytes
  <2> QED BY <2>2, FewBytes
<1>2. Client!MQTTSNSerialize_willtopic1(msg, msg.type) = s
  BY SameForClient DEF Client!MQTTSNSerialize_willtopic1
<1> HIDE DEF h, n
<1>3. h \o t \in Bytes
  BY <1>1, Joined
<1>4. msg.type \in DOMAIN Code
  BY DEF Code
<1>5. s \in Bytes
  BY <1>3, <1>4, PacketBytes
<1> HIDE DEF s
<1>6. ClientSender(msg) = Client!Sent(n, s) \/ ClientSender(msg) = Client!Given(s)
  <2>1. ASSUME msg.type = "WILLTOPIC"
        PROVE  ClientSender(msg) = Client!Sent(n, s)
    <3>1. ClientSender(msg) = Client!willTopic(msg)
      BY <2>1 DEF ClientSender
    <3>2. Client!willTopic(msg) = Client!Sent(n, s)
      BY <1>2, <2>1, SameForClient DEF Client!willTopic, Client!MQTTSNSerialize_willtopic, n
    <3> QED BY <3>1, <3>2
  <2>2. ASSUME msg.type = "WILLTOPICUPD"
        PROVE  ClientSender(msg) = Client!Given(s)
    BY <1>2, <2>2 DEF ClientSender, Client!MQTTSNSerialize_willtopicupd
  <2> QED BY <2>1, <2>2
<1> QED BY <1>5, <1>6, SentBytes DEF ClientWriter

\* WILLMSG and WILLMSGUPD.
LEMMA WillMsgBytes ==
    ASSUME NEW msg, msg.type \in {"WILLMSG", "WILLMSGUPD"}, msg.msg \in Bytes
    PROVE  ClientWriter(msg) \in Bytes
<1> DEFINE s == Packet(msg.type, msg.msg)
           n == MQTTSNPacket_len(Len(msg.msg) + 1)
<1>1. Client!MQTTSNSerialize_willmsg1(msg, msg.type) = s
  BY SameForClient DEF Client!MQTTSNSerialize_willmsg1
<1>2. msg.type \in DOMAIN Code
  BY DEF Code
<1>3. s \in Bytes
  BY <1>2, PacketBytes
<1> HIDE DEF s
<1>4. ASSUME msg.type = "WILLMSG"
      PROVE  ClientSender(msg) = Client!Sent(n, s)
  <2>1. ClientSender(msg) = Client!willMsg(msg)
    BY <1>4 DEF ClientSender
  <2>2. Client!willMsg(msg) = Client!Sent(n, s)
    BY <1>1, <1>4, SameForClient DEF Client!willMsg, Client!MQTTSNSerialize_willmsg
  <2> QED BY <2>1, <2>2
<1>5. ASSUME msg.type = "WILLMSGUPD"
      PROVE  ClientSender(msg) = Client!Given(s)
  BY <1>1, <1>5 DEF ClientSender, Client!MQTTSNSerialize_willmsgupd
<1> HIDE DEF n
<1> QED BY <1>3, <1>4, <1>5, SentBytes DEF ClientWriter

\* SEARCHGW.
LEMMA SearchBytes ==
    ASSUME NEW msg, msg.type = "SEARCHGW", msg.radius \in Bit
    PROVE  ClientWriter(msg) \in Bytes
<1> DEFINE s == Packet("SEARCHGW", <<msg.radius>>)
<1>1. ClientSender(msg) = Client!Given(s)
  BY SameForClient DEF ClientSender, Client!MQTTSNSerialize_searchgw
<1>2. "SEARCHGW" \in DOMAIN Code /\ msg.radius \in Byte
  BY DEF Code, Bit, Byte
<1> QED
  <2>1. s \in Bytes
    BY <1>2, FewBytes, PacketBytes
  <2> QED BY <1>1, <2>1, SentBytes DEF ClientWriter

\* The topics of a SUBSCRIBE, an UNSUBSCRIBE and a PUBLISH.
LEMMA TopicBytes ==
    /\ \A topic \in Filters :
         Client!FilterOctets(topic) \in Bytes /\ FilterName(topic, Names) \in Bytes
    /\ \A topic \in PublishTopics :
         /\ TwoOctets(topic) \in Bytes /\ NameOf(topic, Names) \in Bytes
         /\ topic.kind \in 0 .. 2
    /\ \A topic \in LongTopics : topic.kind = NORMAL /\ topic.name \in Bytes
<1>1. \A topic : Client!FilterOctets(topic)
                   = IF topic.kind = PREDEFINED THEN writeInt(topic.id) ELSE topic.name
  BY SameForClient DEF Client!FilterOctets
<1>2. \A i \in Ids : writeInt(i) \in Bytes
  BY IdIsWord, WordIsNat, IntBytes
<1>3. \A kind \in {NORMAL, PREDEFINED}, i \in Ids : Names[<<kind, i>>] \in Bytes
  <2>1. DOMAIN Names = {NORMAL, PREDEFINED} \X Ids
    BY DEF Names
  <2>2. \A kind \in {NORMAL, PREDEFINED}, i \in Ids : <<kind, i>> \in DOMAIN Names
    BY <2>1
  <2> QED BY <2>2, NamesAreBytes
<1>4. ASSUME NEW topic, topic = ShortTopic
      PROVE  /\ Client!FilterOctets(topic) \in Bytes /\ FilterName(topic, Names) \in Bytes
             /\ TwoOctets(topic) \in Bytes /\ NameOf(topic, Names) \in Bytes
             /\ topic.kind \in 0 .. 2
  <2>1. topic.kind = SHORT /\ topic.name \in Bytes
    BY <1>4, NamesAreBytes DEF ShortTopic, Topic
  <2>2. SHORT # PREDEFINED /\ SHORT # NORMAL /\ SHORT \in 0 .. 2
    BY DEF SHORT, PREDEFINED, NORMAL
  <2> QED BY <1>1, <2>1, <2>2 DEF FilterName, NameOf, TwoOctets
<1>5. ASSUME NEW topic, NEW kind \in {NORMAL, PREDEFINED}, NEW i \in Ids,
             topic = Topic(kind, i, <<>>)
      PROVE  /\ TwoOctets(topic) \in Bytes /\ NameOf(topic, Names) \in Bytes
             /\ topic.kind \in 0 .. 2
             /\ kind = PREDEFINED =>
                  Client!FilterOctets(topic) \in Bytes /\ FilterName(topic, Names) \in Bytes
  <2>1. topic.kind = kind /\ topic.id = i
    BY <1>5 DEF Topic
  <2>2. kind # SHORT /\ NORMAL # PREDEFINED /\ kind \in 0 .. 2
    BY DEF SHORT, PREDEFINED, NORMAL
  <2>3. writeInt(i) \in Bytes /\ Names[<<kind, i>>] \in Bytes
    BY <1>2, <1>3
  <2> QED BY <1>1, <2>1, <2>2, <2>3 DEF FilterName, NameOf, TwoOctets
<1>6. ASSUME NEW topic, NEW t \in Texts, topic = Topic(NORMAL, 0, t)
      PROVE  /\ topic.kind = NORMAL /\ topic.name \in Bytes
             /\ Client!FilterOctets(topic) \in Bytes /\ FilterName(topic, Names) \in Bytes
  <2>1. topic.kind = NORMAL /\ topic.name \in Bytes
    BY <1>6, TextsAreBytes DEF Topic
  <2>2. NORMAL # PREDEFINED
    BY DEF PREDEFINED, NORMAL
  <2> QED BY <1>1, <2>1, <2>2 DEF FilterName
<1>7. \A topic \in Filters :
         Client!FilterOctets(topic) \in Bytes /\ FilterName(topic, Names) \in Bytes
  BY <1>4, <1>5, <1>6 DEF Filters
<1>8. \A topic \in PublishTopics :
         /\ TwoOctets(topic) \in Bytes /\ NameOf(topic, Names) \in Bytes
         /\ topic.kind \in 0 .. 2
  BY <1>4, <1>5 DEF PublishTopics
<1>9. \A topic \in LongTopics : topic.kind = NORMAL /\ topic.name \in Bytes
  BY <1>6 DEF LongTopics
<1> QED BY <1>7, <1>8, <1>9

\* The messages that ask for a topic.
LEMMA FilterBytes ==
    ASSUME NEW msg, \/ msg \in [type : {"SUBSCRIBE"}, dup : Bit, qos : Qos, msgID : Ids, topic : Filters]
                    \/ msg \in [type : {"UNSUBSCRIBE"}, msgID : Ids, topic : Filters]
    PROVE  ClientWriter(msg) \in Bytes
<1>1. /\ msg.topic \in Filters /\ msg.msgID \in Word /\ msg.msgID \in Nat
      /\ msg.type \in {"SUBSCRIBE", "UNSUBSCRIBE"}
  BY IdIsWord, WordIsNat
<1>2. IsFilter(msg.topic) /\ msg.topic.kind \in 0 .. 2
  BY <1>1, FiltersAreFilters, FilterIsKept
<1>3. Written(msg)
  <2>1. CASE msg \in [type : {"SUBSCRIBE"}, dup : Bit, qos : Qos, msgID : Ids, topic : Filters]
    <3>1. msg \in [type : {"SUBSCRIBE"}, dup : Bit, qos : Qos, msgID : Word, topic : {msg.topic}]
      BY <2>1, IdIsWord
    <3> QED BY <1>2, <3>1, SubscribeArrives
  <2>2. CASE msg \in [type : {"UNSUBSCRIBE"}, msgID : Ids, topic : Filters]
    <3>1. msg \in [type : {"UNSUBSCRIBE"}, msgID : Word, topic : {msg.topic}]
      BY <2>2, IdIsWord
    <3> QED BY <1>2, <3>1, UnsubscribeArrives
  <2> QED BY <2>1, <2>2
<1>4. IdHead(msg) \in Bytes
  <2>1. CASE msg.type = "SUBSCRIBE"
    <3>1. msg.dup \in 0 .. 1 /\ msg.qos \in 0 .. 3 /\ 0 \in 0 .. 1
      BY <2>1 DEF Bit, Qos
    <3>2. Flags(msg.dup, msg.qos, 0, msg.topic.kind) \in Byte
      BY <1>2, <3>1, FlagsAreBytes
    <3> QED BY <2>1, <3>2, FewBytes DEF IdHead
  <2>2. CASE msg.type = "UNSUBSCRIBE"
    <3>1. msg.topic.kind \in Byte
      BY <1>2 DEF Byte
    <3> QED BY <2>2, <3>1, FewBytes DEF IdHead
  <2> QED BY <1>1, <2>1, <2>2
<1>5. IdTail(msg) \in Bytes
  BY <1>1, TopicBytes DEF IdTail
<1>6. msg.type \in DOMAIN Code
  BY <1>1 DEF Code
<1> QED BY <1>1, <1>3, <1>4, <1>5, <1>6, WrittenBytes

\* What the fields of a PUBLISH hold.
LEMMA PublishFields ==
    ASSUME NEW topic, NEW msg \in PublishSet(topic)
    PROVE  /\ msg.topic = topic /\ msg.dup \in 0 .. 1 /\ msg.qos \in 0 .. 3
           /\ msg.retain \in 0 .. 1 /\ msg.msgID \in Nat /\ msg.type = "PUBLISH"
<1>1. /\ msg.dup \in {0, 1} /\ msg.qos \in 0 .. 3 /\ msg.retain \in {0, 1}
      /\ msg.msgID \in Word
  BY DEF PublishSet, Bit
<1>2. msg.topic \in {topic}
  BY DEF PublishSet
<1>3. msg.type = "PUBLISH"
  BY DEF PublishSet
<1>4. msg.dup \in 0 .. 1 /\ msg.retain \in 0 .. 1
  <2> HIDE DEF PublishSet
  <2> QED BY <1>1
<1>5. msg.msgID \in Nat
  BY <1>1, WordIsNat
<1> QED BY <1>1, <1>2, <1>3, <1>4, <1>5

\* A PUBLISH.
LEMMA PublishBytes ==
    ASSUME NEW topic \in PublishTopics, NEW msg \in PublishSet(topic), msg.payload \in Bytes,
           msg.qos = 0 => msg.msgID = 0, ~(msg.qos = 3 /\ topic.kind = NORMAL)
    PROVE  ClientWriter(msg) \in Bytes
<1> DEFINE f == <<Flags(msg.dup, msg.qos, msg.retain, topic.kind)>>
           id == TwoOctets(topic)
           w == writeInt(msg.msgID)
           e == <<>>
           t == msg.payload
<1>1. ClientWriter(msg) = Packet("PUBLISH", PublishBody(msg))
  <2>1. ~Client!LongName(msg.qos, topic)
    BY SameForClient DEF Client!LongName
  <2> QED BY <2>1, TwoOctetTopics, PublishArrives
<1>2. /\ msg.topic = topic /\ msg.dup \in 0 .. 1 /\ msg.qos \in 0 .. 3 /\ msg.retain \in 0 .. 1
      /\ msg.msgID \in Nat
  BY PublishFields
<1>3. PublishBody(msg) = f \o id \o w \o e \o t
  BY <1>2 DEF PublishBody
<1>4. topic.kind \in 0 .. 2 /\ id \in Bytes
  BY TopicBytes
<1>5. Flags(msg.dup, msg.qos, msg.retain, topic.kind) \in Byte
  BY <1>2, <1>4, FlagsAreBytes
<1>6. f \in Bytes /\ w \in Bytes /\ e \in Bytes /\ t \in Bytes
  BY <1>2, <1>5, FewBytes, IntBytes
<1> HIDE DEF f, id, w, e, t
<1>7. f \o id \in Bytes
  BY <1>4, <1>6, Joined
<1>8. f \o id \o w \in Bytes
  BY <1>6, <1>7, Joined
<1>9. f \o id \o w \o e \in Bytes
  BY <1>6, <1>8, Joined
<1>10. PublishBody(msg) \in Bytes
  BY <1>3, <1>6, <1>9, Joined
<1>11. "PUBLISH" \in DOMAIN Code
  BY DEF Code
<1> QED BY <1>1, <1>10, <1>11, PacketBytes

\* A PUBLISH by a long name.
LEMMA PublishLongBytes ==
    ASSUME NEW topic \in LongTopics, NEW msg \in PublishSet(topic), msg.payload \in Bytes,
           msg.qos = 3
    PROVE  ClientWriter(msg) \in Bytes
<1> DEFINE f == <<Flags(msg.dup, msg.qos, msg.retain, topic.kind)>>
           l == writeInt(Len(topic.name))
<1>1. topic \in [kind : {NORMAL}, id : {0}, name : AnyText \ {<<>>}]
  BY TextsAreTexts DEF LongTopics, Topic
<1>2. Written(msg)
  BY <1>1, PublishLongArrives
<1>3. topic.kind = NORMAL /\ topic.name \in Bytes
  BY TopicBytes
<1>4. /\ msg.topic = topic /\ msg.dup \in 0 .. 1 /\ msg.qos \in 0 .. 3 /\ msg.retain \in 0 .. 1
      /\ msg.msgID \in Nat /\ msg.type = "PUBLISH"
  BY PublishFields
<1>5. Client!LongName(msg.qos, msg.topic)
  BY <1>3, <1>4, SameForClient DEF Client!LongName
<1>6. IdHead(msg) = f \o l /\ IdTail(msg) = topic.name \o msg.payload
  BY <1>4, <1>5 DEF IdHead, IdTail
<1>7. f \in Bytes
  <2>1. topic.kind \in 0 .. 2
    BY <1>3 DEF NORMAL
  <2>2. Flags(msg.dup, msg.qos, msg.retain, topic.kind) \in Byte
    BY <1>4, <2>1, FlagsAreBytes
  <2> QED BY <2>2, FewBytes
<1>8. l \in Bytes
  BY <1>3, BytesAreOctets, IntBytes
<1> HIDE DEF f, l
<1>9. IdHead(msg) \in Bytes
  BY <1>6, <1>7, <1>8, Joined
<1>10. IdTail(msg) \in Bytes
  BY <1>3, <1>6, Joined
<1>11. msg.type \in DOMAIN Code
  BY <1>4 DEF Code
<1> QED BY <1>2, <1>4, <1>9, <1>10, <1>11, WrittenBytes

\* The acknowledgements, and a REGISTER.
LEMMA AckBytes ==
    ASSUME NEW msg, \/ msg \in AcksWithTopic \/ msg \in Acks({"PUBREC", "PUBREL", "PUBCOMP"})
                    \/ msg \in [type : {"REGISTER"}, topicID : {0}, msgID : Ids, name : Texts]
    PROVE  ClientWriter(msg) \in Bytes
<1>1. CASE msg \in AcksWithTopic
  <2>1. msg \in [type : {"PUBACK", "REGACK"}, topicID : Word, msgID : Word, rc : Nat]
    BY <1>1, IdIsWord, SmallWord DEF AcksWithTopic
  <2>2. Written(msg)
    BY <2>1, AckWithTopicArrives
  <2>3. msg.type \in {"PUBACK", "REGACK"} /\ msg.topicID \in Nat /\ msg.msgID \in Nat
    BY <2>1, WordIsNat
  <2>4. msg.rc \in Byte
    BY <1>1 DEF AcksWithTopic, Byte
  <2>5. IdHead(msg) = writeInt(msg.topicID) /\ IdTail(msg) = <<msg.rc>>
    BY <2>3 DEF IdHead, IdTail
  <2>6. IdHead(msg) \in Bytes /\ IdTail(msg) \in Bytes
    BY <2>3, <2>4, <2>5, IntBytes, FewBytes
  <2>7. msg.type \in DOMAIN Code
    BY <2>3 DEF Code
  <2> QED BY <2>2, <2>3, <2>6, <2>7, WrittenBytes
<1>2. CASE msg \in Acks({"PUBREC", "PUBREL", "PUBCOMP"})
  <2>1. msg \in [type : {"PUBREC", "PUBREL", "PUBCOMP"}, msgID : Word]
    BY <1>2, IdIsWord DEF Acks
  <2>2. Written(msg)
    BY <2>1, AckArrives
  <2>3. msg.type \in {"PUBREC", "PUBREL", "PUBCOMP"} /\ msg.msgID \in Nat
    BY <2>1, WordIsNat
  <2>4. IdHead(msg) = <<>> /\ IdTail(msg) = <<>>
    BY <2>3 DEF IdHead, IdTail
  <2>5. msg.type \in DOMAIN Code
    BY <2>3 DEF Code
  <2> QED BY <2>2, <2>3, <2>4, <2>5, FewBytes, WrittenBytes
<1>3. CASE msg \in [type : {"REGISTER"}, topicID : {0}, msgID : Ids, name : Texts]
  <2>1. msg \in [type : {"REGISTER"}, topicID : Word, msgID : Word, name : AnyText]
    BY <1>3, IdIsWord, SmallWord, TextsAreTexts
  <2>2. Written(msg)
    BY <2>1, RegisterArrives
  <2>3. msg.type = "REGISTER" /\ msg.topicID \in Nat /\ msg.msgID \in Nat
    BY <2>1, WordIsNat
  <2>4. IdHead(msg) = writeInt(msg.topicID) /\ IdTail(msg) = msg.name
    BY <2>3 DEF IdHead, IdTail
  <2>5. IdHead(msg) \in Bytes /\ IdTail(msg) \in Bytes
    BY <1>3, <2>3, <2>4, IntBytes, TextsAreBytes
  <2>6. msg.type \in DOMAIN Code
    BY <2>3 DEF Code
  <2> QED BY <2>2, <2>3, <2>5, <2>6, WrittenBytes
<1> QED BY <1>1, <1>2, <1>3

\* Whatever a client writes is made of octets.
LEMMA ClientWriterBytes ==
    ASSUME NEW msg \in ClientMessages
    PROVE  ClientWriter(msg) \in Bytes
<1>1. Ids \subseteq Nat /\ 0 \in Nat
  BY IdIsWord, WordIsNat
<1>2. CASE msg \in [type : {"CONNECT"}, will : Bit, clean : Bit, duration : Ids, clientID : Texts]
  BY <1>1, <1>2, TextsAreBytes, ConnectBytes
<1>3. CASE msg \in [type : {"DISCONNECT"}, duration : Ids \cup {0}]
  BY <1>1, <1>3, DisconnectBytes
<1>4. CASE msg \in [type : {"PINGRESP"}] \/ msg \in [type : {"PINGREQ"}, clientID : Texts]
  BY <1>4, TextsAreBytes, PingBytes
<1>5. CASE msg \in [type : {"WILLTOPIC", "WILLTOPICUPD"}, qos : Qos, retain : Bit, topic : Texts]
  BY <1>5, TextsAreBytes, WillTopicBytes
<1>6. CASE msg \in [type : {"WILLMSG", "WILLMSGUPD"}, msg : Texts]
  BY <1>6, TextsAreBytes, WillMsgBytes
<1>7. CASE msg \in [type : {"SEARCHGW"}, radius : Bit]
  BY <1>7, SearchBytes
<1>8. CASE \/ msg \in [type : {"SUBSCRIBE"}, dup : Bit, qos : Qos, msgID : Ids, topic : Filters]
           \/ msg \in [type : {"UNSUBSCRIBE"}, msgID : Ids, topic : Filters]
  BY <1>8, FilterBytes
<1>9. CASE IsPublish(msg)
  BY <1>9, PublishesAre, TextsAreBytes, PublishBytes, PublishLongBytes
<1>10. CASE \/ msg \in AcksWithTopic \/ msg \in Acks({"PUBREC", "PUBREL", "PUBCOMP"})
            \/ msg \in [type : {"REGISTER"}, topicID : {0}, msgID : Ids, name : Texts]
  BY <1>10, AckBytes
<1> QED
  BY <1>2, <1>3, <1>4, <1>5, <1>6, <1>7, <1>8, <1>9, <1>10,
     QoSMinusIsPublished DEF ClientMessages, IsPublish

----------------------------------------------------------------------------
(* What the gateway writes. *)

\* Messages of the gateway that have at most a code.
LEMMA CodeBytes ==
    ASSUME NEW msg,
           \/ msg.type \in {"WILLTOPICREQ", "WILLMSGREQ", "PINGRESP"}
           \/ msg.type \in {"CONNACK", "WILLTOPICRESP", "WILLMSGRESP"} /\ msg.rc \in 0 .. 3
    PROVE  Gw!Serialize(msg) \in Bytes
<1>1. CASE msg.type \in {"WILLTOPICREQ", "WILLMSGREQ", "PINGRESP"}
  <2>1. Gw!Serialize(msg) = Packet(msg.type, <<>>)
    BY <1>1, SameForGateway DEF Gw!Serialize, Gw!MQTTSNSerialize_willtopicreq,
       Gw!MQTTSNSerialize_willmsgreq, Gw!MQTTSNSerialize_pingresp
  <2>2. msg.type \in DOMAIN Code
    BY <1>1 DEF Code
  <2> QED BY <2>1, <2>2, FewBytes, PacketBytes
<1>2. CASE msg.type \in {"CONNACK", "WILLTOPICRESP", "WILLMSGRESP"} /\ msg.rc \in 0 .. 3
  <2> DEFINE b == <<msg.rc>>
  <2>4. Gw!Serialize(msg) = Packet(msg.type, b)
    <3>1. ASSUME msg.type = "CONNACK"
          PROVE  Gw!Serialize(msg) = Packet(msg.type, b)
      BY <3>1, SameForGateway DEF Gw!Serialize, Gw!MQTTSNSerialize_connack
    <3>2. ASSUME msg.type = "WILLTOPICRESP"
          PROVE  Gw!Serialize(msg) = Packet(msg.type, b)
      BY <3>2, SameForGateway DEF Gw!Serialize, Gw!MQTTSNSerialize_willtopicresp
    <3>3. ASSUME msg.type = "WILLMSGRESP"
          PROVE  Gw!Serialize(msg) = Packet(msg.type, b)
      BY <3>3, SameForGateway DEF Gw!Serialize, Gw!MQTTSNSerialize_willmsgresp
    <3> QED BY <1>2, <3>1, <3>2, <3>3
  <2>5. msg.type \in DOMAIN Code
    BY <1>2 DEF Code
  <2>6. msg.rc \in Byte
    BY <1>2 DEF Byte
  <2>7. b \in Bytes
    BY <2>6, FewBytes
  <2> HIDE DEF b
  <2> QED BY <2>4, <2>5, <2>7, PacketBytes
<1> QED BY <1>1, <1>2

\* Messages of the gateway about itself.
LEMMA SelfBytes ==
    ASSUME NEW msg,
           \/ msg.type = "ADVERTISE" /\ msg.gwID \in Bit /\ msg.duration \in Nat
           \/ msg.type = "GWINFO" /\ msg.gwID \in Bit /\ msg.address = <<>>
           \/ msg.type = "DISCONNECT" /\ msg.duration \in Nat
    PROVE  Gw!Serialize(msg) \in Bytes
<1> DEFINE c == <<msg.gwID>>
           w == writeInt(msg.duration)
<1>1. msg.gwID \in Bit => c \in Bytes
  <2>1. msg.gwID \in Bit => msg.gwID \in Byte
    BY DEF Bit, Byte
  <2> QED BY <2>1, FewBytes
<1>2. msg.duration \in Nat => w \in Bytes
  BY IntBytes
<1>3. CASE msg.type = "ADVERTISE" /\ msg.gwID \in Bit /\ msg.duration \in Nat
  <2>1. Gw!Serialize(msg) = Packet("ADVERTISE", c \o w)
    BY <1>3, SameForGateway DEF Gw!Serialize, Gw!MQTTSNSerialize_advertise
  <2>2. "ADVERTISE" \in DOMAIN Code
    BY DEF Code
  <2> HIDE DEF c, w
  <2>3. c \o w \in Bytes
    BY <1>1, <1>2, <1>3, Joined
  <2> QED BY <2>1, <2>2, <2>3, PacketBytes
<1>4. CASE msg.type = "GWINFO" /\ msg.gwID \in Bit /\ msg.address = <<>>
  <2>1. Gw!Serialize(msg) = Packet("GWINFO", c \o msg.address)
    BY <1>4, SameForGateway DEF Gw!Serialize, Gw!MQTTSNSerialize_gwinfo
  <2>2. "GWINFO" \in DOMAIN Code
    BY DEF Code
  <2> HIDE DEF c, w
  <2>3. c \o msg.address \in Bytes
    BY <1>1, <1>4, FewBytes, Joined
  <2> QED BY <2>1, <2>2, <2>3, PacketBytes
<1>5. CASE msg.type = "DISCONNECT" /\ msg.duration \in Nat
  <2> DEFINE b == IF msg.duration > 0 THEN w ELSE <<>>
  <2>1. Gw!Serialize(msg) = Packet("DISCONNECT", b)
    BY <1>5, SameForGateway DEF Gw!Serialize, Gw!MQTTSNSerialize_disconnect
  <2>2. "DISCONNECT" \in DOMAIN Code
    BY DEF Code
  <2> HIDE DEF w
  <2>3. b \in Bytes
    BY <1>2, <1>5, FewBytes
  <2> HIDE DEF b
  <2> QED BY <2>1, <2>2, <2>3, PacketBytes
<1> QED BY <1>3, <1>4, <1>5

\* Acknowledgements of the gateway, and a REGISTER.
LEMMA GatewayAckBytes ==
    ASSUME NEW msg, msg.msgID \in Nat,
           \/ /\ msg.type = "SUBACK" /\ msg.qos \in Qos /\ msg.topicID \in Nat /\ msg.rc \in 0 .. 3
           \/ msg.type = "REGISTER" /\ msg.topicID \in Nat /\ msg.name \in Bytes
           \/ msg.type \in {"PUBACK", "REGACK"} /\ msg.topicID \in Nat /\ msg.rc \in 0 .. 3
           \/ msg.type \in {"PUBREC", "PUBREL", "PUBCOMP", "UNSUBACK"}
    PROVE  Gw!Serialize(msg) \in Bytes
<1> DEFINE w == writeInt(msg.msgID)
           id == writeInt(msg.topicID)
           f == <<Flags(0, msg.qos, 0, 0)>>
           c == <<msg.rc>>
<1>1. w \in Bytes
  BY IntBytes
<1>2. msg.topicID \in Nat => id \in Bytes
  BY IntBytes
<1>3. msg.rc \in 0 .. 3 => c \in Bytes
  <2>1. msg.rc \in 0 .. 3 => msg.rc \in Byte
    BY DEF Byte
  <2> QED BY <2>1, FewBytes
<1>4. msg.qos \in Qos => f \in Bytes
  <2>1. 0 \in 0 .. 1 /\ 0 \in 0 .. 2 /\ (msg.qos \in Qos => msg.qos \in 0 .. 3)
    BY DEF Qos
  <2>2. msg.qos \in Qos => Flags(0, msg.qos, 0, 0) \in Byte
    BY <2>1, FlagsAreBytes
  <2> QED BY <2>2, FewBytes
<1>5. CASE msg.type = "SUBACK" /\ msg.qos \in Qos /\ msg.topicID \in Nat /\ msg.rc \in 0 .. 3
  <2>1. Gw!Serialize(msg) = Packet("SUBACK", f \o id \o w \o c)
    BY <1>5, SameForGateway DEF Gw!Serialize, Gw!MQTTSNSerialize_suback
  <2>2. "SUBACK" \in DOMAIN Code
    BY DEF Code
  <2> HIDE DEF f, id, w, c
  <2>3. f \o id \in Bytes
    BY <1>2, <1>4, <1>5, Joined
  <2>4. f \o id \o w \in Bytes
    BY <1>1, <2>3, Joined
  <2>5. f \o id \o w \o c \in Bytes
    BY <1>3, <1>5, <2>4, Joined
  <2> QED BY <2>1, <2>2, <2>5, PacketBytes
<1>6. CASE msg.type = "REGISTER" /\ msg.topicID \in Nat /\ msg.name \in Bytes
  <2>1. Gw!Serialize(msg) = Packet("REGISTER", id \o w \o msg.name)
    BY <1>6, SameForGateway DEF Gw!Serialize, Gw!MQTTSNSerialize_register
  <2>2. "REGISTER" \in DOMAIN Code
    BY DEF Code
  <2> HIDE DEF f, id, w, c
  <2>3. id \o w \in Bytes
    BY <1>1, <1>2, <1>6, Joined
  <2>4. id \o w \o msg.name \in Bytes
    BY <1>6, <2>3, Joined
  <2> QED BY <2>1, <2>2, <2>4, PacketBytes
<1>7. CASE msg.type \in {"PUBACK", "REGACK"} /\ msg.topicID \in Nat /\ msg.rc \in 0 .. 3
  <2>1. Gw!Serialize(msg) = Packet(msg.type, id \o w \o c)
    <3>1. ASSUME msg.type = "PUBACK"
          PROVE  Gw!Serialize(msg) = Packet(msg.type, id \o w \o c)
      BY <3>1, SameForGateway DEF Gw!Serialize, Gw!MQTTSNSerialize_puback
    <3>2. ASSUME msg.type = "REGACK"
          PROVE  Gw!Serialize(msg) = Packet(msg.type, id \o w \o c)
      BY <3>2, SameForGateway DEF Gw!Serialize, Gw!MQTTSNSerialize_regack
    <3> QED BY <1>7, <3>1, <3>2
  <2>2. msg.type \in DOMAIN Code
    BY <1>7 DEF Code
  <2> HIDE DEF f, id, w, c
  <2>3. id \o w \in Bytes
    BY <1>1, <1>2, <1>7, Joined
  <2>4. id \o w \o c \in Bytes
    BY <1>3, <1>7, <2>3, Joined
  <2> QED BY <2>1, <2>2, <2>4, PacketBytes
<1>8. CASE msg.type \in {"PUBREC", "PUBREL", "PUBCOMP", "UNSUBACK"}
  <2>1. Gw!Serialize(msg) = Packet(msg.type, w)
    <3>1. ASSUME msg.type = "UNSUBACK"
          PROVE  Gw!Serialize(msg) = Packet(msg.type, w)
      BY <3>1, SameForGateway DEF Gw!Serialize, Gw!MQTTSNSerialize_unsuback
    <3>2. ASSUME msg.type \in {"PUBREC", "PUBREL", "PUBCOMP"}
          PROVE  Gw!Serialize(msg) = Packet(msg.type, w)
      BY <3>2, SameForGateway DEF Gw!Serialize, Gw!MQTTSNSerialize_ack
    <3> QED BY <1>8, <3>1, <3>2
  <2>2. msg.type \in DOMAIN Code
    BY <1>8 DEF Code
  <2> HIDE DEF w
  <2> QED BY <1>1, <2>1, <2>2, PacketBytes
<1> QED BY <1>5, <1>6, <1>7, <1>8

\* A PUBLISH of the gateway: the topic by its name of two octets, or by an id.
LEMMA GatewayPublishBytes ==
    ASSUME NEW msg, msg.type = "PUBLISH", msg.dup \in 0 .. 1, msg.qos \in 0 .. 3,
           msg.retain \in 0 .. 1, msg.msgID \in Nat, msg.payload \in Bytes,
           NEW k, msg.topic = k, k.kind \in 0 .. 2,
           IF k.kind = SHORT THEN k.name \in Bytes ELSE k.id \in Nat
    PROVE  Gw!Serialize(msg) \in Bytes
<1> DEFINE f == <<Flags(msg.dup, msg.qos, msg.retain, k.kind)>>
           id == IF k.kind = SHORT THEN k.name ELSE writeInt(k.id)
           w == writeInt(msg.msgID)
           t == msg.payload
<1>1. f \in Bytes
  <2>1. Flags(msg.dup, msg.qos, msg.retain, k.kind) \in Byte
    BY FlagsAreBytes
  <2> QED BY <2>1, FewBytes
<1>2. id \in Bytes /\ w \in Bytes /\ t \in Bytes
  BY IntBytes
<1>3. Gw!Serialize(msg) = Packet("PUBLISH", f \o id \o w \o t)
  BY SameForGateway DEF Gw!Serialize, Gw!MQTTSNSerialize_publish
<1>4. "PUBLISH" \in DOMAIN Code
  BY DEF Code
<1> HIDE DEF f, id, w, t
<1>5. f \o id \in Bytes
  BY <1>1, <1>2, Joined
<1>6. f \o id \o w \in Bytes
  BY <1>2, <1>5, Joined
<1>7. f \o id \o w \o t \in Bytes
  BY <1>2, <1>6, Joined
<1> QED BY <1>3, <1>4, <1>7, PacketBytes

\* What the gateway puts into its buffers is made of octets.
LEMMA SetPacketBytes ==
    ASSUME NEW msg, Gw!Serialize(msg) \in Bytes
    PROVE  Gw!SetPacket(msg) \in Bytes
BY FewBytes DEF Gw!SetPacket

\* Whatever the gateway writes of its own is made of octets.
LEMMA GatewayWriterBytes ==
    ASSUME NEW msg \in GatewayMessages
    PROVE  Gw!SetPacket(msg) \in Bytes
<1>1. Ids \subseteq Nat
  BY IdIsWord, WordIsNat
<1>11. Ids \cup {0} \subseteq Nat
  BY <1>1
<1>2. CASE msg \in [type : {"ADVERTISE"}, gwID : Bit, duration : Ids]
  <2>1. msg.type = "ADVERTISE" /\ msg.gwID \in Bit /\ msg.duration \in Nat
    BY <1>1, <1>2
  <2> QED BY <2>1, SelfBytes, SetPacketBytes
<1>3. CASE msg \in [type : {"GWINFO"}, gwID : Bit, address : {<<>>}]
  <2>1. msg.type = "GWINFO" /\ msg.gwID \in Bit /\ msg.address = <<>>
    BY <1>3
  <2> QED BY <2>1, SelfBytes, SetPacketBytes
<1>4. CASE msg \in [type : {"WILLTOPICREQ", "WILLMSGREQ", "PINGRESP"}]
  <2>1. msg.type \in {"WILLTOPICREQ", "WILLMSGREQ", "PINGRESP"}
    BY <1>4
  <2> QED BY <2>1, CodeBytes, SetPacketBytes
<1>5. CASE msg \in [type : {"WILLTOPICRESP", "WILLMSGRESP"}, rc : 0 .. 3]
  <2>1. msg.type \in {"CONNACK", "WILLTOPICRESP", "WILLMSGRESP"} /\ msg.rc \in 0 .. 3
    BY <1>5
  <2> QED BY <2>1, CodeBytes, SetPacketBytes
<1>6. CASE msg \in [type : {"DISCONNECT"}, duration : Ids \cup {0}]
  <2>1. msg.type = "DISCONNECT" /\ msg.duration \in Nat
    BY <1>11, <1>6
  <2> QED BY <2>1, SelfBytes, SetPacketBytes
<1>7. CASE msg \in [type : {"SUBACK"}, qos : Qos, topicID : Ids, msgID : Ids, rc : 0 .. 3]
  <2>1. /\ msg.type = "SUBACK" /\ msg.qos \in Qos /\ msg.topicID \in Nat /\ msg.rc \in 0 .. 3
        /\ msg.msgID \in Nat
    BY <1>1, <1>7
  <2> QED BY <2>1, GatewayAckBytes, SetPacketBytes
<1>8. CASE msg \in [type : {"REGISTER"}, topicID : Ids, msgID : Ids, name : Texts]
  <2>1. msg.type = "REGISTER" /\ msg.topicID \in Nat /\ msg.name \in Bytes /\ msg.msgID \in Nat
    BY <1>1, <1>8, TextsAreBytes
  <2> QED BY <2>1, GatewayAckBytes, SetPacketBytes
<1>9. CASE msg \in AcksWithTopic
  <2>1. /\ msg.type \in {"PUBACK", "REGACK"} /\ msg.topicID \in Nat /\ msg.rc \in 0 .. 3
        /\ msg.msgID \in Nat
    BY <1>1, <1>9 DEF AcksWithTopic
  <2> QED BY <2>1, GatewayAckBytes, SetPacketBytes
<1>10. CASE msg \in Acks({"PUBREC", "PUBREL", "PUBCOMP", "UNSUBACK"})
  <2>1. msg.type \in {"PUBREC", "PUBREL", "PUBCOMP", "UNSUBACK"} /\ msg.msgID \in Nat
    BY <1>1, <1>10 DEF Acks
  <2> QED BY <2>1, GatewayAckBytes, SetPacketBytes
<1> QED BY <1>2, <1>3, <1>4, <1>5, <1>6, <1>7, <1>8, <1>9, <1>10 DEF GatewayMessages

\* The payloads of the broker.
LEMMA BrokerPayloadBytes ==
    ASSUME NEW msg \in BrokerMessages, msg.type = "PUBLISH"
    PROVE  /\ msg.dup \in 0 .. 1 /\ msg.qos \in 0 .. 3 /\ msg.retain \in 0 .. 1
           /\ msg.msgID \in Nat /\ msg.payload \in Bytes
           /\ msg.topic \in Bytes /\ msg.topic \in Name
<1>1. msg \in BrokerPublishes /\ msg.payload \in Texts
  BY ShorterPayloads
<1>2. /\ msg.dup \in {0, 1} /\ msg.qos \in 0 .. 2 /\ msg.retain \in {0, 1}
      /\ msg.msgID \in Word /\ msg.topic \in Name
  BY <1>1 DEF BrokerPublishes
<1>3. msg.topic \in {Names[i] : i \in DOMAIN Names} \cup {ShortTopic.name}
  <2>1. CASE msg \in [type : {"PUBLISH"}, dup : Bit, qos : Qos, retain : Bit, msgID : Ids,
                      topic : {Names[i] : i \in DOMAIN Names} \cup {ShortTopic.name},
                      payload : ShortTexts]
    BY <2>1
  <2>2. CASE msg \in [type : {"PUBLISH"}, dup : {0}, qos : {1}, retain : {0}, msgID : Ids,
                      topic : {ShortTopic.name}, payload : Texts]
    BY <2>2
  <2>3. \A x : x \in Acks({"PUBACK", "PUBREC", "PUBREL", "PUBCOMP", "UNSUBACK"}) => x.type # "PUBLISH"
    BY DEF Acks
  <2> QED BY <2>1, <2>2, <2>3 DEF BrokerMessages
<1>4. msg.topic \in Bytes
  BY <1>3, NamesAreBytes
<1>5. msg.payload \in Bytes
  BY <1>1, TextsAreBytes
<1>6. msg.msgID \in Nat
  BY <1>2, WordIsNat
<1> HIDE DEF Bytes
<1>7. msg.dup \in 0 .. 1 /\ msg.retain \in 0 .. 1 /\ msg.qos \in 0 .. 3
  BY <1>2
<1> QED BY <1>2, <1>4, <1>5, <1>6, <1>7

\* The topic by which a client knows a name.
LEMMA TopicForBytes ==
    ASSUME NEW t \in Name, t \in Bytes
    PROVE  LET k == TopicFor(t)
           IN  k.kind \in 0 .. 2 /\ IF k.kind = SHORT THEN k.name \in Bytes ELSE k.id \in Nat
<1> DEFINE k == TopicFor(t)
<1>1. IsTwoOctets(k)
  BY TopicIsKnown
<1>2. CASE Len(t) = 2
  <2>1. k.kind = SHORT /\ k.name = t
    BY <1>2 DEF TopicFor, Topic
  <2> QED BY <2>1 DEF SHORT
<1>3. CASE Len(t) # 2
  <2>1. \E i \in DOMAIN Names : Names[i] = t
    BY <1>3 DEF Name
  <2> DEFINE ids == {i \in DOMAIN Names : Names[i] = t}
             j == CHOOSE i \in ids : TRUE
  <2>2. j \in ids
    <3>1. \E i : i \in ids
      BY <2>1
    <3> QED BY <3>1, Zenon
  <2>3. j \in {NORMAL, PREDEFINED} \X Ids
    BY <2>2 DEF Names
  <2>4. TopicFor(t) = Topic(j[1], j[2], <<>>)
    BY <1>3 DEF TopicFor
  <2> HIDE DEF j
  <2>5. k.kind = j[1] /\ k.id = j[2]
    BY <2>4 DEF Topic
  <2>6. j[1] \in {0, 1} /\ j[2] \in Ids
    BY <2>3 DEF NORMAL, PREDEFINED
  <2>7. j[2] \in Nat
    BY <2>6, IdIsWord, WordIsNat
  <2> HIDE DEF k
  <2>8. k.kind \in 0 .. 2 /\ k.kind # SHORT /\ k.id \in Nat
    BY <2>5, <2>6, <2>7 DEF SHORT
  <2> QED BY <2>8 DEF k
<1> QED BY <1>2, <1>3

\* Whatever the gateway answers is made of octets.
LEMMA AnswerBytes ==
    ASSUME NEW msg \in BrokerMessages
    PROVE  Gw!SetPacket(ToSn(Heard(msg))) \in Bytes
<1> DEFINE a == ToSn(Heard(msg))
<1>1. Ids \subseteq Nat
  BY IdIsWord, WordIsNat
<1>2. CASE msg.type = "PUBLISH"
  <2> DEFINE n == IF msg.qos = 0 THEN 0 ELSE msg.msgID
             k == TopicFor(msg.topic)
  <2>1. /\ msg.dup \in 0 .. 1 /\ msg.qos \in 0 .. 3 /\ msg.retain \in 0 .. 1
        /\ msg.msgID \in Nat /\ msg.payload \in Bytes
        /\ msg.topic \in Bytes /\ msg.topic \in Name
    BY <1>2, BrokerPayloadBytes
  <2>2. n \in Nat
    BY <2>1
  <2>3. k.kind \in 0 .. 2 /\ IF k.kind = SHORT THEN k.name \in Bytes ELSE k.id \in Nat
    BY <2>1, TopicForBytes
  <2>4. a = [type |-> "PUBLISH", dup |-> msg.dup, qos |-> msg.qos, retain |-> msg.retain, msgID |-> n,
             topic |-> k, payload |-> msg.payload]
    <3> DEFINE h == Heard(msg)
    <3>1. h = [type |-> "PUBLISH", dup |-> msg.dup, qos |-> msg.qos, retain |-> msg.retain,
               topic |-> msg.topic, msgID |-> n, payload |-> msg.payload]
      BY <1>2 DEF Heard
    <3> HIDE DEF h, n
    <3>2. ToSn(h) = ToSnPublish(h, Names)
      BY <3>1 DEF ToSn
    <3>3. ToSnPublish(h, Names)
            = [type |-> "PUBLISH", dup |-> h.dup, qos |-> h.qos, retain |-> h.retain,
               msgID |-> h.msgID, topic |-> TopicFor(h.topic), payload |-> h.payload]
      BY DEF ToSnPublish, TopicFor
    <3> QED BY <3>1, <3>2, <3>3 DEF h
  <2> HIDE DEF a, k, n
  <2>5. /\ a.type = "PUBLISH" /\ a.dup = msg.dup /\ a.qos = msg.qos /\ a.retain = msg.retain
        /\ a.msgID = n /\ a.topic = k /\ a.payload = msg.payload
    BY <2>4
  <2>6. Gw!Serialize(a) \in Bytes
    BY <2>1, <2>2, <2>3, <2>5, GatewayPublishBytes
  <2> QED BY <2>6, SetPacketBytes DEF a
<1>3. CASE msg \in [type : {"CONNACK"}, rc : 0 .. 5]
  <2> DEFINE rc == CASE msg.rc = 0 -> 0 [] msg.rc = 3 -> 1 [] OTHER -> 3
  <2>1. a = [type |-> "CONNACK", rc |-> rc]
    BY <1>3 DEF Heard, ToSn, ToSnConnack
  <2>2. rc \in 0 .. 3
    <3>1. CASE msg.rc = 0
      BY <3>1
    <3>2. CASE msg.rc = 3
      BY <3>2
    <3>3. CASE msg.rc # 0 /\ msg.rc # 3
      BY <3>3
    <3> QED BY <3>1, <3>2, <3>3
  <2> HIDE DEF a, rc
  <2>3. a.type \in {"CONNACK", "WILLTOPICRESP", "WILLMSGRESP"} /\ a.rc \in 0 .. 3
    BY <2>1, <2>2
  <2> QED BY <2>3, CodeBytes, SetPacketBytes DEF a
<1>4. CASE msg \in [type : {"SUBACK"}, msgID : Ids, rc : {0, 1, 2, 128}]
  <2> DEFINE qos == IF msg.rc = 128 THEN 0 ELSE msg.rc
             rc == IF msg.rc = 128 THEN 2 ELSE 0
  <2>1. a = [type |-> "SUBACK", qos |-> qos, topicID |-> 1, msgID |-> msg.msgID, rc |-> rc]
    BY <1>4 DEF Heard, ToSn, ToSnSuback
  <2>2. qos \in Qos /\ rc \in 0 .. 3 /\ msg.msgID \in Nat
    <3>1. msg.rc \in {0, 1, 2, 128} /\ msg.msgID \in Ids
      BY <1>4
    <3>2. qos \in Qos
      BY <3>1 DEF Qos
    <3>3. rc \in 0 .. 3
      BY <3>1
    <3> QED BY <1>1, <3>1, <3>2, <3>3
  <2> HIDE DEF a, qos, rc
  <2>3. /\ a.type = "SUBACK" /\ a.qos \in Qos /\ a.topicID \in Nat /\ a.rc \in 0 .. 3
        /\ a.msgID \in Nat
    BY <2>1, <2>2
  <2> QED BY <2>3, GatewayAckBytes, SetPacketBytes DEF a
<1>5. CASE msg \in [type : BrokerAcks, msgID : Ids]
  <2>1. CASE msg.type = "PUBACK"
    <3>1. a = [type |-> "PUBACK", topicID |-> 1, msgID |-> msg.msgID, rc |-> 0]
      BY <2>1 DEF Heard, ToSn
    <3>2. msg.msgID \in Nat
      BY <1>1, <1>5
    <3> HIDE DEF a
    <3>3. /\ a.type \in {"PUBACK", "REGACK"} /\ a.topicID \in Nat /\ a.rc \in 0 .. 3
          /\ a.msgID \in Nat
      BY <3>1, <3>2
    <3> QED BY <3>3, GatewayAckBytes, SetPacketBytes DEF a
  <2>2. CASE msg.type # "PUBACK"
    <3>1. msg.type \in {"PUBREC", "PUBREL", "PUBCOMP", "UNSUBACK"} /\ msg.msgID \in Nat
      BY <1>1, <1>5, <2>2 DEF BrokerAcks
    <3>2. a = msg
      BY <3>1 DEF Heard, ToSn
    <3> QED BY <3>1, <3>2, GatewayAckBytes, SetPacketBytes
  <2> QED BY <2>1, <2>2
<1>6. msg \in BrokerPublishes => msg.type = "PUBLISH"
  BY DEF BrokerPublishes
<1> QED BY <1>2, <1>3, <1>4, <1>5, <1>6, BrokerMessagesAre

\* A forwarder's header is made of octets.
LEMMA ForwardedBytes ==
    ASSUME NEW n \in {1, 4}, NEW s \in Bytes
    PROVE  Gw!Encapsulate(0, Text(n), s) \in Bytes
<1> DEFINE t == Text(n)
           h == <<Len(t) + 3, 254, 0>>
<1>1. n \in Nat /\ n <= 1016
  OBVIOUS
<1>2. Len(t) = n /\ t \in Bytes
  BY <1>1, TextIsText, TextBytes
<1> HIDE DEF t
<1>3. Len(t) + 3 \in Byte /\ 254 \in Byte /\ 0 \in Byte
  BY <1>2 DEF Byte
<1>4. Gw!Encapsulate(0, t, s) = h \o t \o s
  BY DEF Gw!Encapsulate, Gw!Code
<1>5. h \in Bytes
  BY <1>3, FewBytes
<1> HIDE DEF h
<1>6. h \o t \in Bytes
  BY <1>2, <1>5, Joined
<1>7. h \o t \o s \in Bytes
  BY <1>6, Joined
<1> QED BY <1>4, <1>7 DEF t

----------------------------------------------------------------------------
(* What the broker writes. *)

----------------------------------------------------------------------------
(* The packets of MQTT. *)

\* The length of what stands behind one another.
LEMMA Appended ==
    ASSUME NEW a \in Bytes, NEW b \in Bytes
    PROVE  /\ a \o b \in Bytes /\ Len(a \o b) = Len(a) + Len(b)
           /\ Len(a) \in Nat /\ Len(b) \in Nat
BY DEF Bytes

\* A packet of MQTT: its header, its remaining length and its data.
Frame(x, d) == <<x>> \o SizeOf(Len(d)) \o d

LEMMA FramedBytes ==
    ASSUME NEW x \in Byte, NEW d \in Bytes, Len(d) < 16384
    PROVE  Frame(x, d) \in Bytes /\ Len(Frame(x, d)) = Len(d) + IF Len(d) < 128 THEN 2 ELSE 3
<1> DEFINE h == <<x>>
           l == Len(d)
           w == SizeOf(l)
<1>1. l \in Nat
  BY BytesAreOctets
<1>2. w \in Bytes
  <2> HIDE DEF l
  <2>1. CASE l < 128
    <3>1. l \in Byte
      BY <1>1, <2>1 DEF Byte
    <3> QED BY <2>1, <3>1, FewBytes DEF SizeOf
  <2>2. CASE ~(l < 128)
    <3>1. 128 + (l % 128) \in Byte
      BY <1>1 DEF Byte
    <3>2. l \div 128 \in Byte
      <4>1. l \in Nat /\ l < 16384
        <5>1. Len(d) < 16384
          OBVIOUS
        <5> QED BY <1>1, <5>1 DEF l
      <4>2. l \div 128 \in Nat /\ l \div 128 < 128
        BY <4>1
      <4>3. \A k \in Nat : k < 128 => k \in Byte
        BY DEF Byte
      <4> QED BY <4>2, <4>3
    <3> QED BY <2>2, <3>1, <3>2, FewBytes DEF SizeOf
  <2> QED BY <2>1, <2>2
<1>3. h \in Bytes /\ Len(h) = 1
  BY FewBytes
<1>6. Len(w) = IF l < 128 THEN 1 ELSE 2
  BY DEF SizeOf
<1> HIDE DEF h, w
<1>8. d \in Bytes
  OBVIOUS
<1>4. h \o w \in Bytes /\ Len(h \o w) = 1 + Len(w)
  BY ONLY <1>2, <1>3, Appended
<1>5. h \o w \o d \in Bytes /\ Len(h \o w \o d) = Len(h \o w) + l
  BY ONLY <1>4, <1>8, Appended
<1>7. Len(h \o w \o d) = l + IF l < 128 THEN 2 ELSE 3
  <2> DEFINE a == Len(w)
             b == Len(h \o w)
             c == Len(h \o w \o d)
  <2>1. l \in Nat /\ a = (IF l < 128 THEN 1 ELSE 2) /\ b = 1 + a /\ c = b + l
    BY <1>1, <1>4, <1>5, <1>6
  <2> HIDE DEF a, b, c, l
  <2>2. c = l + IF l < 128 THEN 2 ELSE 3
    BY ONLY <2>1
  <2> QED BY <2>2 DEF c
<1> QED BY <1>5, <1>7 DEF h, w, l, Frame

\* The headers of MQTT are octets.
LEMMA HeaderBytes ==
    /\ \A type \in DOMAIN MqttCode, n \in 0 .. 15 : 16 * MqttCode[type] + n \in Byte
    /\ \A dup \in 0 .. 1, qos \in 0 .. 3, retain \in 0 .. 1 : 8 * dup + 2 * qos + retain \in 0 .. 15
    /\ \A type \in DOMAIN MqttCode, dup \in 0 .. 1, qos \in 0 .. 3, retain \in 0 .. 1 :
         Header(type, dup, qos, retain) \in Byte
<1>1. \A type \in DOMAIN MqttCode : MqttCode[type] \in 1 .. 14
  BY DEF MqttCode
<1>2. \A c \in 1 .. 14, n \in 0 .. 15 : 16 * c + n \in Byte
  BY DEF Byte
<1>3. \A type \in DOMAIN MqttCode, n \in 0 .. 15 : 16 * MqttCode[type] + n \in Byte
  BY <1>1, <1>2
<1>4. \A dup \in 0 .. 1, qos \in 0 .. 3, retain \in 0 .. 1 : 8 * dup + 2 * qos + retain \in 0 .. 15
  OBVIOUS
<1>5. \A c \in 1 .. 14, dup \in 0 .. 1, qos \in 0 .. 3, retain \in 0 .. 1 :
        16 * c + 8 * dup + 2 * qos + retain \in Byte
  BY DEF Byte
<1>6. \A type \in DOMAIN MqttCode, dup \in 0 .. 1, qos \in 0 .. 3, retain \in 0 .. 1 :
        Header(type, dup, qos, retain) \in Byte
  BY <1>1, <1>5 DEF Header
<1> QED BY <1>3, <1>4, <1>6

\* The texts of the model are short.
LEMMA PayloadLength ==
    ASSUME NEW t \in AnyText
    PROVE  Len(t) \in Nat /\ Len(t) <= 1016
BY LenIsNat DEF AnyText

\* Whatever the broker writes is made of octets.
LEMMA BrokerWritesBytes ==
    ASSUME NEW msg \in BrokerMessages
    PROVE  BrokerWrites(msg) \in Bytes
<1> DEFINE d == BrokerData(msg)
           flags == CASE msg.type = "PUBLISH" -> 8 * msg.dup + 2 * msg.qos + msg.retain
                      [] msg.type = "PUBREL"  -> 2
                      [] OTHER                -> 0
           x == 16 * MqttCode[msg.type] + flags
<1>1. BrokerWrites(msg) = Frame(x, d)
  BY DEF BrokerWrites, SizeOf, Frame
<1>2. Ids \subseteq Nat
  BY IdIsWord, WordIsNat
<1>3. ASSUME msg.type = "PUBLISH"
      PROVE  x \in Byte /\ d \in Bytes /\ Len(d) < 16384
  <2> DEFINE u == writeInt(Len(msg.topic))
             t == msg.topic
             w == IF msg.qos = 0 THEN <<>> ELSE writeInt(msg.msgID)
             p == msg.payload
  <2>1. /\ msg.dup \in 0 .. 1 /\ msg.qos \in 0 .. 3 /\ msg.retain \in 0 .. 1
        /\ msg.msgID \in Nat /\ p \in Bytes /\ t \in Bytes /\ t \in Name
    BY <1>3, BrokerPayloadBytes
  <2>2. x \in Byte
    <3>1. flags \in 0 .. 15
      <4>1. flags = 8 * msg.dup + 2 * msg.qos + msg.retain
        BY <1>3
      <4>2. 8 * msg.dup + 2 * msg.qos + msg.retain \in 0 .. 15
        BY <2>1, HeaderBytes
      <4> QED BY <4>1, <4>2
    <3>2. msg.type \in DOMAIN MqttCode
      BY <1>3 DEF MqttCode
    <3> HIDE DEF flags
    <3> QED BY <3>1, <3>2, HeaderBytes
  <2>3. d = u \o t \o w \o p
    BY <1>3 DEF BrokerData
  <2>4. Len(t) \in Nat /\ Len(t) <= 4
    BY <2>1, NameLength
  <2>5. u \in Bytes /\ Len(u) = 2
    <3>1. u \in Bytes
      BY <2>4, IntBytes
    <3> QED BY <3>1 DEF writeInt
  <2>6. w \in Bytes /\ Len(w) <= 2
    <3> DEFINE v == writeInt(msg.msgID)
    <3>1. v \in Bytes
      BY <2>1, IntBytes
    <3>2. Len(v) = 2
      BY DEF writeInt
    <3> HIDE DEF v
    <3>3. Len(v) <= 2
      BY <3>2
    <3>4. <<>> \in Bytes /\ Len(<<>>) <= 2
      BY FewBytes
    <3>5. w = <<>> \/ w = v
      BY DEF v
    <3> HIDE DEF w
    <3> QED BY <3>1, <3>3, <3>4, <3>5
  <2>7. Len(p) <= 1016
    <3>1. msg.payload \in Texts
      BY <1>3, ShorterPayloads
    <3> QED BY <3>1, TextsAreTexts, PayloadLength
  <2> HIDE DEF u, t, w, p, d
  <2>8. u \o t \in Bytes /\ Len(u \o t) = Len(u) + Len(t)
    BY <2>1, <2>5, Appended
  <2>9. u \o t \o w \in Bytes /\ Len(u \o t \o w) = Len(u \o t) + Len(w)
    BY <2>6, <2>8, Appended
  <2>10. u \o t \o w \o p \in Bytes /\ Len(u \o t \o w \o p) = Len(u \o t \o w) + Len(p)
    BY <2>1, <2>9, Appended
  <2>11. Len(w) \in Nat /\ Len(p) \in Nat
    BY <2>1, <2>6, BytesAreOctets
  <2>12. Len(d) < 16384
    BY <2>3, <2>4, <2>5, <2>6, <2>7, <2>8, <2>9, <2>10, <2>11
  <2> QED BY <2>2, <2>3, <2>10, <2>12
<1>4. ASSUME msg.type \in DOMAIN MqttCode, msg.type # "PUBLISH"
      PROVE  x \in Byte
  <2>1. flags \in 0 .. 15
    <3>1. flags \in {0, 2}
      BY <1>4
    <3> HIDE DEF flags
    <3> QED BY <3>1
  <2> HIDE DEF flags
  <2> QED BY <1>4, <2>1, HeaderBytes
<1>5. ASSUME d \in Bytes, Len(d) < 16384, msg.type \in DOMAIN MqttCode, msg.type # "PUBLISH"
      PROVE  BrokerWrites(msg) \in Bytes
  <2>1. x \in Byte
    BY <1>4, <1>5
  <2> HIDE DEF x, d
  <2> QED BY <1>1, <1>5, <2>1, FramedBytes
<1>6. CASE msg.type = "PUBLISH"
  <2>1. x \in Byte /\ d \in Bytes /\ Len(d) < 16384
    BY <1>3, <1>6
  <2> HIDE DEF x, d
  <2> QED BY <1>1, <2>1, FramedBytes
<1>7. CASE msg \in [type : {"CONNACK"}, rc : 0 .. 5]
  <2>1. d = <<0, msg.rc>>
    BY <1>7 DEF BrokerData
  <2>2. 0 \in Byte /\ msg.rc \in Byte
    BY <1>7 DEF Byte
  <2>3. d \in Bytes /\ Len(d) = 2
    BY <2>1, <2>2, FewBytes
  <2>4. msg.type \in DOMAIN MqttCode /\ msg.type # "PUBLISH"
    BY <1>7 DEF MqttCode
  <2> HIDE DEF d
  <2>5. Len(d) < 16384
    BY <2>3
  <2> QED BY <1>5, <2>3, <2>4, <2>5 DEF d
<1>8. CASE msg \in [type : {"SUBACK"}, msgID : Ids, rc : {0, 1, 2, 128}]
  <2> DEFINE w == writeInt(msg.msgID)
             c == <<msg.rc>>
  <2>1. d = w \o c
    BY <1>8 DEF BrokerData
  <2>2. msg.rc \in {0, 1, 2, 128} /\ msg.msgID \in Nat
    BY <1>2, <1>8
  <2>3. msg.rc \in Byte
    BY <2>2 DEF Byte
  <2>4. w \in Bytes /\ c \in Bytes
    BY <2>2, <2>3, IntBytes, FewBytes
  <2>5. Len(w) = 2 /\ Len(c) = 1
    BY DEF writeInt
  <2>6. msg.type \in DOMAIN MqttCode /\ msg.type # "PUBLISH"
    BY <1>8 DEF MqttCode
  <2> HIDE DEF d, w, c
  <2>7. d \in Bytes /\ Len(d) = Len(w) + Len(c)
    BY <2>1, <2>4, Appended
  <2>8. Len(d) < 16384
    BY <2>5, <2>7
  <2> QED BY <1>5, <2>6, <2>7, <2>8 DEF d
<1>9. CASE msg \in [type : BrokerAcks, msgID : Ids]
  <2> DEFINE w == writeInt(msg.msgID)
  <2>1. /\ msg.type \in {"PUBACK", "PUBREC", "PUBREL", "PUBCOMP", "UNSUBACK"}
        /\ msg.msgID \in Nat
    BY <1>2, <1>9 DEF BrokerAcks
  <2>2. d = w
    BY <2>1 DEF BrokerData
  <2>3. w \in Bytes
    BY <2>1, IntBytes
  <2>4. Len(w) = 2
    BY DEF writeInt
  <2>5. msg.type \in DOMAIN MqttCode /\ msg.type # "PUBLISH"
    BY <2>1 DEF MqttCode
  <2> HIDE DEF d, w
  <2>6. Len(d) < 16384
    BY <2>2, <2>4
  <2> QED BY <1>5, <2>2, <2>3, <2>5, <2>6 DEF d
<1>10. msg \in BrokerPublishes => msg.type = "PUBLISH"
  BY DEF BrokerPublishes
<1> QED BY <1>6, <1>7, <1>8, <1>9, <1>10, BrokerMessagesAre

----------------------------------------------------------------------------
(* What the gateway translates. *)

\* A packet with so many octets of data is made of octets; if they are too many, it overruns the
\* gateway's buffer.
Carries(packet, size) ==
    getPacketData(packet) \in Bytes /\ (Overruns(send(packet)) <=> size > 1021)

\* A packet of MQTT.
LEMMA MqttBytes ==
    ASSUME NEW p, p.header \in Byte, p.data \in Bytes, Len(p.data) < 16384
    PROVE  /\ getPacketData(p) \in Bytes
           /\ Overruns(send(p)) <=> Len(p.data) > 1021
<1> DEFINE d == p.data
           l == Len(d)
           x == p.header
           c == Frame(x, d)
<1>1. l \in Nat
  BY BytesAreOctets
<1>2. MQTTPacket_encode[l] = SizeOf(l)
  <2> HIDE DEF l
  <2>1. l < TwoDigits
    <3>1. l < 16384
      BY DEF l
    <3> QED BY <3>1 DEF TwoDigits
  <2> QED BY <1>1, <2>1, RemainingLengthWritten
<1>3. getPacketData(p) = c
  BY <1>2 DEF getPacketData, Frame
<1>4. c \in Bytes /\ Len(c) = l + IF l < 128 THEN 2 ELSE 3
  <2>1. x \in Byte /\ d \in Bytes /\ Len(d) < 16384
    OBVIOUS
  <2> HIDE DEF x, d
  <2> QED BY ONLY <2>1, FramedBytes
<1>7. Overruns(send(p)) <=> Len(c) > 1024
  <2>1. send(p).octets = c /\ send(p).size = MQTTSNGW_MAX_PACKET_SIZE
    <3> HIDE DEF c
    <3> QED BY <1>3 DEF send
  <2>2. MQTTSNGW_MAX_PACKET_SIZE = 1024
    BY DEF MQTTSNGW_MAX_PACKET_SIZE
  <2> HIDE DEF c
  <2> QED BY <2>1, <2>2 DEF Overruns
<1> HIDE DEF c, l
<1>8. Len(c) > 1024 <=> l > 1021
  <2> DEFINE k == Len(c)
  <2>1. k = l + IF l < 128 THEN 2 ELSE 3
    BY <1>4
  <2> HIDE DEF k
  <2>2. k > 1024 <=> l > 1021
    BY ONLY <1>1, <2>1
  <2> QED BY <2>2 DEF k
<1>9. Overruns(send(p)) <=> Len(d) > 1021
  BY <1>7, <1>8 DEF l
<1> QED BY <1>3, <1>4, <1>9

\* Texts that fit.
ShortBytes == {b \in Bytes : Len(b) <= 1016}

\* A string with its length.
LEMMA UtfBytes ==
    ASSUME NEW t \in ShortBytes
    PROVE  /\ writeUTF(t) \in Bytes /\ Len(writeUTF(t)) <= 1018 /\ Len(writeUTF(t)) \in Nat
           /\ Len(writeUTF(t)) = 2 + Len(t) /\ Len(t) \in Nat
<1> DEFINE w == writeInt(Len(t))
<1>1. t \in Bytes /\ Len(t) \in Nat /\ Len(t) <= 1016
  BY BytesAreOctets DEF ShortBytes
<1>2. w \in Bytes
  BY <1>1, IntBytes
<1>3. Len(w) = 2
  BY DEF writeInt
<1>4. writeUTF(t) = w \o t
  BY DEF writeUTF
<1> HIDE DEF w
<1>5. w \o t \in Bytes /\ Len(w \o t) = 2 + Len(t)
  <2>1. t \in Bytes
    BY ONLY <1>1
  <2> QED BY ONLY <1>2, <1>3, <2>1, Appended
<1>6. Len(w \o t) <= 1018 /\ Len(w \o t) \in Nat
  BY <1>1, <1>5
<1> QED BY <1>1, <1>4, <1>5, <1>6

\* A number has two octets.
LEMMA WordBytes ==
    ASSUME NEW n \in Nat
    PROVE  writeInt(n) \in Bytes /\ Len(writeInt(n)) = 2
<1>1. Len(writeInt(n)) = 2
  BY DEF writeInt
<1> QED BY <1>1, IntBytes

\* A PUBLISH for the broker.
LEMMA ToPublishBytes ==
    ASSUME NEW dup \in 0 .. 1, NEW qos \in 0 .. 3, NEW retain \in 0 .. 1, NEW n \in Nat,
           NEW t \in ShortBytes, NEW p \in ShortBytes
    PROVE  LET packet == setPUBLISH([dup |-> dup, qos |-> qos, retain |-> retain, topic |-> t,
                                     msgID |-> n, payload |-> p])
           IN  Carries(packet, 2 + Len(t) + (IF qos > 0 THEN 2 ELSE 0) + Len(p))
<1> DEFINE u == writeUTF(t)
           v == writeInt(n)
           w == IF qos > 0 THEN v ELSE <<>>
           d == u \o w \o p
           h == Header("PUBLISH", dup, qos, retain)
           q == [header |-> h, data |-> d]
<1>1. setPUBLISH([dup |-> dup, qos |-> qos, retain |-> retain, topic |-> t, msgID |-> n,
                  payload |-> p]) = q
  BY DEF setPUBLISH
<1>2. /\ u \in Bytes /\ Len(u) <= 1018 /\ Len(u) \in Nat
      /\ Len(u) = 2 + Len(t) /\ Len(t) \in Nat
  BY UtfBytes
<1>3. /\ w \in Bytes /\ Len(w) <= 2 /\ Len(w) \in Nat
      /\ Len(w) = IF qos > 0 THEN 2 ELSE 0
  <2>1. v \in Bytes /\ Len(v) = 2
    BY WordBytes
  <2> HIDE DEF v
  <2>2. Len(v) <= 2 /\ Len(v) \in Nat
    BY <2>1
  <2>3. <<>> \in Bytes /\ Len(<<>>) = 0 /\ Len(<<>>) <= 2 /\ Len(<<>>) \in Nat
    BY FewBytes
  <2>4. w = IF qos > 0 THEN v ELSE <<>>
    OBVIOUS
  <2> HIDE DEF w
  <2>5. CASE qos > 0
    BY <2>1, <2>2, <2>4, <2>5
  <2>6. CASE ~(qos > 0)
    BY <2>3, <2>4, <2>6
  <2> QED BY <2>5, <2>6
<1>4. p \in Bytes /\ Len(p) <= 1016 /\ Len(p) \in Nat
  BY BytesAreOctets DEF ShortBytes
<1>5. h \in Byte
  <2>1. "PUBLISH" \in DOMAIN MqttCode
    BY DEF MqttCode
  <2> QED BY <2>1, HeaderBytes
<1> HIDE DEF u, v, w, h
<1>6. u \o w \in Bytes /\ Len(u \o w) = Len(u) + Len(w)
  BY <1>2, <1>3, Appended
<1>7. d \in Bytes /\ Len(d) = Len(u \o w) + Len(p)
  BY <1>4, <1>6, Appended
<1> HIDE DEF d
<1>8. Len(d) < 16384
  BY <1>2, <1>3, <1>4, <1>6, <1>7
<1>9. q.header = h /\ q.data = d
  OBVIOUS
<1> HIDE DEF q
<1>10. Carries(q, Len(d))
  BY <1>5, <1>7, <1>8, <1>9, MqttBytes DEF Carries
<1>11. Len(d) = 2 + Len(t) + (IF qos > 0 THEN 2 ELSE 0) + Len(p)
  BY <1>2, <1>3, <1>4, <1>6, <1>7
<1> QED BY <1>1, <1>10, <1>11

\* A SUBSCRIBE and an UNSUBSCRIBE for the broker.
LEMMA ToFilterBytes ==
    ASSUME NEW n \in Nat, NEW t \in ShortBytes, NEW qos \in 0 .. 3
    PROVE  /\ getPacketData(setSUBSCRIBE(t, qos, n)) \in Bytes
           /\ getPacketData(setUNSUBSCRIBE(t, n)) \in Bytes
           /\ ~Overruns(send(setSUBSCRIBE(t, qos, n))) /\ ~Overruns(send(setUNSUBSCRIBE(t, n)))
<1> DEFINE w == writeInt(n)
           u == writeUTF(t)
           c == <<qos>>
           h == Header("SUBSCRIBE", 0, 1, 0)
           k == Header("UNSUBSCRIBE", 0, 1, 0)
           p == [header |-> h, data |-> w \o u \o c]
           q == [header |-> k, data |-> w \o u]
<1>1. setSUBSCRIBE(t, qos, n) = p /\ setUNSUBSCRIBE(t, n) = q
  BY DEF setSUBSCRIBE, setUNSUBSCRIBE
<1>2. u \in Bytes /\ Len(u) <= 1018 /\ Len(u) \in Nat
  BY UtfBytes
<1>3. w \in Bytes /\ Len(w) = 2
  BY WordBytes
<1>4. c \in Bytes /\ Len(c) = 1
  <2>1. qos \in Byte
    BY DEF Byte
  <2> QED BY <2>1, FewBytes
<1>5. h \in Byte /\ k \in Byte
  <2>1. "SUBSCRIBE" \in DOMAIN MqttCode /\ "UNSUBSCRIBE" \in DOMAIN MqttCode
    BY DEF MqttCode
  <2>2. 0 \in 0 .. 1 /\ 1 \in 0 .. 3
    OBVIOUS
  <2> QED BY <2>1, <2>2, HeaderBytes
<1>6. p.header = h /\ p.data = w \o u \o c /\ q.header = k /\ q.data = w \o u
  OBVIOUS
<1> HIDE DEF w, u, c, h, k, p, q
<1>7. w \o u \in Bytes /\ Len(w \o u) = Len(w) + Len(u)
  BY <1>2, <1>3, Appended
<1>8. w \o u \o c \in Bytes /\ Len(w \o u \o c) = Len(w \o u) + Len(c)
  BY <1>4, <1>7, Appended
<1>9. Len(w \o u) < 16384 /\ ~(Len(w \o u) > 1021)
  BY <1>2, <1>3, <1>7
<1>10. Len(w \o u \o c) < 16384 /\ ~(Len(w \o u \o c) > 1021)
  <2>1. Len(w \o u \o c) = 2 + Len(u) + 1
    BY <1>2, <1>3, <1>4, <1>7, <1>8
  <2> QED BY <1>2, <2>1
<1>11. /\ p.header \in Byte /\ p.data \in Bytes /\ Len(p.data) < 16384
       /\ ~(Len(p.data) > 1021)
  BY <1>5, <1>6, <1>8, <1>10
<1>12. /\ q.header \in Byte /\ q.data \in Bytes /\ Len(q.data) < 16384
       /\ ~(Len(q.data) > 1021)
  BY <1>5, <1>6, <1>7, <1>9
<1>13. getPacketData(p) \in Bytes /\ ~Overruns(send(p))
  BY <1>11, MqttBytes
<1>14. getPacketData(q) \in Bytes /\ ~Overruns(send(q))
  BY <1>12, MqttBytes
<1> QED BY <1>1, <1>13, <1>14

\* An acknowledgement for the broker, and a header alone.
LEMMA ToAckBytes ==
    ASSUME NEW n \in Nat
    PROVE  /\ \A type \in {"PUBACK", "PUBREC", "PUBREL", "PUBCOMP"} :
                getPacketData(setAck(type, n)) \in Bytes /\ ~Overruns(send(setAck(type, n)))
           /\ \A type \in {"PINGREQ", "DISCONNECT"} :
                getPacketData(setHeader(type)) \in Bytes /\ ~Overruns(send(setHeader(type)))
<1>1. ASSUME NEW type \in {"PUBACK", "PUBREC", "PUBREL", "PUBCOMP"}
      PROVE  getPacketData(setAck(type, n)) \in Bytes /\ ~Overruns(send(setAck(type, n)))
  <2> DEFINE w == writeInt(n)
             h == Header(type, 0, IF type = "PUBREL" THEN 1 ELSE 0, 0)
             p == [header |-> h, data |-> w]
  <2>1. w \in Bytes /\ Len(w) = 2
    BY WordBytes
  <2>2. h \in Byte
    <3>1. type \in DOMAIN MqttCode
      BY DEF MqttCode
    <3>2. 0 \in 0 .. 1 /\ (IF type = "PUBREL" THEN 1 ELSE 0) \in 0 .. 3
      OBVIOUS
    <3> QED BY <3>1, <3>2, HeaderBytes
  <2>3. p.header = h /\ p.data = w /\ setAck(type, n) = p
    BY DEF setAck
  <2> HIDE DEF w, h, p
  <2>4. Len(w) < 16384 /\ ~(Len(w) > 1021)
    <3>1. Len(w) = 2
      BY <2>1
    <3>2. 2 < 16384 /\ ~(2 > 1021)
      OBVIOUS
    <3> QED BY <3>1, <3>2
  <2>5. p.header \in Byte /\ p.data \in Bytes
    BY <2>1, <2>2, <2>3
  <2>7. Len(p.data) < 16384 /\ ~(Len(p.data) > 1021)
    BY <2>3, <2>4
  <2>6. getPacketData(p) \in Bytes /\ ~Overruns(send(p))
    BY <2>5, <2>7, MqttBytes
  <2> QED BY <2>3, <2>6
<1>2. ASSUME NEW type \in {"PINGREQ", "DISCONNECT"}
      PROVE  getPacketData(setHeader(type)) \in Bytes /\ ~Overruns(send(setHeader(type)))
  <2> DEFINE h == Header(type, 0, 0, 0)
             p == [header |-> h, data |-> <<>>]
  <2>1. h \in Byte
    <3>1. type \in DOMAIN MqttCode
      BY DEF MqttCode
    <3>2. 0 \in 0 .. 1 /\ 0 \in 0 .. 3
      OBVIOUS
    <3> QED BY <3>1, <3>2, HeaderBytes
  <2>2. p.header = h /\ p.data = <<>> /\ setHeader(type) = p
    BY DEF setHeader
  <2> HIDE DEF h, p
  <2>3. <<>> \in Bytes /\ Len(<<>>) < 16384 /\ ~(Len(<<>>) > 1021)
    BY FewBytes
  <2> QED BY <2>1, <2>2, <2>3, MqttBytes
<1> QED BY <1>1, <1>2

\* What a will makes it longer.
WillLength(will) == IF will = <<>> THEN 0 ELSE 4 + Len(will[1].topic) + Len(will[1].msg)

\* A CONNECT for the broker.
LEMMA ToConnectBytes ==
    ASSUME NEW clean \in 0 .. 1, NEW n \in Nat, NEW id \in ShortBytes, NEW will,
           \/ will = <<>>
           \/ \E qos \in 0 .. 3, retain \in 0 .. 1, t \in ShortBytes, s \in ShortBytes :
                 will = <<[qos |-> qos, retain |-> retain, topic |-> t, msg |-> s]>>
    PROVE  LET packet == setCONNECT([clean |-> clean, duration |-> n, clientID |-> id,
                                     will |-> will])
           IN  Carries(packet, 12 + Len(id) + WillLength(will))
<1> DEFINE c == [clean |-> clean, duration |-> n, clientID |-> id, will |-> will]
           a == writeUTF(<<77, 81, 84, 84>>)
           o == ConnectOctet(c)
           b == <<4, o>>
           w == writeInt(n)
           u == writeUTF(id)
           v == IF will = <<>> THEN <<>> ELSE writeUTF(will[1].topic) \o writeUTF(will[1].msg)
           d == a \o b \o w \o u \o v
           h == Header("CONNECT", 0, 0, 0)
           p == [header |-> h, data |-> d]
<1>1. setCONNECT(c) = p
  BY DEF setCONNECT
<1>2. a \in Bytes /\ Len(a) = 6
  <2> DEFINE s == <<77, 81, 84, 84>>
  <2>1. 77 \in Byte /\ 81 \in Byte /\ 84 \in Byte
    BY DEF Byte
  <2>2. s \in Seq(Byte) /\ Len(s) = 4
    BY <2>1
  <2> HIDE DEF s
  <2>3. s \in ShortBytes
    <3>1. 4 <= 1016
      OBVIOUS
    <3>2. s \in Bytes /\ Len(s) <= 1016
      BY <2>2, <3>1 DEF Bytes
    <3> QED BY ONLY <3>2 DEF ShortBytes
  <2>4. writeUTF(s) \in Bytes /\ Len(writeUTF(s)) = 2 + Len(s)
    BY <2>3, UtfBytes
  <2>5. a = writeUTF(s)
    BY DEF s
  <2> HIDE DEF a
  <2> QED BY <2>2, <2>4, <2>5
<1>3. /\ o \in Byte /\ v \in Bytes /\ Len(v) <= 2036 /\ Len(v) \in Nat
      /\ Len(v) = WillLength(will)
  <2>1. CASE will = <<>>
    <3>1. v = <<>> /\ WillLength(will) = 0
      BY <2>1 DEF WillLength
    <3>2. <<>> \in Bytes /\ Len(<<>>) = 0 /\ Len(<<>>) <= 2036 /\ Len(<<>>) \in Nat
      BY FewBytes
    <3>3. o = 2 * clean
      BY <2>1 DEF ConnectOctet
    <3>4. o \in Byte
      BY <3>3 DEF Byte
    <3> HIDE DEF v, o
    <3> QED BY <3>1, <3>2, <3>4
  <2>2. ASSUME NEW qos \in 0 .. 3, NEW retain \in 0 .. 1, NEW t \in ShortBytes, NEW s \in ShortBytes,
               will = <<[qos |-> qos, retain |-> retain, topic |-> t, msg |-> s]>>
        PROVE  /\ o \in Byte /\ v \in Bytes /\ Len(v) <= 2036 /\ Len(v) \in Nat
               /\ Len(v) = WillLength(will)
    <3> DEFINE x == writeUTF(t)
               y == writeUTF(s)
    <3>1. will # <<>> /\ will[1] = [qos |-> qos, retain |-> retain, topic |-> t, msg |-> s]
      BY <2>2
    <3>2. o = 2 * clean + (4 + 8 * qos + 32 * retain)
      BY <3>1 DEF ConnectOctet
    <3>3. o \in Byte
      BY <3>2 DEF Byte
    <3>4. v = x \o y
      BY <3>1
    <3>5. /\ x \in Bytes /\ Len(x) <= 1018 /\ Len(x) \in Nat
          /\ Len(x) = 2 + Len(t) /\ Len(t) \in Nat
      BY UtfBytes
    <3>6. /\ y \in Bytes /\ Len(y) <= 1018 /\ Len(y) \in Nat
          /\ Len(y) = 2 + Len(s) /\ Len(s) \in Nat
      BY UtfBytes
    <3>9. WillLength(will) = 4 + Len(t) + Len(s)
      BY <3>1 DEF WillLength
    <3> HIDE DEF x, y, v, o
    <3>7. v \in Bytes /\ Len(v) = Len(x) + Len(y)
      BY <3>4, <3>5, <3>6, Appended
    <3>8. Len(v) <= 2036 /\ Len(v) \in Nat
      BY <3>5, <3>6, <3>7
    <3>10. Len(v) = 4 + Len(t) + Len(s)
      BY <3>5, <3>6, <3>7
    <3> QED BY <3>3, <3>7, <3>8, <3>9, <3>10
  <2> QED BY <2>1, <2>2
<1>4. b \in Bytes /\ Len(b) = 2
  <2>1. 4 \in Byte
    BY DEF Byte
  <2> HIDE DEF o
  <2> QED BY <1>3, <2>1, FewBytes
<1>5. w \in Bytes /\ Len(w) = 2
  BY WordBytes
<1>6. /\ u \in Bytes /\ Len(u) <= 1018 /\ Len(u) \in Nat
      /\ Len(u) = 2 + Len(id) /\ Len(id) \in Nat
  BY UtfBytes
<1>7. h \in Byte
  <2>1. "CONNECT" \in DOMAIN MqttCode
    BY DEF MqttCode
  <2>2. 0 \in 0 .. 1 /\ 0 \in 0 .. 3
    OBVIOUS
  <2> QED BY <2>1, <2>2, HeaderBytes
<1>8. p.header = h /\ p.data = d
  OBVIOUS
<1> HIDE DEF a, o, b, w, u, v, h, p, c
<1>9. a \o b \in Bytes /\ Len(a \o b) = Len(a) + Len(b)
  BY <1>2, <1>4, Appended
<1>10. a \o b \o w \in Bytes /\ Len(a \o b \o w) = Len(a \o b) + Len(w)
  BY <1>5, <1>9, Appended
<1>11. a \o b \o w \o u \in Bytes /\ Len(a \o b \o w \o u) = Len(a \o b \o w) + Len(u)
  BY <1>6, <1>10, Appended
<1>12. d \in Bytes /\ Len(d) = Len(a \o b \o w \o u) + Len(v)
  <2>1. v \in Bytes
    BY <1>3
  <2> QED BY <1>11, <2>1, Appended
<1> HIDE DEF d
<1>13. Len(d) < 16384
  BY <1>2, <1>3, <1>4, <1>5, <1>6, <1>9, <1>10, <1>11, <1>12
<1>14. Carries(p, Len(d))
  BY <1>7, <1>8, <1>12, <1>13, MqttBytes DEF Carries
<1>15. Len(d) = 12 + Len(id) + WillLength(will)
  BY <1>2, <1>3, <1>4, <1>5, <1>6, <1>9, <1>10, <1>11, <1>12
<1> QED BY <1>1, <1>14, <1>15 DEF c

\* What the gateway may translate, field by field.
Sound(g) ==
    \/ /\ g.type = "CONNECT" /\ g.clean \in 0 .. 1 /\ g.duration \in Nat
       /\ g.clientID \in ShortBytes
    \/ g.type = "WILLMSG" /\ g.msg \in ShortBytes
    \/ /\ g.type = "PUBLISH" /\ g.dup \in 0 .. 1 /\ g.qos \in 0 .. 3 /\ g.retain \in 0 .. 1
       /\ g.msgID \in Nat /\ NameOf(g.topic, Names) \in ShortBytes /\ g.payload \in ShortBytes
    \/ /\ g.type = "SUBSCRIBE" /\ g.qos \in 0 .. 3 /\ g.msgID \in Nat
       /\ FilterName(g.topic, Names) \in ShortBytes
    \/ g.type = "UNSUBSCRIBE" /\ g.msgID \in Nat /\ FilterName(g.topic, Names) \in ShortBytes
    \/ g.type \in {"PUBACK", "PUBREC", "PUBREL", "PUBCOMP"} /\ g.msgID \in Nat
    \/ g.type \in {"PINGREQ", "DISCONNECT"}

\* What does not fit into the gateway's buffer when it is translated.
TooLong(g) ==
    \/ g.type = "CONNECT" /\ Len(g.clientID) > 1009
    \/ g.type = "WILLMSG" /\ Len(g.msg) > 1000
    \/ /\ g.type = "PUBLISH" /\ g.qos \in 1 .. 2
       /\ Len(NameOf(g.topic, Names)) + Len(g.payload) > 1017

\* Without a message id a name and a payload fit.
LeavesRoom(g) ==
    g.type = "PUBLISH" /\ g.qos \notin 1 .. 2 => Len(NameOf(g.topic, Names)) + Len(g.payload) <= 1019

\* It becomes octets.
LEMMA TranslatedBytes ==
    ASSUME NEW g, Sound(g)
    PROVE  /\ getPacketData(ToMqtt(g)) \in Bytes
           /\ LeavesRoom(g) => (Overruns(send(ToMqtt(g))) <=> TooLong(g))
<1>1. CASE /\ g.type = "CONNECT" /\ g.clean \in 0 .. 1 /\ g.duration \in Nat
           /\ g.clientID \in ShortBytes
  <2>1. ToMqtt(g) = setCONNECT([clean |-> g.clean, duration |-> g.duration,
                                clientID |-> g.clientID, will |-> <<>>])
    BY <1>1 DEF ToMqtt, ToMqttConnect
  <2> DEFINE clean == g.clean
             n == g.duration
             id == g.clientID
             will == <<>>
             k == Len(id)
  <2>2. clean \in 0 .. 1 /\ n \in Nat /\ id \in ShortBytes /\ k \in Nat
    BY <1>1, BytesAreOctets DEF ShortBytes
  <2>3. TooLong(g) <=> k > 1009
    BY <1>1 DEF TooLong
  <2>4. WillLength(will) = 0 /\ will = <<>>
    BY DEF WillLength
  <2>5. ToMqtt(g) = setCONNECT([clean |-> clean, duration |-> n, clientID |-> id, will |-> will])
    BY <2>1
  <2> HIDE DEF clean, n, id, will
  <2>6. Carries(ToMqtt(g), 12 + k + WillLength(will))
    BY <2>2, <2>4, <2>5, ToConnectBytes
  <2> HIDE DEF k
  <2>7. 12 + k + WillLength(will) > 1021 <=> k > 1009
    BY <2>2, <2>4
  <2> QED BY <2>3, <2>6, <2>7 DEF Carries
<1>2. CASE g.type = "WILLMSG" /\ g.msg \in ShortBytes
  <2> DEFINE t == Text(2)
             id == Text(3)
             s == g.msg
             will == <<[qos |-> 2, retain |-> 1, topic |-> t, msg |-> s]>>
  <2>1. ToMqtt(g) = setCONNECT([clean |-> 1, duration |-> 60, clientID |-> id, will |-> will])
    <3>1. ToMqtt(g) = ToMqttConnect(Connected, <<WillOf(g)>>)
      BY <1>2 DEF ToMqtt
    <3>2. <<WillOf(g)>> = will
      BY DEF WillOf
    <3>3. Connected.clean = 1 /\ Connected.duration = 60 /\ Connected.clientID = id
      BY DEF Connected
    <3> QED BY <3>1, <3>2, <3>3 DEF ToMqttConnect
  <2>2. t \in ShortBytes /\ id \in ShortBytes /\ Len(t) = 2 /\ Len(id) = 3
    <3>1. 2 \in 1 .. 4 /\ 3 \in 1 .. 4 /\ 2 \in Nat /\ 3 \in Nat
      OBVIOUS
    <3>2. t \in Bytes /\ id \in Bytes
      BY <3>1, TextBytes
    <3>3. Len(t) <= 1016 /\ Len(id) <= 1016
      BY <3>1, FewLetters
    <3>4. Len(t) = 2 /\ Len(id) = 3
      BY <3>1, FewLetters
    <3> HIDE DEF t, id
    <3>5. t \in ShortBytes /\ id \in ShortBytes
      BY <3>2, <3>3 DEF ShortBytes
    <3> QED BY <3>4, <3>5
  <2> HIDE DEF t, id
  <2>3. \E q \in 0 .. 3, r \in 0 .. 1, x \in ShortBytes, y \in ShortBytes :
           will = <<[qos |-> q, retain |-> r, topic |-> x, msg |-> y]>>
    <3>1. 2 \in 0 .. 3 /\ 1 \in 0 .. 1 /\ s \in ShortBytes
      BY <1>2
    <3> QED BY <2>2, <3>1, Zenon
  <2>4. 1 \in 0 .. 1 /\ 60 \in Nat
    OBVIOUS
  <2>5. Len(s) \in Nat
    BY <1>2, UtfBytes
  <2>6. TooLong(g) <=> Len(s) > 1000
    BY <1>2 DEF TooLong
  <2>7. WillLength(will) = 4 + Len(t) + Len(s)
    BY DEF WillLength
  <2> HIDE DEF will, s
  <2>8. Carries(ToMqtt(g), 12 + Len(id) + WillLength(will))
    BY <2>1, <2>2, <2>3, <2>4, ToConnectBytes
  <2>9. 12 + Len(id) + WillLength(will) > 1021 <=> Len(s) > 1000
    <3> DEFINE i == Len(id)
               j == Len(t)
               k == Len(s)
               w == WillLength(will)
    <3>1. i = 3 /\ j = 2 /\ k \in Nat /\ w = 4 + j + k
      BY <2>2, <2>5, <2>7
    <3> HIDE DEF i, j, k, w
    <3>2. 12 + i + w > 1021 <=> k > 1000
      BY ONLY <3>1
    <3> QED BY <3>2 DEF i, k, w
  <2> QED BY <2>6, <2>8, <2>9 DEF Carries
<1>3. CASE /\ g.type = "PUBLISH" /\ g.dup \in 0 .. 1 /\ g.qos \in 0 .. 3 /\ g.retain \in 0 .. 1
           /\ g.msgID \in Nat /\ NameOf(g.topic, Names) \in ShortBytes /\ g.payload \in ShortBytes
  <2> DEFINE l == IF g.qos = 3 THEN 0 ELSE g.qos
  <2>1. ToMqtt(g) = setPUBLISH([dup |-> g.dup, qos |-> l, retain |-> g.retain,
                                topic |-> NameOf(g.topic, Names), msgID |-> g.msgID,
                                payload |-> g.payload])
    BY <1>3 DEF ToMqtt, ToMqttPublish
  <2> DEFINE t == NameOf(g.topic, Names)
             p == g.payload
             size == 2 + Len(t) + (IF l > 0 THEN 2 ELSE 0) + Len(p)
  <2>2. l \in 0 .. 3 /\ (l > 0 <=> g.qos \in 1 .. 2)
    BY <1>3
  <2>3. Len(t) \in Nat /\ Len(p) \in Nat
    BY <1>3, UtfBytes
  <2>4. TooLong(g) <=> g.qos \in 1 .. 2 /\ Len(t) + Len(p) > 1017
    BY <1>3 DEF TooLong
  <2>7. LeavesRoom(g) <=> (g.qos \notin 1 .. 2 => Len(t) + Len(p) <= 1019)
    BY <1>3 DEF LeavesRoom
  <2> DEFINE dup == g.dup
             retain == g.retain
             n == g.msgID
             c == setPUBLISH([dup |-> dup, qos |-> l, retain |-> retain, topic |-> t, msgID |-> n,
                              payload |-> p])
  <2>8. /\ dup \in 0 .. 1 /\ retain \in 0 .. 1 /\ n \in Nat /\ t \in ShortBytes
        /\ p \in ShortBytes /\ ToMqtt(g) = c
    BY <1>3, <2>1
  <2> HIDE DEF l, dup, retain, n, t, p
  <2>5. Carries(c, size)
    BY <2>2, <2>8, ToPublishBytes
  <2>6. ASSUME LeavesRoom(g)
        PROVE  size > 1021 <=> TooLong(g)
    <3> DEFINE i == Len(t)
               j == Len(p)
    <3>1. i \in Nat /\ j \in Nat /\ size = 2 + i + (IF l > 0 THEN 2 ELSE 0) + j
      BY <2>3
    <3> HIDE DEF size, i, j
    <3>2. CASE l > 0
      <4>1. size = 4 + i + j
        BY <3>1, <3>2
      <4>2. TooLong(g) <=> i + j > 1017
        BY <2>2, <2>4, <3>2 DEF i, j
      <4>3. size > 1021 <=> i + j > 1017
        BY ONLY <3>1, <4>1
      <4> QED BY <4>2, <4>3
    <3>3. CASE ~(l > 0)
      <4>1. size = 2 + i + j
        BY <3>1, <3>3
      <4>2. ~TooLong(g) /\ i + j <= 1019
        BY <2>2, <2>4, <2>6, <2>7, <3>3 DEF i, j
      <4>3. ~(size > 1021)
        BY ONLY <3>1, <4>1, <4>2
      <4> QED BY <4>2, <4>3
    <3> QED BY <3>2, <3>3
  <2> HIDE DEF size, c
  <2> QED BY <2>5, <2>6, <2>8 DEF Carries
<1>4. CASE /\ g.type = "SUBSCRIBE" /\ g.qos \in 0 .. 3 /\ g.msgID \in Nat
           /\ FilterName(g.topic, Names) \in ShortBytes
  <2>1. ToMqtt(g) = setSUBSCRIBE(FilterName(g.topic, Names), g.qos, g.msgID)
    BY <1>4 DEF ToMqtt, ToMqttSubscribe
  <2>2. ~TooLong(g)
    BY <1>4 DEF TooLong
  <2> QED BY <1>4, <2>1, <2>2, ToFilterBytes
<1>5. CASE g.type = "UNSUBSCRIBE" /\ g.msgID \in Nat /\ FilterName(g.topic, Names) \in ShortBytes
  <2>1. ToMqtt(g) = setUNSUBSCRIBE(FilterName(g.topic, Names), g.msgID)
    BY <1>5 DEF ToMqtt, ToMqttUnsubscribe
  <2>2. 0 \in 0 .. 3
    OBVIOUS
  <2>3. ~TooLong(g)
    BY <1>5 DEF TooLong
  <2> QED BY <1>5, <2>1, <2>2, <2>3, ToFilterBytes
<1>6. CASE g.type \in {"PUBACK", "PUBREC", "PUBREL", "PUBCOMP"} /\ g.msgID \in Nat
  <2>1. ToMqtt(g) = setAck(g.type, g.msgID)
    BY <1>6 DEF ToMqtt
  <2>2. ~TooLong(g)
    <3>1. CASE g.type = "PUBACK"
      BY <3>1 DEF TooLong
    <3>2. CASE g.type = "PUBREC"
      BY <3>2 DEF TooLong
    <3>3. CASE g.type = "PUBREL"
      BY <3>3 DEF TooLong
    <3>4. CASE g.type = "PUBCOMP"
      BY <3>4 DEF TooLong
    <3> QED BY <1>6, <3>1, <3>2, <3>3, <3>4
  <2> QED BY <1>6, <2>1, <2>2, ToAckBytes
<1>7. CASE g.type \in {"PINGREQ", "DISCONNECT"}
  <2>1. ToMqtt(g) = setHeader(g.type)
    BY <1>7 DEF ToMqtt
  <2>2. 0 \in Nat
    OBVIOUS
  <2>3. ~TooLong(g)
    <3>1. CASE g.type = "PINGREQ"
      BY <3>1 DEF TooLong
    <3>2. CASE g.type = "DISCONNECT"
      BY <3>2 DEF TooLong
    <3> QED BY <1>7, <3>1, <3>2
  <2> QED BY <1>7, <2>1, <2>2, <2>3, ToAckBytes
<1> QED BY <1>1, <1>2, <1>3, <1>4, <1>5, <1>6, <1>7 DEF Sound

\* The texts of the model and the names of its topics fit.
LEMMA TextsAreShort == Texts \subseteq ShortBytes /\ ShortTexts \subseteq ShortBytes
<1>1. ASSUME NEW t \in AnyText, t \in Bytes
      PROVE  t \in ShortBytes
  BY <1>1, PayloadLength DEF ShortBytes
<1> QED BY <1>1, TextsAreTexts, TextsAreBytes

\* The names of the topics fit.
LEMMA NamesAreShort ==
    /\ \A topic \in Filters : FilterName(topic, Names) \in ShortBytes
    /\ \A topic \in PublishTopics : NameOf(topic, Names) \in ShortBytes
<1>1. ASSUME NEW t \in AnyText, t \in Bytes
      PROVE  t \in ShortBytes
  BY <1>1, PayloadLength DEF ShortBytes
<1>2. ASSUME NEW topic \in Filters
      PROVE  FilterName(topic, Names) \in ShortBytes
  <2>1. FilterName(topic, Names) \in AnyText
    BY FilteredName
  <2>2. FilterName(topic, Names) \in Bytes
    BY TopicBytes
  <2> QED BY <1>1, <2>1, <2>2
<1>3. ASSUME NEW topic \in PublishTopics
      PROVE  NameOf(topic, Names) \in ShortBytes
  <2>1. NameOf(topic, Names) \in AnyText
    BY PublishedName, NameIsText
  <2>2. NameOf(topic, Names) \in Bytes
    BY TopicBytes
  <2> QED BY <1>1, <2>1, <2>2
<1> QED BY <1>2, <1>3

\* The payload of a PUBLISH of the model fits.
LEMMA PublishesAreShort ==
    ASSUME NEW msg, msg \in PublishSet(msg.topic), msg.payload \in Bytes
    PROVE  msg.payload \in ShortBytes
<1>1. msg.payload \in AnyText
  BY DEF PublishSet
<1> QED BY <1>1, PayloadLength DEF ShortBytes

\* What the gateway makes of a message that is read, it may translate.
LEMMA UnderstoodIsSound ==
    ASSUME NEW msg \in ClientMessages, Passes(Understood(msg))
    PROVE  Sound(Understood(msg))
<1> DEFINE g == Understood(msg)
<1>1. g # Rejected
  BY DEF Passes, Translated, Rejected
<1>2. g = msg \/ (msg.type = "PINGREQ" /\ g = [type |-> "PINGREQ"])
  BY <1>1 DEF Understood
<1>3. g.type \in Translated /\ g.type = msg.type
  BY <1>2 DEF Passes
<1>4. ASSUME msg.type = "PUBLISH"
      PROVE  ~Client!LongName(msg.qos, msg.topic)
  <2>1. g = msg
    BY <1>2, <1>4
  <2>2. Passes(msg)
    BY <2>1
  <2> QED BY <1>4, <2>2 DEF Passes
<1> HIDE DEF g
<1>5. Ids \subseteq Nat
  BY IdIsWord, WordIsNat
<1>6. CASE msg \in [type : {"CONNECT"}, will : Bit, clean : Bit, duration : Ids, clientID : Texts]
  <2>1. g = msg /\ msg.type = "CONNECT" /\ msg.clean \in 0 .. 1
    BY <1>2, <1>6 DEF Bit
  <2>2. msg.duration \in Nat /\ msg.clientID \in ShortBytes
    BY <1>5, <1>6, TextsAreShort
  <2> QED BY <2>1, <2>2 DEF Sound, g
<1>7. CASE \/ msg \in [type : {"DISCONNECT"}, duration : Ids \cup {0}]
           \/ msg \in [type : {"PINGRESP"}] \/ msg \in [type : {"PINGREQ"}, clientID : Texts]
  <2>1. msg.type \in {"DISCONNECT", "PINGRESP", "PINGREQ"}
    BY <1>7
  <2>2. g.type \in {"PINGREQ", "DISCONNECT"}
    BY <1>3, <2>1 DEF Translated
  <2> QED BY <2>2 DEF Sound, g
<1>8. CASE \/ msg \in [type : {"WILLTOPIC", "WILLTOPICUPD"}, qos : Qos, retain : Bit, topic : Texts]
           \/ msg \in [type : {"SEARCHGW"}, radius : Bit]
           \/ msg \in [type : {"REGISTER"}, topicID : {0}, msgID : Ids, name : Texts]
  <2>1. msg.type \in {"WILLTOPIC", "WILLTOPICUPD", "SEARCHGW", "REGISTER"}
    BY <1>8
  <2> QED BY <1>3, <2>1 DEF Translated
<1>9. CASE msg \in [type : {"WILLMSG", "WILLMSGUPD"}, msg : Texts]
  <2>1. msg.type \in {"WILLMSG", "WILLMSGUPD"} /\ msg.msg \in Texts
    BY <1>9
  <2>3. msg.type = "WILLMSG" /\ g = msg
    BY <1>2, <1>3, <2>1 DEF Translated
  <2>2. msg.msg \in ShortBytes
    BY <2>1, TextsAreShort
  <2> QED BY <2>2, <2>3 DEF Sound, g
<1>10. CASE msg \in [type : {"SUBSCRIBE"}, dup : Bit, qos : Qos, msgID : Ids, topic : Filters]
  <2>1. g = msg /\ msg.type = "SUBSCRIBE" /\ msg.topic \in Filters
    BY <1>2, <1>10
  <2>4. msg.qos \in Qos /\ msg.msgID \in Ids
    BY <1>10
  <2>5. Qos \subseteq 0 .. 3
    BY DEF Qos
  <2>2. msg.qos \in 0 .. 3 /\ msg.msgID \in Nat
    BY <1>5, <2>4, <2>5
  <2>3. FilterName(msg.topic, Names) \in ShortBytes
    BY <2>1, NamesAreShort
  <2> QED BY <2>1, <2>2, <2>3 DEF Sound, g
<1>11. CASE msg \in [type : {"UNSUBSCRIBE"}, msgID : Ids, topic : Filters]
  <2>1. g = msg /\ msg.type = "UNSUBSCRIBE" /\ msg.topic \in Filters
    BY <1>2, <1>11
  <2>2. msg.msgID \in Nat
    BY <1>5, <1>11
  <2>3. FilterName(msg.topic, Names) \in ShortBytes
    BY <2>1, NamesAreShort
  <2> QED BY <2>1, <2>2, <2>3 DEF Sound, g
<1>12. CASE IsPublish(msg)
  <2>1. /\ msg.type = "PUBLISH" /\ msg.payload \in Bytes /\ msg \in PublishSet(msg.topic)
        /\ \/ msg.topic \in PublishTopics
           \/ msg.topic \in LongTopics /\ msg.qos = 3
    BY <1>12, PublishesAre, TextsAreBytes
  <2>2. g = msg
    BY <1>2, <2>1
  <2>3. ~(msg.topic \in LongTopics /\ msg.qos = 3)
    <3>1. ASSUME msg.topic \in LongTopics, msg.qos = 3
          PROVE  FALSE
      <4>1. msg.topic.kind = NORMAL
        BY <3>1 DEF LongTopics, Topic
      <4>2. Client!LongName(msg.qos, msg.topic)
        BY <3>1, <4>1, SameForClient DEF Client!LongName
      <4> QED BY <1>4, <2>1, <4>2
    <3> QED BY <3>1
  <2>4. NameOf(msg.topic, Names) \in ShortBytes
    BY <2>1, <2>3, NamesAreShort
  <2>5. msg.payload \in ShortBytes
    BY <2>1, PublishesAreShort
  <2>6. msg.dup \in 0 .. 1 /\ msg.qos \in 0 .. 3 /\ msg.retain \in 0 .. 1 /\ msg.msgID \in Nat
    BY <2>1, PublishFields
  <2> QED BY <2>1, <2>2, <2>4, <2>5, <2>6 DEF Sound, g
<1>13. CASE msg \in AcksWithTopic
  <2>1. g.type = "PUBACK" /\ g = msg /\ msg.msgID \in Nat
    BY <1>2, <1>3, <1>5, <1>13 DEF AcksWithTopic, Translated
  <2> QED BY <2>1 DEF Sound, g
<1>14. CASE msg \in Acks({"PUBREC", "PUBREL", "PUBCOMP"})
  <2>1. msg.type \in {"PUBREC", "PUBREL", "PUBCOMP"} /\ g = msg /\ msg.msgID \in Nat
    BY <1>2, <1>5, <1>14 DEF Acks
  <2> QED BY <2>1 DEF Sound, g
<1> QED
  BY <1>6, <1>7, <1>8, <1>9, <1>10, <1>11, <1>12, <1>13, <1>14,
     QoSMinusIsPublished DEF ClientMessages, IsPublish, g

----------------------------------------------------------------------------
(* What the gateway makes of a packet that is cut: the buffer was that of the sender's caller. *)

\* A slice of octets, and its first ones.
LEMMA SliceBytes ==
    ASSUME NEW a \in Bytes, NEW p \in Nat, NEW q \in Nat, 1 <= p, p <= q, q <= Len(a)
    PROVE  /\ Part(a, p, q) \in Bytes /\ Len(Part(a, p, q)) = q - p + 1
           /\ \A i \in 1 .. q - p + 1 : Part(a, p, q)[i] = a[p + i - 1]
<1>1. Len(a) \in Nat /\ \A i \in 1 .. Len(a) : a[i] \in Byte
  BY DEF Bytes
<1>2. \A i \in p .. q : a[i] \in Byte
  BY <1>1
<1>3. p \in Int /\ q \in Int
  OBVIOUS
<1>4. /\ SubSeq(a, p, q) \in Seq(Byte)
      /\ Len(SubSeq(a, p, q)) = IF p <= q THEN q - p + 1 ELSE 0
      /\ \A i \in 1 .. q - p + 1 : SubSeq(a, p, q)[i] = a[p + i - 1]
  BY <1>2, <1>3, SubSeqProperties
<1>5. p <= q
  OBVIOUS
<1> QED BY <1>4, <1>5, Zenon DEF Bytes, Part

\* A length that has been announced two octets too short.
LEMMA CutLength ==
    ASSUME NEW l \in Nat, NEW n \in Nat, NEW k \in {2, 4}, k + l = 258,
           k = Width(n) + 1, n = MQTTSNPacket_len(1 + l)
    PROVE  k = 4 /\ l = 254 /\ n = 256
<1>1. k = IF n <= 255 THEN 2 ELSE 4
  BY DEF Width
<1>2. n = (1 + l) + IF 1 + l > 255 THEN 3 ELSE 1
  BY DEF MQTTSNPacket_len
<1>3. CASE k = 2
  <2>1. l = 256
    BY <1>3
  <2>2. n = 260
    BY <1>2, <2>1
  <2> QED BY <1>1, <1>3, <2>2
<1>4. CASE k = 4
  BY <1>2, <1>4
<1> QED BY <1>3, <1>4

\* A packet whose writer announces two octets too few: its reader has 252 octets of the body.
IsCut(b, body) == b \in Bytes /\ Len(b) = 252 /\ b[1] = body[1]

\* The body its reader has, and what of it is that of the writer.
LEMMA CutBody ==
    ASSUME NEW type, Code[type] \in Nat, NEW body \in Octets, Fits(body),
           NEW s \in Bytes, s = Packet(type, body), Cut(s)
    PROVE  TypeOf(s) = Code[type] /\ Len(body) = 254 /\ IsCut(Body(s), body)
<1> DEFINE n == MQTTSNPacket_len(1 + Len(body))
           k == TypeAt(body)
<1>1. body \in Bodies /\ Len(body) \in Nat
  BY Carried, LenIsNat DEF Fits
<1>2. /\ Len(s) = k + Len(body) /\ k \in {2, 4}
      /\ MQTTSNPacket_decode(s) = [rc |-> k - 1, value |-> n]
      /\ TypeOf(s) = Code[type]
      /\ From(s, k + 1) = body
  BY <1>1, PacketParts
<1>3. Len(s) = 258
  BY DEF Cut
<1>4. k = Width(n) + 1 /\ n \in Nat
  BY <1>1, LengthOfPacket DEF TypeAt
<1>5. k + Len(body) = 258
  BY <1>2, <1>3
<1>n. n = MQTTSNPacket_len(1 + Len(body))
  OBVIOUS
<1> HIDE DEF k, n
<1>6. k = 4 /\ Len(body) = 254 /\ n = 256
  <2>1. k \in {2, 4}
    BY <1>2
  <2> DEFINE l == Len(body)
  <2>2. l \in Nat
    BY <1>1
  <2>3. n \in Nat /\ k = Width(n) + 1
    BY <1>4
  <2>4. k + l = 258 /\ n = MQTTSNPacket_len(1 + l)
    BY <1>5, <1>n
  <2> HIDE DEF l
  <2>5. k = 4 /\ l = 254 /\ n = 256
    BY <2>1, <2>2, <2>3, <2>4, CutLength
  <2> QED BY <2>5 DEF l
<1>7. Body(s) = Part(s, 5, 256)
  <2>1. MQTTSNPacket_decode(s).rc = 3 /\ MQTTSNPacket_decode(s).value = 256
    BY <1>2, <1>6
  <2> QED BY ONLY <2>1 DEF Body, Part
<1>8. Part(s, 5, Len(s)) = body
  <2>1. k + 1 = 5
    BY ONLY <1>6
  <2>2. From(s, k + 1) = body
    BY <1>2
  <2> QED BY ONLY <2>1, <2>2 DEF From, Part
<1>9. ASSUME NEW p, NEW q, NEW e, p = 5, q = 256, e = Len(s)
      PROVE  IsCut(Part(s, p, q), Part(s, p, e))
  <2>1. /\ p \in Nat /\ q \in Nat /\ e \in Nat /\ 1 <= p /\ p <= q /\ p <= e /\ q <= Len(s)
        /\ e <= Len(s) /\ q - p + 1 = 252 /\ 1 \in 1 .. q - p + 1 /\ 1 \in 1 .. e - p + 1
    BY <1>3, <1>9
  <2>2. /\ Part(s, p, q) \in Bytes /\ Len(Part(s, p, q)) = q - p + 1
        /\ Part(s, p, q)[1] = s[p + 1 - 1] /\ Part(s, p, e)[1] = s[p + 1 - 1]
    BY <2>1, SliceBytes
  <2> QED BY <2>1, <2>2 DEF IsCut
<1>10. IsCut(Body(s), body)
  BY <1>7, <1>8, <1>9
<1> QED BY <1>2, <1>6, <1>10

\* What a reader takes from the 252 octets.
LEMMA CutOctets ==
    ASSUME NEW b, NEW body, IsCut(b, body)
    PROVE  /\ b[1] \in Byte /\ b[1] = body[1]
           /\ readInt(b, 2) \in Nat /\ readInt(b, 4) \in Nat
           /\ From(b, 4) \in ShortBytes
           /\ From(b, 6) \in ShortBytes /\ Len(From(b, 6)) = 247
           /\ SubSeq(b, 2, 3) \in ShortBytes /\ Len(SubSeq(b, 2, 3)) = 2
<1>1. b \in Bytes /\ Len(b) = 252 /\ b[1] = body[1]
  BY DEF IsCut
<1>2. ASSUME NEW i \in 1 .. 5
      PROVE  b[i] \in Byte /\ b[i] \in Nat
  <2>1. \A j \in 1 .. Len(b) : b[j] \in Byte
    <3>1. b \in Bytes
      BY <1>1
    <3> QED BY ONLY <3>1 DEF Bytes
  <2>2. i \in 1 .. Len(b)
    BY <1>1
  <2>3. Byte \subseteq Nat
    BY DEF Byte
  <2> QED BY ONLY <2>1, <2>2, <2>3
<1>3. ASSUME NEW p \in Nat, NEW q \in Nat, 1 <= p, p <= q, q <= Len(b)
      PROVE  Part(b, p, q) \in ShortBytes /\ Len(Part(b, p, q)) = q - p + 1
  <2>1. Part(b, p, q) \in Bytes /\ Len(Part(b, p, q)) = q - p + 1
    <3>1. b \in Bytes
      BY <1>1
    <3> QED BY ONLY <1>3, <3>1, SliceBytes, Zenon
  <2>2. Len(Part(b, p, q)) <= 1016
    BY <1>1, <1>3, <2>1
  <2> QED BY <2>1, <2>2 DEF ShortBytes
<1>4. readInt(b, 2) \in Nat /\ readInt(b, 4) \in Nat
  <2>1. b[2] \in Nat /\ b[2 + 1] \in Nat /\ b[4] \in Nat /\ b[4 + 1] \in Nat
    BY <1>2
  <2> QED BY <2>1 DEF readInt
<1>5. ASSUME NEW l, l = Len(b)
      PROVE  /\ SubSeq(b, 4, l) \in ShortBytes
             /\ SubSeq(b, 6, l) \in ShortBytes /\ Len(SubSeq(b, 6, l)) = 247
  <2>1. l \in Nat /\ 4 <= l /\ 6 <= l /\ l - 6 + 1 = 247
    BY <1>1, <1>5
  <2>2. ASSUME NEW n \in Nat, 1 <= n, n <= 6
        PROVE  Part(b, n, l) \in ShortBytes /\ Len(Part(b, n, l)) = l - n + 1
    <3>1. n <= l /\ l <= Len(b)
      BY <1>1, <1>5, <2>2
    <3> QED BY ONLY <1>3, <2>1, <2>2, <3>1
  <2> QED BY ONLY <2>1, <2>2 DEF Part
<1>6. SubSeq(b, 2, 3) \in ShortBytes /\ Len(SubSeq(b, 2, 3)) = 2
  <2>1. 3 <= Len(b)
    BY <1>1
  <2> QED BY <1>3, <2>1 DEF Part
<1>7. b[1] \in Byte
  BY <1>2
<1> QED BY <1>1, <1>4, <1>5, <1>6, <1>7 DEF From

\* Whatever the octet of the flags is, its fields have their range.
LEMMA FlagsTaken ==
    ASSUME NEW x \in Byte
    PROVE  /\ FlagsOf(x).dup \in 0 .. 1 /\ FlagsOf(x).qos \in 0 .. 3
           /\ FlagsOf(x).retain \in 0 .. 1 /\ FlagsOf(x).clean \in 0 .. 1
BY DEF FlagsOf, Byte

\* What is behind the type of a packet that is cut.
LEMMA CutMade ==
    ASSUME NEW msg \in ClientMessages, NEW body \in Octets, Fits(body), Code[msg.type] \in Nat,
           ClientWriter(msg) = Packet(msg.type, body), Cut(ClientWriter(msg))
    PROVE  /\ TypeOf(ClientWriter(msg)) = Code[msg.type]
           /\ Wrong(Len(body)) /\ IsCut(Body(ClientWriter(msg)), body)
<1> DEFINE s == ClientWriter(msg)
<1>1. s \in Bytes
  BY ClientWriterBytes
<1>2. s = Packet(msg.type, body) /\ Cut(s)
  OBVIOUS
<1> HIDE DEF s
<1>3. TypeOf(s) = Code[msg.type] /\ Wrong(Len(body)) /\ IsCut(Body(s), body)
  BY <1>1, <1>2, CutBody DEF Wrong
<1> QED BY <1>3 DEF s

\* WILLTOPICUPD, WILLMSGUPD and SEARCHGW are not translated, cut or not.
LEMMA NotTranslated ==
    ASSUME NEW s, NEW type \in {"SEARCHGW", "WILLTOPICUPD", "WILLMSGUPD"}, TypeOf(s) = Code[type]
    PROVE  ~Passes(Gw!GetPacket(s))
<1> DEFINE g == Gw!GetPacket(s)
<1>1. g = Rejected \/ g.type = type
  <2>1. CASE type = "SEARCHGW"
    BY <2>1, GatewayChooses DEF Gw!MQTTSNDeserialize_searchgw
  <2>2. CASE type = "WILLTOPICUPD"
    <3>1. g = Gw!MQTTSNDeserialize_willtopic1(s, type)
      BY <2>2, GatewayChooses DEF Gw!MQTTSNDeserialize_willtopicupd
    <3> QED BY <3>1, SameForGateway DEF Gw!MQTTSNDeserialize_willtopic1, Gw!IfText
  <2>3. CASE type = "WILLMSGUPD"
    <3>1. g = Gw!MQTTSNDeserialize_willmsg1(s, type)
      BY <2>3, GatewayChooses DEF Gw!MQTTSNDeserialize_willmsgupd
    <3> QED BY <3>1, SameForGateway DEF Gw!MQTTSNDeserialize_willmsg1, Gw!IfText
  <2> QED BY <2>1, <2>2, <2>3
<1> HIDE DEF g
<1>2. ~Passes(g)
  BY <1>1 DEF Passes, Translated, Rejected
<1> QED BY <1>2 DEF g

\* The body of a message with an id.
LEMMA WrittenIsMade ==
    ASSUME NEW msg, Written(msg), msg.msgID \in Word
    PROVE  /\ WithId(msg, msg.msgID) \in Octets /\ Fits(WithId(msg, msg.msgID))
           /\ ClientWriter(msg) = Packet(msg.type, WithId(msg, msg.msgID))
           /\ Len(WithId(msg, msg.msgID)) = Len(IdHead(msg)) + 2 + Len(IdTail(msg))
           /\ Len(IdHead(msg)) >= 1 => WithId(msg, msg.msgID)[1] = IdHead(msg)[1]
<1> DEFINE h == IdHead(msg)
           t == IdTail(msg)
           w == writeInt(msg.msgID)
<1>1. /\ h \in Octets /\ t \in Octets /\ Fits(WithId(msg, msg.msgID))
      /\ ClientWriter(msg) = Packet(msg.type, WithId(msg, msg.msgID))
  BY DEF Written
<1>2. WithId(msg, msg.msgID) = Holding(h, msg.msgID, t)
  BY DEF WithId
<1>3. w \in Octets /\ Holding(h, msg.msgID, t) = h \o w \o t
  BY IntOctets DEF Holding
<1> HIDE DEF h, t, w
<1>4. Holding(h, msg.msgID, t) \in Octets /\ Len(Holding(h, msg.msgID, t)) = Len(h) + 2 + Len(t)
  BY <1>1, HoldingParts
<1>5. ASSUME Len(h) >= 1
      PROVE  (h \o w \o t)[1] = h[1]
  <2>1. Len(h) \in Nat /\ Len(w) \in Nat
    BY <1>1, <1>3, LenIsNat
  <2>2. h \o w \in Octets /\ Len(h \o w) = Len(h) + Len(w)
    BY <1>1, <1>3, Both
  <2>3. 1 <= Len(h) /\ 1 <= Len(h \o w)
    BY <1>5, <2>1, <2>2
  <2>4. (h \o w)[1] = h[1]
    BY <1>1, <1>3, <2>3, InFirst
  <2>5. ((h \o w) \o t)[1] = (h \o w)[1]
    BY <1>1, <2>2, <2>3, InFirst
  <2> QED BY <2>4, <2>5
<1> QED BY <1>1, <1>2, <1>3, <1>4, <1>5 DEF h, t

\* UNSUBSCRIBE: the topic filter that makes a packet of this size is a long name.
LEMMA CutUnsubscribe ==
    ASSUME NEW msg \in ClientMessages, msg.type = "UNSUBSCRIBE", Cut(ClientWriter(msg))
    PROVE  Sound(Gw!GetPacket(ClientWriter(msg)))
<1> DEFINE s == ClientWriter(msg)
           body == WithId(msg, msg.msgID)
           topic == msg.topic
           filter == Client!FilterOctets(topic)
           b == Body(s)
           t == From(b, 4)
           g == Gw!GetPacket(s)
<1>1. msg \in [type : {"UNSUBSCRIBE"}, msgID : Word, topic : {topic}] /\ IsFilter(topic)
  <2>1. \/ msg \in [type : {"UNSUBSCRIBE"}, msgID : Ids, topic : Filters]
        \/ IsPublish(msg)
    BY QoSMinusIsPublished DEF ClientMessages, AcksWithTopic, Acks, IsPublish
  <2>2. msg \in [type : {"UNSUBSCRIBE"}, msgID : Ids, topic : Filters]
    BY <2>1, PublishesAre
  <2> QED BY <2>2, IdIsWord, FiltersAreFilters
<1>2. Written(msg) /\ msg.msgID \in Word
  BY <1>1, UnsubscribeArrives
<1>3. IdHead(msg) = <<topic.kind>> /\ IdTail(msg) = filter
  BY DEF IdHead, IdTail
<1>4. Len(IdHead(msg)) = 1 /\ IdHead(msg)[1] = topic.kind
  BY <1>3
<1>5. /\ body \in Octets /\ Fits(body) /\ s = Packet(msg.type, body)
      /\ Len(body) = 1 + 2 + Len(filter) /\ body[1] = topic.kind
  <2>1. Len(IdHead(msg)) >= 1
    BY <1>4
  <2> QED BY <1>2, <1>3, <1>4, <2>1, WrittenIsMade
<1>6. topic.kind \in 0 .. 2 /\ (topic.kind # NORMAL => Len(filter) = 2)
  BY <1>1, FilterIsKept
<1>7. TypeOf(s) = Code["UNSUBSCRIBE"] /\ Len(body) = 254 /\ IsCut(b, body)
  <2> HIDE DEF body
  <2>1. Code[msg.type] \in Nat
    BY DEF Code
  <2>2. /\ TypeOf(ClientWriter(msg)) = Code[msg.type]
        /\ Wrong(Len(body)) /\ IsCut(Body(ClientWriter(msg)), body)
    BY <1>5, <2>1, CutMade
  <2> QED BY <2>2 DEF Wrong
<1> HIDE DEF filter, body, topic
<1>8. topic.kind = NORMAL
  <2>1. Len(body) = 1 + 2 + Len(filter) /\ Len(body) = 254
    BY <1>5, <1>7
  <2>2. 1 + 2 + 2 # 254
    OBVIOUS
  <2>3. Len(filter) # 2
    BY ONLY <2>1, <2>2, Zenon
  <2> QED BY ONLY <1>6, <2>3
<1>9. b[1] = NORMAL /\ readInt(b, 2) \in Nat /\ t \in ShortBytes
  <2> HIDE DEF b
  <2> QED BY <1>5, <1>7, <1>8, CutOctets
<1>10. FlagsOf(b[1]).kind = NORMAL /\ NORMAL # PREDEFINED
  BY <1>9 DEF FlagsOf, NORMAL, PREDEFINED
<1>11. g = Gw!MQTTSNDeserialize_unsubscribe(s)
  BY <1>7, GatewayChooses
<1>12. g = [type |-> "UNSUBSCRIBE", msgID |-> readInt(b, 2), topic |-> Topic(NORMAL, 0, t)]
  BY <1>10, <1>11, SameForGateway DEF Gw!MQTTSNDeserialize_unsubscribe, Gw!FilterOf
<1>13. FilterName(Topic(NORMAL, 0, t), Names) = t
  BY DEF FilterName, Topic
<1> HIDE DEF s, b, t
<1>14. g.type = "UNSUBSCRIBE" /\ g.msgID \in Nat /\ FilterName(g.topic, Names) \in ShortBytes
  BY <1>9, <1>12, <1>13
<1> HIDE DEF g
<1>15. Sound(g)
  BY <1>14 DEF Sound
<1> QED BY <1>15 DEF g, s

\* PUBLISH by a short topic: its body and what of it is left.
LEMMA CutTwoOctets ==
    ASSUME NEW msg \in ClientMessages, msg.topic \in PublishTopics, msg \in PublishSet(msg.topic),
           msg.qos = 0 => msg.msgID = 0, msg.topic.kind = SHORT, Cut(ClientWriter(msg))
    PROVE  /\ TypeOf(ClientWriter(msg)) = Code["PUBLISH"]
           /\ IsCut(Body(ClientWriter(msg)), PublishBody(msg))
           /\ Wrong(5 + Len(msg.payload))
           /\ FlagsOf(PublishBody(msg)[1]).kind = SHORT
<1> DEFINE s == ClientWriter(msg)
           topic == msg.topic
           body == PublishBody(msg)
           f == Flags(msg.dup, msg.qos, msg.retain, topic.kind)
           id == TwoOctets(topic)
           n == msg.msgID
           t == msg.payload
           c == <<f>> \o id \o writeInt(n) \o <<>> \o t
<1>1. IsTwoOctets(topic)
  BY TwoOctetTopics
<1>2. ~Client!LongName(msg.qos, topic)
  BY SameForClient DEF Client!LongName, NORMAL, SHORT
<1>3. /\ s = Packet("PUBLISH", body) /\ Len(body) <= 3000 /\ body \in Octets
      /\ Len(body) = 5 + Len(msg.payload)
  BY <1>1, <1>2, PublishArrives, PublishIsRead
<1>4. msg.type = "PUBLISH" /\ Code["PUBLISH"] \in Nat
  BY DEF PublishSet, Code
<1>5. TypeOf(s) = Code["PUBLISH"] /\ IsCut(Body(s), body) /\ Wrong(Len(body))
  <2> HIDE DEF body
  <2> QED BY <1>3, <1>4, CutMade DEF Fits
<1>6. f \in Nat /\ FlagsOf(f).kind = SHORT
  <2>1. topic.kind \in 0 .. 2
    BY TopicBytes
  <2> QED BY <2>1, PublishFlags
<1>7. id \in Octets /\ Len(id) = 2
  BY <1>1 DEF TwoOctets, IsTwoOctets, NORMAL, PREDEFINED, SHORT
<1>8. body[1] = f
  <2>1. body = c
    BY DEF PublishBody
  <2>2. n \in Word /\ t \in Octets /\ Len(t) <= 1016
    BY DEF PublishSet, AnyText
  <2> HIDE DEF body, f, id, n, t
  <2>3. c[1] = f
    BY <1>6, <1>7, <2>2, PublishNoName
  <2> HIDE DEF c
  <2> QED BY <2>1, <2>3
<1>9. Wrong(5 + Len(msg.payload))
  BY ONLY <1>3, <1>5
<1> QED BY ONLY <1>5, <1>6, <1>8, <1>9

\* And what the gateway reads of it.
LEMMA CutPublish ==
    ASSUME NEW s, NEW body, IsCut(Body(s), body), TypeOf(s) = Code["PUBLISH"],
           FlagsOf(body[1]).kind = SHORT
    PROVE  /\ Sound(Gw!GetPacket(s)) /\ LeavesRoom(Gw!GetPacket(s))
           /\ ~TooLong(Gw!GetPacket(s))
<1> DEFINE b == Body(s)
           g == Gw!GetPacket(s)
           f == FlagsOf(b[1])
           name == SubSeq(b, 2, 3)
           payload == From(b, 6)
           p == [type |-> "PUBLISH", dup |-> f.dup, qos |-> f.qos, retain |-> f.retain,
                 msgID |-> readInt(b, 4), topic |-> Topic(SHORT, 0, name), payload |-> payload]
<1>1. /\ b[1] \in Byte /\ b[1] = body[1] /\ readInt(b, 4) \in Nat
      /\ name \in ShortBytes /\ Len(name) = 2 /\ payload \in ShortBytes /\ Len(payload) = 247
  <2> HIDE DEF b
  <2> QED BY CutOctets DEF b
<1>2. ~(f.qos = 3 /\ f.kind = NORMAL) /\ f.kind = SHORT
  BY <1>1 DEF NORMAL, SHORT
<1>3. g = p
  <2>1. g = Gw!MQTTSNDeserialize_publish(s)
    BY GatewayChooses
  <2>2. 6 + 0 = 6
    OBVIOUS
  <2> QED BY <1>2, <2>1, <2>2, SameForGateway DEF Gw!MQTTSNDeserialize_publish
<1>4. f.dup \in 0 .. 1 /\ f.qos \in 0 .. 3 /\ f.retain \in 0 .. 1
  BY <1>1, FlagsTaken
<1>5. /\ NameOf(p.topic, Names) = name /\ p.payload = payload /\ p.type = "PUBLISH"
      /\ p.dup = f.dup /\ p.qos = f.qos /\ p.retain = f.retain /\ p.msgID = readInt(b, 4)
  BY DEF NameOf, Topic
<1> DEFINE k == Len(NameOf(g.topic, Names))
           l == Len(g.payload)
           room == k + l <= 1019
           long == k + l > 1017
<1> HIDE DEF p, name, payload, b, g, f
<1>6. Sound(g)
  BY <1>1, <1>3, <1>4, <1>5 DEF Sound
<1>7. k = 2 /\ l = 247 /\ g.type = "PUBLISH"
  BY ONLY <1>1, <1>3, <1>5
<1>8. room /\ ~long
  <2> HIDE DEF k, l
  <2> QED BY ONLY <1>7
<1>9. LeavesRoom(g) <=> (g.type = "PUBLISH" /\ g.qos \notin 1 .. 2 => room)
  BY DEF LeavesRoom
<1>10. TooLong(g) <=> \/ g.type = "CONNECT" /\ Len(g.clientID) > 1009
                      \/ g.type = "WILLMSG" /\ Len(g.msg) > 1000
                      \/ g.type = "PUBLISH" /\ g.qos \in 1 .. 2 /\ long
  BY DEF TooLong
<1> HIDE DEF room, long
<1>11. LeavesRoom(g) /\ ~TooLong(g)
  BY ONLY <1>7, <1>8, <1>9, <1>10
<1> QED BY <1>6, <1>11 DEF g

\* A PUBLISH with the flags of a long name is dropped.
LEMMA LongIsDropped ==
    ASSUME NEW s, NEW body, IsCut(Body(s), body), TypeOf(s) = Code["PUBLISH"],
           NEW kind, FlagsOf(body[1]).kind = kind, NEW qos, FlagsOf(body[1]).qos = qos,
           kind = NORMAL /\ qos = 3
    PROVE  ~Passes(Gw!GetPacket(s))
<1> DEFINE b == Body(s)
           g == Gw!GetPacket(s)
           f == FlagsOf(b[1])
           long == f.qos = 3 /\ f.kind = NORMAL
           start == 6 + IF long THEN readInt(b, 2) ELSE 0
           topic == CASE long           -> Topic(NORMAL, 0, Gw!LongNameAt(s, start - 6))
                      [] f.kind = SHORT -> Topic(SHORT, 0, SubSeq(b, 2, 3))
                      [] OTHER          -> Topic(f.kind, readInt(b, 2), <<>>)
           p == [type |-> "PUBLISH", dup |-> f.dup, qos |-> f.qos, retain |-> f.retain,
                 msgID |-> readInt(b, 4), topic |-> topic, payload |-> From(b, start)]
<1>1. long /\ f.qos = 3 /\ f.kind # SHORT
  <2>1. b[1] = body[1]
    BY DEF IsCut
  <2> QED BY <2>1 DEF NORMAL, SHORT
<1>2. g = p
  <2>1. g = Gw!MQTTSNDeserialize_publish(s)
    BY GatewayChooses
  <2> QED BY <2>1, SameForGateway DEF Gw!MQTTSNDeserialize_publish
<1>3. p.type = "PUBLISH" /\ p.qos = 3 /\ p.topic.kind = NORMAL
  <2>1. topic = Topic(NORMAL, 0, Gw!LongNameAt(s, start - 6))
    <3> HIDE DEF p, f, b, g, start
    <3> QED BY <1>1
  <2>2. topic.kind = NORMAL
    BY <2>1 DEF Topic
  <2> HIDE DEF topic, f, b, start
  <2> QED BY <1>1, <2>2
<1>4. Client!LongName(p.qos, p.topic)
  BY <1>3, SameForClient DEF Client!LongName
<1> HIDE DEF p, g
<1>5. g.type = "PUBLISH" /\ Client!LongName(g.qos, g.topic)
  BY <1>2, <1>3, <1>4
<1>6. ~Passes(g)
  BY <1>5 DEF Passes
<1> QED BY <1>6 DEF g

\* A PUBLISH by a long name is dropped.
LEMMA CutLongIsDropped ==
    ASSUME NEW msg \in ClientMessages, msg.topic \in LongTopics, msg \in PublishSet(msg.topic),
           msg.qos = 3, Cut(ClientWriter(msg))
    PROVE  ~Passes(Gw!GetPacket(ClientWriter(msg)))
<1> DEFINE s == ClientWriter(msg)
           topic == msg.topic
           body == WithId(msg, msg.msgID)
           f == Flags(msg.dup, msg.qos, msg.retain, topic.kind)
<1>1. topic \in [kind : {NORMAL}, id : {0}, name : AnyText \ {<<>>}]
  BY TextsAreTexts DEF LongTopics, Topic
<1>2. Written(msg) /\ Len(IdHead(msg)) = 3 /\ IdHead(msg)[1] = f
  BY <1>1, PublishLongArrives
<1>3. msg.type = "PUBLISH" /\ msg.msgID \in Word /\ Code["PUBLISH"] \in Nat
  BY DEF PublishSet, Code
<1>4. /\ body \in Octets /\ Fits(body) /\ s = Packet("PUBLISH", body)
      /\ body[1] = f
  <2>1. Len(IdHead(msg)) >= 1
    BY <1>2
  <2> QED BY <1>2, <1>3, <2>1, WrittenIsMade
<1>5. TypeOf(s) = Code["PUBLISH"] /\ IsCut(Body(s), body)
  <2> HIDE DEF body
  <2> QED BY <1>3, <1>4, CutMade
<1>6. topic.kind = NORMAL /\ topic.kind \in 0 .. 2
  BY <1>1 DEF NORMAL
<1>7. FlagsOf(f).qos = msg.qos /\ FlagsOf(f).kind = topic.kind
  BY <1>6, PublishFlags
<1> DEFINE kind == topic.kind
           qos == msg.qos
<1>8. FlagsOf(body[1]).kind = kind /\ FlagsOf(body[1]).qos = qos
  BY <1>4, <1>7
<1>9. kind = NORMAL /\ qos = 3
  BY <1>6
<1> HIDE DEF s, topic, body, f, kind, qos
<1>10. ~Passes(Gw!GetPacket(s))
  BY <1>5, <1>8, <1>9, LongIsDropped
<1> QED BY <1>10 DEF s

\* The messages of type PUBLISH.
LEMMA PublishMessages ==
    ASSUME NEW msg \in ClientMessages, msg.type = "PUBLISH"
    PROVE  /\ msg.payload \in Texts /\ msg \in PublishSet(msg.topic)
           /\ \/ /\ msg.topic \in PublishTopics /\ (msg.qos = 0 => msg.msgID = 0)
                 /\ ~(msg.qos = 3 /\ msg.topic.kind = NORMAL)
              \/ msg.topic \in LongTopics /\ msg.qos = 3
<1>1. IsPublish(msg)
  BY QoSMinusIsPublished DEF ClientMessages, AcksWithTopic, Acks, IsPublish
<1> QED BY <1>1, PublishesAre

\* Whatever the gateway reads of a packet that is cut it drops or may translate, and neither this nor
\* what the client meant is too long.
LEMMA CutIsSound ==
    ASSUME NEW msg \in ClientMessages, ~OfTheWrongLength(msg), Cut(ClientWriter(msg)),
           Passes(Gw!GetPacket(ClientWriter(msg)))
    PROVE  /\ Sound(Gw!GetPacket(ClientWriter(msg))) /\ LeavesRoom(Gw!GetPacket(ClientWriter(msg)))
           /\ TooLong(Gw!GetPacket(ClientWriter(msg))) <=> TooLongForMqtt(msg)
<1> DEFINE s == ClientWriter(msg)
           g == Gw!GetPacket(s)
<1>1. TypeOf(s) = Code[msg.type] /\ ByCaller(msg)
  BY ClientMessagesArrive DEF Arrives, Sized
<1>2. \/ msg.type \in {"WILLTOPICUPD", "WILLMSGUPD", "SEARCHGW"}
      \/ msg.type = "UNSUBSCRIBE"
      \/ msg.type = "PUBLISH" /\ msg.topic.name # <<>>
  BY <1>1 DEF ByCaller
<1>3. CASE msg.type \in {"WILLTOPICUPD", "WILLMSGUPD", "SEARCHGW"}
  BY <1>1, <1>3, NotTranslated
<1>4. CASE msg.type = "UNSUBSCRIBE"
  <2>1. g.type = "UNSUBSCRIBE" /\ Sound(g)
    BY <1>1, <1>4, CutUnsubscribe, GatewayChooses DEF Gw!MQTTSNDeserialize_unsubscribe
  <2> HIDE DEF g
  <2>2. LeavesRoom(g)
    BY ONLY <2>1 DEF LeavesRoom
  <2>3. ~TooLong(g)
    BY ONLY <2>1 DEF TooLong
  <2>4. ~TooLongForMqtt(msg)
    BY ONLY <1>4 DEF TooLongForMqtt
  <2> QED BY <2>1, <2>2, <2>3, <2>4 DEF g
<1>5. CASE msg.type = "PUBLISH" /\ msg.topic.name # <<>>
  <2>1. /\ msg \in PublishSet(msg.topic) /\ msg.topic \in PublishTopics
        /\ msg.qos = 0 => msg.msgID = 0
        /\ ~(msg.qos = 3 /\ msg.topic.kind = NORMAL)
    BY <1>5, PublishMessages, CutLongIsDropped
  <2>2. msg.topic.kind = SHORT
    BY <1>5, <2>1, TwoOctetTopics DEF IsTwoOctets
  <2>3. /\ TypeOf(s) = Code["PUBLISH"] /\ IsCut(Body(s), PublishBody(msg))
        /\ Wrong(5 + Len(msg.payload))
        /\ FlagsOf(PublishBody(msg)[1]).kind = SHORT
    BY <2>1, <2>2, CutTwoOctets
  <2>4. Sound(g) /\ LeavesRoom(g) /\ ~TooLong(g)
    BY <2>3, CutPublish
  <2> DEFINE name == NameOfTopic(msg.topic)
             k == Len(name)
             l == Len(msg.payload)
             long == k + l > 1017
  <2>5. k \in Nat /\ k <= 4
    BY <2>1, PublishedName, NameLength
  <2>6. l \in Nat
    BY <2>1, LenIsNat DEF PublishSet, AnyText
  <2>7. ~long
    <3>1. Wrong(5 + l)
      BY <2>3
    <3> HIDE DEF k, l
    <3>2. 5 + l = 254
      BY <3>1 DEF Wrong
    <3> QED BY ONLY <2>5, <2>6, <3>2
  <2>8. TooLongForMqtt(msg) <=> \/ msg.type = "CONNECT" /\ Len(msg.clientID) > 1009
                                \/ msg.type = "WILLMSG" /\ Len(msg.msg) > 1000
                                \/ msg.type = "PUBLISH" /\ msg.qos \in 1 .. 2 /\ long
    BY DEF TooLongForMqtt
  <2> HIDE DEF long, g
  <2>9. ~TooLongForMqtt(msg)
    <3>1. msg.type = "PUBLISH"
      BY <1>5
    <3> QED BY ONLY <3>1, <2>7, <2>8
  <2> QED BY <2>4, <2>9 DEF g
<1> QED BY <1>2, <1>3, <1>4, <1>5

----------------------------------------------------------------------------
(* What the gateway sends to the broker fits, or it is too long. *)

\* What is too long is so in a message that is not cut.
LEMMA UnderstoodFits ==
    ASSUME NEW msg \in ClientMessages, Passes(Understood(msg))
    PROVE  /\ LeavesRoom(Understood(msg))
           /\ TooLong(Understood(msg)) <=> TooLongForMqtt(msg)
<1> DEFINE g == Understood(msg)
<1>0. ASSUME msg.type = "PUBLISH" => NameOf(msg.topic, Names) = NameOfTopic(msg.topic)
      PROVE  TooLong(msg) <=> TooLongForMqtt(msg)
  <2> DEFINE published == msg.type = "PUBLISH"
             connect == msg.type = "CONNECT" /\ Len(msg.clientID) > 1009
             will == msg.type = "WILLMSG" /\ Len(msg.msg) > 1000
             level == msg.qos \in 1 .. 2
             long(name) == Len(name) + Len(msg.payload) > 1017
             x == NameOf(msg.topic, Names)
             y == NameOfTopic(msg.topic)
  <2>1. TooLong(msg) <=> connect \/ will \/ (published /\ level /\ long(x))
    BY DEF TooLong
  <2>2. TooLongForMqtt(msg) <=> connect \/ will \/ (published /\ level /\ long(y))
    BY DEF TooLongForMqtt
  <2>3. published => x = y
    BY <1>0
  <2>4. published => (long(x) <=> long(y))
    <3> HIDE DEF x, y, published, long
    <3> QED BY ONLY <2>3, Zenon
  <2> HIDE DEF connect, will, level, long, published
  <2> QED BY ONLY <2>1, <2>2, <2>4
<1>1. g = msg \/ (msg.type = "PINGREQ" /\ g = [type |-> "PINGREQ"])
  BY DEF Passes, Translated, Rejected, Understood
<1>2. CASE msg.type = "PINGREQ" /\ g = [type |-> "PINGREQ"]
  <2>1. g.type = "PINGREQ"
    BY <1>2
  <2> HIDE DEF g
  <2>2. LeavesRoom(g)
    BY ONLY <2>1 DEF LeavesRoom
  <2>3. ~TooLong(g)
    BY ONLY <2>1 DEF TooLong
  <2>4. msg.type = "PINGREQ"
    BY <1>2
  <2>5. ~TooLongForMqtt(msg)
    BY ONLY <2>4 DEF TooLongForMqtt
  <2> QED BY <2>2, <2>3, <2>5 DEF g
<1>3. CASE g = msg /\ msg.type # "PUBLISH"
  <2>1. msg.type # "PUBLISH"
    BY <1>3
  <2>2. LeavesRoom(msg)
    BY ONLY <2>1 DEF LeavesRoom
  <2>3. TooLong(msg) <=> TooLongForMqtt(msg)
    BY <1>0, <2>1
  <2> QED BY <1>3, <2>2, <2>3
<1>4. CASE g = msg /\ msg.type = "PUBLISH"
  <2>1. msg.topic \in PublishTopics /\ msg.payload \in Texts
    <3>1. ASSUME msg.topic \in LongTopics, msg.qos = 3
          PROVE  FALSE
      <4>1. msg.topic.kind = NORMAL
        BY <3>1 DEF LongTopics, Topic
      <4>2. Client!LongName(msg.qos, msg.topic)
        BY <3>1, <4>1, SameForClient DEF Client!LongName
      <4>3. Passes(msg)
        BY <1>4
      <4> QED BY <1>4, <4>2, <4>3 DEF Passes
    <3> QED BY <1>4, <3>1, PublishMessages
  <2> DEFINE name == NameOf(msg.topic, Names)
             k == Len(name)
             l == Len(msg.payload)
  <2>2. NameOfTopic(msg.topic) = name /\ k \in Nat /\ k <= 4
    BY <2>1, PublishedName, NameLength
  <2>3. l \in Nat /\ l <= 1015
    BY <2>1, ShorterTexts, TextsAreTexts, LenIsNat DEF AnyText
  <2>4. TooLong(msg) <=> TooLongForMqtt(msg)
    <3>1. NameOfTopic(msg.topic) = NameOf(msg.topic, Names)
      BY <2>2
    <3> QED BY <1>0, <3>1
  <2>5. k + l <= 1019
    <3> HIDE DEF k, l
    <3> QED BY ONLY <2>2, <2>3
  <2>6. LeavesRoom(msg)
    BY <2>5 DEF LeavesRoom
  <2> QED BY <1>4, <2>4, <2>6
<1> QED BY <1>1, <1>2, <1>3, <1>4

\* The connection to the broker is given a packet that is too long for its buffer exactly when the
\* message of the client was.
LEMMA TranslationSize ==
    ASSUME NEW msg \in ClientMessages, ~OfTheWrongLength(msg),
           Passes(Gw!GetPacket(ClientWriter(msg)))
    PROVE  Overruns(send(ToMqtt(Gw!GetPacket(ClientWriter(msg))))) <=> TooLongForMqtt(msg)
<1> DEFINE g == Gw!GetPacket(ClientWriter(msg))
<1>1. CASE Cut(ClientWriter(msg))
  <2>1. Sound(g) /\ LeavesRoom(g) /\ (TooLong(g) <=> TooLongForMqtt(msg))
    BY <1>1, CutIsSound
  <2> HIDE DEF g
  <2>2. Overruns(send(ToMqtt(g))) <=> TooLongForMqtt(msg)
    BY <2>1, TranslatedBytes
  <2> QED BY <2>2 DEF g
<1>2. CASE ~Cut(ClientWriter(msg))
  <2>1. g = Understood(msg)
    BY <1>2, ClientMessagesArrive DEF Arrives
  <2>2. Sound(g) /\ LeavesRoom(g) /\ (TooLong(g) <=> TooLongForMqtt(msg))
    BY <2>1, UnderstoodIsSound, UnderstoodFits
  <2> HIDE DEF g
  <2>3. Overruns(send(ToMqtt(g))) <=> TooLongForMqtt(msg)
    BY <2>2, TranslatedBytes
  <2> QED BY <2>3 DEF g
<1> QED BY <1>1, <1>2

\* Every set function of the gateway and every sender of a client finds room in its buffer, and a
\* packet is written beyond the buffer of a sender of a client, or beyond the one the gateway's
\* connection to the broker copies it to, exactly for the texts that are of the wrong length or
\* too long, whatever the ids and the lengths (BuffersSuffice).
THEOREM BuffersAlwaysSuffice == Spec => []BuffersSuffice
<1>1. WayInv /\ BrokerWayInv => BuffersSuffice
  <2> SUFFICES ASSUME WayInv, BrokerWayInv
               PROVE  BuffersSuffice
    OBVIOUS
  <2>1. at \in {"to gateway", "to client", "answered"} => octets # <<>>
    <3>1. CASE at = "to gateway"
      BY <3>1, WrittenIsOctets DEF WayInv
    <3>2. CASE at = "to client"
      BY <3>2, GatewayMessagesTold DEF WayInv, HasRoom
    <3>3. CASE at = "answered"
      BY <3>3, BrokerMessagesAnswered DEF BrokerWayInv, HasRoom, Answer
    <3> QED BY <3>1, <3>2, <3>3
  <2>2. ASSUME at \in {"overrun", "to broker"}, at = "overrun" => got # None
        PROVE  Overruns(send(ToMqtt(got))) <=> TooLongForMqtt(m)
    <3>1. m \in ClientMessages /\ ~OfTheWrongLength(m) /\ WasTranslated
      BY <2>2 DEF WayInv
    <3> QED BY <3>1, TranslationSize DEF WasTranslated
  <2>3. at = "overrun" => IF got = None THEN OfTheWrongLength(m) ELSE TooLongForMqtt(m)
    <3>1. ASSUME at = "overrun", got = None
          PROVE  OfTheWrongLength(m)
      BY <3>1 DEF WayInv
    <3>2. ASSUME at = "overrun", got # None
          PROVE  TooLongForMqtt(m)
      <4>1. Overruns(send(ToMqtt(got)))
        BY <3>2 DEF WayInv
      <4>2. Overruns(send(ToMqtt(got))) <=> TooLongForMqtt(m)
        BY <2>2, <3>2
      <4> QED BY ONLY <4>1, <4>2
    <3> QED BY <3>1, <3>2
  <2>4. at = "to gateway" => ~OfTheWrongLength(m)
    BY DEF WayInv
  <2>5. at = "to broker" => ~TooLongForMqtt(m)
    <3> SUFFICES ASSUME at = "to broker" PROVE ~TooLongForMqtt(m)
      OBVIOUS
    <3>1. ~Overruns(send(ToMqtt(got)))
      BY DEF WayInv
    <3>2. at # "overrun"
      OBVIOUS
    <3>3. Overruns(send(ToMqtt(got))) <=> TooLongForMqtt(m)
      BY <2>2, <3>2
    <3> QED BY ONLY <3>1, <3>3
  <2> QED BY <2>1, <2>3, <2>4, <2>5 DEF BuffersSuffice
<1> QED BY <1>1, WayAlways, BrokerWayAlways, PTL

Places == {"nowhere", "to gateway", "forwarded", "gateway", "to broker", "broker",
           "from broker", "answering", "answered", "to client", "client", "told", "overrun"}

\* The octets in the air.
OctetInv == octets \in Bytes /\ at \in Places

\* What is in the air is made of octets: no writer, no wrapper and no translation makes a number
\* of it that a char does not hold, whatever the ids and the lengths, and also when the gateway
\* translates what it has read of a packet that was cut (TypeOK).
THEOREM OctetsAlways == Spec => []TypeOK
<1>1. Init => OctetInv
  BY FewBytes DEF Init, OctetInv, Places
<1>2. WayInv /\ BrokerWayInv /\ WayInv' /\ OctetInv /\ [Next]_vars => OctetInv'
  <2> SUFFICES ASSUME WayInv, BrokerWayInv, WayInv', OctetInv, [Next]_vars
               PROVE  OctetInv'
    OBVIOUS
  <2>1. CASE ClientWrites
    <3>1. at' \in {"to gateway", "overrun"} /\ m' \in ClientMessages /\ octets' = ClientWriter(m')
      BY <2>1 DEF ClientWrites, Put
    <3> QED BY <3>1, ClientWriterBytes DEF OctetInv, Places
  <2>2. CASE ForwarderWraps
    <3>1. at' = "forwarded" /\ \E n \in {1, 4} : octets' = Gw!Encapsulate(0, Text(n), octets)
      BY <2>2 DEF ForwarderWraps, Move
    <3> QED BY <3>1, ForwardedBytes DEF OctetInv, Places
  <2>3. CASE GatewayUnwraps
    <3>1. at' = "to gateway"
      BY <2>3 DEF GatewayUnwraps, Move
    <3>2. m' \in ClientMessages /\ octets' = ClientWriter(m')
      BY <3>1 DEF WayInv
    <3> QED BY <3>1, <3>2, ClientWriterBytes DEF OctetInv, Places
  <2>4. CASE GatewayReads \/ BrokerReceives \/ GatewayReceives \/ ClientReads
    <3>1. octets' = octets /\ at' \in Places
      BY <2>4 DEF GatewayReads, BrokerReceives, GatewayReceives, ClientReads, Move, Places
    <3> QED BY <3>1 DEF OctetInv
  <2>5. CASE GatewayTranslates
    <3>1. /\ at = "gateway" /\ at' \in {"to broker", "overrun"}
          /\ octets' = getPacketData(ToMqtt(got)) /\ Passes(got)
      BY <2>5 DEF GatewayTranslates, Put, Passes
    <3>2. m \in ClientMessages /\ got = Gw!GetPacket(ClientWriter(m))
      BY <3>1 DEF WayInv
    <3>3. ASSUME Cut(ClientWriter(m))
          PROVE  Sound(got)
      <4>1. Passes(Gw!GetPacket(ClientWriter(m))) /\ ~OfTheWrongLength(m)
        BY <3>1, <3>2 DEF WayInv
      <4>2. Sound(Gw!GetPacket(ClientWriter(m)))
        BY <3>2, <3>3, <4>1, CutIsSound
      <4> QED BY <3>2, <4>2
    <3>4. ASSUME ~Cut(ClientWriter(m))
          PROVE  Sound(got)
      <4>1. Arrives(m, Understood(m))
        BY <3>2, ClientMessagesArrive
      <4>2. got = Understood(m)
        BY <3>2, <3>4, <4>1 DEF Arrives
      <4>3. Sound(Understood(m))
        BY <3>1, <3>2, <4>2, UnderstoodIsSound
      <4> QED BY <4>2, <4>3
    <3>5. Sound(got)
      BY <3>3, <3>4
    <3>6. octets' \in Bytes
      BY <3>1, <3>5, TranslatedBytes
    <3> QED BY <3>1, <3>6 DEF OctetInv, Places
  <2>6. CASE BrokerSends
    <3>1. at' = "from broker" /\ m' \in BrokerMessages /\ octets' = BrokerWrites(m')
      BY <2>6 DEF BrokerSends, Move
    <3> QED BY <3>1, BrokerWritesBytes DEF OctetInv, Places
  <2>7. CASE GatewayAnswers
    <3>1. at = "answering" /\ at' = "answered" /\ octets' = Gw!SetPacket(ToSn(got))
      BY <2>7 DEF GatewayAnswers, Move
    <3>2. m \in BrokerMessages /\ got = Heard(m)
      BY <3>1 DEF BrokerWayInv
    <3> QED BY <3>1, <3>2, AnswerBytes DEF OctetInv, Places
  <2>8. CASE GatewayWrites
    <3>1. at' = "to client" /\ m' \in GatewayMessages /\ octets' = Gw!SetPacket(m')
      BY <2>8 DEF GatewayWrites, Move
    <3> QED BY <3>1, GatewayWriterBytes DEF OctetInv, Places
  <2>9. CASE UNCHANGED vars
    BY <2>9 DEF vars, OctetInv
  <2> QED BY <2>1, <2>2, <2>3, <2>4, <2>5, <2>6, <2>7, <2>8, <2>9 DEF Next
<1>3. OctetInv => TypeOK
  BY BytesAreOctets DEF OctetInv, TypeOK, Places
<1> QED BY <1>1, <1>2, <1>3, WayAlways, BrokerWayAlways, PTL DEF Spec
================================================================================
