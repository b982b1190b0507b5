-------------------------- MODULE TickParserProofs --------------------------
(***************************************************************************)
(* Proofs about TickParser: a message of any number of packets is cut at   *)
(* its seams, every byte of a packet is read once, and a tick tells the    *)
(* mode it was sent in.  FlattenSeq lays out the bytes: the module         *)
(* Induction says what it computes.                                        *)
(***************************************************************************)
EXTENDS TickParser, Induction, FiniteSetTheorems

-----------------------------------------------------------------------------
(* The bytes of a message.                                                 *)

Data == Nat \cup (Nat \X Nat)

Size(msg, p) == SizeOf(msg[p].segment, msg[p].mode)

Frame(msg, p) == Int16(Len(Payload(msg, p))) \o Payload(msg, p)

Frames(msg) == [p \in DOMAIN msg |-> Frame(msg, p)]

\* Where the p-th packet of msg ends.
Seam(msg, p) == IF p = 0 THEN 2 ELSE 2 + Len(Joined(Frames(msg))[p])

\* A payload is as long as the size of its packet, which is one of six.
LEMMA Payloads ==
  ASSUME NEW msg \in Seq(ServerPackets), NEW p \in 1..Len(msg)
  PROVE  /\ Size(msg, p) \in {8, 12, 28, 32, 44, 184}
         /\ Payload(msg, p) \in Seq(Data)
         /\ Len(Payload(msg, p)) = Size(msg, p)
         /\ \A k \in 1..Size(msg, p) : Payload(msg, p)[k] = <<p, k - 1>>
<1>0. msg[p] \in ServerPackets
  OBVIOUS
<1>1. msg[p].mode \in Modes
  BY <1>0 DEF ServerPackets
<1>2. Size(msg, p) \in {8, 12, 28, 32, 44, 184}
  BY <1>1 DEF Size, SizeOf, Modes, LTP_PACKET_SIZE, INDICES_QUOTE_PACKET_SIZE,
              INDICES_FULL_PACKET_SIZE, QUOTE_PACKET_SIZE, FULL_PACKET_SIZE
<1>3. Payload(msg, p) = [k \in 1..Size(msg, p) |-> <<p, k - 1>>]
  BY DEF Payload, Size
<1> HIDE DEF Size
<1>4. \A k \in 1..Size(msg, p) : <<p, k - 1>> \in Data
  BY <1>2 DEF Data
<1>5. \A n \in Nat : \A f : (f = [k \in 1..n |-> <<p, k - 1>>] /\ \A k \in 1..n : <<p, k - 1>> \in Data)
                              => f \in Seq(Data) /\ Len(f) = n
  OBVIOUS
<1>6. Payload(msg, p) \in Seq(Data) /\ Len(Payload(msg, p)) = Size(msg, p)
  BY <1>2, <1>3, <1>4, <1>5
<1>7. \A k \in 1..Size(msg, p) : Payload(msg, p)[k] = <<p, k - 1>>
  BY <1>3
<1> QED BY <1>2, <1>6, <1>7

\* A packet in a message: its length, then its payload.
LEMMA FramesAreWhole ==
  ASSUME NEW msg \in Seq(ServerPackets), NEW p \in 1..Len(msg)
  PROVE  /\ Frame(msg, p) \in Seq(Data)
         /\ Len(Frame(msg, p)) = 2 + Size(msg, p)
         /\ Frame(msg, p)[1] = 0
         /\ Frame(msg, p)[2] = Size(msg, p)
         /\ \A k \in 1..Size(msg, p) : Frame(msg, p)[2 + k] = <<p, k - 1>>
<1> DEFINE z == Size(msg, p)
           a == Int16(z)
           b == Payload(msg, p)
<1>1. /\ z \in {8, 12, 28, 32, 44, 184} /\ b \in Seq(Data) /\ Len(b) = z
      /\ \A k \in 1..z : b[k] = <<p, k - 1>>
  BY Payloads
<1>2. a \in Seq(Data) /\ Len(a) = 2 /\ a[1] = 0 /\ a[2] = z
  <2> HIDE DEF z
  <2>1. z \div 256 = 0 /\ z % 256 = z /\ z \in Nat
    BY <1>1
  <2> QED BY <2>1 DEF Int16, Data
<1>3. Frame(msg, p) = a \o b
  BY <1>1 DEF Frame
<1> HIDE DEF a, b, z
<1>0. a \in Seq(Data) /\ b \in Seq(Data)
  BY <1>1, <1>2
<1>4. Joins(Data, a, b)
  BY <1>0, Join
<1>5. (a \o b)[1] = 0 /\ (a \o b)[2] = z
  BY <1>2, <1>4 DEF Joins
<1>6. \A x \in 1..z : (a \o b)[2 + x] = <<p, x - 1>>
  BY <1>1, <1>2, <1>4 DEF Joins
<1>7. Len(a \o b) = 2 + z
  BY <1>1, <1>2, <1>4 DEF Joins
<1>8. a \o b \in Seq(Data)
  BY <1>4 DEF Joins
<1> QED BY <1>8, <1>3, <1>4, <1>5, <1>6, <1>7 DEF z

\* The packets of a message follow each other.
LEMMA FramesAreJoined ==
  ASSUME NEW msg \in Seq(ServerPackets), Len(msg) > 0
  PROVE  LET J == Joined(Frames(msg))
             n == Len(msg)
         IN  /\ FlattenSeq(Frames(msg)) = J[n]
             /\ J[1] = Frame(msg, 1)
             /\ \A p \in 1..(n - 1) : J[p + 1] = J[p] \o Frame(msg, p + 1)
             /\ Grows(Data, J, n)
<1> DEFINE n == Len(msg)
           F == Frames(msg)
<1>1. n \in Nat \ {0} /\ DOMAIN msg = 1..n
  OBVIOUS
<1>2. \A p \in 1..n : F[p] = Frame(msg, p) /\ F[p] \in Seq(Data)
  BY <1>1, FramesAreWhole DEF Frames
<1>3. Len(F) = n
  BY <1>1 DEF Frames
<1>4. \A p \in 1..(n - 1) : p + 1 \in 1..n
  BY <1>1
<1>5. 1 \in 1..n
  BY <1>1
<1> HIDE DEF n, F
<1>6. /\ Joined(F)[1] = F[1]
      /\ \A p \in 1..(n - 1) : Joined(F)[p + 1] = Joined(F)[p] \o F[p + 1]
  BY <1>1, <1>3, JoinedTurns
<1>7. Grows(Data, Joined(F), n)
  BY <1>1, <1>2, <1>3, JoinedGrows
<1>8. FlattenSeq(F) = Joined(F)[n]
  BY <1>1, <1>3, JoinedIsDefined
<1> QED BY <1>2, <1>4, <1>5, <1>6, <1>7, <1>8 DEF n, F

\* The packet after the p-th begins where that ends.
LaidOut(msg, p) ==
  /\ Seam(msg, p) \in Nat
  /\ Seam(msg, p + 1) = Seam(msg, p) + 2 + Size(msg, p + 1)
  /\ Seam(msg, p + 1) <= Len(Bytes(msg))
  /\ Bytes(msg)[Seam(msg, p) + 1] = 0
  /\ Bytes(msg)[Seam(msg, p) + 2] = Size(msg, p + 1)
  /\ \A k \in 1..Size(msg, p + 1) :
        Bytes(msg)[Seam(msg, p) + 2 + k] = <<p + 1, k - 1>>

\* The first two bytes of a message count its packets; the rest are what is
\* joined of them.
LEMMA MessagesHaveAHead ==
  ASSUME NEW msg \in Seq(ServerPackets)
  PROVE  LET b    == Bytes(msg)
             n    == Len(msg)
             body == FlattenSeq(Frames(msg))
         IN  /\ b \in Seq(Data)
             /\ b[1] = n \div 256 /\ b[2] = n % 256
             /\ body \in Seq(Data)
             /\ Len(b) = 2 + Len(body)
             /\ \A x \in 1..Len(body) : b[2 + x] = body[x]
<1> DEFINE n == Len(msg)
           head == Int16(n)
           body == FlattenSeq(Frames(msg))
<1>1. n \in Nat /\ n \div 256 \in Nat /\ n % 256 \in Nat
  OBVIOUS
<1>2. body \in Seq(Data)
  <2>1. CASE n = 0
    <3>1. Len(Frames(msg)) = 0 /\ Frames(msg) = <<>>
      BY <2>1 DEF Frames
    <3>2. body = <<>>
      BY <3>1 DEF FlattenSeq
    <3> QED BY <3>2
  <2>2. CASE n > 0
    <3>1. body = Joined(Frames(msg))[n] /\ Grows(Data, Joined(Frames(msg)), n)
      BY <2>2, FramesAreJoined
    <3>2. n \in 1..n
      BY <1>1, <2>2
    <3> QED BY <3>1, <3>2 DEF Grows
  <2> QED BY <1>1, <2>1, <2>2
<1>3. head \in Seq(Data) /\ Len(head) = 2 /\ head[1] = n \div 256 /\ head[2] = n % 256
  BY <1>1 DEF Int16, Data
<1>4. Bytes(msg) = head \o body
  BY DEF Bytes, Frames, Frame
<1> HIDE DEF head, body, n
<1>5. Joins(Data, head, body)
  BY <1>2, <1>3, Join
<1>6. 1 \in 1..2 /\ 2 \in 1..2
  OBVIOUS
<1>7. Bytes(msg)[1] = n \div 256 /\ Bytes(msg)[2] = n % 256
  BY <1>3, <1>4, <1>5, <1>6 DEF Joins
<1>8. \A x \in 1..Len(body) : Bytes(msg)[2 + x] = body[x]
  BY <1>3, <1>4, <1>5 DEF Joins
<1>9. Bytes(msg) \in Seq(Data) /\ Len(Bytes(msg)) = 2 + Len(body)
  BY <1>3, <1>4, <1>5 DEF Joins
<1> QED BY <1>2, <1>7, <1>8, <1>9 DEF n, body

\* After the last packet a message ends.
LEMMA MessageEnds ==
  ASSUME NEW msg \in Seq(ServerPackets)
  PROVE  Seam(msg, Len(msg)) = Len(Bytes(msg))
<1> DEFINE n == Len(msg)
           body == FlattenSeq(Frames(msg))
<1>1. n \in Nat
  OBVIOUS
<1>2. Len(Bytes(msg)) = 2 + Len(body)
  BY MessagesHaveAHead
<1>3. CASE n = 0
  <2>1. Len(Frames(msg)) = 0 /\ Frames(msg) = <<>>
    BY <1>3 DEF Frames
  <2>2. Len(body) = 0
    BY <2>1 DEF FlattenSeq
  <2> QED BY <1>2, <1>3, <2>2 DEF Seam
<1>4. CASE n > 0
  <2>1. body = Joined(Frames(msg))[n]
    BY <1>4, FramesAreJoined
  <2>2. Seam(msg, n) = 2 + Len(Joined(Frames(msg))[n])
    BY <1>4 DEF Seam
  <2> HIDE DEF body, n
  <2>3. Seam(msg, n) = Len(Bytes(msg))
    BY <1>2, <2>1, <2>2
  <2> QED BY <2>3 DEF n
<1> QED BY <1>1, <1>3, <1>4

\* Every packet of a message is laid out so.
LEMMA PacketsAreLaidOut ==
  ASSUME NEW msg \in Seq(ServerPackets), NEW p \in 0..(Len(msg) - 1)
  PROVE  LaidOut(msg, p)
<1> DEFINE n == Len(msg)
           J == Joined(Frames(msg))
           q == p + 1
           start == IF p = 0 THEN 0 ELSE Len(J[p])
           b == Bytes(msg)
           z == Size(msg, q)
<1>1. n \in Nat /\ n > 0 /\ q \in 1..n /\ p \in Nat /\ (p # 0 => p \in 1..(n - 1) /\ p \in 1..n)
  OBVIOUS
<1>2. /\ Frame(msg, q) \in Seq(Data)
      /\ Len(Frame(msg, q)) = 2 + z
      /\ Frame(msg, q)[1] = 0
      /\ Frame(msg, q)[2] = z
      /\ \A k \in 1..z : Frame(msg, q)[2 + k] = <<q, k - 1>>
  BY <1>1, FramesAreWhole
<1>3. z \in Nat
  BY <1>1, Payloads
<1>4. /\ FlattenSeq(Frames(msg)) = J[n]
      /\ J[1] = Frame(msg, 1)
      /\ p # 0 => J[q] = J[p] \o Frame(msg, q)
      /\ Grows(Data, J, n)
  BY <1>1, FramesAreJoined
<1>5. /\ Len(b) = 2 + Len(J[n])
      /\ \A x \in 1..Len(J[n]) : b[2 + x] = J[n][x]
  BY <1>4, MessagesHaveAHead
<1>6. /\ J[q] \in Seq(Data) /\ J[n] \in Seq(Data)
      /\ Len(J[q]) <= Len(J[n])
      /\ \A x \in 1..Len(J[q]) : J[n][x] = J[q][x]
  <2>1. n \in 1..n
    BY <1>1
  <2> HIDE DEF J, n, q
  <2> QED BY <1>1, <1>4, <2>1 DEF Grows
<1>7. /\ start \in Nat
      /\ Len(J[q]) = start + 2 + z
      /\ \A x \in 1..(2 + z) : J[q][start + x] = Frame(msg, q)[x]
  <2>1. CASE p = 0
    <3>1. q = 1 /\ J[q] = Frame(msg, q) /\ start = 0
      BY <1>4, <2>1
    <3> HIDE DEF J, q, z, start
    <3> QED BY <1>2, <1>3, <3>1
  <2>2. CASE p # 0
    <3>1. J[p] \in Seq(Data)
      <4> HIDE DEF J, n
      <4> QED BY <1>1, <1>4, <2>2 DEF Grows
    <3>2. start = Len(J[p]) /\ J[q] = J[p] \o Frame(msg, q)
      BY <1>4, <2>2
    <3> HIDE DEF J, q, z, start
    <3>3. Joins(Data, J[p], Frame(msg, q))
      BY <1>2, <3>1, Join
    <3>4. start \in Nat /\ Len(J[q]) = start + (2 + z)
      BY <1>2, <3>2, <3>3 DEF Joins
    <3>5. \A x \in 1..(2 + z) : J[q][start + x] = Frame(msg, q)[x]
      BY <1>2, <3>2, <3>3 DEF Joins
    <3>6. start + (2 + z) = start + 2 + z
      BY <1>3, <3>4
    <3> QED BY <3>4, <3>5, <3>6
  <2> QED BY <2>1, <2>2
<1>8. Seam(msg, p) = 2 + start /\ Seam(msg, q) = 2 + Len(J[q])
  BY <1>1 DEF Seam
<1>9. p + 1 = q
  OBVIOUS
<1> HIDE DEF n, J, q, start, b, z
<1>10. \A x \in 1..(2 + z) : b[2 + start + x] = Frame(msg, q)[x]
  <2> TAKE x \in 1..(2 + z)
  <2>1. start + x \in 1..Len(J[q]) /\ start + x \in 1..Len(J[n]) /\ 2 + start + x = 2 + (start + x)
    <3>1. Len(J[q]) \in Nat /\ Len(J[n]) \in Nat
      BY <1>6
    <3> QED BY <1>3, <1>6, <1>7, <3>1
  <2> QED BY <1>5, <1>6, <1>7, <2>1
<1>11. b[2 + start + 1] = 0 /\ b[2 + start + 2] = z
  BY <1>2, <1>3, <1>10
<1>12. \A k \in 1..z : b[2 + start + 2 + k] = <<q, k - 1>>
  <2> TAKE k \in 1..z
  <2>1. 2 + k \in 1..(2 + z) /\ 2 + start + 2 + k = 2 + start + (2 + k)
    BY <1>3, <1>7
  <2> QED BY <1>2, <1>10, <2>1
<1>13. 2 + start \in Nat /\ 2 + Len(J[q]) = 2 + start + 2 + z /\ 2 + Len(J[q]) <= Len(b)
  <2>1. Len(J[q]) \in Nat /\ Len(J[n]) \in Nat
    BY <1>6
  <2> QED BY <1>3, <1>5, <1>6, <1>7, <2>1
<1> QED BY <1>8, <1>9, <1>11, <1>12, <1>13 DEF LaidOut, b, z

-----------------------------------------------------------------------------
(* splitPackets.                                                           *)

\* The cursor is where the last packet that was cut ends, and the packets are
\* those of the message, in its order.
Seams ==
  /\ message \in Seq(ServerPackets)
  /\ packets \in Seq(Seq(Data))
  /\ Len(packets) <= Len(message)
  /\ packetLengthStartIdx = Seam(message, Len(packets))
  /\ \A p \in 1..Len(packets) : packets[p] = Payload(message, p)

\* A message of fewer than 2^15 packets says how many there are; no message
\* says there are more.
LEMMA CountsItsPackets ==
  ASSUME NEW msg \in Seq(ServerPackets)
  PROVE  unpackInt16(Bytes(msg), 0) \in Int /\ unpackInt16(Bytes(msg), 0) <= Len(msg)
<1> DEFINE n == Len(msg)
<1>1. n \in Nat /\ Bytes(msg)[1] = n \div 256 /\ Bytes(msg)[2] = n % 256
  BY MessagesHaveAHead
<1> HIDE DEF n
<1>2. 256 * (n \div 256) + (n % 256) = n
  BY <1>1
<1>3. unpackInt16(Bytes(msg), 0) = IF n >= 2^15 THEN n - 2^16 ELSE n
  BY <1>1, <1>2 DEF unpackInt16
<1>4. n - 2^16 \in Int /\ n - 2^16 <= n
  BY <1>1
<1> QED BY <1>1, <1>3, <1>4 DEF n

\* What is cut out of a sequence.
LEMMA Cut ==
  ASSUME NEW S, NEW b \in Seq(S), NEW s \in Nat, NEW z \in Nat,
         s + z <= Len(b)
  PROVE  SubSeq(b, s + 1, s + z) = [k \in 1..z |-> b[s + k]]
<1>1. SubSeq(b, s + 1, s + z) =
        [i \in 1..(1 + (s + z) - (s + 1)) |-> b[i + (s + 1) - 1]]
  OBVIOUS
<1>2. 1 + (s + z) - (s + 1) = z /\ \A i \in 1..z : i + (s + 1) - 1 = s + i
  OBVIOUS
<1> QED BY <1>1, <1>2

\* At the end of a packet, the next length is read and the next payload cut.
LEMMA CutsThePacket ==
  ASSUME NEW msg \in Seq(ServerPackets), NEW p \in 0..(Len(msg) - 1)
  PROVE  LET s == Seam(msg, p)
             z == unpackInt16(Bytes(msg), s)
         IN  /\ NextStart(s + 1, z) = Seam(msg, p + 1)
             /\ Slice(Bytes(msg), s + 1 + 1, NextStart(s + 1, z) - 1) =
                  Payload(msg, p + 1)
<1> DEFINE s == Seam(msg, p)
           b == Bytes(msg)
           z == Size(msg, p + 1)
<1>1. p + 1 \in 1..Len(msg)
  OBVIOUS
<1>2. /\ z \in {8, 12, 28, 32, 44, 184}
      /\ Payload(msg, p + 1) = [k \in 1..z |-> <<p + 1, k - 1>>]
  BY <1>1, Payloads DEF Payload, Size
<1>3. /\ s \in Nat /\ Seam(msg, p + 1) = s + 2 + z /\ s + 2 + z <= Len(b)
      /\ b[s + 1] = 0 /\ b[s + 2] = z
      /\ \A k \in 1..z : b[s + 2 + k] = <<p + 1, k - 1>>
  BY PacketsAreLaidOut DEF LaidOut
<1>4. b \in Seq(Data)
  BY MessagesHaveAHead
<1> HIDE DEF b, z
<1> HIDE DEF s
<1>5. unpackInt16(b, s) = z
  BY <1>2, <1>3 DEF unpackInt16
<1>6. NextStart(s + 1, z) = s + 2 + z
  BY <1>2, <1>3 DEF NextStart
<1>7. Slice(b, s + 1 + 1, s + 2 + z - 1) = [k \in 1..z |-> <<p + 1, k - 1>>]
  <2>1. Slice(b, s + 1 + 1, s + 2 + z - 1) = SubSeq(b, s + 3, s + 2 + z)
    BY <1>2, <1>3 DEF Slice
  <2>2. \A r \in Nat : r + z <= Len(b) =>
          SubSeq(b, r + 1, r + z) = [k \in 1..z |-> b[r + k]]
    BY <1>2, <1>4, Cut
  <2>3. SubSeq(b, s + 2 + 1, s + 2 + z) = [k \in 1..z |-> b[s + 2 + k]]
    BY <1>2, <1>3, <2>2
  <2>4. s + 2 + 1 = s + 3
    BY <1>3
  <2> QED BY <1>3, <2>1, <2>3, <2>4
<1> QED BY <1>2, <1>3, <1>5, <1>6, <1>7 DEF s, b

\* The invariant holds of every message, whatever the bound on its packets.
LEMMA SeamsInductive == Spec => []Seams
<1>1. Init => Seams
  <2> SUFFICES ASSUME Init PROVE Seams
    OBVIOUS
  <2>1. message \in Seq(ServerPackets)
    BY DEF Init, SeqOf
  <2> QED BY <2>1 DEF Init, Seams, Seam
<1>2. Seams /\ [Next]_vars => Seams'
  <2> SUFFICES ASSUME Seams, [Next]_vars PROVE Seams'
    OBVIOUS
  <2>1. CASE splitPackets
    <3> DEFINE k == Len(packets)
               cut == Payload(message, k + 1)
    <3>1. /\ k \in Nat /\ k < Len(message) /\ message \in Seq(ServerPackets)
          /\ message' = message
      <4>1. /\ unpackInt16(Bytes(message), 0) \in Int
            /\ unpackInt16(Bytes(message), 0) <= Len(message)
        BY CountsItsPackets DEF Seams
      <4>2. k < unpackInt16(Bytes(message), 0)
        BY <2>1 DEF splitPackets
      <4> QED BY <2>1, <4>1, <4>2 DEF Seams, splitPackets
    <3>2. k \in 0..(Len(message) - 1) /\ k + 1 \in 1..Len(message)
      BY <3>1
    <3>3. /\ packetLengthStartIdx' = Seam(message, k + 1)
          /\ packets' = Append(packets, cut)
      <4>1. packetLengthStartIdx = Seam(message, k)
        BY DEF Seams
      <4> QED BY <2>1, <3>1, <3>2, <4>1, CutsThePacket DEF splitPackets
    <3>4. cut \in Seq(Data)
      BY <3>1, <3>2, Payloads
    <3>5. /\ packets \in Seq(Seq(Data))
          /\ \A p \in 1..k : packets[p] = Payload(message, p)
      BY DEF Seams
    <3> HIDE DEF cut
    <3>6. /\ packets' \in Seq(Seq(Data)) /\ Len(packets') = k + 1
          /\ \A p \in 1..(k + 1) : packets'[p] = IF p = k + 1 THEN cut ELSE packets[p]
      BY <3>3, <3>4, <3>5
    <3>7. \A p \in 1..(k + 1) : packets'[p] = Payload(message, p)
      <4> TAKE p \in 1..(k + 1)
      <4>1. p # k + 1 => p \in 1..k
        BY <3>1
      <4>2. packets'[p] = IF p = k + 1 THEN cut ELSE packets[p]
        BY <3>6
      <4> QED BY <3>5, <4>1, <4>2 DEF cut
    <3> HIDE DEF k
    <3> QED BY <3>1, <3>2, <3>3, <3>6, <3>7 DEF Seams
  <2>2. CASE parseBinaryMessage
    BY <2>2 DEF Seams, parseBinaryMessage
  <2>3. CASE UNCHANGED vars
    BY <2>3 DEF Seams, vars
  <2> QED BY <2>1, <2>2, <2>3 DEF Next
<1> QED BY <1>1, <1>2, PTL DEF Spec

\* The packets that are cut are those the server put in: the loop of
\* splitPackets never leaves the seams of the message and ends with it.
THEOREM PacketsAreCutAtTheSeams == Spec => []CutsAtTheSeams
<1>1. Seams => CutsAtTheSeams
  <2> SUFFICES ASSUME Seams PROVE CutsAtTheSeams
    OBVIOUS
  <2>1. packets = [p \in 1..Len(packets) |-> Payload(message, p)]
    BY DEF Seams
  <2>2. Seam(message, Len(message)) = Len(Bytes(message))
    BY MessageEnds DEF Seams
  <2> QED BY <2>1, <2>2 DEF Seams, CutsAtTheSeams
<1> QED BY <1>1, SeamsInductive, PTL

-----------------------------------------------------------------------------
(* The fields of a packet.                                                 *)

IndexNames == <<"instrumentToken", "lastPrice", "high", "low", "open", "close",
                "netChange", "timestamp">>

StockNames == <<"instrumentToken", "lastPrice", "lastTradedQuantity",
                "averageTradePrice", "volumeTraded", "totalBuyQuantity",
                "totalSellQuantity", "open", "high", "low", "close",
                "lastTradeTime", "oi", "oiDayHigh", "oiDayLow", "timestamp">>

\* The first n of names, four bytes each.
Words(names, n) == {Word(names[i + 1], i) : i \in 0..(n - 1)}

Depth == UNION {DepthEntry(i) : i \in Entries}

\* The fields of every size of packet: words, and in the longest the depth.
LEMMA FieldsOfASize ==
  /\ Fields(8) = Words(StockNames, 2)
  /\ Fields(12) = Words(StockNames, 1)
  /\ Fields(28) = Words(IndexNames, 7)
  /\ Fields(32) = Words(IndexNames, 8)
  /\ Fields(44) = Words(StockNames, 11)
  /\ Fields(184) = Words(StockNames, 16) \cup Depth
<1>1. Fields(8) = LtpFields
  BY DEF Fields, LTP_PACKET_SIZE, INDICES_QUOTE_PACKET_SIZE,
         INDICES_FULL_PACKET_SIZE, QUOTE_PACKET_SIZE, FULL_PACKET_SIZE
<1>2. Fields(12) = TokenField
  BY DEF Fields, LTP_PACKET_SIZE, INDICES_QUOTE_PACKET_SIZE,
         INDICES_FULL_PACKET_SIZE, QUOTE_PACKET_SIZE, FULL_PACKET_SIZE
<1>3. Fields(28) = IndicesQuoteFields
  BY DEF Fields, LTP_PACKET_SIZE, INDICES_QUOTE_PACKET_SIZE,
         INDICES_FULL_PACKET_SIZE, QUOTE_PACKET_SIZE, FULL_PACKET_SIZE
<1>4. Fields(32) = IndicesFullFields
  BY DEF Fields, LTP_PACKET_SIZE, INDICES_QUOTE_PACKET_SIZE,
         INDICES_FULL_PACKET_SIZE, QUOTE_PACKET_SIZE, FULL_PACKET_SIZE
<1>5. Fields(44) = QuoteFields
  BY DEF Fields, LTP_PACKET_SIZE, INDICES_QUOTE_PACKET_SIZE,
         INDICES_FULL_PACKET_SIZE, QUOTE_PACKET_SIZE, FULL_PACKET_SIZE
<1>6. Fields(184) = FullFields
  BY DEF Fields, LTP_PACKET_SIZE, INDICES_QUOTE_PACKET_SIZE,
         INDICES_FULL_PACKET_SIZE, QUOTE_PACKET_SIZE, FULL_PACKET_SIZE
<1>7. TokenField = Words(StockNames, 1)
  BY DEF TokenField, Words, StockNames
<1>8. LtpFields = Words(StockNames, 2)
  BY DEF LtpFields, TokenField, Words, StockNames
<1>9. IndicesQuoteFields = Words(IndexNames, 7)
  BY DEF IndicesQuoteFields, LtpFields, TokenField, Words, IndexNames
<1>10. IndicesFullFields = Words(IndexNames, 8)
  BY DEF IndicesFullFields, IndicesQuoteFields, LtpFields, TokenField, Words,
         IndexNames
<1>11. QuoteFields = Words(StockNames, 11)
  BY DEF QuoteFields, LtpFields, TokenField, Words, StockNames
<1>12. FullFields = Words(StockNames, 16) \cup Depth
  BY DEF FullFields, QuoteFields, LtpFields, TokenField, Words, StockNames, Depth
<1> QED BY <1>1, <1>2, <1>3, <1>4, <1>5, <1>6, <1>7, <1>8, <1>9, <1>10, <1>11, <1>12

\* The fields of fields lie apart, within the first size bytes.
Apart(fields, size) ==
  /\ \A f \in fields : /\ f.start \in Nat /\ f.end \in Nat
                       /\ f.start <= f.end /\ f.end < size
  /\ \A f, g \in fields : f # g => f.end < g.start \/ g.end < f.start

\* Byte x is in one of the fields.
Covered(fields, x) == \E f \in fields : f.start <= x /\ x <= f.end

\* Words lie apart and leave out no byte.
LEMMA WordsApart ==
  ASSUME NEW names, NEW n \in Nat
  PROVE  /\ Apart(Words(names, n), 4 * n)
         /\ \A x \in 0..(4 * n - 1) : Covered(Words(names, n), x)
<1>1. ASSUME NEW f \in Words(names, n)
      PROVE  \E i \in 0..(n - 1) : f = Word(names[i + 1], i)
  BY DEF Words
<1>2. \A i \in 0..(n - 1) : \A s :
        Word(s, i).start = 4 * i /\ Word(s, i).end = 4 * i + 3
  BY DEF Word, Field
<1>3. ASSUME NEW f \in Words(names, n)
      PROVE  /\ f.start \in Nat /\ f.end \in Nat
             /\ f.start <= f.end /\ f.end < 4 * n
  <2>1. PICK i \in 0..(n - 1) : f = Word(names[i + 1], i)
    BY <1>1
  <2>2. f.start = 4 * i /\ f.end = 4 * i + 3
    BY <1>2, <2>1
  <2> QED BY <2>2
<1>4. ASSUME NEW f \in Words(names, n), NEW g \in Words(names, n), f # g
      PROVE  f.end < g.start \/ g.end < f.start
  <2>1. PICK i \in 0..(n - 1) : f = Word(names[i + 1], i)
    BY <1>1
  <2>2. PICK j \in 0..(n - 1) : g = Word(names[j + 1], j)
    BY <1>1
  <2>3. i # j
    BY <1>4, <2>1, <2>2
  <2>4. f.start = 4 * i /\ f.end = 4 * i + 3 /\ g.start = 4 * j /\ g.end = 4 * j + 3
    BY <1>2, <2>1, <2>2
  <2> QED BY <2>3, <2>4
<1>5. ASSUME NEW x \in 0..(4 * n - 1) PROVE Covered(Words(names, n), x)
  <2> DEFINE i == x \div 4
  <2>1. i \in 0..(n - 1) /\ 4 * i <= x /\ x <= 4 * i + 3
    OBVIOUS
  <2> HIDE DEF i
  <2>2. Word(names[i + 1], i) \in Words(names, n)
    BY <2>1 DEF Words
  <2>3. Word(names[i + 1], i).start = 4 * i /\ Word(names[i + 1], i).end = 4 * i + 3
    BY <1>2, <2>1
  <2> QED BY <2>1, <2>2, <2>3 DEF Covered
<1> QED BY <1>3, <1>4, <1>5 DEF Apart

\* The parts of an entry of the market depth.
Part(i, j) == Field(<<Side(i), i % 5, <<"quantity", "price", "orders">>[j + 1]>>,
                    64 + 12 * i + 4 * j, 64 + 12 * i + 4 * j + (IF j = 2 THEN 1 ELSE 3))

\* An entry has three parts.
LEMMA DepthParts == Depth = {Part(i, j) : i \in Entries, j \in 0..2}
<1>1. ASSUME NEW i \in Entries
      PROVE  DepthEntry(i) = {Part(i, 0), Part(i, 1), Part(i, 2)}
  BY DEF DepthEntry, Part, Entries, Field
<1> QED BY <1>1 DEF Depth

\* The depth lies apart, after sixteen words, and leaves out the two bytes
\* that fill up each entry.
LEMMA DepthApart ==
  /\ Apart(Depth, 184)
  /\ \A f \in Depth : f.start >= 64
  /\ \A x \in 64..183 : Covered(Depth, x) <=> (x - 64) % 12 < 10
<1>1. \A i \in Entries, j \in 0..2 :
         /\ Part(i, j).start = 64 + 12 * i + 4 * j
         /\ Part(i, j).end = 64 + 12 * i + 4 * j + (IF j = 2 THEN 1 ELSE 3)
  BY DEF Part, Field
<1>2. ASSUME NEW f \in Depth
      PROVE  /\ f.start \in Nat /\ f.end \in Nat
             /\ f.start <= f.end /\ f.end < 184 /\ f.start >= 64
  <2>1. PICK i \in Entries, j \in 0..2 : f = Part(i, j)
    BY DepthParts
  <2> QED BY <1>1, <2>1 DEF Entries
<1>3. ASSUME NEW f \in Depth, NEW g \in Depth, f # g
      PROVE  f.end < g.start \/ g.end < f.start
  <2>1. PICK i \in Entries, j \in 0..2 : f = Part(i, j)
    BY DepthParts
  <2>2. PICK k \in Entries, l \in 0..2 : g = Part(k, l)
    BY DepthParts
  <2>3. i # k \/ j # l
    BY <1>3, <2>1, <2>2
  <2>4. /\ f.start = 64 + 12 * i + 4 * j
        /\ f.end = 64 + 12 * i + 4 * j + (IF j = 2 THEN 1 ELSE 3)
        /\ g.start = 64 + 12 * k + 4 * l
        /\ g.end = 64 + 12 * k + 4 * l + (IF l = 2 THEN 1 ELSE 3)
    <3>1. /\ f.start = 64 + 12 * i + 4 * j
          /\ f.end = 64 + 12 * i + 4 * j + (IF j = 2 THEN 1 ELSE 3)
      BY <1>1, <2>1
    <3>2. /\ g.start = 64 + 12 * k + 4 * l
          /\ g.end = 64 + 12 * k + 4 * l + (IF l = 2 THEN 1 ELSE 3)
      BY <1>1, <2>2
    <3> QED BY <3>1, <3>2
  <2> QED BY <2>3, <2>4 DEF Entries
<1>4. ASSUME NEW x \in 64..183 PROVE Covered(Depth, x) <=> (x - 64) % 12 < 10
  <2>1. ASSUME Covered(Depth, x) PROVE (x - 64) % 12 < 10
    <3>1. PICK f \in Depth : f.start <= x /\ x <= f.end
      BY <2>1 DEF Covered
    <3>2. PICK i \in Entries, j \in 0..2 : f = Part(i, j)
      BY DepthParts
    <3>3. 64 + 12 * i <= x /\ x <= 64 + 12 * i + 9
      BY <1>1, <3>1, <3>2 DEF Entries
    <3> QED BY <3>3 DEF Entries
  <2>2. ASSUME (x - 64) % 12 < 10 PROVE Covered(Depth, x)
    <3> DEFINE i == (x - 64) \div 12
               j == ((x - 64) % 12) \div 4
    <3>1. i \in Entries /\ j \in 0..2
      BY <2>2 DEF Entries
    <3>2. 64 + 12 * i + 4 * j <= x /\ x <= 64 + 12 * i + 4 * j + (IF j = 2 THEN 1 ELSE 3)
      BY <2>2
    <3> HIDE DEF i, j
    <3>3. Part(i, j) \in Depth
      BY <3>1, DepthParts
    <3>4. Part(i, j).start <= x /\ x <= Part(i, j).end
      BY <1>1, <3>1, <3>2
    <3> QED BY <3>3, <3>4 DEF Covered
  <2> QED BY <2>1, <2>2
<1> QED BY <1>2, <1>3, <1>4 DEF Apart

-----------------------------------------------------------------------------
(* parseBinaryMessage.                                                     *)

\* The value of a field of the p-th packet.
ValueOf(p, f) ==
  <<f.name, [k \in 1..(f.end - f.start + 1) |-> <<p, f.start + k - 1>>]>>

\* The tick the p-th packet of msg is meant to give.
TickOf(msg, p) ==
  [mode       |-> ModeOf(Size(msg, p)),
   isTradable |-> msg[p].segment # "INDICES",
   divisor    |-> Divisor(msg[p].segment),
   values     |-> {ValueOf(p, f) : f \in Fields(Size(msg, p))}]

\* The first size bytes are in one of the fields, but for the padding of the
\* market depth.
Filled(fields, size) ==
  \A x \in 0..(size - 1) :
     Covered(fields, x) <=> ~(x >= 64 /\ (x - 64) % 12 >= 10)

\* The fields of the packets a server sends lie apart, and cover all of each
\* but the padding of the market depth.
LEMMA FieldsApart ==
  ASSUME NEW z \in {8, 12, 28, 32, 44, 184}
  PROVE  /\ Apart(Fields(z), z)
         /\ z # 12 => Filled(Fields(z), z)
<1>1. ASSUME NEW n \in Nat, NEW names, Fields(z) = Words(names, n), 4 * n <= z
      PROVE  /\ Apart(Fields(z), z)
             /\ 4 * n = z => \A x \in 0..(z - 1) : Covered(Fields(z), x)
  <2>1. /\ Apart(Words(names, n), 4 * n)
        /\ \A x \in 0..(4 * n - 1) : Covered(Words(names, n), x)
    BY WordsApart
  <2> QED BY <1>1, <2>1 DEF Apart
<1>2. CASE z \in {8, 28, 32, 44}
  <2>1. PICK n, names : n \in Nat /\ Fields(z) = Words(names, n) /\ 4 * n = z
    <3>1. CASE z = 8
      BY <3>1, FieldsOfASize
    <3>2. CASE z = 28
      BY <3>2, FieldsOfASize
    <3>3. CASE z = 32
      BY <3>3, FieldsOfASize
    <3>4. CASE z = 44
      BY <3>4, FieldsOfASize
    <3> QED BY <1>2, <3>1, <3>2, <3>3, <3>4
  <2>2. /\ Apart(Fields(z), z)
        /\ \A x \in 0..(z - 1) : Covered(Fields(z), x)
    BY <1>1, <2>1
  <2>3. \A x \in 0..(z - 1) : ~(x >= 64)
    BY <1>2
  <2> QED BY <2>2, <2>3 DEF Filled
<1>3. CASE z = 12
  <2>1. Fields(z) = Words(StockNames, 1) /\ 1 \in Nat /\ 4 * 1 <= z
    BY <1>3, FieldsOfASize
  <2>2. Apart(Fields(z), z)
    BY <1>1, <2>1
  <2> QED BY <1>3, <2>2
<1>4. CASE z = 184
  <2> DEFINE W == Words(StockNames, 16)
  <2>1. Fields(z) = W \cup Depth
    BY <1>4, FieldsOfASize
  <2>2. Apart(W, 64) /\ \A x \in 0..63 : Covered(W, x)
    <3>1. 16 \in Nat /\ 4 * 16 = 64 /\ 4 * 16 - 1 = 63
      OBVIOUS
    <3>2. /\ Apart(Words(StockNames, 16), 4 * 16)
          /\ \A x \in 0..(4 * 16 - 1) : Covered(Words(StockNames, 16), x)
      BY <3>1, WordsApart
    <3> QED BY <3>1, <3>2
  <2> HIDE DEF W
  <2>3. /\ Apart(Depth, 184)
        /\ \A f \in Depth : f.start >= 64
        /\ \A x \in 64..183 : Covered(Depth, x) <=> (x - 64) % 12 < 10
    BY DepthApart
  <2>4. Apart(W \cup Depth, 184)
    <3>1. ASSUME NEW f \in W \cup Depth
          PROVE  /\ f.start \in Nat /\ f.end \in Nat
                 /\ f.start <= f.end /\ f.end < 184
      BY <2>2, <2>3 DEF Apart
    <3>2. ASSUME NEW f \in W \cup Depth, NEW g \in W \cup Depth, f # g
          PROVE  f.end < g.start \/ g.end < f.start
      <4>1. CASE f \in W /\ g \in W
        BY <2>2, <3>2, <4>1 DEF Apart
      <4>2. CASE f \in Depth /\ g \in Depth
        BY <2>3, <3>2, <4>2 DEF Apart
      <4>3. CASE f \in W /\ g \in Depth
        BY <2>2, <2>3, <4>3 DEF Apart
      <4>4. CASE f \in Depth /\ g \in W
        BY <2>2, <2>3, <4>4 DEF Apart
      <4> QED BY <4>1, <4>2, <4>3, <4>4
    <3> QED BY <3>1, <3>2 DEF Apart
  <2>5. ASSUME NEW x \in 0..183
        PROVE  Covered(W \cup Depth, x) <=> ~(x >= 64 /\ (x - 64) % 12 >= 10)
    <3>1. Covered(W \cup Depth, x) <=> Covered(W, x) \/ Covered(Depth, x)
      BY DEF Covered
    <3>2. CASE x < 64
      <4>1. x \in 0..63
        BY <3>2
      <4> QED BY <2>2, <3>1, <3>2, <4>1
    <3>3. CASE x >= 64
      <4>1. x \in 64..183 /\ (x - 64) % 12 \in Nat
        BY <3>3
      <4>2. ~Covered(W, x)
        BY <2>2, <3>3 DEF Covered, Apart
      <4>3. Covered(Depth, x) <=> (x - 64) % 12 < 10
        BY <2>3, <4>1
      <4> QED BY <3>1, <3>3, <4>1, <4>2, <4>3
    <3> QED BY <3>2, <3>3
  <2>6. Apart(Fields(z), z)
    BY <1>4, <2>1, <2>4
  <2>7. \A x \in 0..(z - 1) : x \in 0..183
    BY <1>4
  <2>8. \A x \in 0..(z - 1) :
           Covered(Fields(z), x) <=> ~(x >= 64 /\ (x - 64) % 12 >= 10)
    <3> TAKE x \in 0..(z - 1)
    <3>1. x \in 0..183
      BY <2>7
    <3>2. Covered(W \cup Depth, x) <=> ~(x >= 64 /\ (x - 64) % 12 >= 10)
      BY <2>5, <3>1
    <3> QED BY <2>1, <3>2
  <2> QED BY <2>6, <2>8 DEF Filled
<1> QED BY <1>2, <1>3, <1>4

\* Reading the p-th payload gives the tick that is meant.
LEMMA ReadsThePacket ==
  ASSUME message \in Seq(ServerPackets), NEW p \in 1..Len(message)
  PROVE  Tick(Payload(message, p)) = TickOf(message, p)
<1> DEFINE z == Size(message, p)
           packet == Payload(message, p)
<1>1. /\ z \in {8, 12, 28, 32, 44, 184}
      /\ packet \in Seq(Data) /\ Len(packet) = z
      /\ \A k \in 1..z : packet[k] = <<p, k - 1>>
  BY Payloads
<1> HIDE DEF z, packet
<1>2. 4 \in 1..z /\ packet[4] = <<p, 3>>
  <2>1. 4 \in 1..z
    BY <1>1
  <2> QED BY <1>1, <2>1
<1>3. SegmentAt(packet[4]) = message[p].segment
  BY <1>2 DEF SegmentAt
<1>4. ASSUME NEW f \in Fields(z)
      PROVE  <<f.name, Slice(packet, f.start, f.end)>> = ValueOf(p, f)
  <2>1. f.start \in Nat /\ f.end \in Nat /\ f.start <= f.end /\ f.end < z
    <3>1. Apart(Fields(z), z)
      BY <1>1, FieldsApart
    <3>2. \A g \in Fields(z) : g.start \in Nat /\ g.end \in Nat /\ g.start <= g.end /\ g.end < z
      BY <3>1, Zenon DEF Apart
    <3> QED BY <3>2
  <2> DEFINE s == f.start
             l == f.end - f.start + 1
  <2>2. l \in Nat /\ s + 1 = f.start + 1 /\ s + l = f.end + 1 /\ s + l <= Len(packet)
    BY <1>1, <2>1
  <2> HIDE DEF s, l
  <2>3. SubSeq(packet, s + 1, s + l) = [k \in 1..l |-> packet[s + k]]
    <3>1. packet \in Seq(Data) /\ s \in Nat /\ l \in Nat /\ s + l <= Len(packet)
      BY <1>1, <2>1, <2>2 DEF s
    <3> HIDE DEF packet
    <3> QED BY <3>1, Cut
  <2>4. \A k \in 1..l : packet[s + k] = <<p, s + k - 1>>
    <3> TAKE k \in 1..l
    <3>1. s + k \in 1..z
      <4>1. s \in Nat /\ l \in Nat /\ z \in Nat /\ s + l <= z
        BY <1>1, <2>1, <2>2 DEF s
      <4> QED BY <4>1
    <3>2. \A y \in 1..z : packet[y] = <<p, y - 1>>
      BY <1>1
    <3>3. PICK y \in 1..z : y = s + k
      BY <3>1
    <3>4. packet[y] = <<p, y - 1>>
      BY <3>2
    <3>5. y - 1 = s + k - 1
      <4>1. s \in Nat /\ k \in Nat
        BY <2>1 DEF s
      <4> QED BY <3>3, <4>1
    <3> QED BY <3>3, <3>4, <3>5, Zenon
  <2>5. Slice(packet, f.start, f.end) = [k \in 1..l |-> <<p, s + k - 1>>]
    BY <2>2, <2>3, <2>4 DEF Slice, s
  <2> QED BY <2>5 DEF ValueOf, s, l
<1>5. {<<f.name, Slice(packet, f.start, f.end)>> : f \in Fields(z)}
        = {ValueOf(p, f) : f \in Fields(z)}
  BY <1>4
<1> QED BY <1>1, <1>3, <1>5 DEF Tick, TickOf, z, packet

\* What is read so far is what the packets cut so far are meant to give.
TicksRead ==
  /\ ticks \in Seq({TickOf(message, p) : p \in 1..Len(message)})
  /\ Len(ticks) <= Len(packets)
  /\ \A p \in 1..Len(ticks) : ticks[p] = TickOf(message, p)

\* The invariant of both loops, of every message.
LEMMA TicksReadInductive == Spec => [](Seams /\ TicksRead)
<1>1. Init => TicksRead
  BY DEF Init, TicksRead
<1>2. Seams /\ Seams' /\ TicksRead /\ [Next]_vars => TicksRead'
  <2> SUFFICES ASSUME Seams, Seams', TicksRead, [Next]_vars PROVE TicksRead'
    OBVIOUS
  <2>1. CASE splitPackets
    <3>1. message' = message /\ ticks' = ticks
      BY <2>1 DEF splitPackets
    <3>2. Len(packets') = Len(packets) + 1
      BY <2>1 DEF splitPackets, Seams
    <3>3. Len(ticks) \in Nat /\ Len(packets) \in Nat
      BY DEF TicksRead, Seams
    <3>4. Len(ticks) <= Len(packets')
      BY <3>2, <3>3 DEF TicksRead
    <3> QED BY <3>1, <3>4 DEF TicksRead
  <2>2. CASE parseBinaryMessage
    <3> DEFINE q == Len(ticks) + 1
               AnyTick == {TickOf(message, p) : p \in 1..Len(message)}
    <3>1. /\ q \in 1..Len(packets) /\ q \in 1..Len(message)
          /\ message \in Seq(ServerPackets)
      <4>1. /\ Len(ticks) \in Nat /\ Len(packets) \in Nat /\ Len(message) \in Nat
            /\ Len(packets) <= Len(message) /\ message \in Seq(ServerPackets)
        BY DEF TicksRead, Seams
      <4> QED BY <2>2, <4>1 DEF parseBinaryMessage
    <3>2. /\ message' = message /\ packets' = packets
          /\ ticks' = Append(ticks, Tick(packets[q]))
      BY <2>2 DEF parseBinaryMessage
    <3>3. packets[q] = Payload(message, q)
      BY <3>1 DEF Seams
    <3>4. Tick(packets[q]) = TickOf(message, q)
      BY <3>1, <3>3, ReadsThePacket
    <3>5. TickOf(message, q) \in AnyTick
      BY <3>1
    <3>6. ticks \in Seq(AnyTick) /\ \A p \in 1..Len(ticks) : ticks[p] = TickOf(message, p)
      BY DEF TicksRead
    <3>7. ticks' = Append(ticks, TickOf(message, q))
      BY <3>2, <3>4
    <3> HIDE DEF AnyTick
    <3>8. /\ ticks' \in Seq(AnyTick)
          /\ Len(ticks') = q
          /\ \A p \in 1..q : ticks'[p] = IF p = q THEN TickOf(message, q) ELSE ticks[p]
      BY <3>5, <3>6, <3>7
    <3>9. \A p \in 1..q : ticks'[p] = TickOf(message, p)
      <4> TAKE p \in 1..q
      <4>1. p # q => p \in 1..Len(ticks)
        BY <3>6
      <4> QED BY <3>6, <3>8, <4>1
    <3>10. Len(ticks') <= Len(packets')
      BY <3>1, <3>2, <3>8
    <3> HIDE DEF q
    <3> QED BY <3>2, <3>8, <3>9, <3>10 DEF TicksRead, AnyTick
  <2>3. CASE UNCHANGED vars
    BY <2>3 DEF TicksRead, vars
  <2> QED BY <2>1, <2>2, <2>3 DEF Next
<1> QED BY <1>1, <1>2, SeamsInductive, PTL DEF Spec

\* The bytes of a value are those from its field's start to its end.
LEMMA ValuesAreRanges ==
  ASSUME NEW p, NEW f, f.start \in Nat, f.end \in Nat, f.start <= f.end
  PROVE  BytesOf(ValueOf(p, f)) = {<<p, x>> : x \in f.start..f.end}
<1> DEFINE l == f.end - f.start + 1
           v == [k \in 1..l |-> <<p, f.start + k - 1>>]
<1>1. BytesOf(ValueOf(p, f)) = {v[k] : k \in 1..l}
  BY DEF BytesOf, ValueOf
<1>2. ASSUME NEW k \in 1..l PROVE v[k] \in {<<p, x>> : x \in f.start..f.end}
  <2>1. f.start + k - 1 \in f.start..f.end
    OBVIOUS
  <2> QED BY <2>1
<1>3. ASSUME NEW x \in f.start..f.end PROVE <<p, x>> \in {v[k] : k \in 1..l}
  <2>1. x - f.start + 1 \in 1..l /\ f.start + (x - f.start + 1) - 1 = x
    OBVIOUS
  <2>2. v[x - f.start + 1] = <<p, x>>
    BY <2>1
  <2> QED BY <2>1, <2>2
<1> HIDE DEF v, l
<1> QED BY <1>1, <1>2, <1>3

\* In a tick every byte of a packet of a known size is read, into one field
\* only, but for the padding.
LEMMA TicksReadEveryByteOnce ==
  ASSUME NEW msg \in Seq(ServerPackets), NEW p \in 1..Len(msg)
  PROVE  LET z      == Size(msg, p)
             values == TickOf(msg, p).values
         IN  /\ \A v, w \in values : v # w => BytesOf(v) \cap BytesOf(w) = {}
             /\ msg[p].mode # "other" =>
                  UNION {BytesOf(v) : v \in values} =
                    {<<p, k>> : k \in 0..(z - 1)}
                       \ (IF z = FULL_PACKET_SIZE THEN Padding(p) ELSE {})
<1> DEFINE z == Size(msg, p)
           F == Fields(z)
           values == {ValueOf(p, f) : f \in F}
<1>1. z \in {8, 12, 28, 32, 44, 184}
  BY Payloads
<1>2. TickOf(msg, p).values = values
  BY DEF TickOf
<1>3. msg[p].mode # "other" => z # 12
  <2>1. msg[p] \in ServerPackets
    OBVIOUS
  <2>2. msg[p].mode \in Modes
    BY <2>1 DEF ServerPackets
  <2> QED BY <2>2 DEF Size, SizeOf, Modes, LTP_PACKET_SIZE, INDICES_QUOTE_PACKET_SIZE,
                 INDICES_FULL_PACKET_SIZE, QUOTE_PACKET_SIZE, FULL_PACKET_SIZE
<1> HIDE DEF z
<1>4. Apart(F, z)
  BY <1>1, FieldsApart
<1> HIDE DEF F
<1>5. \A f \in F : BytesOf(ValueOf(p, f)) = {<<p, x>> : x \in f.start..f.end}
  BY <1>4, ValuesAreRanges DEF Apart
<1>6. ASSUME NEW v \in values, NEW w \in values, v # w
      PROVE  BytesOf(v) \cap BytesOf(w) = {}
  <2>1. PICK f \in F : v = ValueOf(p, f)
    OBVIOUS
  <2>2. PICK g \in F : w = ValueOf(p, g)
    OBVIOUS
  <2>3. f # g
    BY <1>6, <2>1, <2>2
  <2>4. f.end < g.start \/ g.end < f.start
    BY <1>4, <2>3 DEF Apart
  <2>5. /\ BytesOf(v) = {<<p, x>> : x \in f.start..f.end}
        /\ BytesOf(w) = {<<p, x>> : x \in g.start..g.end}
    BY <1>5, <2>1, <2>2
  <2>6. f.start \in Nat /\ f.end \in Nat /\ g.start \in Nat /\ g.end \in Nat
    BY <1>4 DEF Apart
  <2>7. \A x \in f.start..f.end : x \notin g.start..g.end
    BY <2>4, <2>6
  <2> QED BY <2>5, <2>7
<1>7. ASSUME msg[p].mode # "other"
      PROVE  UNION {BytesOf(v) : v \in values} =
                {<<p, k>> : k \in 0..(z - 1)}
                   \ (IF z = FULL_PACKET_SIZE THEN Padding(p) ELSE {})
  <2> DEFINE read == UNION {BytesOf(v) : v \in values}
             padding == IF z = FULL_PACKET_SIZE THEN Padding(p) ELSE {}
  <2>1. \A x \in 0..(z - 1) : Covered(F, x) <=> ~(x >= 64 /\ (x - 64) % 12 >= 10)
    <3>1. z # 12
      BY <1>3, <1>7
    <3>2. z # 12 => Filled(Fields(z), z)
      BY <1>1, FieldsApart
    <3> QED BY <3>1, <3>2 DEF F, Filled
  <2>2. ASSUME NEW b PROVE b \in read <=> \E x \in 0..(z - 1) : b = <<p, x>> /\ Covered(F, x)
    <3>1. b \in read <=> \E f \in F : \E x \in f.start..f.end : b = <<p, x>>
      BY <1>5
    <3>2. \A f \in F : \A x \in f.start..f.end : x \in 0..(z - 1) /\ f.start <= x /\ x <= f.end
      BY <1>1, <1>4 DEF Apart
    <3>3. \A f \in F : \A x \in 0..(z - 1) : f.start <= x /\ x <= f.end => x \in f.start..f.end
      BY <1>1, <1>4 DEF Apart
    <3> HIDE DEF read
    <3> QED BY <3>1, <3>2, <3>3 DEF Covered
  <2>3. ASSUME NEW x \in 0..(z - 1)
        PROVE  <<p, x>> \in padding <=> x >= 64 /\ (x - 64) % 12 >= 10
    <3>1. CASE z = 184
      <4>1. padding = {<<p, 64 + 12 * i + k>> : i \in 0..9, k \in {10, 11}}
        BY <3>1 DEF Padding, Entries, FULL_PACKET_SIZE
      <4>2. <<p, x>> \in padding <=> \E i \in 0..9, k \in {10, 11} : x = 64 + 12 * i + k
        <5>1. \A i \in 0..9, k \in {10, 11} :
                 <<p, x>> = <<p, 64 + 12 * i + k>> <=> x = 64 + 12 * i + k
          OBVIOUS
        <5> HIDE DEF padding
        <5>2. <<p, x>> \in padding <=>
                \E i \in 0..9, k \in {10, 11} : <<p, x>> = <<p, 64 + 12 * i + k>>
          BY <4>1
        <5> QED BY <5>1, <5>2
      <4>3. (\E i \in 0..9, k \in {10, 11} : x = 64 + 12 * i + k)
              <=> x >= 64 /\ (x - 64) % 12 >= 10
        <5>1. ASSUME NEW i \in 0..9, NEW k \in {10, 11}, x = 64 + 12 * i + k
              PROVE  x >= 64 /\ (x - 64) % 12 >= 10
          BY <5>1
        <5>2. ASSUME x >= 64, (x - 64) % 12 >= 10
              PROVE  \E i \in 0..9, k \in {10, 11} : x = 64 + 12 * i + k
          <6>1. /\ (x - 64) \div 12 \in 0..9 /\ (x - 64) % 12 \in {10, 11}
                /\ x = 64 + 12 * ((x - 64) \div 12) + ((x - 64) % 12)
            BY <3>1, <5>2
          <6> QED BY <6>1
        <5> QED BY <5>1, <5>2
      <4> QED BY <4>2, <4>3
    <3>2. CASE z # 184
      <4>1. padding = {}
        BY <3>2 DEF FULL_PACKET_SIZE
      <4>2. x < 64
        BY <1>1, <3>2
      <4> QED BY <4>1, <4>2
    <3> QED BY <3>1, <3>2
  <2> HIDE DEF read, padding
  <2>4. ASSUME NEW b
        PROVE  b \in read <=> b \in {<<p, k>> : k \in 0..(z - 1)} \ padding
    BY <2>1, <2>2, <2>3
  <2>5. read = {<<p, k>> : k \in 0..(z - 1)} \ padding
    BY <2>4
  <2> QED BY <2>5 DEF read, padding
<1> QED BY <1>2, <1>6, <1>7 DEF z

\* Every byte of every packet that is read goes into one field, whatever is
\* in the message.
THEOREM EveryByteIsReadOnce == Spec => []EveryByteOnce
<1>1. Seams /\ TicksRead => EveryByteOnce
  <2> SUFFICES ASSUME Seams, TicksRead, NEW p \in DOMAIN ticks
               PROVE  /\ \A v, w \in ticks[p].values :
                            v # w => BytesOf(v) \cap BytesOf(w) = {}
                      /\ message[p].mode # "other" =>
                           UNION {BytesOf(v) : v \in ticks[p].values} =
                             {<<p, k>> : k \in 0..(Len(packets[p]) - 1)}
                               \ (IF Len(packets[p]) = FULL_PACKET_SIZE
                                    THEN Padding(p) ELSE {})
    BY DEF EveryByteOnce
  <2>1. p \in 1..Len(ticks) /\ p \in 1..Len(packets) /\ p \in 1..Len(message)
    BY DEF Seams, TicksRead
  <2>2. message \in Seq(ServerPackets) /\ ticks[p] = TickOf(message, p)
    BY <2>1 DEF Seams, TicksRead
  <2>3. Len(packets[p]) = Size(message, p)
    BY <2>1, Payloads DEF Seams
  <2> QED BY <2>1, <2>2, <2>3, TicksReadEveryByteOnce
<1> QED BY <1>1, TicksReadInductive, PTL

Prices(side) == {<<side, i, "price">> : i \in 0..4}

\* The prices of one side among the names of values.
Found(values, side) == {v[1] : v \in {w \in values : w[1] \in Prices(side)}}

\* The longest packets have all prices of both sides, the others none.
LEMMA TicksHaveTheirDepth ==
  ASSUME NEW msg \in Seq(ServerPackets), NEW p \in 1..Len(msg), NEW side \in {"buy", "sell"}
  PROVE  Found(TickOf(msg, p).values, side) =
            IF Size(msg, p) = 184 THEN Prices(side) ELSE {}
<1> DEFINE z == Size(msg, p)
           prices == {<<side, i, "price">> : i \in 0..4}
           values == {ValueOf(p, f) : f \in Fields(z)}
           found == {v[1] : v \in {w \in values : w[1] \in prices}}
<1>1. z \in {8, 12, 28, 32, 44, 184}
  BY Payloads
<1>2. TickOf(msg, p).values = values
  BY DEF TickOf
<1>3. \A f : ValueOf(p, f)[1] = f.name
  BY DEF ValueOf
<1>4. \A names, n, f : f \in Words(names, n) => f.name \notin prices
  <2>1. \A s, i : Word(s, i).name = <<s>>
    BY DEF Word, Field
  <2>2. \A s : <<s>> \notin prices
    OBVIOUS
  <2> QED BY <2>1, <2>2 DEF Words
<1>5. \A i \in Entries, j \in 0..2 :
         Part(i, j).name = <<Side(i), i % 5, <<"quantity", "price", "orders">>[j + 1]>>
  BY DEF Part, Field
<1> HIDE DEF z
<1>6. ASSUME NEW n \in prices PROVE n \in found <=> \E f \in Fields(z) : f.name = n
  <2> HIDE DEF prices
  <2> QED BY <1>3
<1>7. \A n \in found : n \in prices
  OBVIOUS
<1>8. CASE z = 184
  <2>1. ASSUME NEW i \in 0..4 PROVE <<side, i, "price">> \in found
    <3> DEFINE e == IF side = "buy" THEN i ELSE i + 5
    <3>1. e \in Entries /\ Side(e) = side /\ e % 5 = i
      BY DEF Entries, Side
    <3>2. Part(e, 1) \in Fields(z)
      BY <1>8, <3>1, DepthParts, FieldsOfASize
    <3>3. Part(e, 1).name = <<side, i, "price">>
      <4>1. 1 \in 0..2 /\ <<"quantity", "price", "orders">>[1 + 1] = "price"
        OBVIOUS
      <4> QED BY <1>5, <3>1, <4>1
    <3> HIDE DEF e, found
    <3> QED BY <1>6, <3>2, <3>3
  <2>2. \A n \in prices : n \in found
    BY <2>1
  <2> HIDE DEF found, prices
  <2>3. found = prices
    BY <1>7, <2>2
  <2> QED BY <1>2, <1>8, <2>3 DEF found, prices, z, Found, Prices
<1>9. CASE z # 184
  <2>1. \E names, n : Fields(z) = Words(names, n)
    BY <1>1, <1>9, FieldsOfASize
  <2>2. \A f \in Fields(z) : f.name \notin prices
    BY <1>4, <2>1
  <2> HIDE DEF prices, found
  <2>3. found = {}
    BY <1>6, <1>7, <2>2
  <2> QED BY <1>2, <1>9, <2>3 DEF found, prices, z, Found, Prices
<1> QED BY <1>8, <1>9

\* There are five of them.
LEMMA FivePrices ==
  ASSUME NEW side
  PROVE  Cardinality(Prices(side)) = 5
<1> DEFINE prices == {<<side, i, "price">> : i \in 0..4}
           f == [i \in 0..4 |-> <<side, i, "price">>]
<1>1. f \in Bijection(0..4, prices)
  <2>1. f \in [0..4 -> prices]
    OBVIOUS
  <2>2. \A a, b \in 0..4 : f[a] = f[b] => a = b
    OBVIOUS
  <2>3. \A q \in prices : \E a \in 0..4 : f[a] = q
    OBVIOUS
  <2> HIDE DEF f, prices
  <2> QED BY <2>1, <2>2, <2>3 DEF Bijection, Injection, Surjection, IsInjective
<1>2. IsFiniteSet(0..4) /\ Cardinality(0..4) = 5
  <2>1. 0 \in Int /\ 4 \in Int /\ ~(0 > 4) /\ 4 - 0 + 1 = 5
    OBVIOUS
  <2> QED BY <2>1, FS_Interval
<1> HIDE DEF prices
<1>3. ExistsBijection(0..4, prices)
  BY <1>1 DEF ExistsBijection
<1> QED BY <1>2, <1>3, FS_Bijection DEF prices, Prices

\* A tick tells the mode the server sent it in and whether its instrument is
\* traded; it has five bids and five offers just when it should.
THEOREM ModesAreTold == Spec => []TicksTellTheMode
<1>1. Seams /\ TicksRead => TicksTellTheMode
  <2> SUFFICES ASSUME Seams, TicksRead, NEW p \in DOMAIN ticks
               PROVE  /\ ticks[p].mode = message[p].mode
                      /\ ticks[p].isTradable <=> message[p].segment # "INDICES"
                      /\ \A side \in {"buy", "sell"} :
                           Cardinality(Found(ticks[p].values, side)) =
                             IF ticks[p].mode = "full" /\ ticks[p].isTradable THEN 5 ELSE 0
    BY DEF TicksTellTheMode, Found, Prices
  <2>1. p \in 1..Len(ticks) /\ p \in 1..Len(message)
    BY DEF Seams, TicksRead
  <2>2. message \in Seq(ServerPackets) /\ ticks[p] = TickOf(message, p)
    BY <2>1 DEF Seams, TicksRead
  <2>3. message[p].mode \in Modes
    <3>1. message[p] \in ServerPackets
      BY <2>1, <2>2
    <3> QED BY <3>1 DEF ServerPackets
  <2>4. /\ ModeOf(Size(message, p)) = message[p].mode
        /\ Size(message, p) = 184 <=>
             message[p].mode = "full" /\ message[p].segment # "INDICES"
    BY <2>3 DEF ModeOf, Size, SizeOf, Modes, LTP_PACKET_SIZE, INDICES_QUOTE_PACKET_SIZE,
                INDICES_FULL_PACKET_SIZE, QUOTE_PACKET_SIZE, FULL_PACKET_SIZE
  <2>5. /\ ticks[p].mode = message[p].mode
        /\ ticks[p].isTradable = (message[p].segment # "INDICES")
    BY <2>2, <2>4 DEF TickOf
  <2>6. ASSUME NEW side \in {"buy", "sell"}
        PROVE  Cardinality(Found(ticks[p].values, side)) =
                 IF ticks[p].mode = "full" /\ ticks[p].isTradable THEN 5 ELSE 0
    <3>1. Found(ticks[p].values, side) =
            IF Size(message, p) = 184 THEN Prices(side) ELSE {}
      BY <2>1, <2>2, TicksHaveTheirDepth
    <3>2. Cardinality({}) = 0
      BY FS_EmptySet
    <3>3. Cardinality(Prices(side)) = 5
      BY FivePrices
    <3>4. CASE Size(message, p) = 184
      <4>1. ticks[p].mode = "full" /\ ticks[p].isTradable
        BY <2>4, <2>5, <3>4
      <4> QED BY <3>1, <3>3, <3>4, <4>1
    <3>5. CASE Size(message, p) # 184
      <4>1. ~(ticks[p].mode = "full" /\ ticks[p].isTradable)
        BY <2>4, <2>5, <3>5
      <4> QED BY <3>1, <3>2, <3>5, <4>1
    <3> QED BY <3>4, <3>5
  <2> QED BY <2>5, <2>6
<1> QED BY <1>1, TicksReadInductive, PTL

=============================================================================
