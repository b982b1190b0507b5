----------------------------- MODULE TickParser -----------------------------
(***************************************************************************)
(* From a binary message to ticks: splitPackets cuts the message with a    *)
(* cursor that every length moves, parseBinaryMessage reads the fields of  *)
(* each packet (include/kitepp/ticker/internal.hpp).                       *)
(*                                                                         *)
(* A payload byte is known by the packet the server put it in and by its   *)
(* place there, so that a field's value is the bytes it was read from.     *)
(***************************************************************************)
EXTENDS Integers, Sequences, SequencesExt, FiniteSetsExt

CONSTANTS
  SEGMENTS,    \* the segments of the instruments the server sends
  MaxPackets   \* bound: packets in a message

ASSUME ConstantsAssumption ==
  SEGMENTS \subseteq {"NSE", "CDS", "BSECDS", "INDICES"} /\ MaxPackets \in Nat

LTP_PACKET_SIZE == 8
INDICES_QUOTE_PACKET_SIZE == 28
INDICES_FULL_PACKET_SIZE == 32
QUOTE_PACKET_SIZE == 44
FULL_PACKET_SIZE == 184

-----------------------------------------------------------------------------
(* The server: the packets of a message and its bytes.  A packet of another*)
(* size is one that this version of the library does not know.             *)

Modes == {"ltp", "quote", "full", "other"}

SizeOf(segment, mode) ==
  CASE mode = "ltp"                               -> LTP_PACKET_SIZE
    [] mode = "quote" /\ segment = "INDICES"      -> INDICES_QUOTE_PACKET_SIZE
    [] mode = "quote" /\ segment # "INDICES"      -> QUOTE_PACKET_SIZE
    [] mode = "full" /\ segment = "INDICES"       -> INDICES_FULL_PACKET_SIZE
    [] mode = "full" /\ segment # "INDICES"       -> FULL_PACKET_SIZE
    [] mode = "other"                             -> 12

ServerPackets == [segment : SEGMENTS, mode : Modes]

Int16(n) == <<n \div 256, n % 256>>

\* The payload of the p-th packet of msg.
Payload(msg, p) ==
  [k \in 1..SizeOf(msg[p].segment, msg[p].mode) |-> <<p, k - 1>>]

\* A message: the number of packets, then each packet after its length.
Bytes(msg) ==
  Int16(Len(msg)) \o
    FlattenSeq([p \in DOMAIN msg |-> Int16(Len(Payload(msg, p))) \o Payload(msg, p)])

-----------------------------------------------------------------------------
VARIABLES
  message,               \* what the server sent
  packetLengthStartIdx,  \* the cursor of splitPackets
  packets,               \* the packets cut so far
  ticks                  \* the ticks read so far

vars == <<message, packetLengthStartIdx, packets, ticks>>

Init ==
  /\ message \in SeqOf(ServerPackets, MaxPackets)
  /\ packetLengthStartIdx = 2
  /\ packets = <<>>
  /\ ticks = <<>>

\* unpack<int16_t>: big-endian and signed.
unpackInt16(bytes, start) ==
  LET v == 256 * bytes[start + 1] + bytes[start + 2]
  IN  IF v >= 2^15 THEN v - 2^16 ELSE v

\* The bytes from start to end, as std::vector's iterators count.
Slice(bytes, start, end) == SubSeq(bytes, start + 1, end + 1)

\* Mutation: the cursor stops on the last byte of the packet.
NextStartShort(packetLengthEndIdx, packetLength) ==
  packetLengthEndIdx + packetLength

\* Where the next packet's length is.
NextStart(packetLengthEndIdx, packetLength) ==
  packetLengthEndIdx + packetLength + 1

\* One turn of the loop of splitPackets.
splitPackets ==
  LET bytes              == Bytes(message)
      packetLengthEndIdx == packetLengthStartIdx + 1
      packetLength       == unpackInt16(bytes, packetLengthStartIdx)
  IN  /\ Len(packets) < unpackInt16(bytes, 0)
      /\ packetLengthStartIdx' = NextStart(packetLengthEndIdx, packetLength)
      /\ packets' = Append(packets, Slice(bytes, packetLengthEndIdx + 1,
                                          packetLengthStartIdx' - 1))
      /\ UNCHANGED <<message, ticks>>

-----------------------------------------------------------------------------
(* The fields of a packet: a name, and the first and the last byte.        *)

Field(name, start, end) == [name |-> name, start |-> start, end |-> end]

\* i-th int32 of a packet
Word(name, i) == Field(<<name>>, 4 * i, 4 * i + 3)

TokenField == {Word("instrumentToken", 0)}

LtpFields == TokenField \cup {Word("lastPrice", 1)}

IndicesQuoteFields ==
  LtpFields \cup {Word("high", 2), Word("low", 3), Word("open", 4),
                  Word("close", 5), Word("netChange", 6)}

IndicesFullFields == IndicesQuoteFields \cup {Word("timestamp", 7)}

QuoteFields ==
  LtpFields \cup {Word("lastTradedQuantity", 2), Word("averageTradePrice", 3),
                  Word("volumeTraded", 4), Word("totalBuyQuantity", 5),
                  Word("totalSellQuantity", 6), Word("open", 7),
                  Word("high", 8), Word("low", 9), Word("close", 10)}

Entries == 0..9

\* Mutation: the sixth entry is taken for a bid.
SideLate(i) == IF i > 5 THEN "sell" ELSE "buy"

Side(i) == IF i >= 5 THEN "sell" ELSE "buy"

\* Mutation: an entry is as long as what is read of it.
DepthEntryPacked(i) ==
  LET depthStartIdx == 64 + 10 * i
  IN  {Field(<<Side(i), i % 5, "quantity">>, depthStartIdx, depthStartIdx + 3),
       Field(<<Side(i), i % 5, "price">>, depthStartIdx + 4, depthStartIdx + 7),
       Field(<<Side(i), i % 5, "orders">>, depthStartIdx + 8, depthStartIdx + 9)}

\* One entry of the market depth, at depthStartIdx.
DepthEntry(i) ==
  LET depthStartIdx == 64 + 12 * i
  IN  {Field(<<Side(i), i % 5, "quantity">>, depthStartIdx, depthStartIdx + 3),
       Field(<<Side(i), i % 5, "price">>, depthStartIdx + 4, depthStartIdx + 7),
       Field(<<Side(i), i % 5, "orders">>, depthStartIdx + 8, depthStartIdx + 9)}

FullFields ==
  QuoteFields \cup {Word("lastTradeTime", 11), Word("oi", 12),
                    Word("oiDayHigh", 13), Word("oiDayLow", 14),
                    Word("timestamp", 15)}
              \cup UNION {DepthEntry(i) : i \in Entries}

Fields(packetSize) ==
  CASE packetSize = LTP_PACKET_SIZE           -> LtpFields
    [] packetSize = INDICES_QUOTE_PACKET_SIZE -> IndicesQuoteFields
    [] packetSize = INDICES_FULL_PACKET_SIZE  -> IndicesFullFields
    [] packetSize = QUOTE_PACKET_SIZE         -> QuoteFields
    [] packetSize = FULL_PACKET_SIZE          -> FullFields
    [] OTHER                                  -> TokenField

ModeOf(packetSize) ==
  CASE packetSize = LTP_PACKET_SIZE                                -> "ltp"
    [] packetSize \in {INDICES_QUOTE_PACKET_SIZE, QUOTE_PACKET_SIZE} -> "quote"
    [] packetSize \in {INDICES_FULL_PACKET_SIZE, FULL_PACKET_SIZE}   -> "full"
    [] OTHER                                                       -> "other"

\* instrumentToken & SEGMENT_MASK: the last byte of the token tells.
SegmentAt(byte) == IF byte[2] = 3 THEN message[byte[1]].segment ELSE "garbage"

Divisor(segment) ==
  CASE segment = "CDS"    -> 10000000
    [] segment = "BSECDS" -> 10000
    [] OTHER              -> 100

Tick(packet) ==
  LET segment == SegmentAt(packet[4])
  IN  [mode       |-> ModeOf(Len(packet)),
       isTradable |-> segment # "INDICES",
       divisor    |-> Divisor(segment),
       values     |-> {<<f.name, Slice(packet, f.start, f.end)>> :
                         f \in Fields(Len(packet))}]

\* One turn of the loop of parseBinaryMessage, which begins when all packets
\* are cut.
parseBinaryMessage ==
  /\ Len(packets) = unpackInt16(Bytes(message), 0)
  /\ Len(ticks) < Len(packets)
  /\ ticks' = Append(ticks, Tick(packets[Len(ticks) + 1]))
  /\ UNCHANGED <<message, packetLengthStartIdx, packets>>

Next == splitPackets \/ parseBinaryMessage
Spec == Init /\ [][Next]_vars

-----------------------------------------------------------------------------
(* Correctness.                                                            *)

\* The packets that are cut are those the server put in, whatever mix of
\* sizes it sends: the cursor is never off by the two bytes of a length, and
\* ends where the message ends.
CutsAtTheSeams ==
  /\ packets = [p \in 1..Len(packets) |-> Payload(message, p)]
  /\ Len(packets) = Len(message) => packetLengthStartIdx = Len(Bytes(message))

BytesOf(value) == {value[2][k] : k \in DOMAIN value[2]}

\* The two bytes that fill up an entry of the market depth.
Padding(p) == {<<p, 64 + 12 * i + k>> : i \in Entries, k \in {10, 11}}

\* In a packet of a known size every byte is read, and read into one field
\* only, except the padding of the market depth, which no field reads.
EveryByteOnce ==
  \A p \in DOMAIN ticks :
     LET read == {BytesOf(v) : v \in ticks[p].values}
     IN  /\ \A v, w \in ticks[p].values : v # w => BytesOf(v) \cap BytesOf(w) = {}
         /\ message[p].mode # "other" =>
              UNION read = {<<p, k>> : k \in 0..(Len(packets[p]) - 1)}
                             \ (IF Len(packets[p]) = FULL_PACKET_SIZE
                                  THEN Padding(p) ELSE {})

\* A tick has the mode in which the server sent it although no byte says so,
\* and knows an index from an instrument that is traded: an instrument in
\* full mode, and only it, has five bids and five offers.
TicksTellTheMode ==
  \A p \in DOMAIN ticks :
     LET depth(side) == {v[1] : v \in {w \in ticks[p].values :
                                         w[1] \in {<<side, i, "price">> : i \in 0..4}}}
     IN  /\ ticks[p].mode = message[p].mode
         /\ ticks[p].isTradable <=> message[p].segment # "INDICES"
         /\ \A side \in {"buy", "sell"} :
              Cardinality(depth(side)) =
                IF ticks[p].mode = "full" /\ ticks[p].isTradable THEN 5 ELSE 0

=============================================================================
