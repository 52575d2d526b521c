-------------------------------- MODULE Packets --------------------------------
(***************************************************************************)
(* A packet on its way: the sender computes its checksum and packs it into *)
(* chars, one char may change in the network, and the receiver unpacks     *)
(* what it got and computes the checksum of that.  An ACK is a packet      *)
(* without data.  A sequence number is a pair of 16-bit halves.            *)
(***************************************************************************)
EXTENDS Checksum, FiniteSetsExt

CONSTANTS Halves,      \* 16-bit halves of sequence numbers
          Chars,       \* what the data is made of
          MaxData      \* bound on the length of the data

HEADER_SIZE == 8

ASSUME PacketAssumption == /\ Halves \subseteq 0..(Word - 1)
                           /\ Chars \subseteq -128..127
                           /\ MaxData \in 0..(Word - 1 - HEADER_SIZE)

VARIABLES packet,       \* the packet sent
          intact,       \* history: nothing changed on the way
          received,     \* the packet unpacked
          phase         \* whose calculate_checksum runs: "sender" or "receiver"

vars == <<sumVars, packet, intact, received, phase>>

\* A byte stored in a char, which is signed, and a char read with the mask 0xFF.
Char(byte) == IF byte < 128 THEN byte ELSE byte - 256
Byte(char) == char % 256

BuggySummed(p) == <<p.len, p.low>> \o [i \in DOMAIN p.data |-> Byte(p.data[i])]

\* What calculate_checksum adds up.
Summed(p) == <<p.len, p.low, p.high>> \o [i \in DOMAIN p.data |-> Byte(p.data[i])]

Calculate(p) == rest' = Summed(p) /\ check_sum' = 0 /\ total' = 0

\* The constructors of data_packet and ack_packet.
Packet(low, high, data) ==
  [len |-> Len(data) + HEADER_SIZE, low |-> low, high |-> high, data |-> data]

Split(word) == <<Char(word % 256), Char(word \div 256)>>

BuggyJoin(first, second) == Byte(second) + Byte(first) * 256

Join(first, second) == Byte(first) + Byte(second) * 256

\* pack and unpack.  The length field says where the data ends; if it is less
\* than the header, the length of the data wraps around, and nothing is cut.
Pack(p, cksum) == Split(p.low) \o Split(p.high) \o Split(p.len) \o Split(cksum) \o p.data

Unpack(chars) ==
  LET len == Join(chars[5], chars[6])
      end == IF len < HEADER_SIZE THEN Len(chars) ELSE Min({len, Len(chars)})
  IN  [low |-> Join(chars[1], chars[2]), high |-> Join(chars[3], chars[4]), len |-> len,
       cksum |-> Join(chars[7], chars[8]), data |-> SubSeq(chars, HEADER_SIZE + 1, end)]

Init ==
  /\ \E n \in 0..MaxData : \E data \in [1..n -> Chars], low, high \in Halves :
       packet = Packet(low, high, data)
  /\ rest = Summed(packet) /\ check_sum = 0 /\ total = 0
  /\ intact = TRUE
  /\ received = Unpack(Pack(packet, 0))
  /\ phase = "sender"

Arrive(chars) ==
  /\ phase = "sender" /\ rest = <<>>
  /\ phase' = "receiver"
  /\ received' = Unpack(chars)
  /\ Calculate(received')
  /\ UNCHANGED packet

ArriveIntact == Arrive(Pack(packet, check_sum)) /\ intact' = TRUE

ArriveCorrupted ==
  LET chars == Pack(packet, check_sum)
  IN  \E i \in DOMAIN chars : \E char \in Chars \ {chars[i]} :
        Arrive([chars EXCEPT ![i] = char]) /\ intact' = FALSE

Next == \/ Add /\ UNCHANGED <<packet, intact, received, phase>>
        \/ ArriveIntact
        \/ ArriveCorrupted

Spec == Init /\ [][Next]_vars

-----------------------------------------------------------------------------
\* "packet->get_cksum() == packet_util::calculate_checksum(packet)"
Accepted == phase = "receiver" /\ rest = <<>> /\ received.cksum = check_sum

Contents(p) == <<p.low, p.high, p.data>>

\* The one change that may pass: the high byte of the length was reduced, and unpack
\* has cut 256 bytes of the data, or a multiple of that, off its end.
TailCut(p, r) ==
  /\ r.low = p.low /\ r.high = p.high
  /\ r.len >= HEADER_SIZE
  /\ Len(r.data) = r.len - HEADER_SIZE
  /\ \E k \in 1..255 : p.len = r.len + 256 * k
  /\ \A j \in 1..Len(r.data) : r.data[j] = p.data[j]

\* A packet in which one char changed on the way, be it of the number, the
\* length, the checksum or the data, is not accepted, unless its data was cut:
\* an accepted packet has the number that was sent, and the data that was sent,
\* or, if that had 256 bytes or more, its beginning.
AcceptedIsSent ==
  Accepted => \/ intact /\ Contents(received) = Contents(packet)
              \/ ~intact /\ TailCut(packet, received)

\* A packet that nothing happened to is accepted.
IntactIsAccepted == phase = "receiver" /\ rest = <<>> /\ intact => Accepted
===============================================================================
