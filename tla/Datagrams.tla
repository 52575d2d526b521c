------------------------------ MODULE Datagrams ------------------------------
(***************************************************************************)
(* The datagrams the two programs exchange (shared/), as far as the        *)
(* protocol tells them apart.                                              *)
(*                                                                         *)
(* A data packet is its sequence number and its payload.  The file being   *)
(* sent is the sequence of payloads packet_builder cuts it into; a payload *)
(* of the file is never empty, so the empty payload NoData marks the       *)
(* terminal packet.  An ACK is its ackno.  Both kinds of datagram carry    *)
(* seqno/ackno in their first four bytes, so that                          *)
(*   - the server reads a repeated file request as an ACK with ackno 0;    *)
(*   - the client reads the ACK of its request as a data packet with       *)
(*     seqno 0 and no payload.                                             *)
(* The length field is determined by the payload.  The checksum is a flag  *)
(* chosen when a datagram is received: corrupted or not.                   *)
(***************************************************************************)
EXTENDS Naturals, Sequences

CONSTANTS Data,    \* payloads of 1 to MAX_DATA_SIZE bytes
          NoData,  \* the empty payload
          File     \* the requested file, cut into payloads

ASSUME FileAssumption == File \in Seq(Data) /\ NoData \notin Data

\* The sequence numbers of the file's packets when numbering starts at 1.
Seqno == 1..Len(File)

DataPacket(data, seqno) == [seqno |-> seqno, data |-> data]

\* packet_builder numbers the file's packets in the order it reads them.
FilePacket(seqno) == DataPacket(File[seqno], seqno)

IsTerminal(pkt) == pkt.data = NoData

\* The ACK of the file request, ack_packet(), as data_packet::unpack reads it.
RequestAck == DataPacket(NoData, 0)

\* The file request, data_packet(name, 0), as ack_packet::unpack reads it.
RepeatedRequest == 0
==============================================================================
