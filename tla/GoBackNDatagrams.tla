-------------------------- MODULE GoBackNDatagrams ---------------------------
(***************************************************************************)
(* Sequence numbers in go_back_n mode: packets are numbered from whatever  *)
(* value next_seq_number has, and both sides compute modulo 2^32.          *)
(***************************************************************************)
EXTENDS UdpNetwork, Integers

CONSTANT SeqnoSpace    \* 2^32

ASSUME SeqnoSpaceAssumption == SeqnoSpace \in Nat /\ SeqnoSpace > Len(File) + 1

\* The number of packet k of the file when the first one has number first.
Number(first, k) == (first + k - 1) % SeqnoSpace

NumberedPacket(first, k) == DataPacket(File[k], Number(first, k))
==============================================================================
