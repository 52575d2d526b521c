---------------------------- MODULE ClientGoBackN ----------------------------
(***************************************************************************)
(* client_go_back_N_strategy: the receiver in go_back_n mode.  Each action *)
(* is one call of run(): a recvfrom, the branch the packet selects, and    *)
(* the ACK it sends.                                                       *)
(*                                                                         *)
(* Definitions named Buggy... are mistakes the properties are tested       *)
(* against; the model does not use them.                                   *)
(***************************************************************************)
EXTENDS GoBackNDatagrams

CONSTANT ClientWindowSize    \* default_window_size of client.in

ASSUME ClientWindowAssumption == ClientWindowSize \in Nat \ {0}

VARIABLES expected_seqno,    \* the first packet has number 0
          file_written,      \* the payloads written to the output file
          client_done,       \* the reception has ended
          client_cut         \* history: a corrupted packet has ended it

clientVars == <<expected_seqno, file_written, client_done, client_cut>>

ClientInit == /\ expected_seqno = 0
              /\ file_written = <<>>
              /\ client_done = FALSE
              /\ client_cut = FALSE

InWindow(seqno) ==
  seqno >= expected_seqno /\ seqno < (expected_seqno + ClientWindowSize) % SeqnoSpace

\* A mistake: one too many.
BuggyLastSeqno == expected_seqno

\* "ack of last received packet", which wraps around when there is none.
LastSeqno == (expected_seqno - 1) % SeqnoSpace

\* A mistake: a packet of the window is written whether it is in order or not.
BuggyInOrder(pkt) == TRUE

InOrder(pkt) == pkt.seqno = expected_seqno

\* The packet in order is written and ACKed.
ReceiveExpected(pkt) ==
  /\ ~client_done
  /\ TakeFromServer(pkt)
  /\ InWindow(pkt.seqno)
  /\ ~IsTerminal(pkt)
  /\ InOrder(pkt)
  /\ file_written' = Append(file_written, pkt.data)
  /\ expected_seqno' = (expected_seqno + 1) % SeqnoSpace
  /\ SendToServer(pkt.seqno)
  /\ UNCHANGED <<client_done, client_cut>>

\* A packet of the window that is out of order is discarded.
ReceiveOther(pkt) ==
  /\ ~client_done
  /\ TakeFromServer(pkt)
  /\ InWindow(pkt.seqno)
  /\ ~IsTerminal(pkt)
  /\ ~InOrder(pkt)
  /\ SendToServer(LastSeqno)
  /\ UNCHANGED clientVars

\* An empty packet of the window ends the reception.
ReceiveTerminal(pkt) ==
  /\ ~client_done
  /\ TakeFromServer(pkt)
  /\ InWindow(pkt.seqno)
  /\ IsTerminal(pkt)
  /\ client_done' = TRUE
  /\ UNCHANGED <<expected_seqno, file_written, client_cut, toServer>>

\* A packet outside the window, an old one too, is dropped without an ACK.
ReceiveOutside(pkt) ==
  /\ ~client_done
  /\ TakeFromServer(pkt)
  /\ ~InWindow(pkt.seqno)
  /\ UNCHANGED <<clientVars, toServer>>

\* The number is read before the checksum is looked at: corrupted, it may be any.
ReadsInWindow == \E seqno \in 0..(SeqnoSpace - 1) : InWindow(seqno)

\* A corrupted packet that reads as one of the window is discarded ...
ReceiveCorrupted(pkt) ==
  /\ ~client_done
  /\ TakeFromServer(pkt)
  /\ ReadsInWindow
  /\ ~IsTerminal(pkt)
  /\ SendToServer(LastSeqno)
  /\ UNCHANGED clientVars

\* ... but the test for the empty packet comes before the one of the checksum: if its
\* length reads HEADER_SIZE, or it has no data anyway, it ends the reception.
ReceiveCut(pkt) ==
  /\ ~client_done
  /\ TakeFromServer(pkt)
  /\ ReadsInWindow
  /\ MayBeLost(pkt)
  /\ client_done' = TRUE
  /\ client_cut' = TRUE
  /\ UNCHANGED <<expected_seqno, file_written, toServer>>

Run(pkt) == \/ ReceiveExpected(pkt)
            \/ ReceiveOther(pkt)
            \/ ReceiveTerminal(pkt)
            \/ ReceiveOutside(pkt)
            \/ ReceiveCorrupted(pkt)
            \/ ReceiveCut(pkt)
==============================================================================
