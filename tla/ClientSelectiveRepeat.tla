------------------------ MODULE ClientSelectiveRepeat ------------------------
(***************************************************************************)
(* client_selective_repeat_strategy: the receiver used by the client in    *)
(* selective_repeat mode and, with a window of one, in stop_and_wait mode. *)
(*                                                                         *)
(* The client is one thread; each action is one call of run(): a recvfrom, *)
(* the branch the packet's sequence number selects, and the ACK it sends.  *)
(* The std::set of buffered packets is compared by seqno only, so it is a  *)
(* partial function from sequence numbers to payloads.                     *)
(* Definitions named Buggy... are mistakes the properties are tested       *)
(* against; the model does not use them.                                   *)
(***************************************************************************)
EXTENDS UdpNetwork

CONSTANT ClientWindowSizes   \* what default_window_size of client.in may be

ASSUME ClientWindowAssumption == ClientWindowSizes \subseteq Nat \ {0}

VARIABLES client_window_size,
          expected_seqno,    \* base of the receive window
          client_window,     \* packets buffered out of order
          file_written,      \* the payloads written to the output file
          client_done        \* the terminal packet was accepted

clientVars == <<client_window_size, expected_seqno, client_window, file_written, client_done>>

ClientInit == /\ client_window_size \in ClientWindowSizes
              /\ expected_seqno = 1
              /\ client_window = <<>>
              /\ file_written = <<>>
              /\ client_done = FALSE

InWindow(seqno) == /\ seqno >= expected_seqno
                   /\ seqno < expected_seqno + client_window_size

Buffered(seqno) == seqno \in DOMAIN client_window

Buffer(pkt) == [s \in DOMAIN client_window \cup {pkt.seqno} |->
                  IF s = pkt.seqno THEN pkt.data ELSE client_window[s]]

\* A mistake: the first packet is written each time.
BuggyDelivered(w, n) == [i \in 1..n |-> w[expected_seqno]]

Delivered(w, n) == [i \in 1..n |-> w[expected_seqno + i - 1]]

\* deliver_buffered_packets on the window w: the packets that follow each
\* other from expected_seqno on are written and leave the window.
DeliverBuffered(w) ==
  \E n \in 0..client_window_size :
    LET delivered == expected_seqno..(expected_seqno + n - 1)
    IN  /\ delivered \subseteq DOMAIN w
        /\ expected_seqno + n \notin DOMAIN w
        /\ file_written' = file_written \o Delivered(w, n)
        /\ client_window' = [s \in DOMAIN w \ delivered |-> w[s]]
        /\ expected_seqno' = expected_seqno + n

-----------------------------------------------------------------------------
\* A packet in the window that was not received before: it is buffered,
\* delivered with those it completes if it is the expected one, and ACKed.
ReceiveNew(pkt) ==
  /\ ~client_done
  /\ TakeFromServer(pkt)
  /\ InWindow(pkt.seqno)
  /\ ~IsTerminal(pkt)
  /\ ~Buffered(pkt.seqno)
  /\ IF pkt.seqno = expected_seqno
     THEN DeliverBuffered(Buffer(pkt))
     ELSE /\ client_window' = Buffer(pkt)
          /\ UNCHANGED <<expected_seqno, file_written>>
  /\ SendToServer(pkt.seqno)
  /\ UNCHANGED <<client_window_size, client_done>>

\* A packet that is buffered already: no ACK.
ReceiveBuffered(pkt) ==
  /\ ~client_done
  /\ TakeFromServer(pkt)
  /\ InWindow(pkt.seqno)
  /\ ~IsTerminal(pkt)
  /\ Buffered(pkt.seqno)
  /\ UNCHANGED <<clientVars, toServer>>

\* A mistake: it is not ACKed again.
BuggyAckAgain(pkt) == UNCHANGED toServer

AckAgain(pkt) == SendToServer(pkt.seqno)

\* A packet from a previous window was received and ACKed: ACK it again.
ReceiveOld(pkt) ==
  /\ ~client_done
  /\ TakeFromServer(pkt)
  /\ pkt.seqno < expected_seqno
  /\ AckAgain(pkt)
  /\ UNCHANGED clientVars

\* A mistake: an empty packet ends the reception whatever its number.
BuggyEndsReception(pkt) == IsTerminal(pkt)

EndsReception(pkt) == InWindow(pkt.seqno) /\ IsTerminal(pkt)

\* The empty packet ends the reception.
ReceiveTerminal(pkt) ==
  /\ ~client_done
  /\ TakeFromServer(pkt)
  /\ EndsReception(pkt)
  /\ client_done' = TRUE
  /\ UNCHANGED <<client_window_size, expected_seqno, client_window, file_written, toServer>>

\* A mistake: it is ACKed.
BuggyDrop(pkt) == SendToServer(pkt.seqno)

Drop(pkt) == UNCHANGED toServer

\* A packet beyond the window is dropped.
ReceiveFar(pkt) ==
  /\ ~client_done
  /\ TakeFromServer(pkt)
  /\ pkt.seqno >= expected_seqno + client_window_size
  /\ Drop(pkt)
  /\ UNCHANGED clientVars

\* A packet whose checksum does not match is dropped; for the terminal packet
\* that would be a loss, which the program assumes away.
ReceiveCorrupted(pkt) ==
  /\ ~client_done
  /\ TakeFromServer(pkt)
  /\ MayBeLost(pkt)
  /\ UNCHANGED <<clientVars, toServer>>

Run(pkt) == \/ ReceiveNew(pkt)
            \/ ReceiveBuffered(pkt)
            \/ ReceiveOld(pkt)
            \/ ReceiveTerminal(pkt)
            \/ ReceiveFar(pkt)
            \/ ReceiveCorrupted(pkt)
==============================================================================
