----------------------------- MODULE UdpNetwork ------------------------------
(***************************************************************************)
(* The UDP path between the server's socket and one client, as the two     *)
(* programs use it: the datagrams in flight in each direction, in no       *)
(* order.  A datagram may be received in any order, more than once, or     *)
(* never.  Identical datagrams in flight are one element; that a datagram  *)
(* may stay in flight after being received stands for its copies.          *)
(*                                                                         *)
(* Losses come from the network and from packet_sender, which drops data   *)
(* packets on purpose; both are a datagram that leaves the set unread.     *)
(* toServer also covers the queue worker_threads_acks in which the         *)
(* server's main thread leaves an ACK for the worker thread.               *)
(***************************************************************************)
EXTENDS Datagrams

VARIABLES toClient,  \* data packets in flight to the client
          toServer   \* acknos in flight to the worker thread

netVars == <<toClient, toServer>>

\* The transfer starts with the handshake's leftovers possibly in flight:
\* the ACK of the request, when the client took another datagram for it, and
\* a request the client repeated.
NetworkInit == /\ toClient \in SUBSET {RequestAck}
               /\ toServer \in SUBSET {RepeatedRequest}

\* A received datagram leaves the set, or stays as a copy of itself.
TakeFromServer(pkt) == /\ pkt \in toClient
                       /\ toClient' \in {toClient, toClient \ {pkt}}

TakeFromClient(ackno) == /\ ackno \in toServer
                         /\ toServer' \in {toServer, toServer \ {ackno}}

SendToClient(pkt) == toClient' = toClient \cup {pkt}

SendToServer(ackno) == toServer' = toServer \cup {ackno}

\* A packet is lost, by packet_sender or on the way.  The terminal packet is
\* not: send_empty_packet bypasses packet_sender and assumes no loss.
MayBeLost(pkt) == ~IsTerminal(pkt) \/ pkt = RequestAck

LoseData == /\ \E pkt \in toClient : /\ MayBeLost(pkt)
                                     /\ toClient' = toClient \ {pkt}
            /\ UNCHANGED toServer

LoseAck == /\ \E ackno \in toServer : toServer' = toServer \ {ackno}
           /\ UNCHANGED toClient
==============================================================================
