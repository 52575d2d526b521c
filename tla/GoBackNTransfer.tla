--------------------------- MODULE GoBackNTransfer ---------------------------
(***************************************************************************)
(* One file transfer in go_back_n mode: the worker and timer threads       *)
(* (GoBackNStrategy) and the client's receive loop (ClientGoBackN) over    *)
(* the network they share, from where the worker thread has been           *)
(* dispatched and the client has entered receive_datagrams.                *)
(***************************************************************************)
EXTENDS GoBackNStrategy, ClientGoBackN

vars == <<netVars, serverVars, clientVars>>

Init == NetworkInit /\ ServerInit /\ ClientInit

Client == \E pkt \in toClient : Run(pkt)

Next == \/ Worker /\ UNCHANGED clientVars
        \/ Timer /\ UNCHANGED clientVars
        \/ Client /\ UNCHANGED serverVars
        \/ (LoseData \/ LoseAck) /\ UNCHANGED <<serverVars, clientVars>>

Spec == Init /\ [][Next]_vars

\* The transfers in which two numbers are not taken for another packet's.  The
\* client acknowledges 2^32 - 1 when it has received nothing: no packet of the first
\* window has it, so that no later one of it has the number 0 either, with which the
\* client's file starts.  And the two datagrams of the handshake have the number 0:
\* neither is in flight, else the client may stop at once, and the server skip
\* packets.
CleanInit == /\ Init
             /\ toClient = {} /\ toServer = {}
             /\ \A i \in 1..Len(window) : SeqnoOf(window[i]) # SeqnoSpace - 1

CleanSpec == CleanInit /\ [][Next]_vars

-----------------------------------------------------------------------------
WorkerPC == {"start", "insert", "idle", "advance", "advance_insert", "finished"}
TimerPC == {"off", "first", "compare", "relock"}
SeqnoType == 0..(SeqnoSpace - 1)

\* Every variable stays in its type.  For the acked run, that is that
\* advance_window never pops more than the window holds.
TypeOK ==
  /\ toClient \subseteq [seqno : SeqnoType, data : Data \cup {NoData}]
  /\ toServer \subseteq SeqnoType
  /\ first_seqno \in SeqnoType
  /\ window \in Seq(Seqno)
  /\ Len(window) <= WindowSize
  /\ next_packet \in 1..(Len(File) + 1)
  /\ unacked_packets \subseteq Seqno
  /\ set_mutex \in {"free", "timer"}
  /\ worker_pc \in WorkerPC
  /\ to_send \in 0..Len(window)
  /\ acked_run \in 0..Len(window)
  /\ timer_pc \in TimerPC
  /\ server_up \in BOOLEAN
  /\ expected_seqno \in SeqnoType
  /\ file_written \in Seq(Data)
  /\ client_done \in BOOLEAN
  /\ client_cut \in BOOLEAN

\* The window holds the packets read from the file last, in order; when it has
\* given up a packet, it is as full as the file allows.
WindowIsRun ==
  /\ \A i \in 1..Len(window) : window[i] = next_packet - Len(window) + i - 1
  /\ HasNext => Len(window) = WindowSize

\* The timer's set is the packets of the window that were sent and not ACKed,
\* but for the one being sent.
TimerCovers ==
  LET sending == CASE worker_pc \in {"start", "insert"} -> to_send
                   [] worker_pc = "advance_insert" -> 1
                   [] OTHER -> 0
  IN  unacked_packets = {window[i] : i \in (acked_run + 1)..(Len(window) - sending)}

\* "Ack received for packet with seqno": a packet the server takes an ACK for,
\* and those before it, have been written by the client.
PoppedIsWritten ==
  next_packet - Len(window) + acked_run - 1 <= Len(file_written)

\* The client writes the file in order, no payload twice, none left out.
DeliveredPrefix ==
  /\ Len(file_written) = expected_seqno
  /\ file_written = SubSeq(File, 1, Len(file_written))

-----------------------------------------------------------------------------
\* The abstract transfer stops with the whole file; a reception that a corrupted
\* packet ends is one that does not stop, and writes no more.
Abstract == INSTANCE FileTransfer WITH written <- file_written,
                                       done <- client_done /\ ~client_cut

AbstractSpec == Abstract!Spec

\* "File received fully from server": the client says so only when it holds the
\* whole file.
CompleteWhenDone == client_done => file_written = File

\* The same, but for a corrupted packet that ends the reception.
CompleteUnlessCut == client_done => client_cut \/ file_written = File

\* After a timeout the transfer is never completed: the server does not get to the
\* end of the file, so that the client waits for ever, or until a corrupted packet
\* ends the reception.
TimeoutIsFinal ==
  timer_pc = "relock" => worker_pc # "finished" /\ (client_done => client_cut)

\* The timer thread brings the server down only where the client has written every
\* packet that was handed out, but for one the worker thread is just sending.
DownOnlyAcked ==
  server_up \/ \A k \in 1..(next_packet - 1) :
                 \/ k <= Len(file_written)
                 \/ k = next_packet - 1 /\ worker_pc = "advance_insert"

\* "Timeout!Resending pakcet.....": the timer thread that re-sends is not waiting
\* for a mutex it holds itself.
TimeoutResends == ~(timer_pc = "relock" /\ set_mutex = "timer")
==============================================================================
