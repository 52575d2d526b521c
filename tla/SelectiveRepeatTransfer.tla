----------------------- MODULE SelectiveRepeatTransfer -----------------------
(***************************************************************************)
(* One file transfer in selective_repeat mode: the server's worker and     *)
(* timer threads (SelectiveRepeatStrategy) and the client's receive loop   *)
(* (ClientSelectiveRepeat) over the network they share.  It starts where   *)
(* the worker thread has been dispatched and the client has entered        *)
(* receive_datagrams.                                                      *)
(***************************************************************************)
EXTENDS SelectiveRepeatStrategy, ClientSelectiveRepeat

vars == <<netVars, serverVars, clientVars>>

Init == NetworkInit /\ ServerInit /\ ClientInit

Client == \E pkt \in toClient : Run(pkt)

Next == \/ Worker /\ UNCHANGED clientVars
        \/ Timer /\ UNCHANGED clientVars
        \/ Client /\ UNCHANGED serverVars
        \/ (LoseData \/ LoseAck) /\ UNCHANGED <<serverVars, clientVars>>

Spec == Init /\ [][Next]_vars

-----------------------------------------------------------------------------
(***************************************************************************)
(* Fairness.  Both threads of the server keep running and nothing holds    *)
(* wnd_mutex or set_mutex forever, but the worker may take wnd_mutex       *)
(* between any two attempts of the timer thread, and a packet that stays   *)
(* unacknowledged times out in the end: strong fairness of what the timer  *)
(* thread does about a timeout.  The network may lose and delay, but when  *)
(* packets the client waits for, or ACKs the worker waits for, are sent    *)
(* again and again, one of them arrives; so does one of the copies of the  *)
(* packet at the front of the window, which the server repeats until the   *)
(* client has acknowledged it once more.                                   *)
(***************************************************************************)
Fairness ==
  /\ WF_vars((Start \/ ExpandWindow \/ InsertSent \/ HalveWindow) /\ UNCHANGED clientVars)
  /\ WF_vars((EndAcknowledge \/ Finish) /\ UNCHANGED clientVars)
  /\ WF_vars((TimerCheck \/ TimerFirst) /\ UNCHANGED clientVars)
  /\ SF_vars((TimerExpire \/ TimerListWindow \/ TimerResend) /\ UNCHANGED clientVars)
  /\ SF_vars((\E ackno \in toServer : AckNew(ackno)) /\ UNCHANGED clientVars)
  /\ SF_vars((\E pkt \in toClient : ReceiveNew(pkt)) /\ UNCHANGED serverVars)
  /\ SF_vars(window # <<>> /\ ReceiveOld(FilePacket(Head(window))) /\ UNCHANGED serverVars)
  /\ WF_vars((\E pkt \in toClient : ReceiveTerminal(pkt)) /\ UNCHANGED serverVars)

FairSpec == Spec /\ Fairness

\* The same, without datagrams left from the handshake.
CleanInit == Init /\ toClient = {} /\ toServer = {}

CleanFairSpec == CleanInit /\ [][Next]_vars /\ Fairness

-----------------------------------------------------------------------------
WorkerPC == {"start", "idle", "expand", "insert", "halve", "finished"}
TimerPC == {"off", "check", "first", "compare", "window", "resend"}

\* Every variable stays in its type.  For window_size this is the sender's
\* clamping: whatever mix of growth, timeouts and duplicate ACKs, at least one
\* and at most max_window_size.
TypeOK ==
  /\ toClient \subseteq [seqno : 0..(Len(File) + 1), data : Data \cup {NoData}]
  /\ toServer \subseteq 0..Len(File)
  /\ window \in Seq(Seqno)
  /\ aux_window \subseteq Seqno
  /\ acked \subseteq Seqno
  /\ unacked_packets \subseteq Seqno
  /\ next_seq_number \in 1..(Len(File) + 1)
  /\ window_size \in 1..MaxWindowSize
  /\ threshold \in Nat
  /\ worker_pc \in WorkerPC
  /\ timer_pc \in TimerPC
  /\ first_unacked_pkt \in 0..Len(File)
  /\ server_up \in BOOLEAN
  /\ client_window_size \in ClientWindowSizes
  /\ expected_seqno \in 1..(Len(File) + 1)
  /\ DOMAIN client_window \subseteq Seqno
  /\ file_written \in Seq(Data)
  /\ client_done \in BOOLEAN

\* Window w and auxiliary window aux are the packets from b on that have been
\* read from the file: the window the first of them, in order.
IsRun(b, w, aux, next) ==
  /\ b + Len(w) <= next
  /\ \A i \in 1..Len(w) : w[i] = b + i - 1
  /\ aux = (b + Len(w))..(next - 1)

\* Shrinking and growing the window neither loses nor reorders packets: the
\* window holds, in order, the oldest packets not popped yet, the auxiliary
\* window exactly those between it and the next packet to be read.
WindowIsRun ==
  \E b \in 1..next_seq_number : IsRun(b, window, aux_window, next_seq_number)

\* At no time does the window hold more packets than window_size allows.
WindowBounded == Len(window) <= window_size

\* Retransmission covers the window: a packet that waits for its ACK is in the
\* timer's set, unless the worker thread is just sending it, or the timer thread is
\* between taking a packet out of the set and re-sending the front of the window.
TimerCovers ==
  \A p \in Range(window) \ acked :
    \/ p \in unacked_packets
    \/ worker_pc = "start"
    \/ worker_pc = "insert" /\ p = window[Len(window)]
    \/ timer_pc \in {"window", "resend"}

\* The timer's set never holds a packet the worker has deleted: its comparator
\* dereferences every packet in it.
TimerSetLive == unacked_packets \subseteq Range(window)

\* An ACK the server counted stands for a packet the client keeps.
AckedIsReceived ==
  \A p \in acked : p < expected_seqno \/ p \in DOMAIN client_window

\* The server lets go of a packet only when the client has written it: the
\* window slides behind what the client has delivered.
PoppedIsWritten ==
  \A p \in 1..(next_seq_number - 1) : p \in Live \/ p < expected_seqno

\* What the client writes is the file: in order, no payload twice, none left
\* out, whatever is reordered, re-sent or duplicated on the way.
DeliveredPrefix ==
  /\ Len(file_written) = expected_seqno - 1
  /\ file_written = SubSeq(File, 1, expected_seqno - 1)

\* The timer thread brings the server down only where its set has run out: with no
\* packet in the window, and then, unless the worker thread is about to fill it
\* again, the client has the whole file and lacks nothing but the terminal packet;
\* or with one packet in the window that the worker thread has just sent and not yet
\* put into the set, and then the client has all packets before it.
DownOnlyAcked ==
  \/ server_up
  \/ window = <<>> /\ (worker_pc = "expand" \/ file_written = File)
  \/ worker_pc = "insert" /\ Len(window) = 1 /\ Head(window) <= expected_seqno

\* The terminal packet "inform[s] client that file transfer is complete": when
\* the client stops on it, it has the whole file.
CompleteWhenDone == client_done => file_written = File

-----------------------------------------------------------------------------
(* The client and the server together implement the abstract transfer.     *)
Abstract == INSTANCE FileTransfer WITH written <- file_written, done <- client_done

AbstractSpec == Abstract!Spec

\* The transfer completes, unless the timer thread brings the server down.
Completion == <>(client_done \/ ~server_up)

\* "Timer thread work, re-sends packet whenever it times out": where the timer
\* thread has decided to re-send and the worker is not at the window, there is a
\* packet to re-send.
TimeoutHasPacket ==
  timer_pc \in {"window", "resend"} /\ ~WindowLocked => window # <<>>
==============================================================================
