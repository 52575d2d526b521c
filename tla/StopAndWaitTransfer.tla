------------------------- MODULE StopAndWaitTransfer -------------------------
(***************************************************************************)
(* One file transfer in stop_and_wait mode: the worker and timer threads   *)
(* (StopAndWaitStrategy) and the client, which is the selective repeat     *)
(* client with a window of one (ClientSelectiveRepeat), over the network   *)
(* they share.                                                             *)
(***************************************************************************)
EXTENDS StopAndWaitStrategy, ClientSelectiveRepeat

ASSUME ClientWindowIsOne == ClientWindowSizes = {1}

vars == <<netVars, serverVars, clientVars>>

Init == NetworkInit /\ ServerInit /\ ClientInit

Client == \E pkt \in toClient : \/ ReceiveNew(pkt) \/ ReceiveOld(pkt)
                                \/ ReceiveTerminal(pkt) \/ ReceiveFar(pkt)
                                \/ ReceiveCorrupted(pkt)

Next == \/ Worker /\ UNCHANGED clientVars
        \/ Timer /\ UNCHANGED clientVars
        \/ Client /\ UNCHANGED serverVars
        \/ (LoseData \/ LoseAck) /\ UNCHANGED <<serverVars, clientVars>>

Spec == Init /\ [][Next]_vars

-----------------------------------------------------------------------------
(***************************************************************************)
(* Fairness, as in SelectiveRepeatTransfer.  The timer thread waits for    *)
(* the packets of its set in the order of their time stamps, which         *)
(* re-sending renews: each has its turn.                                   *)
(***************************************************************************)
Fairness ==
  /\ WF_vars((Start \/ Delete \/ Allocate \/ SendNext \/ Finish) /\ UNCHANGED clientVars)
  /\ WF_vars(TimerCheck /\ UNCHANGED clientVars)
  /\ \A a \in Addresses : SF_vars(TimerFirst(a) /\ UNCHANGED clientVars)
  /\ \A a \in Addresses :
       SF_vars(first_unacked_pkt = a /\ (TimerExpire \/ TimerResend) /\ UNCHANGED clientVars)
  /\ \A n \in Seqno : SF_vars(AckNew(n) /\ UNCHANGED clientVars)
  /\ \A n \in Seqno : SF_vars(ReceiveNew(FilePacket(n)) /\ UNCHANGED serverVars)
  /\ \A n \in Seqno : SF_vars(ReceiveOld(FilePacket(n)) /\ UNCHANGED serverVars)
  /\ WF_vars((\E pkt \in toClient : ReceiveTerminal(pkt)) /\ UNCHANGED serverVars)

FairSpec == Spec /\ Fairness

-----------------------------------------------------------------------------
WorkerPC == {"start", "idle", "delete", "allocate", "send", "finished"}
TimerPC == {"off", "check", "first", "compare", "resend"}

\* Every variable stays in its type: the worker uses no memory it has deleted,
\* and the client buffers nothing.
TypeOK ==
  /\ toClient \subseteq [seqno : 0..(Len(File) + 1), data : Data \cup {NoData}]
  /\ toServer \subseteq 0..Len(File)
  /\ heap \in [Addresses -> [seqno : 1..(Len(File) + 1), live : BOOLEAN]]
  /\ window \in Addresses \cup {Null}
  /\ unacked_packets \subseteq Addresses
  /\ next_seq_number \in 1..(Len(File) + 1)
  /\ worker_pc \in WorkerPC
  /\ timer_pc \in TimerPC
  /\ first_unacked_pkt \in Addresses \cup {Null}
  /\ server_up \in BOOLEAN
  /\ client_window_size = 1
  /\ expected_seqno \in 1..(Len(File) + 1)
  /\ client_window = <<>>
  /\ file_written \in Seq(Data)
  /\ client_done \in BOOLEAN

\* No packet is leaked and none deleted early: what is live is the packet in the
\* window, and it is the one read from the file last.
OneLivePacket ==
  \A a \in Addresses :
    heap[a].live <=> a = window /\ heap[a].seqno = next_seq_number - 1

\* Whatever the timer thread does with an old pointer, the packet in the window
\* stays in its set, or is about to be sent by one of the two threads.
TimerCovers ==
  window = Null \/ \/ window \in unacked_packets
                   \/ worker_pc \in {"start", "delete", "send"}
                   \/ timer_pc = "resend" /\ first_unacked_pkt = window

\* The server goes on to a packet only when the client has written all packets
\* before it.
PoppedIsWritten ==
  /\ window # Null => heap[window].seqno <= expected_seqno
  /\ worker_pc = "delete" => heap[window].seqno < expected_seqno
  /\ window = Null => next_seq_number <= expected_seqno

\* The timer thread brings the server down only with a packet the worker has let go
\* of: as long as the client has not got the first packet, its pointer is good and
\* its set not empty.
DownOnlyAfterAck == server_up \/ expected_seqno > 1

-----------------------------------------------------------------------------
Abstract == INSTANCE FileTransfer WITH written <- file_written, done <- client_done

AbstractSpec == Abstract!Spec

\* The transfer completes, unless the timer thread brings the server down.
Completion == <>(client_done \/ ~server_up)
==============================================================================
