--------------------------- MODULE GoBackNStrategy ---------------------------
(***************************************************************************)
(* go_back_N_strategy, the sender: a worker thread that sends the window   *)
(* and slides it on cumulative ACKs, and a timer thread.                   *)
(*                                                                         *)
(* Only unacked_packets is protected, by set_mutex, which is not           *)
(* recursive: handle_time_out holds it around a call of send_packet, which *)
(* locks it again and waits for itself.  A step of the model is a critical *)
(* section of set_mutex, or the code between two of them.  Packets are     *)
(* never deleted.                                                          *)
(*                                                                         *)
(* A packet is identified with its place in the file.  The constructor     *)
(* does not set next_seq_number: the first packet gets the number that is  *)
(* in the object's memory.  Time is abstracted as in                       *)
(* SelectiveRepeatStrategy.                                                *)
(*                                                                         *)
(* Definitions named Buggy... are mistakes the properties are tested       *)
(* against; the model does not use them.                                   *)
(***************************************************************************)
EXTENDS GoBackNDatagrams, Functions

CONSTANTS WindowSize,     \* DEFAULT_WINDOW_SIZE, 200
          FirstSeqnos     \* values next_seq_number may start with

ASSUME GoBackNAssumption == /\ WindowSize \in Nat \ {0}
                            /\ FirstSeqnos \subseteq 0..(SeqnoSpace - 1)

VARIABLES first_seqno,        \* what next_seq_number started with
          window,             \* the deque of packets being sent
          next_packet,        \* the next packet packet_builder hands out
          unacked_packets,    \* the timer's set
          set_mutex,          \* "free", or "timer" when it is held for good
          worker_pc,          \* "start", "insert", "idle", "advance",
                              \* "advance_insert" or "finished"
          to_send,            \* packets start() has still to send
          acked_run,          \* acked packets at the front of the window
          timer_pc,           \* "off", "first", "compare" or "relock"
          server_up           \* FALSE once the process has crashed

sendVars == <<first_seqno, window, next_packet, to_send, acked_run>>
serverVars == <<sendVars, unacked_packets, set_mutex, worker_pc, timer_pc, server_up>>

HasNext == next_packet <= Len(File)

SeqnoOf(k) == Number(first_seqno, k)

\* The constructor, with fill_window.
ServerInit ==
  /\ first_seqno \in FirstSeqnos
  /\ window = [k \in 1..(IF Len(File) < WindowSize THEN Len(File) ELSE WindowSize) |-> k]
  /\ next_packet = Len(window) + 1
  /\ unacked_packets = {}
  /\ set_mutex = "free"
  /\ worker_pc = "start"
  /\ to_send = Len(window)
  /\ acked_run = 0
  /\ timer_pc = "off"
  /\ server_up = TRUE

\* A thread goes from one place to another.
WorkerAt(from, to) ==
  /\ server_up
  /\ worker_pc = from
  /\ worker_pc' = to
  /\ UNCHANGED <<first_seqno, set_mutex, server_up>>

TimerAt(from, to) ==
  /\ server_up
  /\ timer_pc = from
  /\ timer_pc' = to
  /\ UNCHANGED <<sendVars, unacked_packets, worker_pc, server_up>>

\* send_packet up to its critical section ...
SendPacket(k) == SendToClient(NumberedPacket(first_seqno, k))

\* A mistake: the timer does not learn of the packet.
BuggyInsert(k) == UNCHANGED unacked_packets

\* ... and in it.
Insert(k) == unacked_packets' = unacked_packets \cup {k}

-----------------------------------------------------------------------------
(* The worker thread.                                                      *)

\* start() sends the next packet of the window ...
StartSend ==
  /\ WorkerAt("start", "insert")
  /\ to_send > 0
  /\ SendPacket(window[Len(window) - to_send + 1])
  /\ UNCHANGED <<window, next_packet, to_send, acked_run, unacked_packets, timer_pc, toServer>>

\* ... which enters the timer's set; after the first, the timer thread starts.
StartInsert ==
  /\ WorkerAt("insert", "start")
  /\ set_mutex = "free"
  /\ Insert(window[Len(window) - to_send + 1])
  /\ to_send' = to_send - 1
  /\ timer_pc' = IF timer_pc = "off" THEN "first" ELSE timer_pc
  /\ UNCHANGED <<window, next_packet, acked_run, netVars>>

StartEnd ==
  /\ WorkerAt("start", "idle")
  /\ to_send = 0
  /\ UNCHANGED <<window, next_packet, to_send, acked_run, unacked_packets, timer_pc, netVars>>

\* acknowledge_packet: the ACK of a packet of the window acknowledges it and
\* those before it.
Acknowledge(ackno) ==
  /\ WorkerAt("idle", "advance")
  /\ set_mutex = "free"
  /\ TakeFromClient(ackno)
  /\ \E i \in 1..Len(window) :
       /\ SeqnoOf(window[i]) = ackno
       /\ unacked_packets' = unacked_packets \ {window[j] : j \in 1..i}
       /\ acked_run' = i
  /\ UNCHANGED <<window, next_packet, to_send, timer_pc, toClient>>

\* Any other ACK is skipped.
AckIgnored(ackno) ==
  /\ WorkerAt("idle", "idle")
  /\ window # <<>>
  /\ TakeFromClient(ackno)
  /\ \A i \in 1..Len(window) : SeqnoOf(window[i]) # ackno
  /\ UNCHANGED <<window, next_packet, to_send, acked_run, unacked_packets, timer_pc, toClient>>

\* A mistake: the loop does not look whether the packet is acked.
BuggyFrontAcked == window # <<>>

FrontAcked == acked_run > 0

\* A mistake: the packet read from the file is not put into the window.
BuggySlide(k) == Tail(window)

Slide(k) == Append(Tail(window), k)

\* advance_window pops an acked packet; the next of the file, if there is one,
\* enters the window and is sent ...
AdvanceNext ==
  /\ WorkerAt("advance", "advance_insert")
  /\ FrontAcked
  /\ HasNext
  /\ SendPacket(next_packet)
  /\ window' = Slide(next_packet)
  /\ next_packet' = next_packet + 1
  /\ acked_run' = acked_run - 1
  /\ UNCHANGED <<to_send, unacked_packets, timer_pc, toServer>>

\* ... and enters the timer's set.
AdvanceInsert ==
  /\ WorkerAt("advance_insert", "advance")
  /\ set_mutex = "free"
  /\ Insert(window[Len(window)])
  /\ UNCHANGED <<window, next_packet, to_send, acked_run, timer_pc, netVars>>

\* At the end of the file it only pops.
AdvanceLast ==
  /\ WorkerAt("advance", "advance")
  /\ FrontAcked
  /\ ~HasNext
  /\ window' = Tail(window)
  /\ acked_run' = acked_run - 1
  /\ UNCHANGED <<next_packet, to_send, unacked_packets, timer_pc, netVars>>

AdvanceEnd ==
  /\ WorkerAt("advance", "idle")
  /\ ~FrontAcked
  /\ UNCHANGED <<window, next_packet, to_send, acked_run, unacked_packets, timer_pc, netVars>>

\* is_done(): the window is empty; the client is told with the empty packet.
Finish ==
  /\ WorkerAt("idle", "finished")
  /\ window = <<>>
  /\ SendToClient(DataPacket(NoData, SeqnoOf(next_packet)))
  /\ UNCHANGED <<window, next_packet, to_send, acked_run, unacked_packets, timer_pc, toServer>>

Worker == \/ StartSend \/ StartInsert \/ StartEnd
          \/ \E ackno \in toServer : Acknowledge(ackno) \/ AckIgnored(ackno)
          \/ AdvanceNext \/ AdvanceInsert \/ AdvanceLast \/ AdvanceEnd
          \/ Finish

-----------------------------------------------------------------------------
(* The timer thread, handle_time_out.                                      *)

\* Under set_mutex the oldest packet is read ...
TimerFirst ==
  /\ TimerAt("first", "compare")
  /\ set_mutex = "free"
  /\ unacked_packets # {}
  /\ UNCHANGED <<set_mutex, netVars>>

\* ... or, when the set is empty, a null pointer, whose time stamp is a fault.
TimerCrash ==
  /\ server_up
  /\ timer_pc = "first"
  /\ set_mutex = "free"
  /\ unacked_packets = {}
  /\ server_up' = FALSE
  /\ UNCHANGED <<sendVars, unacked_packets, set_mutex, worker_pc, timer_pc, netVars>>

\* It has not timed out: sleep, and look again.  So does a timeout that finds
\* the set empty.
TimerSleep == TimerAt("compare", "first") /\ UNCHANGED <<set_mutex, netVars>>

\* It has: holding set_mutex, the timer thread sends the first packet of the
\* set and waits in send_packet for the mutex it holds: that was its last step.
TimerTimeout ==
  /\ TimerAt("compare", "relock")
  /\ set_mutex = "free"
  /\ \E k \in unacked_packets : SendPacket(k)
  /\ set_mutex' = "timer"
  /\ UNCHANGED toServer

Timer == TimerFirst \/ TimerCrash \/ TimerSleep \/ TimerTimeout
==============================================================================
