------------------------- MODULE StopAndWaitStrategy -------------------------
(***************************************************************************)
(* stop_and_wait_strategy, the sender: a worker thread that sends one      *)
(* packet at a time, and a timer thread that re-sends it.                  *)
(*                                                                         *)
(* set_mutex protects unacked_packets; nothing protects the packets that   *)
(* its elements point to.  The timer thread keeps a pointer while the      *)
(* worker deletes the packet and allocates the next one, perhaps in the    *)
(* same memory.  Pointers are therefore addresses of the model's heap: an  *)
(* address holds a packet, which after delete is still readable but not    *)
(* live.  A step is a critical section of set_mutex with the code around   *)
(* it, a delete, or an allocation.                                         *)
(*                                                                         *)
(* Sending a deleted packet is undefined.  The outcomes are a fault, a     *)
(* datagram whose checksum does not match, or the old packet once more;    *)
(* unless it is a fault, the pointer enters the timer's set again.  Only   *)
(* time stamps are read of a deleted packet otherwise; with one in the     *)
(* set, whose order may then be wrong, erase may miss what it looks for.   *)
(* Time is abstracted as in SelectiveRepeatStrategy.                       *)
(*                                                                         *)
(* Definitions named Buggy... are mistakes the properties are tested       *)
(* against; the model does not use them.                                   *)
(***************************************************************************)
EXTENDS UdpNetwork, Integers

CONSTANTS Addresses,    \* bound on the memory for packets
          Null

ASSUME AddressAssumption == Null \notin Addresses

VARIABLES heap,                \* address -> its packet and whether it is live
          window,              \* address of the packet being sent, or Null
          unacked_packets,     \* the timer's set, of addresses
          next_seq_number,
          worker_pc,           \* "start", "idle", "delete", "allocate", "send"
                               \* or "finished"
          timer_pc,            \* "off", "check", "first", "compare" or "resend"
          first_unacked_pkt,   \* the timer thread's local pointer
          server_up            \* FALSE once the process has crashed

memoryVars == <<heap, window, next_seq_number>>
threadVars == <<worker_pc, timer_pc, first_unacked_pkt, server_up>>
serverVars == <<memoryVars, unacked_packets, threadVars>>

Contents(seqno, live) == [seqno |-> seqno, live |-> live]

\* A mistake: one packet more than the file has.
BuggyHasNext == next_seq_number <= Len(File) + 1

HasNext == next_seq_number <= Len(File)

\* The constructor, with fill_window: at most one packet.
ServerInit ==
  /\ window \in IF File = <<>> THEN {Null} ELSE Addresses
  /\ heap = [a \in Addresses |-> IF a = window THEN Contents(1, TRUE) ELSE Contents(1, FALSE)]
  /\ next_seq_number = IF File = <<>> THEN 1 ELSE 2
  /\ unacked_packets = {}
  /\ worker_pc = "start"
  /\ timer_pc = "off"
  /\ first_unacked_pkt = Null
  /\ server_up = TRUE

Stale(a) == ~heap[a].live

\* unacked_packets.erase(a)
Erase(a) ==
  unacked_packets' \in IF \E b \in unacked_packets \ {a} : Stale(b)
                       THEN {unacked_packets, unacked_packets \ {a}}
                       ELSE {unacked_packets \ {a}}

\* A mistake: the packet is not inserted after it was sent.
BuggyInsert(a) == UNCHANGED unacked_packets

\* unacked_packets.insert(a)
Insert(a) == unacked_packets' = unacked_packets \cup {a}

\* send_packet of the packet at address a.
Send(a) == SendToClient(FilePacket(heap[a].seqno)) /\ Insert(a)

\* A thread goes from one place to another.
WorkerAt(from, to) ==
  /\ server_up
  /\ worker_pc = from
  /\ worker_pc' = to
  /\ UNCHANGED <<first_unacked_pkt, server_up>>

TimerAt(from, to) ==
  /\ server_up
  /\ timer_pc = from
  /\ timer_pc' = to
  /\ UNCHANGED <<memoryVars, worker_pc, server_up>>

-----------------------------------------------------------------------------
(* The worker thread.                                                      *)

\* start() sends the window and creates the timer thread.
Start ==
  /\ WorkerAt("start", "idle")
  /\ IF window = Null
     THEN UNCHANGED <<unacked_packets, toClient, timer_pc>>
     ELSE Send(window) /\ timer_pc' = "check"
  /\ UNCHANGED <<memoryVars, toServer>>

\* A mistake: an ACK is taken for that of the packet in the window.
BuggyAcknowledges(ackno) == ackno <= heap[window].seqno

Acknowledges(ackno) == ackno = heap[window].seqno

\* acknowledge_packet: the packet's ACK takes it out of the timer's set.
AckNew(ackno) ==
  /\ WorkerAt("idle", "delete")
  /\ window # Null
  /\ TakeFromClient(ackno)
  /\ Acknowledges(ackno)
  /\ Erase(window)
  /\ UNCHANGED <<memoryVars, timer_pc, toClient>>

\* Any other ACK is skipped.
AckIgnored(ackno) ==
  /\ WorkerAt("idle", "idle")
  /\ window # Null
  /\ TakeFromClient(ackno)
  /\ ~Acknowledges(ackno)
  /\ UNCHANGED <<memoryVars, unacked_packets, timer_pc, toClient>>

\* A mistake: the packet is popped and not deleted.
BuggyFree(a) == heap

Free(a) == [heap EXCEPT ![a].live = FALSE]

\* advance_window pops the packet and deletes it ...
Delete ==
  /\ WorkerAt("delete", IF HasNext THEN "allocate" ELSE "idle")
  /\ heap' = Free(window)
  /\ window' = Null
  /\ UNCHANGED <<unacked_packets, next_seq_number, timer_pc, netVars>>

\* ... the next packet of the file gets some memory that is free ...
Allocate ==
  /\ WorkerAt("allocate", "send")
  /\ \E a \in Addresses : /\ Stale(a)
                          /\ heap' = [heap EXCEPT ![a] = Contents(next_seq_number, TRUE)]
                          /\ window' = a
  /\ next_seq_number' = next_seq_number + 1
  /\ UNCHANGED <<unacked_packets, timer_pc, netVars>>

\* ... and is sent.
SendNext ==
  /\ WorkerAt("send", "idle")
  /\ Send(window)
  /\ UNCHANGED <<memoryVars, timer_pc, toServer>>

\* is_done(): the window is empty; the client is told with the empty packet.
Finish ==
  /\ WorkerAt("idle", "finished")
  /\ window = Null
  /\ SendToClient(DataPacket(NoData, next_seq_number))
  /\ UNCHANGED <<memoryVars, unacked_packets, timer_pc, toServer>>

Worker == \/ Start \/ Delete \/ Allocate \/ SendNext \/ Finish
          \/ \E ackno \in toServer : AckNew(ackno) \/ AckIgnored(ackno)

-----------------------------------------------------------------------------
(* The timer thread, handle_time_out.                                      *)

\* The unprotected test that there is a packet to wait for.
TimerCheck ==
  /\ TimerAt("check", "first")
  /\ unacked_packets # {}
  /\ UNCHANGED <<unacked_packets, first_unacked_pkt, netVars>>

\* Under set_mutex the oldest packet is read ...
TimerFirst(a) ==
  /\ TimerAt("first", "compare")
  /\ a \in unacked_packets
  /\ first_unacked_pkt' = a
  /\ UNCHANGED <<unacked_packets, netVars>>

\* ... it has not timed out: sleep, and look again ...
TimerSleep ==
  /\ TimerAt("compare", "check")
  /\ UNCHANGED <<unacked_packets, first_unacked_pkt, netVars>>

\* ... or it has, and leaves the set.
TimerExpire ==
  /\ TimerAt("compare", "resend")
  /\ Erase(first_unacked_pkt)
  /\ UNCHANGED <<first_unacked_pkt, netVars>>

\* What the pointer points to is sent: a live packet, the old or the one that
\* got its memory, ...
TimerResend ==
  /\ TimerAt("resend", "check")
  /\ Send(first_unacked_pkt)
  /\ UNCHANGED <<first_unacked_pkt, toServer>>

\* ... or a deleted one, as a datagram that the client drops.
TimerResendGarbage ==
  /\ TimerAt("resend", "check")
  /\ Stale(first_unacked_pkt)
  /\ Insert(first_unacked_pkt)
  /\ UNCHANGED <<first_unacked_pkt, netVars>>

\* A fault: the worker has emptied the set, and what is read in it is a null
\* pointer, whose time stamp is read; or the packet to be sent is deleted.
TimerCrash ==
  /\ server_up
  /\ \/ timer_pc = "first" /\ unacked_packets = {}
     \/ timer_pc = "resend" /\ Stale(first_unacked_pkt)
  /\ server_up' = FALSE
  /\ UNCHANGED <<memoryVars, unacked_packets, worker_pc, timer_pc, first_unacked_pkt,
                 netVars>>

Timer == \/ TimerCheck \/ TimerSleep \/ TimerExpire
         \/ TimerResend \/ TimerResendGarbage \/ TimerCrash
         \/ \E a \in Addresses : TimerFirst(a)
==============================================================================
