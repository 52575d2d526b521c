----------------------- MODULE SelectiveRepeatStrategy -----------------------
(***************************************************************************)
(* selective_repeat_strategy, the sender: a worker thread that consumes    *)
(* ACKs and sends new packets, and a timer thread that re-sends.           *)
(*                                                                         *)
(* wnd_mutex protects the window and is held through acknowledge_packet,   *)
(* start and the timer's two window sections; set_mutex protects only      *)
(* unacked_packets and is taken for one operation at a time.  A step of    *)
(* the model is one of                                                     *)
(*   - a critical section of set_mutex, with the code around it that no    *)
(*     other thread can see; so the sending of a packet and its insertion  *)
(*     into the timer's set are two steps, between which the timer thread  *)
(*     may look at the set;                                                *)
(*   - one call of shrink_window, whose sections of set_mutex only remove  *)
(*     packets, and never the one at the front of the window;              *)
(*   - one section of the timer thread under wnd_mutex, which the worker   *)
(*     cannot enter and during which nobody else changes the set.          *)
(* The worker holds wnd_mutex between two steps where WindowLocked says.   *)
(* The timer tests and reads the set without wnd_mutex.                    *)
(*                                                                         *)
(* A packet is identified with its sequence number.  Time is abstracted:   *)
(* the oldest packet of unacked_packets is any of its elements, and a      *)
(* packet found there may or may not have timed out.  packet_sender's      *)
(* simulated triple duplicate ACK depends on counters shared with the      *)
(* other workers: for one of them it may come with any packet sent.        *)
(*                                                                         *)
(* The definitions named Buggy... are the plausible mistakes that the      *)
(* properties are tested against; nothing in the model uses them.          *)
(***************************************************************************)
EXTENDS UdpNetwork, Integers, Functions

CONSTANT MaxWindowSize   \* second line of server.in

ASSUME MaxWindowAssumption == MaxWindowSize \in Nat \ {0}

VARIABLES window,             \* the deque of packets being sent
          aux_window,         \* packets the shrinking window gave up
          acked,              \* packets of the two whose acked flag is set
          unacked_packets,    \* the timer's set
          next_seq_number,    \* of the next packet read from the file
          window_size,
          threshold,
          worker_pc,          \* "start", "idle", "expand", "insert",
                              \* "halve" or "finished"
          timer_pc,           \* "off", "check", "first", "compare",
                              \* "window" or "resend"
          first_unacked_pkt,  \* the timer thread's local pointer
          server_up           \* FALSE once the process has crashed

windowVars == <<window, aux_window, acked, next_seq_number, window_size, threshold>>
threadVars == <<worker_pc, timer_pc, first_unacked_pkt, server_up>>
serverVars == <<windowVars, unacked_packets, threadVars>>

HasNext == next_seq_number <= Len(File)

\* Packets that have been allocated and not been deleted.
Live == Range(window) \cup aux_window

\* The constructor, with fill_window: a window of size one.
ServerInit ==
  /\ window = IF File = <<>> THEN <<>> ELSE <<1>>
  /\ next_seq_number = Len(window) + 1
  /\ window_size = 1
  /\ threshold = MaxWindowSize \div 2
  /\ aux_window = {}
  /\ acked = {}
  /\ unacked_packets = {}
  /\ worker_pc = "start"
  /\ timer_pc = "off"
  /\ first_unacked_pkt = 0
  /\ server_up = TRUE

AtLeastOne(n) == IF n < 1 THEN 1 ELSE n

\* A mistake: the packets given up stay with the timer.
BuggyStopTimers(u, pkts) == u

\* unacked_packets.erase and, in send_packet, insert.
StopTimers(u, pkts) == u \ pkts

\* A mistake: the packet is sent and the timer does not learn of it.
BuggyStartTimer(pkt) == unacked_packets

StartTimer(pkt) == unacked_packets \cup {pkt}

\* shrink_window(new_size) on window w, auxiliary window aux and timer set u:
\* what the smaller window does not hold waits in the auxiliary window.
ShrinkWindow(w, aux, u, size, new_size) ==
  LET kept    == IF Len(w) > AtLeastOne(new_size) THEN AtLeastOne(new_size) ELSE Len(w)
      dropped == {w[i] : i \in (kept + 1)..Len(w)}
  IN  /\ threshold' = AtLeastOne(size \div 2)
      /\ window_size' = AtLeastOne(new_size)
      /\ window' = SubSeq(w, 1, kept)
      /\ aux_window' = aux \cup dropped
      /\ unacked_packets' = StopTimers(u, dropped)

\* send_packet(pkt) where no timer thread runs: the packet enters the timer's set,
\* and a triple duplicate ACK halves the window.
SendPacket(pkt) ==
  /\ SendToClient(FilePacket(pkt))
  /\ \/ ShrinkWindow(window, aux_window, StartTimer(pkt), window_size, window_size \div 2)
     \/ /\ unacked_packets' = StartTimer(pkt)
        /\ UNCHANGED <<window, aux_window, window_size, threshold>>

\* A mistake: no maximum.
BuggyGrowth == IF window_size < threshold THEN window_size * 2 ELSE window_size + 1

\* adjust_window_size: exponential growth to the threshold, then linear.
AdjustedWindowSize ==
  LET new_size == IF window_size < threshold THEN window_size * 2 ELSE window_size + 1
  IN  IF new_size > MaxWindowSize THEN MaxWindowSize ELSE new_size

-----------------------------------------------------------------------------
(* The worker thread.                                                      *)

\* start(): sends the window, at most one packet, and creates the timer thread.
Start ==
  /\ server_up
  /\ worker_pc = "start"
  /\ worker_pc' = "idle"
  /\ IF window = <<>>
     THEN UNCHANGED <<windowVars, unacked_packets, toClient, timer_pc>>
     ELSE /\ SendPacket(Head(window))
          /\ timer_pc' = "check"
          /\ UNCHANGED <<acked, next_seq_number>>
  /\ UNCHANGED <<first_unacked_pkt, server_up, toServer>>

\* A mistake: the loop does not stop at a packet that is not acked.
BuggyAdvanceAll(marked) == window' = <<>> /\ acked' = marked \ Range(window)

\* advance_window: the acked packets at the front are popped and deleted.
AdvanceWindow(marked) ==
  \E n \in 0..Len(window) :
    /\ \A i \in 1..n : window[i] \in marked
    /\ n < Len(window) => window[n + 1] \notin marked
    /\ window' = SubSeq(window, n + 1, Len(window))
    /\ acked' = marked \ {window[i] : i \in 1..n}

\* acknowledge_packet up to expand_window: the ACK of a packet in the window
\* that is not acked yet.
AckNew(ackno) ==
  /\ server_up
  /\ worker_pc = "idle"
  /\ TakeFromClient(ackno)
  /\ ackno \in Range(window) \ acked
  /\ unacked_packets' = unacked_packets \ {ackno}
  /\ IF ackno = Head(window)
     THEN AdvanceWindow(acked \cup {ackno})
     ELSE /\ acked' = acked \cup {ackno}
          /\ UNCHANGED window
  /\ window_size' = AdjustedWindowSize
  /\ worker_pc' = "expand"
  /\ UNCHANGED <<aux_window, next_seq_number, threshold, timer_pc, first_unacked_pkt,
                 server_up, toClient>>

\* A corrupted, duplicate or unknown ACK is skipped.
AckIgnored(ackno) ==
  /\ server_up
  /\ worker_pc = "idle"
  /\ window # <<>>
  /\ TakeFromClient(ackno)
  /\ UNCHANGED <<serverVars, toClient>>

\* get_next_packet allocates a packet.  If the timer thread still points to a
\* deleted one, the new packet may get its memory.
ReusesStalePointer(pkt) ==
  first_unacked_pkt' \in IF first_unacked_pkt \in Live
                         THEN {first_unacked_pkt}
                         ELSE {first_unacked_pkt, pkt}

\* A mistake: the youngest packet first.
BuggyLastAux == CHOOSE p \in aux_window : \A q \in aux_window : p >= q

\* The packet expand_window takes from the auxiliary window.
FirstAux == CHOOSE p \in aux_window : \A q \in aux_window : p <= q

\* A mistake: one packet more than the window size.
BuggyHasRoom == Len(window) <= window_size

HasRoom == Len(window) < window_size

\* A mistake: the packets given up are forgotten at the end of the file.
BuggyMoreToSend == HasNext

MoreToSend == aux_window # {} \/ HasNext

\* The packet pkt enters the window at its end and is sent.
PushAndSend(pkt) ==
  /\ window' = Append(window, pkt)
  /\ SendToClient(FilePacket(pkt))

\* One iteration of expand_window: the packet given up first, or else the next
\* of the file, enters the window and is sent ...
ExpandWindow ==
  /\ server_up
  /\ worker_pc = "expand"
  /\ HasRoom
  /\ MoreToSend
  /\ IF aux_window # {}
     THEN /\ PushAndSend(FirstAux)
          /\ acked' = acked \ {FirstAux}
          /\ aux_window' = aux_window \ {FirstAux}
          /\ UNCHANGED <<next_seq_number, first_unacked_pkt>>
     ELSE /\ PushAndSend(next_seq_number)
          /\ ReusesStalePointer(next_seq_number)
          /\ next_seq_number' = next_seq_number + 1
          /\ UNCHANGED <<acked, aux_window>>
  /\ worker_pc' = "insert"
  /\ UNCHANGED <<window_size, threshold, unacked_packets, timer_pc, server_up, toServer>>

\* ... then it enters the timer's set ...
InsertSent ==
  /\ server_up
  /\ worker_pc = "insert"
  /\ unacked_packets' = StartTimer(window[Len(window)])
  /\ worker_pc' \in {"halve", "expand"}
  /\ UNCHANGED <<windowVars, timer_pc, first_unacked_pkt, server_up, netVars>>

\* ... and a triple duplicate ACK halves the window.
HalveWindow ==
  /\ server_up
  /\ worker_pc = "halve"
  /\ ShrinkWindow(window, aux_window, unacked_packets, window_size, window_size \div 2)
  /\ worker_pc' = "expand"
  /\ UNCHANGED <<acked, next_seq_number, timer_pc, first_unacked_pkt, server_up, netVars>>

\* expand_window returns, acknowledge_packet unlocks wnd_mutex.
EndAcknowledge ==
  /\ server_up
  /\ worker_pc = "expand"
  /\ ~(HasRoom /\ MoreToSend)
  /\ worker_pc' = "idle"
  /\ UNCHANGED <<windowVars, unacked_packets, timer_pc, first_unacked_pkt, server_up,
                 netVars>>

\* is_done(): the window is empty; the client is told with the empty packet.
Finish ==
  /\ server_up
  /\ worker_pc = "idle"
  /\ window = <<>>
  /\ SendToClient(DataPacket(NoData, next_seq_number))
  /\ worker_pc' = "finished"
  /\ UNCHANGED <<windowVars, unacked_packets, timer_pc, first_unacked_pkt, server_up,
                 toServer>>

Worker == \/ Start \/ ExpandWindow \/ InsertSent \/ HalveWindow \/ EndAcknowledge \/ Finish
          \/ \E ackno \in toServer : AckNew(ackno) \/ AckIgnored(ackno)

-----------------------------------------------------------------------------
(* The timer thread, handle_time_out.                                      *)

\* acknowledge_packet holds wnd_mutex.
WindowLocked == worker_pc \in {"expand", "insert", "halve"}

\* The unprotected test that there is a packet to wait for.
TimerCheck ==
  /\ server_up
  /\ timer_pc = "check"
  /\ unacked_packets # {}
  /\ timer_pc' = "first"
  /\ UNCHANGED <<windowVars, unacked_packets, worker_pc, first_unacked_pkt, server_up,
                 netVars>>

\* Under set_mutex the oldest packet is read ...
TimerFirst ==
  /\ server_up
  /\ timer_pc = "first"
  /\ first_unacked_pkt' \in unacked_packets
  /\ timer_pc' = "compare"
  /\ UNCHANGED <<windowVars, unacked_packets, worker_pc, server_up, netVars>>

\* ... it has not timed out yet: sleep, and look again ...
TimerSleep ==
  /\ server_up
  /\ timer_pc = "compare"
  /\ timer_pc' = "check"
  /\ UNCHANGED <<windowVars, unacked_packets, worker_pc, first_unacked_pkt, server_up,
                 netVars>>

\* ... or it has: under set_mutex it leaves the set.  The pointer may be stale
\* by now; comparing its time stamp then removes nothing, or the packet that
\* got its memory.
TimerExpire ==
  /\ server_up
  /\ timer_pc = "compare"
  /\ unacked_packets # {}
  /\ unacked_packets' = unacked_packets \ {first_unacked_pkt}
  /\ timer_pc' = "window"
  /\ UNCHANGED <<windowVars, worker_pc, first_unacked_pkt, server_up, netVars>>

\* The timer thread takes wnd_mutex to list the window, and releases it ...
TimerListWindow ==
  /\ server_up
  /\ timer_pc = "window"
  /\ ~WindowLocked
  /\ window # <<>>
  /\ timer_pc' = "resend"
  /\ UNCHANGED <<windowVars, unacked_packets, worker_pc, first_unacked_pkt, server_up,
                 netVars>>

\* ... and takes it again to shrink the window to its first packet and re-send
\* that one.  A triple duplicate ACK shrinks a second time, from size one.
TimerResend ==
  /\ server_up
  /\ timer_pc = "resend"
  /\ ~WindowLocked
  /\ window # <<>>
  /\ SendToClient(FilePacket(Head(window)))
  /\ \E size \in {window_size, 1} :
       ShrinkWindow(window, aux_window, unacked_packets \cup {Head(window)}, size, 1)
  /\ timer_pc' = "check"
  /\ UNCHANGED <<acked, next_seq_number, worker_pc, first_unacked_pkt, server_up,
                 toServer>>

\* The set or the window turns out to be empty where the timer thread takes
\* it for granted that it is not: begin() of the empty set is dereferenced,
\* or pop_back is called on the empty string that lists it, or begin() of the
\* empty window is sent.  Each is undefined, and each is a fault of the process.
TimerCrash ==
  /\ server_up
  /\ \/ timer_pc \in {"first", "compare"} /\ unacked_packets = {}
     \/ timer_pc \in {"window", "resend"} /\ ~WindowLocked /\ window = <<>>
  /\ server_up' = FALSE
  /\ UNCHANGED <<windowVars, unacked_packets, worker_pc, timer_pc, first_unacked_pkt,
                 netVars>>

Timer == \/ TimerCheck \/ TimerFirst \/ TimerSleep \/ TimerExpire
         \/ TimerListWindow \/ TimerResend \/ TimerCrash
==============================================================================
