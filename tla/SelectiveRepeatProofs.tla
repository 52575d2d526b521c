------------------------ MODULE SelectiveRepeatProofs ------------------------
(***************************************************************************)
(* The safety of SelectiveRepeatTransfer for every file and every window   *)
(* size, by the inductive invariant IInv.                                  *)
(***************************************************************************)
EXTENDS SelectiveRepeatTransfer, SequenceTheorems, TLAPS

-----------------------------------------------------------------------------
(* The parts of the invariant that no run checks by themselves: what makes  *)
(* the properties inductive.                                                *)

\* advance_window leaves no acked packet at the front.
FrontUnacked == window # <<>> => Head(window) \notin acked

\* A packet whose ACK was counted has left the timer's set.
AckedApart == acked \cap unacked_packets = {}

\* The acked flags are those of packets not deleted yet.
AckedLive == acked \subseteq Live

\* While acknowledge_packet is not running, the window is empty only when the
\* whole file has gone through it.
EmptyAtEnd ==
  window = <<>> /\ worker_pc # "expand" =>
    aux_window = {} /\ next_seq_number = Len(File) + 1

\* start() finds at most one packet in the window; the timer thread comes later.
StartsSmall == worker_pc = "start" => Len(window) <= 1 /\ timer_pc = "off"

\* send_packet sends the packet at the end of the window, which no ACK was counted
\* for, and only packets of a window that holds it shrink.
SentUnacked ==
  /\ worker_pc = "insert" => window # <<>> /\ window[Len(window)] \notin acked
  /\ worker_pc = "halve" => window # <<>>

\* What is in flight to the client: the ACK of its request, packets of the
\* file, and the terminal packet once the client has everything before it.
NetSafe ==
  \A pkt \in toClient :
    \/ pkt = RequestAck
    \/ \E seqno \in Seqno : pkt = FilePacket(seqno)
    \/ pkt = DataPacket(NoData, Len(File) + 1) /\ expected_seqno = Len(File) + 1

\* The client holds packet p.
Received(p) == p < expected_seqno \/ p \in DOMAIN client_window

\* An ACK in flight answers a packet the client holds, or is the request.
AckSafe == \A ackno \in toServer : Received(ackno)

\* The buffered packets are packets of the file beyond the expected one.
ClientSafe ==
  \A s \in DOMAIN client_window : s > expected_seqno /\ client_window[s] = File[s]

ServerInv == /\ WindowIsRun
             /\ WindowBounded
             /\ TimerCovers
             /\ TimerSetLive
             /\ FrontUnacked
             /\ AckedApart
             /\ AckedLive
             /\ EmptyAtEnd
             /\ StartsSmall
             /\ SentUnacked

ClientInv == /\ NetSafe
             /\ AckSafe
             /\ ClientSafe
             /\ DeliveredPrefix
             /\ CompleteWhenDone

IInv == /\ TypeOK
        /\ ServerInv
        /\ ClientInv
        /\ AckedIsReceived
        /\ PoppedIsWritten

-----------------------------------------------------------------------------
(* Windows.                                                                *)

\* A run of packets, as a set of sequence numbers.
LEMMA RunRange ==
  ASSUME NEW b \in Int, NEW w \in Seq(Seqno), NEW aux, NEW next \in Int,
         IsRun(b, w, aux, next)
  PROVE  /\ Range(w) = b..(b + Len(w) - 1)
         /\ \A i \in 1..Len(w) : w[i] = b + i - 1
         /\ w # <<>> => Head(w) = b /\ Len(w) > 0
<1>1. \A i \in 1..Len(w) : w[i] = b + i - 1
  BY DEF IsRun
<1>2. Len(w) \in Nat /\ DOMAIN w = 1..Len(w)
  OBVIOUS
<1>3. ASSUME NEW p \in Range(w)
      PROVE  p \in b..(b + Len(w) - 1)
  BY <1>1, <1>2 DEF Range
<1>4. ASSUME NEW p \in b..(b + Len(w) - 1)
      PROVE  p \in Range(w)
  <2>1. p - b + 1 \in 1..Len(w)
    BY <1>2
  <2>2. w[p - b + 1] = p
    BY <1>1, <2>1
  <2> QED  BY <1>2, <2>1, <2>2 DEF Range
<1>5. w # <<>> => Len(w) > 0
  BY EmptySeq
<1>6. w # <<>> => Head(w) = w[1]
  OBVIOUS
<1>7. w # <<>> => Head(w) = b
  <2>1. Len(w) > 0 => w[1] = b + 1 - 1
    BY <1>1, <1>2
  <2> QED  BY <1>5, <1>6, <2>1
<1>8. Range(w) = b..(b + Len(w) - 1)
  BY <1>3, <1>4
<1> QED  BY <1>1, <1>5, <1>7, <1>8

\* An initial part of a window.
LEMMA Prefix ==
  ASSUME NEW w \in Seq(Seqno), NEW k \in 0..Len(w)
  PROVE  /\ SubSeq(w, 1, k) \in Seq(Seqno)
         /\ Len(SubSeq(w, 1, k)) = k
         /\ \A i \in 1..k : SubSeq(w, 1, k)[i] = w[i]
<1>1. \A i \in 1..k : w[i] \in Seqno
  OBVIOUS
<1>2. 1 \in Int /\ k \in Int
  OBVIOUS
<1> QED  BY <1>1, <1>2, SubSeqProperties

\* What remains of a window behind an initial part.
LEMMA Suffix ==
  ASSUME NEW w \in Seq(Seqno), NEW n \in 0..Len(w)
  PROVE  /\ SubSeq(w, n + 1, Len(w)) \in Seq(Seqno)
         /\ Len(SubSeq(w, n + 1, Len(w))) = Len(w) - n
         /\ \A i \in 1..(Len(w) - n) : SubSeq(w, n + 1, Len(w))[i] = w[n + i]
<1>1. \A i \in (n + 1)..Len(w) : w[i] \in Seqno
  OBVIOUS
<1>2. n + 1 \in Int /\ Len(w) \in Int /\ n \in Int
  OBVIOUS
<1>3. \A i \in 1..(Len(w) - n) : (n + 1) + i - 1 = n + i
  BY <1>2
<1> QED  BY <1>1, <1>2, <1>3, SubSeqProperties

\* What sending a packet of window w leaves behind: the initial part of w that
\* fits the new window size, the rest in the auxiliary window and out of the
\* timer's set, which was u.
SentFrom(b, w, u, next) ==
  /\ window' \in Seq(Seqno)
  /\ Len(window') \in 1..Len(w)
  /\ Len(window') <= window_size'
  /\ window_size' \in 1..MaxWindowSize
  /\ threshold' \in Nat
  /\ IsRun(b, window', aux_window', next)
  /\ unacked_packets' = u \ ((b + Len(window'))..(b + Len(w) - 1))

LEMMA ShrinkEffect ==
  ASSUME NEW b \in Nat \ {0}, NEW w \in Seq(Seqno), w # <<>>, NEW aux, NEW u,
         NEW size \in 1..MaxWindowSize, NEW new_size \in Int, new_size <= MaxWindowSize,
         NEW next \in Int, IsRun(b, w, aux, next),
         ShrinkWindow(w, aux, u, size, new_size)
  PROVE  SentFrom(b, w, u, next)
<1> DEFINE least   == AtLeastOne(new_size)
           kept    == IF Len(w) > least THEN least ELSE Len(w)
           dropped == {w[i] : i \in (kept + 1)..Len(w)}
<1>1. least \in 1..MaxWindowSize
  BY MaxWindowAssumption DEF AtLeastOne
<1>2. Len(w) \in Nat \ {0}
  OBVIOUS
<1>3. kept \in 1..Len(w) /\ kept <= least
  BY <1>1, <1>2
<1>4. /\ window' = SubSeq(w, 1, kept)
      /\ window_size' = least
      /\ threshold' = AtLeastOne(size \div 2)
      /\ aux_window' = aux \cup dropped
      /\ unacked_packets' = u \ dropped
  BY DEF ShrinkWindow, StopTimers
<1> HIDE DEF least, kept
<1>5. /\ window' \in Seq(Seqno)
      /\ Len(window') = kept
      /\ \A i \in 1..kept : window'[i] = w[i]
  BY <1>3, <1>4, Prefix
<1>6. dropped = (b + kept)..(b + Len(w) - 1)
  <2>1. \A i \in 1..Len(w) : w[i] = b + i - 1
    BY DEF IsRun
  <2>2. ASSUME NEW p \in (b + kept)..(b + Len(w) - 1)
        PROVE  p \in dropped
    <3>1. p - b + 1 \in (kept + 1)..Len(w) /\ p - b + 1 \in 1..Len(w)
      BY <1>2, <1>3
    <3>2. w[p - b + 1] = p
      BY <2>1, <3>1
    <3> QED  BY <3>1, <3>2
  <2>3. ASSUME NEW i \in (kept + 1)..Len(w)
        PROVE  w[i] \in (b + kept)..(b + Len(w) - 1)
    BY <2>1, <1>2, <1>3
  <2> QED  BY <2>2, <2>3
<1>7. IsRun(b, window', aux_window', next)
  <2>1. \A i \in 1..Len(window') : window'[i] = b + i - 1
    BY <1>3, <1>5 DEF IsRun
  <2>2. aux = (b + Len(w))..(next - 1) /\ b + Len(w) <= next
    BY DEF IsRun
  <2>3. aux_window' = (b + kept)..(next - 1)
    BY <2>2, <1>2, <1>3, <1>4, <1>6
  <2>4. b + Len(window') <= next
    BY <2>2, <1>2, <1>3, <1>5
  <2> QED  BY <2>1, <2>3, <2>4, <1>5 DEF IsRun
<1>8. threshold' \in Nat
  <2>1. size \div 2 \in Int
    OBVIOUS
  <2> QED  BY <2>1, <1>4 DEF AtLeastOne
<1> QED  BY <1>1, <1>3, <1>4, <1>5, <1>6, <1>7, <1>8 DEF SentFrom

\* So does a step that sends and keeps all of the window.
LEMMA NothingDropped ==
  ASSUME NEW b \in Nat \ {0}, NEW w \in Seq(Seqno), w # <<>>, NEW u, NEW next \in Int,
         window' = w, IsRun(b, w, aux_window', next),
         Len(w) <= window_size, window_size \in 1..MaxWindowSize, threshold \in Nat,
         unacked_packets' = u, UNCHANGED <<window_size, threshold>>
  PROVE  SentFrom(b, w, u, next)
<1>1. Len(w) \in Nat \ {0}
  BY EmptySeq
<1>2. (b + Len(window'))..(b + Len(w) - 1) = {}
  BY <1>1
<1> QED  BY <1>1, <1>2 DEF SentFrom

\* The packets the server has allocated are a run, too.
LEMMA RunLive ==
  ASSUME NEW b \in Int, NEW w \in Seq(Seqno), NEW aux, NEW next \in Int,
         IsRun(b, w, aux, next)
  PROVE  Range(w) \cup aux = b..(next - 1)
<1>1. Range(w) = b..(b + Len(w) - 1)
  BY RunRange
<1>2. aux = (b + Len(w))..(next - 1) /\ b + Len(w) <= next
  BY DEF IsRun
<1>3. Len(w) \in Nat
  OBVIOUS
<1> QED  BY <1>1, <1>2, <1>3

\* Sending keeps what the server's invariant says of the window, whoever sends.
LEMMA SentKeeps ==
  ASSUME NEW b \in Nat \ {0}, NEW w \in Seq(Seqno), w # <<>>, NEW u,
         NEW next \in 1..(Len(File) + 1), next_seq_number' = next,
         SentFrom(b, w, u, next),
         u \subseteq b..(b + Len(w) - 1),
         acked' \cap u = {},
         b \notin acked',
         acked' \subseteq b..(next - 1),
         worker_pc' # "start",
         worker_pc' = "insert" => b + Len(window') - 1 \notin acked',
         \A p \in b..(b + Len(window') - 1) :
           \/ p \in u \/ p \in acked' \/ timer_pc' \in {"window", "resend"}
           \/ worker_pc' = "insert" /\ p = b + Len(window') - 1
  PROVE  /\ ServerInv'
         /\ Live' = b..(next - 1)
         /\ aux_window' \subseteq Seqno
         /\ acked' \subseteq Seqno
         /\ unacked_packets' \subseteq Seqno
<1>0. Len(File) \in Nat /\ Len(w) \in Nat /\ next \in Int /\ b \in Int /\ b >= 1
  BY FileAssumption
<1>1. /\ window' \in Seq(Seqno)
      /\ Len(window') \in 1..Len(w)
      /\ Len(window') <= window_size'
      /\ IsRun(b, window', aux_window', next)
      /\ unacked_packets' = u \ ((b + Len(window'))..(b + Len(w) - 1))
  BY DEF SentFrom
<1>2. window' # <<>>
  BY <1>1, EmptySeq
<1>3. /\ Range(window') = b..(b + Len(window') - 1)
      /\ Head(window') = b
  BY <1>1, <1>2, RunRange
<1>4. Live' = b..(next - 1)
  <2>1. Range(window') \cup aux_window' = b..(next - 1)
    BY <1>0, <1>1, RunLive
  <2> QED  BY <2>1 DEF Live
<1>5. b + Len(window') <= next /\ aux_window' = (b + Len(window'))..(next - 1)
  BY <1>1 DEF IsRun
<1>6. unacked_packets' \subseteq b..(b + Len(window') - 1)
  <2> SUFFICES ASSUME NEW p \in unacked_packets'
               PROVE  p \in b..(b + Len(window') - 1)
    OBVIOUS
  <2>1. p \in b..(b + Len(w) - 1) /\ p \notin (b + Len(window'))..(b + Len(w) - 1)
    BY <1>1
  <2>2. Len(window') \in Nat
    BY <1>0, <1>1
  <2> QED  BY <1>0, <2>1, <2>2
<1>7. WindowIsRun'
  <2>1. b \in 1..next
    BY <1>1, <1>5
  <2> QED  BY <1>1, <2>1 DEF WindowIsRun
<1>8. TimerCovers' /\ SentUnacked'
  <2>1. \A p \in b..(b + Len(window') - 1) :
          \/ p \in unacked_packets' \/ p \in acked' \/ timer_pc' \in {"window", "resend"}
          \/ worker_pc' = "insert" /\ p = b + Len(window') - 1
    BY <1>1
  <2>2. window'[Len(window')] = b + Len(window') - 1
    BY <1>0, <1>1 DEF IsRun
  <2> QED  BY <1>2, <1>3, <2>1, <2>2 DEF TimerCovers, SentUnacked
<1>9. WindowBounded' /\ StartsSmall' /\ EmptyAtEnd'
  BY <1>1, <1>2 DEF WindowBounded, StartsSmall, EmptyAtEnd
<1>10. TimerSetLive' /\ FrontUnacked' /\ AckedApart' /\ AckedLive'
  BY <1>1, <1>3, <1>4, <1>6 DEF TimerSetLive, FrontUnacked, AckedApart, AckedLive
<1>11. /\ aux_window' \subseteq Seqno
       /\ acked' \subseteq Seqno
       /\ unacked_packets' \subseteq Seqno
  <2>1. b..(next - 1) \subseteq Seqno
    <3> SUFFICES ASSUME NEW p \in b..(next - 1)
                 PROVE  p \in 1..Len(File)
      BY DEF Seqno
    <3> QED  BY <1>0
  <2>2. Live' \subseteq Seqno
    BY <2>1, <1>4
  <2> QED  BY <1>3, <1>6, <2>1, <2>2 DEF Live
<1> QED  BY <1>4, <1>7, <1>8, <1>9, <1>10, <1>11 DEF ServerInv

-----------------------------------------------------------------------------
(* The server's steps.                                                     *)

LEMMA SendPacketEffect ==
  ASSUME TypeOK, NEW b \in Nat \ {0}, window # <<>>, NEW pkt,
         NEW next \in Int, IsRun(b, window, aux_window, next), Len(window) <= window_size,
         SendPacket(pkt)
  PROVE  /\ SendToClient(FilePacket(pkt))
         /\ SentFrom(b, window, unacked_packets \cup {pkt}, next)
<1>1. SendToClient(FilePacket(pkt))
  BY DEF SendPacket
<1>2. /\ window_size \in 1..MaxWindowSize /\ threshold \in Nat /\ MaxWindowSize \in Nat
      /\ window \in Seq(Seqno)
  BY MaxWindowAssumption DEF TypeOK
<1>3. CASE ShrinkWindow(window, aux_window, unacked_packets \cup {pkt}, window_size,
                        window_size \div 2)
  <2>1. window_size \div 2 \in Int /\ window_size \div 2 <= MaxWindowSize
    BY <1>2
  <2> QED  BY <1>1, <1>2, <1>3, <2>1, ShrinkEffect
<1>4. CASE /\ unacked_packets' = unacked_packets \cup {pkt}
           /\ UNCHANGED <<window, aux_window, window_size, threshold>>
  <2>1. SentFrom(b, window, unacked_packets \cup {pkt}, next)
    BY <1>2, <1>4, NothingDropped
  <2> QED  BY <1>1, <2>1
<1> QED  BY <1>1, <1>3, <1>4 DEF SendPacket, StartTimer

\* A packet of the file may always be put in flight.
LEMMA FilePacketSafe ==
  ASSUME TypeOK, NetSafe, NEW pkt \in Seqno, SendToClient(FilePacket(pkt)),
         UNCHANGED expected_seqno
  PROVE  /\ toClient' \subseteq [seqno : 0..(Len(File) + 1), data : Data \cup {NoData}]
         /\ NetSafe'
<1>1. FilePacket(pkt) \in [seqno : 0..(Len(File) + 1), data : Data \cup {NoData}]
  <2>1. File[pkt] \in Data /\ pkt \in 0..(Len(File) + 1)
    BY FileAssumption DEF Seqno
  <2> QED  BY <2>1 DEF FilePacket, DataPacket
<1>2. toClient' = toClient \cup {FilePacket(pkt)}
  BY DEF SendToClient
<1>3. NetSafe'
  BY <1>2 DEF NetSafe
<1> QED  BY <1>1, <1>2, <1>3 DEF TypeOK

\* What was in flight may stay, or be lost.
LEMMA FewerInFlight ==
  ASSUME IInv, toClient' \subseteq toClient, UNCHANGED clientVars
  PROVE  /\ toClient' \subseteq [seqno : 0..(Len(File) + 1), data : Data \cup {NoData}]
         /\ NetSafe'
BY DEF IInv, TypeOK, ClientInv, NetSafe, clientVars

\* Every part of send_packet keeps the invariant, whoever sends.
LEMMA SendPreserves ==
  ASSUME IInv, UNCHANGED <<toServer, clientVars>>,
         toClient' \subseteq [seqno : 0..(Len(File) + 1), data : Data \cup {NoData}],
         NetSafe',
         NEW b \in Nat \ {0}, NEW w \in Seq(Seqno), w # <<>>, NEW u,
         NEW next \in 1..(Len(File) + 1), next_seq_number' = next,
         SentFrom(b, w, u, next),
         u \subseteq b..(b + Len(w) - 1),
         acked' \subseteq acked, acked' \cap u = {}, b \notin acked',
         acked' \subseteq b..(next - 1),
         worker_pc' \in WorkerPC \ {"start"}, timer_pc' \in TimerPC,
         first_unacked_pkt' \in 0..Len(File), UNCHANGED server_up,
         worker_pc' = "insert" => b + Len(window') - 1 \notin acked',
         \A p \in b..(b + Len(window') - 1) :
           \/ p \in u \/ p \in acked' \/ timer_pc' \in {"window", "resend"}
           \/ worker_pc' = "insert" /\ p = b + Len(window') - 1,
         b <= expected_seqno
  PROVE  IInv'
<1>1. /\ ServerInv'
      /\ Live' = b..(next - 1)
      /\ aux_window' \subseteq Seqno
      /\ acked' \subseteq Seqno
      /\ unacked_packets' \subseteq Seqno
  BY SentKeeps
<1>3. TypeOK'
  BY <1>1 DEF IInv, TypeOK, SentFrom, clientVars
<1>4. ClientInv'
  BY DEF IInv, ClientInv, AckSafe, Received, ClientSafe, DeliveredPrefix,
              CompleteWhenDone, clientVars
<1>5. AckedIsReceived'
  BY DEF IInv, AckedIsReceived, clientVars
<1>6. PoppedIsWritten'
  <2>1. expected_seqno' = expected_seqno /\ expected_seqno \in Int /\ next \in Int
    BY DEF IInv, TypeOK, clientVars
  <2>2. \A p \in 1..(next - 1) : p \in b..(next - 1) \/ p < expected_seqno
    BY <2>1
  <2> QED  BY <1>1, <2>1, <2>2 DEF PoppedIsWritten
<1> QED  BY <1>1, <1>3, <1>4, <1>5, <1>6 DEF IInv

\* The run the server's packets form starts at or below the packet the client
\* waits for.
LEMMA TheRun ==
  ASSUME IInv
  PROVE  \E b \in Nat \ {0} :
           /\ IsRun(b, window, aux_window, next_seq_number)
           /\ b <= expected_seqno
           /\ Range(window) = b..(b + Len(window) - 1)
           /\ Live = b..(next_seq_number - 1)
           /\ window # <<>> => Head(window) = b /\ Len(window) > 0
<1>1. PICK b \in 1..next_seq_number : IsRun(b, window, aux_window, next_seq_number)
  BY DEF IInv, ServerInv, WindowIsRun
<1>2. /\ window \in Seq(Seqno)
      /\ next_seq_number \in Int
      /\ expected_seqno \in Nat \ {0}
      /\ b \in Nat \ {0}
  BY <1>1, FileAssumption DEF IInv, TypeOK
<1>3. /\ Range(window) = b..(b + Len(window) - 1)
      /\ window # <<>> => Head(window) = b /\ Len(window) > 0
  BY <1>1, <1>2, RunRange
<1>4. Live = b..(next_seq_number - 1)
  <2>1. b \in Int
    BY <1>2
  <2>2. Range(window) \cup aux_window = b..(next_seq_number - 1)
    BY <1>1, <1>2, <2>1, RunLive
  <2> QED  BY <2>2 DEF Live
<1>5. b <= expected_seqno
  <2>1. CASE b = 1
    BY <1>2, <2>1
  <2>2. CASE b # 1
    <3>1. b - 1 \in 1..(next_seq_number - 1) /\ b - 1 \notin Live
      BY <1>1, <1>2, <1>4, <2>2
    <3>2. b - 1 < expected_seqno
      BY <3>1 DEF IInv, PoppedIsWritten
    <3> QED  BY <1>2, <3>2
  <2> QED  BY <2>1, <2>2
<1> QED  BY <1>1, <1>2, <1>3, <1>4, <1>5

LEMMA StartStep ==
  ASSUME IInv, Start, UNCHANGED clientVars
  PROVE  IInv'
<1>1. PICK b \in Nat \ {0} :
         /\ IsRun(b, window, aux_window, next_seq_number)
         /\ b <= expected_seqno
         /\ Range(window) = b..(b + Len(window) - 1)
         /\ Live = b..(next_seq_number - 1)
         /\ window # <<>> => Head(window) = b /\ Len(window) > 0
  BY TheRun
<1>2. CASE window = <<>>
  <2>1. UNCHANGED <<windowVars, unacked_packets, toClient, toServer, timer_pc,
                    first_unacked_pkt, server_up>> /\ worker_pc = "start" /\ worker_pc' = "idle"
    BY <1>2 DEF Start
  <2>2. TypeOK'
    BY <2>1 DEF IInv, TypeOK, windowVars, clientVars, WorkerPC
  <2>3. ServerInv'
    BY <1>2, <2>1 DEF IInv, ServerInv, WindowIsRun, WindowBounded, TimerCovers, TimerSetLive,
      FrontUnacked, AckedApart, AckedLive, EmptyAtEnd, StartsSmall, SentUnacked, Live, Range,
      windowVars
  <2>4. ClientInv' /\ AckedIsReceived' /\ PoppedIsWritten'
    BY <2>1 DEF IInv, ClientInv, NetSafe, AckSafe, Received, ClientSafe, DeliveredPrefix,
      CompleteWhenDone, AckedIsReceived, PoppedIsWritten, Live, windowVars, clientVars
  <2> QED  BY <2>2, <2>3, <2>4 DEF IInv
<1>3. CASE window # <<>>
  <2>1. /\ SendPacket(Head(window))
        /\ timer_pc' = "check" /\ worker_pc' = "idle" /\ worker_pc = "start"
        /\ UNCHANGED <<acked, next_seq_number, first_unacked_pkt, server_up, toServer>>
    BY <1>3 DEF Start
  <2>2. /\ window \in Seq(Seqno) /\ Len(window) = 1 /\ Head(window) = b
        /\ next_seq_number \in 1..(Len(File) + 1) /\ b \in Seqno
        /\ Len(window) <= window_size
    <3>1. /\ window \in Seq(Seqno) /\ Len(window) <= 1
          /\ next_seq_number \in 1..(Len(File) + 1) /\ Len(window) <= window_size
      BY <2>1 DEF IInv, TypeOK, ServerInv, StartsSmall, WindowBounded
    <3>2. Len(window) = 1 /\ Head(window) = b
      BY <1>1, <1>3, <3>1
    <3>3. Head(window) \in Seqno
      BY <1>3, <3>1, HeadTailProperties
    <3> QED  BY <3>1, <3>2, <3>3
  <2>3. /\ SendToClient(FilePacket(b))
        /\ SentFrom(b, window, unacked_packets \cup {b}, next_seq_number)
    <3>1. SendPacket(b) /\ TypeOK /\ next_seq_number \in Int
      BY <2>1, <2>2, FileAssumption DEF IInv
    <3> QED  BY <1>1, <1>3, <2>2, <3>1, SendPacketEffect
  <2>4. unacked_packets \cup {b} \subseteq b..(b + Len(window) - 1)
    BY <1>1, <2>2 DEF IInv, ServerInv, TimerSetLive
  <2>5. /\ acked' = acked /\ b \notin acked /\ acked \cap (unacked_packets \cup {b}) = {}
        /\ acked \subseteq b..(next_seq_number - 1)
    BY <1>1, <1>3, <2>1, <2>2 DEF IInv, ServerInv, FrontUnacked, AckedApart, AckedLive
  <2>6. Len(window') = 1
    BY <2>2, <2>3 DEF SentFrom
  <2>7. \A p \in b..(b + Len(window') - 1) : p \in unacked_packets \cup {b}
    BY <2>6
  <2>8. /\ worker_pc' \in WorkerPC \ {"start"} /\ timer_pc' \in TimerPC
        /\ first_unacked_pkt' \in 0..Len(File)
    BY <2>1 DEF IInv, TypeOK, WorkerPC, TimerPC
  <2>9. /\ toClient' \subseteq [seqno : 0..(Len(File) + 1), data : Data \cup {NoData}]
        /\ NetSafe'
    BY <2>2, <2>3, FilePacketSafe DEF IInv, ClientInv, clientVars
  <2>10. UNCHANGED <<toServer, clientVars>> /\ UNCHANGED server_up /\ worker_pc' # "insert"
    BY <2>1
  <2> QED  BY <1>1, <1>3, <2>1, <2>2, <2>3, <2>4, <2>5, <2>7, <2>8, <2>9, <2>10, SendPreserves
<1> QED  BY <1>2, <1>3

\* A window grows at its end by the packet that follows it, from the auxiliary
\* window or else from the file.
LEMMA AppendRun ==
  ASSUME NEW b \in Int, NEW w \in Seq(Seqno), NEW aux, NEW next \in Int,
         IsRun(b, w, aux, next),
         NEW pkt \in Seqno, pkt = b + Len(w)
  PROVE  /\ Append(w, pkt) \in Seq(Seqno) /\ Append(w, pkt) # <<>>
         /\ Len(Append(w, pkt)) = Len(w) + 1
         /\ aux # {} => IsRun(b, Append(w, pkt), aux \ {pkt}, next)
         /\ aux = {} => next = pkt /\ IsRun(b, Append(w, pkt), aux, pkt + 1)
<1> DEFINE grown == Append(w, pkt)
<1>1. /\ grown \in Seq(Seqno)
      /\ Len(grown) = Len(w) + 1
      /\ \A i \in 1..Len(w) : grown[i] = w[i]
      /\ grown[Len(w) + 1] = pkt
  BY AppendProperties
<1>2. Len(w) \in Nat /\ pkt \in Int
  OBVIOUS
<1>3. grown # <<>>
  BY <1>1, <1>2, EmptySeq
<1>4. /\ \A i \in 1..Len(w) : w[i] = b + i - 1
      /\ aux = pkt..(next - 1)
      /\ pkt <= next
  BY DEF IsRun
<1>5. \A i \in 1..Len(grown) : grown[i] = b + i - 1
  BY <1>1, <1>2, <1>4
<1> HIDE DEF grown
<1>6. ASSUME aux # {}
      PROVE  IsRun(b, grown, aux \ {pkt}, next)
  <2>1. pkt < next
    BY <1>2, <1>4, <1>6
  <2>2. aux \ {pkt} = (b + Len(grown))..(next - 1)
    BY <1>1, <1>2, <1>4
  <2>3. b + Len(grown) <= next
    BY <1>1, <1>2, <2>1
  <2> QED  BY <1>5, <2>2, <2>3 DEF IsRun
<1>7. ASSUME aux = {}
      PROVE  next = pkt /\ IsRun(b, grown, aux, pkt + 1)
  <2>1. next = pkt
    BY <1>2, <1>4, <1>7
  <2>2. aux = (b + Len(grown))..(pkt + 1 - 1) /\ b + Len(grown) <= pkt + 1
    BY <1>1, <1>2, <1>7, <2>1
  <2> QED  BY <1>5, <2>1, <2>2 DEF IsRun
<1> QED  BY <1>1, <1>3, <1>6, <1>7 DEF grown

\* One iteration of expand_window that sends pkt, the packet behind the window.
LEMMA ExpandSends ==
  ASSUME IInv,
         UNCHANGED <<clientVars, toServer, timer_pc, server_up, window_size, threshold,
                     unacked_packets>>,
         worker_pc = "expand", worker_pc' = "insert", Len(window) < window_size,
         NEW pkt \in Seqno, SendToClient(FilePacket(pkt)),
         NEW next \in 1..(Len(File) + 1), next_seq_number' = next,
         acked' = acked \ {pkt},
         first_unacked_pkt' \in 0..Len(File),
         NEW b \in Nat \ {0}, b <= expected_seqno, pkt = b + Len(window),
         NEW w \in Seq(Seqno), w # <<>>, Len(w) = Len(window) + 1,
         window' = w, IsRun(b, w, aux_window', next),
         Range(window) = b..(b + Len(window) - 1),
         Live \subseteq b..(next - 1),
         window # <<>> => Head(window) = b
  PROVE  IInv'
<1>1. /\ TypeOK
      /\ window \in Seq(Seqno) /\ Len(window) \in Nat
      /\ window_size \in 1..MaxWindowSize /\ window_size \in Int /\ threshold \in Nat
      /\ next \in Int /\ b \in Int
  <2>1. TypeOK
    BY DEF IInv
  <2>2. window \in Seq(Seqno) /\ window_size \in 1..MaxWindowSize /\ threshold \in Nat
    BY <2>1 DEF TypeOK
  <2>3. Len(window) \in Nat
    BY <2>2
  <2>4. window_size \in Int
    BY <2>2, MaxWindowAssumption
  <2>5. next \in Int /\ b \in Int
    BY FileAssumption
  <2> QED  BY <2>1, <2>2, <2>3, <2>4, <2>5
<1>2. Len(w) <= window_size /\ b + Len(window') - 1 = pkt
  BY <1>1
<1>3. SentFrom(b, w, unacked_packets, next)
  BY <1>1, <1>2, NothingDropped
<1>4. /\ toClient' \subseteq [seqno : 0..(Len(File) + 1), data : Data \cup {NoData}]
      /\ NetSafe'
  BY <1>1, FilePacketSafe DEF IInv, ClientInv, clientVars
<1>5. unacked_packets \subseteq b..(b + Len(w) - 1)
  BY <1>1 DEF IInv, ServerInv, TimerSetLive
<1>6. /\ acked' \cap unacked_packets = {} /\ acked' \subseteq b..(next - 1)
      /\ acked' \subseteq acked /\ pkt \notin acked'
  BY DEF IInv, ServerInv, AckedApart, AckedLive
<1>7. b \notin acked'
  <2>1. CASE window = <<>>
    <3>1. Len(window) = 0 /\ b = pkt
      BY <1>1, <2>1, EmptySeq
    <3> QED  BY <3>1
  <2>2. CASE window # <<>>
    BY <2>2 DEF IInv, ServerInv, FrontUnacked
  <2> QED  BY <2>1, <2>2
<1>8. \A p \in b..(b + Len(window') - 1) :
        \/ p \in unacked_packets \/ p \in acked' \/ timer_pc' \in {"window", "resend"}
        \/ worker_pc' = "insert" /\ p = b + Len(window') - 1
  <2> SUFFICES ASSUME NEW p \in b..(b + Len(window') - 1), p \notin acked, p # pkt
               PROVE  p \in unacked_packets \/ timer_pc' \in {"window", "resend"}
    BY <1>2
  <2>1. p \in Range(window)
    BY <1>1
  <2> QED  BY <2>1 DEF IInv, ServerInv, TimerCovers
<1>9. /\ UNCHANGED <<toServer, clientVars>> /\ UNCHANGED server_up
      /\ worker_pc' \in WorkerPC \ {"start"} /\ timer_pc' \in TimerPC
  BY <1>1 DEF TypeOK, WorkerPC
<1>10. worker_pc' = "insert" => b + Len(window') - 1 \notin acked'
  BY <1>2, <1>6
<1> QED  BY <1>3, <1>4, <1>5, <1>6, <1>7, <1>8, <1>9, <1>10, SendPreserves

LEMMA ExpandWindowStep ==
  ASSUME IInv, ExpandWindow, UNCHANGED clientVars
  PROVE  IInv'
<1>1. PICK b \in Nat \ {0} :
         /\ IsRun(b, window, aux_window, next_seq_number)
         /\ b <= expected_seqno
         /\ Range(window) = b..(b + Len(window) - 1)
         /\ Live = b..(next_seq_number - 1)
         /\ window # <<>> => Head(window) = b /\ Len(window) > 0
  BY TheRun
<1>2. /\ window \in Seq(Seqno) /\ Len(window) \in Nat
      /\ next_seq_number \in 1..(Len(File) + 1) /\ next_seq_number \in Int
      /\ first_unacked_pkt \in 0..Len(File) /\ Len(File) \in Nat
  BY FileAssumption DEF IInv, TypeOK
<1>3. /\ aux_window = (b + Len(window))..(next_seq_number - 1)
      /\ b + Len(window) <= next_seq_number
  BY <1>1 DEF IsRun
<1>4. /\ UNCHANGED <<clientVars, toServer, timer_pc, server_up, window_size, threshold,
                     unacked_packets>>
      /\ worker_pc = "expand" /\ worker_pc' = "insert" /\ Len(window) < window_size
  BY DEF ExpandWindow, HasRoom
<1> DEFINE pkt == b + Len(window)
           w   == Append(window, pkt)
<1>5. pkt = b + Len(window) /\ w = Append(window, pkt) /\ b \in Int
  OBVIOUS
<1> HIDE DEF pkt, w
<1>6. CASE aux_window # {}
  <2>1. pkt \in aux_window /\ \A q \in aux_window : pkt <= q
    BY <1>2, <1>3, <1>5, <1>6
  <2>2. FirstAux = pkt
    <3>1. \A p \in aux_window : (\A q \in aux_window : p <= q) => p = pkt
      BY <2>1, <1>2, <1>3, <1>5
    <3> QED  BY <2>1, <3>1 DEF FirstAux
  <2>3. /\ acked' = acked \ {pkt}
        /\ window' = w /\ SendToClient(FilePacket(pkt))
        /\ aux_window' = aux_window \ {pkt}
        /\ next_seq_number' = next_seq_number
        /\ first_unacked_pkt' = first_unacked_pkt
    BY <1>5, <1>6, <2>2 DEF ExpandWindow, PushAndSend
  <2>4. pkt \in Seqno
    BY <2>1 DEF IInv, TypeOK
  <2>5. /\ w \in Seq(Seqno) /\ w # <<>> /\ Len(w) = Len(window) + 1
        /\ IsRun(b, w, aux_window \ {pkt}, next_seq_number)
    <3>1. aux_window # {} => IsRun(b, Append(window, pkt), aux_window \ {pkt}, next_seq_number)
      BY <1>1, <1>2, <1>5, <2>4, AppendRun
    <3>2. /\ Append(window, pkt) \in Seq(Seqno) /\ Append(window, pkt) # <<>>
          /\ Len(Append(window, pkt)) = Len(window) + 1
      BY <1>1, <1>2, <1>5, <2>4, AppendRun
    <3> QED  BY <1>5, <1>6, <3>1, <3>2
  <2>6. Live \subseteq b..(next_seq_number - 1)
    BY <1>1
  <2>7. IsRun(b, w, aux_window', next_seq_number)
    BY <2>3, <2>5
  <2>8. first_unacked_pkt' \in 0..Len(File)
    BY <1>2, <2>3
  <2> QED  BY <1>1, <1>2, <1>4, <1>5, <2>3, <2>4, <2>5, <2>6, <2>7, <2>8, ExpandSends
<1>7. CASE aux_window = {}
  <2> DEFINE next == next_seq_number + 1
  <2>1. next_seq_number = pkt
    BY <1>2, <1>3, <1>5, <1>7
  <2>2. next_seq_number <= Len(File)
    BY <1>7 DEF ExpandWindow, HasRoom, MoreToSend, HasNext
  <2>3. /\ acked' = acked
        /\ window' = w /\ SendToClient(FilePacket(pkt))
        /\ aux_window' = aux_window
        /\ next_seq_number' = next
        /\ first_unacked_pkt' \in {first_unacked_pkt, next_seq_number}
    BY <1>5, <1>7, <2>1 DEF ExpandWindow, PushAndSend, ReusesStalePointer
  <2>4. pkt \in Seqno
    BY <1>2, <2>1, <2>2 DEF Seqno
  <2>5. /\ w \in Seq(Seqno) /\ w # <<>> /\ Len(w) = Len(window) + 1
        /\ IsRun(b, w, aux_window, next)
    <3>1. aux_window = {} => IsRun(b, Append(window, pkt), aux_window, pkt + 1)
      BY <1>1, <1>2, <1>5, <2>4, AppendRun
    <3>2. /\ Append(window, pkt) \in Seq(Seqno) /\ Append(window, pkt) # <<>>
          /\ Len(Append(window, pkt)) = Len(window) + 1
      BY <1>1, <1>2, <1>5, <2>4, AppendRun
    <3> QED  BY <1>5, <1>7, <2>1, <3>1, <3>2
  <2>6. acked' = acked \ {pkt}
    <3>1. acked \subseteq b..(next_seq_number - 1)
      BY <1>1 DEF IInv, ServerInv, AckedLive
    <3>2. pkt \notin acked
      BY <1>2, <2>1, <3>1
    <3> QED  BY <2>3, <3>2
  <2>7. Live \subseteq b..(next - 1)
    BY <1>1, <1>2
  <2>8. first_unacked_pkt' \in 0..Len(File) /\ next \in 1..(Len(File) + 1)
    BY <1>2, <2>2, <2>3
  <2> HIDE DEF next
  <2>9. IsRun(b, w, aux_window', next)
    BY <2>3, <2>5
  <2> QED  BY <1>1, <1>4, <1>5, <2>3, <2>4, <2>5, <2>6, <2>7, <2>8, <2>9, ExpandSends
<1> QED  BY <1>6, <1>7

\* The packet just sent enters the timer's set.
LEMMA InsertSentStep ==
  ASSUME IInv, InsertSent, UNCHANGED clientVars
  PROVE  IInv'
<1>1. PICK b \in Nat \ {0} :
         /\ IsRun(b, window, aux_window, next_seq_number)
         /\ b <= expected_seqno
         /\ Range(window) = b..(b + Len(window) - 1)
         /\ Live = b..(next_seq_number - 1)
         /\ window # <<>> => Head(window) = b /\ Len(window) > 0
  BY TheRun
<1>2. /\ window \in Seq(Seqno) /\ Len(window) \in Nat
      /\ next_seq_number \in 1..(Len(File) + 1) /\ next_seq_number \in Int
      /\ window_size \in 1..MaxWindowSize /\ threshold \in Nat
  BY FileAssumption DEF IInv, TypeOK
<1> DEFINE last == window[Len(window)]
           u    == unacked_packets \cup {last}
<1>3. /\ UNCHANGED <<windowVars, timer_pc, first_unacked_pkt, server_up, netVars>>
      /\ unacked_packets' = u /\ worker_pc = "insert" /\ worker_pc' \in {"halve", "expand"}
  BY DEF InsertSent, StartTimer
<1>4. window # <<>> /\ last \notin acked /\ Len(window) <= window_size
  BY <1>3 DEF IInv, ServerInv, SentUnacked, WindowBounded
<1>5. last = b + Len(window) - 1
  BY <1>1, <1>2, <1>4 DEF IsRun
<1> HIDE DEF last
<1>6. window' = window /\ IsRun(b, window, aux_window', next_seq_number)
  BY <1>1, <1>3 DEF windowVars
<1>7. UNCHANGED <<window_size, threshold, acked, next_seq_number>>
  BY <1>3 DEF windowVars
<1>8. SentFrom(b, window, u, next_seq_number)
  BY <1>2, <1>3, <1>4, <1>6, <1>7, NothingDropped
<1>9. u \subseteq b..(b + Len(window) - 1)
  BY <1>1, <1>2, <1>4, <1>5 DEF IInv, ServerInv, TimerSetLive
<1>10. /\ acked' \cap u = {} /\ b \notin acked' /\ acked' \subseteq b..(next_seq_number - 1)
       /\ acked' \subseteq acked
  BY <1>1, <1>4, <1>7 DEF IInv, ServerInv, AckedApart, AckedLive, FrontUnacked
<1>11. \A p \in b..(b + Len(window') - 1) :
         p \in u \/ p \in acked' \/ timer_pc' \in {"window", "resend"}
  BY <1>1, <1>3, <1>6, <1>7 DEF IInv, ServerInv, TimerCovers, last
<1>12. /\ toClient' \subseteq [seqno : 0..(Len(File) + 1), data : Data \cup {NoData}]
       /\ NetSafe'
  BY <1>3, FewerInFlight DEF netVars
<1>13. /\ worker_pc' \in WorkerPC \ {"start"} /\ timer_pc' \in TimerPC
       /\ first_unacked_pkt' \in 0..Len(File) /\ worker_pc' # "insert"
       /\ UNCHANGED <<toServer, clientVars>> /\ UNCHANGED server_up
  BY <1>3 DEF IInv, TypeOK, WorkerPC, netVars
<1> HIDE DEF u
<1> QED  BY <1>1, <1>2, <1>4, <1>7, <1>8, <1>9, <1>10, <1>11, <1>12, <1>13, SendPreserves

\* A triple duplicate ACK of the packet just sent.
LEMMA HalveWindowStep ==
  ASSUME IInv, HalveWindow, UNCHANGED clientVars
  PROVE  IInv'
<1>1. PICK b \in Nat \ {0} :
         /\ IsRun(b, window, aux_window, next_seq_number)
         /\ b <= expected_seqno
         /\ Range(window) = b..(b + Len(window) - 1)
         /\ Live = b..(next_seq_number - 1)
         /\ window # <<>> => Head(window) = b /\ Len(window) > 0
  BY TheRun
<1>2. /\ window \in Seq(Seqno) /\ Len(window) \in Nat
      /\ next_seq_number \in 1..(Len(File) + 1) /\ next_seq_number \in Int
      /\ window_size \in 1..MaxWindowSize /\ MaxWindowSize \in Nat
  BY FileAssumption, MaxWindowAssumption DEF IInv, TypeOK
<1>3. /\ ShrinkWindow(window, aux_window, unacked_packets, window_size, window_size \div 2)
      /\ UNCHANGED <<acked, next_seq_number, timer_pc, first_unacked_pkt, server_up, netVars>>
      /\ worker_pc = "halve" /\ worker_pc' = "expand"
  BY DEF HalveWindow
<1>4. window # <<>>
  BY <1>3 DEF IInv, ServerInv, SentUnacked
<1>5. SentFrom(b, window, unacked_packets, next_seq_number)
  <2>1. window_size \div 2 \in Int /\ window_size \div 2 <= MaxWindowSize
    BY <1>2
  <2> QED  BY <1>1, <1>2, <1>3, <1>4, <2>1, ShrinkEffect
<1>6. unacked_packets \subseteq b..(b + Len(window) - 1)
  BY <1>1 DEF IInv, ServerInv, TimerSetLive
<1>7. /\ acked' \cap unacked_packets = {} /\ b \notin acked' /\ acked' \subseteq acked
      /\ acked' \subseteq b..(next_seq_number - 1)
  BY <1>1, <1>3, <1>4 DEF IInv, ServerInv, AckedApart, AckedLive, FrontUnacked
<1>8. \A p \in b..(b + Len(window') - 1) :
        p \in unacked_packets \/ p \in acked' \/ timer_pc' \in {"window", "resend"}
  <2> SUFFICES ASSUME NEW p \in b..(b + Len(window') - 1), p \notin acked
               PROVE  p \in unacked_packets \/ timer_pc \in {"window", "resend"}
    BY <1>3
  <2>1. Len(window') \in 1..Len(window)
    BY <1>5 DEF SentFrom
  <2>2. p \in Range(window)
    BY <1>1, <1>2, <2>1
  <2> QED  BY <1>3, <2>2 DEF IInv, ServerInv, TimerCovers
<1>9. /\ toClient' \subseteq [seqno : 0..(Len(File) + 1), data : Data \cup {NoData}]
      /\ NetSafe'
  BY <1>3, FewerInFlight DEF netVars
<1>10. /\ worker_pc' \in WorkerPC \ {"start"} /\ timer_pc' \in TimerPC
       /\ first_unacked_pkt' \in 0..Len(File) /\ worker_pc' # "insert"
       /\ UNCHANGED <<toServer, clientVars>> /\ UNCHANGED server_up
  BY <1>3 DEF IInv, TypeOK, WorkerPC, netVars
<1> QED  BY <1>1, <1>2, <1>3, <1>4, <1>5, <1>6, <1>7, <1>8, <1>9, <1>10, SendPreserves

LEMMA TimerResendStep ==
  ASSUME IInv, TimerResend, UNCHANGED clientVars
  PROVE  IInv'
<1>1. PICK b \in Nat \ {0} :
         /\ IsRun(b, window, aux_window, next_seq_number)
         /\ b <= expected_seqno
         /\ Range(window) = b..(b + Len(window) - 1)
         /\ Live = b..(next_seq_number - 1)
         /\ window # <<>> => Head(window) = b /\ Len(window) > 0
  BY TheRun
<1>2. /\ window \in Seq(Seqno) /\ Len(window) \in Nat
      /\ next_seq_number \in 1..(Len(File) + 1) /\ next_seq_number \in Int
      /\ window_size \in 1..MaxWindowSize /\ MaxWindowSize \in Nat \ {0}
  BY FileAssumption, MaxWindowAssumption DEF IInv, TypeOK
<1>3. /\ window # <<>> /\ Head(window) = b
      /\ SendToClient(FilePacket(b))
      /\ timer_pc' = "check" /\ worker_pc # "insert"
      /\ UNCHANGED <<acked, next_seq_number, worker_pc, first_unacked_pkt, server_up, toServer>>
  BY <1>1 DEF TimerResend, WindowLocked
<1> DEFINE u == unacked_packets \cup {b}
<1>4. PICK size \in {window_size, 1} : ShrinkWindow(window, aux_window, u, size, 1)
  BY <1>1, <1>3 DEF TimerResend
<1>5. SentFrom(b, window, u, next_seq_number)
  <2>1. size \in 1..MaxWindowSize /\ 1 \in Int /\ 1 <= MaxWindowSize
    BY <1>2
  <2> QED  BY <1>1, <1>2, <1>3, <1>4, <2>1, ShrinkEffect
<1>6. Len(window') = 1
  <2>1. window_size' = 1
    BY <1>4 DEF ShrinkWindow, StopTimers, AtLeastOne
  <2>2. Len(window') \in 1..Len(window) /\ Len(window') <= 1
    BY <1>5, <2>1 DEF SentFrom
  <2>3. \A k \in 1..Len(window) : k <= 1 => k = 1
    BY <1>2
  <2> QED  BY <2>2, <2>3
<1>7. /\ b \notin acked /\ acked \cap u = {} /\ acked \subseteq b..(next_seq_number - 1)
      /\ u \subseteq b..(b + Len(window) - 1)
  BY <1>1, <1>2, <1>3 DEF IInv, ServerInv, FrontUnacked, AckedApart, AckedLive, TimerSetLive
<1>8. \A p \in b..(b + Len(window') - 1) : p \in u
  BY <1>6
<1>9. b \in Seqno
  BY <1>2, <1>3, HeadTailProperties
<1>10. worker_pc \in WorkerPC /\ timer_pc' \in TimerPC /\ first_unacked_pkt' \in 0..Len(File)
  BY <1>3 DEF IInv, TypeOK, TimerPC
<1> HIDE DEF u
<1>11. worker_pc' \in WorkerPC \ {"start"}
  <2>1. timer_pc # "off"
    BY DEF TimerResend
  <2> QED  BY <1>3, <1>10, <2>1 DEF IInv, ServerInv, StartsSmall
<1>12. UNCHANGED <<toServer, clientVars>> /\ UNCHANGED server_up /\ acked' \subseteq acked
  BY <1>3
<1>13. /\ toClient' \subseteq [seqno : 0..(Len(File) + 1), data : Data \cup {NoData}]
       /\ NetSafe'
  BY <1>3, <1>9, FilePacketSafe DEF IInv, ClientInv, clientVars
<1>14. worker_pc' # "insert"
  BY <1>3
<1> QED  BY <1>1, <1>2, <1>3, <1>5, <1>7, <1>8, <1>10, <1>11, <1>12, <1>13, <1>14,
            SendPreserves

\* Counting an ACK pops the first n packets of the window, for some n.
LEMMA AckPops ==
  ASSUME IInv, NEW ackno, AckNew(ackno)
  PROVE  \E n \in 0..Len(window) :
           /\ \A i \in 1..n : window[i] \in acked \cup {ackno}
           /\ n < Len(window) => window[n + 1] \notin acked \cup {ackno}
           /\ window' = SubSeq(window, n + 1, Len(window))
           /\ acked' = (acked \cup {ackno}) \ {window[i] : i \in 1..n}
<1>1. window \in Seq(Seqno) /\ Len(window) \in Nat
  BY DEF IInv, TypeOK
<1>2. CASE ackno = Head(window)
  BY <1>2 DEF AckNew, AdvanceWindow
<1>3. CASE ackno # Head(window)
  <2>1. window' = window /\ acked' = acked \cup {ackno}
    BY <1>3 DEF AckNew
  <2>2. window # <<>>
    BY <1>1 DEF AckNew, Range
  <2>3. Head(window) \notin acked
    BY <2>2 DEF IInv, ServerInv, FrontUnacked
  <2>4. window[1] \notin acked \cup {ackno}
    BY <1>1, <1>3, <2>2, <2>3
  <2>5. window' = SubSeq(window, 0 + 1, Len(window))
    BY <1>1, <2>1, SubSeqFull
  <2>6. {window[i] : i \in 1..0} = {}
    OBVIOUS
  <2> QED  BY <1>1, <2>1, <2>4, <2>5, <2>6
<1> QED  BY <1>2, <1>3

LEMMA AckNewStep ==
  ASSUME IInv, NEW ackno, AckNew(ackno), UNCHANGED clientVars
  PROVE  IInv'
<1>1. PICK b \in Nat \ {0} :
         /\ IsRun(b, window, aux_window, next_seq_number)
         /\ b <= expected_seqno
         /\ Range(window) = b..(b + Len(window) - 1)
         /\ Live = b..(next_seq_number - 1)
         /\ window # <<>> => Head(window) = b /\ Len(window) > 0
  BY TheRun
<1> DEFINE marked == acked \cup {ackno}
<1>2. PICK n \in 0..Len(window) :
         /\ \A i \in 1..n : window[i] \in marked
         /\ n < Len(window) => window[n + 1] \notin marked
         /\ window' = SubSeq(window, n + 1, Len(window))
         /\ acked' = marked \ {window[i] : i \in 1..n}
  BY AckPops
<1>3. /\ window \in Seq(Seqno) /\ Len(window) \in Nat
      /\ next_seq_number \in Int /\ next_seq_number \in 1..(Len(File) + 1)
      /\ b \in Int /\ b + n \in Nat \ {0} /\ expected_seqno \in Int
  BY FileAssumption DEF IInv, TypeOK
<1>4. /\ \A i \in 1..Len(window) : window[i] = b + i - 1
      /\ aux_window = (b + Len(window))..(next_seq_number - 1)
      /\ b + Len(window) <= next_seq_number
  BY <1>1 DEF IsRun
<1>5. /\ ackno \in toServer /\ ackno \in Range(window) \ acked
      /\ unacked_packets' = unacked_packets \ {ackno}
      /\ window_size' = AdjustedWindowSize
      /\ worker_pc = "idle" /\ worker_pc' = "expand"
      /\ toServer' \in {toServer, toServer \ {ackno}}
      /\ UNCHANGED <<aux_window, next_seq_number, threshold, timer_pc, first_unacked_pkt,
                     server_up, toClient>>
  BY DEF AckNew, TakeFromClient
\* The packets popped, and those left.
<1>6. b..(b + n - 1) \subseteq marked
  <2> SUFFICES ASSUME NEW p \in b..(b + n - 1)
               PROVE  p \in marked
    OBVIOUS
  <2>1. p - b + 1 \in 1..n /\ p - b + 1 \in 1..Len(window)
    BY <1>3
  <2>2. window[p - b + 1] = p
    BY <1>3, <1>4, <2>1
  <2> QED  BY <1>2, <2>1, <2>2
<1>7. acked' = marked \ (b..(b + n - 1))
  <2>1. ASSUME NEW i \in 1..n
        PROVE  window[i] \in b..(b + n - 1)
    BY <1>3, <1>4
  <2>2. ASSUME NEW p \in b..(b + n - 1)
        PROVE  p \in {window[i] : i \in 1..n}
    <3>1. p - b + 1 \in 1..n /\ p - b + 1 \in 1..Len(window)
      BY <1>3
    <3>2. window[p - b + 1] = p
      BY <1>3, <1>4, <3>1
    <3> QED  BY <3>1, <3>2
  <2>3. {window[i] : i \in 1..n} = b..(b + n - 1)
    BY <2>1, <2>2
  <2> QED  BY <1>2, <2>3
<1>8. /\ window' \in Seq(Seqno)
      /\ Len(window') = Len(window) - n
      /\ \A i \in 1..(Len(window) - n) : window'[i] = window[n + i]
  BY <1>2, <1>3, Suffix
<1>9. IsRun(b + n, window', aux_window', next_seq_number')
  <2>1. \A i \in 1..Len(window') : window'[i] = (b + n) + i - 1
    BY <1>3, <1>4, <1>8
  <2>2. (b + n) + Len(window') = b + Len(window)
    BY <1>3, <1>8
  <2> QED  BY <1>4, <1>5, <2>1, <2>2 DEF IsRun
<1>10. /\ Range(window') = (b + n)..(b + Len(window) - 1)
       /\ window' # <<>> => Head(window') = b + n /\ n < Len(window)
  <2>1. b + n \in Int /\ next_seq_number' \in Int
    BY <1>3, <1>5
  <2>2. /\ Range(window') = (b + n)..(b + n + Len(window') - 1)
        /\ window' # <<>> => Head(window') = b + n /\ Len(window') > 0
    BY <1>8, <1>9, <2>1, RunRange
  <2> QED  BY <1>3, <1>8, <2>2
<1>11. Live' = (b + n)..(next_seq_number - 1)
  <2>1. b + n \in Int /\ next_seq_number' \in Int
    BY <1>3, <1>5
  <2>2. Range(window') \cup aux_window' = (b + n)..(next_seq_number' - 1)
    BY <1>8, <1>9, <2>1, RunLive
  <2> QED  BY <1>5, <2>2 DEF Live
<1>12. b + n \in 1..next_seq_number
  BY <1>3, <1>4
\* Everything marked has been received, so what is popped has been written.
<1>13. \A p \in marked : p < expected_seqno \/ p \in DOMAIN client_window
  BY <1>5 DEF IInv, ClientInv, AckSafe, Received, AckedIsReceived
<1>14. b + n <= expected_seqno
  <2> SUFFICES ASSUME expected_seqno < b + n
               PROVE  FALSE
    BY <1>3
  <2>1. expected_seqno \in b..(b + n - 1)
    BY <1>1, <1>3
  <2>2. expected_seqno < expected_seqno \/ expected_seqno \in DOMAIN client_window
    BY <1>6, <1>13, <2>1
  <2>3. \A s \in DOMAIN client_window : s > expected_seqno
    BY DEF IInv, ClientInv, ClientSafe
  <2> QED  BY <1>3, <2>2, <2>3
<1> HIDE DEF marked
<1>15. marked = acked \cup {ackno}
  BY DEF marked
<1>16. ServerInv'
  <2>1. WindowIsRun'
    BY <1>5, <1>9, <1>12 DEF WindowIsRun
  <2>2. WindowBounded'
    <3>1. Len(window) <= window_size /\ window_size \in 1..MaxWindowSize
      BY DEF IInv, TypeOK, ServerInv, WindowBounded
    <3>2. window_size <= AdjustedWindowSize
      BY <3>1, MaxWindowAssumption DEF AdjustedWindowSize
    <3>3. AdjustedWindowSize \in Int
      BY <3>1, MaxWindowAssumption DEF AdjustedWindowSize
    <3> QED  BY <1>3, <1>5, <1>8, <3>1, <3>2, <3>3, MaxWindowAssumption DEF WindowBounded
  <2>3. TimerCovers'
    <3> SUFFICES ASSUME NEW p \in Range(window') \ acked'
                 PROVE  p \in unacked_packets' \/ timer_pc' \in {"window", "resend"}
      BY DEF TimerCovers
    <3>1. p \in Range(window) /\ p \notin b..(b + n - 1)
      BY <1>1, <1>3, <1>10
    <3>2. p \notin acked /\ p # ackno
      BY <1>7, <1>15, <3>1
    <3> QED  BY <1>5, <3>1, <3>2 DEF IInv, ServerInv, TimerCovers
  <2>4. TimerSetLive'
    <3> SUFFICES ASSUME NEW p \in unacked_packets'
                 PROVE  p \in Range(window')
      BY DEF TimerSetLive
    <3>1. p \in unacked_packets /\ p # ackno
      BY <1>5
    <3>2. p \in Range(window) /\ p \notin acked
      BY <3>1 DEF IInv, ServerInv, TimerSetLive, AckedApart
    <3>3. \A i \in 1..n : window[i] # p
      BY <1>2, <1>15, <3>1, <3>2
    <3>4. p \in b..(b + Len(window) - 1)
      BY <1>1, <3>2
    <3>5. CASE p < b + n
      <4>1. p - b + 1 \in 1..n /\ p - b + 1 \in 1..Len(window)
        BY <1>3, <3>4, <3>5
      <4>2. window[p - b + 1] = p
        BY <1>3, <1>4, <3>4, <4>1
      <4> QED  BY <3>3, <4>1, <4>2
    <3>6. CASE ~(p < b + n)
      BY <1>3, <1>10, <3>4, <3>6
    <3> QED  BY <3>5, <3>6
  <2>5. FrontUnacked'
    <3>1. ASSUME window' # <<>>
          PROVE  b + n \notin marked
      <4>1. n + 1 \in 1..Len(window) /\ window[n + 1] = b + n
        BY <1>3, <1>4, <1>10, <3>1
      <4> QED  BY <1>2, <1>10, <3>1, <4>1
    <3> QED  BY <1>7, <1>10, <3>1 DEF FrontUnacked
  <2>6. AckedApart'
    BY <1>5, <1>7, <1>15 DEF IInv, ServerInv, AckedApart
  <2>7. AckedLive'
    <3>1. marked \subseteq b..(next_seq_number - 1)
      BY <1>1, <1>5, <1>15 DEF IInv, ServerInv, AckedLive, Live
    <3> QED  BY <1>3, <1>7, <1>11, <3>1 DEF AckedLive
  <2>8. EmptyAtEnd' /\ StartsSmall' /\ SentUnacked'
    BY <1>5 DEF EmptyAtEnd, StartsSmall, SentUnacked
  <2> QED  BY <2>1, <2>2, <2>3, <2>4, <2>5, <2>6, <2>7, <2>8 DEF ServerInv
<1>17. TypeOK'
  <2>1. window_size' \in 1..MaxWindowSize
    BY <1>5, MaxWindowAssumption DEF AdjustedWindowSize, IInv, TypeOK
  <2>2. acked' \subseteq Seqno
    BY <1>3, <1>5, <1>7, <1>15 DEF IInv, TypeOK, Range
  <2> QED  BY <1>5, <1>8, <2>1, <2>2 DEF IInv, TypeOK, WorkerPC, clientVars
<1>18. ClientInv'
  BY <1>5 DEF IInv, ClientInv, NetSafe, AckSafe, Received, ClientSafe, DeliveredPrefix,
              CompleteWhenDone, clientVars
<1>19. AckedIsReceived'
  BY <1>7, <1>13 DEF AckedIsReceived, clientVars
<1>20. PoppedIsWritten'
  <2>1. \A p \in 1..(next_seq_number - 1) : p \in (b + n)..(next_seq_number - 1) \/ p < expected_seqno
    BY <1>3, <1>14
  <2> QED  BY <1>5, <1>11, <2>1 DEF PoppedIsWritten, clientVars
<1> QED  BY <1>16, <1>17, <1>18, <1>19, <1>20 DEF IInv

\* Steps that leave the window alone and put nothing in flight but what NetSafe
\* allows.
LEMMA QuietPreserves ==
  ASSUME IInv, UNCHANGED <<windowVars, clientVars>>,
         toClient' \subseteq [seqno : 0..(Len(File) + 1), data : Data \cup {NoData}],
         NetSafe', toServer' \subseteq toServer,
         unacked_packets' \subseteq unacked_packets,
         worker_pc' \in WorkerPC, timer_pc' \in TimerPC,
         first_unacked_pkt' \in 0..Len(File), server_up' \in BOOLEAN,
         TimerCovers', EmptyAtEnd', StartsSmall', SentUnacked'
  PROVE  IInv'
<1>1. TypeOK'
  BY DEF IInv, TypeOK, windowVars, clientVars
<1>2. ServerInv'
  <2>1. WindowIsRun' /\ WindowBounded'
    BY DEF IInv, ServerInv, WindowIsRun, WindowBounded, windowVars
  <2>2. TimerSetLive' /\ FrontUnacked' /\ AckedApart' /\ AckedLive'
    BY DEF IInv, ServerInv, TimerSetLive, FrontUnacked, AckedApart, AckedLive, Live, windowVars
  <2> QED  BY <2>1, <2>2 DEF ServerInv
<1>3. ClientInv'
  BY DEF IInv, ClientInv, AckSafe, Received, ClientSafe, DeliveredPrefix, CompleteWhenDone,
         clientVars
<1>4. AckedIsReceived' /\ PoppedIsWritten'
  BY DEF IInv, AckedIsReceived, PoppedIsWritten, Live, windowVars, clientVars
<1> QED  BY <1>1, <1>2, <1>3, <1>4 DEF IInv

\* A step of the timer thread that does not touch the window.
LEMMA TimerPreserves ==
  ASSUME IInv, UNCHANGED <<windowVars, clientVars, netVars, worker_pc>>,
         unacked_packets' \subseteq unacked_packets,
         timer_pc # "off", timer_pc' \in TimerPC, server_up' \in BOOLEAN,
         first_unacked_pkt' \in 0..Len(File),
         \/ unacked_packets' = unacked_packets /\ timer_pc \notin {"window", "resend"}
         \/ timer_pc' \in {"window", "resend"}
  PROVE  IInv'
<1>1. /\ toClient' \subseteq [seqno : 0..(Len(File) + 1), data : Data \cup {NoData}]
      /\ NetSafe'
  BY FewerInFlight DEF netVars
<1>2. toServer' \subseteq toServer /\ worker_pc' \in WorkerPC
  BY DEF IInv, TypeOK, netVars
<1>3. TimerCovers'
  BY DEF IInv, ServerInv, TimerCovers, windowVars
<1>4. EmptyAtEnd' /\ StartsSmall' /\ SentUnacked'
  BY DEF IInv, ServerInv, EmptyAtEnd, StartsSmall, SentUnacked, windowVars
<1> QED  BY <1>1, <1>2, <1>3, <1>4, QuietPreserves

LEMMA TimerStep ==
  ASSUME IInv, Timer, UNCHANGED clientVars
  PROVE  IInv'
<1>1. /\ timer_pc \in TimerPC /\ first_unacked_pkt \in 0..Len(File) /\ server_up \in BOOLEAN
      /\ unacked_packets \subseteq 0..Len(File)
  BY FileAssumption DEF IInv, TypeOK, Seqno
<1>2. CASE TimerCheck
  BY <1>1, <1>2, TimerPreserves DEF TimerCheck, TimerPC
<1>3. CASE TimerFirst
  BY <1>1, <1>3, TimerPreserves DEF TimerFirst, TimerPC
<1>4. CASE TimerSleep
  BY <1>1, <1>4, TimerPreserves DEF TimerSleep, TimerPC
<1>5. CASE TimerExpire
  BY <1>1, <1>5, TimerPreserves DEF TimerExpire, TimerPC
<1>6. CASE TimerListWindow
  BY <1>1, <1>6, TimerPreserves DEF TimerListWindow, TimerPC
<1>7. CASE TimerResend
  BY <1>7, TimerResendStep
<1>8. CASE TimerCrash
  BY <1>1, <1>8, TimerPreserves DEF TimerCrash, TimerPC
<1> QED  BY <1>2, <1>3, <1>4, <1>5, <1>6, <1>7, <1>8 DEF Timer

LEMMA AckIgnoredStep ==
  ASSUME IInv, NEW ackno, AckIgnored(ackno), UNCHANGED clientVars
  PROVE  IInv'
<1>1. UNCHANGED <<serverVars, toClient>> /\ toServer' \subseteq toServer
  BY DEF AckIgnored, TakeFromClient
<1>2. /\ toClient' \subseteq [seqno : 0..(Len(File) + 1), data : Data \cup {NoData}]
      /\ NetSafe'
  BY <1>1, FewerInFlight
<1>3. TimerCovers' /\ EmptyAtEnd' /\ StartsSmall' /\ SentUnacked'
  BY <1>1 DEF IInv, ServerInv, TimerCovers, EmptyAtEnd, StartsSmall, SentUnacked, serverVars, windowVars,
              threadVars
<1> QED  BY <1>1, <1>2, <1>3, QuietPreserves DEF IInv, TypeOK, serverVars, threadVars

LEMMA EndAcknowledgeStep ==
  ASSUME IInv, EndAcknowledge, UNCHANGED clientVars
  PROVE  IInv'
<1>1. /\ UNCHANGED <<windowVars, unacked_packets, timer_pc, first_unacked_pkt, server_up,
                     netVars>>
      /\ worker_pc = "expand" /\ worker_pc' = "idle"
      /\ ~(Len(window) < window_size /\ MoreToSend)
  BY DEF EndAcknowledge, HasRoom
<1>2. /\ toClient' \subseteq [seqno : 0..(Len(File) + 1), data : Data \cup {NoData}]
      /\ NetSafe' /\ toServer' \subseteq toServer
  BY <1>1, FewerInFlight DEF netVars
<1>3. TimerCovers' /\ StartsSmall' /\ SentUnacked'
  BY <1>1 DEF IInv, ServerInv, TimerCovers, StartsSmall, SentUnacked, windowVars
<1>4. EmptyAtEnd'
  <2> SUFFICES ASSUME window = <<>>
               PROVE  aux_window = {} /\ next_seq_number = Len(File) + 1
    BY <1>1 DEF EmptyAtEnd, windowVars
  <2>1. window_size \in 1..MaxWindowSize /\ next_seq_number \in 1..(Len(File) + 1)
    BY DEF IInv, TypeOK
  <2>2. Len(window) < window_size
    BY <2>1, MaxWindowAssumption
  <2>3. ~MoreToSend
    BY <1>1, <2>2
  <2> QED  BY <2>1, <2>3, FileAssumption DEF MoreToSend, HasNext
<1>5. worker_pc' \in WorkerPC
  BY <1>1 DEF WorkerPC
<1> QED  BY <1>1, <1>2, <1>3, <1>4, <1>5, QuietPreserves DEF IInv, TypeOK

\* The terminal packet leaves when the client has the whole file: everything has
\* been popped, so everything has been written.
LEMMA FinishStep ==
  ASSUME IInv, Finish, UNCHANGED clientVars
  PROVE  IInv'
<1>1. /\ UNCHANGED <<windowVars, unacked_packets, timer_pc, first_unacked_pkt, server_up,
                     toServer>>
      /\ worker_pc = "idle" /\ worker_pc' = "finished" /\ window = <<>>
      /\ toClient' = toClient \cup {DataPacket(NoData, next_seq_number)}
  BY DEF Finish, SendToClient
<1>2. aux_window = {} /\ next_seq_number = Len(File) + 1
  BY <1>1 DEF IInv, ServerInv, EmptyAtEnd
<1>3. expected_seqno = Len(File) + 1
  <2>1. expected_seqno \in 1..(Len(File) + 1) /\ Len(File) \in Nat
    BY FileAssumption DEF IInv, TypeOK
  <2>2. Live = {}
    BY <1>1, <1>2 DEF Live, Range
  <2>3. \A p \in 1..Len(File) : p < expected_seqno
    BY <1>2, <2>1, <2>2 DEF IInv, PoppedIsWritten
  <2>4. Len(File) < expected_seqno
    BY <2>1, <2>3
  <2> QED  BY <2>1, <2>4
<1>4. NetSafe'
  BY <1>1, <1>2, <1>3 DEF IInv, ClientInv, NetSafe, clientVars
<1>5. toClient' \subseteq [seqno : 0..(Len(File) + 1), data : Data \cup {NoData}]
  <2>1. Len(File) + 1 \in 0..(Len(File) + 1)
    BY FileAssumption
  <2>2. DataPacket(NoData, next_seq_number) \in [seqno : 0..(Len(File) + 1), data : Data \cup {NoData}]
    BY <1>2, <2>1 DEF DataPacket
  <2> QED  BY <1>1, <2>2 DEF IInv, TypeOK
<1>6. TimerCovers' /\ EmptyAtEnd' /\ StartsSmall' /\ SentUnacked'
  BY <1>1, <1>2 DEF IInv, ServerInv, TimerCovers, EmptyAtEnd, StartsSmall, SentUnacked, Range, windowVars
<1>7. worker_pc' \in WorkerPC
  BY <1>1 DEF WorkerPC
<1> QED  BY <1>1, <1>4, <1>5, <1>6, <1>7, QuietPreserves DEF IInv, TypeOK

LEMMA WorkerStep ==
  ASSUME IInv, Worker, UNCHANGED clientVars
  PROVE  IInv'
BY StartStep, ExpandWindowStep, InsertSentStep, HalveWindowStep, EndAcknowledgeStep, FinishStep, AckNewStep, AckIgnoredStep
   DEF Worker

LEMMA LossStep ==
  ASSUME IInv, LoseData \/ LoseAck, UNCHANGED <<serverVars, clientVars>>
  PROVE  IInv'
<1>1. toClient' \subseteq toClient /\ toServer' \subseteq toServer
  BY DEF LoseData, LoseAck
<1>2. /\ toClient' \subseteq [seqno : 0..(Len(File) + 1), data : Data \cup {NoData}]
      /\ NetSafe'
  BY <1>1, FewerInFlight
<1>3. TimerCovers' /\ EmptyAtEnd' /\ StartsSmall' /\ SentUnacked'
  BY DEF IInv, ServerInv, TimerCovers, EmptyAtEnd, StartsSmall, SentUnacked, serverVars, windowVars,
         threadVars
<1> QED  BY <1>1, <1>2, <1>3, QuietPreserves DEF IInv, TypeOK, serverVars, threadVars

-----------------------------------------------------------------------------
(* The client's steps.                                                     *)

\* What the client receives while it runs and can act upon.
LEMMA InFlight ==
  ASSUME IInv, NEW pkt \in toClient
  PROVE  /\ pkt.seqno \in 0..(Len(File) + 1)
         /\ InWindow(pkt.seqno) /\ ~IsTerminal(pkt) =>
              pkt.seqno \in Seqno /\ pkt.data = File[pkt.seqno]
         /\ InWindow(pkt.seqno) /\ IsTerminal(pkt) => expected_seqno = Len(File) + 1
<1>1. /\ pkt \in [seqno : 0..(Len(File) + 1), data : Data \cup {NoData}]
      /\ expected_seqno \in 1..(Len(File) + 1)
  BY DEF IInv, TypeOK
<1>2. CASE pkt = RequestAck
  <2>1. pkt.seqno = 0
    BY <1>2 DEF RequestAck, DataPacket
  <2>2. ~InWindow(pkt.seqno)
    BY <1>1, <2>1, FileAssumption DEF InWindow
  <2> QED  BY <1>1, <2>2
<1>3. CASE \E seqno \in Seqno : pkt = FilePacket(seqno)
  <2>1. PICK seqno \in Seqno : pkt = FilePacket(seqno)
    BY <1>3
  <2>2. pkt.seqno = seqno /\ pkt.data = File[seqno]
    BY <2>1 DEF FilePacket, DataPacket
  <2>3. File[seqno] # NoData
    BY FileAssumption DEF Seqno
  <2> QED  BY <1>1, <2>2, <2>3 DEF IsTerminal
<1>4. CASE pkt = DataPacket(NoData, Len(File) + 1) /\ expected_seqno = Len(File) + 1
  <2>1. IsTerminal(pkt)
    BY <1>4 DEF IsTerminal, DataPacket
  <2> QED  BY <1>1, <1>4, <2>1
<1> QED  BY <1>2, <1>3, <1>4 DEF IInv, ClientInv, NetSafe

\* What the client holds it keeps, and that is all the server relies on.
LEMMA ClientPreserves ==
  ASSUME IInv, UNCHANGED <<serverVars, client_window_size>>, toClient' \subseteq toClient,
         toServer' \subseteq 0..Len(File),
         expected_seqno' \in 1..(Len(File) + 1), expected_seqno <= expected_seqno',
         DOMAIN client_window' \subseteq Seqno, file_written' \in Seq(Data),
         client_done' \in BOOLEAN,
         \A p \in Seqno : Received(p) => Received(p)',
         AckSafe', ClientSafe', DeliveredPrefix', CompleteWhenDone'
  PROVE  IInv'
<1>1. /\ expected_seqno \in 1..(Len(File) + 1) /\ Len(File) \in Nat
      /\ acked \subseteq Seqno /\ next_seq_number \in 1..(Len(File) + 1)
  BY FileAssumption DEF IInv, TypeOK
<1>2. TypeOK'
  BY DEF IInv, TypeOK, serverVars, windowVars, threadVars
<1>3. ServerInv'
  <2>1. WindowIsRun' /\ WindowBounded' /\ TimerCovers' /\ TimerSetLive'
    BY DEF IInv, ServerInv, WindowIsRun, WindowBounded, TimerCovers, TimerSetLive,
           serverVars, windowVars, threadVars
  <2>2. /\ FrontUnacked' /\ AckedApart' /\ AckedLive' /\ EmptyAtEnd' /\ StartsSmall'
        /\ SentUnacked'
    BY DEF IInv, ServerInv, FrontUnacked, AckedApart, AckedLive, EmptyAtEnd, StartsSmall,
           SentUnacked, Live, serverVars, windowVars, threadVars
  <2> QED  BY <2>1, <2>2 DEF ServerInv
<1>4. NetSafe'
  <2>1. expected_seqno = Len(File) + 1 => expected_seqno' = Len(File) + 1
    BY <1>1
  <2> QED  BY <2>1 DEF IInv, ClientInv, NetSafe
<1>5. AckedIsReceived'
  <2>1. acked' = acked
    BY DEF serverVars, windowVars
  <2> QED  BY <1>1, <2>1 DEF IInv, AckedIsReceived, Received
<1>6. PoppedIsWritten'
  <2>1. next_seq_number' = next_seq_number /\ Live' = Live
    BY DEF serverVars, windowVars, Live
  <2>2. \A p \in 1..(next_seq_number - 1) : p < expected_seqno => p < expected_seqno'
    BY <1>1
  <2> QED  BY <2>1, <2>2 DEF IInv, PoppedIsWritten
<1> QED  BY <1>2, <1>3, <1>4, <1>5, <1>6 DEF IInv, ClientInv

\* A packet the client takes in without changing what it holds.
LEMMA ClientKeeps ==
  ASSUME IInv,
         UNCHANGED <<serverVars, client_window_size, expected_seqno, client_window, file_written>>,
         toClient' \subseteq toClient,
         toServer' \subseteq 0..Len(File), AckSafe',
         client_done' \in BOOLEAN, CompleteWhenDone'
  PROVE  IInv'
<1>1. /\ expected_seqno' \in 1..(Len(File) + 1) /\ expected_seqno <= expected_seqno'
      /\ DOMAIN client_window' \subseteq Seqno /\ file_written' \in Seq(Data)
  BY FileAssumption DEF IInv, TypeOK
<1>2. ClientSafe' /\ DeliveredPrefix'
  BY DEF IInv, ClientInv, ClientSafe, DeliveredPrefix
<1>3. \A p \in Seqno : Received(p) => Received(p)'
  BY DEF Received
<1> QED  BY <1>1, <1>2, <1>3, ClientPreserves

\* deliver_buffered_packets writes the next n packets of the file.
LEMMA DeliverWrites ==
  ASSUME IInv, NEW w, DOMAIN w \subseteq Seqno, expected_seqno \in DOMAIN w,
         \A s \in DOMAIN w : s >= expected_seqno /\ w[s] = File[s],
         DeliverBuffered(w)
  PROVE  \E n \in Nat \ {0} :
           /\ expected_seqno' = expected_seqno + n
           /\ expected_seqno' \in 2..(Len(File) + 1)
           /\ expected_seqno' \notin DOMAIN w
           /\ client_window' = [s \in DOMAIN w \ (expected_seqno..(expected_seqno' - 1)) |-> w[s]]
           /\ file_written' = SubSeq(File, 1, expected_seqno' - 1)
           /\ file_written' \in Seq(Data)
           /\ Len(file_written') = expected_seqno' - 1
<1> DEFINE e == expected_seqno
<1>1. PICK n \in 0..client_window_size :
         /\ e..(e + n - 1) \subseteq DOMAIN w
         /\ e + n \notin DOMAIN w
         /\ file_written' = file_written \o [i \in 1..n |-> w[e + i - 1]]
         /\ client_window' = [s \in DOMAIN w \ (e..(e + n - 1)) |-> w[s]]
         /\ e' = e + n
  BY DEF DeliverBuffered, Delivered
<1>2. /\ File \in Seq(Data) /\ Len(File) \in Nat
      /\ e \in 1..(Len(File) + 1) /\ e \in Int /\ n \in Nat
      /\ file_written = SubSeq(File, 1, e - 1)
  BY FileAssumption, ClientWindowAssumption DEF IInv, TypeOK, ClientInv, DeliveredPrefix
<1> HIDE DEF e
<1>3. e = expected_seqno
  BY DEF e
<1>4. n # 0
  BY <1>1, <1>2, <1>3
<1>5. e + n - 1 \in 1..Len(File)
  <2>1. e + n - 1 \in DOMAIN w
    BY <1>1, <1>2, <1>4
  <2> QED  BY <2>1 DEF Seqno
<1> DEFINE next == [i \in 1..n |-> w[e + i - 1]]
<1>6. next = SubSeq(File, e, e + n - 1)
  <2>1. \A i \in e..(e + n - 1) : File[i] \in Data
    BY <1>2, <1>5
  <2>2. /\ SubSeq(File, e, e + n - 1) \in Seq(Data)
        /\ Len(SubSeq(File, e, e + n - 1)) = n
        /\ \A i \in 1..n : SubSeq(File, e, e + n - 1)[i] = File[e + i - 1]
    <3>1. e + n - 1 \in Int /\ e <= e + n - 1 /\ (e + n - 1) - e + 1 = n
      BY <1>2, <1>4
    <3>2. /\ SubSeq(File, e, e + n - 1) \in Seq(Data)
          /\ Len(SubSeq(File, e, e + n - 1)) = (e + n - 1) - e + 1
          /\ \A i \in 1..((e + n - 1) - e + 1) : SubSeq(File, e, e + n - 1)[i] = File[e + i - 1]
      BY <1>2, <2>1, <3>1, SubSeqProperties
    <3> QED  BY <3>1, <3>2
  <2>3. \A i \in 1..n : e + i - 1 \in e..(e + n - 1)
    BY <1>2
  <2>4. \A i \in 1..n : w[e + i - 1] = File[e + i - 1]
    BY <1>1, <1>3, <2>3
  <2>5. next \in Seq(Data)
    <3>1. \A i \in 1..n : w[e + i - 1] \in Data
      BY <2>1, <2>3, <2>4
    <3> QED  BY <1>2, <3>1
  <2>6. Len(next) = n
    BY <1>2
  <2> QED  BY <2>2, <2>4, <2>5, <2>6, SeqEqual
<1>7. file_written' = SubSeq(File, 1, e + n - 1)
  <2>1. SubSeq(File, 1, e - 1) \o SubSeq(File, (e - 1) + 1, e + n - 1) = SubSeq(File, 1, e + n - 1)
    <3>1. 1 \in 1..(Len(File) + 1) /\ e - 1 \in (1 - 1)..Len(File) /\ e + n - 1 \in (e - 1)..Len(File)
      BY <1>2, <1>5
    <3> QED  BY <1>2, <3>1, ConcatAdjacentSubSeq
  <2>2. (e - 1) + 1 = e
    BY <1>2
  <2> QED  BY <1>1, <1>2, <1>6, <2>1, <2>2
<1>8. /\ SubSeq(File, 1, e + n - 1) \in Seq(Data)
      /\ Len(SubSeq(File, 1, e + n - 1)) = e + n - 1
  <2>1. \A i \in 1..(e + n - 1) : File[i] \in Data
    BY <1>2, <1>5
  <2>2. e + n - 1 \in Int /\ 1 <= e + n - 1 /\ (e + n - 1) - 1 + 1 = e + n - 1
    BY <1>5
  <2> QED  BY <2>1, <2>2, SubSeqProperties
<1>9. expected_seqno' = e + n /\ e + n \in 2..(Len(File) + 1)
  BY <1>1, <1>2, <1>3, <1>4, <1>5 DEF e
<1>10. /\ expected_seqno' - 1 = e + n - 1
       /\ n \in Nat \ {0}
  BY <1>2, <1>4, <1>9
<1> HIDE DEF next
<1>11. client_window' = [s \in DOMAIN w \ (expected_seqno..(expected_seqno' - 1)) |-> w[s]]
  BY <1>1, <1>3, <1>10
<1> QED  BY <1>1, <1>3, <1>7, <1>8, <1>9, <1>10, <1>11

LEMMA ReceiveNewStep ==
  ASSUME IInv, NEW pkt, ReceiveNew(pkt), UNCHANGED serverVars
  PROVE  /\ IInv'
         /\ \/ UNCHANGED file_written
            \/ \E n \in (Len(file_written) + 1)..Len(File) : file_written' = SubSeq(File, 1, n)
<1>1. /\ ~client_done /\ pkt \in toClient
      /\ InWindow(pkt.seqno) /\ ~IsTerminal(pkt) /\ ~Buffered(pkt.seqno)
      /\ toClient' \subseteq toClient
      /\ toServer' = toServer \cup {pkt.seqno}
      /\ UNCHANGED <<client_done, client_window_size>>
  BY DEF ReceiveNew, TakeFromServer, SendToServer
<1>2. pkt.seqno \in Seqno /\ pkt.data = File[pkt.seqno] /\ pkt.seqno >= expected_seqno
  BY <1>1, InFlight DEF InWindow
<1>3. /\ expected_seqno \in 1..(Len(File) + 1) /\ expected_seqno \in Int /\ Len(File) \in Nat
      /\ DOMAIN client_window \subseteq Seqno /\ file_written \in Seq(Data)
      /\ toServer \subseteq 0..Len(File)
      /\ Len(file_written) = expected_seqno - 1
  BY FileAssumption DEF IInv, TypeOK, ClientInv, DeliveredPrefix
<1> DEFINE w == Buffer(pkt)
<1>4. /\ DOMAIN w = DOMAIN client_window \cup {pkt.seqno}
      /\ \A s \in DOMAIN w : s >= expected_seqno /\ w[s] = File[s]
      /\ \A s \in DOMAIN w \ {pkt.seqno} : s > expected_seqno
      /\ DOMAIN w \subseteq Seqno
  <2>1. DOMAIN w = DOMAIN client_window \cup {pkt.seqno}
    BY DEF Buffer
  <2>2. \A s \in DOMAIN w : w[s] = IF s = pkt.seqno THEN pkt.data ELSE client_window[s]
    BY DEF Buffer
  <2>3. \A s \in DOMAIN client_window :
          s > expected_seqno /\ s \in Int /\ client_window[s] = File[s]
    BY <1>3 DEF IInv, ClientInv, ClientSafe, Seqno
  <2> QED  BY <1>2, <1>3, <2>1, <2>2, <2>3
<1> HIDE DEF w
<1>5. toServer' \subseteq 0..Len(File)
  <2>1. pkt.seqno \in 0..Len(File)
    BY <1>2, <1>3 DEF Seqno
  <2> QED  BY <1>1, <1>3, <2>1
<1>6. CompleteWhenDone' /\ client_done' \in BOOLEAN
  BY <1>1 DEF CompleteWhenDone, IInv, TypeOK
<1>7. CASE pkt.seqno = expected_seqno
  <2>1. DeliverBuffered(w)
    BY <1>7 DEF ReceiveNew, w
  <2>2. PICK n \in Nat \ {0} :
          /\ expected_seqno' = expected_seqno + n
          /\ expected_seqno' \in 2..(Len(File) + 1)
          /\ expected_seqno' \notin DOMAIN w
          /\ client_window' = [s \in DOMAIN w \ (expected_seqno..(expected_seqno' - 1)) |-> w[s]]
          /\ file_written' = SubSeq(File, 1, expected_seqno' - 1)
          /\ file_written' \in Seq(Data)
          /\ Len(file_written') = expected_seqno' - 1
    BY <1>4, <1>7, <2>1, DeliverWrites
  <2>3. /\ expected_seqno' \in 1..(Len(File) + 1) /\ expected_seqno <= expected_seqno'
        /\ expected_seqno' \in Int /\ expected_seqno < expected_seqno'
    BY <1>3, <2>2
  <2>4. DOMAIN client_window' = DOMAIN w \ (expected_seqno..(expected_seqno' - 1))
    BY <2>2
  <2>5. DOMAIN client_window' \subseteq Seqno
    BY <1>4, <2>4
  <2>6. \A s \in DOMAIN w : s < expected_seqno' \/ s \in DOMAIN client_window'
    BY <1>3, <1>4, <2>3, <2>4 DEF Seqno
  <2>7. \A p \in Seqno : Received(p) => Received(p)'
    <3> SUFFICES ASSUME NEW p \in Seqno, Received(p)
                 PROVE  p < expected_seqno' \/ p \in DOMAIN client_window'
      BY DEF Received
    <3>1. CASE p < expected_seqno
      BY <1>3, <2>3, <3>1 DEF Seqno
    <3>2. CASE p \in DOMAIN client_window
      BY <1>4, <2>6, <3>2
    <3> QED  BY <3>1, <3>2 DEF Received
  <2>8. AckSafe'
    <3> SUFFICES ASSUME NEW a \in toServer'
                 PROVE  a < expected_seqno' \/ a \in DOMAIN client_window'
      BY DEF AckSafe, Received
    <3>1. CASE a = pkt.seqno
      BY <1>7, <2>3, <3>1
    <3>2. CASE a \in toServer
      <4>1. Received(a) /\ a \in 0..Len(File)
        BY <1>3, <3>2 DEF IInv, ClientInv, AckSafe
      <4>2. CASE a = 0
        BY <2>3, <4>2
      <4>3. CASE a # 0
        <5>1. a \in Seqno
          BY <1>3, <4>1, <4>3 DEF Seqno
        <5> QED  BY <2>7, <4>1, <5>1 DEF Received
      <4> QED  BY <4>2, <4>3
    <3> QED  BY <1>1, <3>1, <3>2
  <2>9. ClientSafe'
    <3> SUFFICES ASSUME NEW s \in DOMAIN client_window'
                 PROVE  s > expected_seqno' /\ client_window'[s] = File[s]
      BY DEF ClientSafe
    <3>1. s \in DOMAIN w /\ s \notin expected_seqno..(expected_seqno' - 1)
      BY <2>4
    <3>2. client_window'[s] = File[s]
      BY <1>4, <2>2, <2>4, <3>1
    <3>3. s >= expected_seqno /\ s \in Int /\ s # expected_seqno'
      BY <1>4, <2>2, <3>1 DEF Seqno
    <3> QED  BY <1>3, <2>3, <3>1, <3>2, <3>3
  <2>10. DeliveredPrefix'
    BY <2>2 DEF DeliveredPrefix
  <2>11. IInv'
    BY <1>1, <1>5, <1>6, <2>2, <2>3, <2>5, <2>7, <2>8, <2>9, <2>10, ClientPreserves
  <2>12. expected_seqno' - 1 \in (Len(file_written) + 1)..Len(File)
    <3>1. Len(file_written) + 1 = expected_seqno
      BY <1>3
    <3>2. \A e, k, l \in Int : k < e /\ e \in 1..(l + 1) => e - 1 \in k..l
      OBVIOUS
    <3>3. expected_seqno \in Int /\ Len(File) \in Int
      BY <1>3
    <3>4. expected_seqno' - 1 \in expected_seqno..Len(File)
      BY <2>3, <3>2, <3>3
    <3> QED  BY <3>1, <3>4
  <2> QED  BY <2>2, <2>11, <2>12
<1>8. CASE pkt.seqno # expected_seqno
  <2>1. client_window' = w /\ UNCHANGED <<expected_seqno, file_written>>
    BY <1>8 DEF ReceiveNew, w
  <2>2. \A p : Received(p) => Received(p)'
    BY <1>4, <2>1 DEF Received
  <2>3. AckSafe'
    BY <1>1, <1>4, <2>1, <2>2 DEF IInv, ClientInv, AckSafe, Received
  <2>4. ClientSafe'
    <3>1. pkt.seqno > expected_seqno
      BY <1>2, <1>3, <1>8 DEF Seqno
    <3> QED  BY <1>4, <2>1, <3>1 DEF ClientSafe
  <2>5. DeliveredPrefix'
    BY <2>1 DEF IInv, ClientInv, DeliveredPrefix
  <2>6. /\ expected_seqno' \in 1..(Len(File) + 1) /\ expected_seqno <= expected_seqno'
        /\ DOMAIN client_window' \subseteq Seqno /\ file_written' \in Seq(Data)
    BY <1>3, <1>4, <2>1
  <2>7. IInv'
    BY <1>1, <1>5, <1>6, <2>2, <2>3, <2>4, <2>5, <2>6, ClientPreserves
  <2> QED  BY <2>1, <2>7
<1> QED  BY <1>7, <1>8

LEMMA ReceiveOldStep ==
  ASSUME IInv, NEW pkt, ReceiveOld(pkt), UNCHANGED serverVars
  PROVE  IInv'
<1>1. /\ pkt \in toClient /\ toClient' \subseteq toClient
      /\ pkt.seqno < expected_seqno
      /\ toServer' = toServer \cup {pkt.seqno}
      /\ UNCHANGED clientVars
  BY DEF ReceiveOld, AckAgain, TakeFromServer, SendToServer
<1>2. toServer' \subseteq 0..Len(File)
  <2>1. /\ pkt.seqno \in 0..(Len(File) + 1) /\ toServer \subseteq 0..Len(File)
        /\ expected_seqno \in 1..(Len(File) + 1) /\ Len(File) \in Nat
    BY <1>1, InFlight, FileAssumption DEF IInv, TypeOK
  <2>2. pkt.seqno \in 0..Len(File)
    BY <1>1, <2>1
  <2> QED  BY <1>1, <2>1, <2>2
<1>3. AckSafe'
  BY <1>1 DEF IInv, ClientInv, AckSafe, Received, clientVars
<1>4. client_done' \in BOOLEAN /\ CompleteWhenDone'
  BY <1>1 DEF IInv, TypeOK, ClientInv, CompleteWhenDone, clientVars
<1> QED  BY <1>1, <1>2, <1>3, <1>4, ClientKeeps DEF clientVars

\* The client stops only when the terminal packet is the expected one, and then
\* it holds the whole file.
LEMMA ReceiveTerminalStep ==
  ASSUME IInv, NEW pkt, ReceiveTerminal(pkt), UNCHANGED serverVars
  PROVE  IInv' /\ file_written = File
<1>1. /\ pkt \in toClient /\ toClient' \subseteq toClient
      /\ InWindow(pkt.seqno) /\ IsTerminal(pkt)
      /\ client_done' = TRUE
      /\ UNCHANGED <<client_window_size, expected_seqno, client_window, file_written, toServer>>
  BY DEF ReceiveTerminal, EndsReception, TakeFromServer
<1>2. expected_seqno = Len(File) + 1
  BY <1>1, InFlight
<1>3. file_written = File
  <2>1. file_written = SubSeq(File, 1, expected_seqno - 1) /\ Len(File) \in Nat
    BY FileAssumption DEF IInv, ClientInv, DeliveredPrefix
  <2>2. expected_seqno - 1 = Len(File)
    BY <1>2, <2>1
  <2> QED  BY <2>1, <2>2, FileAssumption, SubSeqFull
<1>4. CompleteWhenDone' /\ client_done' \in BOOLEAN
  BY <1>1, <1>3 DEF CompleteWhenDone
<1>5. AckSafe' /\ toServer' \subseteq 0..Len(File)
  BY <1>1 DEF IInv, TypeOK, ClientInv, AckSafe, Received
<1> QED  BY <1>1, <1>3, <1>4, <1>5, ClientKeeps

LEMMA ReceiveDroppedStep ==
  ASSUME IInv, NEW pkt, ReceiveBuffered(pkt) \/ ReceiveFar(pkt) \/ ReceiveCorrupted(pkt),
         UNCHANGED serverVars
  PROVE  IInv' /\ UNCHANGED clientVars
<1>1. toClient' \subseteq toClient /\ UNCHANGED <<clientVars, toServer>>
  BY DEF ReceiveBuffered, ReceiveFar, Drop, ReceiveCorrupted, TakeFromServer
<1>2. AckSafe' /\ toServer' \subseteq 0..Len(File)
  BY <1>1 DEF IInv, TypeOK, ClientInv, AckSafe, Received, clientVars
<1>3. client_done' \in BOOLEAN /\ CompleteWhenDone'
  BY <1>1 DEF IInv, TypeOK, ClientInv, CompleteWhenDone, clientVars
<1> QED  BY <1>1, <1>2, <1>3, ClientKeeps DEF clientVars

-----------------------------------------------------------------------------
(* The theorems.                                                           *)

LEMMA InitInv == Init => IInv
<1> SUFFICES ASSUME Init PROVE IInv
  OBVIOUS
<1>1. /\ File \in Seq(Data) /\ Len(File) \in Nat /\ NoData \notin Data
      /\ MaxWindowSize \in Nat \ {0}
  BY FileAssumption, MaxWindowAssumption
<1>2. /\ toClient \subseteq {RequestAck} /\ toServer \subseteq {0}
      /\ client_window_size \in ClientWindowSizes
      /\ expected_seqno = 1 /\ client_window = <<>> /\ file_written = <<>> /\ client_done = FALSE
      /\ window = IF File = <<>> THEN <<>> ELSE <<1>>
      /\ next_seq_number = Len(window) + 1
      /\ window_size = 1 /\ threshold = MaxWindowSize \div 2
      /\ aux_window = {} /\ acked = {} /\ unacked_packets = {}
      /\ worker_pc = "start" /\ timer_pc = "off" /\ first_unacked_pkt = 0 /\ server_up = TRUE
  BY DEF Init, NetworkInit, ServerInit, ClientInit, RepeatedRequest
<1>3. /\ window \in Seq(Seqno) /\ Len(window) \in {0, 1} /\ Len(window) <= Len(File)
      /\ Len(window) = 0 => window = <<>> /\ File = <<>>
      /\ Len(window) = 1 => window[1] = 1
  <2>1. CASE File = <<>>
    BY <1>1, <1>2, <2>1, EmptySeq
  <2>2. CASE File # <<>>
    <3>1. Len(File) >= 1
      BY <1>1, <2>2, EmptySeq
    <3>2. 1 \in Seqno
      BY <1>1, <3>1 DEF Seqno
    <3> QED  BY <1>2, <2>2, <3>1, <3>2
  <2> QED  BY <2>1, <2>2
<1>4. TypeOK
  <2>1. RequestAck \in [seqno : 0..(Len(File) + 1), data : Data \cup {NoData}]
    BY <1>1 DEF RequestAck, DataPacket
  <2>2. next_seq_number \in 1..(Len(File) + 1)
    BY <1>1, <1>2, <1>3
  <2>3. threshold \in Nat /\ window_size \in 1..MaxWindowSize
    BY <1>1, <1>2
  <2>4. DOMAIN client_window = {} /\ file_written \in Seq(Data)
    BY <1>2
  <2>5. expected_seqno \in 1..(Len(File) + 1) /\ 0 \in 0..Len(File)
    BY <1>1, <1>2
  <2> QED  BY <1>2, <1>3, <2>1, <2>2, <2>3, <2>4, <2>5 DEF TypeOK, WorkerPC, TimerPC
<1>5. ServerInv
  <2>1. IsRun(1, window, aux_window, next_seq_number) /\ 1 \in 1..next_seq_number
    BY <1>2, <1>3 DEF IsRun
  <2>2. EmptyAtEnd
    BY <1>1, <1>2, <1>3, EmptySeq DEF EmptyAtEnd
  <2>3. StartsSmall /\ WindowBounded
    BY <1>2, <1>3 DEF StartsSmall, WindowBounded
  <2> QED  BY <1>2, <2>1, <2>2, <2>3 DEF ServerInv, WindowIsRun, TimerCovers, TimerSetLive,
       FrontUnacked, AckedApart, AckedLive, SentUnacked
<1>6. ClientInv
  <2>1. DeliveredPrefix
    BY <1>1, <1>2, SubSeqEmpty DEF DeliveredPrefix
  <2> QED  BY <1>2, <2>1 DEF ClientInv, NetSafe, AckSafe, Received, ClientSafe, CompleteWhenDone
<1>7. AckedIsReceived /\ PoppedIsWritten
  <2>1. \A p \in 1..(next_seq_number - 1) : p \in Range(window)
    <3> SUFFICES ASSUME NEW p \in 1..(next_seq_number - 1)
                 PROVE  p \in Range(window)
      OBVIOUS
    <3>1. Len(window) = 1 /\ p = 1
      BY <1>2, <1>3
    <3> QED  BY <1>3, <3>1 DEF Range
  <2> QED  BY <1>2, <2>1 DEF AckedIsReceived, PoppedIsWritten, Live
<1> QED  BY <1>4, <1>5, <1>6, <1>7 DEF IInv

LEMMA ClientStep ==
  ASSUME IInv, Client, UNCHANGED serverVars
  PROVE  IInv'
BY ReceiveNewStep, ReceiveOldStep, ReceiveTerminalStep, ReceiveDroppedStep DEF Client, Run

LEMMA NextInv == IInv /\ [Next]_vars => IInv'
<1> SUFFICES ASSUME IInv, [Next]_vars PROVE IInv'
  OBVIOUS
<1>1. CASE Worker /\ UNCHANGED clientVars
  BY <1>1, WorkerStep
<1>2. CASE Timer /\ UNCHANGED clientVars
  BY <1>2, TimerStep
<1>3. CASE Client /\ UNCHANGED serverVars
  BY <1>3, ClientStep
<1>4. CASE (LoseData \/ LoseAck) /\ UNCHANGED <<serverVars, clientVars>>
  BY <1>4, LossStep
<1>5. CASE UNCHANGED vars
  <2>1. UNCHANGED <<netVars, serverVars, clientVars>>
    BY <1>5 DEF vars
  <2>2. toClient' \subseteq toClient /\ toServer' \subseteq toServer
    BY <2>1 DEF netVars
  <2>3. /\ toClient' \subseteq [seqno : 0..(Len(File) + 1), data : Data \cup {NoData}]
        /\ NetSafe'
    BY <2>1, <2>2, FewerInFlight
  <2>4. TimerCovers' /\ EmptyAtEnd' /\ StartsSmall' /\ SentUnacked'
    BY <2>1 DEF IInv, ServerInv, TimerCovers, EmptyAtEnd, StartsSmall, SentUnacked, serverVars, windowVars,
                threadVars
  <2> QED  BY <2>1, <2>2, <2>3, <2>4, QuietPreserves DEF IInv, TypeOK, serverVars, threadVars
<1> QED  BY <1>1, <1>2, <1>3, <1>4, <1>5 DEF Next

\* The inductive invariant holds in every reachable state of the transfer.
THEOREM Invariance == Spec => []IInv
BY InitInv, NextInv, PTL DEF Spec

\* Every variable keeps its type; window_size stays between one and
\* max_window_size through every growth, timeout and triple duplicate ACK.
THEOREM TypeCorrect == Spec => []TypeOK
<1>1. IInv => TypeOK
  BY DEF IInv
<1> QED  BY <1>1, Invariance, PTL

\* Shrinking and growing never loses, duplicates or reorders a packet
\* (shrink_window, expand_window, advance_window).
THEOREM WindowCorrect == Spec => []WindowIsRun
<1>1. IInv => WindowIsRun
  BY DEF IInv, ServerInv
<1> QED  BY <1>1, Invariance, PTL

\* The window never holds more than window_size packets, though shrink_window
\* halves window_size while expand_window fills the window.
THEOREM WindowSizeCorrect == Spec => []WindowBounded
<1>1. IInv => WindowBounded
  BY DEF IInv, ServerInv
<1> QED  BY <1>1, Invariance, PTL

\* Every packet of the window that waits for an ACK is known to the timer thread
\* (send_packet, handle_time_out).
THEOREM TimerCorrect == Spec => []TimerCovers
<1>1. IInv => TimerCovers
  BY DEF IInv, ServerInv
<1> QED  BY <1>1, Invariance, PTL

\* The timer thread knows no packet that the worker thread has deleted
\* (acknowledge_packet, advance_window).
THEOREM TimerSetCorrect == Spec => []TimerSetLive
<1>1. IInv => TimerSetLive
  BY DEF IInv, ServerInv
<1> QED  BY <1>1, Invariance, PTL

\* What the server counts as acknowledged the client keeps (acknowledge_packet).
THEOREM AckedCorrect == Spec => []AckedIsReceived
<1>1. IInv => AckedIsReceived
  BY DEF IInv
<1> QED  BY <1>1, Invariance, PTL

\* What the server lets go of the client has written (advance_window).
THEOREM AcksAreTrue == Spec => []PoppedIsWritten
<1>1. IInv => PoppedIsWritten
  BY DEF IInv
<1> QED  BY <1>1, Invariance, PTL

\* The client's file is a prefix of the requested file at all times
\* (deliver_buffered_packets).
THEOREM FileCorrect == Spec => []DeliveredPrefix
<1>1. IInv => DeliveredPrefix
  BY DEF IInv, ClientInv
<1> QED  BY <1>1, Invariance, PTL

\* The client stops with the whole file (client run(), is_done()).
THEOREM CompleteCorrect == Spec => []CompleteWhenDone
<1>1. IInv => CompleteWhenDone
  BY DEF IInv, ClientInv
<1> QED  BY <1>1, Invariance, PTL

\* When the window is empty and the worker thread is not filling it, the client has
\* the whole file: everything was popped.
LEMMA EmptyIsWritten ==
  ASSUME IInv, window = <<>>, worker_pc # "expand"
  PROVE  file_written = File
<1>1. aux_window = {} /\ next_seq_number = Len(File) + 1
  BY DEF IInv, ServerInv, EmptyAtEnd
<1>2. expected_seqno \in 1..(Len(File) + 1) /\ Len(File) \in Nat /\ File \in Seq(Data)
  BY FileAssumption DEF IInv, TypeOK
<1>3. Live = {}
  BY <1>1 DEF Live, Range
<1>4. \A p \in 1..Len(File) : p < expected_seqno
  BY <1>1, <1>2, <1>3 DEF IInv, PoppedIsWritten
<1>5. expected_seqno - 1 = Len(File)
  <2>1. Len(File) < expected_seqno
    BY <1>2, <1>4
  <2> QED  BY <1>2, <2>1
<1>6. SubSeq(File, 1, Len(File)) = File
  BY <1>2
<1> QED  BY <1>5, <1>6 DEF IInv, ClientInv, DeliveredPrefix

\* The two ways the set can be empty where handle_time_out looks at it: nothing is
\* in the window, or one packet that send_packet has not put into the set yet.
OneSentOnly == worker_pc = "insert" /\ Len(window) = 1

\* handle_time_out finds the set or the window empty only then: what is in the
\* window and acked has a packet before it that is not.
LEMMA CrashStep ==
  ASSUME IInv, TimerCrash
  PROVE  window = <<>> \/ OneSentOnly
<1>1. CASE timer_pc \in {"first", "compare"} /\ unacked_packets = {}
  <2> SUFFICES ASSUME window # <<>>
               PROVE  OneSentOnly
    OBVIOUS
  <2>1. PICK b \in 1..next_seq_number : IsRun(b, window, aux_window, next_seq_number)
    BY DEF IInv, ServerInv, WindowIsRun
  <2>2. window \in Seq(Seqno) /\ next_seq_number \in Int /\ b \in Int /\ Len(window) \in Nat
    BY FileAssumption DEF IInv, TypeOK
  <2>3. /\ Head(window) = b /\ Len(window) > 0
        /\ Range(window) = b..(b + Len(window) - 1)
        /\ window[Len(window)] = b + Len(window) - 1
    BY <2>1, <2>2, RunRange
  <2>4. b \in Range(window) \ acked
    BY <2>2, <2>3 DEF IInv, ServerInv, FrontUnacked
  <2>5. worker_pc # "start" /\ timer_pc \notin {"window", "resend"}
    BY <1>1 DEF IInv, ServerInv, StartsSmall
  <2>6. worker_pc = "insert" /\ b = window[Len(window)]
    BY <1>1, <2>4, <2>5 DEF IInv, ServerInv, TimerCovers
  <2>7. Len(window) = 1
    <3>1. b = b + Len(window) - 1
      BY <2>3, <2>6
    <3>2. \A x, y \in Int : x = x + y - 1 => y = 1
      OBVIOUS
    <3>3. b \in Int /\ Len(window) \in Int
      BY <2>2
    <3> HIDE DEF OneSentOnly
    <3> QED  BY <3>1, <3>2, <3>3
  <2> QED  BY <2>6, <2>7 DEF OneSentOnly
<1>2. CASE window = <<>>
  BY <1>2
<1> QED  BY <1>1, <1>2 DEF TimerCrash

\* The process goes down (handle_time_out's begin() of an empty container) only
\* when the window is empty, outside of acknowledge_packet only when the client has
\* the whole file, or else between the sending of the only packet of the window and
\* its insertion into the set (send_packet), when the client has all before it.
THEOREM DownCorrect == Spec => []DownOnlyAcked
<1> DEFINE Down == IInv /\ (server_up \/ window = <<>> \/ OneSentOnly)
<1>1. Init => Down
  BY InitInv DEF Init, ServerInit
<1>2. Down /\ [Next]_vars => Down'
  <2> SUFFICES ASSUME Down, [Next]_vars PROVE Down'
    OBVIOUS
  <2>1. IInv'
    BY NextInv
  <2>2. ASSUME server_up, server_up' = server_up PROVE Down'
    BY <2>1, <2>2
  <2>3. ASSUME UNCHANGED <<server_up, window, worker_pc>> PROVE Down'
    BY <2>1, <2>3 DEF OneSentOnly
  <2>4. CASE TimerCrash
    <3>1. (window = <<>> \/ OneSentOnly) /\ UNCHANGED <<window, worker_pc>>
      BY <2>4, CrashStep DEF TimerCrash, windowVars
    <3> QED  BY <2>1, <3>1 DEF OneSentOnly
  <2>5. CASE Timer /\ ~TimerCrash
    <3>1. server_up /\ server_up' = server_up
      BY <2>5 DEF Timer, TimerCheck, TimerFirst, TimerSleep, TimerExpire, TimerListWindow,
                  TimerResend
    <3> QED  BY <2>2, <3>1
  <2>6. CASE Worker
    <3>1. server_up /\ server_up' = server_up
      BY <2>6 DEF Worker, Start, ExpandWindow, InsertSent, HalveWindow, EndAcknowledge, Finish,
                  AckNew, AckIgnored, serverVars, threadVars
    <3> QED  BY <2>2, <3>1
  <2>7. CASE UNCHANGED serverVars
    <3>1. UNCHANGED <<server_up, window, worker_pc>>
      BY <2>7 DEF serverVars, windowVars, threadVars
    <3> QED  BY <2>3, <3>1
  <2> QED  BY <2>4, <2>5, <2>6, <2>7 DEF Next, vars
<1>3. Down => DownOnlyAcked
  <2>1. ASSUME Down, window = <<>>, worker_pc # "expand" PROVE file_written = File
    BY <2>1, EmptyIsWritten
  <2>2. ASSUME Down, OneSentOnly PROVE Head(window) <= expected_seqno
    <3>1. window # <<>>
      BY <2>2 DEF OneSentOnly, IInv, ServerInv, SentUnacked
    <3> QED  BY <2>2, <3>1, TheRun
  <2> QED  BY <2>1, <2>2 DEF DownOnlyAcked, OneSentOnly
<1> QED  BY <1>1, <1>2, <1>3, PTL DEF Spec

\* Server, client and network together implement the abstract file transfer.
THEOREM Implements == Spec => AbstractSpec
<1>1. Init => Abstract!Init
  BY DEF Init, ClientInit, Abstract!Init
<1>2. IInv /\ [Next]_vars => [Abstract!Next]_(Abstract!vars)
  <2> SUFFICES ASSUME IInv, [Next]_vars
               PROVE  Abstract!Next \/ UNCHANGED <<file_written, client_done>>
    BY DEF Abstract!vars
  <2>1. CASE UNCHANGED clientVars
    BY <2>1 DEF clientVars
  <2>2. CASE Client /\ UNCHANGED serverVars
    <3>1. PICK pkt \in toClient : Run(pkt)
      BY <2>2 DEF Client
    <3>2. CASE ReceiveNew(pkt)
      <4>1. \/ UNCHANGED file_written
            \/ \E n \in (Len(file_written) + 1)..Len(File) : file_written' = SubSeq(File, 1, n)
        BY <2>2, <3>2, ReceiveNewStep
      <4>2. ~client_done /\ client_done' = client_done
        BY <3>2 DEF ReceiveNew
      <4> QED  BY <4>1, <4>2 DEF Abstract!Next, Abstract!Write
    <3>3. CASE ReceiveOld(pkt)
      BY <3>3 DEF ReceiveOld, AckAgain, clientVars
    <3>4. CASE ReceiveTerminal(pkt)
      <4>1. file_written = File
        BY <2>2, <3>4, ReceiveTerminalStep
      <4> QED  BY <3>4, <4>1 DEF ReceiveTerminal, EndsReception, Abstract!Next, Abstract!Stop
    <3>5. CASE ReceiveBuffered(pkt) \/ ReceiveFar(pkt) \/ ReceiveCorrupted(pkt)
      BY <2>2, <3>5, ReceiveDroppedStep DEF clientVars
    <3> QED  BY <3>1, <3>2, <3>3, <3>4, <3>5 DEF Run
  <2> QED  BY <2>1, <2>2 DEF Next, vars
<1> QED  BY <1>1, <1>2, Invariance, PTL DEF Spec, AbstractSpec, Abstract!Spec
==============================================================================
