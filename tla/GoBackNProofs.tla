---------------------------- MODULE GoBackNProofs ----------------------------
(***************************************************************************)
(* The safety of GoBackNTransfer for every file, every window and every    *)
(* value next_seq_number may start with, by the inductive invariant IInv.  *)
(***************************************************************************)
EXTENDS GoBackNTransfer, SequenceTheorems, TLAPS

-----------------------------------------------------------------------------
(* What makes the properties inductive.                                    *)

\* The worker thread has not popped, and has not sent, what its place says.
Places ==
  /\ worker_pc = "insert" => to_send > 0
  /\ worker_pc \notin {"start", "insert"} => to_send = 0
  /\ worker_pc \notin {"advance", "advance_insert"} => acked_run = 0
  /\ worker_pc = "advance_insert" => acked_run < Len(window)

\* Packets at the end of the window that are not in the timer's set yet.
Sending == CASE worker_pc \in {"start", "insert"} -> to_send
             [] worker_pc = "advance_insert" -> 1
             [] OTHER -> 0

\* The timer's set, in places of the file.
TimerRun ==
  unacked_packets = (next_packet - Len(window) + acked_run)..(next_packet - 1 - Sending)

\* When the first packet does not have number 0, the transfer never gets on.
Skewed ==
  first_seqno # 0 =>
    /\ first_seqno + Len(window) <= SeqnoSpace
    /\ Len(window) > 0 => first_seqno + Len(window) < SeqnoSpace
    /\ next_packet = Len(window) + 1
    /\ acked_run = 0
    /\ expected_seqno = 0

\* In flight to the client are packets handed out by packet_builder, and the
\* terminal packet once the client has the file.
NetSafe ==
  \A pkt \in toClient :
    \/ \E k \in Seqno : k < next_packet /\ pkt = NumberedPacket(first_seqno, k)
    \/ pkt = DataPacket(NoData, SeqnoOf(Len(File) + 1)) /\ file_written = File

\* An ACK in flight that may be for a packet of the window is for one the client
\* has written.
AckSafe ==
  \A ackno \in toServer : \A k \in Seqno :
    (first_seqno = 0 \/ k <= Len(window)) /\ SeqnoOf(k) = ackno => k <= Len(file_written)

\* The client writes no more than there is.
InFile == Len(file_written) <= Len(File)

WindowInv == WindowIsRun /\ Places /\ TimerRun /\ Skewed

IInv == /\ TypeOK
        /\ WindowInv
        /\ NetSafe
        /\ AckSafe
        /\ DeliveredPrefix
        /\ InFile
        /\ PoppedIsWritten

-----------------------------------------------------------------------------
LEMMA ModBelow == \A a \in Int, n \in Nat \ {0} : a % n \in 0..(n - 1)
  BY SMT

LEMMA ModSmall == \A a, n \in Nat : a < n => a % n = a
  BY SMT

LEMMA ModMinus == \A n \in Nat \ {0} : (0 - 1) % n = n - 1
  BY SMT

LEMMA RangeGrows == \A a, b \in Int : b >= a - 1 => (a..b) \cup {b + 1} = a..(b + 1)
  OBVIOUS

LEMMA FileFacts ==
  /\ File \in Seq(Data) /\ Len(File) \in Nat
  /\ File # <<>> <=> Len(File) > 0
  /\ \A n \in Seqno : n \in 1..Len(File) /\ File[n] \in Data /\ File[n] # NoData
  BY FileAssumption, EmptySeq DEF Seqno

LEMMA Sizes == /\ SeqnoSpace \in Nat /\ SeqnoSpace > Len(File) + 1
               /\ WindowSize \in Nat \ {0} /\ ClientWindowSize \in Nat \ {0}
               /\ FirstSeqnos \subseteq SeqnoType
  BY SeqnoSpaceAssumption, GoBackNAssumption, ClientWindowAssumption
     DEF SeqnoType

LEMMA NumberType ==
  ASSUME NEW first \in SeqnoType, NEW k \in Nat \ {0}
  PROVE  /\ Number(first, k) \in SeqnoType
         /\ first + k <= SeqnoSpace => Number(first, k) = first + k - 1
  <1>1. first + k - 1 \in Nat /\ SeqnoSpace \in Nat \ {0}
    BY Sizes, FileFacts DEF SeqnoType
  <1>2. Number(first, k) \in SeqnoType
    BY <1>1, ModBelow DEF Number, SeqnoType
  <1>3. ASSUME first + k <= SeqnoSpace PROVE Number(first, k) = first + k - 1
    <2>1. first + k - 1 < SeqnoSpace
      BY <1>1, <1>3 DEF SeqnoType
    <2> QED BY <1>1, <2>1, ModSmall DEF Number
  <1> QED BY <1>2, <1>3

\* Counted from zero, the packets have all their numbers.
LEMMA NumberFromZero ==
  \A k \in 1..(Len(File) + 1) : Number(0, k) = k - 1
  <1>1. ASSUME NEW k \in 1..(Len(File) + 1) PROVE Number(0, k) = k - 1
    <2>1. 0 \in SeqnoType /\ k \in Nat \ {0} /\ 0 + k <= SeqnoSpace /\ 0 + k - 1 = k - 1
      BY Sizes, FileFacts DEF SeqnoType
    <2>2. Number(0, k) = 0 + k - 1
      BY <2>1, NumberType
    <2> QED BY <2>1, <2>2
  <1> QED BY <1>1

\* What the invariant says of the window.
LEMMA WindowFacts ==
  ASSUME IInv
  PROVE  /\ Len(window) \in Nat /\ Len(window) <= WindowSize /\ window \in Seq(Nat)
         /\ next_packet \in 1..(Len(File) + 1) /\ to_send \in 0..Len(window)
         /\ acked_run \in 0..Len(window) /\ Sending \in 0..Len(window)
         /\ \A i \in 1..Len(window) : /\ window[i] = next_packet - Len(window) + i - 1
                                      /\ window[i] \in Seqno /\ window[i] < next_packet
         /\ Len(window) < next_packet
  <1>1. /\ Len(window) \in Nat /\ Len(window) <= WindowSize /\ window \in Seq(Nat)
        /\ next_packet \in 1..(Len(File) + 1) /\ to_send \in 0..Len(window)
        /\ acked_run \in 0..Len(window)
    BY FileFacts DEF IInv, TypeOK, Seqno
  <1>2. Sending \in 0..Len(window)
    BY <1>1 DEF IInv, WindowInv, Places, Sending
  <1>3. \A i \in 1..Len(window) : /\ window[i] = next_packet - Len(window) + i - 1
                                  /\ window[i] \in Seqno
    BY DEF IInv, TypeOK, WindowInv, WindowIsRun
  <1>4. Len(window) < next_packet
    <2>1. CASE Len(window) = 0
      BY <1>1, <2>1, FileFacts
    <2>2. CASE Len(window) > 0
      <3>1. 1 \in 1..Len(window)
        BY <1>1, <2>2
      <3>2. window[1] = next_packet - Len(window) + 1 - 1 /\ window[1] >= 1
        BY <1>3, <3>1, FileFacts DEF Seqno
      <3> QED BY <1>1, <3>2, FileFacts
    <2> QED BY <1>1, <2>1, <2>2
  <1>5. \A i \in 1..Len(window) : window[i] < next_packet
    BY <1>1, <1>3, FileFacts
  <1> QED BY <1>1, <1>2, <1>3, <1>4, <1>5

\* The run of the timer's set is the property TimerCovers.
LEMMA Covers == IInv => TimerCovers
  <1> SUFFICES ASSUME IInv PROVE TimerCovers
    OBVIOUS
  <1> DEFINE a == acked_run + 1
             b == Len(window) - Sending
             lo == next_packet - Len(window) + acked_run
             hi == next_packet - 1 - Sending
  <1>1. /\ Len(window) \in Nat /\ acked_run \in 0..Len(window) /\ Sending \in 0..Len(window)
        /\ \A i \in 1..Len(window) : window[i] = next_packet - Len(window) + i - 1
    BY WindowFacts
  <1>2. next_packet \in Nat
    BY WindowFacts, FileFacts
  <1>3. \A i \in a..b : i \in 1..Len(window)
    BY <1>1
  <1>4. \A i \in a..b : window[i] \in lo..hi
    BY <1>1, <1>2, <1>3
  <1>5. ASSUME NEW k \in lo..hi PROVE \E i \in a..b : window[i] = k
    <2> DEFINE i == k - next_packet + Len(window) + 1
    <2>1. i \in a..b /\ next_packet - Len(window) + i - 1 = k
      BY <1>1, <1>2
    <2>2. window[i] = k
      BY <1>1, <1>3, <2>1
    <2> QED BY <2>1, <2>2
  <1>6. {window[i] : i \in a..b} = lo..hi
    <2> HIDE DEF a, b, lo, hi
    <2> QED BY <1>4, <1>5
  <1> QED BY <1>6 DEF IInv, WindowInv, TimerRun, TimerCovers, Sending

\* What NetSafe allows in flight has the type of datagrams.
LEMMA DatagramType ==
  ASSUME NEW first \in SeqnoType
  PROVE  LET Datagram == [seqno : SeqnoType, data : Data \cup {NoData}]
         IN  /\ \A k \in Seqno : NumberedPacket(first, k) \in Datagram
             /\ DataPacket(NoData, Number(first, Len(File) + 1)) \in Datagram
  <1>1. \A k \in Seqno : k \in Nat \ {0} /\ File[k] \in Data
    BY FileFacts
  <1>2. Len(File) + 1 \in Nat \ {0}
    BY FileFacts
  <1> QED BY <1>1, <1>2, NumberType DEF NumberedPacket, DataPacket

-----------------------------------------------------------------------------
LEMMA InitInvariant == CleanInit => IInv
  <1> SUFFICES ASSUME CleanInit PROVE IInv
    OBVIOUS
  <1> DEFINE n == IF Len(File) < WindowSize THEN Len(File) ELSE WindowSize
  <1>1. /\ toClient = {} /\ toServer = {} /\ first_seqno \in FirstSeqnos
        /\ window = [k \in 1..n |-> k] /\ next_packet = Len(window) + 1
        /\ unacked_packets = {} /\ set_mutex = "free" /\ worker_pc = "start"
        /\ to_send = Len(window) /\ acked_run = 0 /\ timer_pc = "off" /\ server_up = TRUE
        /\ expected_seqno = 0 /\ file_written = <<>> /\ client_done = FALSE
        /\ client_cut = FALSE
        /\ \A i \in 1..Len(window) : SeqnoOf(window[i]) # SeqnoSpace - 1
    BY DEF CleanInit, Init, ServerInit, ClientInit
  <1>2. n \in Nat /\ n <= Len(File) /\ n <= WindowSize /\ (n < Len(File) => n = WindowSize)
    BY Sizes, FileFacts
  <1> HIDE DEF n
  <1>3. /\ Len(window) = n /\ \A i \in 1..n : window[i] = i /\ i \in Seqno
        /\ window \in Seq(Seqno)
    BY <1>1, <1>2, FileFacts DEF Seqno
  <1>4. first_seqno \in SeqnoType /\ 0 \in SeqnoType
    BY <1>1, Sizes, FileFacts DEF SeqnoType
  <1>5. TypeOK
    <2>1. file_written \in Seq(Data)
      BY <1>1
    <2>2. next_packet \in 1..(Len(File) + 1) /\ to_send \in 0..Len(window)
          /\ acked_run \in 0..Len(window)
      BY <1>1, <1>2, <1>3, FileFacts
    <2> QED BY <1>1, <1>2, <1>3, <1>4, <2>1, <2>2 DEF TypeOK, WorkerPC, TimerPC
  <1>6. WindowIsRun
    BY <1>1, <1>2, <1>3, FileFacts DEF WindowIsRun, HasNext
  <1>7. Places
    <2>1. worker_pc = "start"
      BY <1>1
    <2> QED BY <1>1, <2>1 DEF Places
  <1>8. TimerRun
    BY <1>1, <1>2, <1>3 DEF TimerRun, Sending
  <1>9. Skewed
    <2> DEFINE i == SeqnoSpace - first_seqno
    <2>1. first_seqno \in Nat /\ first_seqno < SeqnoSpace /\ SeqnoSpace \in Nat \ {0}
      BY <1>4, Sizes DEF SeqnoType
    <2>2. i \in Nat \ {0} /\ first_seqno + i - 1 = SeqnoSpace - 1 /\ first_seqno + i <= SeqnoSpace
      BY <2>1
    <2> HIDE DEF i
    <2>3. SeqnoOf(i) = SeqnoSpace - 1
      BY <1>4, <2>2, NumberType DEF SeqnoOf
    <2>4. ASSUME i <= n PROVE FALSE
      <3>1. i \in 1..n
        BY <1>2, <2>2, <2>4
      <3>2. window[i] = i /\ SeqnoOf(window[i]) # SeqnoSpace - 1
        BY <1>1, <1>3, <3>1
      <3> QED BY <2>3, <3>2
    <2>5. first_seqno + n < SeqnoSpace
      BY <1>2, <2>1, <2>2, <2>4
    <2> QED BY <1>1, <1>2, <1>3, <2>1, <2>5 DEF Skewed
  <1>10. NetSafe /\ AckSafe
    BY <1>1 DEF NetSafe, AckSafe
  <1>11. DeliveredPrefix
    <2>1. Len(file_written) = 0 /\ SubSeq(File, 1, 0) = <<>>
      BY <1>1, FileFacts, SubSeqEmpty
    <2> QED BY <1>1, <2>1 DEF DeliveredPrefix
  <1>12. PoppedIsWritten /\ InFile
    BY <1>1, <1>2, <1>3, FileFacts DEF PoppedIsWritten, InFile
  <1> QED BY <1>5, <1>6, <1>7, <1>8, <1>9, <1>10, <1>11, <1>12 DEF IInv, WindowInv

-----------------------------------------------------------------------------
(* The server's steps.                                                     *)

LEMMA FewerInFlight ==
  ASSUME IInv, toClient' \subseteq toClient, UNCHANGED <<first_seqno, file_written>>,
         next_packet' \in {next_packet, next_packet + 1}
  PROVE  NetSafe'
  <1>1. next_packet \in Nat /\ \A k \in Seqno : k \in Nat
    BY FileFacts DEF IInv, TypeOK, Seqno
  <1>2. \A k \in Seqno : k < next_packet => k < next_packet'
    BY <1>1
  <1> QED BY <1>2 DEF IInv, NetSafe, SeqnoOf

\* A packet handed out may always be sent.
LEMMA SendSafe ==
  ASSUME IInv, NEW k \in Seqno, SendPacket(k), UNCHANGED <<first_seqno, file_written>>,
         next_packet' \in {next_packet, next_packet + 1}, k < next_packet'
  PROVE  NetSafe'
  <1> DEFINE pkt == NumberedPacket(first_seqno, k)
  <1>1. next_packet \in Nat /\ \A j \in Seqno : j \in Nat
    BY FileFacts DEF IInv, TypeOK, Seqno
  <1>2. \A j \in Seqno : j < next_packet => j < next_packet'
    BY <1>1
  <1>3. toClient' = toClient \cup {pkt}
    BY DEF SendPacket, SendToClient
  <1> QED BY <1>2, <1>3 DEF IInv, NetSafe, SeqnoOf

\* Steps that leave the window alone.
LEMMA QuietPreserves ==
  ASSUME IInv, UNCHANGED <<first_seqno, window, next_packet, clientVars>>,
         NetSafe', toServer' \subseteq toServer, TimerRun', Places',
         worker_pc' \in WorkerPC, timer_pc' \in TimerPC, set_mutex' \in {"free", "timer"},
         server_up' \in BOOLEAN, to_send' \in 0..Len(window), acked_run' \in 0..Len(window),
         \/ acked_run' = acked_run
         \/ /\ first_seqno = 0
            /\ next_packet - Len(window) + acked_run' - 1 <= Len(file_written)
  PROVE  IInv'
  <1>1. /\ Len(window) \in Nat /\ next_packet \in 1..(Len(File) + 1)
        /\ Len(window) < next_packet /\ Len(File) \in Nat
    BY WindowFacts, FileFacts
  <1>2. first_seqno \in SeqnoType
    BY DEF IInv, TypeOK
  <1>3. TypeOK'
    <2>1. toClient' \subseteq [seqno : SeqnoType, data : Data \cup {NoData}]
      <3>1. \A pkt \in toClient' :
              \/ \E k \in Seqno : pkt = NumberedPacket(first_seqno, k)
              \/ pkt = DataPacket(NoData, Number(first_seqno, Len(File) + 1))
        BY DEF NetSafe, SeqnoOf
      <3>2. /\ \A k \in Seqno : NumberedPacket(first_seqno, k)
                                  \in [seqno : SeqnoType, data : Data \cup {NoData}]
            /\ DataPacket(NoData, Number(first_seqno, Len(File) + 1))
                  \in [seqno : SeqnoType, data : Data \cup {NoData}]
        BY <1>2, DatagramType
      <3> QED BY <3>1, <3>2
    <2>2. Sending' \in Nat
      BY <1>1 DEF Sending
    <2>3. unacked_packets' \subseteq Seqno
      <3> DEFINE lo == next_packet - Len(window) + acked_run'
                 hi == next_packet - 1 - Sending'
      <3>1. lo >= 1 /\ lo \in Int /\ hi <= Len(File) /\ hi \in Int
        BY <1>1, <2>2
      <3>2. unacked_packets' = lo..hi
        BY DEF TimerRun
      <3> QED BY <1>1, <3>1, <3>2 DEF Seqno
    <2> QED BY <2>1, <2>3 DEF IInv, TypeOK, clientVars
  <1>4. WindowIsRun'
    BY DEF IInv, WindowInv, WindowIsRun, HasNext
  <1>5. Skewed'
    BY DEF IInv, WindowInv, Skewed, clientVars
  <1>6. AckSafe' /\ DeliveredPrefix' /\ InFile' /\ PoppedIsWritten'
    BY DEF IInv, AckSafe, DeliveredPrefix, InFile, PoppedIsWritten, SeqnoOf, clientVars
  <1> QED BY <1>3, <1>4, <1>5, <1>6 DEF IInv, WindowInv

\* start() sends the window and enters it in the timer's set.
LEMMA StartStep ==
  ASSUME IInv, StartSend \/ StartInsert \/ StartEnd, UNCHANGED clientVars
  PROVE  IInv'
  <1> DEFINE first == Len(window) - to_send + 1
  <1>1. /\ Len(window) \in Nat /\ next_packet \in 1..(Len(File) + 1) /\ to_send \in 0..Len(window)
        /\ \A i \in 1..Len(window) : /\ window[i] = next_packet - Len(window) + i - 1
                                     /\ window[i] \in Seqno /\ window[i] < next_packet
        /\ Len(File) \in Nat
    BY WindowFacts, FileFacts
  <1>2. /\ UNCHANGED <<first_seqno, window, next_packet, clientVars, set_mutex, server_up, toServer>>
        /\ UNCHANGED acked_run
        /\ worker_pc \in {"start", "insert"} /\ worker_pc' \in {"start", "insert", "idle"}
        /\ acked_run = 0
    BY DEF StartSend, StartInsert, StartEnd, WorkerAt, netVars, IInv, WindowInv, Places
  <1>3. unacked_packets = (next_packet - Len(window))..(next_packet - 1 - to_send)
    BY <1>1, <1>2 DEF IInv, WindowInv, TimerRun, Sending
  <1>4. first_seqno' = first_seqno /\ file_written' = file_written /\ next_packet' = next_packet
    BY <1>2 DEF clientVars
  <1>5. /\ NetSafe' /\ to_send' \in 0..Len(window) /\ Places' /\ timer_pc' \in TimerPC
        /\ unacked_packets'
             = (next_packet - Len(window))
                 ..(next_packet - 1 - (IF worker_pc' = "idle" THEN 0 ELSE to_send'))
    <2>1. CASE StartSend
      <3>1. first \in 1..Len(window) /\ to_send > 0
        BY <1>1, <2>1 DEF StartSend
      <3>2. window[first] \in Seqno /\ window[first] < next_packet /\ SendPacket(window[first])
        BY <1>1, <2>1, <3>1 DEF StartSend
      <3>3. NetSafe'
        BY <1>4, <3>2, SendSafe
      <3>4. Places'
        BY <1>2, <2>1, <3>1 DEF StartSend, WorkerAt, Places
      <3>5. /\ to_send' = to_send /\ timer_pc' = timer_pc /\ worker_pc' = "insert"
            /\ unacked_packets' = unacked_packets
        BY <2>1 DEF StartSend, WorkerAt
      <3> QED BY <1>1, <1>3, <3>3, <3>4, <3>5 DEF IInv, TypeOK
    <2>2. CASE StartInsert
      <3>1. first \in 1..Len(window) /\ to_send > 0
        BY <1>1, <2>2 DEF StartInsert, WorkerAt, IInv, WindowInv, Places
      <3>2. window[first] = next_packet - to_send
        BY <1>1, <3>1
      <3>3. /\ unacked_packets' = unacked_packets \cup {next_packet - to_send}
            /\ to_send' = to_send - 1 /\ worker_pc' = "start"
        BY <2>2, <3>2 DEF StartInsert, Insert, WorkerAt
      <3>4. unacked_packets' = (next_packet - Len(window))..(next_packet - 1 - to_send')
        <4>1. /\ next_packet - Len(window) \in Int /\ next_packet - 1 - to_send \in Int
              /\ next_packet - 1 - to_send >= (next_packet - Len(window)) - 1
              /\ next_packet - to_send = (next_packet - 1 - to_send) + 1
              /\ next_packet - 1 - to_send' = (next_packet - 1 - to_send) + 1
          BY <1>1, <3>3
        <4> QED BY <1>3, <3>3, <4>1, RangeGrows
      <3>5. NetSafe'
        BY <1>4, <2>2, FewerInFlight DEF StartInsert, netVars
      <3>6. Places'
        BY <1>2, <3>3 DEF Places
      <3>7. timer_pc' \in TimerPC
        BY <2>2 DEF StartInsert, TimerPC, IInv, TypeOK
      <3> QED BY <1>1, <3>1, <3>3, <3>4, <3>5, <3>6, <3>7
    <2>3. CASE StartEnd
      <3>1. NetSafe'
        BY <1>4, <2>3, FewerInFlight DEF StartEnd, netVars
      <3>2. Places'
        BY <1>2, <2>3 DEF StartEnd, WorkerAt, Places
      <3>3. /\ to_send' = 0 /\ to_send = 0 /\ timer_pc' = timer_pc /\ worker_pc' = "idle"
            /\ unacked_packets' = unacked_packets
        BY <2>3 DEF StartEnd, WorkerAt
      <3> QED BY <1>1, <1>3, <3>1, <3>2, <3>3 DEF IInv, TypeOK
    <2> QED BY <2>1, <2>2, <2>3
  <1>6. TimerRun'
    <2>1. Sending' = IF worker_pc' = "idle" THEN 0 ELSE to_send'
      BY <1>2 DEF Sending
    <2>2. next_packet - Len(window) + 0 = next_packet - Len(window)
      BY <1>1
    <2> QED BY <1>2, <1>5, <2>1, <2>2 DEF TimerRun
  <1>7. worker_pc' \in WorkerPC /\ acked_run' \in 0..Len(window)
    BY <1>1, <1>2 DEF WorkerPC
  <1> QED BY <1>2, <1>5, <1>6, <1>7, QuietPreserves DEF IInv, TypeOK

\* acknowledge_packet: the client has written what the server takes an ACK for.
LEMMA AcknowledgeStep ==
  ASSUME IInv, NEW ackno \in toServer, Acknowledge(ackno), UNCHANGED clientVars
  PROVE  IInv'
  <1> DEFINE L == Len(window)
  <1>1. /\ L \in Nat /\ next_packet \in 1..(Len(File) + 1) /\ L < next_packet
        /\ \A i \in 1..L : /\ window[i] = next_packet - L + i - 1
                           /\ window[i] \in Seqno /\ window[i] < next_packet
        /\ Len(File) \in Nat
    BY WindowFacts, FileFacts
  <1>2. PICK i \in 1..L : /\ SeqnoOf(window[i]) = ackno
                          /\ unacked_packets' = unacked_packets \ {window[j] : j \in 1..i}
                          /\ acked_run' = i
    BY DEF Acknowledge
  <1>3. /\ UNCHANGED <<first_seqno, window, next_packet, clientVars, set_mutex, server_up>>
        /\ UNCHANGED <<to_send, timer_pc, toClient>>
        /\ worker_pc = "idle" /\ worker_pc' = "advance" /\ acked_run = 0 /\ to_send = 0
        /\ toServer' \subseteq toServer
    BY DEF Acknowledge, WorkerAt, TakeFromClient, IInv, WindowInv, Places
  <1>4. unacked_packets = (next_packet - L)..(next_packet - 1)
    <2>1. Sending = 0 /\ next_packet - L + 0 = next_packet - L /\ next_packet - 1 - 0 = next_packet - 1
      BY <1>1, <1>3 DEF Sending
    <2> QED BY <1>3, <2>1 DEF IInv, WindowInv, TimerRun
  <1>5. {window[j] : j \in 1..i} = (next_packet - L)..(next_packet - L + i - 1)
    <2>1. \A j \in 1..i : j \in 1..L
      BY <1>1
    <2>2. \A j \in 1..i : window[j] \in (next_packet - L)..(next_packet - L + i - 1)
      BY <1>1, <2>1
    <2>3. ASSUME NEW k \in (next_packet - L)..(next_packet - L + i - 1)
          PROVE  \E j \in 1..i : window[j] = k
      <3> DEFINE j == k - next_packet + L + 1
      <3>1. j \in 1..i /\ next_packet - L + j - 1 = k
        BY <1>1
      <3>2. window[j] = k
        BY <1>1, <2>1, <3>1
      <3> QED BY <3>1, <3>2
    <2> HIDE DEF L
    <2> QED BY <2>2, <2>3
  <1>6. TimerRun'
    <2>1. unacked_packets' = (next_packet - L + i)..(next_packet - 1)
      BY <1>1, <1>2, <1>4, <1>5
    <2>2. Sending' = 0 /\ next_packet - 1 - 0 = next_packet - 1
      BY <1>1, <1>3 DEF Sending
    <2> QED BY <1>2, <1>3, <2>1, <2>2 DEF TimerRun
  <1>7. Places'
    BY <1>3 DEF Places
  <1>8. window[i] <= Len(file_written)
    <2>1. window[i] \in Seqno /\ SeqnoOf(window[i]) = ackno
      BY <1>1, <1>2
    <2>2. first_seqno # 0 => window[i] <= L
      <3>1. first_seqno # 0 => next_packet = L + 1
        BY DEF IInv, WindowInv, Skewed
      <3> QED BY <1>1, <3>1
    <2> QED BY <2>1, <2>2 DEF IInv, AckSafe
  <1>9. first_seqno = 0
    <2>1. first_seqno # 0 => Len(file_written) = 0
      BY DEF IInv, WindowInv, Skewed, DeliveredPrefix
    <2>2. window[i] >= 1
      BY <1>1 DEF Seqno
    <2> QED BY <1>8, <2>1, <2>2, <1>1
  <1>10. next_packet - L + acked_run' - 1 <= Len(file_written)
    BY <1>1, <1>2, <1>8
  <1>11. NetSafe'
    BY <1>3, FewerInFlight DEF clientVars
  <1>12. /\ worker_pc' \in WorkerPC /\ acked_run' \in 0..L /\ timer_pc' \in TimerPC
         /\ set_mutex' \in {"free", "timer"} /\ server_up' \in BOOLEAN /\ to_send' \in 0..L
    BY <1>1, <1>2, <1>3 DEF WorkerPC, IInv, TypeOK
  <1> QED BY <1>3, <1>6, <1>7, <1>9, <1>10, <1>11, <1>12, QuietPreserves

\* Steps of the worker that neither send nor acknowledge.
LEMMA IdleStep ==
  ASSUME IInv, AdvanceEnd \/ \E ackno \in toServer : AckIgnored(ackno), UNCHANGED clientVars
  PROVE  IInv'
  <1>1. /\ UNCHANGED <<first_seqno, window, next_packet, clientVars, set_mutex, server_up>>
        /\ UNCHANGED <<to_send, timer_pc, toClient, acked_run, unacked_packets>>
        /\ worker_pc \in {"idle", "advance"} /\ worker_pc' = "idle"
        /\ toServer' \subseteq toServer
    BY DEF AdvanceEnd, AckIgnored, WorkerAt, TakeFromClient, netVars
  <1>2. acked_run = 0
    <2>1. worker_pc = "advance" => ~FrontAcked
      BY DEF AdvanceEnd, AckIgnored, WorkerAt
    <2> QED BY <1>1, <2>1 DEF FrontAcked, IInv, WindowInv, Places, TypeOK
  <1>3. Places' /\ TimerRun'
    BY <1>1, <1>2 DEF IInv, WindowInv, Places, TimerRun, Sending
  <1>4. NetSafe'
    BY <1>1, FewerInFlight DEF clientVars
  <1>5. /\ worker_pc' \in WorkerPC /\ acked_run' \in 0..Len(window) /\ timer_pc' \in TimerPC
        /\ set_mutex' \in {"free", "timer"} /\ server_up' \in BOOLEAN
        /\ to_send' \in 0..Len(window)
    BY <1>1 DEF WorkerPC, IInv, TypeOK
  <1> QED BY <1>1, <1>3, <1>4, <1>5, QuietPreserves

\* The packet that entered the window last enters the timer's set.
LEMMA AdvanceInsertStep ==
  ASSUME IInv, AdvanceInsert, UNCHANGED clientVars
  PROVE  IInv'
  <1> DEFINE lo == next_packet - Len(window) + acked_run
  <1>1. /\ Len(window) \in Nat /\ next_packet \in 1..(Len(File) + 1) /\ Len(File) \in Nat
        /\ acked_run \in 0..Len(window)
        /\ \A i \in 1..Len(window) : window[i] = next_packet - Len(window) + i - 1
    BY WindowFacts, FileFacts
  <1>2. /\ UNCHANGED <<first_seqno, window, next_packet, clientVars, set_mutex, server_up>>
        /\ UNCHANGED <<to_send, timer_pc, toClient, toServer, acked_run>>
        /\ worker_pc = "advance_insert" /\ worker_pc' = "advance"
        /\ unacked_packets' = unacked_packets \cup {window[Len(window)]}
        /\ acked_run < Len(window)
    BY DEF AdvanceInsert, WorkerAt, Insert, netVars, IInv, WindowInv, Places
  <1>3. unacked_packets = lo..(next_packet - 1 - 1)
    BY <1>2 DEF IInv, WindowInv, TimerRun, Sending
  <1>4. window[Len(window)] = next_packet - 1
    <2>1. Len(window) \in 1..Len(window)
      BY <1>1, <1>2
    <2> QED BY <1>1, <2>1
  <1>5. unacked_packets' = lo..(next_packet - 1 - 0)
    <2>1. /\ lo \in Int /\ next_packet - 1 - 1 \in Int /\ next_packet - 1 - 1 >= lo - 1
          /\ next_packet - 1 = (next_packet - 1 - 1) + 1
          /\ next_packet - 1 - 0 = (next_packet - 1 - 1) + 1
      BY <1>1, <1>2
    <2> HIDE DEF lo
    <2> QED BY <1>2, <1>3, <1>4, <2>1, RangeGrows
  <1>6. TimerRun' /\ Places'
    <2>1. Sending' = 0
      BY <1>2 DEF Sending
    <2>2. TimerRun'
      BY <1>2, <1>5, <2>1 DEF TimerRun
    <2> QED BY <1>2, <2>2 DEF Places, IInv, WindowInv
  <1>7. NetSafe'
    BY <1>2, FewerInFlight DEF clientVars
  <1>8. /\ worker_pc' \in WorkerPC /\ acked_run' \in 0..Len(window) /\ timer_pc' \in TimerPC
        /\ set_mutex' \in {"free", "timer"} /\ server_up' \in BOOLEAN
        /\ to_send' \in 0..Len(window)
    BY <1>2 DEF WorkerPC, IInv, TypeOK
  <1> QED BY <1>2, <1>6, <1>7, <1>8, QuietPreserves

\* is_done(): an empty window means that the client has written the file.
LEMMA FinishStep ==
  ASSUME IInv, Finish, UNCHANGED clientVars
  PROVE  IInv'
  <1>1. /\ UNCHANGED <<first_seqno, window, next_packet, clientVars, set_mutex, server_up>>
        /\ UNCHANGED <<to_send, timer_pc, toServer, acked_run, unacked_packets>>
        /\ worker_pc = "idle" /\ worker_pc' = "finished" /\ window = <<>> /\ acked_run = 0
        /\ toClient' = toClient \cup {DataPacket(NoData, SeqnoOf(next_packet))}
    BY DEF Finish, WorkerAt, SendToClient, IInv, WindowInv, Places
  <1>2. Len(window) = 0 /\ next_packet = Len(File) + 1
    <2>1. Len(window) = 0 /\ next_packet \in 1..(Len(File) + 1)
      BY <1>1 DEF IInv, TypeOK
    <2>2. ~HasNext
      BY <2>1, Sizes DEF IInv, WindowInv, WindowIsRun
    <2> QED BY <2>1, <2>2, FileFacts DEF HasNext
  <1>3. file_written = File
    <2>1. Len(file_written) \in Nat
      BY DEF IInv, TypeOK
    <2>2. Len(File) <= Len(file_written) /\ Len(file_written) <= Len(File)
      BY <1>1, <1>2, <2>1, FileFacts DEF IInv, PoppedIsWritten, InFile
    <2>3. Len(file_written) = Len(File)
      BY <2>1, <2>2, FileFacts
    <2> QED BY <2>3, FileFacts, SubSeqFull DEF IInv, DeliveredPrefix
  <1>4. NetSafe'
    <2>1. first_seqno' = first_seqno /\ next_packet' = next_packet /\ file_written' = file_written
      BY <1>1 DEF clientVars
    <2> QED BY <1>1, <1>2, <1>3, <2>1 DEF IInv, NetSafe, SeqnoOf
  <1>5. TimerRun' /\ Places'
    BY <1>1 DEF IInv, WindowInv, Places, TimerRun, Sending
  <1>6. /\ worker_pc' \in WorkerPC /\ acked_run' \in 0..Len(window) /\ timer_pc' \in TimerPC
        /\ set_mutex' \in {"free", "timer"} /\ server_up' \in BOOLEAN
        /\ to_send' \in 0..Len(window)
    BY <1>1 DEF WorkerPC, IInv, TypeOK
  <1> QED BY <1>1, <1>4, <1>5, <1>6, QuietPreserves

\* The window after a packet has been popped from its front.
LEMMA TailOfWindow ==
  ASSUME IInv, FrontAcked
  PROVE  /\ Tail(window) \in Seq(Seqno) /\ Len(Tail(window)) = Len(window) - 1
         /\ \A i \in 1..(Len(window) - 1) : Tail(window)[i] = window[i + 1]
         /\ Len(window) >= 1 /\ first_seqno = 0
  <1>1. window \in Seq(Seqno) /\ acked_run \in 0..Len(window) /\ acked_run > 0
    BY DEF IInv, TypeOK, FrontAcked
  <1>2. window # <<>> /\ Len(window) \in Nat /\ Len(window) >= 1
    BY <1>1
  <1>3. first_seqno = 0
    BY <1>1 DEF IInv, WindowInv, Skewed
  <1> QED BY <1>1, <1>2, <1>3, HeadTailProperties

\* One step of advance_window, whatever enters at the back.
LEMMA SlidePreserves ==
  ASSUME IInv, UNCHANGED <<first_seqno, clientVars, to_send, unacked_packets, timer_pc>>,
         UNCHANGED <<set_mutex, server_up, toServer>>, NetSafe',
         worker_pc = "advance", FrontAcked, acked_run' = acked_run - 1,
         next_packet' \in 1..(Len(File) + 1), window' \in Seq(Seqno), WindowIsRun',
         \/ /\ worker_pc' = "advance" /\ next_packet' = next_packet
            /\ Len(window') = Len(window) - 1
         \/ /\ worker_pc' = "advance_insert" /\ next_packet' = next_packet + 1
            /\ Len(window') = Len(window)
  PROVE  IInv'
  <1>1. /\ Len(window) \in Nat /\ next_packet \in Nat /\ acked_run \in 1..Len(window)
        /\ to_send = 0 /\ Len(window) <= WindowSize /\ WindowSize \in Nat
    <2>1. /\ Len(window) \in Nat /\ next_packet \in 1..(Len(File) + 1) /\ Len(File) \in Nat
          /\ acked_run \in 0..Len(window) /\ Len(window) <= WindowSize /\ WindowSize \in Nat
      BY WindowFacts, FileFacts, Sizes
    <2>2. to_send = 0
      BY DEF IInv, WindowInv, Places
    <2> QED BY <2>1, <2>2 DEF FrontAcked
  <1>2. first_seqno = 0 /\ first_seqno \in SeqnoType
    BY TailOfWindow DEF IInv, TypeOK
  <1>3. TypeOK'
    <2>1. toClient' \subseteq [seqno : SeqnoType, data : Data \cup {NoData}]
      <3>1. \A pkt \in toClient' :
              \/ \E k \in Seqno : pkt = NumberedPacket(first_seqno, k)
              \/ pkt = DataPacket(NoData, Number(first_seqno, Len(File) + 1))
        BY DEF NetSafe, SeqnoOf
      <3>2. /\ \A k \in Seqno : NumberedPacket(first_seqno, k)
                                  \in [seqno : SeqnoType, data : Data \cup {NoData}]
            /\ DataPacket(NoData, Number(first_seqno, Len(File) + 1))
                  \in [seqno : SeqnoType, data : Data \cup {NoData}]
        BY <1>2, DatagramType
      <3> QED BY <3>1, <3>2
    <2>2. /\ to_send' \in 0..Len(window') /\ acked_run' \in 0..Len(window')
          /\ Len(window') <= WindowSize /\ worker_pc' \in WorkerPC
      BY <1>1 DEF WorkerPC
    <2> QED BY <2>1, <2>2 DEF IInv, TypeOK, clientVars
  <1>4. Places'
    BY <1>1 DEF Places
  <1>5. /\ next_packet' - Len(window') + acked_run' = next_packet - Len(window) + acked_run
        /\ next_packet' - 1 - Sending' = next_packet - 1 - Sending
    <2>1. Sending = 0 /\ Sending' = IF worker_pc' = "advance_insert" THEN 1 ELSE 0
      BY DEF Sending
    <2>2. CASE worker_pc' = "advance"
      BY <1>1, <2>1, <2>2
    <2>3. CASE worker_pc' = "advance_insert"
      BY <1>1, <2>1, <2>3
    <2> QED BY <2>2, <2>3
  <1>6. TimerRun' /\ Skewed'
    BY <1>2, <1>5 DEF IInv, WindowInv, TimerRun, Skewed
  <1>7. AckSafe'
    BY <1>2 DEF IInv, AckSafe, SeqnoOf, clientVars
  <1>8. DeliveredPrefix' /\ InFile'
    BY DEF IInv, DeliveredPrefix, InFile, clientVars
  <1>9. PoppedIsWritten'
    <2>1. next_packet - Len(window) + acked_run - 1 <= Len(file_written)
      BY DEF IInv, PoppedIsWritten
    <2>2. file_written' = file_written
      BY DEF clientVars
    <2>3. next_packet' - Len(window') + acked_run' - 1 = next_packet - Len(window) + acked_run - 1
      BY <1>1
    <2> QED BY <2>1, <2>2, <2>3 DEF PoppedIsWritten
  <1> QED BY <1>3, <1>4, <1>6, <1>7, <1>8, <1>9 DEF IInv, WindowInv

LEMMA AdvanceLastStep ==
  ASSUME IInv, AdvanceLast, UNCHANGED clientVars
  PROVE  IInv'
  <1>1. /\ UNCHANGED <<first_seqno, clientVars, to_send, unacked_packets, timer_pc>>
        /\ UNCHANGED <<set_mutex, server_up, toServer, toClient, next_packet>>
        /\ worker_pc = "advance" /\ worker_pc' = "advance" /\ FrontAcked /\ ~HasNext
        /\ acked_run' = acked_run - 1 /\ window' = Tail(window)
    BY DEF AdvanceLast, WorkerAt, netVars
  <1>2. /\ Len(window) \in Nat /\ next_packet \in 1..(Len(File) + 1) /\ Len(File) \in Nat
        /\ \A i \in 1..Len(window) : window[i] = next_packet - Len(window) + i - 1
    BY WindowFacts, FileFacts
  <1>3. /\ window' \in Seq(Seqno) /\ Len(window') = Len(window) - 1
        /\ \A i \in 1..(Len(window) - 1) : window'[i] = window[i + 1]
        /\ Len(window) >= 1
    BY <1>1, TailOfWindow
  <1>4. WindowIsRun'
    <2>1. \A i \in 1..Len(window') : window'[i] = next_packet' - Len(window') + i - 1
      BY <1>1, <1>2, <1>3
    <2> QED BY <1>1, <2>1 DEF WindowIsRun, HasNext
  <1>5. NetSafe'
    BY <1>1, FewerInFlight DEF clientVars
  <1> QED BY <1>1, <1>2, <1>3, <1>4, <1>5, SlidePreserves

LEMMA AdvanceNextStep ==
  ASSUME IInv, AdvanceNext, UNCHANGED clientVars
  PROVE  IInv'
  <1>1. /\ UNCHANGED <<first_seqno, clientVars, to_send, unacked_packets, timer_pc>>
        /\ UNCHANGED <<set_mutex, server_up, toServer>>
        /\ worker_pc = "advance" /\ worker_pc' = "advance_insert" /\ FrontAcked /\ HasNext
        /\ acked_run' = acked_run - 1 /\ window' = Append(Tail(window), next_packet)
        /\ next_packet' = next_packet + 1 /\ SendPacket(next_packet)
    BY DEF AdvanceNext, WorkerAt, Slide
  <1>2. /\ Len(window) \in Nat /\ next_packet \in 1..(Len(File) + 1) /\ Len(File) \in Nat
        /\ \A i \in 1..Len(window) : window[i] = next_packet - Len(window) + i - 1
    BY WindowFacts, FileFacts
  <1>3. next_packet \in Seqno /\ next_packet' \in 1..(Len(File) + 1) /\ next_packet < next_packet'
    BY <1>1, <1>2 DEF HasNext, Seqno
  <1>4. /\ window' \in Seq(Seqno) /\ Len(window') = Len(window) /\ Len(window) >= 1
        /\ \A i \in 1..(Len(window) - 1) : window'[i] = window[i + 1]
        /\ window'[Len(window)] = next_packet
    <2> DEFINE t == Tail(window)
    <2>1. /\ t \in Seq(Seqno) /\ Len(t) = Len(window) - 1 /\ Len(window) >= 1
          /\ \A i \in 1..(Len(window) - 1) : t[i] = window[i + 1]
      BY <1>1, TailOfWindow
    <2>2. window' = Append(t, next_packet)
      BY <1>1
    <2> HIDE DEF t
    <2>3. /\ window' \in Seq(Seqno) /\ Len(window') = Len(t) + 1
          /\ \A i \in 1..Len(t) : window'[i] = t[i]
          /\ window'[Len(t) + 1] = next_packet
      BY <1>3, <2>1, <2>2, AppendProperties
    <2> QED BY <1>2, <2>1, <2>3
  <1>5. WindowIsRun'
    <2>1. \A i \in 1..Len(window') : window'[i] = next_packet' - Len(window') + i - 1
      <3> SUFFICES ASSUME NEW i \in 1..Len(window)
                   PROVE  window'[i] = next_packet' - Len(window) + i - 1
        BY <1>4
      <3>1. CASE i = Len(window)
        BY <1>1, <1>2, <1>4, <3>1
      <3>2. CASE i # Len(window)
        <4>1. i \in 1..(Len(window) - 1) /\ i + 1 \in 1..Len(window)
          BY <1>2, <3>2
        <4>2. window'[i] = next_packet - Len(window) + (i + 1) - 1
          BY <1>2, <1>4, <4>1
        <4> QED BY <1>1, <1>2, <4>1, <4>2
      <3> QED BY <3>1, <3>2
    <2>2. Len(window') = WindowSize
      BY <1>1, <1>4 DEF IInv, WindowInv, WindowIsRun
    <2> QED BY <2>1, <2>2 DEF WindowIsRun
  <1>6. NetSafe'
    BY <1>1, <1>3, SendSafe DEF clientVars
  <1> QED BY <1>1, <1>3, <1>4, <1>5, <1>6, SlidePreserves

LEMMA WorkerStep ==
  ASSUME IInv, Worker, UNCHANGED clientVars
  PROVE  IInv'
  BY StartStep, AcknowledgeStep, IdleStep, AdvanceInsertStep, FinishStep, AdvanceLastStep,
     AdvanceNextStep
     DEF Worker

\* The timer thread changes neither the window nor its set.
LEMMA TimerStep ==
  ASSUME IInv, Timer, UNCHANGED clientVars
  PROVE  IInv'
  <1>1. /\ UNCHANGED <<sendVars, unacked_packets, worker_pc, toServer>>
        /\ timer_pc' \in TimerPC /\ set_mutex' \in {"free", "timer"} /\ server_up' \in BOOLEAN
    BY DEF Timer, TimerFirst, TimerCrash, TimerSleep, TimerTimeout, TimerAt, TimerPC, netVars,
           IInv, TypeOK
  <1>2. /\ first_seqno' = first_seqno /\ next_packet' = next_packet
        /\ file_written' = file_written
    BY <1>1 DEF sendVars, clientVars
  <1>3. NetSafe'
    <2>1. CASE TimerTimeout
      <3>1. PICK k \in unacked_packets : SendPacket(k)
        BY <2>1 DEF TimerTimeout
      <3>2. k \in Seqno
        BY <3>1 DEF IInv, TypeOK
      <3>3. k < next_packet
        <4>1. k \in (next_packet - Len(window) + acked_run)..(next_packet - 1 - Sending)
          BY <3>1 DEF IInv, WindowInv, TimerRun
        <4>2. /\ next_packet \in Int /\ Len(window) \in Int /\ acked_run \in Int
              /\ Sending \in Nat
          BY WindowFacts, FileFacts
        <4> QED BY <4>1, <4>2
      <3> QED BY <1>2, <3>1, <3>2, <3>3, SendSafe
    <2>2. CASE TimerFirst \/ TimerCrash \/ TimerSleep
      BY <1>2, <2>2, FewerInFlight DEF TimerFirst, TimerCrash, TimerSleep, netVars
    <2> QED BY <2>1, <2>2 DEF Timer
  <1>4. TimerRun' /\ Places'
    BY <1>1 DEF IInv, WindowInv, TimerRun, Places, Sending, sendVars
  <1>5. UNCHANGED <<first_seqno, window, next_packet, clientVars, to_send, acked_run>>
    BY <1>1 DEF sendVars
  <1> QED BY <1>1, <1>3, <1>4, <1>5, QuietPreserves DEF IInv, TypeOK

\* Datagrams are lost, or nothing happens.
LEMMA LossStep ==
  ASSUME IInv, toClient' \subseteq toClient, toServer' \subseteq toServer,
         UNCHANGED <<serverVars, clientVars>>
  PROVE  IInv'
  <1>1. UNCHANGED <<sendVars, unacked_packets, set_mutex, worker_pc, timer_pc, server_up>>
    BY DEF serverVars
  <1>2. UNCHANGED <<first_seqno, window, next_packet, clientVars, to_send, acked_run>>
    BY <1>1 DEF sendVars
  <1>3. NetSafe'
    BY <1>2, FewerInFlight DEF clientVars
  <1>4. TimerRun' /\ Places'
    BY <1>1, <1>2 DEF IInv, WindowInv, TimerRun, Places, Sending
  <1> QED BY <1>1, <1>2, <1>3, <1>4, QuietPreserves DEF IInv, TypeOK

-----------------------------------------------------------------------------
(* The client's steps.                                                     *)

\* What the server relies on is that the client goes on.
LEMMA ClientPreserves ==
  ASSUME IInv, UNCHANGED serverVars, toClient' \subseteq toClient,
         toServer' \subseteq SeqnoType, expected_seqno' \in SeqnoType,
         file_written' \in Seq(Data), client_done' \in BOOLEAN, client_cut' \in BOOLEAN,
         AckSafe', DeliveredPrefix', InFile',
         \/ file_written' = file_written
         \/ file_written # File /\ Len(file_written) <= Len(file_written'),
         first_seqno # 0 => expected_seqno' = expected_seqno
  PROVE  IInv'
  <1>1. /\ UNCHANGED <<first_seqno, window, next_packet, to_send, acked_run>>
        /\ UNCHANGED <<unacked_packets, set_mutex, worker_pc, timer_pc, server_up>>
    BY DEF serverVars, sendVars
  <1>2. TypeOK'
    BY <1>1 DEF IInv, TypeOK
  <1>3. WindowInv'
    BY <1>1 DEF IInv, WindowInv, WindowIsRun, Places, TimerRun, Sending, Skewed, HasNext
  <1>4. NetSafe'
    BY <1>1 DEF IInv, NetSafe, SeqnoOf
  <1>5. PoppedIsWritten'
    <2> DEFINE popped == next_packet - Len(window) + acked_run - 1
    <2>1. popped \in Int /\ Len(file_written) \in Int /\ Len(file_written') \in Int
      BY WindowFacts, FileFacts DEF IInv, TypeOK
    <2>2. popped <= Len(file_written)
      BY DEF IInv, PoppedIsWritten
    <2> HIDE DEF popped
    <2>3. popped <= Len(file_written')
      BY <2>1, <2>2
    <2> QED BY <1>1, <2>3 DEF popped, PoppedIsWritten
  <1> QED BY <1>2, <1>3, <1>4, <1>5 DEF IInv

\* What the client can act upon.
LEMMA InFlight ==
  ASSUME IInv, NEW pkt \in toClient
  PROVE  /\ ~IsTerminal(pkt) =>
              \E k \in Seqno : /\ k < next_packet /\ pkt.data = File[k]
                               /\ pkt.seqno = SeqnoOf(k)
         /\ IsTerminal(pkt) => file_written = File
  <1>1. CASE \E k \in Seqno : k < next_packet /\ pkt = NumberedPacket(first_seqno, k)
    <2> PICK k \in Seqno : k < next_packet /\ pkt = NumberedPacket(first_seqno, k)
      BY <1>1
    <2>1. pkt.seqno = SeqnoOf(k) /\ pkt.data = File[k] /\ File[k] # NoData
      BY FileFacts DEF NumberedPacket, DataPacket, SeqnoOf
    <2> QED BY <2>1 DEF IsTerminal
  <1>2. CASE pkt = DataPacket(NoData, SeqnoOf(Len(File) + 1)) /\ file_written = File
    BY <1>2 DEF DataPacket, IsTerminal
  <1> QED BY <1>1, <1>2 DEF IInv, NetSafe

\* The number of a packet the server has handed out, from where it stands.
LEMMA SentNumber ==
  ASSUME IInv, NEW k \in Seqno, k < next_packet
  PROVE  /\ first_seqno = 0 => SeqnoOf(k) = k - 1
         /\ first_seqno # 0 => /\ SeqnoOf(k) = first_seqno + k - 1 /\ k <= Len(window)
                               /\ expected_seqno = 0 /\ first_seqno \in Nat \ {0}
  <1>1. k \in Nat \ {0} /\ k \in 1..(Len(File) + 1) /\ Len(window) \in Nat /\ next_packet \in Nat
    BY WindowFacts, FileFacts
  <1>2. first_seqno \in SeqnoType /\ first_seqno \in Nat /\ SeqnoSpace \in Nat
    BY Sizes DEF IInv, TypeOK, SeqnoType
  <1>3. CASE first_seqno = 0
    BY <1>1, <1>3, NumberFromZero DEF SeqnoOf
  <1>4. CASE first_seqno # 0
    <2>1. /\ first_seqno + Len(window) <= SeqnoSpace /\ next_packet = Len(window) + 1
          /\ expected_seqno = 0
      BY <1>4 DEF IInv, WindowInv, Skewed
    <2>2. k <= Len(window) /\ first_seqno + k <= SeqnoSpace
      BY <1>1, <1>2, <2>1
    <2>3. SeqnoOf(k) = first_seqno + k - 1
      BY <1>1, <1>2, <2>2, NumberType DEF SeqnoOf
    <2> QED BY <1>2, <1>4, <2>1, <2>2, <2>3
  <1> QED BY <1>3, <1>4

\* The packet that is in order is the next one of the file.
LEMMA ReceiveExpectedStep ==
  ASSUME IInv, NEW pkt, ReceiveExpected(pkt), UNCHANGED serverVars
  PROVE  /\ IInv'
         /\ \E n \in (Len(file_written) + 1)..Len(File) : file_written' = SubSeq(File, 1, n)
  <1>1. /\ pkt \in toClient /\ toClient' \subseteq toClient /\ ~IsTerminal(pkt)
        /\ pkt.seqno = expected_seqno /\ UNCHANGED <<client_done, client_cut>>
        /\ file_written' = Append(file_written, pkt.data)
        /\ expected_seqno' = (expected_seqno + 1) % SeqnoSpace
        /\ toServer' = toServer \cup {pkt.seqno}
    BY DEF ReceiveExpected, TakeFromServer, InOrder, SendToServer
  <1>2. PICK k \in Seqno : k < next_packet /\ pkt.data = File[k] /\ pkt.seqno = SeqnoOf(k)
    BY <1>1, InFlight
  <1>3. /\ k \in 1..Len(File) /\ Len(File) \in Nat /\ File[k] \in Data
        /\ file_written \in Seq(Data) /\ Len(file_written) = expected_seqno
        /\ file_written = SubSeq(File, 1, Len(file_written))
        /\ SeqnoSpace \in Nat \ {0} /\ Len(File) + 1 < SeqnoSpace
        /\ toServer \subseteq SeqnoType
    BY <1>2, FileFacts, Sizes DEF IInv, TypeOK, DeliveredPrefix
  <1>4. first_seqno = 0
    <2> SUFFICES ASSUME first_seqno # 0 PROVE FALSE
      OBVIOUS
    <2>1. SeqnoOf(k) = first_seqno + k - 1 /\ expected_seqno = 0 /\ first_seqno \in Nat \ {0}
      BY <1>2, SentNumber
    <2> QED BY <1>1, <1>2, <1>3, <2>1
  <1>5. expected_seqno = k - 1 /\ Len(file_written) = k - 1
    BY <1>1, <1>2, <1>3, <1>4, SentNumber
  <1>6. expected_seqno' = k
    <2>1. expected_seqno + 1 = k /\ k \in Nat /\ k < SeqnoSpace
      BY <1>3, <1>5
    <2> QED BY <1>1, <1>3, <2>1, ModSmall
  <1>7. /\ file_written' = SubSeq(File, 1, k) /\ Len(file_written') = k
        /\ file_written' \in Seq(Data)
    <2>1. /\ file_written' \in Seq(Data) /\ Len(file_written') = k
          /\ \A i \in 1..(k - 1) : file_written'[i] = file_written[i]
          /\ file_written'[k] = File[k]
      <3>1. (k - 1) + 1 = k
        BY <1>3
      <3> QED BY <1>1, <1>2, <1>3, <1>5, <3>1, AppendProperties
    <2>2. \A i \in 1..(k - 1) : file_written[i] = File[i]
      <3>1. \A i \in 1..(k - 1) : SubSeq(File, 1, k - 1)[i] = File[i]
        BY <1>3
      <3> QED BY <1>3, <1>5, <3>1
    <2>3. \A i \in 1..k : file_written'[i] = File[i]
      <3>1. \A i \in 1..k : i = k \/ i \in 1..(k - 1)
        BY <1>3
      <3> QED BY <2>1, <2>2, <3>1
    <2>4. /\ SubSeq(File, 1, k) \in Seq(Data) /\ Len(SubSeq(File, 1, k)) = k
          /\ \A i \in 1..k : SubSeq(File, 1, k)[i] = File[i]
      <3>1. \A i \in 1..k : File[i] \in Data
        BY <1>3, FileFacts DEF Seqno
      <3> QED BY <1>3, <3>1, FileFacts, SubSeqProperties
    <2> QED BY <2>1, <2>3, <2>4, SeqEqual
  <1>8. AckSafe'
    <2> SUFFICES ASSUME NEW ackno \in toServer', NEW j \in Seqno, SeqnoOf(j) = ackno
                 PROVE  j <= k
      BY <1>4, <1>7 DEF AckSafe, SeqnoOf, serverVars, sendVars
    <2>1. CASE ackno \in toServer
      <3>1. j <= Len(file_written) /\ j \in Nat
        BY <1>4, <2>1, FileFacts DEF IInv, AckSafe, Seqno
      <3> QED BY <1>3, <1>5, <3>1
    <2>2. CASE ackno = k - 1
      <3>1. j \in 1..(Len(File) + 1)
        BY FileFacts DEF Seqno
      <3>2. SeqnoOf(j) = j - 1
        BY <1>4, <3>1, NumberFromZero DEF SeqnoOf
      <3> QED BY <1>3, <2>2, <3>1, <3>2
    <2> QED BY <1>1, <1>5, <2>1, <2>2
  <1>9. DeliveredPrefix' /\ InFile'
    BY <1>3, <1>6, <1>7 DEF DeliveredPrefix, InFile
  <1>10. /\ expected_seqno' \in SeqnoType /\ toServer' \subseteq SeqnoType
         /\ client_done' \in BOOLEAN /\ client_cut' \in BOOLEAN
    <2>1. k \in SeqnoType /\ k - 1 \in SeqnoType
      BY <1>3 DEF SeqnoType
    <2> QED BY <1>1, <1>3, <1>5, <1>6, <2>1 DEF IInv, TypeOK
  <1>11. file_written # File /\ Len(file_written) <= Len(file_written')
    BY <1>3, <1>5, <1>7
  <1>12. IInv'
    BY <1>1, <1>4, <1>7, <1>8, <1>9, <1>10, <1>11, ClientPreserves
  <1>13. k \in (Len(file_written) + 1)..Len(File)
    BY <1>3, <1>5
  <1> QED BY <1>7, <1>12, <1>13

\* Steps in which the client's file stays as it is.
LEMMA ClientKeeps ==
  ASSUME IInv, UNCHANGED <<serverVars, expected_seqno, file_written>>,
         toClient' \subseteq toClient, client_done' \in BOOLEAN, client_cut' \in BOOLEAN,
         toServer' \subseteq SeqnoType, AckSafe'
  PROVE  IInv'
  <1>1. expected_seqno' \in SeqnoType /\ file_written' \in Seq(Data)
    BY DEF IInv, TypeOK
  <1>2. DeliveredPrefix' /\ InFile'
    BY DEF IInv, DeliveredPrefix, InFile
  <1> QED BY <1>1, <1>2, ClientPreserves

\* "ack of last received packet": no ACK of a packet of the window, also when there
\* is no last packet and the number wraps around.
LEMMA ReceiveOtherStep ==
  ASSUME IInv, NEW pkt, ReceiveOther(pkt) \/ ReceiveCorrupted(pkt), UNCHANGED serverVars
  PROVE  IInv'
  <1>1. /\ toClient' \subseteq toClient /\ UNCHANGED clientVars
        /\ toServer' = toServer \cup {LastSeqno}
    BY DEF ReceiveOther, ReceiveCorrupted, TakeFromServer, SendToServer
  <1>3. /\ Len(File) \in Nat /\ SeqnoSpace \in Nat \ {0}
        /\ Len(File) + 1 < SeqnoSpace /\ expected_seqno \in SeqnoType
        /\ Len(file_written) = expected_seqno /\ expected_seqno \in Nat
        /\ expected_seqno < SeqnoSpace
    BY FileFacts, Sizes DEF IInv, TypeOK, DeliveredPrefix, SeqnoType
  <1>4. LastSeqno = IF expected_seqno = 0 THEN SeqnoSpace - 1 ELSE expected_seqno - 1
    <2>1. CASE expected_seqno = 0
      BY <1>3, <2>1, ModMinus DEF LastSeqno
    <2>2. CASE expected_seqno # 0
      <3>1. expected_seqno - 1 \in Nat /\ expected_seqno - 1 < SeqnoSpace
        BY <1>3, <2>2
      <3> QED BY <1>3, <2>2, <3>1, ModSmall DEF LastSeqno
    <2> QED BY <2>1, <2>2
  <1>5. ASSUME NEW j \in Seqno, first_seqno = 0 \/ j <= Len(window), SeqnoOf(j) = LastSeqno
        PROVE  j <= Len(file_written)
    <2>1. j \in 1..Len(File) /\ j \in 1..(Len(File) + 1)
      BY FileFacts DEF Seqno
    <2>2. CASE first_seqno = 0
      <3>1. SeqnoOf(j) = j - 1
        BY <2>1, <2>2, NumberFromZero DEF SeqnoOf
      <3> QED BY <1>3, <1>4, <1>5, <2>1, <3>1
    <2>3. CASE first_seqno # 0
      <3>1. /\ Len(window) \in Nat /\ next_packet = Len(window) + 1 /\ j \in Nat /\ j >= 1
            /\ first_seqno \in Nat /\ expected_seqno = 0 /\ j <= Len(window)
            /\ first_seqno + Len(window) < SeqnoSpace
        <4>1. Len(window) \in Nat /\ j \in Nat /\ j >= 1 /\ first_seqno \in Nat
          BY <2>1, WindowFacts DEF IInv, TypeOK, SeqnoType
        <4>2. j <= Len(window) /\ Len(window) > 0
          BY <1>5, <2>3, <4>1
        <4> QED BY <2>3, <4>1, <4>2 DEF IInv, WindowInv, Skewed
      <3>2. SeqnoOf(j) = first_seqno + j - 1
        <4>1. j < next_packet
          BY <3>1
        <4> QED BY <2>3, <4>1, SentNumber
      <3> QED BY <1>3, <1>4, <1>5, <3>1, <3>2
    <2> QED BY <2>2, <2>3
  <1>6. AckSafe'
    <2>1. \A ackno \in toServer' : \A j \in Seqno :
            (first_seqno = 0 \/ j <= Len(window)) /\ SeqnoOf(j) = ackno => j <= Len(file_written)
      BY <1>1, <1>5 DEF IInv, AckSafe
    <2> QED BY <1>1, <2>1 DEF AckSafe, SeqnoOf, serverVars, sendVars, clientVars
  <1>7. toServer' \subseteq SeqnoType
    <2>1. LastSeqno \in SeqnoType
      BY <1>3, <1>4 DEF SeqnoType
    <2> QED BY <1>1, <2>1 DEF IInv, TypeOK
  <1> QED BY <1>1, <1>6, <1>7, ClientKeeps DEF clientVars, IInv, TypeOK

LEMMA ReceiveQuietStep ==
  ASSUME IInv, NEW pkt, ReceiveTerminal(pkt) \/ ReceiveOutside(pkt) \/ ReceiveCut(pkt),
         UNCHANGED serverVars
  PROVE  /\ IInv'
         /\ ReceiveTerminal(pkt) => file_written = File
  <1>1. /\ pkt \in toClient /\ toClient' \subseteq toClient
        /\ UNCHANGED <<expected_seqno, file_written, toServer>>
        /\ client_done' \in BOOLEAN /\ client_cut' \in BOOLEAN
    BY DEF ReceiveTerminal, ReceiveOutside, ReceiveCut, TakeFromServer, clientVars, IInv, TypeOK
  <1>2. AckSafe' /\ toServer' \subseteq SeqnoType
    BY <1>1 DEF IInv, TypeOK, AckSafe, SeqnoOf, serverVars, sendVars
  <1>3. ReceiveTerminal(pkt) => file_written = File
    BY <1>1, InFlight DEF ReceiveTerminal
  <1> QED BY <1>1, <1>2, <1>3, ClientKeeps

LEMMA ClientStep ==
  ASSUME IInv, Client, UNCHANGED serverVars
  PROVE  IInv'
  BY ReceiveExpectedStep, ReceiveOtherStep, ReceiveQuietStep DEF Client, Run

LEMMA Invariance == IInv /\ [Next]_vars => IInv'
  <1> SUFFICES ASSUME IInv, [Next]_vars PROVE IInv'
    OBVIOUS
  <1>1. CASE Worker /\ UNCHANGED clientVars
    BY <1>1, WorkerStep
  <1>2. CASE Timer /\ UNCHANGED clientVars
    BY <1>2, TimerStep
  <1>3. CASE Client /\ UNCHANGED serverVars
    BY <1>3, ClientStep
  <1>4. CASE (LoseData \/ LoseAck) /\ UNCHANGED <<serverVars, clientVars>>
    BY <1>4, LossStep DEF LoseData, LoseAck
  <1>5. CASE UNCHANGED vars
    BY <1>5, LossStep DEF vars, netVars
  <1> QED BY <1>1, <1>2, <1>3, <1>4, <1>5 DEF Next

LEMMA Invariant == CleanSpec => []IInv
  BY InitInvariant, Invariance, PTL DEF CleanSpec

-----------------------------------------------------------------------------
\* Every variable keeps its type: advance_window pops only what the window holds.
THEOREM TypeCorrect == CleanSpec => []TypeOK
  <1>1. IInv => TypeOK
    BY DEF IInv
  <1> QED BY <1>1, Invariant, PTL

\* fill_window and advance_window: the window is the packets read last, and full as
\* long as the file lasts.
THEOREM WindowCorrect == CleanSpec => []WindowIsRun
  <1>1. IInv => WindowIsRun
    BY DEF IInv, WindowInv
  <1> QED BY <1>1, Invariant, PTL

\* send_packet and acknowledge_packet: what the timer thread may re-send is exactly
\* what was sent and not ACKed.
THEOREM TimerCorrect == CleanSpec => []TimerCovers
  BY Covers, Invariant, PTL

\* acknowledge_packet: where the first window does not have the number 2^32 - 1 and
\* nothing of the handshake is in flight, a cumulative ACK, late or repeated,
\* acknowledges what the client has written; so does the ACK of 2^32 - 1, "last
\* received packet" of a client that has received nothing.
THEOREM AcksAreTrue == CleanSpec => []PoppedIsWritten
  <1>1. IInv => PoppedIsWritten
    BY DEF IInv
  <1> QED BY <1>1, Invariant, PTL

\* client_go_back_N_strategy::run: the output file is a prefix of the file.
THEOREM FileCorrect == CleanSpec => []DeliveredPrefix
  <1>1. IInv => DeliveredPrefix
    BY DEF IInv
  <1> QED BY <1>1, Invariant, PTL

-----------------------------------------------------------------------------
(* What a timeout and a crash of the timer thread mean for the transfer.   *)

\* The timer thread that waits for set_mutex keeps what it was to re-send in its set:
\* everybody else waits for set_mutex to change it.
Locked == timer_pc = "relock" => set_mutex = "timer" /\ unacked_packets # {}

\* The terminal packet comes from a worker thread that has popped everything.
Ended ==
  /\ worker_pc = "finished" => window = <<>>
  /\ (client_done /\ ~client_cut) \/ (\E pkt \in toClient : IsTerminal(pkt)) =>
       worker_pc = "finished"

\* The timer thread starts with a packet in its set.
Started == timer_pc # "off" /\ worker_pc \in {"start", "insert"} => to_send < Len(window)

EndInv == IInv /\ Locked /\ Ended /\ Started /\ DownOnlyAcked /\ CompleteUnlessCut

\* A packet of the file is not terminal.
LEMMA SentIsData ==
  ASSUME IInv, NEW k \in Seqno, SendPacket(k)
  PROVE  \A pkt \in toClient' : pkt \in toClient \/ ~IsTerminal(pkt)
  <1>1. toClient' = toClient \cup {NumberedPacket(first_seqno, k)}
    BY DEF SendPacket, SendToClient
  <1>2. ~IsTerminal(NumberedPacket(first_seqno, k))
    BY FileFacts DEF NumberedPacket, DataPacket, IsTerminal
  <1> QED BY <1>1, <1>2

LEMMA InitEnd == CleanInit => EndInv
  <1> SUFFICES ASSUME CleanInit PROVE EndInv
    OBVIOUS
  <1>1. /\ toClient = {} /\ worker_pc = "start" /\ timer_pc = "off" /\ server_up = TRUE
        /\ client_done = FALSE
    BY DEF CleanInit, Init, ServerInit, ClientInit
  <1> QED BY <1>1, InitInvariant DEF EndInv, Locked, Ended, Started, DownOnlyAcked,
                                   CompleteUnlessCut

\* The worker thread's steps.
LEMMA WorkerEnd ==
  ASSUME EndInv, Worker, UNCHANGED clientVars
  PROVE  Locked' /\ Ended' /\ Started' /\ DownOnlyAcked'
  <1>1. /\ Len(window) \in Nat /\ next_packet \in 1..(Len(File) + 1)
        /\ to_send \in 0..Len(window) /\ \A i \in 1..Len(window) : window[i] \in Seqno
        /\ IInv /\ Len(File) \in Nat
    BY WindowFacts, FileFacts DEF EndInv
  <1>2. server_up /\ server_up' = server_up /\ set_mutex' = set_mutex
    BY DEF Worker, StartSend, StartInsert, StartEnd, Acknowledge, AckIgnored, AdvanceNext,
           AdvanceInsert, AdvanceLast, AdvanceEnd, Finish, WorkerAt
  <1>3. DownOnlyAcked'
    BY <1>2 DEF DownOnlyAcked
  <1>4. Locked'
    <2>1. CASE StartInsert
      BY <2>1 DEF StartInsert, EndInv, Locked
    <2>2. CASE AdvanceInsert \/ \E ackno \in toServer : Acknowledge(ackno)
      BY <2>2 DEF AdvanceInsert, Acknowledge, EndInv, Locked
    <2>3. CASE UNCHANGED <<unacked_packets, timer_pc>>
      BY <1>2, <2>3 DEF EndInv, Locked
    <2> QED BY <2>1, <2>2, <2>3 DEF Worker, StartSend, StartEnd, AckIgnored, AdvanceNext,
                                    AdvanceLast, AdvanceEnd, Finish
  <1>5. Started'
    <2>1. CASE StartSend
      BY <1>1, <2>1 DEF StartSend, WorkerAt, EndInv, Started
    <2>2. CASE StartInsert
      <3>1. to_send' = to_send - 1 /\ window' = window /\ to_send > 0
        BY <2>2 DEF StartInsert, WorkerAt, EndInv, IInv, WindowInv, Places
      <3> QED BY <1>1, <3>1 DEF Started
    <2>3. CASE worker_pc' \notin {"start", "insert"}
      BY <2>3 DEF Started
    <2> QED BY <2>1, <2>2, <2>3 DEF Worker, StartEnd, Acknowledge, AckIgnored, AdvanceNext,
                                    AdvanceInsert, AdvanceLast, AdvanceEnd, Finish, WorkerAt
  <1>6. Ended'
    <2>1. CASE Finish
      BY <2>1 DEF Finish, WorkerAt, Ended
    <2>2. CASE Worker /\ ~Finish
      <3>1. worker_pc # "finished" /\ worker_pc' # "finished"
        BY <2>2 DEF Worker, StartSend, StartInsert, StartEnd, Acknowledge, AckIgnored,
                    AdvanceNext, AdvanceInsert, AdvanceLast, AdvanceEnd, WorkerAt
      <3>2. \A pkt \in toClient' : pkt \in toClient \/ ~IsTerminal(pkt)
        <4>1. CASE StartSend
          <5>1. Len(window) - to_send + 1 \in 1..Len(window)
            BY <1>1, <4>1 DEF StartSend
          <5> QED BY <1>1, <4>1, <5>1, SentIsData DEF StartSend
        <4>2. CASE AdvanceNext
          <5>1. next_packet \in Seqno
            BY <1>1, <4>2 DEF AdvanceNext, HasNext, Seqno
          <5> QED BY <1>1, <4>2, <5>1, SentIsData DEF AdvanceNext
        <4>3. CASE UNCHANGED toClient
          BY <4>3
        <4> QED BY <2>2, <4>1, <4>2, <4>3 DEF Worker, StartInsert, StartEnd, Acknowledge,
                    AckIgnored, AdvanceInsert, AdvanceLast, AdvanceEnd, netVars
      <3>3. /\ client_done => client_cut
            /\ UNCHANGED <<client_done, client_cut>>
            /\ \A pkt \in toClient : ~IsTerminal(pkt)
        BY <3>1 DEF EndInv, Ended, clientVars
      <3> QED BY <3>1, <3>2, <3>3 DEF Ended
    <2> QED BY <2>1, <2>2
  <1> QED BY <1>3, <1>4, <1>5, <1>6

\* The set is empty where the timer thread reads it: what the window holds is acked,
\* or just being sent.
LEMMA CrashEnd ==
  ASSUME EndInv, TimerCrash
  PROVE  \A k \in 1..(next_packet - 1) :
           \/ k <= Len(file_written)
           \/ k = next_packet - 1 /\ worker_pc = "advance_insert"
  <1> DEFINE lo == next_packet - Len(window) + acked_run
             hi == next_packet - 1 - Sending
  <1>1. /\ Len(window) \in Nat /\ next_packet \in Nat /\ to_send \in 0..Len(window)
        /\ acked_run \in 0..Len(window) /\ Sending \in 0..Len(window)
        /\ Len(file_written) \in Nat /\ IInv
    BY WindowFacts, FileFacts DEF EndInv, IInv, TypeOK
  <1>2. lo > hi
    <2>1. lo..hi = {}
      BY DEF TimerCrash, EndInv, IInv, WindowInv, TimerRun
    <2>2. lo \in Int /\ hi \in Int
      BY <1>1
    <2>3. lo <= hi => lo \in lo..hi
      BY <2>2
    <2> HIDE DEF lo, hi
    <2> QED BY <2>1, <2>2, <2>3
  <1>3. worker_pc \in {"start", "insert"} => Sending = to_send /\ acked_run = 0
    BY DEF Sending, EndInv, IInv, WindowInv, Places
  <1>4. worker_pc \notin {"start", "insert"}
    <2>1. worker_pc \in {"start", "insert"} => to_send < Len(window)
      BY DEF TimerCrash, EndInv, Started
    <2> QED BY <1>1, <1>2, <1>3, <2>1
  <1>5. next_packet - Len(window) + acked_run - 1 <= Len(file_written)
    BY <1>1 DEF IInv, PoppedIsWritten
  <1>6. CASE worker_pc = "advance_insert"
    <2>1. Sending = 1
      BY <1>6 DEF Sending
    <2> QED BY <1>1, <1>2, <1>5, <1>6, <2>1
  <1>7. CASE worker_pc # "advance_insert"
    <2>1. Sending = 0
      BY <1>4, <1>7 DEF Sending
    <2> QED BY <1>1, <1>2, <1>5, <2>1
  <1> QED BY <1>6, <1>7

\* The timer thread's steps.
LEMMA TimerEnd ==
  ASSUME EndInv, Timer, UNCHANGED clientVars
  PROVE  Locked' /\ Ended' /\ Started' /\ DownOnlyAcked'
  <1>1. UNCHANGED <<window, next_packet, to_send, worker_pc, unacked_packets, file_written,
                    client_done, client_cut>>
    BY DEF Timer, TimerFirst, TimerCrash, TimerSleep, TimerTimeout, TimerAt, sendVars, clientVars
  <1>2. Locked'
    BY <1>1 DEF Timer, TimerFirst, TimerCrash, TimerSleep, TimerTimeout, TimerAt, EndInv, Locked
  <1>3. timer_pc # "off"
    BY DEF Timer, TimerFirst, TimerCrash, TimerSleep, TimerTimeout, TimerAt
  <1>4. Started'
    BY <1>1, <1>3 DEF EndInv, Started
  <1>5. DownOnlyAcked'
    <2>1. CASE TimerCrash
      BY <1>1, <2>1, CrashEnd DEF DownOnlyAcked
    <2>2. CASE ~TimerCrash
      <3>1. server_up'
        BY <2>2 DEF Timer, TimerFirst, TimerSleep, TimerTimeout, TimerAt
      <3> QED BY <3>1 DEF DownOnlyAcked
    <2> QED BY <2>1, <2>2
  <1>6. Ended'
    <2>1. \A pkt \in toClient' : pkt \in toClient \/ ~IsTerminal(pkt)
      <3>1. CASE TimerTimeout
        <4>1. PICK k \in unacked_packets : SendPacket(k)
          BY <3>1 DEF TimerTimeout
        <4>2. k \in Seqno /\ IInv
          BY <4>1 DEF EndInv, IInv, TypeOK
        <4> QED BY <4>1, <4>2, SentIsData
      <3>2. CASE TimerFirst \/ TimerCrash \/ TimerSleep
        BY <3>2 DEF TimerFirst, TimerCrash, TimerSleep, netVars
      <3> QED BY <3>1, <3>2 DEF Timer
    <2> QED BY <1>1, <2>1 DEF EndInv, Ended
  <1> QED BY <1>2, <1>4, <1>5, <1>6

\* The client's steps, losses, and none.
LEMMA OtherEnd ==
  ASSUME EndInv, UNCHANGED serverVars, toClient' \subseteq toClient,
         client_done' /\ ~client_cut' =>
           (client_done /\ ~client_cut) \/ \E pkt \in toClient : IsTerminal(pkt),
         Len(file_written') \in Nat, Len(file_written') >= Len(file_written)
  PROVE  Locked' /\ Ended' /\ Started' /\ DownOnlyAcked'
  <1>1. UNCHANGED <<window, next_packet, to_send, worker_pc, unacked_packets, timer_pc,
                    set_mutex, server_up>>
    BY DEF serverVars, sendVars
  <1>2. Locked' /\ Started'
    BY <1>1 DEF EndInv, Locked, Started
  <1>3. Ended'
    BY <1>1 DEF EndInv, Ended
  <1>4. DownOnlyAcked'
    <2>1. next_packet \in Nat /\ Len(file_written) \in Nat
      BY FileFacts DEF EndInv, IInv, TypeOK
    <2> QED BY <1>1, <2>1 DEF EndInv, DownOnlyAcked
  <1> QED BY <1>2, <1>3, <1>4

LEMMA ClientEnd ==
  ASSUME EndInv, Client, UNCHANGED serverVars
  PROVE  Locked' /\ Ended' /\ Started' /\ DownOnlyAcked'
  <1>1. PICK pkt \in toClient : Run(pkt)
    BY DEF Client
  <1>2. /\ toClient' \subseteq toClient
        /\ client_done' /\ ~client_cut' => (client_done /\ ~client_cut) \/ IsTerminal(pkt)
        /\ file_written' = file_written \/ file_written' = Append(file_written, pkt.data)
    BY <1>1 DEF Run, ReceiveExpected, ReceiveOther, ReceiveTerminal, ReceiveOutside,
                ReceiveCorrupted, ReceiveCut, TakeFromServer, clientVars
  <1>3. Len(file_written') \in Nat /\ Len(file_written') >= Len(file_written)
    <2>1. file_written \in Seq(Data) /\ Len(file_written) \in Nat
      BY DEF EndInv, IInv, TypeOK
    <2>2. Len(Append(file_written, pkt.data)) = Len(file_written) + 1
      BY <2>1
    <2> QED BY <1>2, <2>1, <2>2
  <1> QED BY <1>1, <1>2, <1>3, OtherEnd

LEMMA EndInvariance == EndInv /\ [Next]_vars => EndInv'
  <1> SUFFICES ASSUME EndInv, [Next]_vars PROVE EndInv'
    OBVIOUS
  <1>1. IInv'
    BY Invariance DEF EndInv
  <1>2. Locked' /\ Ended' /\ Started' /\ DownOnlyAcked'
    <2>1. CASE Worker /\ UNCHANGED clientVars
      BY <2>1, WorkerEnd
    <2>2. CASE Timer /\ UNCHANGED clientVars
      BY <2>2, TimerEnd
    <2>3. CASE Client /\ UNCHANGED serverVars
      BY <2>3, ClientEnd
    <2>4. CASE UNCHANGED <<serverVars, clientVars>> /\ toClient' \subseteq toClient
      <3>1. UNCHANGED <<serverVars, file_written, client_done, client_cut>>
        BY <2>4 DEF clientVars
      <3>2. Len(file_written) \in Nat
        BY DEF EndInv, IInv, TypeOK
      <3> QED BY <2>4, <3>1, <3>2, OtherEnd
    <2>5. LoseData \/ LoseAck => toClient' \subseteq toClient
      BY DEF LoseData, LoseAck
    <2> QED BY <2>1, <2>2, <2>3, <2>4, <2>5 DEF Next, vars, netVars
  <1>3. CompleteUnlessCut'
    <2>1. CASE Client
      <3>1. PICK pkt \in toClient : Run(pkt)
        BY <2>1 DEF Client
      <3>2. CASE ReceiveTerminal(pkt)
        <4>1. file_written = File
          BY <3>1, <3>2, InFlight DEF ReceiveTerminal, EndInv
        <4> QED BY <3>2, <4>1 DEF ReceiveTerminal, CompleteUnlessCut
      <3>3. CASE ReceiveCut(pkt)
        BY <3>3 DEF ReceiveCut, CompleteUnlessCut
      <3>4. CASE ~ReceiveTerminal(pkt) /\ ~ReceiveCut(pkt)
        <4>1. ~client_done /\ client_done' = client_done
          BY <3>1, <3>4 DEF Run, ReceiveExpected, ReceiveOther, ReceiveOutside,
                            ReceiveCorrupted, clientVars
        <4> QED BY <4>1 DEF CompleteUnlessCut
      <3> QED BY <3>2, <3>3, <3>4
    <2>2. CASE UNCHANGED clientVars
      BY <2>2 DEF EndInv, CompleteUnlessCut, clientVars
    <2> QED BY <2>1, <2>2 DEF Next, vars
  <1> QED BY <1>1, <1>2, <1>3 DEF EndInv

LEMMA EndInvariant == CleanSpec => []EndInv
  BY InitEnd, EndInvariance, PTL DEF CleanSpec

\* handle_time_out, which locks set_mutex twice: one timeout, and the transfer will
\* not be completed, although only ACKs were late.  The client receives no terminal
\* packet; all that may still end its reception is a corrupted one.
THEOREM TimeoutCorrect == CleanSpec => []TimeoutIsFinal
  <1>1. EndInv => TimeoutIsFinal
    <2> SUFFICES ASSUME EndInv, timer_pc = "relock"
                 PROVE  worker_pc # "finished" /\ (client_done => client_cut)
      BY DEF TimeoutIsFinal
    <2>1. ASSUME worker_pc = "finished" PROVE FALSE
      <3>1. window = <<>> /\ acked_run = 0 /\ Sending = 0
        BY <2>1 DEF EndInv, Ended, IInv, WindowInv, Places, Sending
      <3>2. unacked_packets = next_packet..(next_packet - 1) /\ next_packet \in Int
        <4>1. next_packet \in Int /\ Len(window) = 0
          BY <3>1, FileFacts DEF EndInv, IInv, TypeOK
        <4> QED BY <3>1, <4>1 DEF EndInv, IInv, WindowInv, TimerRun
      <3>3. unacked_packets # {}
        BY DEF EndInv, Locked
      <3> QED BY <3>2, <3>3
    <2> QED BY <2>1 DEF EndInv, Ended
  <1> QED BY <1>1, EndInvariant, PTL

\* handle_time_out's begin() of the empty set is met only when the client has
\* written what it was sent.
THEOREM DownCorrect == CleanSpec => []DownOnlyAcked
  <1>1. EndInv => DownOnlyAcked
    BY DEF EndInv
  <1> QED BY <1>1, EndInvariant, PTL

\* "File received fully from server": where the first window does not have the number
\* 2^32 - 1 and nothing of the handshake is in flight, the client says so only when it
\* holds the whole file, or when a corrupted packet has ended the reception.
THEOREM CompleteCorrect == CleanSpec => []CompleteUnlessCut
  <1>1. EndInv => CompleteUnlessCut
    BY DEF EndInv
  <1> QED BY <1>1, EndInvariant, PTL

\* Server, client and network together implement the abstract file transfer, where the
\* first window does not have the number 2^32 - 1 and nothing of the handshake is in
\* flight: the client writes the file in order, and stops with all of it unless a
\* corrupted packet ends the reception.
THEOREM Implements == CleanSpec => AbstractSpec
  <1>1. CleanInit => Abstract!Init
    BY DEF CleanInit, Init, ClientInit, Abstract!Init
  <1>2. IInv /\ [Next]_vars => [Abstract!Next]_(Abstract!vars)
    <2> SUFFICES ASSUME IInv, [Next]_vars
                 PROVE  \/ Abstract!Next
                        \/ UNCHANGED <<file_written, client_done /\ ~client_cut>>
      BY DEF Abstract!vars
    <2>1. CASE UNCHANGED clientVars
      BY <2>1 DEF clientVars
    <2>2. CASE Client /\ UNCHANGED serverVars
      <3>1. PICK pkt \in toClient : Run(pkt)
        BY <2>2 DEF Client
      <3>2. CASE ReceiveExpected(pkt)
        <4>1. \E n \in (Len(file_written) + 1)..Len(File) : file_written' = SubSeq(File, 1, n)
          BY <2>2, <3>2, ReceiveExpectedStep
        <4> QED BY <3>2, <4>1 DEF ReceiveExpected, Abstract!Next, Abstract!Write
      <3>3. CASE ReceiveTerminal(pkt)
        <4>1. file_written = File
          BY <2>2, <3>3, ReceiveQuietStep
        <4> QED BY <3>3, <4>1 DEF ReceiveTerminal, Abstract!Next, Abstract!Stop
      <3>4. CASE ReceiveOther(pkt) \/ ReceiveOutside(pkt) \/ ReceiveCorrupted(pkt)
        BY <3>4 DEF ReceiveOther, ReceiveOutside, ReceiveCorrupted, clientVars
      <3>5. CASE ReceiveCut(pkt)
        <4>1. /\ (client_done /\ ~client_cut) = FALSE /\ (client_done' /\ ~client_cut') = FALSE
              /\ file_written' = file_written
          BY <3>5 DEF ReceiveCut
        <4> QED BY <4>1
      <3> QED BY <3>1, <3>2, <3>3, <3>4, <3>5 DEF Run
    <2> QED BY <2>1, <2>2 DEF Next, vars
  <1> QED BY <1>1, <1>2, Invariant, PTL DEF CleanSpec, AbstractSpec, Abstract!Spec
==============================================================================
