-------------------------- MODULE StopAndWaitProofs --------------------------
(***************************************************************************)
(* The safety of StopAndWaitTransfer for every file and any amount of      *)
(* memory, by the inductive invariant IInv.                                *)
(***************************************************************************)
EXTENDS StopAndWaitTransfer, SequenceTheorems, TLAPS

-----------------------------------------------------------------------------
(* What makes the properties inductive.                                    *)

\* Memory holds packets of the file, once it has held one.
HeapOfFile == File # <<>> => \A a \in Addresses : heap[a].seqno \in Seqno

\* Of an empty file nothing is ever sent again.
EmptyFile == File = <<>> => window = Null /\ timer_pc = "off"

\* What the threads need where they are.
Places ==
  /\ worker_pc \in {"delete", "send"} => window # Null
  /\ worker_pc = "allocate" => window = Null /\ HasNext
  /\ timer_pc \in {"compare", "resend"} => first_unacked_pkt \in Addresses

\* The packet in the window is the one read last, and not deleted.
WindowLive ==
  window # Null => heap[window].live /\ heap[window].seqno = next_seq_number - 1

\* Between two packets there is no window; otherwise none is left to send.
EmptyAtEnd == window = Null /\ worker_pc # "allocate" => next_seq_number = Len(File) + 1

\* What is in flight to the client: the ACK of its request, packets of the
\* file, and the terminal packet once the client has everything before it.
NetSafe ==
  \A pkt \in toClient :
    \/ pkt = RequestAck
    \/ \E seqno \in Seqno : pkt = FilePacket(seqno)
    \/ pkt = DataPacket(NoData, Len(File) + 1) /\ expected_seqno = Len(File) + 1

\* An ACK in flight answers a packet the client has written, or is the request.
AckSafe == \A ackno \in toServer : ackno < expected_seqno

\* The client's file is the part of the file before the expected packet.
Prefix == /\ Len(file_written) = expected_seqno - 1
          /\ file_written = SubSeq(File, 1, expected_seqno - 1)

MemoryInv == HeapOfFile /\ EmptyFile /\ WindowLive /\ OneLivePacket

ThreadInv == Places /\ EmptyAtEnd /\ TimerCovers

IInv == /\ TypeOK
        /\ MemoryInv
        /\ ThreadInv
        /\ NetSafe
        /\ AckSafe
        /\ Prefix
        /\ PoppedIsWritten

-----------------------------------------------------------------------------
LEMMA FileFacts ==
  /\ File \in Seq(Data) /\ Len(File) \in Nat
  /\ File # <<>> <=> Len(File) > 0
  /\ \A n \in Seqno : n \in 1..Len(File) /\ File[n] \in Data /\ File[n] # NoData
  BY FileAssumption, EmptySeq DEF Seqno

\* The datagrams that NetSafe allows have the type of datagrams.
LEMMA DatagramType ==
  LET Datagram == [seqno : 0..(Len(File) + 1), data : Data \cup {NoData}]
  IN  /\ RequestAck \in Datagram
      /\ \A n \in Seqno : FilePacket(n) \in Datagram
      /\ DataPacket(NoData, Len(File) + 1) \in Datagram
  <1>1. \A n \in Seqno : n \in 0..(Len(File) + 1) /\ File[n] \in Data
    BY FileFacts
  <1> QED BY <1>1, FileFacts DEF RequestAck, FilePacket, DataPacket

LEMMA InitInvariant == Init => IInv
  <1> SUFFICES ASSUME Init PROVE IInv
    OBVIOUS
  <1>1. /\ toClient \subseteq {RequestAck} /\ toServer \subseteq {0}
        /\ client_window_size = 1 /\ expected_seqno = 1 /\ client_window = <<>>
        /\ file_written = <<>> /\ client_done = FALSE
        /\ unacked_packets = {} /\ worker_pc = "start" /\ timer_pc = "off"
        /\ first_unacked_pkt = Null /\ server_up = TRUE
    BY ClientWindowIsOne
       DEF Init, NetworkInit, ServerInit, ClientInit, RepeatedRequest
  <1>2. /\ window \in Addresses \cup {Null}
        /\ window = Null <=> File = <<>>
        /\ heap = [a \in Addresses |-> IF a = window THEN Contents(1, TRUE) ELSE Contents(1, FALSE)]
        /\ next_seq_number = IF File = <<>> THEN 1 ELSE 2
    BY AddressAssumption DEF Init, ServerInit
  <1>3. \A a \in Addresses : heap[a].seqno = 1 /\ (heap[a].live <=> a = window)
    BY <1>2 DEF Contents
  <1>4. NetSafe /\ AckSafe
    BY <1>1 DEF NetSafe, AckSafe
  <1>5. TypeOK
    <2>1. 1 \in 1..(Len(File) + 1) /\ next_seq_number \in 1..(Len(File) + 1) /\ 0 \in 0..Len(File)
      BY <1>2, FileFacts
    <2>2. heap \in [Addresses -> [seqno : 1..(Len(File) + 1), live : BOOLEAN]]
      BY <1>2, <2>1 DEF Contents
    <2>3. file_written \in Seq(Data)
      BY <1>1
    <2> QED BY <1>1, <1>2, <2>1, <2>2, <2>3, DatagramType DEF TypeOK, WorkerPC, TimerPC
  <1>6. MemoryInv
    <2>1. HeapOfFile
      BY <1>3, FileFacts DEF HeapOfFile, Seqno
    <2>2. EmptyFile
      BY <1>1, <1>2 DEF EmptyFile
    <2>3. WindowLive
      BY <1>2, <1>3, 2 - 1 = 1 DEF WindowLive
    <2>4. OneLivePacket
      <3>1. \A a \in Addresses : a = window => next_seq_number - 1 = 1
        BY <1>2, AddressAssumption
      <3> QED BY <1>3, <3>1 DEF OneLivePacket
    <2> QED BY <2>1, <2>2, <2>3, <2>4 DEF MemoryInv
  <1>7. ThreadInv
    BY <1>1, <1>2, FileFacts DEF ThreadInv, Places, EmptyAtEnd, TimerCovers
  <1>8. Prefix
    BY <1>1, FileFacts, SubSeqEmpty DEF Prefix
  <1>9. PoppedIsWritten
    BY <1>1, <1>2, <1>3 DEF PoppedIsWritten
  <1> QED BY <1>4, <1>5, <1>6, <1>7, <1>8, <1>9 DEF IInv

-----------------------------------------------------------------------------
(* The server's steps.                                                     *)

\* Steps that leave the packets alone.
LEMMA QuietPreserves ==
  ASSUME IInv, UNCHANGED <<memoryVars, clientVars>>,
         NetSafe', toServer' \subseteq toServer,
         unacked_packets' \subseteq Addresses,
         worker_pc' \in WorkerPC, timer_pc' \in TimerPC,
         first_unacked_pkt' \in Addresses \cup {Null}, server_up' \in BOOLEAN,
         EmptyFile', Places', EmptyAtEnd', TimerCovers',
         worker_pc' = "delete" => worker_pc = "delete" \/ heap[window].seqno < expected_seqno
  PROVE  IInv'
  <1>1. TypeOK'
    <2>1. toClient' \subseteq [seqno : 0..(Len(File) + 1), data : Data \cup {NoData}]
      BY DatagramType DEF NetSafe
    <2> QED BY <2>1 DEF IInv, TypeOK, memoryVars, clientVars
  <1>2. MemoryInv'
    BY DEF IInv, MemoryInv, HeapOfFile, WindowLive, OneLivePacket, memoryVars
  <1>3. ThreadInv'
    BY DEF ThreadInv
  <1>4. AckSafe' /\ Prefix'
    BY DEF IInv, AckSafe, Prefix, clientVars
  <1>5. PoppedIsWritten'
    BY DEF IInv, PoppedIsWritten, memoryVars, clientVars
  <1> QED BY <1>1, <1>2, <1>3, <1>4, <1>5 DEF IInv

\* A packet in the memory of a file that is not empty may always be sent.
LEMMA SendSafe ==
  ASSUME IInv, File # <<>>, NEW a \in Addresses, Send(a), UNCHANGED clientVars
  PROVE  NetSafe' /\ unacked_packets' = unacked_packets \cup {a}
  <1>1. heap[a].seqno \in Seqno
    BY DEF IInv, MemoryInv, HeapOfFile
  <1>2. /\ toClient' = toClient \cup {FilePacket(heap[a].seqno)}
        /\ unacked_packets' = unacked_packets \cup {a}
    BY DEF Send, SendToClient, Insert
  <1> QED BY <1>1, <1>2 DEF IInv, NetSafe, clientVars

LEMMA Fewer ==
  ASSUME IInv, toClient' \subseteq toClient, UNCHANGED clientVars
  PROVE  NetSafe'
  BY DEF IInv, NetSafe, clientVars

LEMMA EraseEffect ==
  ASSUME NEW a, Erase(a)
  PROVE  unacked_packets' \in {unacked_packets, unacked_packets \ {a}}
  BY DEF Erase

LEMMA StartStep ==
  ASSUME IInv, Start, UNCHANGED clientVars
  PROVE  IInv'
  <1>1. /\ worker_pc = "start" /\ worker_pc' = "idle"
        /\ UNCHANGED <<memoryVars, toServer, first_unacked_pkt, server_up>>
    BY DEF Start, WorkerAt
  <1>2. TypeOK /\ worker_pc' \in WorkerPC
    BY <1>1 DEF IInv, WorkerPC
  <1>3. CASE window = Null
    <2>1. UNCHANGED <<unacked_packets, toClient, timer_pc>>
      BY <1>3 DEF Start
    <2>2. EmptyFile' /\ Places' /\ EmptyAtEnd' /\ TimerCovers'
      BY <1>1, <1>3, <2>1
         DEF IInv, MemoryInv, ThreadInv, EmptyFile, Places, EmptyAtEnd, TimerCovers, memoryVars
    <2> QED BY <1>1, <1>2, <2>1, <2>2, Fewer, QuietPreserves DEF TypeOK
  <1>4. CASE window # Null
    <2>1. window \in Addresses /\ File # <<>> /\ Send(window) /\ timer_pc' = "check"
      BY <1>2, <1>4 DEF Start, TypeOK, IInv, MemoryInv, EmptyFile
    <2>2. NetSafe' /\ unacked_packets' = unacked_packets \cup {window}
      BY <2>1, SendSafe
    <2>3. EmptyFile' /\ Places' /\ EmptyAtEnd' /\ TimerCovers'
      BY <1>1, <1>4, <2>1, <2>2
         DEF EmptyFile, Places, EmptyAtEnd, TimerCovers, memoryVars
    <2>4. timer_pc' \in TimerPC
      BY <2>1 DEF TimerPC
    <2> QED BY <1>1, <1>2, <2>1, <2>2, <2>3, <2>4, QuietPreserves DEF TypeOK
  <1> QED BY <1>3, <1>4

LEMMA SendNextStep ==
  ASSUME IInv, SendNext, UNCHANGED clientVars
  PROVE  IInv'
  <1>1. /\ worker_pc = "send" /\ worker_pc' = "idle" /\ Send(window)
        /\ UNCHANGED <<memoryVars, toServer, timer_pc, first_unacked_pkt, server_up>>
    BY DEF SendNext, WorkerAt
  <1>2. TypeOK /\ worker_pc' \in WorkerPC
    BY <1>1 DEF IInv, WorkerPC
  <1>3. window \in Addresses /\ window # Null /\ File # <<>>
    BY <1>1, <1>2 DEF IInv, TypeOK, ThreadInv, Places, MemoryInv, EmptyFile
  <1>4. NetSafe' /\ unacked_packets' = unacked_packets \cup {window}
    BY <1>1, <1>3, SendSafe
  <1>5. EmptyFile' /\ Places' /\ EmptyAtEnd' /\ TimerCovers'
    BY <1>1, <1>3, <1>4
       DEF IInv, ThreadInv, EmptyFile, Places, EmptyAtEnd, TimerCovers, memoryVars
  <1> QED BY <1>1, <1>2, <1>3, <1>4, <1>5, QuietPreserves DEF TypeOK

\* The ACK of the packet in the window: the client has written the packet.
LEMMA AckNewStep ==
  ASSUME IInv, NEW ackno, AckNew(ackno), UNCHANGED clientVars
  PROVE  IInv'
  <1>1. /\ worker_pc = "idle" /\ worker_pc' = "delete" /\ window # Null
        /\ ackno \in toServer /\ ackno = heap[window].seqno
        /\ toServer' \subseteq toServer
        /\ UNCHANGED <<memoryVars, toClient, timer_pc, first_unacked_pkt, server_up>>
    BY DEF AckNew, WorkerAt, TakeFromClient, Acknowledges
  <1>2. unacked_packets' \in {unacked_packets, unacked_packets \ {window}}
    BY EraseEffect DEF AckNew
  <1>3. TypeOK /\ worker_pc' \in WorkerPC /\ heap[window].seqno < expected_seqno
    BY <1>1 DEF IInv, WorkerPC, AckSafe
  <1>4. EmptyFile' /\ Places' /\ EmptyAtEnd' /\ TimerCovers'
    BY <1>1 DEF IInv, MemoryInv, ThreadInv, EmptyFile, Places, EmptyAtEnd, TimerCovers, memoryVars
  <1> QED BY <1>1, <1>2, <1>3, <1>4, Fewer, QuietPreserves DEF TypeOK

\* Steps that change neither the memory nor the timer's set.
LEMMA AckIgnoredStep ==
  ASSUME IInv, NEW ackno, AckIgnored(ackno), UNCHANGED clientVars
  PROVE  IInv'
  <1>1. /\ worker_pc' = worker_pc /\ toServer' \subseteq toServer
        /\ UNCHANGED <<memoryVars, unacked_packets, toClient, timer_pc, first_unacked_pkt,
                       server_up>>
    BY DEF AckIgnored, WorkerAt, TakeFromClient
  <1>2. EmptyFile' /\ Places' /\ EmptyAtEnd' /\ TimerCovers'
    BY <1>1 DEF IInv, MemoryInv, ThreadInv, EmptyFile, Places, EmptyAtEnd, TimerCovers,
                HasNext, memoryVars
  <1> QED BY <1>1, <1>2, Fewer, QuietPreserves DEF IInv, TypeOK

LEMMA DeleteStep ==
  ASSUME IInv, Delete, UNCHANGED clientVars
  PROVE  IInv'
  <1>1. /\ worker_pc = "delete" /\ worker_pc' = (IF HasNext THEN "allocate" ELSE "idle")
        /\ heap' = [heap EXCEPT ![window].live = FALSE] /\ window' = Null
        /\ UNCHANGED <<unacked_packets, next_seq_number, timer_pc, netVars, first_unacked_pkt,
                       server_up>>
    BY DEF Delete, WorkerAt, Free
  <1>2. TypeOK /\ window \in Addresses /\ window # Null
    BY <1>1 DEF IInv, TypeOK, ThreadInv, Places
  <1>3. /\ heap' \in [Addresses -> [seqno : 1..(Len(File) + 1), live : BOOLEAN]]
        /\ \A a \in Addresses : /\ heap'[a].seqno = heap[a].seqno
                                /\ heap'[a].live = (heap[a].live /\ a # window)
    BY <1>1, <1>2 DEF TypeOK
  <1>4. heap[window].seqno = next_seq_number - 1 /\ heap[window].seqno < expected_seqno
    BY <1>1, <1>2 DEF IInv, MemoryInv, WindowLive, PoppedIsWritten
  <1>5. TypeOK'
    BY <1>1, <1>2, <1>3 DEF TypeOK, netVars, clientVars, WorkerPC
  <1>6. MemoryInv'
    <2>1. HeapOfFile' /\ EmptyFile' /\ WindowLive'
      BY <1>1, <1>3 DEF IInv, MemoryInv, HeapOfFile, EmptyFile, WindowLive
    <2>2. \A a \in Addresses : ~heap'[a].live
      BY <1>3 DEF IInv, MemoryInv, OneLivePacket
    <2>3. OneLivePacket'
      BY <1>1, <2>2, AddressAssumption DEF OneLivePacket
    <2> QED BY <2>1, <2>3 DEF MemoryInv
  <1>7. ThreadInv'
    <2>1. EmptyAtEnd'
      BY <1>1, <1>2, FileFacts DEF EmptyAtEnd, HasNext, TypeOK
    <2>2. Places' /\ TimerCovers'
      BY <1>1 DEF IInv, ThreadInv, Places, TimerCovers, HasNext
    <2> QED BY <2>1, <2>2 DEF ThreadInv
  <1>8. PoppedIsWritten'
    BY <1>1, <1>2, <1>4 DEF PoppedIsWritten, TypeOK, clientVars
  <1>9. NetSafe' /\ AckSafe' /\ Prefix'
    BY <1>1 DEF IInv, NetSafe, AckSafe, Prefix, netVars, clientVars
  <1> QED BY <1>5, <1>6, <1>7, <1>8, <1>9 DEF IInv

LEMMA AllocateStep ==
  ASSUME IInv, Allocate, UNCHANGED clientVars
  PROVE  IInv'
  <1>1. /\ worker_pc = "allocate" /\ worker_pc' = "send"
        /\ next_seq_number' = next_seq_number + 1
        /\ UNCHANGED <<unacked_packets, timer_pc, netVars, first_unacked_pkt, server_up>>
    BY DEF Allocate, WorkerAt
  <1>2. PICK b \in Addresses : /\ ~heap[b].live
                               /\ heap' = [heap EXCEPT ![b] = Contents(next_seq_number, TRUE)]
                               /\ window' = b
    BY DEF Allocate, Stale
  <1>3. TypeOK /\ window = Null /\ next_seq_number \in 1..Len(File)
    BY <1>1, FileFacts DEF IInv, TypeOK, ThreadInv, Places, HasNext
  <1>4. /\ heap' \in [Addresses -> [seqno : 1..(Len(File) + 1), live : BOOLEAN]]
        /\ heap'[b].seqno = next_seq_number /\ heap'[b].live
        /\ \A a \in Addresses : a # b => heap'[a] = heap[a]
    BY <1>2, <1>3, FileFacts DEF TypeOK, Contents
  <1>5. TypeOK'
    <2>1. next_seq_number' \in 1..(Len(File) + 1)
      BY <1>1, <1>3, FileFacts
    <2> QED BY <1>1, <1>2, <1>3, <1>4, <2>1 DEF TypeOK, netVars, clientVars, WorkerPC
  <1>6. MemoryInv'
    <2>1. HeapOfFile'
      BY <1>3, <1>4 DEF IInv, MemoryInv, HeapOfFile, Seqno
    <2>2. File # <<>>
      BY <1>3, FileFacts
    <2>3. WindowLive'
      <3>1. next_seq_number' - 1 = next_seq_number
        BY <1>1, <1>3, FileFacts
      <3> QED BY <1>2, <1>4, <3>1 DEF WindowLive
    <2>4. \A a \in Addresses : ~heap[a].live
      BY <1>3, AddressAssumption DEF IInv, MemoryInv, OneLivePacket
    <2>5. OneLivePacket'
      <3>1. next_seq_number' - 1 = next_seq_number
        BY <1>1, <1>3, FileFacts
      <3> QED BY <1>2, <1>4, <2>4, <3>1 DEF OneLivePacket
    <2> QED BY <2>1, <2>2, <2>3, <2>5 DEF MemoryInv, EmptyFile
  <1>7. ThreadInv'
    BY <1>1, <1>2, AddressAssumption DEF IInv, ThreadInv, Places, EmptyAtEnd, TimerCovers
  <1>8. PoppedIsWritten'
    BY <1>1, <1>2, <1>3, <1>4, AddressAssumption DEF IInv, PoppedIsWritten, clientVars
  <1>9. NetSafe' /\ AckSafe' /\ Prefix'
    BY <1>1 DEF IInv, NetSafe, AckSafe, Prefix, netVars, clientVars
  <1> QED BY <1>5, <1>6, <1>7, <1>8, <1>9 DEF IInv

\* The terminal packet leaves when the client has the whole file.
LEMMA FinishStep ==
  ASSUME IInv, Finish, UNCHANGED clientVars
  PROVE  IInv'
  <1>1. /\ worker_pc = "idle" /\ worker_pc' = "finished" /\ window = Null
        /\ toClient' = toClient \cup {DataPacket(NoData, next_seq_number)}
        /\ UNCHANGED <<memoryVars, unacked_packets, toServer, timer_pc, first_unacked_pkt,
                       server_up>>
    BY DEF Finish, WorkerAt, SendToClient
  <1>2. next_seq_number = Len(File) + 1 /\ next_seq_number <= expected_seqno
    BY <1>1 DEF IInv, ThreadInv, EmptyAtEnd, PoppedIsWritten
  <1>3. expected_seqno = Len(File) + 1
    BY <1>2, FileFacts DEF IInv, TypeOK
  <1>4. NetSafe'
    BY <1>1, <1>2, <1>3 DEF IInv, NetSafe, clientVars
  <1>5. EmptyFile' /\ Places' /\ EmptyAtEnd' /\ TimerCovers'
    BY <1>1, <1>2 DEF IInv, MemoryInv, ThreadInv, EmptyFile, Places, EmptyAtEnd, TimerCovers,
                      memoryVars
  <1>6. worker_pc' \in WorkerPC
    BY <1>1 DEF WorkerPC
  <1> QED BY <1>1, <1>4, <1>5, <1>6, QuietPreserves DEF IInv, TypeOK

LEMMA WorkerStep ==
  ASSUME IInv, Worker, UNCHANGED clientVars
  PROVE  IInv'
  BY StartStep, DeleteStep, AllocateStep, SendNextStep, FinishStep, AckNewStep, AckIgnoredStep
     DEF Worker

\* Steps of the timer thread that do not send.
LEMMA TimerPreserves ==
  ASSUME IInv, UNCHANGED <<memoryVars, clientVars, netVars, worker_pc>>,
         unacked_packets' \in {unacked_packets, unacked_packets \ {first_unacked_pkt}},
         timer_pc # "off", timer_pc' \in TimerPC, server_up' \in BOOLEAN,
         first_unacked_pkt' \in Addresses \cup {Null},
         timer_pc' \in {"compare", "resend"} => first_unacked_pkt' \in Addresses,
         unacked_packets' = unacked_packets \/ timer_pc' = "resend",
         \/ UNCHANGED <<timer_pc, first_unacked_pkt>>
         \/ timer_pc # "resend" /\ (timer_pc' = "resend" => UNCHANGED first_unacked_pkt)
  PROVE  IInv'
  <1>1. EmptyFile'
    BY DEF IInv, MemoryInv, EmptyFile, memoryVars
  <1>2. Places' /\ EmptyAtEnd' /\ TimerCovers'
    BY DEF IInv, ThreadInv, Places, EmptyAtEnd, TimerCovers, HasNext, memoryVars
  <1>3. unacked_packets' \subseteq Addresses /\ worker_pc' \in WorkerPC
    BY DEF IInv, TypeOK
  <1>4. NetSafe' /\ toServer' \subseteq toServer
    BY Fewer DEF netVars
  <1> QED BY <1>1, <1>2, <1>3, <1>4, QuietPreserves

\* What the timer thread sends is in its set again, live or not.
LEMMA TimerResendStep ==
  ASSUME IInv, TimerResend \/ TimerResendGarbage, UNCHANGED clientVars
  PROVE  IInv'
  <1>1. /\ timer_pc = "resend" /\ timer_pc' = "check"
        /\ UNCHANGED <<memoryVars, worker_pc, server_up, toServer, first_unacked_pkt>>
    BY DEF TimerResend, TimerResendGarbage, TimerAt, netVars
  <1>2. first_unacked_pkt \in Addresses /\ File # <<>> /\ TypeOK
    BY <1>1 DEF IInv, ThreadInv, Places, MemoryInv, EmptyFile
  <1>3. NetSafe' /\ unacked_packets' = unacked_packets \cup {first_unacked_pkt}
    <2>1. CASE TimerResend
      BY <1>2, <2>1, SendSafe DEF TimerResend
    <2>2. CASE TimerResendGarbage
      BY <2>2, Fewer DEF TimerResendGarbage, Insert, netVars
    <2> QED BY <2>1, <2>2
  <1>4. EmptyFile' /\ Places' /\ EmptyAtEnd' /\ TimerCovers'
    BY <1>1, <1>2, <1>3
       DEF IInv, ThreadInv, EmptyFile, Places, EmptyAtEnd, TimerCovers, HasNext, memoryVars
  <1>5. timer_pc' \in TimerPC
    BY <1>1 DEF TimerPC
  <1> QED BY <1>1, <1>2, <1>3, <1>4, <1>5, QuietPreserves DEF TypeOK

LEMMA TimerStep ==
  ASSUME IInv, Timer, UNCHANGED clientVars
  PROVE  IInv'
  <1>1. /\ timer_pc \in TimerPC /\ first_unacked_pkt \in Addresses \cup {Null}
        /\ server_up \in BOOLEAN /\ unacked_packets \subseteq Addresses
        /\ timer_pc = "compare" => first_unacked_pkt \in Addresses
    BY DEF IInv, TypeOK, ThreadInv, Places
  <1>2. CASE TimerCheck
    BY <1>1, <1>2, TimerPreserves DEF TimerCheck, TimerAt, TimerPC
  <1>3. ASSUME NEW a \in Addresses, TimerFirst(a) PROVE IInv'
    BY <1>1, <1>3, TimerPreserves DEF TimerFirst, TimerAt, TimerPC
  <1>4. CASE TimerSleep
    BY <1>1, <1>4, TimerPreserves DEF TimerSleep, TimerAt, TimerPC
  <1>5. CASE TimerExpire
    BY <1>1, <1>5, TimerPreserves, EraseEffect DEF TimerExpire, TimerAt, TimerPC
  <1>6. CASE TimerResend \/ TimerResendGarbage
    BY <1>6, TimerResendStep
  <1>7. CASE TimerCrash
    <2>1. timer_pc' \in {"compare", "resend"} => first_unacked_pkt' \in Addresses
      BY <1>7 DEF TimerCrash, IInv, ThreadInv, Places
    <2> QED BY <1>1, <1>7, <2>1, TimerPreserves DEF TimerCrash
  <1> QED BY <1>2, <1>3, <1>4, <1>5, <1>6, <1>7 DEF Timer

LEMMA LossStep ==
  ASSUME IInv, toClient' \subseteq toClient, toServer' \subseteq toServer,
         UNCHANGED <<serverVars, clientVars>>
  PROVE  IInv'
  <1>1. UNCHANGED <<memoryVars, unacked_packets, worker_pc, timer_pc, first_unacked_pkt, server_up>>
    BY DEF serverVars, threadVars
  <1>2. EmptyFile' /\ Places' /\ EmptyAtEnd' /\ TimerCovers'
    BY <1>1 DEF IInv, MemoryInv, ThreadInv, EmptyFile, Places, EmptyAtEnd, TimerCovers,
                HasNext, memoryVars
  <1> QED BY <1>1, <1>2, Fewer, QuietPreserves DEF IInv, TypeOK

-----------------------------------------------------------------------------
(* The client's steps.                                                     *)

\* What the server relies on is that the client goes on.
LEMMA ClientPreserves ==
  ASSUME IInv, UNCHANGED <<serverVars, client_window_size, client_window>>,
         toClient' \subseteq toClient, toServer' \subseteq 0..Len(File),
         expected_seqno' \in 1..(Len(File) + 1), expected_seqno <= expected_seqno',
         file_written' \in Seq(Data), client_done' \in BOOLEAN,
         AckSafe', Prefix'
  PROVE  IInv'
  <1>1. TypeOK'
    BY DEF IInv, TypeOK, serverVars, memoryVars, threadVars
  <1>2. MemoryInv'
    BY DEF IInv, MemoryInv, HeapOfFile, EmptyFile, WindowLive, OneLivePacket, serverVars,
           memoryVars, threadVars
  <1>3. ThreadInv'
    BY DEF IInv, ThreadInv, Places, EmptyAtEnd, TimerCovers, HasNext, serverVars, memoryVars,
           threadVars
  <1>4. expected_seqno \in Int /\ expected_seqno' \in Int /\ Len(File) \in Nat
    BY FileFacts DEF IInv, TypeOK
  <1>5. NetSafe'
    <2>1. expected_seqno = Len(File) + 1 => expected_seqno' = Len(File) + 1
      BY <1>4
    <2> QED BY <2>1 DEF IInv, NetSafe
  <1>6. PoppedIsWritten'
    <2>1. \A n \in Int : /\ n <= expected_seqno => n <= expected_seqno'
                         /\ n < expected_seqno => n < expected_seqno'
      BY <1>4
    <2>2. window # Null => heap[window].seqno \in Int
      BY <1>4 DEF IInv, TypeOK
    <2>3. next_seq_number \in Int
      BY <1>4 DEF IInv, TypeOK
    <2>4. worker_pc = "delete" => window # Null
      BY DEF IInv, ThreadInv, Places
    <2> QED BY <2>1, <2>2, <2>3, <2>4
            DEF IInv, PoppedIsWritten, serverVars, memoryVars, threadVars
  <1> QED BY <1>1, <1>2, <1>3, <1>5, <1>6 DEF IInv

\* What the client can act upon.
LEMMA InFlight ==
  ASSUME IInv, NEW pkt \in toClient
  PROVE  /\ pkt.seqno \in 0..(Len(File) + 1)
         /\ InWindow(pkt.seqno) => pkt.seqno = expected_seqno
         /\ InWindow(pkt.seqno) /\ ~IsTerminal(pkt) =>
              pkt.seqno \in Seqno /\ pkt.data = File[pkt.seqno]
         /\ InWindow(pkt.seqno) /\ IsTerminal(pkt) => expected_seqno = Len(File) + 1
  <1>1. /\ pkt.seqno \in 0..(Len(File) + 1)
        /\ client_window_size = 1
        /\ expected_seqno \in 1..(Len(File) + 1)
    BY DEF IInv, TypeOK
  <1>2. InWindow(pkt.seqno) => pkt.seqno = expected_seqno
    BY <1>1, FileFacts DEF InWindow
  <1>3. CASE pkt = RequestAck
    <2>1. pkt.seqno = 0
      BY <1>3 DEF RequestAck, DataPacket
    <2> QED BY <1>1, <1>2, <2>1
  <1>4. CASE \E n \in Seqno : pkt = FilePacket(n)
    <2> PICK n \in Seqno : pkt = FilePacket(n)
      BY <1>4
    <2>1. pkt.seqno = n /\ pkt.data = File[n] /\ File[n] # NoData
      BY FileFacts DEF FilePacket, DataPacket
    <2> QED BY <1>1, <1>2, <2>1 DEF IsTerminal
  <1>5. CASE pkt = DataPacket(NoData, Len(File) + 1) /\ expected_seqno = Len(File) + 1
    <2>1. IsTerminal(pkt)
      BY <1>5 DEF IsTerminal, DataPacket
    <2> QED BY <1>1, <1>2, <1>5, <2>1
  <1> QED BY <1>3, <1>4, <1>5 DEF IInv, NetSafe

\* The expected packet is written at once: with a window of one, deliver_buffered_packets
\* delivers that packet, and none is ever buffered.
LEMMA ReceiveNewStep ==
  ASSUME IInv, NEW pkt, ReceiveNew(pkt), UNCHANGED serverVars
  PROVE  /\ IInv'
         /\ \E n \in (Len(file_written) + 1)..Len(File) : file_written' = SubSeq(File, 1, n)
  <1> DEFINE e == expected_seqno
  <1>1. /\ ~client_done /\ pkt \in toClient /\ toClient' \subseteq toClient
        /\ InWindow(pkt.seqno) /\ ~IsTerminal(pkt)
        /\ toServer' = toServer \cup {pkt.seqno}
        /\ UNCHANGED <<client_done, client_window_size>>
    BY DEF ReceiveNew, TakeFromServer, SendToServer
  <1>2. pkt.seqno = e /\ e \in Seqno /\ pkt.data = File[e]
    BY <1>1, InFlight
  <1>3. /\ TypeOK /\ client_window = <<>> /\ client_window_size = 1 /\ e \in 1..Len(File)
        /\ Len(File) \in Nat /\ file_written \in Seq(Data) /\ toServer \subseteq 0..Len(File)
        /\ Len(file_written) = e - 1 /\ file_written = SubSeq(File, 1, e - 1)
    BY <1>2, FileFacts DEF IInv, TypeOK, Prefix, Seqno
  <1>4. DeliverBuffered(Buffer(pkt))
    BY <1>2 DEF ReceiveNew
  <1>5. DOMAIN Buffer(pkt) = {e} /\ Buffer(pkt)[e] = File[e]
    BY <1>2, <1>3 DEF Buffer
  <1>6. PICK n \in 0..1 : /\ e..(e + n - 1) \subseteq {e} /\ e + n \notin {e}
                          /\ file_written' = file_written \o Delivered(Buffer(pkt), n)
                          /\ client_window' = [s \in {e} \ (e..(e + n - 1)) |-> Buffer(pkt)[s]]
                          /\ expected_seqno' = e + n
    BY <1>3, <1>4, <1>5 DEF DeliverBuffered
  <1>7. n = 1
    BY <1>3, <1>6
  <1>8. expected_seqno' = e + 1 /\ client_window' = <<>>
    <2>1. {e} \ (e..(e + n - 1)) = {}
      BY <1>3, <1>7
    <2>2. client_window' = [s \in 1..0 |-> Buffer(pkt)[s]]
      BY <1>6, <2>1
    <2>3. client_window' \in Seq(Data) /\ Len(client_window') = 0
      BY <2>2
    <2> QED BY <1>6, <1>7, <2>3, EmptySeq
  <1>9. file_written' = SubSeq(File, 1, e)
    <2>1. Delivered(Buffer(pkt), n) = <<File[e]>>
      <3>1. \A i \in 1..1 : e + i - 1 = e
        BY <1>3
      <3>2. Delivered(Buffer(pkt), n) = [i \in 1..1 |-> File[e]]
        BY <1>5, <1>7, <3>1 DEF Delivered
      <3> QED BY <3>2
    <2>2. File[e] \in Data
      BY <1>2, FileFacts
    <2>3. SubSeq(File, e, e) = <<File[e]>>
      <3>1. /\ SubSeq(File, e, e) \in Seq(Data) /\ Len(SubSeq(File, e, e)) = 1
            /\ SubSeq(File, e, e)[1] = File[e]
        BY <1>3, <2>2, SubSeqProperties
      <3>2. /\ <<File[e]>> \in Seq(Data) /\ Len(<<File[e]>>) = 1
            /\ <<File[e]>>[1] = File[e]
        BY <2>2
      <3>3. \A i \in 1..1 : SubSeq(File, e, e)[i] = <<File[e]>>[i]
        BY <3>1, <3>2
      <3> QED BY <3>1, <3>2, <3>3, SeqEqual
    <2>4. SubSeq(File, 1, e - 1) \o SubSeq(File, (e - 1) + 1, e) = SubSeq(File, 1, e)
      BY <1>3, FileFacts, ConcatAdjacentSubSeq
    <2>5. (e - 1) + 1 = e
      BY <1>3
    <2> QED BY <1>3, <1>6, <2>1, <2>3, <2>4, <2>5
  <1>10. file_written' \in Seq(Data) /\ Len(file_written') = e
    <2>1. \A i \in 1..e : File[i] \in Data
      BY <1>3, FileFacts DEF Seqno
    <2> QED BY <1>3, <1>9, <2>1, FileFacts, SubSeqProperties
  <1>11. Prefix' /\ AckSafe'
    <2>1. expected_seqno' - 1 = e
      BY <1>3, <1>8
    <2>2. \A a \in toServer' : a < e + 1
      <3>1. \A a \in toServer : a < e /\ a \in Int
        BY <1>3 DEF IInv, AckSafe
      <3> QED BY <1>1, <1>2, <1>3, <3>1
    <2> QED BY <1>8, <1>9, <1>10, <2>1, <2>2 DEF Prefix, AckSafe
  <1>12. /\ expected_seqno' \in 1..(Len(File) + 1) /\ e <= expected_seqno'
         /\ toServer' \subseteq 0..Len(File) /\ client_done' \in BOOLEAN
    BY <1>1, <1>2, <1>3, <1>8 DEF TypeOK
  <1>13. UNCHANGED <<serverVars, client_window_size, client_window>>
    BY <1>1, <1>3, <1>8
  <1>14. IInv'
    BY <1>1, <1>10, <1>11, <1>12, <1>13, ClientPreserves
  <1>15. e \in (Len(file_written) + 1)..Len(File)
    BY <1>3
  <1> QED BY <1>9, <1>14, <1>15

\* Steps in which the client's file stays as it is.
LEMMA ClientKeeps ==
  ASSUME IInv, UNCHANGED <<serverVars, client_window_size, client_window, expected_seqno,
                           file_written>>,
         toClient' \subseteq toClient, client_done' \in BOOLEAN,
         toServer' \subseteq 0..Len(File), AckSafe'
  PROVE  IInv'
  <1>1. /\ expected_seqno' \in 1..(Len(File) + 1) /\ expected_seqno <= expected_seqno'
        /\ file_written' \in Seq(Data)
    BY FileFacts DEF IInv, TypeOK
  <1>2. Prefix'
    BY DEF IInv, Prefix
  <1> QED BY <1>1, <1>2, ClientPreserves

LEMMA ReceiveOldStep ==
  ASSUME IInv, NEW pkt, ReceiveOld(pkt), UNCHANGED serverVars
  PROVE  IInv'
  <1>1. /\ pkt \in toClient /\ toClient' \subseteq toClient /\ pkt.seqno < expected_seqno
        /\ toServer' = toServer \cup {pkt.seqno} /\ UNCHANGED clientVars
    BY DEF ReceiveOld, AckAgain, TakeFromServer, SendToServer
  <1>2. pkt.seqno \in 0..Len(File)
    BY <1>1, InFlight, FileFacts DEF IInv, TypeOK
  <1>3. toServer' \subseteq 0..Len(File) /\ AckSafe' /\ client_done' \in BOOLEAN
    BY <1>1, <1>2 DEF IInv, TypeOK, AckSafe, clientVars
  <1> QED BY <1>1, <1>3, ClientKeeps DEF clientVars

LEMMA ReceiveTerminalStep ==
  ASSUME IInv, NEW pkt, ReceiveTerminal(pkt), UNCHANGED serverVars
  PROVE  IInv' /\ file_written = File
  <1>1. /\ pkt \in toClient /\ toClient' \subseteq toClient
        /\ InWindow(pkt.seqno) /\ IsTerminal(pkt) /\ client_done' = TRUE
        /\ UNCHANGED <<client_window_size, expected_seqno, client_window, file_written, toServer>>
    BY DEF ReceiveTerminal, EndsReception, TakeFromServer
  <1>2. expected_seqno = Len(File) + 1
    BY <1>1, InFlight
  <1>3. file_written = File
    <2>1. expected_seqno - 1 = Len(File)
      BY <1>2, FileFacts
    <2> QED BY <2>1, FileFacts, SubSeqFull DEF IInv, Prefix
  <1>4. AckSafe' /\ toServer' \subseteq 0..Len(File) /\ client_done' \in BOOLEAN
    BY <1>1 DEF IInv, TypeOK, AckSafe
  <1> QED BY <1>1, <1>3, <1>4, ClientKeeps

LEMMA ReceiveDroppedStep ==
  ASSUME IInv, NEW pkt, ReceiveFar(pkt) \/ ReceiveCorrupted(pkt), UNCHANGED serverVars
  PROVE  IInv' /\ UNCHANGED clientVars
  <1>1. toClient' \subseteq toClient /\ UNCHANGED <<clientVars, toServer>>
    BY DEF ReceiveFar, Drop, ReceiveCorrupted, TakeFromServer
  <1>2. AckSafe' /\ toServer' \subseteq 0..Len(File) /\ client_done' \in BOOLEAN
    BY <1>1 DEF IInv, TypeOK, AckSafe, clientVars
  <1> QED BY <1>1, <1>2, ClientKeeps DEF clientVars

LEMMA ClientStep ==
  ASSUME IInv, Client, UNCHANGED serverVars
  PROVE  IInv'
  BY ReceiveNewStep, ReceiveOldStep, ReceiveTerminalStep, ReceiveDroppedStep DEF Client

LEMMA Invariance == IInv /\ [Next]_vars => IInv'
  <1> SUFFICES ASSUME IInv, [Next]_vars PROVE IInv'
    OBVIOUS
  <1>1. CASE Worker /\ UNCHANGED clientVars
    BY <1>1, WorkerStep
  <1>2. CASE Timer /\ UNCHANGED clientVars
    BY <1>2, TimerStep
  <1>3. CASE Client /\ UNCHANGED serverVars
    BY <1>3, ClientStep
  <1>4. CASE (LoseData \/ LoseAck) /\ UNCHANGED <<serverVars, clientVars>>
    BY <1>4, LossStep DEF LoseData, LoseAck
  <1>5. CASE UNCHANGED vars
    BY <1>5, LossStep DEF vars, netVars
  <1> QED BY <1>1, <1>2, <1>3, <1>4, <1>5 DEF Next

LEMMA Invariant == Spec => []IInv
  BY InitInvariant, Invariance, PTL DEF Spec

-----------------------------------------------------------------------------
(* When the timer thread may bring the server down.                        *)

\* Before the first packet is popped there is no other for the timer thread to
\* point to.
FirstPacket ==
  window # Null /\ next_seq_number = 2 =>
    /\ unacked_packets \subseteq {window}
    /\ worker_pc \in {"start", "idle", "delete"}
    /\ worker_pc = "start" => timer_pc = "off"
    /\ timer_pc \in {"compare", "resend"} => first_unacked_pkt = window

\* The constructor reads the first packet.
Begun == File # <<>> => next_seq_number > 1

DownInv == FirstPacket /\ Begun /\ DownOnlyAfterAck

LEMMA InitDown == Init => DownInv
  <1> SUFFICES ASSUME Init PROVE DownInv
    OBVIOUS
  <1>1. /\ server_up /\ unacked_packets = {} /\ worker_pc = "start" /\ timer_pc = "off"
        /\ File # <<>> => next_seq_number = 2
    BY DEF Init, ServerInit
  <1> QED BY <1>1 DEF DownInv, FirstPacket, Begun, DownOnlyAfterAck

\* Nobody unwrites what the client has.
LEMMA WrittenGrows ==
  ASSUME IInv, [Next]_vars
  PROVE  expected_seqno' >= expected_seqno /\ expected_seqno \in Nat /\ expected_seqno' \in Nat
  <1>1. expected_seqno \in Nat /\ expected_seqno' \in Nat
    <2>1. \A n \in 1..(Len(File) + 1) : n \in Nat
      BY FileFacts
    <2> QED BY <2>1, Invariance DEF IInv, TypeOK
  <1>2. expected_seqno' >= expected_seqno
    <2>1. CASE UNCHANGED clientVars
      BY <1>1, <2>1 DEF clientVars
    <2>2. CASE Client /\ UNCHANGED serverVars
      <3>1. PICK pkt \in toClient : \/ ReceiveNew(pkt) \/ ReceiveOld(pkt) \/ ReceiveTerminal(pkt)
                                    \/ ReceiveFar(pkt) \/ ReceiveCorrupted(pkt)
        BY <2>2 DEF Client
      <3>2. CASE ReceiveNew(pkt)
        <4>1. \E n \in (Len(file_written) + 1)..Len(File) : file_written' = SubSeq(File, 1, n)
          BY <2>2, <3>2, ReceiveNewStep
        <4>2. Len(file_written') >= Len(file_written)
          <5>1. PICK n \in (Len(file_written) + 1)..Len(File) : file_written' = SubSeq(File, 1, n)
            BY <4>1
          <5>2. n \in Nat /\ n <= Len(File) /\ Len(file_written) \in Nat /\ n > Len(file_written)
            BY FileFacts, LenProperties DEF IInv, TypeOK
          <5>3. Len(SubSeq(File, 1, n)) = n
            BY <5>2, FileFacts, SubSeqProperties
          <5> QED BY <5>1, <5>2, <5>3
        <4>3. Len(file_written) = expected_seqno - 1 /\ Len(file_written') = expected_seqno' - 1
          BY Invariance DEF IInv, Prefix
        <4>4. expected_seqno' - 1 >= expected_seqno - 1
          BY <4>2, <4>3
        <4>5. \A m, n \in Nat : m - 1 >= n - 1 => m >= n
          OBVIOUS
        <4> QED BY <1>1, <4>4, <4>5
      <3>3. CASE ReceiveOld(pkt)
        BY <1>1, <3>3 DEF ReceiveOld, clientVars
      <3>4. CASE ReceiveTerminal(pkt)
        BY <1>1, <3>4 DEF ReceiveTerminal
      <3>5. CASE ReceiveFar(pkt) \/ ReceiveCorrupted(pkt)
        BY <1>1, <2>2, <3>5, ReceiveDroppedStep DEF clientVars
      <3> QED BY <3>1, <3>2, <3>3, <3>4, <3>5
    <2> QED BY <2>1, <2>2 DEF Next, vars
  <1> QED BY <1>1, <1>2

\* handle_time_out goes wrong only after a packet was popped or is being popped,
\* which the client has written.
LEMMA CrashStep ==
  ASSUME IInv, FirstPacket, Begun, TimerCrash
  PROVE  expected_seqno > 1
  <1>1. /\ next_seq_number \in Nat /\ expected_seqno \in Nat
        /\ timer_pc # "off" /\ next_seq_number > 1
    <2>1. \A n \in 1..(Len(File) + 1) : n \in Nat
      BY FileFacts
    <2>2. timer_pc # "off" /\ File # <<>>
      BY DEF TimerCrash, IInv, MemoryInv, EmptyFile
    <2> QED BY <2>1, <2>2 DEF IInv, TypeOK, Begun
  <1>2. CASE window = Null
    BY <1>1, <1>2 DEF IInv, PoppedIsWritten
  <1>3. CASE window # Null
    <2>1. /\ heap[window].live /\ heap[window].seqno = next_seq_number - 1
          /\ heap[window].seqno <= expected_seqno
          /\ worker_pc = "delete" => heap[window].seqno < expected_seqno
      BY <1>3 DEF IInv, MemoryInv, WindowLive, PoppedIsWritten
    <2>2. CASE next_seq_number = 2
      <3>1. ~(timer_pc = "resend" /\ Stale(first_unacked_pkt))
        BY <1>3, <2>1, <2>2 DEF FirstPacket, Stale
      <3>2. timer_pc = "first" /\ unacked_packets = {}
        BY <3>1 DEF TimerCrash
      <3>3. worker_pc = "delete"
        BY <1>3, <2>2, <3>2 DEF FirstPacket, IInv, ThreadInv, TimerCovers
      <3> QED BY <1>1, <2>1, <2>2, <3>3
    <2>3. CASE next_seq_number # 2
      BY <1>1, <2>1, <2>3
    <2> QED BY <2>2, <2>3
  <1> QED BY <1>2, <1>3

\* A thread of the server keeps the pointers to the first packet.
LEMMA FirstPacketStep ==
  ASSUME IInv, DownInv, Worker \/ Timer
  PROVE  FirstPacket' /\ Begun'
  <1>1. next_seq_number \in Nat /\ next_seq_number >= 1
    <2>1. \A n \in 1..(Len(File) + 1) : n \in Nat /\ n >= 1
      BY FileFacts
    <2> QED BY <2>1 DEF IInv, TypeOK
  <1>2. CASE Start
    BY <1>1, <1>2 DEF Start, WorkerAt, Send, Insert, memoryVars, DownInv, FirstPacket, Begun
  <1>3. CASE Delete
    BY <1>3 DEF Delete, WorkerAt, DownInv, FirstPacket, Begun
  <1>4. CASE Allocate
    <2>1. HasNext /\ next_seq_number' = next_seq_number + 1
      BY <1>4 DEF Allocate, WorkerAt, IInv, ThreadInv, Places
    <2>2. File # <<>>
      <3>1. Len(File) \in Nat /\ next_seq_number <= Len(File)
        BY <2>1, FileFacts DEF HasNext
      <3>2. Len(File) > 0
        BY <1>1, <3>1
      <3> QED BY <3>2, FileFacts
    <2>3. next_seq_number > 1
      BY <2>2 DEF DownInv, Begun
    <2> QED BY <1>1, <2>1, <2>3 DEF FirstPacket, Begun
  <1>5. CASE SendNext
    <2>1. worker_pc = "send" /\ window # Null /\ UNCHANGED next_seq_number
      BY <1>5 DEF SendNext, WorkerAt, memoryVars, IInv, ThreadInv, Places
    <2>2. next_seq_number # 2
      BY <2>1 DEF DownInv, FirstPacket
    <2> QED BY <2>1, <2>2 DEF DownInv, FirstPacket, Begun
  <1>6. CASE Finish
    BY <1>6 DEF Finish, WorkerAt, memoryVars, DownInv, FirstPacket, Begun
  <1>7. CASE \E ackno \in toServer : AckNew(ackno) \/ AckIgnored(ackno)
    <2>1. unacked_packets' \subseteq unacked_packets
      BY <1>7 DEF AckNew, AckIgnored, Erase
    <2>2. /\ UNCHANGED <<window, next_seq_number, timer_pc, first_unacked_pkt>>
          /\ worker_pc' \in {"idle", "delete"}
      BY <1>7 DEF AckNew, AckIgnored, WorkerAt, memoryVars
    <2> QED BY <2>1, <2>2 DEF DownInv, FirstPacket, Begun
  <1>8. CASE Timer
    <2>1. UNCHANGED <<window, next_seq_number, worker_pc>> /\ timer_pc # "off"
      BY <1>8 DEF Timer, TimerCheck, TimerFirst, TimerSleep, TimerExpire, TimerResend,
                  TimerResendGarbage, TimerCrash, TimerAt, memoryVars
    <2> SUFFICES ASSUME window # Null, next_seq_number = 2
                 PROVE  /\ unacked_packets' \subseteq {window}
                        /\ timer_pc' \in {"compare", "resend"} => first_unacked_pkt' = window
      BY <2>1 DEF DownInv, FirstPacket, Begun
    <2>2. /\ unacked_packets \subseteq {window}
          /\ timer_pc \in {"compare", "resend"} => first_unacked_pkt = window
      BY DEF DownInv, FirstPacket
    <2>3. CASE TimerCheck \/ TimerSleep \/ TimerCrash
      BY <2>2, <2>3 DEF TimerCheck, TimerSleep, TimerCrash, TimerAt
    <2>4. CASE TimerExpire
      BY <2>2, <2>4 DEF TimerExpire, TimerAt, Erase
    <2>5. CASE TimerResend \/ TimerResendGarbage
      BY <2>2, <2>5 DEF TimerResend, TimerResendGarbage, TimerAt, Send, Insert
    <2>6. CASE \E a \in Addresses : TimerFirst(a)
      BY <2>2, <2>6 DEF TimerFirst, TimerAt
    <2> QED BY <1>8, <2>3, <2>4, <2>5, <2>6 DEF Timer
  <1> QED BY <1>2, <1>3, <1>4, <1>5, <1>6, <1>7, <1>8 DEF Worker

LEMMA DownStep == IInv /\ DownInv /\ [Next]_vars => DownInv'
  <1> SUFFICES ASSUME IInv, DownInv, [Next]_vars PROVE DownInv'
    OBVIOUS
  <1>1. FirstPacket' /\ Begun'
    <2>1. CASE Worker \/ Timer
      BY <2>1, FirstPacketStep
    <2>2. CASE UNCHANGED serverVars
      BY <2>2 DEF serverVars, memoryVars, threadVars, DownInv, FirstPacket, Begun
    <2> QED BY <2>1, <2>2 DEF Next, vars
  <1>2. DownOnlyAfterAck'
    <2>1. expected_seqno > 1 => expected_seqno' > 1
      BY WrittenGrows
    <2>2. CASE TimerCrash
      BY <2>1, <2>2, CrashStep DEF DownInv, DownOnlyAfterAck
    <2>3. CASE UNCHANGED server_up
      BY <2>1, <2>3 DEF DownInv, DownOnlyAfterAck
    <2>4. TimerCrash \/ UNCHANGED server_up
      BY DEF Next, vars, serverVars, threadVars, Worker, Start, Delete, Allocate, SendNext, Finish,
             AckNew, AckIgnored, WorkerAt, Timer, TimerCheck, TimerFirst, TimerSleep, TimerExpire,
             TimerResend, TimerResendGarbage, TimerAt
    <2> QED BY <2>2, <2>3, <2>4
  <1> QED BY <1>1, <1>2 DEF DownInv

-----------------------------------------------------------------------------
\* Every variable keeps its type, for every file, the empty one included.
THEOREM TypeCorrect == Spec => []TypeOK
  <1>1. IInv => TypeOK
    BY DEF IInv
  <1> QED BY <1>1, Invariant, PTL

\* advance_window leaks no packet and deletes none early: the live packet is the
\* one in the window, read from the file last.
THEOREM MemoryCorrect == Spec => []OneLivePacket
  <1>1. IInv => OneLivePacket
    BY DEF IInv, MemoryInv
  <1> QED BY <1>1, Invariant, PTL

\* handle_time_out: whatever the timer thread does with a pointer it has kept, the
\* packet in the window is covered by its set or about to be sent.
THEOREM TimerCorrect == Spec => []TimerCovers
  <1>1. IInv => TimerCovers
    BY DEF IInv, ThreadInv
  <1> QED BY <1>1, Invariant, PTL

\* acknowledge_packet: the server goes on only when the client has written.
THEOREM AcksAreTrue == Spec => []PoppedIsWritten
  <1>1. IInv => PoppedIsWritten
    BY DEF IInv
  <1> QED BY <1>1, Invariant, PTL

\* handle_time_out: the timer thread brings the server down only after a packet has
\* been acknowledged, with a pointer or a set the worker has emptied behind its back.
THEOREM DownCorrect == Spec => []DownOnlyAfterAck
  <1>1. DownInv => DownOnlyAfterAck
    BY DEF DownInv
  <1> QED BY <1>1, InitDown, DownStep, Invariant, PTL DEF Spec

\* Server, client and network together implement the abstract file transfer.
THEOREM Implements == Spec => AbstractSpec
  <1>1. Init => Abstract!Init
    BY DEF Init, ClientInit, Abstract!Init
  <1>2. IInv /\ [Next]_vars => [Abstract!Next]_(Abstract!vars)
    <2> SUFFICES ASSUME IInv, [Next]_vars
                 PROVE  Abstract!Next \/ UNCHANGED <<file_written, client_done>>
      BY DEF Abstract!vars
    <2>1. CASE UNCHANGED clientVars
      BY <2>1 DEF clientVars
    <2>2. CASE Client /\ UNCHANGED serverVars
      <3>1. PICK pkt \in toClient : \/ ReceiveNew(pkt) \/ ReceiveOld(pkt) \/ ReceiveTerminal(pkt)
                                    \/ ReceiveFar(pkt) \/ ReceiveCorrupted(pkt)
        BY <2>2 DEF Client
      <3>2. CASE ReceiveNew(pkt)
        <4>1. \E n \in (Len(file_written) + 1)..Len(File) : file_written' = SubSeq(File, 1, n)
          BY <2>2, <3>2, ReceiveNewStep
        <4> QED BY <3>2, <4>1 DEF ReceiveNew, Abstract!Next, Abstract!Write
      <3>3. CASE ReceiveOld(pkt)
        BY <3>3 DEF ReceiveOld, clientVars
      <3>4. CASE ReceiveTerminal(pkt)
        <4>1. file_written = File
          BY <2>2, <3>4, ReceiveTerminalStep
        <4> QED BY <3>4, <4>1 DEF ReceiveTerminal, Abstract!Next, Abstract!Stop
      <3>5. CASE ReceiveFar(pkt) \/ ReceiveCorrupted(pkt)
        BY <2>2, <3>5, ReceiveDroppedStep DEF clientVars
      <3> QED BY <3>1, <3>2, <3>3, <3>4, <3>5
    <2> QED BY <2>1, <2>2 DEF Next, vars
  <1> QED BY <1>1, <1>2, Invariant, PTL DEF Spec, AbstractSpec, Abstract!Spec
==============================================================================
