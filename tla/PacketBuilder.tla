----------------------------- MODULE PacketBuilder -----------------------------
(***************************************************************************)
(* packet_builder, from which a worker thread gets the packets of the      *)
(* requested file.  The file is read in blocks, whenever the queue of      *)
(* packets is empty; a block is cut into packets, which are numbered with  *)
(* the worker's next_seq_number.  How much there is to read is asked of    *)
(* the file once, in the constructor.                                      *)
(*                                                                         *)
(* The client writes under the name it requests.  With a client in the     *)
(* server's directory that is the file being sent: opening it empties it,  *)
(* or creates it, and the payloads received make it longer again, but      *)
(* never as long as what the server has read.                              *)
(*                                                                         *)
(* A packet is its number and the place of its bytes in the file.          *)
(*                                                                         *)
(* Definitions named Buggy... are mistakes the properties are tested       *)
(* against; the model does not use them.                                   *)
(***************************************************************************)
EXTENDS Integers, Sequences, FiniteSetsExt

CONSTANTS MAX_DATA_SIZE,
          queue_size,      \* packets in a block
          FirstSeqno,      \* the worker's next_seq_number at first
          MaxFileSize      \* bound on the size of the file

ASSUME SizeAssumption == /\ MAX_DATA_SIZE \in Nat \ {0}
                         /\ queue_size \in Nat \ {0}
                         /\ FirstSeqno \in Nat
                         /\ MaxFileSize \in Nat

VARIABLES file_size,           \* the file as it is now; -1: there is none
          client,              \* it opened the file "before" the server asked for
                               \* the size, "after" that, or not: "elsewhere"
          client_wrote,        \* payloads it wrote
          stream,              \* fp and buffer: "none", "open" or "closed"
          data_not_read,
          position,            \* where fp is in the file
          packets_read_queue,
          next_seq_number,
          server,              \* "up", "exited", or "undefined": it has read what is not there
          size_asked,          \* history: the size in the constructor
          handed_out           \* history: the packets the worker got

clientVars == <<file_size, client, client_wrote>>
builderVars == <<stream, data_not_read, position, packets_read_queue, next_seq_number,
                 server, size_asked, handed_out>>
vars == <<clientVars, builderVars>>

Init ==
  /\ file_size \in -1..MaxFileSize
  /\ client = "elsewhere"
  /\ client_wrote = 0
  /\ stream = "none"
  /\ data_not_read = 0
  /\ position = 0
  /\ packets_read_queue = <<>>
  /\ next_seq_number = FirstSeqno
  /\ server = "up"
  /\ size_asked = 0
  /\ handed_out = <<>>

-----------------------------------------------------------------------------
\* The constructor; without a file the process exits.
Construct ==
  /\ server = "up"
  /\ stream = "none"
  /\ \/ /\ file_size < 0
        /\ server' = "exited"
        /\ UNCHANGED <<stream, data_not_read, size_asked>>
     \/ /\ file_size >= 0
        /\ stream' = "open"
        /\ data_not_read' = file_size
        /\ size_asked' = file_size
        /\ UNCHANGED server
  /\ UNCHANGED <<clientVars, position, packets_read_queue, next_seq_number, handed_out>>

\* A mistake: a closed file is asked for more.
BuggyHasNext == data_not_read >= 0

HasNext == data_not_read > 0 \/ packets_read_queue # <<>>

\* n bytes from a place of the file on, in packets of MAX_DATA_SIZE.
Cut(from, n, seqno) ==
  [i \in 1..((n + MAX_DATA_SIZE - 1) \div MAX_DATA_SIZE) |->
     [seqno |-> seqno + i - 1,
      from  |-> from + (i - 1) * MAX_DATA_SIZE,
      len   |-> Min({MAX_DATA_SIZE, n - (i - 1) * MAX_DATA_SIZE})]]

\* A mistake: one byte short.
BuggyBufferSize == MAX_DATA_SIZE * queue_size - 1

BufferSize == MAX_DATA_SIZE * queue_size

\* A mistake: always a full buffer.
BuggyFread == {BufferSize}

\* What fread may return: a full buffer or the rest of the file.  Of a file
\* emptied meanwhile only what is left in the stream's own buffer is read.
Fread ==
  LET n == Min({BufferSize, data_not_read})
  IN  IF client = "after" THEN 0..n ELSE {n}

\* The head of the queue is handed out; with the last packet the file is closed.
HandOut(queue, not_read) ==
  /\ handed_out' = Append(handed_out, Head(queue))
  /\ packets_read_queue' = Tail(queue)
  /\ stream' = IF Len(queue) = 1 /\ not_read = 0 THEN "closed" ELSE stream

\* get_next_packet with packets in the queue.
GetQueued ==
  /\ server = "up"
  /\ packets_read_queue # <<>>
  /\ HandOut(packets_read_queue, data_not_read)
  /\ UNCHANGED <<clientVars, data_not_read, position, next_seq_number, server, size_asked>>

\* get_next_packet with an empty queue, to which the callers come with has_next:
\* a block is read.  If it is empty, the front of the empty queue is used.
GetRead ==
  /\ server = "up"
  /\ HasNext
  /\ packets_read_queue = <<>>
  /\ \E n \in Fread :
       LET block == Cut(position, n, next_seq_number)
       IN  /\ data_not_read' = data_not_read - n
           /\ position' = position + n
           /\ next_seq_number' = next_seq_number + Len(block)
           /\ \/ /\ block = <<>> \/ stream = "closed"
                 /\ server' = "undefined"
                 /\ UNCHANGED <<packets_read_queue, stream, handed_out>>
              \/ /\ block # <<>> /\ stream = "open"
                 /\ HandOut(block, data_not_read')
                 /\ UNCHANGED server
  /\ UNCHANGED <<clientVars, size_asked>>

\* receive_datagrams of a client in the same directory opens the file ...
ClientOpens ==
  /\ client = "elsewhere"
  /\ file_size' = 0
  /\ client' = IF stream = "none" THEN "before" ELSE "after"
  /\ UNCHANGED <<client_wrote, builderVars>>

\* ... and writes the next payload.
ClientWrites ==
  /\ client # "elsewhere"
  /\ client_wrote < Len(handed_out)
  /\ client_wrote' = client_wrote + 1
  /\ file_size' = file_size + handed_out[client_wrote'].len
  /\ UNCHANGED <<client, builderVars>>

Next == Construct \/ GetQueued \/ GetRead \/ ClientOpens \/ ClientWrites

Spec == Init /\ [][Next]_vars

-----------------------------------------------------------------------------
Packet == [seqno : Nat, from : Nat, len : 1..MAX_DATA_SIZE]

\* Every variable stays in its type: no more is read than there was.
TypeOK ==
  /\ file_size \in -1..MaxFileSize
  /\ client \in {"elsewhere", "before", "after"}
  /\ client_wrote \in 0..Len(handed_out)
  /\ stream \in {"none", "open", "closed"}
  /\ data_not_read \in 0..MaxFileSize
  /\ position \in 0..MaxFileSize
  /\ packets_read_queue \in Seq(Packet) /\ Len(packets_read_queue) < queue_size
  /\ next_seq_number \in Nat
  /\ server \in {"up", "exited", "undefined"}
  /\ size_asked \in 0..MaxFileSize
  /\ handed_out \in Seq(Packet)

\* What the worker gets is, in order, without gap or overlap
\* and with consecutive numbers, what was read of the file; of a file that stays
\* as it is, it is the whole file in full packets but the last, as if there were
\* no blocks, when the stream is closed.
HandedOutIsFile ==
  LET packets == handed_out \o packets_read_queue
  IN  /\ \A i \in DOMAIN packets :
           /\ packets[i].seqno = FirstSeqno + i - 1
           /\ packets[i].from = IF i = 1 THEN 0 ELSE packets[i - 1].from + packets[i - 1].len
           /\ i = Len(packets) => packets[i].from + packets[i].len = position
      /\ client # "after" => packets = Cut(0, position, FirstSeqno)
      /\ stream = "closed" => packets_read_queue = <<>> /\ position = size_asked

\* The process exits only without a file, and only a client that empties the file
\* being sent can make the worker use the front of an empty queue; a closed file is
\* never read.
DownOnlyDisturbed ==
  /\ server = "exited" => stream = "none" /\ handed_out = <<>>
  /\ server = "undefined" => client = "after" /\ stream = "open" /\ position < size_asked
===============================================================================
