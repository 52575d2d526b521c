# TLA+ specifications of RDT-Protocol

RDT-Protocol transfers files over UDP. One server process serves any number of
clients; a client asks for one file by name and stops when it has it. Server and
client are configured with the same mode, `stop_and_wait`, `selective_repeat` or
`go_back_n`. The repository has no tests and no documentation beyond its comments:
the specifications are translated from the code.

## 1. Inventory

| part | source | state | operations | works with |
|---|---|---|---|---|
| Server, main thread | `server/server.cpp` | `registered_clients`, `working_threads`, `worker_threads_acks`, a mutex for each | `start`: receive a request or an ACK; `dispatch_worker_thread` | clients over the socket, workers through the three maps |
| Server, worker thread (one per client) | `server/server.cpp` | its strategy object | `handle_worker_thread`: `start`, take ACKs from the queue until `is_done`, `send_empty_packet`, `finalize_worker_thread` | timer thread through the strategy object |
| Strategies, sender (worker and timer thread) | `server/strategy/*` | `window`, `aux_window`, `unacked_packets`, `next_seq_number`, `window_size`, `threshold`, `set_mutex`, `wnd_mutex` | `start`, `acknowledge_packet`, `advance_window`, `expand_window`, `shrink_window`, `adjust_window_size`, `send_packet`, `handle_time_out` | each other through the object; the client over the socket |
| Packet builder (one per worker) | `server/filereader/packet_builder.cpp` | the stream, `data_not_read`, `packets_read_queue` | the constructor, `get_next_packet`, `has_next` | called by the strategies; a client in the same directory changes the file below it |
| Packet sender | `server/packet_sender.cpp` | static `packet_number`, `loss_sequence_index`, random engine | `send_packet`: send, drop, or simulate three duplicate ACKs | called by all workers and timers, under different mutexes or none |
| Client | `client/client.cpp` | socket, request | `run`: request, `handle_ack_timeout`, `receive_datagrams` | server over the socket |
| Strategies, receiver | `client/strategy/*` | `window`, `expected_seqno`, `done` | `run`: receive one packet, buffer, write, ACK or drop it | file writer |
| Packets, checksum | `shared/data_packet.cpp`, `ack_packet.cpp`, `packet_util.cpp` | – | constructors, `pack`, `unpack`, `calculate_checksum` | both programs |
| Parsers, file writer, thread wrappers, `dummy_client.cpp`, plotters | | – | | not modelled, see section 8 |

What is hard here, and what must hold:

* **Senders**: two threads share one object under two mutexes, but some reads are
  unprotected and some decisions are used after the mutex is released. Packets are
  deleted while pointers to them exist. The window grows, shrinks and is re-sent
  while late and repeated ACKs arrive. *No packet is lost, reordered or leaked
  between the containers; a packet without an ACK always has a timer; the sender
  lets go only of what the client has written.*
* **Receivers**: packets are lost, repeated, reordered, corrupted. *The file is
  written in order, once, and completely before the client stops.*
* **Sessions**: requests are repeated and late; a worker runs before its creator
  has registered it; thread ids are reused; nothing is ever cleaned up. *One worker
  per client; ACKs reach the right worker; a finished worker finds its record.*
* **Packets**: signed chars, two byte orders, a length field that comes from the
  network. *The checksum's carries fit and are not lost; what is accepted is what was
  sent, but for one known exception (section 6), and what arrives intact is accepted.*
* **Packet sender**: static counters without a lock of their own. *The loss sequence is
  followed; its index is out of range no longer than it takes to reduce it.*
* **Packet builder**: blocks, packets and the file end at different places. *What is
  handed out is the file, once, without gaps; a closed file is not read.*

`PROJECT.json` lists each hazard at its line (`hazards`) with the properties that
would show it.

## 2. Modules

    FileTransfer                      what any transfer promises
    Datagrams, UdpNetwork             packets and ACKs; the network of one transfer
      ClientSelectiveRepeat           receiver of selective_repeat and stop_and_wait
      SelectiveRepeatStrategy         sender of selective_repeat
        SelectiveRepeatTransfer       both, composed; properties
          MCSelectiveRepeat, SelectiveRepeatProofs
      StopAndWaitStrategy             sender of stop_and_wait, over explicit memory
        StopAndWaitTransfer
          MCStopAndWait, StopAndWaitProofs
      GoBackNDatagrams                numbers modulo 2^32
        ClientGoBackN                 receiver of go_back_n
        GoBackNStrategy               sender of go_back_n
          GoBackNTransfer
            MCGoBackN, GoBackNProofs
    ServerSessions                    main thread, workers, clients: many transfers
      MCServerSessions, ServerSessionsProofs
    Checksum                          the loop of calculate_checksum
      Packets                         a packet built, packed, changed, unpacked, checked
        MCPackets, PacketsProofs, PacketChangeProofs
    PacketSender                      the shared counters of send_packet
      MCPacketSender, PacketSenderProofs
    PacketBuilder                     the file in blocks and packets
      MCPacketBuilder, PacketBuilderProofs

Variables and actions have the names of the code's fields and functions where
there is one. `PROJECT.json` maps every definition to its lines. Definitions named
`Buggy...` are plausible mistakes which the properties were tested against; nothing
uses them.

**Packets** are records of a sequence number and a payload; payloads are model
values. A packet of the file is identified with its sequence number (in
`go_back_n`, with its place in the file, as numbers start anywhere there). The
terminal packet has no payload, and neither has the ACK of a request, which a
client may take for a data packet. A client's request names one file; in
`ServerSessions` what matters of the file is its size in packets, `req_file`.

**Network**: the sets of datagrams in flight. Receiving one removes it or leaves it, so
that everything may be late, repeated and reordered; a loss removes one. `packet_sender`
drops packets on purpose, which is a loss. Corruption is an action of the receiver: it
drops the datagram, since a corrupted one has another checksum. The client of
`go_back_n` looks at the number and the length before it looks at the checksum: there a
corrupted packet of the window may be answered with the last ACK (`ReceiveCorrupted`),
or, when its length reads as that of an empty packet, end the reception (`ReceiveCut`,
remembered in `client_cut`). The terminal packet is not lost, as `rdt_strategy.h:43`
assumes; the ACK of a request may be. A transfer starts with the remains of the
handshake possibly in flight: the ACK of the request, and a repeated request.

**Steps of the senders**. A step is a critical section together with the code around it
that touches nothing shared. In `SelectiveRepeatStrategy` the worker's treatment of an
ACK holds `wnd_mutex` but releases `set_mutex` in between; it is cut where the timer
thread can look in: after the packet is acknowledged (`AckNew`), between the sending of
a packet (`ExpandWindow`) and its insertion in the timer's set (`InsertSent`), after a
simulated triple duplicate ACK (`HalveWindow`) and at the end (`EndAcknowledge`). One
call of `shrink_window` is one step: its sections of `set_mutex` only take packets out,
and never the front of the window, so that the timer thread sees nothing between them
that it does not see before or after. The timer thread's local pointer
`first_unacked_pkt` lives across its steps. Its steps are the unprotected test
(`TimerCheck`), the read of the oldest packet (`TimerFirst`), the comparison with the
clock (`TimerSleep`, `TimerExpire`), the listing of the window (`TimerListWindow`) and
the re-sending (`TimerResend`); where it reads a container that has become empty, the
process may go down (`TimerCrash`). `StopAndWaitStrategy` makes memory explicit: an
address of `heap` holds a packet, `Delete` leaves its contents and `Allocate` may reuse
it, so that a stale pointer may stand for the old packet, for the new one or for
garbage. `GoBackNStrategy` is cut between sending and inserting, too.

**Time** is abstracted: whenever the timer thread compares the oldest packet's
time stamp with the clock, either result is possible. A timeout may thus come
early, which the code's clock forbids and a slow network does not distinguish.

**Sessions** model the main thread by its critical sections (`ReceiveAck`,
`ReceiveRequest`, `Register`, `Record`), with the worker already running after
`ReceiveRequest`; a worker's strategy is that of `stop_and_wait` without its timer
thread's inside. A datagram to a client has a number and is empty or not: the ACK of
the request is empty and has number 0, the terminal packet is empty and has the number
after the last; the client tells it from the others as the code does, by its emptiness.
A thread id becomes free when the thread has ended and is detached.
`Alive` is false from then on, and `ReceiveRequest` may choose the id again.

**Packets** (`Checksum`, `Packets`). One packet: the sender's constructor and
checksum, `pack` into signed chars, possibly one char changed on the way, `unpack`
and the receiver's checksum. `Add` adds one word per step, the header's three and
then the bytes of the data, and wraps. The checksum of a packet that came is taken
over its length field as it came, while its data is cut or not as `unpack` does.

**Packet sender**. A step of a thread in `send_packet` reads or writes one of the two
counters; what it has read is in `local`. A thread begins only when no thread with the
same mutex is inside. `mutex_of` says which mutex each thread holds: worker and timer
of one selective repeat transfer share its `wnd_mutex`; those of another transfer hold
another; the other modes hold none. Reading `loss_sequence` out of its range may end
the process (`Crash`).

**Packet builder**. A packet is its number and its place in the file. `GetRead` is
`get_next_packet` with an empty queue: it reads a block and cuts it up; `GetQueued` is
the same with packets in the queue; each hands out the head and closes the file behind
the last packet. `ClientOpens` and `ClientWrites` are a client started in the server's
directory, which opens the file it requests for writing: the constructor has then asked
for a size that is no longer true, and `fread` returns what is left in the stream's
buffer. The transfers (`Datagrams`) take from this that the packets of an undisturbed
file are consecutive and that `has_next` is false behind the last. The file of size
zero is opened and never closed: nothing is handed out of it.

## 3. Runs that pass

| run | question | bounds | states |
|---|---|---|---|
| `sr_transfer` | the invariants of `SelectiveRepeatTransfer`, the bound of the window among them; where the server may go down; it implements `FileTransfer`; the file arrives or the server went down | 4 packets, sender's window up to 3, receiver's 2 | 529 k |
| `sw_transfer` | the same for `StopAndWaitTransfer`, with memory | 2 packets, 2 addresses | 30 k |
| `gbn_safety` | the invariants of `GoBackNTransfer`; what follows from a timeout; where the server may go down; it implements `FileTransfer` | 4 packets, windows of 3, numbers modulo 8, every first number the proofs allow | 93 k |
| `sessions_safety` | one worker per client, records before they are used, complete files, no packet skipped for a stale ACK | 2 clients, 2 thread ids, files of 0 or 1 packet, queues of 1; symmetric | 1.7 M |
| `sessions_live` | every client is served | 1 client, 2 packets | 7 k |
| `packets` | the checksum is the ones' complement sum; accepted is sent, intact is accepted | up to 2 chars of data of 6 values, 4 halves of the number, every position of the change | 214 k |
| `sender` | the loss sequence is followed; the index's range | 3 threads, 3 deployments of mutexes, sequence 2, 1, 3, counters up to 5 | 699 k |
| `builder` | what is handed out is the file; who brings the process down | files up to 13 bytes or none, packets of 3, blocks of 2 packets | 103 k |

Why the bounds are enough. In `sr_transfer` a window of 3 over 4 packets lets the
window grow in both ways (doubling and by one), shrink to half and to one with
packets going to the auxiliary window and coming back, slide over ACKs that came
out of order, and be larger than the receiver's window, so that packets are
dropped as too far. In `sw_transfer` the two addresses are a packet and a deleted one
with a pointer to it, which the next packet may overwrite. In `gbn_safety` the window
slides to the end of the file over cumulative ACKs of one, two and three packets, and
the numbers wrap around at every place of the file; `SeqnoSpace` is 8 in place of
2^32, larger than both windows together. In the sessions, two
clients and two ids show every reuse of an id, with the old client's datagrams
still in flight; one packet is enough to have ACKs in a queue, and an empty file
lets a worker finish before it is registered. `MaxQueue` bounds
the queues, which the code does not: a datagram for a full queue waits in the
network, and it is lost only when there is room, so that fairness of its receipt
has its meaning. In `packets` the values are those around a carry, the sign
bit and the ends of the ranges, and 9 is a length that cuts one byte off; the cut of
256 bytes, which may go unnoticed, does not occur in so short a packet and is left to
the theorem (section 6). In `sender`
the sequence has a number that is met at once and two that are not, and the third
thread shares a mutex, has its own, or there is none; `MaxCount` bounds the counters,
which lost updates may drive up. In `builder` files take none, one, two or three
blocks, and end with a packet, with a block, or inside of one.

Where `sr_transfer` and `gbn_safety` begin. A transfer may find datagrams of its
handshake in flight. The proofs of selective repeat and the run `sw_transfer` have them;
`sr_transfer` leaves them out (`CleanFairSpec`), which keeps the check of liveness
small: number 0 is old to the client, who answers it with an ACK of no packet.
`gbn_safety` and its proofs need `CleanInit`, which leaves out two things that can
happen. One is the datagrams of the handshake: in this mode a late ACK of the request is
the terminal packet of an empty file (`gbn_done`), and a repeated request is the ACK of
packet 0. The other is a first window with the number 2^32 - 1 in it, as
`next_seq_number` is not initialised: it is the number the client acknowledges when it
has received nothing, and behind it comes number 0, which the client, who begins there,
would take for the first packet of the file. `CleanInit` is the condition on which the
rest is true.

Deadlock is not checked: a finished transfer, a server that went down, a client
that waits for a lost answer and a file that has been read are states in which nothing
moves.

What the properties say:

* `WindowIsRun`, `TimerSetLive`, `TimerCovers` relate the sender's
  containers: together the window and the auxiliary window are exactly the packets
  read and not popped, in order; what waits for an ACK has a timer or is about to be
  sent by the thread that took it out of the timer's set.
* `AckedIsReceived`, `PoppedIsWritten` relate the sender to the receiver: an ACK that
  was counted stands for a packet the client holds; what was popped is written.
* `WindowBounded`: whatever grows or halves the window and its size, there are never
  more packets in it than the size allows.
* `AbstractSpec` says what a user sees: the file is written in order, once, and
  completely before the client stops. In `go_back_n` a corrupted packet may end the
  reception before that; such a reception is one that does not stop, and writes no
  more. Its consequences `DeliveredPrefix` and `CompleteWhenDone` (in `go_back_n`
  `CompleteUnlessCut`) are theorems without a run of their own.
* `DownOnlyAcked` bounds what the crash of the timer thread costs. In
  `selective_repeat` the server goes down only where its set has run out: with an empty
  window, and then the client lacks nothing but the terminal packet, unless the worker
  thread is about to fill the window again; or with one packet in the window that is
  sent and not yet in the set, and then the client has everything before it. In
  `go_back_n` it goes down only where the client has written
  what was handed out, but for one packet that is being sent. `DownOnlyAfterAck`, the
  bound for `stop_and_wait`, is weaker, as there the crash can cost the packet on its
  way: the server does not go down before the client has got the first packet.
* `TimeoutIsFinal`: in `go_back_n` the first timeout ends the transfer for good.
  `gbn_timeout` shows that it locks the sender; this says that nothing gets round the
  lock, neither ACKs on their way nor packets already sent. Only a corrupted packet can
  still end the client's reception, which is not the end of the transfer.
* `OneLivePacket`: in `stop_and_wait`, no leak and no early delete.
* `SumIsOnesComplement`: `calculate_checksum` loses no carry; that it never takes its
  error exit (`SumFits`) is a theorem without a run of its own. `AcceptedIsSent`: a
  change of one char, be it of the number, the length, the checksum or the data, is
  noticed, unless it makes `unpack` cut off 256 bytes of data or a multiple of that
  (`TailCut`, section 6); `IntactIsAccepted`: signs and byte orders agree on both sides.
* `SequenceExact`: as long as all threads share a mutex, the simulated triple duplicate
  ACKs come after exactly as many packets as configured. `OutOfRangePending`: otherwise
  the index may be out of range, but only while some thread is about to reduce it.
* `HandedOutIsFile`: blocks leave no trace; `DownOnlyDisturbed`: of an undisturbed file
  there is always a packet when `has_next` says so.
* `OneWorkerPerClient`, `FinalizeMarks`, `DownOnlyDispatching`, `DoneHasAll`, `Served`
  are those of the sessions. `DownOnlyDispatching` bounds the window in which the server
  can go down for want of a record. `DoneHasAll`: a client stops at an empty packet with
  the number it expects; that it then has the whole file is due to the server, which
  sends no empty packet with the number of one that has data, whatever ACKs moved its
  worker on. `ServedInOwnQueue`, that a client's ACKs wait in its own worker's queue, is
  a theorem without a run.
* `PacketsAreWritten`: requests and ACKs of a client's earlier run, late or repeated,
  never make a worker thread go on past a packet that its client has not written,
  unless the thread has the id of another client's thread (`sessions_acks`).
* `Completion`, `Served` are the liveness properties.

## 4. Runs that show a disagreement

Each checks one statement of a comment or message of the code; TLC's counterexample
shows the code doing otherwise. `PROJECT.json` (`findings`) has quotes and
explanations.

| run | property | in short |
|---|---|---|
| `sr_timeout` | `TimeoutHasPacket` | the last ACK empties the window between a timeout and the re-sending |
| `gbn_timeout` | `TimeoutResends` | the timer thread locks `set_mutex` twice and waits for itself, and the transfer is never completed (`TimeoutIsFinal`) |
| `gbn_done` | `CompleteWhenDone` | a late ACK of the request is read as the terminal packet; so may a corrupted packet be. From `CleanInit`, and but for corrupted packets, the property is a theorem (`GoBackNProofs`, `CompleteCorrect`) |
| `sessions_acks` | `AcksOfOwnClient` | a reused thread id leads one client's datagrams to another's worker |

Others met while modelling are part of the models without a run of their own: the timer
thread of stop-and-wait re-sends packets the worker has deleted (`TimerResendGarbage`)
or brings the server down with them (`TimerCrash`); go-back-N's `next_seq_number` is not
initialised (`FirstSeqnos`), its client ACKs number 2^32 - 1 before it has received
anything (`LastSeqno`) and tests for the terminal packet before it tests the checksum
(`ReceiveCut`), and its timer thread reads an empty set after the transfer
(`TimerCrash`); a worker whose file is empty may finish before the main thread has
recorded it, which ends the server (`Finalize`); the cleanup thread does nothing, so
that a client is served once and its thread's id stays registered; two transfers at a
time disturb each other's loss sequence, and may read past its end (`Crash` of
`PacketSender`); a client in the server's directory empties the file it asks for
(`ClientOpens`).

## 5. Fairness

* Threads: weak fairness of the worker's steps that wait for nothing: the
  scheduler runs every thread, and no mutex of selective repeat or stop-and-wait
  is held for ever.
* The timer thread's treatment of a timeout: strong fairness. The thread loops
  for ever, a packet that remains unacknowledged is older than the timeout sooner
  or later, but between two attempts the worker may have changed the set.
  In `stop_and_wait` this is stated for each address: the set is ordered by time
  stamps, and re-sending renews them.
* Network: strong fairness of receiving each kind of datagram that is sent again
  and again; a network in which every copy is lost for ever delivers nothing.
  In `selective_repeat` this is said of the packets the client waits for, of the ACKs
  the worker waits for, and of the copies of the packet at the front of the window,
  which the server repeats until the client, who has it, acknowledges it once more.
  The terminal packet is sent once and not lost: weak fairness of receiving it.
* Client: the request is sent again every five seconds (weak fairness).

Nothing is fair about losses, duplicates, corruption, sleeping, `TimerCrash` or a
second run of a client. `go_back_n` has no liveness property: its first timeout locks
the sender (`gbn_timeout`).

## 6. What is proved

Every invariant and every refinement that the passing runs check is proved, for all
values of the constants that the named assumptions allow. None of the properties is
inductive alone: each proof module has an inductive invariant `IInv`, which conjoins
them with what links them (lemmas `InitInvariant` and `Invariance`), and goes action by
action.

**Selective repeat** (`SelectiveRepeatProofs`), for every file, every `MaxWindowSize`
and `ClientWindowSizes`, with the handshake's datagrams in flight or not, from the
assumptions in `Datagrams`, `SelectiveRepeatStrategy` and `ClientSelectiveRepeat` (sizes
are positive, the empty payload is not a payload of the file). The invariant adds

* on the sender's side, `FrontUnacked` (the front of the window is never acknowledged,
  since `advance_window` pops it), `AckedApart` and `AckedLive` (acknowledged packets
  are not in the timer's set and not deleted), `EmptyAtEnd` (the window is empty only
  when the whole file has gone through it, which is what makes the terminal packet
  true), `SentUnacked` (the packet between its sending and its insertion is the last of
  the window and not acknowledged) and `StartsSmall` (no timer thread before the window
  of one packet is sent);
* on the network, `NetSafe` (what is in flight to the client is a packet of the file
  with its own payload, the ACK of the request, or the terminal packet, the last only
  when the client has written everything before it) and `AckSafe` (an ACK in flight
  is of a packet the client has buffered or written);
* on the receiver's side, `ClientSafe` (the buffer holds payloads of the file, beyond
  the expected packet).

`AckSafe` is what carries the receiver's state to the sender: with it an ACK that is
counted is true (`AckedIsReceived`), so that what is popped, a run of acknowledged
packets from the oldest on, is written, because the receiver delivers every
consecutive packet (`PoppedIsWritten`); with that and `EmptyAtEnd` the terminal packet
is true (`NetSafe`), and with it the client stops only on a complete file. Lemmas about
runs (`Prefix`, `Suffix`, `AppendRun`, `AckPops`) and about the code's helpers
(`ShrinkEffect`, `SendPacketEffect`, `DeliverWrites`) are stated once.

`DownOnlyAcked` follows in two steps. `CrashStep`: where the timer thread finds the set
or the window empty, either the window is empty, or it has one packet, just sent and not
yet inserted (`OneSentOnly`), because a window that is not empty has an unacknowledged
front, which `TimerCovers` keeps in the set unless it is that packet. `EmptyIsWritten`:
an empty window that is not being filled means the end of the file and, by
`PoppedIsWritten`, that all of it is written; the same invariant gives what comes before
the one packet. Nothing but the crash takes the server down, and after it
the worker thread stands still.

**Stop-and-wait** (`StopAndWaitProofs`), for every file, the empty one included, and
any memory. `NetSafe` and `AckSafe` are as above; what is particular is memory: a stale
pointer of the timer thread may point at a packet that is deleted, or at the one that
reuses its place. `HeapOfFile` says that memory holds nothing but packets of the file
once it has held one, so that even what is sent through a stale pointer is harmless;
`WindowLive` and `Places` say what the two threads may rely on where they are.

`DownOnlyAfterAck` follows from `DownInv`. Before the first packet is popped
(`FirstPacket`) there is no other the timer thread could point to: its pointer is the
packet in the window, which `TimerCovers` keeps in its set, so that it finds neither the
set empty nor the window gone. The packet is popped only when it was acknowledged, and
then it is written (`AcksAreTrue`) and stays so (`WrittenGrows`). `Begun`: the
constructor has read the first packet, so that a window that is empty has lost one.

**Go-back-N** (`GoBackNProofs`), for every file with fewer packets than there are
numbers, every pair of windows and every first number that `CleanSpec` (section 3)
allows. `TimerRun` says exactly which packets the timer's set has at each place of the
worker, `Places` that `advance_window` pops no more than there is, and `AckSafe` that a
number which may be acknowledged is that of a written packet, though numbers wrap. The
case of a first number other than 0 is closed by `Skewed`: the client waits for a number
the server never sends, nothing is acknowledged, and the window stays where it was.

`TimeoutIsFinal`, `DownOnlyAcked` and `CompleteUnlessCut` are proved together, from
`EndInv`, which adds to `IInv`: `Locked` (the timer thread that waits for `set_mutex`
holds it, and there is a packet in its set; as every step that would take the packet out
needs the mutex, it stays), `Ended` (the terminal packet is sent, or received, only when
the worker thread has finished, and then the window is empty) and `Started` (a timer
thread that runs while `start` is still sending has a packet of the window to wait
for). A finished worker has an empty window, hence by `TimerRun` an empty set: not after
a timeout. What a corrupted packet does is part of every one of these: it makes the
client repeat its last ACK, which is of a written packet or of none, or stop, and
`client_cut` says so.

**Sessions** (`ServerSessionsProofs`), for any clients, thread ids and files. `Owner`: a
living worker is the one its client is registered with, or is being registered in the
main thread's next step; hence no second worker, whatever is repeated. `QueueOwner`:
what is in a thread's queue comes from clients registered with that id; `Recorded`: an
id that is registered is recorded or is so in the main thread's next step, so that a
worker who got an ACK finds its record. `Dispatching` ties the main thread's place to
the thread it dispatches. `Sent` is what may be in flight to a client; as its packets
with data have the numbers of the file's and the two empty ones have others, a client
that stops has all (`DoneHasAll`).

`PacketsAreWritten` rests on `AckInv`, which says of each client one of two things.
Either it *waits* (`Waits`): the terminal packet is on no way to it, every ACK of its,
in flight or in any queue, is of a packet it has written, and the worker that serves it
under an id of its own is not ahead of it. Or it has *ended* (`Ended`): it is registered
and no thread serves it, and as registrations are never removed, none ever will. Only
the terminal packet lets a client begin again, and with it forget what it has written,
so that the false ACKs this leaves behind belong to clients nobody serves. That nothing
is ever cleaned up, which is the cause of `sessions_acks`, is also what keeps this true.

**Packets** (`PacketsProofs`): `SumFits` and `SumIsOnesComplement` for packets of every
length and content, at the sender and at the receiver. The argument is that adding a
word and wrapping once takes the ones' complement sum of n to that of n plus the word,
from the uniqueness of remainders (`RemainderIsUnique`).

`PacketChangeProofs` goes on to what the checksum is for. `TransitInv` says that `total`
is the sum of the words the loop has passed, and that what the receiver adds up was
packed by the sender with one char changed or none. From it: `IntactIsAccepted`
(`JoinOfSplit`, `ByteOfChar`: what is packed is unpacked), and for a change of one char
(`ChangeIsDetected`) that it is one of a header field or of a byte of data, which moves
the sum by less than 65535, the modulus of the checksum, and not by 0 (`ChangeInSum`,
`ChecksumsApart`): it is noticed. The exception is the high byte of the length field. If
it is reduced, `unpack` cuts off 256 bytes of data or a multiple of that, and these may
add up, with what is missing in the length, to the modulus: 255 bytes 0xFF and one 0xFE
do. `MAX_DATA_SIZE` is 500 (`shared/packet_util.h:9`), so packets that long are sent.
`ChangesNoticed` (`AcceptedIsSent`, of packets of every length) says that there is no
other exception. Sums of sequences are functions on the naturals,
and what is shown of them by induction is shown of sets of naturals (`LeastNatural`,
`SetInduction`, from the well-foundedness of `<`).

**Packet sender** (`PacketSenderProofs`), for any threads, mutexes and loss sequence.
`Exclusive`: threads with the same mutex are not both inside; `Place`: what the counters
are at each place of a thread that shares its mutex with all; `IndexPending`: an index
out of range has a thread that will reduce it.

**Packet builder** (`PacketBuilderProofs`), for every file, packet size and block size.
`Chain`: the packets cut off, handed out or queued, are consecutive and end where the
reading got to; `Whole`: they are what one single block would give (`CutGrows`), which
needs that all blocks but the last are full; `ClientFile`: what the client writes into
the file it has emptied never makes it larger than what was read of it.

## 7. What is only model-checked

* Liveness (`Completion`, `Served`), which is outside the prover's reach.

## 8. What is not modelled

* The parsers, which read configuration files once at the start; file names and
  directories, except that a client's file may be the server's.
* The file writer's buffer and its closing; the statistics written at the end, the
  plots.
* `dummy_client.cpp`, an early test program.
* The timer thread's wrapper object with its unused mutex and condition variable; its
  thread is in the strategies. The exits of the process on system errors.
* Which packet `packet_sender` drops at random: a free choice, like any loss.
* `advance_window` reads an element through an iterator that `pop_front` has
  invalidated; with the standard library's deque the memory is still there.
* A client that is killed in the middle of a transfer and started again: a client runs
  again (`RunAgain`) only after it has stopped by itself.
* In the sessions, the timer thread's crash, which ends the process for all clients.
* ACKs whose checksum does not match, in `stop_and_wait` and `go_back_n`: the servers
  of these modes do not test it, and the models' networks deliver no corrupted ACK.
* Loss of the terminal packet: `rdt_strategy.h:43` assumes there is none.

## 9. Plan

Done: all three modes with models, refinements and safety proofs; the sessions,
packets, packet sender and packet builder with models and proofs. What is left:

1. A transfer with corrupted ACKs in `stop_and_wait` and `go_back_n`, which would be
   read as other numbers.
2. The composition of `ServerSessions` with a strategy's timer thread, so that a
   transfer's crash is seen by the other clients.
3. A run of `Packets` with two changed chars, to say which of them the checksum
   notices.
