--------------------------- MODULE ServerSessions ----------------------------
(***************************************************************************)
(* The server's main thread, its worker threads and the clients they serve *)
(* (server.cpp, client.cpp): requests, dispatching, the three maps that    *)
(* tie a client's address to its worker thread and to the queue of its     *)
(* ACKs, and what a worker thread does when it has finished.               *)
(*                                                                         *)
(* The server is in stop_and_wait mode: a worker sends one packet of its   *)
(* client's file after the other, again and again until it is ACKed.  What *)
(* the strategies do inside is the subject of other modules.               *)
(*                                                                         *)
(* The maps are each protected by a mutex of their own; a step of the main *)
(* thread or of a worker is one critical section.  Only the main thread    *)
(* changes registered_clients, so that it may read it without its mutex.   *)
(* cleanup_working_threads, started by init, does nothing: its body is     *)
(* commented out, and no step of this module stands for it.                *)
(*                                                                         *)
(* A std::thread::id is that of a thread that has ended once that thread   *)
(* is detached: pthread_create reuses it.                                  *)
(*                                                                         *)
(* Definitions named Buggy... are mistakes the properties are tested       *)
(* against; the model does not use them.                                   *)
(***************************************************************************)
EXTENDS Naturals, Sequences, FiniteSets

CONSTANTS Clients,       \* addresses, ip:port
          ThreadIds,     \* of worker threads
          NoClient,
          NoThread,
          FileSizes,     \* of the files on the server, in packets
          MaxQueue       \* bound on the length of a queue of ACKs

ASSUME SessionAssumption ==
  /\ FileSizes \subseteq Nat
  /\ MaxQueue \in Nat \ {0}
  /\ NoClient \notin Clients
  /\ NoThread \notin ThreadIds

VARIABLES registered_clients,   \* address -> id of the worker thread
          working_threads,      \* id -> "running" or "done"
          worker_threads_acks,  \* id -> queue of ACKs
          main_pc,              \* "receive", "register" or "record"
          dispatched,           \* the thread id dispatch_worker_thread is about
          worker,               \* id -> the worker thread
          server_up,
          req_file,             \* size of the file each client requests
          client_pc,            \* "idle", "waiting", "receiving" or "done"
          expected_seqno,       \* of each client
          toClient,             \* datagrams in flight to each client
          toServer              \* datagrams in flight to the server

serverVars == <<registered_clients, working_threads, worker_threads_acks, main_pc,
                dispatched, worker, server_up>>
clientVars == <<req_file, client_pc, expected_seqno>>
vars == <<serverVars, clientVars, toClient, toServer>>

\* Datagrams to the server are told apart by the number in their first four
\* bytes only: a request has 0 there, an ACK its ackno.
Request == 0
Datagram(from, number) == [from |-> from, number |-> number]

\* Those to a client have a number and data or none: the ACK of the request has
\* number 0 and no data, a data packet its seqno, the terminal packet the seqno
\* after the last and no data.
Packet(number, empty) == [number |-> number, empty |-> empty]
RequestAck == Packet(0, TRUE)
Terminal(c) == req_file[c] + 1

\* A worker thread: the client it serves, where it is, and the packet it sends.
Worker(client, pc, packet) == [client |-> client, pc |-> pc, packet |-> packet]
NoWorker == Worker(NoClient, "none", 1)
Alive(t) == worker[t] # NoWorker

Init ==
  /\ registered_clients = <<>>
  /\ working_threads = <<>>
  /\ worker_threads_acks = [t \in ThreadIds |-> <<>>]
  /\ main_pc = "receive"
  /\ dispatched = NoThread
  /\ worker = [t \in ThreadIds |-> NoWorker]
  /\ server_up = TRUE
  /\ req_file \in [Clients -> FileSizes]
  /\ client_pc = [c \in Clients |-> "idle"]
  /\ expected_seqno = [c \in Clients |-> 1]
  /\ toClient = [c \in Clients |-> {}]
  /\ toServer = {}

\* A received datagram leaves the network, or stays as a copy of itself.
TakeFromClient(d) == /\ d \in toServer
                     /\ toServer' \in {toServer, toServer \ {d}}

SendToServer(c, number) == toServer' = toServer \cup {Datagram(c, number)}

SendToClient(c, p) == toClient' = [toClient EXCEPT ![c] = @ \cup {p}]

-----------------------------------------------------------------------------
(* The main thread: start() and dispatch_worker_thread.                    *)

MainAt(from, to) == server_up /\ main_pc = from /\ main_pc' = to /\ UNCHANGED server_up

\* A mistake: a request is served whether its sender is registered or not.
BuggyIsRegistered(d) == d.from \in DOMAIN registered_clients /\ d.number # Request

IsRegistered(d) == d.from \in DOMAIN registered_clients

\* The queue of the thread id that registered_clients has for the sender.
QueueOf(c) == registered_clients[c]

\* The bound MaxQueue.
HasRoom(c) == Len(worker_threads_acks[QueueOf(c)]) < MaxQueue

\* A datagram of a registered client is an ACK, for the worker's queue.
ReceiveAck(d) ==
  /\ MainAt("receive", "receive")
  /\ IsRegistered(d)
  /\ HasRoom(d.from)
  /\ TakeFromClient(d)
  /\ worker_threads_acks' = [worker_threads_acks EXCEPT ![QueueOf(d.from)] = Append(@, d)]
  /\ UNCHANGED <<registered_clients, working_threads, dispatched, worker, clientVars, toClient>>

\* Any other datagram is a request: it is ACKed and gets a worker thread, which
\* runs from now on.
ReceiveRequest(d) ==
  /\ MainAt("receive", "register")
  /\ ~IsRegistered(d)
  /\ TakeFromClient(d)
  /\ SendToClient(d.from, RequestAck)
  /\ \E t \in ThreadIds : /\ ~Alive(t)
                         /\ worker' = [worker EXCEPT ![t] = Worker(d.from, "start", 1)]
                         /\ dispatched' = t
  /\ UNCHANGED <<registered_clients, working_threads, worker_threads_acks, clientVars>>

\* A mistake: there is no entry.
BuggyEnter(map, key, value) == map

\* map[key] = value
Enter(map, key, value) ==
  [x \in DOMAIN map \cup {key} |-> IF x = key THEN value ELSE map[x]]

\* registered_clients[address] = id.
Register ==
  /\ MainAt("register", "record")
  /\ registered_clients' = Enter(registered_clients, worker[dispatched].client, dispatched)
  /\ UNCHANGED <<working_threads, worker_threads_acks, dispatched, worker, clientVars,
                 toClient, toServer>>

\* working_threads[id] = the new thread, not done; it is detached.
Record ==
  /\ MainAt("record", "receive")
  /\ working_threads' = Enter(working_threads, dispatched, "running")
  /\ worker' = [worker EXCEPT ![dispatched] = IF @.pc = "return" THEN NoWorker ELSE @]
  /\ dispatched' = NoThread
  /\ UNCHANGED <<registered_clients, worker_threads_acks, clientVars, toClient, toServer>>

Main == \/ \E d \in toServer : ReceiveAck(d) \/ ReceiveRequest(d)
        \/ Register
        \/ Record

-----------------------------------------------------------------------------
(* A worker thread: handle_worker_thread.                                  *)

\* A mistake: the last packet is not waited for.
BuggyHasPacket(t) == worker[t].packet < req_file[worker[t].client]

\* The window holds a packet until the last one is ACKed.
HasPacket(t) == worker[t].packet <= req_file[worker[t].client]

WorkerAt(t, from, to) ==
  /\ server_up
  /\ worker[t].pc \in from
  /\ worker' = [worker EXCEPT ![t].pc = to]
  /\ UNCHANGED <<registered_clients, working_threads, worker_threads_acks, main_pc,
                 dispatched, server_up, clientVars, toServer>>

\* start(), and every timeout, sends the packet of the window.
SendPacket(t) ==
  /\ WorkerAt(t, {"start", "serving"}, "serving")
  /\ HasPacket(t)
  /\ SendToClient(worker[t].client, Packet(worker[t].packet, FALSE))

\* An ACK is popped from the queue; that of the packet in the window moves the
\* window on, any other is skipped.
Acknowledge(t) ==
  /\ server_up
  /\ worker[t].pc = "serving"
  /\ HasPacket(t)
  /\ worker_threads_acks[t] # <<>>
  /\ worker_threads_acks' = [worker_threads_acks EXCEPT ![t] = Tail(@)]
  /\ worker' = IF Head(worker_threads_acks[t]).number = worker[t].packet
               THEN [worker EXCEPT ![t].packet = @ + 1]
               ELSE worker
  /\ UNCHANGED <<registered_clients, working_threads, main_pc, dispatched, server_up,
                 clientVars, toClient, toServer>>

\* is_done: the client is told with the empty packet, which has the number the
\* next packet would have.
Finish(t) ==
  /\ WorkerAt(t, {"start", "serving"}, "finalize")
  /\ ~HasPacket(t)
  /\ SendToClient(worker[t].client, Packet(worker[t].packet, TRUE))

\* finalize_worker_thread, and the end of the thread: it marks what
\* working_threads has under its id as done.  When the main thread has not
\* recorded it yet and nothing is there under its id, operator[] makes a null
\* pointer, and mark_done of it is a fault.
Finalize(t) ==
  /\ server_up
  /\ worker[t].pc = "finalize"
  /\ \/ /\ t \in DOMAIN working_threads
        /\ working_threads' = [working_threads EXCEPT ![t] = "done"]
        /\ worker' = [worker EXCEPT ![t] = IF dispatched = t
                                           THEN [@ EXCEPT !.pc = "return"] ELSE NoWorker]
        /\ UNCHANGED server_up
     \/ /\ t \notin DOMAIN working_threads
        /\ server_up' = FALSE
        /\ UNCHANGED <<working_threads, worker>>
  /\ UNCHANGED <<registered_clients, worker_threads_acks, main_pc, dispatched, clientVars,
                 toClient, toServer>>

WorkerThread(t) == SendPacket(t) \/ Acknowledge(t) \/ Finish(t) \/ Finalize(t)

-----------------------------------------------------------------------------
(* A client: run(), handle_ack_timeout and receive_datagrams.              *)

\* The request is sent, and sent again when nothing was received for 5 seconds.
SendRequest(c) ==
  /\ client_pc[c] \in {"idle", "waiting"}
  /\ client_pc' = [client_pc EXCEPT ![c] = "waiting"]
  /\ SendToServer(c, Request)
  /\ UNCHANGED <<serverVars, req_file, expected_seqno, toClient>>

\* A received datagram leaves the network, or stays as a copy of itself.
TakeFromServer(c, p) ==
  /\ p \in toClient[c]
  /\ toClient' \in {toClient, [toClient EXCEPT ![c] = @ \ {p}]}

\* Whatever comes from the server counts as the ACK of the request.
ReceiveRequestAck(c) ==
  /\ client_pc[c] = "waiting"
  /\ \E p \in toClient[c] : TakeFromServer(c, p)
  /\ client_pc' = [client_pc EXCEPT ![c] = "receiving"]
  /\ UNCHANGED <<serverVars, req_file, expected_seqno, toServer>>

\* A mistake: only the ACK of a request is known to have no data.
BuggyIsTerminal(p) == p = RequestAck

IsTerminal(p) == p.empty

\* The expected packet is written and ACKed.
WriteExpected(c, p) ==
  /\ p.number = expected_seqno[c]
  /\ ~IsTerminal(p)
  /\ expected_seqno' = [expected_seqno EXCEPT ![c] = @ + 1]
  /\ SendToServer(c, p.number)
  /\ UNCHANGED <<req_file, client_pc>>

\* A mistake: it is dropped.
BuggyAckOld(c, p) == UNCHANGED toServer

AckOld(c, p) == SendToServer(c, p.number)

\* An older packet is ACKed again.
AckAgain(c, p) ==
  /\ p.number < expected_seqno[c]
  /\ AckOld(c, p)
  /\ UNCHANGED clientVars

\* An empty packet ends the reception when its number is the expected one.
Stop(c, p) ==
  /\ p.number = expected_seqno[c]
  /\ IsTerminal(p)
  /\ client_pc' = [client_pc EXCEPT ![c] = "done"]
  /\ UNCHANGED <<req_file, expected_seqno, toServer>>

\* A later one is beyond the window and dropped.
DropLater(c, p) ==
  /\ p.number > expected_seqno[c]
  /\ UNCHANGED <<clientVars, toServer>>

ReceivePacket(c, p) ==
  /\ client_pc[c] = "receiving"
  /\ TakeFromServer(c, p)
  /\ \/ WriteExpected(c, p) \/ AckAgain(c, p)
     \/ Stop(c, p) \/ DropLater(c, p)
  /\ UNCHANGED serverVars

\* The client program is run again on the same port, for the same file.
RunAgain(c) ==
  /\ client_pc[c] = "done"
  /\ client_pc' = [client_pc EXCEPT ![c] = "idle"]
  /\ expected_seqno' = [expected_seqno EXCEPT ![c] = 1]
  /\ UNCHANGED <<serverVars, req_file, toClient, toServer>>

Client(c) == \/ SendRequest(c) \/ ReceiveRequestAck(c) \/ RunAgain(c)
             \/ \E p \in toClient[c] : ReceivePacket(c, p)

-----------------------------------------------------------------------------
\* Datagrams get lost, but not the terminal packet (send_empty_packet).  One for
\* a queue at its bound is lost later: the code has no such bound, and a wait for
\* it must not lose what would have been received.
Lose ==
  /\ \/ /\ \E d \in toServer : /\ d.from \in DOMAIN registered_clients => HasRoom(d.from)
                               /\ toServer' = toServer \ {d}
        /\ UNCHANGED toClient
     \/ /\ \E c \in Clients : \E p \in toClient[c] :
             /\ p.empty => p = RequestAck
             /\ toClient' = [toClient EXCEPT ![c] = @ \ {p}]
        /\ UNCHANGED toServer
  /\ UNCHANGED <<serverVars, clientVars>>

Next == \/ Main
        \/ \E t \in ThreadIds : WorkerThread(t)
        \/ \E c \in Clients : Client(c)
        \/ Lose

Spec == Init /\ [][Next]_vars

-----------------------------------------------------------------------------
(***************************************************************************)
(* Fairness.  The threads keep running; an unacknowledged packet is sent   *)
(* again, and so is a request without an answer; what is sent again and    *)
(* again to a receiver that waits for it arrives in the end.               *)
(***************************************************************************)
LongestFile == CHOOSE n \in FileSizes : \A k \in FileSizes : k <= n
Acks == 1..LongestFile
Packets == {Packet(n, FALSE) : n \in Acks} \cup {Packet(n + 1, TRUE) : n \in FileSizes}

Fairness ==
  /\ WF_vars(Register \/ Record)
  /\ \A t \in ThreadIds : /\ WF_vars(SendPacket(t))
                          /\ WF_vars(Acknowledge(t))
                          /\ WF_vars(Finish(t) \/ Finalize(t))
  /\ \A c \in Clients : /\ WF_vars(SendRequest(c))
                        /\ SF_vars(ReceiveRequest(Datagram(c, Request)))
                        /\ SF_vars(ReceiveRequestAck(c))
                        /\ \A n \in Acks : SF_vars(ReceiveAck(Datagram(c, n)))
                        /\ \A p \in Packets : SF_vars(ReceivePacket(c, p))

FairSpec == Spec /\ Fairness

-----------------------------------------------------------------------------
\* Every variable stays in its type; no number runs past that of the terminal
\* packet.
TypeOK ==
  /\ DOMAIN registered_clients \subseteq Clients
  /\ \A c \in DOMAIN registered_clients : registered_clients[c] \in ThreadIds
  /\ DOMAIN working_threads \subseteq ThreadIds
  /\ \A t \in DOMAIN working_threads : working_threads[t] \in {"running", "done"}
  /\ worker_threads_acks \in [ThreadIds -> Seq([from : Clients, number : Nat])]
  /\ main_pc \in {"receive", "register", "record"}
  /\ dispatched \in ThreadIds \cup {NoThread}
  /\ worker \in [ThreadIds -> [client : Clients \cup {NoClient},
                               pc : {"none", "start", "serving", "finalize", "return"},
                               packet : Nat]]
  /\ \A t \in ThreadIds : Alive(t) => worker[t].packet \in 1..Terminal(worker[t].client)
  /\ server_up \in BOOLEAN
  /\ req_file \in [Clients -> FileSizes]
  /\ client_pc \in [Clients -> {"idle", "waiting", "receiving", "done"}]
  /\ expected_seqno \in [Clients -> Nat]
  /\ toClient \in [Clients -> SUBSET [number : Nat, empty : BOOLEAN]]
  /\ \A c \in Clients : /\ expected_seqno[c] \in 1..Terminal(c)
                        /\ \A p \in toClient[c] : p.number <= Terminal(c)
  /\ toServer \subseteq [from : Clients, number : Nat]
  /\ \A d \in toServer : d.number <= req_file[d.from]

\* However often a client repeats its request, and whenever that request or a
\* copy of it arrives, one worker thread serves it.
OneWorkerPerClient ==
  \A t, u \in ThreadIds :
    Alive(t) /\ Alive(u) /\ worker[t].client = worker[u].client => t = u

\* An ACK of a client that is being served waits in the queue of the thread
\* that serves it and in no other.
ServedInOwnQueue ==
  \A t, u \in ThreadIds : \A i \in 1..Len(worker_threads_acks[t]) :
    Alive(u) /\ worker[u].client = worker_threads_acks[t][i].from => u = t

\* A worker thread that finalizes finds an entry to mark as done, unless its
\* file is empty: to have had an ACK in its queue, it must have been registered,
\* and recorded before the main thread received the ACK, or its id be that of an
\* earlier thread that was.
FinalizeMarks ==
  \A t \in ThreadIds :
    worker[t].pc = "finalize" /\ req_file[worker[t].client] > 0
      => t \in DOMAIN working_threads

\* When the server goes down for want of an entry, the main thread is just
\* dispatching the worker thread that has finished.
DownOnlyDispatching ==
  server_up \/ /\ main_pc \in {"register", "record"}
               /\ worker[dispatched].pc = "finalize"

\* A client that has stopped has written the whole file: the empty packet, whatever
\* ACKs of other clients and other runs the worker thread was moved on by, comes
\* with the number the client expects only after all data.
DoneHasAll == \A c \in Clients : client_pc[c] = "done" => expected_seqno[c] = Terminal(c)

\* No other client is, or was ever, registered with thread t's id.
OwnId(t) ==
  \A c \in DOMAIN registered_clients : registered_clients[c] = t => c = worker[t].client

\* A worker thread goes on to a packet only when its client has written those before
\* it, whatever is late, repeated or left over from an earlier run of the client:
\* unless it has got the id of another client's thread.
PacketsAreWritten ==
  \A t \in ThreadIds :
    worker[t].pc \in {"start", "serving"} /\ OwnId(t)
      => worker[t].packet <= expected_seqno[worker[t].client]

\* "Push received ack in the queue of the thread handling this client": what a
\* worker thread finds in its queue was sent by the client it serves.
AcksOfOwnClient ==
  \A t \in ThreadIds : Alive(t) =>
    \A i \in 1..Len(worker_threads_acks[t]) :
      worker_threads_acks[t][i].from = worker[t].client

\* A client gets the whole file, whatever is lost of its request, of the
\* answer to it, of the packets and of the ACKs.
Served == \A c \in Clients : <>(client_pc[c] = "done")

==============================================================================
