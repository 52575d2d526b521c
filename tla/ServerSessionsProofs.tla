------------------------- MODULE ServerSessionsProofs -------------------------
(***************************************************************************)
(* The safety of ServerSessions for any clients, files and thread ids, by  *)
(* the inductive invariant IInv.                                           *)
(***************************************************************************)
EXTENDS ServerSessions, SequenceTheorems, TLAPS

-----------------------------------------------------------------------------
(* What makes the properties inductive.                                    *)

ServerType ==
  /\ DOMAIN registered_clients \subseteq Clients
  /\ \A c \in DOMAIN registered_clients : registered_clients[c] \in ThreadIds
  /\ DOMAIN working_threads \subseteq ThreadIds
  /\ \A t \in DOMAIN working_threads : working_threads[t] \in {"running", "done"}
  /\ worker_threads_acks \in [ThreadIds -> Seq([from : Clients, number : Nat])]
  /\ main_pc \in {"receive", "register", "record"}
  /\ dispatched \in ThreadIds \cup {NoThread}
  /\ worker \in [ThreadIds -> [client : Clients \cup {NoClient},
                               pc : {"none", "start", "serving", "finalize", "return"},
                               packet : Nat]]
  /\ server_up \in BOOLEAN
  /\ req_file \in [Clients -> FileSizes]

\* A worker thread that runs serves a client, and has finished when it says so;
\* it can have gone on to its second packet only when it is recorded.
WorkerOK(t) ==
  Alive(t) => /\ worker[t].client \in Clients
              /\ worker[t].pc # "none"
              /\ worker[t].packet \in 1..Terminal(worker[t].client)
              /\ worker[t].pc \in {"finalize", "return"} =>
                   worker[t].packet > req_file[worker[t].client]
              /\ worker[t].packet > 1 => t \in DOMAIN working_threads

\* The thread that is being dispatched.
Dispatching ==
  /\ main_pc = "receive" <=> dispatched = NoThread
  /\ main_pc # "receive" => Alive(dispatched)
  /\ main_pc = "register" => worker[dispatched].client \notin DOMAIN registered_clients

\* Any other worker thread is the one its client is registered with.
Owner(t) ==
  Alive(t) => \/ main_pc = "register" /\ dispatched = t
              \/ /\ worker[t].client \in DOMAIN registered_clients
                 /\ registered_clients[worker[t].client] = t

\* What waits in a queue comes from clients registered with that thread id.
QueueOwner(t) ==
  \A i \in 1..Len(worker_threads_acks[t]) :
    /\ worker_threads_acks[t][i].from \in DOMAIN registered_clients
    /\ registered_clients[worker_threads_acks[t][i].from] = t

\* A thread whose id is registered is recorded, or just about to be; one with
\* something in its queue is.
Recorded ==
  /\ \A c \in DOMAIN registered_clients :
       \/ registered_clients[c] \in DOMAIN working_threads
       \/ main_pc = "record" /\ registered_clients[c] = dispatched
  /\ \A t \in ThreadIds : worker_threads_acks[t] # <<>> => t \in DOMAIN working_threads

ServerInv ==
  /\ ServerType
  /\ Dispatching
  /\ Recorded
  /\ \A t \in ThreadIds : WorkerOK(t) /\ Owner(t) /\ QueueOwner(t)
  /\ DownOnlyDispatching

\* What the server sends to c: the ACK of the request, packets with data, the
\* terminal packet.  That no empty packet has the number of one with data is what
\* the server owes to the client.
Sent(c) == {RequestAck} \cup {Packet(n, FALSE) : n \in 1..req_file[c]}
             \cup {Packet(Terminal(c), TRUE)}

ClientType ==
  /\ client_pc \in [Clients -> {"idle", "waiting", "receiving", "done"}]
  /\ expected_seqno \in [Clients -> Nat]
  /\ \A c \in Clients : expected_seqno[c] \in 1..Terminal(c)
  /\ toClient \in [Clients -> SUBSET [number : Nat, empty : BOOLEAN]]
  /\ \A c \in Clients : toClient[c] \subseteq Sent(c)
  /\ toServer \subseteq [from : Clients, number : Nat]
  /\ \A d \in toServer : d.number <= req_file[d.from]

IInv == ServerInv /\ ClientType /\ DoneHasAll

-----------------------------------------------------------------------------
LEMMA SizeFacts ==
  ASSUME ServerType, NEW c \in Clients
  PROVE  req_file[c] \in Nat /\ Terminal(c) = req_file[c] + 1
  BY SessionAssumption DEF ServerType, Terminal

\* An empty packet is an answer to a request or the terminal packet; one with data
\* has the number of one of the file's.
LEMMA SentFacts ==
  ASSUME ServerType, NEW c \in Clients, NEW p \in Sent(c)
  PROVE  /\ p \in [number : Nat, empty : BOOLEAN]
         /\ p.number \in 0..Terminal(c)
         /\ p.empty => p.number \in {0, Terminal(c)}
         /\ ~p.empty => p.number \in 1..req_file[c]
  <1>1. req_file[c] \in Nat /\ Terminal(c) = req_file[c] + 1
    BY SizeFacts
  <1>2. CASE p = RequestAck
    BY <1>1, <1>2 DEF Packet, RequestAck
  <1>3. CASE \E n \in 1..req_file[c] : p = Packet(n, FALSE)
    BY <1>1, <1>3 DEF Packet
  <1>4. CASE p = Packet(Terminal(c), TRUE)
    BY <1>1, <1>4 DEF Packet
  <1> QED BY <1>2, <1>3, <1>4 DEF Sent

LEMMA InitInvariant == Init => IInv
  <1> SUFFICES ASSUME Init PROVE IInv
    OBVIOUS
  <1>1. /\ DOMAIN registered_clients = {} /\ DOMAIN working_threads = {}
        /\ \A t \in ThreadIds : worker_threads_acks[t] = <<>> /\ ~Alive(t)
        /\ dispatched = NoThread /\ main_pc = "receive" /\ server_up
        /\ \A c \in Clients : client_pc[c] = "idle" /\ expected_seqno[c] = 1 /\ toClient[c] = {}
        /\ toServer = {}
    BY DEF Init, Alive
  <1>2. ServerType
    <2>1. NoWorker \in [client : Clients \cup {NoClient},
                        pc : {"none", "start", "serving", "finalize", "return"}, packet : Nat]
      BY DEF NoWorker, Worker
    <2>2. worker_threads_acks \in [ThreadIds -> Seq([from : Clients, number : Nat])]
      BY DEF Init
    <2> QED BY <1>1, <2>1, <2>2 DEF Init, ServerType
  <1>3. ServerInv
    <2>1. \A t \in ThreadIds : Len(worker_threads_acks[t]) = 0
      BY <1>1
    <2>2. \A t \in ThreadIds : QueueOwner(t)
      BY <2>1 DEF QueueOwner
    <2> QED BY <1>1, <1>2, <2>2
            DEF ServerInv, WorkerOK, Dispatching, Owner, Recorded, DownOnlyDispatching
  <1>4. ClientType
    <2>1. \A c \in Clients : 1 \in 1..Terminal(c)
      BY <1>2, SizeFacts
    <2> QED BY <1>1, <2>1 DEF Init, ClientType
  <1>5. DoneHasAll
    BY <1>1 DEF DoneHasAll
  <1> QED BY <1>3, <1>4, <1>5 DEF IInv

-----------------------------------------------------------------------------
(* The main thread.                                                        *)

LEMMA ReceiveAckStep ==
  ASSUME ServerInv, ClientType, NEW d \in toServer, ReceiveAck(d)
  PROVE  ServerInv'
  <1> DEFINE q == registered_clients[d.from]
  <1>1. /\ main_pc = "receive" /\ main_pc' = "receive" /\ server_up /\ server_up'
        /\ d.from \in DOMAIN registered_clients
        /\ worker_threads_acks' = [worker_threads_acks EXCEPT ![q] = Append(@, d)]
        /\ UNCHANGED <<registered_clients, working_threads, dispatched, worker, req_file>>
    BY DEF ReceiveAck, MainAt, IsRegistered, QueueOf, clientVars
  <1>2. ServerType /\ q \in ThreadIds /\ d \in [from : Clients, number : Nat]
    BY <1>1 DEF ServerInv, ServerType, ClientType
  <1>3. q \in DOMAIN working_threads
    BY <1>1 DEF ServerInv, Recorded
  <1>4. /\ worker_threads_acks' \in [ThreadIds -> Seq([from : Clients, number : Nat])]
        /\ worker_threads_acks'[q] = Append(worker_threads_acks[q], d)
        /\ \A t \in ThreadIds : t # q => worker_threads_acks'[t] = worker_threads_acks[t]
    <2> DEFINE longer == Append(worker_threads_acks[q], d)
    <2>1. longer \in Seq([from : Clients, number : Nat])
      BY <1>2, AppendProperties DEF ServerType
    <2>2. worker_threads_acks' = [worker_threads_acks EXCEPT ![q] = longer]
      BY <1>1
    <2> HIDE DEF longer, q
    <2>3. /\ worker_threads_acks' \in [ThreadIds -> Seq([from : Clients, number : Nat])]
          /\ worker_threads_acks'[q] = longer
          /\ \A t \in ThreadIds : t # q => worker_threads_acks'[t] = worker_threads_acks[t]
      BY <1>2, <2>1, <2>2 DEF ServerType
    <2> QED BY <2>3 DEF longer
  <1>5. \A t \in ThreadIds : QueueOwner(t)'
    <2> SUFFICES ASSUME NEW t \in ThreadIds, NEW i \in 1..Len(worker_threads_acks'[t])
                 PROVE  /\ worker_threads_acks'[t][i].from \in DOMAIN registered_clients
                        /\ registered_clients[worker_threads_acks'[t][i].from] = t
      BY <1>1 DEF QueueOwner
    <2>1. CASE t # q \/ i \in 1..Len(worker_threads_acks[q])
      <3>1. i \in 1..Len(worker_threads_acks[t])
        BY <1>4, <2>1
      <3>2. worker_threads_acks'[t][i] = worker_threads_acks[t][i]
        <4>1. CASE t # q
          BY <1>4, <4>1
        <4>2. CASE t = q
          <5>1. /\ worker_threads_acks[q] \in Seq([from : Clients, number : Nat])
                /\ i \in 1..Len(worker_threads_acks[q])
            BY <1>2, <3>1, <4>2 DEF ServerType
          <5>2. Append(worker_threads_acks[q], d)[i] = worker_threads_acks[q][i]
            BY <1>2, <5>1, AppendProperties
          <5> QED BY <1>4, <4>2, <5>2
        <4> QED BY <4>1, <4>2
      <3> QED BY <3>1, <3>2 DEF ServerInv, QueueOwner
    <2>2. CASE t = q /\ i \notin 1..Len(worker_threads_acks[q])
      <3>1. worker_threads_acks'[q][i] = d
        BY <1>2, <1>4, <2>2 DEF ServerType
      <3> QED BY <1>1, <2>2, <3>1
    <2> QED BY <2>1, <2>2
  <1>6. ServerType'
    BY <1>1, <1>2, <1>4 DEF ServerType
  <1>7. Dispatching' /\ Recorded' /\ DownOnlyDispatching'
    BY <1>1, <1>3, <1>4 DEF ServerInv, Dispatching, Recorded, DownOnlyDispatching, Alive
  <1>8. \A t \in ThreadIds : WorkerOK(t)' /\ Owner(t)'
    BY <1>1 DEF ServerInv, WorkerOK, Owner, Alive, Terminal
  <1> QED BY <1>5, <1>6, <1>7, <1>8 DEF ServerInv

\* A request starts a worker thread for a client that has none.
LEMMA ReceiveRequestStep ==
  ASSUME ServerInv, ClientType, NEW d \in toServer, ReceiveRequest(d)
  PROVE  ServerInv'
  <1>1. /\ main_pc = "receive" /\ main_pc' = "register" /\ server_up /\ server_up'
        /\ d.from \notin DOMAIN registered_clients /\ d.from \in Clients
        /\ UNCHANGED <<registered_clients, working_threads, worker_threads_acks, req_file>>
    BY DEF ReceiveRequest, MainAt, IsRegistered, clientVars, ClientType
  <1>2. PICK b \in ThreadIds : /\ ~Alive(b)
                               /\ worker' = [worker EXCEPT ![b] = Worker(d.from, "start", 1)]
                               /\ dispatched' = b
    BY DEF ReceiveRequest
  <1>3. ServerType /\ b # NoThread
    BY SessionAssumption DEF ServerInv
  <1>4. /\ worker'[b].client = d.from /\ worker'[b].pc = "start" /\ worker'[b].packet = 1
        /\ \A t \in ThreadIds : t # b => worker'[t] = worker[t]
        /\ worker' \in [ThreadIds -> [client : Clients \cup {NoClient},
                                      pc : {"none", "start", "serving", "finalize", "return"},
                                      packet : Nat]]
    BY <1>1, <1>2, <1>3 DEF ServerType, Worker
  <1>5. ServerType'
    BY <1>1, <1>2, <1>3, <1>4 DEF ServerType
  <1>6. Alive(b)' /\ \A t \in ThreadIds : t # b => (Alive(t)' <=> Alive(t))
    BY <1>4 DEF Alive, NoWorker, Worker
  <1>7. Dispatching' /\ DownOnlyDispatching'
    BY <1>1, <1>2, <1>3, <1>4, <1>6 DEF Dispatching, DownOnlyDispatching
  <1>8. Recorded'
    BY <1>1 DEF ServerInv, Recorded
  <1>9. \A t \in ThreadIds : WorkerOK(t)'
    <2>1. WorkerOK(b)'
      <3>1. 1 \in 1..Terminal(d.from) /\ ~(1 > 1)
        BY <1>1, <1>3, SizeFacts
      <3> QED BY <1>1, <1>4, <3>1 DEF WorkerOK, Terminal
    <2>2. \A t \in ThreadIds : t # b => WorkerOK(t)'
      BY <1>1, <1>4, <1>6 DEF ServerInv, WorkerOK, Terminal
    <2> QED BY <2>1, <2>2
  <1>10. \A t \in ThreadIds : Owner(t)' /\ QueueOwner(t)'
    BY <1>1, <1>2, <1>4, <1>6 DEF ServerInv, Owner, QueueOwner
  <1> QED BY <1>5, <1>7, <1>8, <1>9, <1>10 DEF ServerInv

LEMMA RegisterStep ==
  ASSUME ServerInv, Register
  PROVE  ServerInv'
  <1> DEFINE b == dispatched
             c == worker[dispatched].client
  <1>1. /\ main_pc = "register" /\ main_pc' = "record" /\ server_up /\ server_up'
        /\ registered_clients' = Enter(registered_clients, c, b)
        /\ UNCHANGED <<working_threads, worker_threads_acks, dispatched, worker, req_file>>
    BY DEF Register, MainAt, clientVars
  <1>2. /\ ServerType /\ b \in ThreadIds /\ Alive(b)
        /\ c \in Clients /\ c \notin DOMAIN registered_clients
    BY <1>1 DEF ServerInv, ServerType, Dispatching, WorkerOK
  <1>3. /\ DOMAIN registered_clients' = DOMAIN registered_clients \cup {c}
        /\ registered_clients'[c] = b
        /\ \A x \in DOMAIN registered_clients : registered_clients'[x] = registered_clients[x]
    BY <1>1, <1>2 DEF Enter
  <1>4. ServerType'
    BY <1>1, <1>2, <1>3 DEF ServerType
  <1>5. Dispatching' /\ DownOnlyDispatching'
    BY <1>1 DEF ServerInv, Dispatching, DownOnlyDispatching, Alive
  <1>6. Recorded'
    BY <1>1, <1>3 DEF ServerInv, Recorded
  <1>7. \A t \in ThreadIds : WorkerOK(t)'
    BY <1>1 DEF ServerInv, WorkerOK, Alive, Terminal
  <1>8. \A t \in ThreadIds : Owner(t)' /\ QueueOwner(t)'
    BY <1>1, <1>3 DEF ServerInv, Owner, QueueOwner, Alive
  <1> QED BY <1>4, <1>5, <1>6, <1>7, <1>8 DEF ServerInv

LEMMA RecordStep ==
  ASSUME ServerInv, Record
  PROVE  ServerInv'
  <1> DEFINE b == dispatched
  <1>1. /\ main_pc = "record" /\ main_pc' = "receive" /\ server_up /\ server_up'
        /\ working_threads' = Enter(working_threads, b, "running")
        /\ worker' = [worker EXCEPT ![b] = IF @.pc = "return" THEN NoWorker ELSE @]
        /\ dispatched' = NoThread
        /\ UNCHANGED <<registered_clients, worker_threads_acks, req_file>>
    BY DEF Record, MainAt, clientVars
  <1>2. ServerType /\ b \in ThreadIds
    BY <1>1 DEF ServerInv, ServerType, Dispatching
  <1>3. /\ DOMAIN working_threads' = DOMAIN working_threads \cup {b}
        /\ \A t \in DOMAIN working_threads' : working_threads'[t] \in {"running", "done"}
    BY <1>1, <1>2 DEF Enter, ServerType
  <1>4. \A t \in ThreadIds : worker'[t] = worker[t] \/ worker'[t] = NoWorker
    BY <1>1, <1>2 DEF ServerType
  <1>5. ServerType'
    <2>1. NoWorker \in [client : Clients \cup {NoClient},
                        pc : {"none", "start", "serving", "finalize", "return"}, packet : Nat]
      BY DEF NoWorker, Worker
    <2>2. worker' \in [ThreadIds -> [client : Clients \cup {NoClient},
                                     pc : {"none", "start", "serving", "finalize", "return"},
                                     packet : Nat]]
      BY <1>1, <1>2, <2>1 DEF ServerType
    <2> QED BY <1>1, <1>2, <1>3, <2>2 DEF ServerType
  <1>6. Dispatching' /\ DownOnlyDispatching'
    BY <1>1 DEF Dispatching, DownOnlyDispatching
  <1>7. Recorded'
    BY <1>1, <1>3 DEF ServerInv, Recorded
  <1>8. \A t \in ThreadIds : WorkerOK(t)' /\ Owner(t)'
    BY <1>1, <1>3, <1>4 DEF ServerInv, WorkerOK, Owner, Alive, Terminal
  <1>9. \A t \in ThreadIds : QueueOwner(t)'
    BY <1>1 DEF ServerInv, QueueOwner
  <1> QED BY <1>5, <1>6, <1>7, <1>8, <1>9 DEF ServerInv

-----------------------------------------------------------------------------
(* The worker threads.                                                     *)

\* A worker thread t goes on to w, or ends.
LEMMA WorkerPreserves ==
  ASSUME ServerInv, NEW t \in ThreadIds, Alive(t), NEW w,
         worker' = [worker EXCEPT ![t] = w],
         \/ w = NoWorker /\ dispatched # t
         \/ /\ w \in [client : Clients, pc : {"start", "serving", "finalize", "return"}, packet : Nat]
            /\ w.client = worker[t].client
            /\ w.packet \in 1..Terminal(w.client)
            /\ w.pc \in {"finalize", "return"} => w.packet > req_file[w.client]
            /\ w.packet > 1 => t \in DOMAIN working_threads,
         UNCHANGED <<registered_clients, main_pc, dispatched, req_file>>, server_up', server_up,
         DOMAIN working_threads' = DOMAIN working_threads,
         \A u \in DOMAIN working_threads : working_threads'[u] \in {"running", "done"},
         worker_threads_acks' \in [ThreadIds -> Seq([from : Clients, number : Nat])],
         \A u \in ThreadIds : /\ worker_threads_acks'[u] # <<>> => worker_threads_acks[u] # <<>>
                              /\ QueueOwner(u)'
  PROVE  ServerInv'
  <1>1. ServerType
    BY DEF ServerInv
  <1>2. worker'[t] = w /\ \A u \in ThreadIds : u # t => worker'[u] = worker[u]
    BY <1>1 DEF ServerType
  <1>3. w \in [client : Clients \cup {NoClient},
              pc : {"none", "start", "serving", "finalize", "return"}, packet : Nat]
    BY DEF NoWorker, Worker
  <1>4. ServerType'
    BY <1>1, <1>3 DEF ServerType
  <1>5. Alive(t)' => w # NoWorker
    BY <1>2 DEF Alive
  <1>6. w # NoWorker => w.pc # "none" /\ w.client \in Clients
    OBVIOUS
  <1>7. \A u \in ThreadIds : WorkerOK(u)' /\ Owner(u)'
    <2>1. WorkerOK(t)'
      BY <1>2, <1>5, <1>6 DEF WorkerOK, Terminal
    <2>2. Owner(t)'
      BY <1>2, <1>5 DEF ServerInv, Owner
    <2>3. \A u \in ThreadIds : u # t => WorkerOK(u)' /\ Owner(u)'
      BY <1>2 DEF ServerInv, WorkerOK, Owner, Alive, Terminal
    <2> QED BY <2>1, <2>2, <2>3
  <1>8. Dispatching'
    <2>1. main_pc # "receive" => dispatched \in ThreadIds
      BY <1>1 DEF ServerInv, Dispatching, ServerType
    <2>2. CASE dispatched = t
      <3>1. w # NoWorker
        <4>1. w.pc # "none"
          BY <2>2
        <4> QED BY <4>1 DEF NoWorker, Worker
      <3> QED BY <1>2, <2>2, <3>1 DEF ServerInv, Dispatching, Alive
    <2>3. CASE dispatched # t
      BY <1>2, <2>1, <2>3 DEF ServerInv, Dispatching, Alive
    <2> QED BY <2>2, <2>3
  <1>9. Recorded'
    BY DEF ServerInv, Recorded
  <1>10. DownOnlyDispatching'
    BY DEF DownOnlyDispatching
  <1> QED BY <1>4, <1>7, <1>8, <1>9, <1>10 DEF ServerInv

LEMMA Running ==
  ASSUME ServerInv, NEW t \in ThreadIds, worker[t].pc # "none"
  PROVE  /\ ServerType /\ Alive(t)
         /\ worker[t] \in [client : Clients \cup {NoClient},
                          pc : {"none", "start", "serving", "finalize", "return"}, packet : Nat]
  <1>1. Alive(t)
    BY DEF Alive, NoWorker, Worker
  <1> QED BY <1>1 DEF ServerInv, ServerType

\* Where a worker thread is, its other fields, and what it leaves alone.
LEMMA WorkerMoves ==
  ASSUME ServerInv, NEW t \in ThreadIds, NEW from, "none" \notin from, NEW to, WorkerAt(t, from, to)
  PROVE  /\ Alive(t) /\ worker[t].pc \in from
         /\ worker' = [worker EXCEPT ![t] = [worker[t] EXCEPT !.pc = to]]
         /\ [worker[t] EXCEPT !.pc = to] = Worker(worker[t].client, to, worker[t].packet)
         /\ UNCHANGED <<registered_clients, working_threads, worker_threads_acks, main_pc,
                        dispatched, req_file>>
         /\ server_up /\ server_up'
  <1>1. worker[t].pc \in from /\ worker[t].pc # "none"
    BY DEF WorkerAt
  <1>2. Alive(t)
    BY <1>1 DEF Alive, NoWorker, Worker
  <1>3. worker[t] \in [client : Clients \cup {NoClient},
                      pc : {"none", "start", "serving", "finalize", "return"}, packet : Nat]
    BY DEF ServerInv, ServerType
  <1>4. [worker[t] EXCEPT !.pc = to] = Worker(worker[t].client, to, worker[t].packet)
    BY <1>3 DEF Worker
  <1> QED BY <1>1, <1>2, <1>4 DEF WorkerAt, clientVars

LEMMA SendOrFinishStep ==
  ASSUME ServerInv, NEW t \in ThreadIds, SendPacket(t) \/ Finish(t)
  PROVE  ServerInv'
  <1> DEFINE to == IF HasPacket(t) THEN "serving" ELSE "finalize"
             w == Worker(worker[t].client, to, worker[t].packet)
  <1>1. WorkerAt(t, {"start", "serving"}, to)
    BY DEF SendPacket, Finish
  <1>2. /\ Alive(t) /\ server_up /\ server_up'
        /\ worker' = [worker EXCEPT ![t] = w]
        /\ UNCHANGED <<registered_clients, working_threads, worker_threads_acks, main_pc,
                       dispatched, req_file>>
    BY <1>1, WorkerMoves
  <1>3. /\ worker[t].client \in Clients /\ worker[t].packet \in 1..Terminal(worker[t].client)
        /\ worker[t].packet > 1 => t \in DOMAIN working_threads
        /\ worker[t].packet \in Nat
    BY <1>2 DEF ServerInv, WorkerOK, ServerType
  <1>4. to = "finalize" => worker[t].packet > req_file[worker[t].client]
    BY <1>3, SizeFacts DEF HasPacket, ServerInv
  <1>5. /\ w \in [client : Clients, pc : {"start", "serving", "finalize", "return"}, packet : Nat]
        /\ w.client = worker[t].client /\ w.pc = to /\ w.packet = worker[t].packet
    BY <1>3 DEF Worker
  <1>6. /\ \A u \in ThreadIds : QueueOwner(u)'
        /\ worker_threads_acks' \in [ThreadIds -> Seq([from : Clients, number : Nat])]
        /\ \A u \in DOMAIN working_threads : working_threads'[u] \in {"running", "done"}
    BY <1>2 DEF ServerInv, QueueOwner, ServerType
  <1> HIDE DEF w
  <1>7. w.pc \in {"finalize", "return"} => w.packet > req_file[w.client]
    BY <1>4, <1>5
  <1> QED BY <1>2, <1>3, <1>5, <1>6, <1>7, WorkerPreserves

LEMMA AcknowledgeStep ==
  ASSUME ServerInv, NEW t \in ThreadIds, Acknowledge(t)
  PROVE  ServerInv'
  <1> DEFINE q == worker_threads_acks
             moved == Head(q[t]).number = worker[t].packet
             packet == IF moved THEN worker[t].packet + 1 ELSE worker[t].packet
             w == Worker(worker[t].client, "serving", packet)
  <1>1. /\ worker[t].pc = "serving" /\ HasPacket(t) /\ q[t] # <<>> /\ server_up /\ server_up'
        /\ q' = [q EXCEPT ![t] = Tail(q[t])]
        /\ worker' = IF moved THEN [worker EXCEPT ![t].packet = @ + 1] ELSE worker
        /\ UNCHANGED <<registered_clients, working_threads, main_pc, dispatched, req_file>>
    BY DEF Acknowledge, clientVars
  <1>2. /\ ServerType /\ Alive(t)
        /\ worker[t] \in [client : Clients \cup {NoClient},
                         pc : {"none", "start", "serving", "finalize", "return"}, packet : Nat]
    BY <1>1, Running
  <1>3. /\ worker[t].client \in Clients /\ worker[t].packet \in 1..Terminal(worker[t].client)
        /\ worker[t].packet \in Nat /\ worker[t].packet <= req_file[worker[t].client]
    BY <1>1, <1>2 DEF ServerInv, WorkerOK, HasPacket
  <1>4. packet \in Nat /\ packet \in 1..Terminal(worker[t].client)
    BY <1>2, <1>3, SizeFacts
  <1>5. worker' = [worker EXCEPT ![t] = w]
    <2>1. CASE moved
      <3>1. [worker[t] EXCEPT !.packet = @ + 1] = w
        BY <1>1, <1>2, <2>1 DEF Worker
      <3> QED BY <1>1, <2>1, <3>1
    <2>2. CASE ~moved
      <3>1. worker[t] = w
        BY <1>1, <1>2, <2>2 DEF Worker
      <3>2. worker' = worker /\ [worker EXCEPT ![t] = worker[t]] = worker
        BY <1>1, <1>2, <2>2 DEF ServerType
      <3> QED BY <3>1, <3>2
    <2> QED BY <2>1, <2>2
  <1> HIDE DEF moved, packet
  <1>6. /\ w \in [client : Clients, pc : {"start", "serving", "finalize", "return"}, packet : Nat]
        /\ w.client = worker[t].client /\ w.pc = "serving" /\ w.packet = packet
    BY <1>3, <1>4 DEF Worker
  <1>7. t \in DOMAIN working_threads
    BY <1>1 DEF ServerInv, Recorded
  <1>8. /\ Tail(q[t]) \in Seq([from : Clients, number : Nat])
        /\ Len(Tail(q[t])) = Len(q[t]) - 1
        /\ \A i \in 1..Len(Tail(q[t])) : Tail(q[t])[i] = q[t][i + 1]
        /\ Len(q[t]) \in Nat
    <2>1. q[t] \in Seq([from : Clients, number : Nat]) /\ q[t] # <<>>
      BY <1>1, <1>2 DEF ServerType
    <2> QED BY <2>1, HeadTailProperties
  <1> DEFINE rest == Tail(q[t])
  <1> HIDE DEF rest
  <1>9. /\ q' \in [ThreadIds -> Seq([from : Clients, number : Nat])]
        /\ q'[t] = rest
        /\ \A u \in ThreadIds : u # t => q'[u] = q[u]
    <2>1. q' = [q EXCEPT ![t] = rest] /\ rest \in Seq([from : Clients, number : Nat])
      BY <1>1, <1>8 DEF rest
    <2> QED BY <1>2, <2>1 DEF ServerType
  <1>10. \A u \in ThreadIds : QueueOwner(u)'
    <2>1. QueueOwner(t)'
      <3> SUFFICES ASSUME NEW i \in 1..Len(rest)
                   PROVE  /\ rest[i].from \in DOMAIN registered_clients
                          /\ registered_clients[rest[i].from] = t
        BY <1>1, <1>9 DEF QueueOwner
      <3>1. i + 1 \in 1..Len(q[t]) /\ rest[i] = q[t][i + 1]
        BY <1>8 DEF rest
      <3> QED BY <3>1 DEF ServerInv, QueueOwner
    <2>2. \A u \in ThreadIds : u # t => QueueOwner(u)'
      BY <1>1, <1>9 DEF ServerInv, QueueOwner
    <2> QED BY <2>1, <2>2
  <1>11. \A u \in ThreadIds : q'[u] # <<>> => q[u] # <<>>
    BY <1>1, <1>9
  <1>12. \A u \in DOMAIN working_threads : working_threads'[u] \in {"running", "done"}
    BY <1>1, <1>2 DEF ServerType
  <1> HIDE DEF w
  <1> QED BY <1>1, <1>2, <1>4, <1>5, <1>6, <1>7, <1>9, <1>10, <1>11, <1>12, WorkerPreserves

\* A worker thread without an entry is just being dispatched.
LEMMA FinalizeStep ==
  ASSUME ServerInv, NEW t \in ThreadIds, Finalize(t)
  PROVE  ServerInv'
  <1>1. /\ server_up /\ worker[t].pc = "finalize"
        /\ UNCHANGED <<registered_clients, worker_threads_acks, main_pc, dispatched, req_file>>
    BY DEF Finalize, clientVars
  <1>2. /\ ServerType /\ Alive(t)
        /\ worker[t] \in [client : Clients \cup {NoClient},
                         pc : {"none", "start", "serving", "finalize", "return"}, packet : Nat]
    BY <1>1, Running
  <1>3. CASE t \in DOMAIN working_threads
    <2> DEFINE w == IF dispatched = t THEN Worker(worker[t].client, "return", worker[t].packet)
                                      ELSE NoWorker
    <2>1. /\ working_threads' = [working_threads EXCEPT ![t] = "done"]
          /\ worker' = [worker EXCEPT ![t] = IF dispatched = t
                                             THEN [@ EXCEPT !.pc = "return"] ELSE NoWorker]
          /\ server_up'
      BY <1>1, <1>3 DEF Finalize
    <2>2. [worker[t] EXCEPT !.pc = "return"] = Worker(worker[t].client, "return", worker[t].packet)
      BY <1>2 DEF Worker
    <2>3. worker' = [worker EXCEPT ![t] = w]
      BY <2>1, <2>2
    <2>4. /\ DOMAIN working_threads' = DOMAIN working_threads
          /\ \A u \in DOMAIN working_threads : working_threads'[u] \in {"running", "done"}
      BY <1>2, <2>1 DEF ServerType
    <2>5. /\ worker[t].client \in Clients /\ worker[t].packet \in Nat
          /\ worker[t].packet \in 1..Terminal(worker[t].client)
          /\ worker[t].packet > req_file[worker[t].client]
      BY <1>1, <1>2 DEF ServerInv, WorkerOK
    <2>6. \/ w = NoWorker /\ dispatched # t
          \/ /\ w \in [client : Clients, pc : {"start", "serving", "finalize", "return"}, packet : Nat]
             /\ w.client = worker[t].client
             /\ w.packet \in 1..Terminal(w.client)
             /\ w.packet > req_file[w.client]
      BY <2>5 DEF Worker
    <2>7. /\ \A u \in ThreadIds : QueueOwner(u)'
          /\ worker_threads_acks' \in [ThreadIds -> Seq([from : Clients, number : Nat])]
      BY <1>1, <1>2 DEF ServerInv, QueueOwner, ServerType
    <2> HIDE DEF w
    <2>8. \/ w = NoWorker /\ dispatched # t
          \/ /\ w \in [client : Clients, pc : {"start", "serving", "finalize", "return"}, packet : Nat]
             /\ w.client = worker[t].client
             /\ w.packet \in 1..Terminal(w.client)
             /\ w.pc \in {"finalize", "return"} => w.packet > req_file[w.client]
             /\ w.packet > 1 => t \in DOMAIN working_threads
      BY <1>3, <2>6
    <2>9. \A u \in ThreadIds : /\ worker_threads_acks'[u] # <<>> => worker_threads_acks[u] # <<>>
                               /\ QueueOwner(u)'
      BY <1>1, <2>7
    <2> QED BY <1>1, <1>2, <2>1, <2>3, <2>4, <2>7, <2>8, <2>9, WorkerPreserves, ZenonT(30)
  <1>4. CASE t \notin DOMAIN working_threads
    <2>1. server_up' = FALSE /\ UNCHANGED <<working_threads, worker>>
      BY <1>4 DEF Finalize
    <2>2. t = dispatched /\ main_pc \in {"register", "record"}
      BY <1>2, <1>4 DEF ServerInv, Owner, Recorded
    <2>3. DownOnlyDispatching'
      BY <1>1, <2>1, <2>2 DEF DownOnlyDispatching
    <2>4. ServerType' /\ Dispatching' /\ Recorded'
      BY <1>1, <1>2, <2>1 DEF ServerInv, ServerType, Dispatching, Recorded, Alive
    <2>5. \A u \in ThreadIds : WorkerOK(u)' /\ Owner(u)' /\ QueueOwner(u)'
      BY <1>1, <2>1 DEF ServerInv, WorkerOK, Owner, QueueOwner, Alive, Terminal
    <2> QED BY <2>3, <2>4, <2>5 DEF ServerInv
  <1> QED BY <1>3, <1>4

-----------------------------------------------------------------------------
(* What the server's steps do to what is in flight.                        *)

LEMMA ServerNet ==
  ASSUME ServerInv, ClientType, DoneHasAll, UNCHANGED clientVars, toServer' \subseteq toServer,
         \/ UNCHANGED toClient
         \/ \E c \in Clients : \E p \in Sent(c) : SendToClient(c, p)
  PROVE  ClientType' /\ DoneHasAll'
  <1>1. \A c \in Clients : req_file[c] \in Nat /\ Terminal(c) = req_file[c] + 1
    BY SizeFacts DEF ServerInv
  <1>2. /\ UNCHANGED <<req_file, client_pc, expected_seqno>>
        /\ \A c \in Clients : Terminal(c)' = Terminal(c)
    BY DEF clientVars, Terminal
  <1>3. /\ toClient' \in [Clients -> SUBSET [number : Nat, empty : BOOLEAN]]
        /\ \A b \in Clients : toClient'[b] \subseteq Sent(b)
    <2>1. ASSUME NEW c \in Clients, NEW p \in Sent(c), SendToClient(c, p)
          PROVE  /\ toClient' \in [Clients -> SUBSET [number : Nat, empty : BOOLEAN]]
                 /\ \A b \in Clients : toClient'[b] \subseteq Sent(b)
      <3>1. p \in [number : Nat, empty : BOOLEAN]
        BY SentFacts DEF ServerInv
      <3>2. /\ toClient'[c] = toClient[c] \cup {p}
            /\ \A b \in Clients : b # c => toClient'[b] = toClient[b]
        BY <2>1 DEF SendToClient, ClientType
      <3>3. toClient' \in [Clients -> SUBSET [number : Nat, empty : BOOLEAN]]
        BY <2>1, <3>1 DEF SendToClient, ClientType
      <3> QED BY <2>1, <3>2, <3>3 DEF ClientType
    <2> QED BY <2>1 DEF ClientType
  <1>4. ClientType'
    <2>1. \A b \in Clients : Sent(b)' = Sent(b)
      BY <1>2 DEF Sent
    <2> QED BY <1>2, <1>3, <2>1 DEF ClientType
  <1>5. DoneHasAll'
    BY <1>2 DEF DoneHasAll
  <1> QED BY <1>4, <1>5

LEMMA MainStep ==
  ASSUME IInv, Main
  PROVE  IInv'
  <1>1. ServerInv /\ ClientType /\ DoneHasAll
    BY DEF IInv
  <1>2. ServerInv'
    BY <1>1, ReceiveAckStep, ReceiveRequestStep, RegisterStep, RecordStep DEF Main
  <1>3. UNCHANGED clientVars /\ toServer' \subseteq toServer
    BY DEF Main, ReceiveAck, ReceiveRequest, Register, Record, TakeFromClient
  <1>4. \/ UNCHANGED toClient
        \/ \E c \in Clients : \E p \in Sent(c) : SendToClient(c, p)
    <2>1. ASSUME NEW d \in toServer, ReceiveRequest(d)
          PROVE  \E c \in Clients : \E p \in Sent(c) : SendToClient(c, p)
      <3>1. d.from \in Clients
        BY <1>1 DEF ClientType
      <3> QED BY <2>1, <3>1 DEF ReceiveRequest, Sent
    <2> QED BY <2>1 DEF Main, ReceiveAck, Register, Record
  <1>5. ClientType' /\ DoneHasAll'
    BY <1>1, <1>3, <1>4, ServerNet
  <1> QED BY <1>2, <1>5 DEF IInv

LEMMA WorkerStep ==
  ASSUME IInv, NEW t \in ThreadIds, WorkerThread(t)
  PROVE  IInv'
  <1>1. ServerInv /\ ClientType /\ DoneHasAll
    BY DEF IInv
  <1>2. ServerInv'
    BY <1>1, SendOrFinishStep, AcknowledgeStep, FinalizeStep DEF WorkerThread
  <1>3. UNCHANGED clientVars /\ toServer' \subseteq toServer
    BY DEF WorkerThread, SendPacket, Acknowledge, Finish, Finalize, WorkerAt
  <1>4. \/ UNCHANGED toClient
        \/ \E c \in Clients : \E p \in Sent(c) : SendToClient(c, p)
    <2>1. CASE SendPacket(t) \/ Finish(t)
      <3>1. worker[t].pc # "none"
        BY <2>1 DEF SendPacket, Finish, WorkerAt
      <3>2. /\ worker[t].client \in Clients
            /\ worker[t].packet \in 1..Terminal(worker[t].client)
        BY <1>1, <3>1, Running DEF ServerInv, WorkerOK
      <3>3. IF HasPacket(t) THEN worker[t].packet \in 1..req_file[worker[t].client]
                            ELSE worker[t].packet = Terminal(worker[t].client)
        BY <1>1, <3>2, SizeFacts DEF ServerInv, HasPacket
      <3>4. Packet(worker[t].packet, ~HasPacket(t)) \in Sent(worker[t].client)
        BY <3>3 DEF Sent, HasPacket
      <3>5. SendToClient(worker[t].client, Packet(worker[t].packet, ~HasPacket(t)))
        BY <2>1 DEF SendPacket, Finish
      <3> QED BY <3>2, <3>4, <3>5
    <2>2. CASE Acknowledge(t) \/ Finalize(t)
      BY <2>2 DEF Acknowledge, Finalize
    <2> QED BY <2>1, <2>2 DEF WorkerThread
  <1>5. ClientType' /\ DoneHasAll'
    BY <1>1, <1>3, <1>4, ServerNet
  <1> QED BY <1>2, <1>5 DEF IInv

-----------------------------------------------------------------------------
(* The clients and the network.                                            *)

LEMMA ServerKeeps ==
  ASSUME ServerInv, UNCHANGED <<serverVars, req_file>>
  PROVE  ServerInv'
  <1>1. ServerType' /\ Dispatching' /\ Recorded' /\ DownOnlyDispatching'
    BY DEF ServerInv, ServerType, Dispatching, Recorded, DownOnlyDispatching, Alive, serverVars
  <1>2. \A t \in ThreadIds : WorkerOK(t)' /\ Owner(t)' /\ QueueOwner(t)'
    BY DEF ServerInv, WorkerOK, Owner, QueueOwner, Alive, Terminal, serverVars
  <1> QED BY <1>1, <1>2 DEF ServerInv

\* What a client sends has a number up to that of its last packet.
LEMMA ClientSends ==
  ASSUME ServerInv, ClientType, NEW c \in Clients, NEW number \in 0..req_file[c],
         SendToServer(c, number)
  PROVE  /\ toServer' \subseteq [from : Clients, number : Nat]
         /\ \A d \in toServer' : d.number <= req_file[d.from]
  <1>1. req_file[c] \in Nat
    BY SizeFacts DEF ServerInv
  <1>2. /\ Datagram(c, number) \in [from : Clients, number : Nat]
        /\ Datagram(c, number).from = c /\ Datagram(c, number).number = number
        /\ number <= req_file[c]
    BY <1>1 DEF Datagram
  <1>3. toServer' = toServer \cup {Datagram(c, number)}
    BY DEF SendToServer
  <1> HIDE DEF Datagram
  <1> QED BY <1>2, <1>3 DEF ClientType

LEMMA TakeKeeps ==
  ASSUME ServerInv, ClientType, NEW c \in Clients, NEW p, TakeFromServer(c, p)
  PROVE  /\ p \in Sent(c)
         /\ toClient' \in [Clients -> SUBSET [number : Nat, empty : BOOLEAN]]
         /\ \A b \in Clients : toClient'[b] \subseteq Sent(b)
  <1>1. p \in Sent(c)
    BY DEF TakeFromServer, ClientType
  <1>2. CASE toClient' = toClient
    BY <1>1, <1>2 DEF ClientType
  <1>3. CASE toClient' = [toClient EXCEPT ![c] = @ \ {p}]
    <2>1. /\ toClient' \in [Clients -> SUBSET [number : Nat, empty : BOOLEAN]]
          /\ \A b \in Clients : toClient'[b] \subseteq toClient[b]
      BY <1>3 DEF ClientType
    <2> QED BY <1>1, <2>1 DEF ClientType
  <1> QED BY <1>2, <1>3 DEF TakeFromServer

LEMMA ReceivePacketStep ==
  ASSUME IInv, NEW c \in Clients, NEW p, ReceivePacket(c, p)
  PROVE  IInv'
  <1>1. ServerInv /\ ClientType /\ DoneHasAll
    BY DEF IInv
  <1>2. /\ client_pc[c] = "receiving" /\ UNCHANGED <<serverVars, req_file>>
        /\ TakeFromServer(c, p)
    BY DEF ReceivePacket, WriteExpected, AckAgain, Stop, DropLater, clientVars
  <1>3. /\ toClient' \in [Clients -> SUBSET [number : Nat, empty : BOOLEAN]]
        /\ \A b \in Clients : toClient'[b] \subseteq Sent(b)
        /\ p.number \in 0..Terminal(c)
        /\ p.empty => p.number \in {0, Terminal(c)}
        /\ ~p.empty => p.number \in 1..req_file[c]
    <2>1. p \in Sent(c)
      BY <1>1, <1>2, TakeKeeps
    <2> QED BY <1>1, <1>2, <2>1, TakeKeeps, SentFacts DEF ServerInv
  <1>4. \A b \in Clients : /\ req_file[b] \in Nat /\ Terminal(b) = req_file[b] + 1
                           /\ Terminal(b)' = Terminal(b) /\ Sent(b)' = Sent(b)
    BY <1>1, <1>2, SizeFacts DEF ServerInv, Terminal, Sent
  <1>5. ServerInv'
    BY <1>1, <1>2, ServerKeeps
  <1>6. /\ expected_seqno \in [Clients -> Nat]
        /\ \A b \in Clients : expected_seqno[b] \in 1..Terminal(b)
        /\ client_pc \in [Clients -> {"idle", "waiting", "receiving", "done"}]
        /\ toServer \subseteq [from : Clients, number : Nat]
        /\ \A d \in toServer : d.number <= req_file[d.from]
    BY <1>1 DEF ClientType
  <1>7. CASE WriteExpected(c, p)
    <2>1. /\ p.number = expected_seqno[c] /\ ~p.empty
          /\ expected_seqno' = [expected_seqno EXCEPT ![c] = expected_seqno[c] + 1]
          /\ SendToServer(c, p.number) /\ UNCHANGED client_pc
      BY <1>7 DEF WriteExpected, IsTerminal
    <2>2. p.number \in 0..req_file[c] /\ p.number + 1 \in 1..Terminal(c) /\ p.number + 1 \in Nat
      BY <1>3, <1>4, <2>1
    <2>3. /\ toServer' \subseteq [from : Clients, number : Nat]
          /\ \A d \in toServer' : d.number <= req_file[d.from]
      BY <1>1, <2>1, <2>2, ClientSends
    <2>4. /\ expected_seqno' \in [Clients -> Nat]
          /\ expected_seqno'[c] = p.number + 1
          /\ \A b \in Clients : b # c => expected_seqno'[b] = expected_seqno[b]
      BY <1>6, <2>1, <2>2
    <2>5. ClientType'
      BY <1>2, <1>3, <1>4, <1>6, <2>1, <2>2, <2>3, <2>4 DEF ClientType
    <2>6. DoneHasAll'
      BY <1>1, <1>2, <1>4, <2>1, <2>4 DEF DoneHasAll
    <2> QED BY <1>5, <2>5, <2>6 DEF IInv
  <1>8. CASE AckAgain(c, p)
    <2>1. p.number < expected_seqno[c] /\ SendToServer(c, p.number) /\ UNCHANGED clientVars
      BY <1>8 DEF AckAgain, AckOld
    <2>2. p.number \in 0..req_file[c]
      BY <1>3, <1>4, <1>6, <2>1
    <2>3. /\ toServer' \subseteq [from : Clients, number : Nat]
          /\ \A d \in toServer' : d.number <= req_file[d.from]
      BY <1>1, <2>1, <2>2, ClientSends
    <2> QED BY <1>1, <1>3, <1>4, <1>5, <2>1, <2>3 DEF IInv, ClientType, DoneHasAll, clientVars
  <1>9. CASE Stop(c, p)
    <2>1. /\ expected_seqno[c] = p.number /\ p.empty
          /\ client_pc' = [client_pc EXCEPT ![c] = "done"]
          /\ UNCHANGED <<expected_seqno, toServer>>
      BY <1>9 DEF Stop, IsTerminal
    <2>2. expected_seqno[c] = Terminal(c)
      BY <1>3, <1>4, <1>6, <2>1
    <2>3. /\ client_pc' \in [Clients -> {"idle", "waiting", "receiving", "done"}]
          /\ \A b \in Clients : b # c => client_pc'[b] = client_pc[b]
      BY <1>6, <2>1
    <2>4. ClientType'
      BY <1>2, <1>3, <1>4, <1>6, <2>1, <2>3 DEF ClientType
    <2>5. DoneHasAll'
      BY <1>1, <1>4, <2>1, <2>2, <2>3 DEF DoneHasAll
    <2> QED BY <1>5, <2>4, <2>5 DEF IInv
  <1>10. CASE DropLater(c, p)
    BY <1>1, <1>3, <1>4, <1>5, <1>10 DEF DropLater, IInv, ClientType, DoneHasAll, clientVars
  <1> QED BY <1>7, <1>8, <1>9, <1>10 DEF ReceivePacket

LEMMA ClientStep ==
  ASSUME IInv, NEW c \in Clients, Client(c)
  PROVE  IInv'
  <1>1. ServerInv /\ ClientType /\ DoneHasAll
    BY DEF IInv
  <1>2. CASE \E p \in toClient[c] : ReceivePacket(c, p)
    BY <1>2, ReceivePacketStep
  <1>3. CASE SendRequest(c) \/ ReceiveRequestAck(c) \/ RunAgain(c)
    <2>1. UNCHANGED <<serverVars, req_file>>
      BY <1>3 DEF SendRequest, ReceiveRequestAck, RunAgain
    <2>2. \A b \in Clients : /\ req_file[b] \in Nat /\ Terminal(b) = req_file[b] + 1
                             /\ Terminal(b)' = Terminal(b) /\ Sent(b)' = Sent(b)
      BY <1>1, <2>1, SizeFacts DEF ServerInv, Terminal, Sent
    <2>3. /\ toClient' \in [Clients -> SUBSET [number : Nat, empty : BOOLEAN]]
          /\ \A b \in Clients : toClient'[b] \subseteq Sent(b)
      BY <1>1, <1>3, TakeKeeps DEF SendRequest, ReceiveRequestAck, RunAgain, ClientType
    <2>4. /\ toServer' \subseteq [from : Clients, number : Nat]
          /\ \A d \in toServer' : d.number <= req_file[d.from]
      <3>1. CASE SendRequest(c)
        <4>1. Request \in 0..req_file[c]
          BY <2>2 DEF Request
        <4> QED BY <1>1, <3>1, <4>1, ClientSends DEF SendRequest
      <3>2. CASE ReceiveRequestAck(c) \/ RunAgain(c)
        BY <1>1, <3>2 DEF ReceiveRequestAck, RunAgain, ClientType
      <3> QED BY <1>3, <3>1, <3>2
    <2>5. PICK to \in {"idle", "waiting", "receiving"} : client_pc' = [client_pc EXCEPT ![c] = to]
      BY <1>3 DEF SendRequest, ReceiveRequestAck, RunAgain
    <2>6. /\ client_pc' \in [Clients -> {"idle", "waiting", "receiving", "done"}]
          /\ client_pc'[c] # "done"
          /\ \A b \in Clients : b # c => client_pc'[b] = client_pc[b]
      BY <1>1, <2>5 DEF ClientType
    <2>7. /\ expected_seqno' \in [Clients -> Nat]
          /\ \A b \in Clients : b # c => expected_seqno'[b] = expected_seqno[b]
          /\ \A b \in Clients : expected_seqno'[b] \in 1..Terminal(b)
      <3>1. 1 \in 1..Terminal(c)
        BY <2>2
      <3> QED BY <1>1, <1>3, <3>1 DEF SendRequest, ReceiveRequestAck, RunAgain, ClientType
    <2>8. ClientType'
      BY <2>1, <2>2, <2>3, <2>4, <2>6, <2>7 DEF ClientType
    <2>9. DoneHasAll'
      BY <1>1, <2>2, <2>6, <2>7 DEF DoneHasAll
    <2>10. ServerInv'
      BY <1>1, <2>1, ServerKeeps
    <2> QED BY <2>8, <2>9, <2>10 DEF IInv
  <1> QED BY <1>2, <1>3 DEF Client

LEMMA LoseStep ==
  ASSUME IInv, Lose
  PROVE  IInv'
  <1>1. ServerInv /\ ClientType /\ DoneHasAll /\ UNCHANGED <<serverVars, clientVars>>
    BY DEF IInv, Lose
  <1>2. toServer' \subseteq toServer
    BY DEF Lose
  <1>3. /\ toClient' \in [Clients -> SUBSET [number : Nat, empty : BOOLEAN]]
        /\ \A c \in Clients : toClient'[c] \subseteq toClient[c]
    BY <1>1 DEF Lose, ClientType
  <1>4. ServerInv'
    BY <1>1, ServerKeeps DEF clientVars
  <1>5. ClientType' /\ DoneHasAll'
    BY <1>1, <1>2, <1>3 DEF ClientType, DoneHasAll, clientVars, Terminal, Sent
  <1> QED BY <1>4, <1>5 DEF IInv

LEMMA Invariance == IInv /\ [Next]_vars => IInv'
  <1> SUFFICES ASSUME IInv, [Next]_vars PROVE IInv'
    OBVIOUS
  <1>1. CASE Main
    BY <1>1, MainStep
  <1>2. ASSUME NEW t \in ThreadIds, WorkerThread(t) PROVE IInv'
    BY <1>2, WorkerStep
  <1>3. ASSUME NEW c \in Clients, Client(c) PROVE IInv'
    BY <1>3, ClientStep
  <1>4. CASE Lose
    BY <1>4, LoseStep
  <1>5. CASE UNCHANGED vars
    <2>1. ServerInv'
      BY <1>5, ServerKeeps DEF IInv, vars, clientVars
    <2>2. ClientType' /\ DoneHasAll'
      BY <1>5 DEF IInv, ClientType, DoneHasAll, Terminal, Sent, vars, clientVars
    <2> QED BY <2>1, <2>2 DEF IInv
  <1> QED BY <1>1, <1>2, <1>3, <1>4, <1>5 DEF Next

LEMMA Invariant == Spec => []IInv
  BY InitInvariant, Invariance, PTL DEF Spec

-----------------------------------------------------------------------------
\* Every variable keeps its type, for any clients, files and thread ids.
THEOREM TypeCorrect == Spec => []TypeOK
  <1>1. ASSUME IInv PROVE TypeOK
    <2>1. \A c \in Clients : \A p \in toClient[c] : p.number <= Terminal(c)
      <3> SUFFICES ASSUME NEW c \in Clients, NEW p \in toClient[c] PROVE p.number <= Terminal(c)
        OBVIOUS
      <3>1. ServerType /\ p \in Sent(c)
        BY <1>1 DEF IInv, ServerInv, ClientType
      <3> QED BY <3>1, SentFacts, SizeFacts
    <2> QED BY <1>1, <2>1 DEF IInv, ServerInv, ServerType, ClientType, WorkerOK, TypeOK
  <1> QED BY <1>1, Invariant, PTL

\* dispatch_worker_thread: a client that repeats its request gets no second worker
\* thread.
THEOREM WorkersCorrect == Spec => []OneWorkerPerClient
  <1>1. IInv => OneWorkerPerClient
    BY DEF IInv, ServerInv, Owner, Dispatching, OneWorkerPerClient
  <1> QED BY <1>1, Invariant, PTL

\* start(): the ACKs of a client that is served are in the queue of its worker
\* thread, though ids are reused.
THEOREM QueuesCorrect == Spec => []ServedInOwnQueue
  <1>1. ASSUME IInv PROVE ServedInOwnQueue
    <2> SUFFICES ASSUME NEW t \in ThreadIds, NEW u \in ThreadIds,
                        NEW i \in 1..Len(worker_threads_acks[t]),
                        Alive(u), worker[u].client = worker_threads_acks[t][i].from
                 PROVE  u = t
      BY DEF ServedInOwnQueue
    <2>1. /\ worker[u].client \in DOMAIN registered_clients
          /\ registered_clients[worker[u].client] = t
      BY <1>1 DEF IInv, ServerInv, QueueOwner
    <2>2. ~(main_pc = "register" /\ dispatched = u)
      BY <1>1, <2>1 DEF IInv, ServerInv, Dispatching
    <2> QED BY <1>1, <2>1, <2>2 DEF IInv, ServerInv, Owner
  <1> QED BY <1>1, Invariant, PTL

\* finalize_worker_thread: after a file that is not empty, the worker thread has
\* an entry to mark.
THEOREM FinalizeCorrect == Spec => []FinalizeMarks
  <1>1. ASSUME IInv PROVE FinalizeMarks
    <2>1. ASSUME NEW t \in ThreadIds, worker[t].pc = "finalize", req_file[worker[t].client] > 0
          PROVE  t \in DOMAIN working_threads
      <3>1. Alive(t) /\ ServerType
        BY <1>1, <2>1, Running DEF IInv
      <3>2. /\ worker[t].client \in Clients
            /\ worker[t].packet > req_file[worker[t].client]
            /\ worker[t].packet \in Nat
            /\ worker[t].packet > 1 => t \in DOMAIN working_threads
        BY <1>1, <2>1, <3>1 DEF IInv, ServerInv, WorkerOK, ServerType
      <3>3. req_file[worker[t].client] \in Nat
        BY <3>1, <3>2, SizeFacts
      <3> QED BY <2>1, <3>2, <3>3
    <2> QED BY <2>1 DEF FinalizeMarks
  <1> QED BY <1>1, Invariant, PTL

\* finalize_worker_thread: the process ends only with a worker thread that ends
\* while it is being dispatched.
THEOREM DispatchCorrect == Spec => []DownOnlyDispatching
  <1>1. IInv => DownOnlyDispatching
    BY DEF IInv, ServerInv
  <1> QED BY <1>1, Invariant, PTL

\* run() of the client's strategy ends the reception at an empty packet with the
\* expected number: the server sends none, to this client or in any run, whose number
\* is that of a packet with data, so that a client that stops has written all of them.
THEOREM ClientsCorrect == Spec => []DoneHasAll
  <1>1. IInv => DoneHasAll
    BY DEF IInv
  <1> QED BY <1>1, Invariant, PTL
-----------------------------------------------------------------------------
(* What an ACK is worth: nothing, when the client was served before; that the  *)
(* packet is written, as long as the client waits for its file.               *)

\* A client that is registered, or about to be: no second worker thread will serve it.
Taken(c) ==
  \/ c \in DOMAIN registered_clients
  \/ main_pc = "register" /\ worker[dispatched].client = c

\* A client whose worker thread has sent the terminal packet.
Ended(c) ==
  /\ Taken(c)
  /\ \A t \in ThreadIds : worker[t].client = c => worker[t].pc \notin {"start", "serving"}

\* The terminal packet is on no way to c, nor has c had it.
NoTerminal(c) ==
  /\ \A p \in toClient[c] : p.empty => p.number = 0
  /\ client_pc[c] # "done"

\* ACKs of c, in the network or in a queue, are of packets c has written.
AcksInFlight(c) == \A d \in toServer : d.from = c => d.number < expected_seqno[c]

AcksInQueue(c) ==
  \A t \in ThreadIds : \A i \in 1..Len(worker_threads_acks[t]) :
    worker_threads_acks[t][i].from = c => worker_threads_acks[t][i].number < expected_seqno[c]

\* The worker thread of c, whose id is c's only, has packets before its own only
\* that c has written.
Behind(c) ==
  \A t \in ThreadIds :
    worker[t].client = c /\ worker[t].pc \in {"start", "serving"} /\ OwnId(t)
      => worker[t].packet <= expected_seqno[c]

\* A client to which the terminal packet was not sent.
Waits(c) == NoTerminal(c) /\ AcksInFlight(c) /\ AcksInQueue(c) /\ Behind(c)

\* As long as the terminal packet was not sent to a client, its ACKs are true.
AckInv == \A c \in Clients : Ended(c) \/ Waits(c)

\* Nothing was sent yet.
LEMMA InitAcks == Init => AckInv
  <1> SUFFICES ASSUME Init, NEW c \in Clients PROVE Waits(c)
    BY DEF AckInv
  <1>1. /\ \A t \in ThreadIds : worker_threads_acks[t] = <<>> /\ worker[t] = NoWorker
        /\ client_pc[c] = "idle" /\ toClient[c] = {} /\ toServer = {}
    BY DEF Init
  <1>2. NoWorker.pc = "none" /\ Len(<<>>) = 0
    BY DEF NoWorker, Worker
  <1> QED BY <1>1, <1>2 DEF Waits, NoTerminal, AcksInFlight, AcksInQueue, Behind

\* A served client stays served: nobody starts to serve it again.
LEMMA EndedKeeps ==
  ASSUME NEW c \in Clients, Ended(c), Taken(c)',
         \A t \in ThreadIds :
           worker'[t].client = c /\ worker'[t].pc \in {"start", "serving"}
             => worker[t].client = c /\ worker[t].pc \in {"start", "serving"}
  PROVE  Ended(c)'
  BY DEF Ended

\* Who registers does so for good, and takes the id from nobody else.
LEMMA OwnIdKeeps ==
  ASSUME NEW t \in ThreadIds, worker'[t].client = worker[t].client, OwnId(t)',
         DOMAIN registered_clients \subseteq DOMAIN registered_clients',
         \A c \in DOMAIN registered_clients : registered_clients'[c] = registered_clients[c]
  PROVE  OwnId(t)
  BY DEF OwnId

-----------------------------------------------------------------------------
(* The main thread.                                                        *)

LEMMA ReceiveAckAcks ==
  ASSUME IInv, AckInv, NEW d \in toServer, ReceiveAck(d), NEW c \in Clients
  PROVE  (Ended(c) \/ Waits(c))'
  <1> DEFINE q == registered_clients[d.from]
  <1>1. /\ main_pc' = "receive" /\ main_pc = "receive"
        /\ d.from \in DOMAIN registered_clients /\ toServer' \subseteq toServer
        /\ worker_threads_acks' = [worker_threads_acks EXCEPT ![q] = Append(@, d)]
        /\ UNCHANGED <<registered_clients, dispatched, worker, req_file, client_pc,
                       expected_seqno, toClient>>
    BY DEF ReceiveAck, MainAt, IsRegistered, QueueOf, clientVars, TakeFromClient
  <1>2. CASE Ended(c)
    BY <1>1, <1>2, EndedKeeps DEF Ended, Taken
  <1>3. CASE Waits(c)
    <2>1. NoTerminal(c)' /\ AcksInFlight(c)' /\ Behind(c)'
      BY <1>1, <1>3 DEF Waits, NoTerminal, AcksInFlight, Behind, OwnId, Terminal
    <2>2. AcksInQueue(c)'
      <3> SUFFICES ASSUME NEW t \in ThreadIds, NEW i \in 1..Len(worker_threads_acks'[t]),
                          worker_threads_acks'[t][i].from = c
                   PROVE  worker_threads_acks'[t][i].number < expected_seqno[c]
        BY <1>1 DEF AcksInQueue
      <3>1. /\ ServerType /\ q \in ThreadIds
            /\ worker_threads_acks[t] \in Seq([from : Clients, number : Nat])
            /\ d \in [from : Clients, number : Nat]
        BY <1>1 DEF IInv, ServerInv, ServerType, ClientType
      <3>2. worker_threads_acks'[t] \in {worker_threads_acks[t], Append(worker_threads_acks[t], d)}
        BY <1>1, <3>1 DEF ServerType
      <3>3. /\ i \in 1..Len(worker_threads_acks[t])
               /\ worker_threads_acks'[t][i] = worker_threads_acks[t][i]
            \/ worker_threads_acks'[t][i] = d
        <4> DEFINE s == worker_threads_acks[t]
        <4>1. s \in Seq([from : Clients, number : Nat]) /\ d \in [from : Clients, number : Nat]
          BY <3>1
        <4> HIDE DEF s
        <4>2. /\ Len(Append(s, d)) = Len(s) + 1 /\ Len(s) \in Nat
              /\ \A j \in 1..Len(s) : Append(s, d)[j] = s[j]
              /\ Append(s, d)[Len(s) + 1] = d
          BY <4>1, AppendProperties
        <4>3. \A j \in 1..(Len(s) + 1) : j \in 1..Len(s) \/ j = Len(s) + 1
          BY <4>2
        <4> QED BY <3>2, <4>2, <4>3 DEF s
      <3>4. d.from = c => d.number < expected_seqno[c]
        BY <1>3 DEF Waits, AcksInFlight
      <3> QED BY <1>3, <3>3, <3>4 DEF Waits, AcksInQueue
    <2> QED BY <2>1, <2>2 DEF Waits
  <1> QED BY <1>2, <1>3 DEF AckInv

LEMMA ReceiveRequestAcks ==
  ASSUME IInv, AckInv, NEW d \in toServer, ReceiveRequest(d), NEW c \in Clients
  PROVE  (Ended(c) \/ Waits(c))'
  <1>1. /\ main_pc = "receive" /\ main_pc' = "register" /\ toServer' \subseteq toServer
        /\ d.from \notin DOMAIN registered_clients /\ d.from \in Clients
        /\ SendToClient(d.from, RequestAck)
        /\ UNCHANGED <<registered_clients, worker_threads_acks, req_file, client_pc,
                       expected_seqno>>
    BY DEF ReceiveRequest, MainAt, IsRegistered, clientVars, TakeFromClient, IInv, ClientType
  <1>2. PICK b \in ThreadIds : /\ worker' = [worker EXCEPT ![b] = Worker(d.from, "start", 1)]
                               /\ dispatched' = b
    BY DEF ReceiveRequest
  <1>3. /\ worker'[b].client = d.from /\ worker'[b].packet = 1
        /\ \A t \in ThreadIds : t # b => worker'[t] = worker[t]
    BY <1>2 DEF Worker, IInv, ServerInv, ServerType
  <1>4. /\ expected_seqno[c] \in Nat /\ 1 <= expected_seqno[c]
        /\ \A p \in toClient'[c] : p \in toClient[c] \/ p.number = 0
    <2>1. req_file[c] \in Nat /\ Terminal(c) = req_file[c] + 1
      BY SizeFacts DEF IInv, ServerInv
    <2> QED BY <1>1, <2>1 DEF IInv, ClientType, SendToClient, RequestAck, Packet
  <1>5. CASE Ended(c)
    <2>1. c \in DOMAIN registered_clients
      BY <1>1, <1>5 DEF Ended, Taken
    <2>2. Taken(c)' /\ c # d.from
      BY <1>1, <2>1 DEF Taken
    <2> QED BY <1>3, <1>5, <2>2, EndedKeeps
  <1>6. CASE Waits(c)
    <2>1. NoTerminal(c)' /\ AcksInFlight(c)' /\ AcksInQueue(c)'
      BY <1>1, <1>4, <1>6 DEF Waits, NoTerminal, AcksInFlight, AcksInQueue
    <2>2. \A t \in ThreadIds : t # b => (OwnId(t)' <=> OwnId(t))
      BY <1>1, <1>3 DEF OwnId
    <2>3. Behind(c)'
      BY <1>1, <1>3, <1>4, <1>6, <2>2 DEF Waits, Behind
    <2> QED BY <2>1, <2>3 DEF Waits
  <1> QED BY <1>5, <1>6 DEF AckInv

LEMMA RegisterAcks ==
  ASSUME IInv, AckInv, Register \/ Record, NEW c \in Clients
  PROVE  (Ended(c) \/ Waits(c))'
  <1>1. /\ UNCHANGED <<worker_threads_acks, req_file, client_pc, expected_seqno, toClient,
                       toServer>>
        /\ Terminal(c)' = Terminal(c)
    BY DEF Register, Record, clientVars, Terminal
  <1>2. \A t \in ThreadIds : worker'[t] = worker[t] \/ worker'[t] = NoWorker
    <2>1. CASE Register
      BY <2>1 DEF Register
    <2>2. CASE Record
      <3>1. worker' = [worker EXCEPT ![dispatched] = IF @.pc = "return" THEN NoWorker ELSE @]
        BY <2>2 DEF Record
      <3> QED BY <3>1 DEF IInv, ServerInv, ServerType
    <2> QED BY <2>1, <2>2
  <1>3. NoWorker.pc = "none"
    BY DEF NoWorker, Worker
  <1>4. /\ DOMAIN registered_clients \subseteq DOMAIN registered_clients'
        /\ \A x \in DOMAIN registered_clients : registered_clients'[x] = registered_clients[x]
        /\ Taken(c) => c \in DOMAIN registered_clients'
    <2>1. CASE Register
      <3> DEFINE owner == worker[dispatched].client
      <3>1. /\ registered_clients' = Enter(registered_clients, owner, dispatched)
            /\ owner \notin DOMAIN registered_clients
        BY <2>1 DEF Register, MainAt, IInv, ServerInv, Dispatching
      <3> HIDE DEF owner
      <3>2. /\ DOMAIN registered_clients' = DOMAIN registered_clients \cup {owner}
            /\ \A x \in DOMAIN registered_clients : registered_clients'[x] = registered_clients[x]
        BY <3>1 DEF Enter
      <3> QED BY <3>2 DEF Taken, owner
    <2>2. CASE Record
      BY <2>2 DEF Record, MainAt, Taken
    <2> QED BY <2>1, <2>2
  <1>5. CASE Ended(c)
    <2>1. Taken(c)'
      BY <1>4, <1>5 DEF Ended, Taken
    <2> QED BY <1>2, <1>3, <1>5, <2>1, EndedKeeps
  <1>6. CASE Waits(c)
    <2>1. NoTerminal(c)' /\ AcksInFlight(c)' /\ AcksInQueue(c)'
      BY <1>1, <1>6 DEF Waits, NoTerminal, AcksInFlight, AcksInQueue
    <2>2. \A t \in ThreadIds : worker'[t] = worker[t] /\ OwnId(t)' => OwnId(t)
      BY <1>4, OwnIdKeeps
    <2>3. Behind(c)'
      BY <1>1, <1>2, <1>3, <1>6, <2>2 DEF Waits, Behind
    <2> QED BY <2>1, <2>3 DEF Waits
  <1> QED BY <1>5, <1>6 DEF AckInv

-----------------------------------------------------------------------------
(* The worker threads.                                                     *)

\* A worker thread t goes on, for the same client or for none: it forgets no
\* client, and leaves the window of client c behind what the client has written.
GoesOn(t, c) ==
  /\ UNCHANGED <<registered_clients, main_pc, dispatched>>
  /\ UNCHANGED clientVars
  /\ toServer' \subseteq toServer
  /\ \A u \in ThreadIds : u # t => worker'[u] = worker[u]
  /\ \/ worker'[t].client = worker[t].client
     \/ worker'[t] = NoWorker /\ dispatched # t
  /\ worker'[t].pc \in {"start", "serving"} => worker[t].pc \in {"start", "serving"}
  /\ Waits(c) => \/ NoTerminal(c)'
                 \/ worker[t].client = c /\ Taken(c) /\ worker'[t].pc = "finalize"
  /\ AcksInQueue(c) => AcksInQueue(c)'
  /\ Waits(c) /\ worker[t].client = c /\ worker[t].pc \in {"start", "serving"} /\ OwnId(t)
       /\ worker'[t].client = c
     => worker'[t].packet <= expected_seqno[c]

\* The ACKs of a client stay behind it.
LEMMA WorkerAcks ==
  ASSUME IInv, AckInv, NEW c \in Clients, NEW t \in ThreadIds, GoesOn(t, c)
  PROVE  (Ended(c) \/ Waits(c))'
  <1>1. Taken(c) => Taken(c)'
    <2>1. main_pc = "register" => dispatched \in ThreadIds
      BY DEF IInv, ServerInv, ServerType, Dispatching
    <2>2. main_pc = "register" => worker'[dispatched].client = worker[dispatched].client
      BY <2>1 DEF GoesOn
    <2> QED BY <2>2 DEF Taken, GoesOn
  <1>2. NoWorker.client \notin Clients
    BY SessionAssumption DEF NoWorker, Worker
  <1>3. \A u \in ThreadIds :
          worker'[u].client = c /\ worker'[u].pc \in {"start", "serving"}
            => worker[u].client = c /\ worker[u].pc \in {"start", "serving"}
    BY <1>2 DEF GoesOn
  <1>4. CASE Ended(c)
    BY <1>1, <1>3, <1>4, EndedKeeps DEF Ended
  <1>5. CASE Waits(c) /\ NoTerminal(c)'
    <2>1. AcksInFlight(c)' /\ AcksInQueue(c)'
      BY <1>5 DEF Waits, AcksInFlight, clientVars, GoesOn
    <2>2. \A u \in ThreadIds : worker'[u].client = c /\ OwnId(u)' => OwnId(u)
      BY <1>2 DEF OwnId, GoesOn
    <2>3. Behind(c)'
      <3> SUFFICES ASSUME NEW u \in ThreadIds, worker'[u].client = c, OwnId(u)',
                          worker'[u].pc \in {"start", "serving"}
                   PROVE  worker'[u].packet <= expected_seqno[c]
        BY DEF Behind, clientVars, GoesOn
      <3>1. OwnId(u) /\ worker[u].client = c /\ worker[u].pc \in {"start", "serving"}
        BY <1>3, <2>2
      <3>2. CASE u = t
        BY <1>5, <3>1, <3>2 DEF GoesOn
      <3>3. CASE u # t
        BY <1>5, <3>1, <3>3 DEF Waits, Behind, GoesOn
      <3> QED BY <3>2, <3>3
    <2> QED BY <1>5, <2>1, <2>3 DEF Waits
  <1>6. CASE worker[t].client = c /\ Taken(c) /\ worker'[t].pc = "finalize"
    <2>1. ASSUME NEW u \in ThreadIds, worker'[u].client = c PROVE worker'[u].pc \notin {"start", "serving"}
      <3>1. CASE u = t
        BY <1>6, <3>1
      <3>2. CASE u # t
        <4>1. worker[u].client = c /\ worker[u] # NoWorker /\ worker[t] # NoWorker
          BY <1>2, <1>6, <2>1, <3>2 DEF GoesOn
        <4>2. Alive(u) /\ Alive(t) /\ worker[u].client = worker[t].client
          BY <1>6, <4>1 DEF Alive
        <4> QED BY <3>2, <4>2 DEF IInv, ServerInv, Owner, Dispatching
      <3> QED BY <3>1, <3>2
    <2> QED BY <1>1, <1>6, <2>1 DEF Ended
  <1> QED BY <1>4, <1>5, <1>6 DEF AckInv, GoesOn

\* A client that has a worker thread is registered, or about to be.
LEMMA ServedIsTaken ==
  ASSUME IInv, NEW t \in ThreadIds, Alive(t)
  PROVE  Taken(worker[t].client)
  BY DEF IInv, ServerInv, Owner, Taken

\* A packet is sent, or the terminal one.
LEMMA SendAcks ==
  ASSUME IInv, AckInv, NEW t \in ThreadIds, SendPacket(t) \/ Finish(t), NEW c \in Clients
  PROVE  (Ended(c) \/ Waits(c))'
  <1> DEFINE to == IF HasPacket(t) THEN "serving" ELSE "finalize"
             w == Worker(worker[t].client, to, worker[t].packet)
  <1>1. /\ WorkerAt(t, {"start", "serving"}, to)
        /\ SendToClient(worker[t].client, Packet(worker[t].packet, ~HasPacket(t)))
    BY DEF SendPacket, Finish
  <1>2. /\ Alive(t) /\ worker[t].pc \in {"start", "serving"}
        /\ worker' = [worker EXCEPT ![t] = w]
        /\ UNCHANGED <<registered_clients, worker_threads_acks, main_pc, dispatched>>
        /\ UNCHANGED clientVars /\ UNCHANGED toServer
    BY <1>1, WorkerMoves DEF IInv, WorkerAt
  <1>3. /\ worker'[t].client = worker[t].client /\ worker'[t].pc = to
        /\ worker'[t].packet = worker[t].packet
        /\ \A u \in ThreadIds : u # t => worker'[u] = worker[u]
    BY <1>2 DEF Worker, IInv, ServerInv, ServerType
  <1>4. /\ worker[t].client \in Clients /\ worker[t].packet \in Nat
        /\ toClient \in [Clients -> SUBSET [number : Nat, empty : BOOLEAN]]
    BY <1>2 DEF IInv, ServerInv, ServerType, WorkerOK, ClientType
  <1>5. NoTerminal(c) => \/ NoTerminal(c)'
                         \/ worker[t].client = c /\ to = "finalize"
    <2>1. client_pc' = client_pc
      BY <1>2 DEF clientVars
    <2>2. CASE worker[t].client # c
      <3>1. toClient'[c] = toClient[c]
        BY <1>1, <1>4, <2>2 DEF SendToClient
      <3> QED BY <2>1, <3>1 DEF NoTerminal
    <2>3. CASE worker[t].client = c /\ HasPacket(t)
      <3>1. toClient'[c] = toClient[c] \cup {Packet(worker[t].packet, FALSE)}
        BY <1>1, <1>4, <2>3 DEF SendToClient
      <3>2. ~Packet(worker[t].packet, FALSE).empty
        BY DEF Packet
      <3> QED BY <2>1, <3>1, <3>2 DEF NoTerminal
    <2> QED BY <2>2, <2>3
  <1>6. AcksInQueue(c) => AcksInQueue(c)'
    BY <1>2 DEF AcksInQueue, clientVars
  <1>7. worker[t].client = c => Taken(c)
    BY <1>2, ServedIsTaken
  <1>8. Waits(c) /\ worker[t].client = c /\ OwnId(t) => worker'[t].packet <= expected_seqno[c]
    BY <1>2, <1>3 DEF Waits, Behind
  <1>9. Waits(c) => NoTerminal(c)
    BY DEF Waits
  <1> HIDE DEF to, w
  <1>10. GoesOn(t, c)
    <2>1. worker[t].pc \in {"start", "serving"} /\ toServer' \subseteq toServer
          /\ UNCHANGED <<registered_clients, main_pc, dispatched>>
          /\ UNCHANGED clientVars
      BY <1>2
    <2>2. Waits(c) => \/ NoTerminal(c)'
                      \/ worker[t].client = c /\ Taken(c) /\ worker'[t].pc = "finalize"
      BY <1>3, <1>5, <1>7, <1>9
    <2> QED BY <2>1, <2>2, <1>3, <1>6, <1>8 DEF GoesOn
  <1> QED BY <1>10, WorkerAcks

\* An ACK with the number of the packet in the window, in the queue of an id that no
\* other client had: it is of the client that is served, who has written the packet.
LEMMA AcknowledgeAcks ==
  ASSUME IInv, AckInv, NEW t \in ThreadIds, Acknowledge(t), NEW c \in Clients
  PROVE  (Ended(c) \/ Waits(c))'
  <1> DEFINE q == worker_threads_acks
             first == Head(q[t])
             moved == first.number = worker[t].packet
  <1>1. /\ worker[t].pc = "serving" /\ q[t] # <<>>
        /\ q' = [q EXCEPT ![t] = Tail(q[t])]
        /\ worker' = IF moved THEN [worker EXCEPT ![t].packet = @ + 1] ELSE worker
        /\ UNCHANGED <<registered_clients, main_pc, dispatched, toClient, toServer>>
        /\ UNCHANGED clientVars
    BY DEF Acknowledge
  <1>2. /\ ServerType /\ Alive(t)
        /\ worker[t] \in [client : Clients \cup {NoClient},
                         pc : {"none", "start", "serving", "finalize", "return"}, packet : Nat]
    BY <1>1, Running DEF IInv
  <1>3. /\ worker'[t].client = worker[t].client /\ worker'[t].pc = "serving"
        /\ worker'[t].packet = IF moved THEN worker[t].packet + 1 ELSE worker[t].packet
        /\ \A u \in ThreadIds : u # t => worker'[u] = worker[u]
    <2> HIDE DEF moved
    <2>1. CASE moved
      <3> DEFINE w == [worker[t] EXCEPT !.packet = worker[t].packet + 1]
      <3>1. worker' = [worker EXCEPT ![t] = w]
        BY <1>1, <2>1
      <3>2. /\ w.client = worker[t].client /\ w.pc = worker[t].pc
            /\ w.packet = worker[t].packet + 1
        BY <1>2
      <3> HIDE DEF w
      <3> QED BY <1>1, <1>2, <2>1, <3>1, <3>2 DEF ServerType
    <2>2. CASE ~moved
      BY <1>1, <2>2
    <2> QED BY <2>1, <2>2
  <1>4. /\ q[t] \in Seq([from : Clients, number : Nat]) /\ Len(q[t]) \in Nat /\ Len(q[t]) > 0
        /\ first = q[t][1] /\ 1 \in 1..Len(q[t])
        /\ Len(Tail(q[t])) = Len(q[t]) - 1
        /\ \A i \in 1..Len(Tail(q[t])) : Tail(q[t])[i] = q[t][i + 1]
    <2>1. q[t] \in Seq([from : Clients, number : Nat]) /\ q[t] # <<>>
      BY <1>1, <1>2 DEF ServerType
    <2> HIDE DEF q
    <2> QED BY <2>1, HeadTailProperties, EmptySeq
  <1>5. AcksInQueue(c) => AcksInQueue(c)'
    <2> SUFFICES ASSUME AcksInQueue(c), NEW u \in ThreadIds, NEW i \in 1..Len(q'[u]), q'[u][i].from = c
                 PROVE  q'[u][i].number < expected_seqno[c]
      BY <1>1 DEF AcksInQueue, clientVars
    <2>1. \E j \in 1..Len(q[u]) : q'[u][i] = q[u][j]
      <3>1. CASE u = t
        <4> DEFINE rest == Tail(q[t])
        <4>1. q'[t] = rest
          <5> HIDE DEF rest
          <5>1. q' = [q EXCEPT ![t] = rest]
            BY <1>1 DEF rest
          <5> QED BY <1>2, <5>1 DEF ServerType
        <4>2. i \in 1..Len(rest) /\ i + 1 \in 1..Len(q[t]) /\ rest[i] = q[t][i + 1]
          BY <1>4, <3>1, <4>1
        <4> HIDE DEF rest
        <4> QED BY <3>1, <4>1, <4>2
      <3>2. CASE u # t
        <4>1. q'[u] = q[u]
          BY <1>1, <1>2, <3>2 DEF ServerType
        <4> QED BY <4>1
      <3> QED BY <3>1, <3>2
    <2> QED BY <2>1 DEF AcksInQueue
  <1>6. NoTerminal(c) => NoTerminal(c)'
    BY <1>1 DEF NoTerminal, Terminal, clientVars
  <1>7. ASSUME Waits(c), worker[t].client = c, OwnId(t) PROVE worker'[t].packet <= expected_seqno[c]
    <2>1. worker[t].packet <= expected_seqno[c] /\ worker[t].packet \in Nat
          /\ expected_seqno[c] \in Nat
      BY <1>1, <1>2, <1>7 DEF Waits, Behind, IInv, ClientType
    <2>2. CASE moved
      <3>1. first.from \in DOMAIN registered_clients /\ registered_clients[first.from] = t
        BY <1>4 DEF IInv, ServerInv, QueueOwner
      <3>2. first.from = c
        BY <1>7, <3>1 DEF OwnId
      <3>3. first.number < expected_seqno[c]
        BY <1>4, <1>7, <3>2 DEF Waits, AcksInQueue
      <3>4. worker[t].packet < expected_seqno[c]
        BY <2>2, <3>3
      <3> QED BY <1>3, <2>1, <2>2, <3>4
    <2>3. CASE ~moved
      BY <1>3, <2>1, <2>3
    <2> QED BY <2>2, <2>3
  <1>8. Waits(c) => NoTerminal(c)
    BY DEF Waits
  <1> HIDE DEF q, first, moved
  <1>9. GoesOn(t, c)
    BY <1>1, <1>3, <1>5, <1>6, <1>7, <1>8 DEF GoesOn
  <1> QED BY <1>9, WorkerAcks

\* A worker thread that ends has nothing more to send.
LEMMA FinalizeAcks ==
  ASSUME IInv, AckInv, NEW t \in ThreadIds, Finalize(t), NEW c \in Clients
  PROVE  (Ended(c) \/ Waits(c))'
  <1>1. /\ worker[t].pc = "finalize"
        /\ UNCHANGED <<registered_clients, worker_threads_acks, main_pc, dispatched, toClient,
                       toServer>>
        /\ UNCHANGED clientVars
    BY DEF Finalize
  <1>2. /\ \A u \in ThreadIds : u # t => worker'[u] = worker[u]
        /\ \/ worker'[t] = NoWorker /\ dispatched # t
           \/ worker'[t].client = worker[t].client /\ worker'[t].pc \in {"finalize", "return"}
    <2> DEFINE w == IF dispatched = t THEN [worker[t] EXCEPT !.pc = "return"] ELSE NoWorker
    <2>1. worker' = worker \/ worker' = [worker EXCEPT ![t] = w]
      BY DEF Finalize
    <2>2. \/ w = NoWorker /\ dispatched # t
          \/ w.client = worker[t].client /\ w.pc = "return"
      BY DEF IInv, ServerInv, ServerType
    <2> HIDE DEF w
    <2> QED BY <1>1, <2>1, <2>2 DEF IInv, ServerInv, ServerType
  <1>3. worker'[t].pc \notin {"start", "serving"}
    BY <1>2 DEF NoWorker, Worker
  <1>4. (NoTerminal(c) => NoTerminal(c)') /\ (AcksInQueue(c) => AcksInQueue(c)')
    BY <1>1 DEF NoTerminal, AcksInQueue, Terminal, clientVars
  <1>5. worker[t].pc \notin {"start", "serving"}
    BY <1>1
  <1>6. Waits(c) => NoTerminal(c)
    BY DEF Waits
  <1>7. GoesOn(t, c)
    BY <1>1, <1>2, <1>3, <1>4, <1>5, <1>6 DEF GoesOn
  <1> QED BY <1>7, WorkerAcks

-----------------------------------------------------------------------------
(* The clients and the network.                                            *)

\* Only a client that had the terminal packet forgets what it has written.
LEMMA ClientAcks ==
  ASSUME IInv, AckInv, UNCHANGED <<serverVars, req_file>>, NEW c \in Clients,
         Waits(c) => /\ toClient'[c] \subseteq toClient[c]
                     /\ client_pc'[c] # "done"
                     /\ expected_seqno'[c] \in Nat /\ expected_seqno'[c] >= expected_seqno[c]
                     /\ \A d \in toServer' :
                          d.from = c => d \in toServer \/ d.number < expected_seqno'[c]
  PROVE  (Ended(c) \/ Waits(c))'
  <1>1. UNCHANGED <<registered_clients, worker_threads_acks, main_pc, dispatched, worker>>
    BY DEF serverVars
  <1>2. CASE Ended(c)
    BY <1>1, <1>2 DEF Ended, Taken
  <1>3. CASE Waits(c)
    <2>1. /\ ServerType /\ expected_seqno[c] \in Nat
          /\ \A t \in ThreadIds : worker[t].packet \in Nat
          /\ \A d \in toServer : d.number \in Nat
      BY DEF IInv, ServerInv, ServerType, ClientType
    <2>2. NoTerminal(c)'
      BY <1>3 DEF Waits, NoTerminal, Terminal
    <2>3. AcksInFlight(c)'
      BY <1>3, <2>1 DEF Waits, AcksInFlight
    <2>4. AcksInQueue(c)'
      <3> SUFFICES ASSUME NEW t \in ThreadIds, NEW i \in 1..Len(worker_threads_acks[t]),
                          worker_threads_acks[t][i].from = c
                   PROVE  worker_threads_acks[t][i].number < expected_seqno'[c]
        BY <1>1 DEF AcksInQueue
      <3>1. worker_threads_acks[t][i].number < expected_seqno[c]
        BY <1>3 DEF Waits, AcksInQueue
      <3>2. worker_threads_acks[t] \in Seq([from : Clients, number : Nat])
        BY <2>1 DEF ServerType
      <3>3. worker_threads_acks[t][i] \in [from : Clients, number : Nat]
        BY <3>2, ElementOfSeq
      <3>4. worker_threads_acks[t][i].number \in Nat
        BY <3>3
      <3> QED BY <1>3, <2>1, <3>1, <3>4
    <2>5. Behind(c)'
      BY <1>1, <1>3, <2>1 DEF Waits, Behind, OwnId
    <2> QED BY <2>2, <2>3, <2>4, <2>5 DEF Waits
  <1> QED BY <1>2, <1>3 DEF AckInv

\* An ACK is sent of what was written just now or before.
LEMMA ReceivePacketAcks ==
  ASSUME IInv, AckInv, NEW b \in Clients, NEW p, ReceivePacket(b, p), NEW c \in Clients
  PROVE  (Ended(c) \/ Waits(c))'
  <1>1. /\ client_pc[b] = "receiving" /\ UNCHANGED <<serverVars, req_file>>
        /\ TakeFromServer(b, p)
    BY DEF ReceivePacket, WriteExpected, AckAgain, Stop, DropLater, clientVars
  <1>2. /\ p.number \in Nat
        /\ toClient \in [Clients -> SUBSET [number : Nat, empty : BOOLEAN]]
        /\ expected_seqno \in [Clients -> Nat]
        /\ expected_seqno[b] > 0
        /\ client_pc \in [Clients -> {"idle", "waiting", "receiving", "done"}]
    <2>1. Terminal(b) \in Nat /\ p \in toClient[b]
      BY <1>1, SizeFacts DEF IInv, ServerInv, TakeFromServer
    <2> QED BY <2>1 DEF IInv, ClientType
  <1>3. toClient'[c] \subseteq toClient[c] /\ p \in toClient[b]
    BY <1>1, <1>2 DEF TakeFromServer
  <1>4. CASE WriteExpected(b, p)
    <2>1. /\ p.number = expected_seqno[b]
          /\ expected_seqno' = [expected_seqno EXCEPT ![b] = expected_seqno[b] + 1]
          /\ UNCHANGED client_pc /\ toServer' = toServer \cup {Datagram(b, p.number)}
      BY <1>4 DEF WriteExpected, SendToServer
    <2>2. /\ expected_seqno'[c] \in Nat /\ expected_seqno'[c] >= expected_seqno[c]
          /\ c = b => p.number < expected_seqno'[c]
      BY <1>2, <2>1
    <2>3. \A d \in toServer' : d.from = c => d \in toServer \/ d.number < expected_seqno'[c]
      BY <2>1, <2>2 DEF Datagram
    <2>4. Waits(c) => client_pc'[c] # "done"
      BY <2>1 DEF Waits, NoTerminal
    <2> QED BY <1>1, <1>3, <2>2, <2>3, <2>4, ClientAcks
  <1>5. CASE AckAgain(b, p)
    <2>1. /\ p.number < expected_seqno[b] /\ UNCHANGED <<expected_seqno, client_pc>>
          /\ toServer' = toServer \cup {Datagram(b, p.number)}
      BY <1>5 DEF AckAgain, AckOld, SendToServer, clientVars
    <2>2. \A d \in toServer' : d.from = c => d \in toServer \/ d.number < expected_seqno'[c]
      BY <2>1 DEF Datagram
    <2>3. Waits(c) => client_pc'[c] # "done"
      BY <2>1 DEF Waits, NoTerminal
    <2>4. expected_seqno'[c] \in Nat /\ expected_seqno'[c] >= expected_seqno[c]
      BY <1>2, <2>1
    <2> QED BY <1>1, <1>3, <2>2, <2>3, <2>4, ClientAcks
  <1>6. CASE Stop(b, p)
    <2>1. /\ p.empty /\ p.number > 0 /\ client_pc' = [client_pc EXCEPT ![b] = "done"]
          /\ UNCHANGED <<expected_seqno, toServer>>
      BY <1>2, <1>6 DEF Stop, IsTerminal
    <2>2. Waits(c) => c # b
      BY <1>2, <1>3, <2>1 DEF Waits, NoTerminal
    <2>3. Waits(c) => client_pc'[c] # "done"
      BY <1>2, <2>1, <2>2 DEF Waits, NoTerminal
    <2>4. expected_seqno'[c] \in Nat /\ expected_seqno'[c] >= expected_seqno[c]
      BY <1>2, <2>1
    <2> QED BY <1>1, <1>3, <2>1, <2>3, <2>4, ClientAcks
  <1>7. CASE DropLater(b, p)
    <2>1. UNCHANGED <<expected_seqno, client_pc, toServer>>
      BY <1>7 DEF DropLater, clientVars
    <2>2. expected_seqno'[c] \in Nat /\ expected_seqno'[c] >= expected_seqno[c]
      BY <1>2, <2>1
    <2>3. Waits(c) => client_pc'[c] # "done"
      BY <2>1 DEF Waits, NoTerminal
    <2> QED BY <1>1, <1>3, <2>1, <2>2, <2>3, ClientAcks
  <1> QED BY <1>4, <1>5, <1>6, <1>7 DEF ReceivePacket

\* A request, its answer, a second run, a loss, or nothing.
LEMMA OtherAcks ==
  ASSUME IInv, AckInv, UNCHANGED <<serverVars, req_file>>,
         Lose \/ UNCHANGED vars \/ \E b \in Clients : SendRequest(b) \/ ReceiveRequestAck(b) \/ RunAgain(b),
         NEW c \in Clients
  PROVE  (Ended(c) \/ Waits(c))'
  <1>1. /\ expected_seqno \in [Clients -> Nat] /\ 1 <= expected_seqno[c]
        /\ client_pc \in [Clients -> {"idle", "waiting", "receiving", "done"}]
        /\ toClient \in [Clients -> SUBSET [number : Nat, empty : BOOLEAN]]
    <2>1. Terminal(c) \in Nat
      BY SizeFacts DEF IInv, ServerInv
    <2> QED BY <2>1 DEF IInv, ClientType
  <1>2. CASE \E b \in Clients : SendRequest(b)
    <2>1. PICK b \in Clients : SendRequest(b)
      BY <1>2
    <2>2. /\ client_pc' = [client_pc EXCEPT ![b] = "waiting"]
          /\ toServer' = toServer \cup {Datagram(b, 0)} /\ UNCHANGED <<expected_seqno, toClient>>
      BY <2>1 DEF SendRequest, SendToServer, Request
    <2>3. \A d \in toServer' : d.from = c => d \in toServer \/ d.number < expected_seqno'[c]
      BY <1>1, <2>2 DEF Datagram
    <2>4. Waits(c) => client_pc'[c] # "done"
      BY <1>1, <2>2 DEF Waits, NoTerminal
    <2>5. expected_seqno'[c] \in Nat /\ expected_seqno'[c] >= expected_seqno[c]
      BY <1>1, <2>2
    <2> QED BY <2>2, <2>3, <2>4, <2>5, ClientAcks
  <1>3. CASE \E b \in Clients : ReceiveRequestAck(b)
    <2>1. PICK b \in Clients : ReceiveRequestAck(b)
      BY <1>3
    <2>2. /\ client_pc' = [client_pc EXCEPT ![b] = "receiving"]
          /\ UNCHANGED <<expected_seqno, toServer>>
          /\ \E p : toClient' \in {toClient, [toClient EXCEPT ![b] = @ \ {p}]}
      BY <2>1 DEF ReceiveRequestAck, TakeFromServer
    <2>3. toClient'[c] \subseteq toClient[c]
      BY <1>1, <2>2
    <2>4. Waits(c) => client_pc'[c] # "done"
      BY <1>1, <2>2 DEF Waits, NoTerminal
    <2>5. expected_seqno'[c] \in Nat /\ expected_seqno'[c] >= expected_seqno[c]
      BY <1>1, <2>2
    <2> QED BY <2>2, <2>3, <2>4, <2>5, ClientAcks
  <1>4. CASE \E b \in Clients : RunAgain(b)
    <2>1. PICK b \in Clients : RunAgain(b)
      BY <1>4
    <2>2. /\ client_pc[b] = "done" /\ client_pc' = [client_pc EXCEPT ![b] = "idle"]
          /\ expected_seqno' = [expected_seqno EXCEPT ![b] = 1] /\ UNCHANGED <<toClient, toServer>>
      BY <2>1 DEF RunAgain
    <2>3. Waits(c) => c # b
      BY <2>2 DEF Waits, NoTerminal
    <2>4. Waits(c) => client_pc'[c] # "done" /\ expected_seqno'[c] = expected_seqno[c]
      BY <1>1, <2>2, <2>3 DEF Waits, NoTerminal
    <2>5. Waits(c) => expected_seqno'[c] \in Nat /\ expected_seqno'[c] >= expected_seqno[c]
      BY <1>1, <2>4
    <2> QED BY <2>2, <2>4, <2>5, ClientAcks
  <1>5. CASE Lose \/ UNCHANGED vars
    <2>1. UNCHANGED <<client_pc, expected_seqno>> /\ toServer' \subseteq toServer
      BY <1>5 DEF Lose, vars, clientVars
    <2>2. toClient'[c] \subseteq toClient[c]
      BY <1>1, <1>5 DEF Lose, vars
    <2>3. Waits(c) => client_pc'[c] # "done"
      BY <2>1 DEF Waits, NoTerminal
    <2>4. expected_seqno'[c] \in Nat /\ expected_seqno'[c] >= expected_seqno[c]
      BY <1>1, <2>1
    <2> QED BY <2>1, <2>2, <2>3, <2>4, ClientAcks
  <1> QED BY <1>2, <1>3, <1>4, <1>5

LEMMA AckInvariance == IInv /\ AckInv /\ [Next]_vars => AckInv'
  <1> SUFFICES ASSUME IInv, AckInv, [Next]_vars, NEW c \in Clients PROVE (Ended(c) \/ Waits(c))'
    BY DEF AckInv
  <1>1. CASE Main
    BY <1>1, ReceiveAckAcks, ReceiveRequestAcks, RegisterAcks DEF Main
  <1>2. CASE \E t \in ThreadIds : WorkerThread(t)
    BY <1>2, SendAcks, AcknowledgeAcks, FinalizeAcks DEF WorkerThread
  <1>3. ASSUME NEW b \in Clients, NEW p, ReceivePacket(b, p) PROVE (Ended(c) \/ Waits(c))'
    BY <1>3, ReceivePacketAcks
  <1>4. CASE Lose \/ UNCHANGED vars \/ \E b \in Clients : SendRequest(b) \/ ReceiveRequestAck(b) \/ RunAgain(b)
    <2>1. UNCHANGED <<serverVars, req_file>>
      BY <1>4 DEF Lose, vars, SendRequest, ReceiveRequestAck, RunAgain, clientVars
    <2> QED BY <1>4, <2>1, OtherAcks
  <1> QED BY <1>1, <1>2, <1>3, <1>4 DEF Next, Client

\* acknowledge_packet, with the ACKs that start() put into the worker's queue: an id
\* that was not given twice makes every ACK that counts a true one.
THEOREM PacketsCorrect == Spec => []PacketsAreWritten
  <1> DEFINE Inv == IInv /\ AckInv
  <1>1. Init => Inv
    BY InitInvariant, InitAcks
  <1>2. Inv /\ [Next]_vars => Inv'
    BY Invariance, AckInvariance
  <1>3. Inv => PacketsAreWritten
    <2> SUFFICES ASSUME IInv, AckInv, NEW t \in ThreadIds, OwnId(t),
                        worker[t].pc \in {"start", "serving"}
                 PROVE  worker[t].packet <= expected_seqno[worker[t].client]
      BY DEF PacketsAreWritten
    <2>1. worker[t].client \in Clients
      BY Running DEF IInv, ServerInv, WorkerOK
    <2> QED BY <2>1 DEF AckInv, Ended, Waits, Behind
  <1> QED BY <1>1, <1>2, <1>3, PTL DEF Spec

===============================================================================
