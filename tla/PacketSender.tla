----------------------------- MODULE PacketSender -----------------------------
(***************************************************************************)
(* packet_sender::send_packet, through which all worker and timer threads  *)
(* of the server send.  It counts packets and reads the configured loss    *)
(* sequence; when as many packets as the current number of the sequence    *)
(* have been sent, it tells the caller that three duplicate ACKs arrived   *)
(* and goes on to the next number.                                         *)
(*                                                                         *)
(* The counters are static and no mutex of their own protects them.        *)
(* Selective repeat calls send_packet with the wnd_mutex of its transfer   *)
(* held, the other modes with no mutex.  A step of a thread reads or       *)
(* writes one counter; what it has read is in a local of the thread.       *)
(* Which packets are dropped at random changes nothing here.               *)
(*                                                                         *)
(* Definitions named Buggy... are mistakes the properties are tested       *)
(* against; the model does not use them.                                   *)
(***************************************************************************)
EXTENDS Integers, Sequences

CONSTANTS Threads,
          loss_sequence,  \* the configured numbers
          Deployments,    \* which mutex each thread holds while it sends
          MaxCount        \* bound on the counters, which under races have none

ASSUME SequenceAssumption == loss_sequence \in Seq(Nat \ {0}) /\ loss_sequence # <<>>
ASSUME BoundAssumption == MaxCount \in Nat \ {0}

Size == Len(loss_sequence)

VARIABLES packet_number, loss_sequence_index,   \* the static counters
          mutex_of,         \* the deployment: the mutex of each thread
          pc,               \* where each thread is in send_packet
          local,            \* the counter it has read
          since,            \* history: packets sent since the counter was reset
          server_up         \* FALSE once the process has crashed

counters == <<packet_number, loss_sequence_index>>
vars == <<counters, mutex_of, pc, local, since, server_up>>

Init ==
  /\ packet_number = 1
  /\ loss_sequence_index = 0
  /\ mutex_of \in Deployments
  /\ pc = [t \in Threads |-> "idle"]
  /\ local = [t \in Threads |-> 0]
  /\ since = 0
  /\ server_up = TRUE

-----------------------------------------------------------------------------
Step(t, from, to) == /\ server_up
                     /\ pc[t] = from
                     /\ pc' = [pc EXCEPT ![t] = to]
                     /\ UNCHANGED mutex_of

Keep(t, value) == local' = [local EXCEPT ![t] = value]

\* The caller has its mutex; packet_number++ reads ...
ReadNumber(t) ==
  /\ \A u \in Threads : mutex_of[u] = mutex_of[t] => pc[u] = "idle"
  /\ Step(t, "idle", "count")
  /\ Keep(t, packet_number)
  /\ UNCHANGED <<counters, since, server_up>>

\* ... and writes.
WriteNumber(t) ==
  /\ Step(t, "count", "choose")
  /\ local[t] < MaxCount
  /\ packet_number' = local[t] + 1
  /\ UNCHANGED <<loss_sequence_index, local, since, server_up>>

\* A mistake: the number after the increment.
BuggyPassed(number, index) == (number + 1) % loss_sequence[index + 1] = 0

Passed(number, index) == number % loss_sequence[index + 1] = 0

\* The sequence has not passed: the packet is sent, or lost.
SendOrLose(t) ==
  /\ Step(t, "choose", "idle")
  /\ loss_sequence_index < Size => ~Passed(local[t], loss_sequence_index)
  /\ since < MaxCount
  /\ since' = since + 1
  /\ UNCHANGED <<counters, local, server_up>>

\* It has passed: the packet is sent, three duplicate ACKs are simulated.
DuplicateAcks(t) ==
  /\ Step(t, "choose", "reset")
  /\ loss_sequence_index < Size => Passed(local[t], loss_sequence_index)
  /\ since < MaxCount
  /\ since' = since + 1
  /\ UNCHANGED <<counters, local, server_up>>

\* The index is out of range: what is read there is no number of the sequence,
\* so that either of the above may follow, or a fault.
Crash(t) ==
  /\ Step(t, "choose", "choose")
  /\ loss_sequence_index >= Size
  /\ server_up' = FALSE
  /\ UNCHANGED <<counters, local, since>>

\* A mistake: counting goes on at zero.
BuggyFirstNumber == 0

FirstNumber == 1

ResetNumber(t) ==
  /\ Step(t, "reset", "read_index")
  /\ packet_number' = FirstNumber
  /\ since' = 0
  /\ UNCHANGED <<loss_sequence_index, local, server_up>>

\* loss_sequence_index++ reads and writes, and so does its reduction to the
\* size of the sequence.
ReadIndex(t) ==
  /\ Step(t, "read_index", "write_index") \/ Step(t, "read_again", "write_again")
  /\ Keep(t, loss_sequence_index)
  /\ UNCHANGED <<counters, since, server_up>>

WriteIndex(t) ==
  /\ Step(t, "write_index", "read_again")
  /\ local[t] < MaxCount
  /\ loss_sequence_index' = local[t] + 1
  /\ UNCHANGED <<packet_number, local, since, server_up>>

\* A mistake: one too far.
BuggyWrapped(index) == index % (Size + 1)

Wrapped(index) == index % Size

ReduceIndex(t) ==
  /\ Step(t, "write_again", "idle")
  /\ loss_sequence_index' = Wrapped(local[t])
  /\ UNCHANGED <<packet_number, local, since, server_up>>

Next == \E t \in Threads :
          \/ ReadNumber(t) \/ WriteNumber(t) \/ SendOrLose(t) \/ DuplicateAcks(t) \/ Crash(t)
          \/ ResetNumber(t) \/ ReadIndex(t) \/ WriteIndex(t) \/ ReduceIndex(t)

Spec == Init /\ [][Next]_vars

-----------------------------------------------------------------------------
\* All threads share a mutex: one transfer in selective_repeat mode.
Serial == \A t, u \in Threads : mutex_of[t] = mutex_of[u]

Sending == {"count", "choose", "reset", "read_index", "write_index", "read_again",
            "write_again"}

\* Every variable stays in its type.
TypeOK ==
  /\ packet_number \in 1..MaxCount
  /\ loss_sequence_index \in 0..MaxCount
  /\ mutex_of \in Deployments
  /\ pc \in [Threads -> Sending \cup {"idle"}]
  /\ local \in [Threads -> 0..MaxCount]
  /\ since \in 0..MaxCount
  /\ server_up \in BOOLEAN

\* "Sequence has passed, three duplicate acks detected": with one mutex, the
\* counters count what was sent, and exactly as many packets are sent between two
\* simulations as the sequence says.
SequenceExact ==
  Serial => /\ loss_sequence_index < Size =>
                 IF \E t \in Threads : pc[t] = "reset"
                 THEN since = loss_sequence[loss_sequence_index + 1]
                 ELSE since < loss_sequence[loss_sequence_index + 1]
            /\ (\A t \in Threads : pc[t] = "idle") => packet_number = since + 1

\* The index is out of the sequence's range only while a thread is between
\* incrementing and reducing it, and only then, when another thread reads it, can
\* the process go down.
OutOfRangePending ==
  /\ loss_sequence_index >= Size => \E t \in Threads : pc[t] \in {"read_again", "write_again"}
  /\ ~server_up => ~Serial
===============================================================================
