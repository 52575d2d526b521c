-------------------------- MODULE PacketSenderProofs --------------------------
(***************************************************************************)
(* Proofs about PacketSender, for any number of threads, any loss sequence *)
(* and any assignment of mutexes.                                          *)
(***************************************************************************)
EXTENDS PacketSender, TLAPS

-----------------------------------------------------------------------------
(* The inductive invariant.                                                *)

\* Threads with the same mutex are not both in send_packet.
Exclusive ==
  \A t, u \in Threads :
    t # u /\ mutex_of[t] = mutex_of[u] /\ pc[t] # "idle" => pc[u] = "idle"

IndexPending ==
  loss_sequence_index >= Size => \E t \in Threads : pc[t] \in {"read_again", "write_again"}

DownNotSerial == ~server_up => ~Serial

\* What the counters are while a thread that shares its mutex with all others
\* is in send_packet.
Place(t) ==
  /\ pc[t] = "count" => local[t] = packet_number /\ packet_number = since + 1
  /\ pc[t] = "choose" => local[t] = since + 1 /\ packet_number = since + 2
  /\ pc[t] \in {"read_index", "write_index", "read_again", "write_again"} =>
       since = 0 /\ packet_number = 1
  /\ pc[t] = "write_index" => local[t] = loss_sequence_index

Places == Serial => \A t \in Threads : Place(t)

IInv == /\ TypeOK
        /\ Exclusive
        /\ IndexPending
        /\ DownNotSerial
        /\ Places
        /\ SequenceExact

-----------------------------------------------------------------------------
(* Remainders, and the numbers of the sequence.                            *)

LEMMA ModSelf == \A n \in Nat \ {0} : n % n = 0
  BY SMT

LEMMA ModSmall == \A a, n \in Nat : a < n => a % n = a
  BY SMT

LEMMA ModBelow == \A a \in Nat, n \in Nat \ {0} : a % n \in 0..(n - 1)
  BY SMT

LEMMA SizePositive == Size \in Nat \ {0}
  BY SequenceAssumption DEF Size

LEMMA NumberPositive ==
  \A i \in Nat : i < Size => loss_sequence[i + 1] \in Nat \ {0}
  BY SequenceAssumption DEF Size

-----------------------------------------------------------------------------
LEMMA InitInvariant == Init => IInv
  <1> SUFFICES ASSUME Init PROVE IInv
    OBVIOUS
  <1>1. TypeOK
    BY BoundAssumption DEF Init, TypeOK, Sending
  <1>2. 0 < Size /\ loss_sequence[1] \in Nat \ {0}
    BY SizePositive, NumberPositive
  <1>3. \A t \in Threads : pc[t] = "idle"
    BY DEF Init
  <1>4. ~(loss_sequence_index >= Size)
    BY <1>2, SizePositive DEF Init
  <1>5. Exclusive
    BY <1>3 DEF Exclusive
  <1>6. IndexPending
    BY <1>4 DEF IndexPending
  <1>7. DownNotSerial
    BY DEF Init, DownNotSerial
  <1>8. Places
    BY <1>3 DEF Places, Place
  <1>9. SequenceExact
    BY <1>2, <1>3 DEF Init, SequenceExact
  <1> QED BY <1>1, <1>5, <1>6, <1>7, <1>8, <1>9 DEF IInv

\* In a serial deployment a thread in send_packet is there alone.
LEMMA Alone ==
  ASSUME TypeOK, Exclusive, Serial, NEW t \in Threads, pc[t] # "idle"
  PROVE  \A u \in Threads : u # t => pc[u] = "idle"
  BY DEF Exclusive, Serial

\* In a serial deployment the index is in range unless a thread is reducing it.
LEMMA InRange ==
  ASSUME TypeOK, Exclusive, IndexPending, Serial, NEW t \in Threads,
         pc[t] \notin {"idle", "read_again", "write_again"}
  PROVE  loss_sequence_index < Size
  <1>1. \A u \in Threads : u # t => pc[u] = "idle"
    BY Alone
  <1>2. \A u \in Threads : pc[u] \notin {"read_again", "write_again"}
    BY <1>1
  <1> QED BY <1>2, SizePositive DEF IndexPending, TypeOK

-----------------------------------------------------------------------------
(* Each conjunct separately.                                               *)

LEMMA StepType == TypeOK /\ [Next]_vars => TypeOK'
  <1> SUFFICES ASSUME TypeOK, [Next]_vars PROVE TypeOK'
    OBVIOUS
  <1> USE BoundAssumption DEF TypeOK, Sending
  <1>1. ASSUME NEW t \in Threads, ReadNumber(t) PROVE TypeOK'
    BY <1>1 DEF ReadNumber, Step, Keep, counters
  <1>2. ASSUME NEW t \in Threads, WriteNumber(t) PROVE TypeOK'
    BY <1>2 DEF WriteNumber, Step
  <1>3. ASSUME NEW t \in Threads, SendOrLose(t) PROVE TypeOK'
    BY <1>3 DEF SendOrLose, Step, counters
  <1>4. ASSUME NEW t \in Threads, DuplicateAcks(t) PROVE TypeOK'
    BY <1>4 DEF DuplicateAcks, Step, counters
  <1>5. ASSUME NEW t \in Threads, Crash(t) PROVE TypeOK'
    BY <1>5 DEF Crash, Step, counters
  <1>6. ASSUME NEW t \in Threads, ResetNumber(t) PROVE TypeOK'
    BY <1>6 DEF ResetNumber, Step, FirstNumber
  <1>7. ASSUME NEW t \in Threads, ReadIndex(t) PROVE TypeOK'
    BY <1>7 DEF ReadIndex, Step, Keep, counters
  <1>8. ASSUME NEW t \in Threads, WriteIndex(t) PROVE TypeOK'
    BY <1>8 DEF WriteIndex, Step
  <1>9. ASSUME NEW t \in Threads, ReduceIndex(t) PROVE TypeOK'
    <2> local[t] \in Nat
      OBVIOUS
    <2>1. local[t] % Size \in 0..(Size - 1)
      BY ModBelow, SizePositive
    <2>2. local[t] % Size <= local[t]
      <3>1. CASE local[t] < Size
        BY <3>1, ModSmall, SizePositive
      <3>2. CASE local[t] >= Size
        BY <3>2, <2>1, SizePositive
      <3> QED BY <3>1, <3>2, SizePositive
    <2>3. loss_sequence_index' \in 0..MaxCount
      BY <1>9, <2>1, <2>2, SizePositive DEF ReduceIndex, Wrapped
    <2> QED BY <1>9, <2>3 DEF ReduceIndex, Step
  <1>10. CASE UNCHANGED vars
    BY <1>10 DEF vars, counters
  <1> QED BY <1>1, <1>2, <1>3, <1>4, <1>5, <1>6, <1>7, <1>8, <1>9, <1>10 DEF Next

\* What a step of thread t does to the places of the threads.
LEMMA StepPlaces ==
  ASSUME TypeOK, NEW t \in Threads,
         \/ ReadNumber(t) \/ WriteNumber(t) \/ SendOrLose(t) \/ DuplicateAcks(t) \/ Crash(t)
         \/ ResetNumber(t) \/ ReadIndex(t) \/ WriteIndex(t) \/ ReduceIndex(t)
  PROVE  /\ \A u \in Threads : u # t => pc'[u] = pc[u]
         /\ UNCHANGED mutex_of
         /\ pc[t] = "idle" => \A u \in Threads : mutex_of[u] = mutex_of[t] => pc[u] = "idle"
         /\ pc[t] \in {"read_again", "write_again"} =>
              \/ pc'[t] \in {"read_again", "write_again"}
              \/ loss_sequence_index' < Size
         /\ loss_sequence_index' # loss_sequence_index =>
              pc'[t] = "read_again" \/ loss_sequence_index' < Size
  <1>1. local[t] % Size < Size
    BY ModBelow, SizePositive DEF TypeOK
  <1> QED
    BY <1>1 DEF ReadNumber, WriteNumber, SendOrLose, DuplicateAcks, Crash, ResetNumber,
                ReadIndex, WriteIndex, ReduceIndex, Step, TypeOK, counters, Wrapped

LEMMA StepExclusive == TypeOK /\ Exclusive /\ [Next]_vars => Exclusive'
  <1> SUFFICES ASSUME TypeOK, Exclusive, [Next]_vars PROVE Exclusive'
    OBVIOUS
  <1>1. CASE UNCHANGED vars
    BY <1>1 DEF Exclusive, vars
  <1>2. CASE Next
    <2> PICK t \in Threads :
          \/ ReadNumber(t) \/ WriteNumber(t) \/ SendOrLose(t) \/ DuplicateAcks(t) \/ Crash(t)
          \/ ResetNumber(t) \/ ReadIndex(t) \/ WriteIndex(t) \/ ReduceIndex(t)
      BY <1>2 DEF Next
    <2>1. \A u \in Threads : u # t => pc'[u] = pc[u]
      BY StepPlaces
    <2>2. UNCHANGED mutex_of
      BY StepPlaces
    <2>3. pc[t] = "idle" => \A u \in Threads : mutex_of[u] = mutex_of[t] => pc[u] = "idle"
      BY StepPlaces
    <2> QED BY <2>1, <2>2, <2>3 DEF Exclusive
  <1> QED BY <1>1, <1>2

LEMMA StepPending == TypeOK /\ IndexPending /\ [Next]_vars => IndexPending'
  <1> SUFFICES ASSUME TypeOK, IndexPending, [Next]_vars PROVE IndexPending'
    OBVIOUS
  <1>1. CASE UNCHANGED vars
    BY <1>1 DEF IndexPending, vars, counters
  <1>2. CASE Next
    <2> PICK t \in Threads :
          \/ ReadNumber(t) \/ WriteNumber(t) \/ SendOrLose(t) \/ DuplicateAcks(t) \/ Crash(t)
          \/ ResetNumber(t) \/ ReadIndex(t) \/ WriteIndex(t) \/ ReduceIndex(t)
      BY <1>2 DEF Next
    <2>1. \A u \in Threads : u # t => pc'[u] = pc[u]
      BY StepPlaces
    <2>2. pc[t] \in {"read_again", "write_again"} =>
            pc'[t] \in {"read_again", "write_again"} \/ loss_sequence_index' < Size
      BY StepPlaces
    <2>3. loss_sequence_index' # loss_sequence_index =>
            pc'[t] = "read_again" \/ loss_sequence_index' < Size
      BY StepPlaces
    <2>4. TypeOK'
      BY StepType
    <2>5. SUFFICES ASSUME loss_sequence_index' >= Size
                   PROVE  \E u \in Threads : pc'[u] \in {"read_again", "write_again"}
      BY DEF IndexPending
    <2>6. ~(loss_sequence_index' < Size)
      BY <2>4, <2>5, SizePositive DEF TypeOK
    <2>7. CASE loss_sequence_index' # loss_sequence_index
      BY <2>3, <2>6, <2>7
    <2>8. CASE loss_sequence_index' = loss_sequence_index
      <3> PICK u \in Threads : pc[u] \in {"read_again", "write_again"}
        BY <2>5, <2>8 DEF IndexPending
      <3> QED BY <2>1, <2>2, <2>6
    <2> QED BY <2>7, <2>8
  <1> QED BY <1>1, <1>2

LEMMA StepDown ==
  TypeOK /\ Exclusive /\ IndexPending /\ DownNotSerial /\ [Next]_vars => DownNotSerial'
  <1> SUFFICES ASSUME TypeOK, Exclusive, IndexPending, DownNotSerial, [Next]_vars
               PROVE  DownNotSerial'
    OBVIOUS
  <1>1. ASSUME NEW t \in Threads, Crash(t) PROVE DownNotSerial'
    <2>1. pc[t] = "choose" /\ loss_sequence_index >= Size /\ UNCHANGED mutex_of
      BY <1>1 DEF Crash, Step
    <2>2. ~(loss_sequence_index < Size)
      BY <2>1, SizePositive DEF TypeOK
    <2>3. ~Serial
      BY <2>1, <2>2, InRange
    <2> QED BY <2>1, <2>3 DEF DownNotSerial, Serial
  <1>2. ASSUME NEW t \in Threads, ~Crash(t),
               \/ ReadNumber(t) \/ WriteNumber(t) \/ SendOrLose(t) \/ DuplicateAcks(t)
               \/ ResetNumber(t) \/ ReadIndex(t) \/ WriteIndex(t) \/ ReduceIndex(t)
        PROVE  DownNotSerial'
    <2>1. UNCHANGED <<mutex_of, server_up>>
      BY <1>2 DEF ReadNumber, WriteNumber, SendOrLose, DuplicateAcks, ResetNumber, ReadIndex,
                  WriteIndex, ReduceIndex, Step
    <2> QED BY <2>1 DEF DownNotSerial, Serial
  <1>3. CASE UNCHANGED vars
    BY <1>3 DEF DownNotSerial, Serial, vars
  <1> QED BY <1>1, <1>2, <1>3 DEF Next

-----------------------------------------------------------------------------
(* The counters when all threads share a mutex: thread t is the one in     *)
(* send_packet.                                                            *)

At(t) ==
  /\ loss_sequence_index < Size =>
       IF pc[t] = "reset" THEN since = loss_sequence[loss_sequence_index + 1]
                          ELSE since < loss_sequence[loss_sequence_index + 1]
  /\ pc[t] = "idle" => packet_number = since + 1

LEMMA SerialBefore ==
  ASSUME IInv, Serial, NEW t \in Threads,
         pc[t] = "idle" => \A u \in Threads : pc[u] = "idle"
  PROVE  /\ Place(t) /\ At(t)
         /\ \A u \in Threads : u # t => pc[u] = "idle"
  <1>1. \A u \in Threads : u # t => pc[u] = "idle"
    BY Alone DEF IInv
  <1>2. Place(t)
    BY DEF IInv, Places
  <1>3. (\E u \in Threads : pc[u] = "reset") <=> pc[t] = "reset"
    BY <1>1
  <1>4. (\A u \in Threads : pc[u] = "idle") <=> pc[t] = "idle"
    BY <1>1
  <1>5. At(t)
    BY <1>3, <1>4 DEF IInv, SequenceExact, At
  <1> QED BY <1>1, <1>2, <1>5

LEMMA SerialAfter ==
  ASSUME NEW t \in Threads, Place(t)', At(t)', \A u \in Threads : u # t => pc'[u] = "idle"
  PROVE  Places' /\ SequenceExact'
  <1>1. (\E u \in Threads : pc'[u] = "reset") <=> pc'[t] = "reset"
    OBVIOUS
  <1>2. (\A u \in Threads : pc'[u] = "idle") <=> pc'[t] = "idle"
    OBVIOUS
  <1>3. \A u \in Threads : Place(u)'
    BY DEF Place
  <1> QED BY <1>1, <1>2, <1>3 DEF Places, SequenceExact, At

LEMMA StepSerial ==
  ASSUME IInv, Serial, NEW t \in Threads,
         \/ ReadNumber(t) \/ WriteNumber(t) \/ SendOrLose(t) \/ DuplicateAcks(t) \/ Crash(t)
         \/ ResetNumber(t) \/ ReadIndex(t) \/ WriteIndex(t) \/ ReduceIndex(t)
  PROVE  Places' /\ SequenceExact'
  <1>1. TypeOK
    BY DEF IInv
  <1>2. /\ \A u \in Threads : u # t => pc'[u] = pc[u]
        /\ pc[t] = "idle" => \A u \in Threads : mutex_of[u] = mutex_of[t] => pc[u] = "idle"
    BY <1>1, StepPlaces
  <1>3. pc[t] = "idle" => \A u \in Threads : pc[u] = "idle"
    BY <1>2 DEF Serial
  <1>4. /\ Place(t) /\ At(t)
        /\ \A u \in Threads : u # t => pc[u] = "idle"
    BY <1>3, SerialBefore
  <1>5. pc[t] \notin {"idle", "read_again", "write_again"} => loss_sequence_index < Size
    BY InRange DEF IInv
  <1>6. loss_sequence_index < Size => loss_sequence[loss_sequence_index + 1] \in Nat \ {0}
    BY <1>1, NumberPositive DEF TypeOK
  <1>7. /\ local[t] \in Nat /\ since \in Nat /\ packet_number \in Nat
        /\ loss_sequence_index \in Nat
    BY <1>1, BoundAssumption DEF TypeOK
  <1> SUFFICES Place(t)' /\ At(t)'
    BY <1>2, <1>4, SerialAfter
  <1>8. CASE ReadNumber(t)
    <2>1. /\ pc[t] = "idle" /\ pc'[t] = "count" /\ local'[t] = packet_number
          /\ UNCHANGED <<packet_number, loss_sequence_index, since>>
      BY <1>1, <1>8 DEF ReadNumber, Step, Keep, counters, TypeOK
    <2> QED BY <1>4, <2>1 DEF Place, At
  <1>9. CASE WriteNumber(t)
    <2>1. /\ pc[t] = "count" /\ pc'[t] = "choose" /\ packet_number' = local[t] + 1
          /\ local'[t] = local[t] /\ UNCHANGED <<loss_sequence_index, since>>
      BY <1>1, <1>9 DEF WriteNumber, Step, TypeOK
    <2> QED BY <1>4, <1>7, <2>1 DEF Place, At
  <1>10. CASE SendOrLose(t)
    <2> DEFINE L == loss_sequence[loss_sequence_index + 1]
    <2>1. /\ pc[t] = "choose" /\ pc'[t] = "idle" /\ since' = since + 1
          /\ UNCHANGED <<packet_number, loss_sequence_index>>
          /\ loss_sequence_index < Size => local[t] % L # 0
      BY <1>1, <1>10 DEF SendOrLose, Step, counters, TypeOK, Passed
    <2>2. L \in Nat \ {0} /\ local[t] % L # 0 /\ since < L /\ local[t] = since + 1
      BY <1>4, <1>5, <1>6, <2>1 DEF At, Place
    <2>3. L % L = 0
      BY <2>2, ModSelf
    <2>4. since + 1 # L
      BY <2>2, <2>3
    <2>5. since + 1 < L
      <3> HIDE DEF L
      <3> QED BY <1>7, <2>2, <2>4
    <2> QED BY <1>4, <1>7, <2>1, <2>5 DEF Place, At
  <1>11. CASE DuplicateAcks(t)
    <2> DEFINE L == loss_sequence[loss_sequence_index + 1]
    <2>1. /\ pc[t] = "choose" /\ pc'[t] = "reset" /\ since' = since + 1
          /\ UNCHANGED <<packet_number, loss_sequence_index>>
          /\ loss_sequence_index < Size => local[t] % L = 0
      BY <1>1, <1>11 DEF DuplicateAcks, Step, counters, TypeOK, Passed
    <2>2. L \in Nat \ {0} /\ local[t] % L = 0 /\ since < L /\ local[t] = since + 1
      BY <1>4, <1>5, <1>6, <2>1 DEF At, Place
    <2>3. local[t] < L => local[t] % L = local[t]
      BY <1>7, <2>2, ModSmall
    <2>4. since + 1 = L
      <3> HIDE DEF L
      <3> QED BY <1>7, <2>2, <2>3
    <2> QED BY <2>1, <2>4 DEF Place, At
  <1>12. CASE Crash(t)
    <2>1. /\ pc'[t] = pc[t]
          /\ UNCHANGED <<packet_number, loss_sequence_index, local, since>>
      BY <1>1, <1>12 DEF Crash, Step, counters, TypeOK
    <2> QED BY <1>4, <2>1 DEF Place, At
  <1>13. CASE ResetNumber(t)
    <2>1. /\ pc[t] = "reset" /\ pc'[t] = "read_index" /\ since' = 0 /\ packet_number' = 1
          /\ UNCHANGED loss_sequence_index
      BY <1>1, <1>13 DEF ResetNumber, Step, TypeOK, FirstNumber
    <2> QED BY <1>6, <1>7, <2>1 DEF Place, At
  <1>14. CASE ReadIndex(t)
    <2>1. /\ \/ pc[t] = "read_index" /\ pc'[t] = "write_index"
             \/ pc[t] = "read_again" /\ pc'[t] = "write_again"
          /\ local'[t] = loss_sequence_index
          /\ UNCHANGED <<packet_number, loss_sequence_index, since>>
      BY <1>1, <1>14 DEF ReadIndex, Step, Keep, counters, TypeOK
    <2> QED BY <1>4, <2>1 DEF Place, At
  <1>15. CASE WriteIndex(t)
    <2>1. /\ pc[t] = "write_index" /\ pc'[t] = "read_again"
          /\ loss_sequence_index' = local[t] + 1 /\ UNCHANGED <<packet_number, since>>
      BY <1>1, <1>15 DEF WriteIndex, Step, TypeOK
    <2>2. since' = 0 /\ packet_number' = 1
      BY <1>4, <2>1 DEF Place
    <2>3. loss_sequence_index' < Size => loss_sequence[loss_sequence_index' + 1] \in Nat \ {0}
      BY <1>7, <2>1, NumberPositive
    <2> QED BY <2>1, <2>2, <2>3 DEF Place, At
  <1>16. CASE ReduceIndex(t)
    <2>1. /\ pc[t] = "write_again" /\ pc'[t] = "idle"
          /\ loss_sequence_index' = local[t] % Size /\ UNCHANGED <<packet_number, since>>
      BY <1>1, <1>16 DEF ReduceIndex, Step, TypeOK, Wrapped
    <2>2. since' = 0 /\ packet_number' = 1
      BY <1>4, <2>1 DEF Place
    <2>3. loss_sequence_index' \in Nat
      BY <1>7, <2>1, ModBelow, SizePositive
    <2>4. loss_sequence_index' < Size => loss_sequence[loss_sequence_index' + 1] \in Nat \ {0}
      BY <2>3, NumberPositive
    <2> QED BY <2>1, <2>2, <2>4 DEF Place, At
  <1> QED BY <1>8, <1>9, <1>10, <1>11, <1>12, <1>13, <1>14, <1>15, <1>16

LEMMA Invariance == IInv /\ [Next]_vars => IInv'
  <1> SUFFICES ASSUME IInv, [Next]_vars PROVE IInv'
    OBVIOUS
  <1>1. TypeOK' /\ Exclusive' /\ IndexPending' /\ DownNotSerial'
    BY StepType, StepExclusive, StepPending, StepDown DEF IInv
  <1>2. ASSUME Serial' PROVE Places' /\ SequenceExact'
    <2>1. CASE UNCHANGED vars
      BY <2>1 DEF IInv, Places, Place, SequenceExact, Serial, vars, counters
    <2>2. CASE Next
      <3> PICK t \in Threads :
            \/ ReadNumber(t) \/ WriteNumber(t) \/ SendOrLose(t) \/ DuplicateAcks(t) \/ Crash(t)
            \/ ResetNumber(t) \/ ReadIndex(t) \/ WriteIndex(t) \/ ReduceIndex(t)
        BY <2>2 DEF Next
      <3>1. UNCHANGED mutex_of
        BY StepPlaces DEF IInv
      <3>2. Serial
        BY <1>2, <3>1 DEF Serial
      <3> QED BY <3>2, StepSerial
    <2> QED BY <2>1, <2>2
  <1>3. Places' /\ SequenceExact'
    BY <1>2 DEF Places, SequenceExact
  <1> QED BY <1>1, <1>3 DEF IInv

-----------------------------------------------------------------------------
LEMMA Invariant == Spec => []IInv
  BY InitInvariant, Invariance, PTL DEF Spec

\* The counters of send_packet keep their types, whatever the interleaving.
THEOREM TypeCorrect == Spec => []TypeOK
  <1>1. IInv => TypeOK
    BY DEF IInv
  <1> QED BY <1>1, Invariant, PTL

\* With one mutex for all threads, send_packet simulates its three duplicate ACKs
\* after exactly as many packets as the current number of loss_sequence.
THEOREM SequenceCorrect == Spec => []SequenceExact
  <1>1. IInv => SequenceExact
    BY DEF IInv
  <1> QED BY <1>1, Invariant, PTL

\* loss_sequence_index is out of range only between its increment and its
\* reduction, and reading it there needs threads that share no mutex.
THEOREM RangeCorrect == Spec => []OutOfRangePending
  <1>1. IInv => OutOfRangePending
    BY DEF IInv, IndexPending, DownNotSerial, OutOfRangePending
  <1> QED BY <1>1, Invariant, PTL
===============================================================================
