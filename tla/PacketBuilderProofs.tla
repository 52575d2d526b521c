------------------------- MODULE PacketBuilderProofs -------------------------
(***************************************************************************)
(* The safety of PacketBuilder for every file, packet size and block size, *)
(* by the inductive invariant IInv: the packets cut off so far are a chain *)
(* that ends where the reading got to.                                     *)
(***************************************************************************)
EXTENDS PacketBuilder, SequenceTheorems, TLAPS

M == MAX_DATA_SIZE

\* Packets that n bytes are cut into.
Count(n) == (n + M - 1) \div M

LEMMA Sizes == /\ M \in Nat \ {0} /\ queue_size \in Nat \ {0}
               /\ FirstSeqno \in Nat /\ MaxFileSize \in Nat
  BY SizeAssumption DEF M

LEMMA Divided ==
  ASSUME NEW x \in Nat, NEW m \in Nat \ {0}
  PROVE  /\ x \div m \in Nat
         /\ m * (x \div m) <= x
         /\ x < m * (x \div m) + m
  BY SMT

LEMMA TimesNext == \A m, i \in Int : m * (i + 1) = m * i + m
  BY SMT

\* Multiples of m are in the order of the factors.
LEMMA TimesOrder ==
  ASSUME NEW m \in Nat \ {0}, NEW i \in Int, NEW j \in Int
  PROVE  /\ i <= j => m * i <= m * j
         /\ m * i < m * j => i < j
         /\ m * i \in Int
  BY SMT

LEMMA CountIs ==
  ASSUME NEW n \in Nat
  PROVE  /\ Count(n) \in Nat
         /\ n <= M * Count(n)
         /\ n > 0 => M * (Count(n) - 1) < n
         /\ Count(n) = 0 <=> n = 0
  <1> DEFINE c == Count(n)
  <1>1. n + M - 1 \in Nat /\ M \in Nat \ {0}
    BY Sizes
  <1>2. c \in Nat /\ M * c <= n + M - 1 /\ n + M - 1 < M * c + M
    BY <1>1, Divided DEF Count
  <1> HIDE DEF c
  <1>3. M * c \in Int /\ M * (c - 1) = M * c - M
    BY <1>1, <1>2, SMT
  <1>4. n <= M * c /\ M * (c - 1) < n
    BY <1>1, <1>2, <1>3
  <1>5. c = 0 => n = 0
    BY <1>1, <1>2
  <1>6. ASSUME n = 0, c # 0 PROVE FALSE
    <2>1. 1 <= c /\ M * 1 = M
      BY <1>1, <1>2, <1>6
    <2>2. M <= M * c
      BY <1>1, <1>2, <2>1, TimesOrder
    <2> QED BY <1>1, <1>2, <1>3, <1>6, <2>2
  <1> QED BY <1>2, <1>4, <1>5, <1>6 DEF c

LEMMA MinIs ==
  ASSUME NEW a \in Int, NEW b \in Int
  PROVE  Min({a, b}) = IF a <= b THEN a ELSE b
  BY SMT DEF Min

\* A block: its packets are consecutive and full but the last.
IsCut(block, from, n, seqno) ==
  /\ block \in Seq(Packet)
  /\ Len(block) = Count(n)
  /\ \A i \in 1..Count(n) :
       /\ block[i].seqno = seqno + i - 1
       /\ block[i].from = from + M * (i - 1)
       /\ block[i].len = IF i < Count(n) THEN M ELSE n - M * (i - 1)

LEMMA CutIs ==
  ASSUME NEW from \in Nat, NEW n \in Nat, NEW seqno \in Nat
  PROVE  IsCut(Cut(from, n, seqno), from, n, seqno)
  <1> DEFINE c == Count(n)
             P(i) == [seqno |-> seqno + i - 1, from |-> from + (i - 1) * M,
                      len |-> Min({M, n - (i - 1) * M})]
  <1>1. c \in Nat /\ n <= M * c /\ (n > 0 => M * (c - 1) < n) /\ (c = 0 <=> n = 0)
    BY CountIs
  <1>2. Cut(from, n, seqno) = [i \in 1..c |-> P(i)]
    BY DEF Cut, Count, M
  <1> HIDE DEF c
  <1>3. ASSUME NEW i \in 1..c
        PROVE  /\ P(i) \in Packet
               /\ P(i).seqno = seqno + i - 1
               /\ P(i).from = from + M * (i - 1)
               /\ P(i).len = IF i < c THEN M ELSE n - M * (i - 1)
    <2> DEFINE x == M * (i - 1)
    <2>1. x \in Nat /\ x = (i - 1) * M
      <3>1. M * 0 = 0 /\ M * 0 <= x /\ x \in Int
        BY <1>1, Sizes, TimesOrder
      <3>2. x = (i - 1) * M
        BY <1>1, Sizes, SMT
      <3> QED BY <3>1, <3>2
    <2>2. x <= M * (c - 1) /\ M * (c - 1) \in Int
      BY <1>1, Sizes, TimesOrder
    <2>3. M * i = x + M /\ M * i \in Int
      BY <1>1, Sizes, TimesNext
    <2>4. i < c => M * i <= M * (c - 1)
      BY <1>1, Sizes, TimesOrder
    <2>5. i = c => n <= x + M
      BY <1>1, <2>3
    <2> HIDE DEF x
    <2>6. n - x \in Int /\ n - x > 0 /\ (i < c => n - x > M) /\ (i = c => n - x <= M)
      BY <1>1, <2>1, <2>2, <2>3, <2>4, <2>5, Sizes
    <2>7. Min({M, n - x}) = IF i < c THEN M ELSE n - x
      BY <1>1, <2>6, MinIs, Sizes
    <2>8. P(i) = [seqno |-> seqno + i - 1, from |-> from + x, len |-> Min({M, n - x})]
      BY <2>1
    <2>9. /\ P(i).seqno = seqno + i - 1 /\ P(i).from = from + x
          /\ P(i).len = (IF i < c THEN M ELSE n - x)
      BY <2>7, <2>8
    <2>10. P(i) \in Packet
      <3>1. P(i).len \in 1..MAX_DATA_SIZE
        BY <1>1, <2>6, <2>9, Sizes DEF M
      <3> HIDE DEF P
      <3>2. seqno + i - 1 \in Nat /\ from + x \in Nat
        BY <1>1, <2>1
      <3>3. Min({M, n - x}) \in 1..MAX_DATA_SIZE
        BY <2>8, <3>1
      <3> QED BY <2>8, <3>2, <3>3 DEF Packet
    <2> QED BY <2>9, <2>10 DEF x
  <1> HIDE DEF P
  <1>4. Cut(from, n, seqno) \in Seq(Packet) /\ Len(Cut(from, n, seqno)) = c
    BY <1>1, <1>2, <1>3
  <1> QED BY <1>2, <1>3, <1>4 DEF c, IsCut

-----------------------------------------------------------------------------
(* What makes the properties inductive.                                    *)

\* Every packet that has been cut off, given to the worker or not.
Read == handed_out \o packets_read_queue

\* The packets are consecutive, and the last ends where the reading got to.
Chain(packets, end) ==
  /\ packets \in Seq(Packet)
  /\ packets = <<>> => end = 0
  /\ \A i \in 1..Len(packets) :
       /\ packets[i].seqno = FirstSeqno + i - 1
       /\ packets[i].from = IF i = 1 THEN 0 ELSE packets[i - 1].from + packets[i - 1].len
       /\ packets[i].from + packets[i].len <= end
       /\ i = Len(packets) => packets[i].from + packets[i].len = end

\* As long as fread gives what is asked for, the packets are those of one block,
\* and all are full until the whole file has been read.
Whole(packets, end) ==
  /\ packets = Cut(0, end, FirstSeqno)
  /\ end = M * Len(packets) \/ data_not_read = 0

\* A step of the reading: what is cut off next continues the chain.
LEMMA ChainGrows ==
  ASSUME NEW packets, NEW end \in Nat, NEW n \in Nat \ {0}, Chain(packets, end)
  PROVE  Chain(packets \o Cut(end, n, FirstSeqno + Len(packets)), end + n)
  <1> DEFINE k == Len(packets)
             block == Cut(end, n, FirstSeqno + k)
             c == Count(n)
             Q == packets \o block
  <1>1. packets \in Seq(Packet) /\ k \in Nat /\ FirstSeqno \in Nat /\ FirstSeqno + k \in Nat
    <2>1. packets \in Seq(Packet)
      BY DEF Chain
    <2> QED BY <2>1, Sizes
  <1>2. /\ c \in Nat /\ c # 0 /\ n <= M * c /\ M * (c - 1) < n
    BY CountIs
  <1>3. /\ block \in Seq(Packet) /\ Len(block) = c
        /\ \A i \in 1..c : /\ block[i].seqno = FirstSeqno + k + i - 1
                           /\ block[i].from = end + M * (i - 1)
                           /\ block[i].len = IF i < c THEN M ELSE n - M * (i - 1)
    BY <1>1, CutIs DEF IsCut
  <1> HIDE DEF block, c
  <1>4. /\ Q \in Seq(Packet) /\ Len(Q) = k + c
        /\ \A i \in 1..(k + c) : Q[i] = IF i <= k THEN packets[i] ELSE block[i - k]
    BY <1>1, <1>3, ConcatProperties
  <1> HIDE DEF Q
  <1>5. \A i \in 1..k :
          /\ packets[i].seqno = FirstSeqno + i - 1
          /\ packets[i].from = IF i = 1 THEN 0 ELSE packets[i - 1].from + packets[i - 1].len
          /\ packets[i].from + packets[i].len <= end
          /\ i = k => packets[i].from + packets[i].len = end
    BY DEF Chain
  <1>6. k = 0 => end = 0
    BY <1>1, EmptySeq DEF Chain
  <1>7. ASSUME NEW j \in 1..c
        PROVE  /\ block[j].seqno = FirstSeqno + k + j - 1
               /\ block[j].from = IF j = 1 THEN end ELSE block[j - 1].from + block[j - 1].len
               /\ block[j].from + block[j].len <= end + n
               /\ j = c => block[j].from + block[j].len = end + n
    <2>1. /\ M * 0 = 0 /\ M * (j - 1) \in Int /\ M * (c - 1) \in Int /\ M * j \in Int
          /\ M * (j - 2) \in Int /\ M * j = M * (j - 1) + M /\ M * (j - 1) = M * (j - 2) + M
      <3>1. M * ((j - 1) + 1) = M * (j - 1) + M /\ M * ((j - 2) + 1) = M * (j - 2) + M
        BY Sizes, TimesNext
      <3>2. (j - 1) + 1 = j /\ (j - 2) + 1 = j - 1
        BY <1>2
      <3>3. M * 0 = 0 /\ M * (j - 1) \in Int /\ M * (c - 1) \in Int /\ M * j \in Int
            /\ M * (j - 2) \in Int
        BY <1>2, Sizes, TimesOrder
      <3> QED BY <3>1, <3>2, <3>3
    <2>2. j < c => M * j <= M * (c - 1)
      BY <1>2, Sizes, TimesOrder
    <2>3. block[j].seqno = FirstSeqno + k + j - 1 /\ block[j].from = end + M * (j - 1)
          /\ block[j].len = IF j < c THEN M ELSE n - M * (j - 1)
      BY <1>3
    <2>4. j # 1 => block[j - 1].from = end + M * (j - 2) /\ block[j - 1].len = M
      <3> SUFFICES ASSUME j # 1 PROVE block[j - 1].from = end + M * (j - 2) /\ block[j - 1].len = M
        OBVIOUS
      <3>1. j - 1 \in 1..c /\ j - 1 < c /\ (j - 1) - 1 = j - 2
        BY <1>2
      <3> QED BY <1>3, <3>1
    <2>5. j = 1 => M * (j - 1) = 0
      BY <2>1
    <2> DEFINE x == M * (j - 1)
               y == M * j
               z == M * (c - 1)
               w == M * (j - 2)
    <2>6. /\ x \in Int /\ y \in Int /\ z \in Int /\ w \in Int
          /\ y = x + M /\ x = w + M /\ (j < c => y <= z) /\ (j = 1 => x = 0) /\ z < n
          /\ block[j].from = end + x /\ block[j].len = (IF j < c THEN M ELSE n - x)
          /\ (j # 1 => block[j - 1].from = end + w /\ block[j - 1].len = M)
      BY <1>2, <2>1, <2>2, <2>3, <2>4, <2>5
    <2> HIDE DEF x, y, z, w
    <2>7. M \in Nat
      BY Sizes
    <2>8. block[j].from = IF j = 1 THEN end ELSE block[j - 1].from + block[j - 1].len
      BY <2>6, <2>7
    <2>9. block[j].from + block[j].len <= end + n
      BY <1>2, <2>6, <2>7
    <2>10. j = c => block[j].from + block[j].len = end + n
      BY <1>2, <2>6, <2>7
    <2> QED BY <2>3, <2>8, <2>9, <2>10
  <1>8. ASSUME NEW i \in 1..(k + c)
        PROVE  /\ Q[i].seqno = FirstSeqno + i - 1
               /\ Q[i].from = IF i = 1 THEN 0 ELSE Q[i - 1].from + Q[i - 1].len
               /\ Q[i].from + Q[i].len <= end + n
               /\ i = k + c => Q[i].from + Q[i].len = end + n
    <2>1. CASE i <= k
      <3>1. i \in 1..k /\ Q[i] = packets[i] /\ i # k + c
        BY <1>1, <1>2, <1>4, <2>1
      <3>2. i # 1 => Q[i - 1] = packets[i - 1]
        BY <1>1, <1>2, <1>4, <2>1
      <3>3. packets[i].from \in Nat /\ packets[i].len \in Int
        <4>1. packets[i] \in Packet
          BY <1>1, <3>1, ElementOfSeq
        <4> QED BY <4>1, Sizes DEF Packet
      <3>4. packets[i].from + packets[i].len <= end
        BY <1>5, <3>1
      <3> QED BY <1>5, <3>1, <3>2, <3>3, <3>4
    <2>2. CASE i > k
      <3>1. i - k \in 1..c /\ Q[i] = block[i - k] /\ (i = k + c <=> i - k = c)
            /\ FirstSeqno + k + (i - k) - 1 = FirstSeqno + i - 1
        <4>1. Q[i] = block[i - k]
          BY <1>1, <1>2, <1>4, <2>2
        <4>2. i - k \in 1..c /\ (i = k + c <=> i - k = c)
          BY <1>1, <1>2, <2>2
        <4>3. FirstSeqno + k + (i - k) - 1 = FirstSeqno + i - 1
          BY <1>1, <2>2
        <4> QED BY <4>1, <4>2, <4>3
      <3>2. i - k # 1 => Q[i - 1] = block[i - k - 1]
        <4> SUFFICES ASSUME i - k # 1 PROVE Q[i - 1] = block[i - k - 1]
          OBVIOUS
        <4>1. i - 1 \in 1..(k + c) /\ ~(i - 1 <= k) /\ (i - 1) - k = i - k - 1
          BY <1>1, <1>2, <2>2
        <4> QED BY <1>4, <4>1
      <3>3. i - k = 1 /\ i # 1 => Q[i - 1].from + Q[i - 1].len = end
        <4> SUFFICES ASSUME i - k = 1, i # 1 PROVE Q[i - 1].from + Q[i - 1].len = end
          OBVIOUS
        <4>1. i - 1 = k /\ k \in 1..k /\ k \in 1..(k + c)
          BY <1>1, <1>2
        <4>2. Q[i - 1] = packets[k]
          BY <1>1, <1>4, <4>1
        <4> QED BY <1>5, <4>1, <4>2
      <3>4. i - k = 1 /\ i = 1 => end = 0
        BY <1>1, <1>6
      <3>5. i - k # 1 => i # 1
        BY <1>1, <2>2
      <3>6. /\ block[i - k].seqno = FirstSeqno + k + (i - k) - 1
            /\ block[i - k].from = IF i - k = 1 THEN end ELSE block[i - k - 1].from + block[i - k - 1].len
            /\ block[i - k].from + block[i - k].len <= end + n
            /\ i - k = c => block[i - k].from + block[i - k].len = end + n
        BY <1>7, <3>1
      <3> QED BY <3>1, <3>2, <3>3, <3>4, <3>5, <3>6
    <2> QED BY <1>1, <2>1, <2>2
  <1>9. Q # <<>>
    BY <1>1, <1>2, <1>4, EmptySeq
  <1> QED BY <1>4, <1>8, <1>9 DEF Chain, Q, block

LEMMA CountTimes ==
  ASSUME NEW k \in Nat, NEW end \in Nat, end = M * k
  PROVE  Count(end) = k
  <1> DEFINE d == Count(end)
  <1>1. d \in Nat /\ end <= M * d /\ (end > 0 => M * (d - 1) < end) /\ (d = 0 <=> end = 0)
    BY CountIs
  <1> HIDE DEF d
  <1>2. k <= d
    <2>1. M * d < M * k => FALSE
      BY Sizes, <1>1, TimesOrder
    <2>2. ~(k <= d) => d + 1 <= k
      BY <1>1
    <2>3. d + 1 <= k => M * (d + 1) <= M * k
      BY Sizes, <1>1, TimesOrder
    <2>4. M * (d + 1) = M * d + M /\ M * d \in Int /\ M * k \in Int
      BY Sizes, <1>1, TimesNext, TimesOrder
    <2> QED BY Sizes, <2>1, <2>2, <2>3, <2>4
  <1>3. d <= k
    <2>1. CASE end = 0
      BY <1>1, <2>1
    <2>2. CASE end # 0
      <3>1. M * (d - 1) < M * k
        BY <1>1, <2>2
      <3>2. d - 1 < k
        BY Sizes, <1>1, <3>1, TimesOrder
      <3> QED BY <1>1, <3>2
    <2> QED BY <2>1, <2>2
  <1>4. d = k
    BY <1>1, <1>2, <1>3
  <1> QED BY <1>4 DEF d

\* What is cut off a file in full packets is the same with blocks as without.
LEMMA CutGrows ==
  ASSUME NEW end \in Nat, NEW n \in Nat \ {0}, NEW k \in Nat, end = M * k
  PROVE  /\ Len(Cut(0, end, FirstSeqno)) = k
         /\ Cut(0, end + n, FirstSeqno)
              = Cut(0, end, FirstSeqno) \o Cut(end, n, FirstSeqno + k)
  <1> DEFINE c == Count(n)
             A == Cut(0, end, FirstSeqno)
             B == Cut(end, n, FirstSeqno + k)
             C == Cut(0, end + n, FirstSeqno)
  <1>1. c \in Nat /\ c # 0 /\ FirstSeqno + k \in Nat /\ FirstSeqno \in Nat /\ end + n \in Nat
        /\ 0 \in Nat /\ M \in Nat \ {0}
    BY CountIs, Sizes
  <1>2. Count(end) = k
    BY CountTimes
  <1>3. Count(end + n) = k + c
    <2>1. (end + n + M - 1) \div M = k + (n + M - 1) \div M
      <3>1. n + M - 1 \in Nat /\ M * k \in Int /\ end + n + M - 1 = M * k + (n + M - 1)
        BY <1>1, TimesOrder
      <3>2. \A x \in Nat : (M * k + x) \div M = k + x \div M
        BY <1>1, SMT
      <3> QED BY <3>1, <3>2
    <2> QED BY <2>1 DEF Count
  <1>4. /\ A \in Seq(Packet) /\ Len(A) = k
        /\ \A i \in 1..k : /\ A[i].seqno = FirstSeqno + i - 1
                           /\ A[i].from = 0 + M * (i - 1)
                           /\ A[i].len = IF i < k THEN M ELSE end - M * (i - 1)
    <2>1. IsCut(A, 0, end, FirstSeqno)
      BY <1>1, CutIs
    <2> HIDE DEF A, B, C
    <2> QED BY <1>2, <2>1 DEF IsCut
  <1>5. /\ B \in Seq(Packet) /\ Len(B) = c
        /\ \A i \in 1..c : /\ B[i].seqno = FirstSeqno + k + i - 1
                           /\ B[i].from = end + M * (i - 1)
                           /\ B[i].len = IF i < c THEN M ELSE n - M * (i - 1)
    <2>1. IsCut(B, end, n, FirstSeqno + k)
      BY <1>1, CutIs
    <2> HIDE DEF A, B, C
    <2> QED BY <2>1 DEF IsCut
  <1>6. /\ C \in Seq(Packet) /\ Len(C) = k + c
        /\ \A i \in 1..(k + c) : /\ C[i].seqno = FirstSeqno + i - 1
                                 /\ C[i].from = 0 + M * (i - 1)
                                 /\ C[i].len = IF i < k + c THEN M ELSE (end + n) - M * (i - 1)
    <2>1. IsCut(C, 0, end + n, FirstSeqno)
      BY <1>1, CutIs
    <2> HIDE DEF A, B, C
    <2> QED BY <1>3, <2>1 DEF IsCut
  <1> HIDE DEF A, B, C, c
  <1>7. /\ A \o B \in Seq(Packet) /\ Len(A \o B) = k + c
        /\ \A i \in 1..(k + c) : (A \o B)[i] = IF i <= k THEN A[i] ELSE B[i - k]
    <2>1. /\ A \o B \in Seq(Packet) /\ Len(A \o B) = Len(A) + Len(B)
          /\ \A i \in 1..(Len(A) + Len(B)) :
               (A \o B)[i] = IF i <= Len(A) THEN A[i] ELSE B[i - Len(A)]
      BY <1>4, <1>5, ConcatProperties
    <2>2. Len(A) = k /\ Len(B) = c
      BY <1>4, <1>5
    <2> QED BY <2>1, <2>2
  <1>8. \A p, q \in Packet : p.seqno = q.seqno /\ p.from = q.from /\ p.len = q.len => p = q
    BY DEF Packet
  <1>9. ASSUME NEW i \in 1..(k + c) PROVE (A \o B)[i] = C[i]
    <2>1. C[i] \in Packet /\ (A \o B)[i] \in Packet
      BY <1>6, <1>7, ElementOfSeq
    <2>2. M * (i - 1) \in Int
      BY <1>1, TimesOrder
    <2>3. CASE i <= k
      <3>1. i \in 1..k /\ i < k + c /\ (A \o B)[i] = A[i]
        BY <1>1, <1>7, <2>3
      <3>2. i = k => M * (i - 1) = end - M
        <4>1. M * ((k - 1) + 1) = M * (k - 1) + M /\ (k - 1) + 1 = k /\ M * (k - 1) \in Int
          BY <1>1, TimesNext, TimesOrder
        <4> QED BY <1>1, <4>1
      <3>3. A[i].len = M
        <4>1. A[i].len = IF i < k THEN M ELSE end - M * (i - 1)
          BY <1>4, <3>1
        <4>2. ~(i < k) => i = k
          BY <3>1
        <4> QED BY <1>1, <2>2, <3>2, <4>1, <4>2
      <3>4. A[i].seqno = C[i].seqno /\ A[i].from = C[i].from
        BY <1>4, <1>6, <3>1
      <3>5. C[i].len = M
        BY <1>6, <3>1
      <3> QED BY <1>8, <2>1, <3>1, <3>3, <3>4, <3>5
    <2>4. CASE i > k
      <3> DEFINE j == i - k
      <3>1. j \in 1..c /\ (i < k + c <=> j < c) /\ k + j = i
        BY <1>1, <2>4
      <3>2. (A \o B)[i] = B[j]
        BY <1>1, <1>7, <2>4
      <3>3. M * (i - 1) = end + M * (j - 1) /\ M * (j - 1) \in Int
        <4>1. \A a, b \in Int : M * (a + b) = M * a + M * b
          BY <1>1, SMT
        <4>2. i - 1 = k + (j - 1) /\ j - 1 \in Int
          BY <1>1, <3>1
        <4> QED BY <1>1, <4>1, <4>2, TimesOrder
      <3> HIDE DEF j
      <3>4. /\ B[j].seqno = FirstSeqno + k + j - 1 /\ B[j].from = end + M * (j - 1)
            /\ B[j].len = IF j < c THEN M ELSE n - M * (j - 1)
        BY <1>5, <3>1
      <3>5. /\ C[i].seqno = FirstSeqno + i - 1 /\ C[i].from = 0 + M * (i - 1)
            /\ C[i].len = IF i < k + c THEN M ELSE (end + n) - M * (i - 1)
        BY <1>6
      <3>6. B[j].seqno = C[i].seqno
        BY <1>1, <3>1, <3>4, <3>5
      <3>7. B[j].from = C[i].from
        BY <1>1, <3>3, <3>4, <3>5
      <3>8. B[j].len = C[i].len
        BY <1>1, <3>1, <3>3, <3>4, <3>5
      <3> QED BY <1>8, <2>1, <3>2, <3>6, <3>7, <3>8
    <2>5. i <= k \/ i > k
      BY <1>1
    <2> QED BY <2>3, <2>4, <2>5
  <1>10. A \o B = C
    <2> DEFINE D == A \o B
    <2>1. D \in Seq(Packet) /\ Len(D) = k + c /\ \A i \in 1..(k + c) : D[i] = C[i]
      BY <1>7, <1>9
    <2> HIDE DEF D
    <2>2. D = C
      BY <1>6, <2>1, SeqEqual
    <2> QED BY <2>2 DEF D
  <1> QED BY <1>4, <1>10 DEF A, B, C

LEMMA HandsOut ==
  ASSUME NEW h \in Seq(Packet), NEW q \in Seq(Packet), q # <<>>
  PROVE  /\ Append(h, Head(q)) \o Tail(q) = h \o q
         /\ Append(h, Head(q)) \in Seq(Packet)
         /\ Len(Append(h, Head(q))) = Len(h) + 1
         /\ \A i \in 1..Len(h) : Append(h, Head(q))[i] = h[i]
         /\ Tail(q) \in Seq(Packet)
         /\ Len(Tail(q)) = Len(q) - 1
  <1> DEFINE a == Append(h, Head(q))
             t == Tail(q)
  <1>1. /\ Head(q) \in Packet /\ t \in Seq(Packet) /\ Len(t) = Len(q) - 1
        /\ \A i \in 1..Len(t) : t[i] = q[i + 1]
        /\ Head(q) = q[1]
    BY HeadTailProperties
  <1>2. /\ a \in Seq(Packet) /\ Len(a) = Len(h) + 1
        /\ \A i \in 1..Len(h) : a[i] = h[i]
        /\ a[Len(h) + 1] = q[1]
    BY <1>1, AppendProperties
  <1> HIDE DEF a, t
  <1>3. Len(h) \in Nat /\ Len(q) \in Nat \ {0}
    BY EmptySeq
  <1>4. /\ a \o t \in Seq(Packet) /\ Len(a \o t) = Len(h) + Len(q)
        /\ \A i \in 1..(Len(h) + Len(q)) :
             (a \o t)[i] = IF i <= Len(h) + 1 THEN a[i] ELSE t[i - (Len(h) + 1)]
    <2>1. /\ a \o t \in Seq(Packet) /\ Len(a \o t) = Len(a) + Len(t)
          /\ \A i \in 1..(Len(a) + Len(t)) :
               (a \o t)[i] = IF i <= Len(a) THEN a[i] ELSE t[i - Len(a)]
      BY <1>1, <1>2, ConcatProperties
    <2>2. Len(a) + Len(t) = Len(h) + Len(q)
      BY <1>1, <1>2, <1>3
    <2> QED BY <1>2, <2>1, <2>2
  <1>5. /\ h \o q \in Seq(Packet) /\ Len(h \o q) = Len(h) + Len(q)
        /\ \A i \in 1..(Len(h) + Len(q)) : (h \o q)[i] = IF i <= Len(h) THEN h[i] ELSE q[i - Len(h)]
    BY ConcatProperties
  <1>6. ASSUME NEW i \in 1..(Len(h) + Len(q)) PROVE (a \o t)[i] = (h \o q)[i]
    <2> DEFINE n == Len(h)
    <2> HIDE DEF n
    <2>1. n \in Nat /\ i \in Nat \ {0}
      BY <1>3 DEF n
    <2>2. (a \o t)[i] = IF i <= n + 1 THEN a[i] ELSE t[i - (n + 1)]
      BY <1>4 DEF n
    <2>3. (h \o q)[i] = IF i <= n THEN h[i] ELSE q[i - n]
      BY <1>5 DEF n
    <2>4. CASE i <= n
      <3>1. i <= n + 1 /\ i \in 1..n
        BY <2>1, <2>4
      <3>2. a[i] = h[i]
        BY <1>2, <3>1 DEF n
      <3> QED BY <2>2, <2>3, <2>4, <3>1, <3>2
    <2>5. CASE i = n + 1
      <3>1. i <= n + 1 /\ ~(i <= n) /\ i - n = 1
        BY <2>1, <2>5
      <3>2. a[i] = q[1]
        BY <1>2, <2>5 DEF n
      <3> QED BY <2>2, <2>3, <3>1, <3>2
    <2>6. CASE i > n + 1
      <3>1. ~(i <= n + 1) /\ ~(i <= n) /\ (i - (n + 1)) + 1 = i - n
        BY <2>1, <2>6
      <3>2. i - (n + 1) \in 1..Len(t)
        BY <1>1, <1>3, <2>6 DEF n
      <3>3. t[i - (n + 1)] = q[i - n]
        BY <1>1, <3>1, <3>2
      <3> QED BY <2>2, <2>3, <3>1, <3>3
    <2>7. i <= n \/ i = n + 1 \/ i > n + 1
      BY <2>1
    <2> QED BY <2>4, <2>5, <2>6, <2>7
  <1>7. a \o t = h \o q
    <2> DEFINE x == a \o t
               y == h \o q
    <2>1. /\ x \in Seq(Packet) /\ y \in Seq(Packet) /\ Len(x) = Len(y)
          /\ \A i \in 1..Len(x) : x[i] = y[i]
      BY <1>4, <1>5, <1>6
    <2> HIDE DEF x, y
    <2>2. x = y
      BY <2>1, SeqEqual
    <2> QED BY <2>2 DEF x, y
  <1> QED BY <1>1, <1>2, <1>7 DEF a, t

-----------------------------------------------------------------------------
\* The stream before it is opened, and after.
StreamInv ==
  /\ stream = "none" => /\ data_not_read = 0 /\ position = 0
                        /\ packets_read_queue = <<>> /\ handed_out = <<>>
                        /\ server # "undefined" /\ client # "after"
  /\ stream = "closed" => packets_read_queue = <<>> /\ data_not_read = 0

\* The file that the client has opened ends with the last payload it wrote.
ClientFile ==
  /\ client = "elsewhere" => client_wrote = 0
  /\ client # "elsewhere" =>
       file_size = IF client_wrote = 0 THEN 0
                   ELSE handed_out[client_wrote].from + handed_out[client_wrote].len

IInv == /\ TypeOK
        /\ size_asked = position + data_not_read
        /\ next_seq_number = FirstSeqno + Len(Read)
        /\ Chain(Read, position)
        /\ client # "after" => Whole(Read, position)
        /\ StreamInv
        /\ ClientFile
        /\ DownOnlyDisturbed

LEMMA InitInvariant == Init => IInv
  <1> SUFFICES ASSUME Init PROVE IInv
    OBVIOUS
  <1>1. <<>> \in Seq(Packet) /\ Len(<<>>) = 0 /\ Read = <<>>
    BY EmptySeq DEF Init, Read
  <1>2. TypeOK
    BY <1>1, Sizes DEF Init, TypeOK
  <1>3. Chain(Read, position)
    BY <1>1 DEF Init, Chain
  <1>4. Whole(Read, position)
    <2>1. IsCut(Cut(0, 0, FirstSeqno), 0, 0, FirstSeqno) /\ Count(0) = 0
      BY CutIs, CountIs, Sizes
    <2>2. Cut(0, 0, FirstSeqno) = <<>>
      BY <2>1, EmptySeq DEF IsCut
    <2>3. M * 0 = 0
      BY Sizes
    <2> QED BY <1>1, <2>2, <2>3 DEF Init, Whole
  <1>5. StreamInv /\ ClientFile /\ DownOnlyDisturbed
    BY DEF Init, StreamInv, ClientFile, DownOnlyDisturbed
  <1>6. size_asked = position + data_not_read /\ next_seq_number = FirstSeqno + Len(Read)
    BY <1>1, Sizes DEF Init
  <1> QED BY <1>2, <1>3, <1>4, <1>5, <1>6 DEF IInv

\* The queue and the packets handed out, when the head of queue is handed out.
LEMMA HandOutStep ==
  ASSUME NEW queue \in Seq(Packet), queue # <<>>, handed_out \in Seq(Packet),
         handed_out' = Append(handed_out, Head(queue)), packets_read_queue' = Tail(queue)
  PROVE  /\ Read' = handed_out \o queue
         /\ handed_out' \in Seq(Packet) /\ Len(handed_out') = Len(handed_out) + 1
         /\ \A i \in 1..Len(handed_out) : handed_out'[i] = handed_out[i]
         /\ packets_read_queue' \in Seq(Packet) /\ Len(packets_read_queue') = Len(queue) - 1
  BY HandsOut DEF Read

\* The client's file is not touched by the worker's steps.
LEMMA SameClientFile ==
  ASSUME TypeOK, ClientFile, UNCHANGED clientVars,
         \/ UNCHANGED handed_out
         \/ /\ handed_out' \in Seq(Packet) /\ Len(handed_out') = Len(handed_out) + 1
            /\ \A i \in 1..Len(handed_out) : handed_out'[i] = handed_out[i]
  PROVE  ClientFile' /\ client_wrote' \in 0..Len(handed_out')
  <1>1. client_wrote \in 0..Len(handed_out) /\ handed_out \in Seq(Packet)
    BY DEF TypeOK
  <1>2. client_wrote # 0 => handed_out'[client_wrote] = handed_out[client_wrote]
    BY <1>1
  <1>3. client_wrote' \in 0..Len(handed_out')
    BY <1>1 DEF clientVars
  <1> QED BY <1>2, <1>3 DEF ClientFile, clientVars

LEMMA StepQueued == IInv /\ GetQueued => IInv'
  <1> SUFFICES ASSUME IInv, GetQueued PROVE IInv'
    OBVIOUS
  <1>1. /\ packets_read_queue \in Seq(Packet) /\ handed_out \in Seq(Packet)
        /\ packets_read_queue # <<>> /\ server = "up"
        /\ Len(packets_read_queue) < queue_size
    BY DEF IInv, TypeOK, GetQueued
  <1>2. /\ handed_out' = Append(handed_out, Head(packets_read_queue))
        /\ packets_read_queue' = Tail(packets_read_queue)
        /\ stream' = IF Len(packets_read_queue) = 1 /\ data_not_read = 0 THEN "closed" ELSE stream
        /\ UNCHANGED <<clientVars, data_not_read, position, next_seq_number, server, size_asked>>
    BY DEF GetQueued, HandOut
  <1>3. /\ Read' = Read
        /\ handed_out' \in Seq(Packet) /\ Len(handed_out') = Len(handed_out) + 1
        /\ \A i \in 1..Len(handed_out) : handed_out'[i] = handed_out[i]
        /\ packets_read_queue' \in Seq(Packet)
        /\ Len(packets_read_queue') = Len(packets_read_queue) - 1
    BY <1>1, <1>2, HandOutStep DEF Read
  <1>4. ClientFile' /\ client_wrote' \in 0..Len(handed_out')
    BY <1>2, <1>3, SameClientFile DEF IInv
  <1>5. stream' \in {"none", "open", "closed"} /\ stream # "none" /\ stream # "closed"
    BY <1>1, <1>2 DEF IInv, TypeOK, StreamInv
  <1>6. TypeOK'
    <2>1. Len(packets_read_queue') < queue_size
      BY <1>1, <1>3, Sizes
    <2> QED BY <1>2, <1>3, <1>4, <1>5, <2>1 DEF IInv, TypeOK, clientVars
  <1>7. Chain(Read, position)' /\ (client # "after" => Whole(Read, position))'
    BY <1>2, <1>3 DEF IInv, Chain, Whole, Cut, clientVars
  <1>8. StreamInv'
    <2>1. Len(packets_read_queue) = 1 => packets_read_queue' = <<>>
      BY <1>1, <1>3, EmptySeq
    <2> QED BY <1>2, <1>5, <2>1 DEF StreamInv
  <1>9. DownOnlyDisturbed'
    BY <1>1, <1>2 DEF DownOnlyDisturbed
  <1>10. (size_asked = position + data_not_read /\ next_seq_number = FirstSeqno + Len(Read))'
    BY <1>2, <1>3 DEF IInv
  <1> QED BY <1>4, <1>6, <1>7, <1>8, <1>9, <1>10 DEF IInv

\* What fread returns.
LEMMA FreadIs ==
  ASSUME data_not_read \in Nat, NEW n \in Fread
  PROVE  /\ n \in Nat /\ n <= data_not_read /\ n <= M * queue_size
         /\ client # "after" => n = data_not_read \/ n = M * queue_size
  <1> DEFINE b == M * queue_size
             m == Min({b, data_not_read})
  <1>1. b \in Nat /\ BufferSize = b
    <2>1. M * 0 = 0 /\ M * 0 <= M * queue_size /\ M * queue_size \in Int
      BY Sizes, TimesOrder
    <2> QED BY <2>1 DEF BufferSize, M
  <1> HIDE DEF b
  <1>2. m = IF b <= data_not_read THEN b ELSE data_not_read
    BY <1>1, MinIs
  <1>3. n \in IF client = "after" THEN 0..m ELSE {m}
    BY <1>1 DEF Fread
  <1> HIDE DEF m
  <1> QED BY <1>1, <1>2, <1>3 DEF b

LEMMA StepRead == IInv /\ GetRead => IInv'
  <1> SUFFICES ASSUME IInv, GetRead PROVE IInv'
    OBVIOUS
  <1> PICK n \in Fread :
         LET block == Cut(position, n, next_seq_number)
         IN  /\ data_not_read' = data_not_read - n
             /\ position' = position + n
             /\ next_seq_number' = next_seq_number + Len(block)
             /\ \/ /\ block = <<>> \/ stream = "closed"
                   /\ server' = "undefined"
                   /\ UNCHANGED <<packets_read_queue, stream, handed_out>>
                \/ /\ block # <<>> /\ stream = "open"
                   /\ HandOut(block, data_not_read')
                   /\ UNCHANGED server
    BY DEF GetRead
  <1> DEFINE block == Cut(position, n, next_seq_number)
             c == Count(n)
  <1>1. /\ packets_read_queue = <<>> /\ data_not_read > 0 /\ stream = "open"
        /\ server = "up" /\ UNCHANGED <<clientVars, size_asked>>
    BY DEF IInv, TypeOK, GetRead, HasNext, StreamInv
  <1>2. /\ handed_out \in Seq(Packet) /\ position \in Nat /\ data_not_read \in Nat
        /\ size_asked = position + data_not_read /\ size_asked \in 0..MaxFileSize
        /\ next_seq_number \in Nat
    BY DEF IInv, TypeOK
  <1>3. Read = handed_out
    BY <1>1, <1>2, ConcatEmptySeq DEF Read
  <1>4. next_seq_number = FirstSeqno + Len(handed_out) /\ Chain(handed_out, position)
        /\ (client # "after" => Whole(handed_out, position))
    BY <1>3 DEF IInv
  <1>5. /\ n \in Nat /\ n <= data_not_read /\ n <= M * queue_size
        /\ client # "after" => n = data_not_read \/ n = M * queue_size
    BY <1>2, FreadIs
  <1>6. /\ c \in Nat /\ (c = 0 <=> n = 0)
        /\ n > 0 => M * (c - 1) < n
    BY <1>5, CountIs
  <1>7. block \in Seq(Packet) /\ Len(block) = c
    BY <1>2, <1>5, CutIs DEF IsCut
  <1>8. /\ data_not_read' = data_not_read - n
        /\ position' = position + n
        /\ next_seq_number' = next_seq_number + Len(block)
        /\ \/ /\ block = <<>> /\ server' = "undefined"
              /\ UNCHANGED <<packets_read_queue, stream, handed_out>>
           \/ /\ block # <<>>
              /\ handed_out' = Append(handed_out, Head(block))
              /\ packets_read_queue' = Tail(block)
              /\ stream' = IF Len(block) = 1 /\ data_not_read' = 0 THEN "closed" ELSE stream
              /\ UNCHANGED server
    BY <1>1 DEF HandOut
  <1> HIDE DEF block, c
  <1>9. /\ position' \in 0..MaxFileSize /\ data_not_read' \in 0..MaxFileSize
        /\ (size_asked = position + data_not_read)'
        /\ next_seq_number' \in Nat
    BY <1>1, <1>2, <1>5, <1>6, <1>7, <1>8, Sizes
  <1>10. CASE block = <<>>
    <2>1. n = 0 /\ c = 0
      BY <1>6, <1>7, <1>10, EmptySeq
    <2>2. /\ UNCHANGED <<packets_read_queue, stream, handed_out, data_not_read, position,
                         next_seq_number>>
          /\ server' = "undefined"
      BY <1>2, <1>7, <1>8, <1>10, <2>1
    <2>3. client = "after"
      <3>1. M * queue_size > 0
        <4>1. M * 1 = M /\ M * 1 <= M * queue_size /\ M * queue_size \in Int
          BY Sizes, TimesOrder
        <4> QED BY <4>1, Sizes
      <3> QED BY <1>1, <1>5, <2>1, <3>1
    <2>4. Read' = Read
      BY <2>2 DEF Read
    <2>5. ClientFile' /\ client_wrote' \in 0..Len(handed_out')
      BY <1>1, <2>2, SameClientFile DEF IInv
    <2>6. TypeOK'
      BY <1>1, <2>2, <2>5 DEF IInv, TypeOK, clientVars
    <2>7. Chain(Read, position)' /\ (next_seq_number = FirstSeqno + Len(Read))'
      BY <2>2, <2>4 DEF IInv, Chain
    <2>8. (client # "after" => Whole(Read, position))'
      BY <1>1, <2>3 DEF clientVars
    <2>9. StreamInv'
      BY <1>1, <2>2 DEF StreamInv
    <2>10. DownOnlyDisturbed'
      BY <1>1, <1>2, <2>2, <2>3 DEF DownOnlyDisturbed, clientVars
    <2> QED BY <1>9, <2>5, <2>6, <2>7, <2>8, <2>9, <2>10 DEF IInv
  <1>11. CASE block # <<>>
    <2>1. n \in Nat \ {0} /\ c # 0
      BY <1>5, <1>6, <1>7, <1>11, EmptySeq
    <2>2. /\ handed_out' = Append(handed_out, Head(block))
          /\ packets_read_queue' = Tail(block)
          /\ stream' = IF Len(block) = 1 /\ data_not_read' = 0 THEN "closed" ELSE stream
          /\ server' = "up"
      BY <1>1, <1>8, <1>11
    <2>3. /\ Read' = handed_out \o block
          /\ handed_out' \in Seq(Packet) /\ Len(handed_out') = Len(handed_out) + 1
          /\ \A i \in 1..Len(handed_out) : handed_out'[i] = handed_out[i]
          /\ packets_read_queue' \in Seq(Packet)
          /\ Len(packets_read_queue') = c - 1
      BY <1>2, <1>7, <1>11, <2>2, HandOutStep
    <2>4. ClientFile' /\ client_wrote' \in 0..Len(handed_out')
      BY <1>1, <2>3, SameClientFile DEF IInv
    <2>5. c <= queue_size
      <3>1. M * (c - 1) < M * queue_size
        <4>1. M * (c - 1) \in Int /\ M * queue_size \in Int
          BY <1>6, Sizes, TimesOrder
        <4> QED BY <1>5, <1>6, <2>1, <4>1
      <3> QED BY <1>6, <3>1, Sizes, TimesOrder
    <2>6. TypeOK'
      <3>1. Len(packets_read_queue') < queue_size
        BY <1>6, <2>3, <2>5, Sizes
      <3>2. stream' \in {"none", "open", "closed"} /\ UNCHANGED <<file_size, client, size_asked>>
        BY <1>1, <2>2 DEF clientVars
      <3> QED BY <1>9, <2>2, <2>3, <2>4, <3>1, <3>2 DEF IInv, TypeOK
    <2>7. block = Cut(position, n, FirstSeqno + Len(handed_out))
      BY <1>4 DEF block
    <2>8. Chain(Read, position)'
      <3>1. Chain(handed_out \o block, position + n)
        BY <1>2, <1>4, <2>1, <2>7, ChainGrows
      <3> QED BY <1>8, <2>3, <3>1 DEF Chain
    <2>9. Len(Read') = Len(handed_out) + c /\ Len(handed_out) \in Nat
      <3>1. Len(handed_out \o block) = Len(handed_out) + Len(block)
        BY <1>2, <1>7, ConcatProperties
      <3> QED BY <1>2, <1>7, <2>3, <3>1
    <2>10. (next_seq_number = FirstSeqno + Len(Read))'
      BY <1>4, <1>6, <1>7, <1>8, <2>9, Sizes
    <2>11. ASSUME client # "after" PROVE Whole(Read, position)'
      <3> DEFINE k == Len(handed_out)
      <3>1. position = M * k /\ handed_out = Cut(0, position, FirstSeqno)
        BY <1>1, <1>4, <2>11 DEF Whole
      <3>2. Read' = Cut(0, position + n, FirstSeqno)
        <4>1. Cut(0, position + n, FirstSeqno)
                = Cut(0, position, FirstSeqno) \o Cut(position, n, FirstSeqno + k)
          BY <1>2, <2>1, <2>9, <3>1, CutGrows
        <4> QED BY <2>3, <2>7, <3>1, <4>1
      <3>3. n = M * queue_size => position + n = M * (k + c)
        <4> SUFFICES ASSUME n = M * queue_size PROVE position + n = M * (k + c)
          OBVIOUS
        <4>1. c = queue_size
          BY <2>1, Sizes, CountTimes DEF c
        <4>2. \A a, b \in Int : M * (a + b) = M * a + M * b
          BY Sizes, SMT
        <4> QED BY <2>9, <3>1, <4>1, <4>2, Sizes
      <3>4. n = data_not_read => data_not_read' = 0
        BY <1>2, <1>8
      <3>5. position' = M * Len(Read') \/ data_not_read' = 0
        BY <1>5, <1>8, <2>9, <2>11, <3>3, <3>4
      <3> QED BY <1>8, <3>2, <3>5 DEF Whole, Cut
    <2>12. (client # "after" => Whole(Read, position))'
      BY <1>1, <2>11 DEF clientVars
    <2>13. StreamInv'
      <3>1. Len(block) = 1 => packets_read_queue' = <<>>
        BY <1>7, <2>3, EmptySeq
      <3> QED BY <1>1, <2>2, <3>1 DEF StreamInv
    <2>14. DownOnlyDisturbed'
      BY <2>2 DEF DownOnlyDisturbed
    <2> QED BY <1>9, <2>4, <2>6, <2>8, <2>10, <2>12, <2>13, <2>14 DEF IInv
  <1> QED BY <1>10, <1>11

LEMMA StepConstruct == IInv /\ Construct => IInv'
  <1> SUFFICES ASSUME IInv, Construct PROVE IInv'
    OBVIOUS
  <1>1. /\ UNCHANGED <<clientVars, position, packets_read_queue, next_seq_number, handed_out>>
        /\ stream = "none" /\ server = "up" /\ file_size \in -1..MaxFileSize
        /\ packets_read_queue = <<>> /\ handed_out = <<>> /\ client # "after"
        /\ position = 0 /\ data_not_read = 0
    BY DEF IInv, TypeOK, Construct, StreamInv
  <1>2. \/ /\ file_size < 0 /\ server' = "exited" /\ UNCHANGED <<stream, data_not_read, size_asked>>
        \/ /\ file_size >= 0 /\ stream' = "open" /\ data_not_read' = file_size
           /\ size_asked' = file_size /\ UNCHANGED server
    BY DEF Construct
  <1>3. Read' = Read /\ Read = <<>>
    BY <1>1, EmptySeq, ConcatEmptySeq DEF Read
  <1>4. ClientFile' /\ client_wrote' \in 0..Len(handed_out')
    BY <1>1, SameClientFile DEF IInv
  <1>5. data_not_read' \in 0..MaxFileSize /\ size_asked' = position + data_not_read'
        /\ size_asked' \in 0..MaxFileSize
    BY <1>1, <1>2, Sizes DEF IInv, TypeOK
  <1>6. TypeOK'
    BY <1>1, <1>2, <1>4, <1>5 DEF IInv, TypeOK, clientVars
  <1>7. Chain(Read, position)' /\ (next_seq_number = FirstSeqno + Len(Read))'
    BY <1>1, <1>3 DEF IInv, Chain
  <1>8. (client # "after" => Whole(Read, position))'
    <2>1. Whole(Read, position) /\ M * 0 = 0
      BY <1>1, Sizes DEF IInv
    <2>2. position' = M * Len(Read')
      BY <1>1, <1>3, <2>1, EmptySeq
    <2> QED BY <1>1, <1>3, <2>1, <2>2 DEF Whole, Cut
  <1>9. StreamInv' /\ DownOnlyDisturbed'
    BY <1>1, <1>2 DEF StreamInv, DownOnlyDisturbed, clientVars
  <1> QED BY <1>1, <1>4, <1>5, <1>6, <1>7, <1>8, <1>9 DEF IInv

LEMMA StepClient == IInv /\ (ClientOpens \/ ClientWrites) => IInv'
  <1> SUFFICES ASSUME IInv, ClientOpens \/ ClientWrites PROVE IInv'
    OBVIOUS
  <1>1. UNCHANGED builderVars /\ Read' = Read
    BY DEF ClientOpens, ClientWrites, builderVars, Read
  <1>2. /\ handed_out \in Seq(Packet) /\ packets_read_queue \in Seq(Packet)
        /\ position \in 0..MaxFileSize /\ client_wrote \in 0..Len(handed_out)
        /\ client \in {"elsewhere", "before", "after"}
    BY DEF IInv, TypeOK
  <1>3. Chain(Read, position)' /\ (size_asked = position + data_not_read)'
        /\ (next_seq_number = FirstSeqno + Len(Read))'
    BY <1>1 DEF IInv, Chain, builderVars
  <1>4. CASE ClientOpens
    <2>1. /\ client = "elsewhere" /\ file_size' = 0 /\ client_wrote' = client_wrote
          /\ client' = IF stream = "none" THEN "before" ELSE "after"
      BY <1>4 DEF ClientOpens
    <2>2. client_wrote = 0
      BY <2>1 DEF IInv, ClientFile
    <2>3. TypeOK'
      BY <1>1, <1>2, <2>1, Sizes DEF IInv, TypeOK, builderVars
    <2>4. (client # "after" => Whole(Read, position))'
      BY <1>1, <2>1 DEF IInv, Whole, Cut, builderVars
    <2>5. StreamInv' /\ ClientFile' /\ DownOnlyDisturbed'
      BY <1>1, <2>1, <2>2 DEF IInv, StreamInv, ClientFile, DownOnlyDisturbed, builderVars
    <2> QED BY <1>3, <2>3, <2>4, <2>5 DEF IInv
  <1>5. CASE ClientWrites
    <2> DEFINE i == client_wrote + 1
    <2>1. /\ client # "elsewhere" /\ client_wrote < Len(handed_out)
          /\ client_wrote' = i /\ file_size' = file_size + handed_out[i].len
          /\ client' = client
      BY <1>5 DEF ClientWrites
    <2>2. /\ i \in 1..Len(handed_out) /\ i \in 1..Len(Read) /\ i \in Nat \ {0}
          /\ Read[i] = handed_out[i]
          /\ i # 1 => Read[i - 1] = handed_out[client_wrote] /\ client_wrote # 0
      <3>1. /\ Len(Read) = Len(handed_out) + Len(packets_read_queue)
            /\ \A j \in 1..Len(handed_out) + Len(packets_read_queue) :
                 Read[j] = IF j <= Len(handed_out) THEN handed_out[j]
                           ELSE packets_read_queue[j - Len(handed_out)]
        BY <1>2, ConcatProperties DEF Read
      <3>2. i \in 1..Len(handed_out) /\ Len(packets_read_queue) \in Nat /\ i - 1 = client_wrote
        BY <1>2, <2>1
      <3>3. Read[i] = handed_out[i]
        BY <3>1, <3>2
      <3>4. i # 1 => Read[i - 1] = handed_out[client_wrote] /\ client_wrote # 0
        BY <3>1, <3>2
      <3> QED BY <3>1, <3>2, <3>3, <3>4
    <2>3. (i = 1 <=> client_wrote = 0) /\ i = client_wrote + 1
      BY <1>2
    <2> HIDE DEF i
    <2>4. /\ Read[i].from = IF i = 1 THEN 0 ELSE Read[i - 1].from + Read[i - 1].len
          /\ Read[i].from + Read[i].len <= position
      BY <2>2 DEF IInv, Chain
    <2>5. file_size = IF client_wrote = 0 THEN 0
                      ELSE handed_out[client_wrote].from + handed_out[client_wrote].len
      BY <2>1 DEF IInv, ClientFile
    <2>6. file_size = handed_out[i].from
      BY <2>2, <2>4, <2>5, <2>3
    <2>7. ClientFile'
      BY <1>1, <2>1, <2>2, <2>6 DEF ClientFile, builderVars
    <2>8. handed_out[i].from \in Nat /\ handed_out[i].len \in Nat
      <3>1. handed_out[i] \in Packet
        BY <1>2, <2>2, ElementOfSeq
      <3> QED BY <3>1, Sizes DEF Packet
    <2>9. file_size' \in -1..MaxFileSize
      BY <1>2, <2>1, <2>2, <2>4, <2>6, <2>8, Sizes
    <2>10. TypeOK'
      <3>1. client_wrote' \in 0..Len(handed_out')
        BY <1>1, <2>1, <2>2 DEF builderVars
      <3> QED BY <1>1, <2>1, <2>9, <3>1 DEF IInv, TypeOK, builderVars
    <2>11. (client # "after" => Whole(Read, position))'
      BY <1>1, <2>1 DEF IInv, Whole, Cut, builderVars
    <2>12. StreamInv' /\ DownOnlyDisturbed'
      BY <1>1, <2>1 DEF IInv, StreamInv, DownOnlyDisturbed, builderVars
    <2> QED BY <1>3, <2>7, <2>10, <2>11, <2>12 DEF IInv
  <1> QED BY <1>4, <1>5

LEMMA Invariance == IInv /\ [Next]_vars => IInv'
  <1>1. ASSUME IInv, UNCHANGED vars PROVE IInv'
    BY <1>1 DEF IInv, TypeOK, Chain, Whole, Cut, StreamInv, ClientFile, DownOnlyDisturbed, Read,
                vars, clientVars, builderVars
  <1> QED BY <1>1, StepConstruct, StepQueued, StepRead, StepClient DEF Next

-----------------------------------------------------------------------------
LEMMA Invariant == Spec => []IInv
  BY InitInvariant, Invariance, PTL DEF Spec

\* packet_builder never reads more than there is, nor queues more than a block.
THEOREM TypeCorrect == Spec => []TypeOK
  <1>1. IInv => TypeOK
    BY DEF IInv
  <1> QED BY <1>1, Invariant, PTL

\* What a worker gets from get_next_packet is the file, cut into packets as if
\* there were no blocks.
THEOREM FileCorrect == Spec => []HandedOutIsFile
  <1>1. IInv => HandedOutIsFile
    <2> SUFFICES ASSUME IInv PROVE HandedOutIsFile
      OBVIOUS
    <2>1. Read \in Seq(Packet) /\ DOMAIN Read = 1..Len(Read)
      BY DEF IInv, Chain
    <2>2. \A i \in DOMAIN Read :
            /\ Read[i].seqno = FirstSeqno + i - 1
            /\ Read[i].from = IF i = 1 THEN 0 ELSE Read[i - 1].from + Read[i - 1].len
            /\ i = Len(Read) => Read[i].from + Read[i].len = position
      BY <2>1 DEF IInv, Chain
    <2>3. client # "after" => Read = Cut(0, position, FirstSeqno)
      BY DEF IInv, Whole
    <2>4. stream = "closed" => packets_read_queue = <<>> /\ position = size_asked
      BY DEF IInv, TypeOK, StreamInv
    <2> QED BY <2>2, <2>3, <2>4 DEF HandedOutIsFile, Read
  <1> QED BY <1>1, Invariant, PTL

\* The process exits for want of the file, and uses the front of an empty queue
\* only when the file was emptied under its hands.
THEOREM DownCorrect == Spec => []DownOnlyDisturbed
  <1>1. IInv => DownOnlyDisturbed
    BY DEF IInv
  <1> QED BY <1>1, Invariant, PTL
==============================================================================
