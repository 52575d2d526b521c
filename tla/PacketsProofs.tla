---------------------------- MODULE PacketsProofs -----------------------------
(***************************************************************************)
(* The checksum's loop fits into 16 bits and computes the ones' complement *)
(* sum, for packets of every length and content, as they were sent and as  *)
(* they arrive.                                                            *)
(***************************************************************************)
EXTENDS Packets, SequenceTheorems, TLAPS

\* Division with remainder by the largest 16-bit number.
LEMMA Division ==
  ASSUME NEW a \in Int
  PROVE  /\ a % (Word - 1) \in Int
         /\ a % (Word - 1) >= 0
         /\ a % (Word - 1) < Word - 1
         /\ a \div (Word - 1) \in Int
         /\ a = (Word - 1) * (a \div (Word - 1)) + (a % (Word - 1))
<1>1. /\ a % (Word - 1) \in Int
      /\ a % (Word - 1) >= 0
      /\ a % (Word - 1) < Word - 1
      /\ a \div (Word - 1) \in Int
  BY SMT DEF Word
<1>2. a = (Word - 1) * (a \div (Word - 1)) + (a % (Word - 1))
  BY SMT DEF Word
<1> QED
  BY <1>1, <1>2

\* wrap_extra_bits on the sum of a 16-bit number and a 16-bit word.
LEMMA WrapSum ==
  ASSUME NEW sum \in Int, sum >= 0, sum <= 2 * (Word - 1)
  PROVE  Wrap(sum) = IF sum < Word THEN sum ELSE sum - (Word - 1)
<1>1. CASE sum < Word
  <2>1. sum \div Word = 0
    BY <1>1, SMTT(40) DEF Word
  <2> QED
    BY <1>1, <2>1, SMTT(40) DEF Wrap, ExtraBit, Word
<1>2. CASE sum >= Word
  <2>1. sum \div Word = 1 /\ sum % Word = sum - Word
    BY <1>2, SMTT(40) DEF Word
  <2> QED
    BY <1>2, <2>1, SMTT(40) DEF Wrap, ExtraBit, Word
<1> QED
  BY <1>1, <1>2, SMTT(40) DEF Word

\* A remainder is determined by its range.
LEMMA RemainderIsUnique ==
  ASSUME NEW a \in Nat, NEW q \in Int, NEW r \in Int,
         r >= 0, r < Word - 1, a = (Word - 1) * q + r
  PROVE  a % (Word - 1) = r
<1> DEFINE b == a % (Word - 1)
           d == a \div (Word - 1)
<1>1. b \in Int /\ b >= 0 /\ b < Word - 1 /\ d \in Int /\ a = (Word - 1) * d + b
  BY Division
<1> HIDE DEF b, d
<1>2. d = q
  BY <1>1, SMTT(40) DEF Word
<1>3. b = r
  BY <1>1, <1>2, SMTT(40) DEF Word
<1> QED
  BY <1>3 DEF b

\* What OnesComplement says of a sum: it is congruent to it, and never zero
\* unless the sum is.
LEMMA OnesComplementOf ==
  ASSUME NEW n \in Nat, n > 0
  PROVE  /\ OnesComplement(n) \in Int
         /\ OnesComplement(n) >= 1
         /\ OnesComplement(n) < Word
         /\ \E q \in Int : n - 1 = (Word - 1) * q + (OnesComplement(n) - 1)
<1> DEFINE r == (n - 1) % (Word - 1)
           q == (n - 1) \div (Word - 1)
<1>1. OnesComplement(n) = r + 1
  BY DEF OnesComplement
<1>2. n - 1 \in Int
  OBVIOUS
<1>3. r \in Int /\ r >= 0 /\ r < Word - 1 /\ q \in Int /\ n - 1 = (Word - 1) * q + r
  BY <1>2, Division
<1> HIDE DEF r, q
<1>4. OnesComplement(n) \in Int /\ OnesComplement(n) >= 1
  BY <1>1, <1>3, SMT
<1>5. OnesComplement(n) < Word
  BY <1>1, <1>3, SMT DEF Word
<1>6. n - 1 = (Word - 1) * q + (OnesComplement(n) - 1)
  BY <1>1, <1>3, SMT
<1> QED
  BY <1>3, <1>4, <1>5, <1>6

\* The converse: a number of that range congruent to the sum is its ones'
\* complement.
LEMMA OnesComplementIs ==
  ASSUME NEW n \in Nat, n > 0, NEW c \in Int, NEW q \in Int,
         c >= 1, c < Word, n - 1 = (Word - 1) * q + (c - 1)
  PROVE  OnesComplement(n) = c
<1>1. n - 1 \in Nat /\ c - 1 \in Int /\ c - 1 >= 0
  BY SMT
<1>2. c - 1 < Word - 1
  BY SMT DEF Word
<1>3. (n - 1) % (Word - 1) = c - 1
  BY <1>1, <1>2, RemainderIsUnique
<1>4. OnesComplement(n) = (c - 1) + 1
  BY <1>3 DEF OnesComplement
<1> QED
  BY <1>4, SMT

\* For leaves that need the type of Word but not its value.
LEMMA WordIsInt == Word \in Int
BY SMT DEF Word

\* Adding a word to a ones' complement sum and wrapping gives the ones'
\* complement sum of one word more.
LEMMA WrapAdds ==
  ASSUME NEW n \in Nat, NEW word \in 0..(Word - 1)
  PROVE  Wrap(OnesComplement(n) + word) = OnesComplement(n + word)
<1>W. Word \in Int
  BY WordIsInt
<1>0. word \in Int /\ word >= 0 /\ word < Word
  <2>1. word \in Int /\ word >= 0 /\ word <= Word - 1
    BY <1>W, SMT
  <2> QED
    BY <1>W, <2>1, SMT
<1>1. CASE n = 0
  <2>1. Wrap(OnesComplement(n) + word) = word
    <3>1. OnesComplement(n) + word = word
      BY <1>0, <1>1, SMT DEF OnesComplement
    <3>2. word <= 2 * (Word - 1)
      BY <1>0, SMT DEF Word
    <3> QED
      BY <1>0, <3>1, <3>2, WrapSum
  <2>2. n + word = word
    BY <1>0, <1>1, SMT
  <2>3. CASE word = 0
    BY <2>1, <2>2, <2>3 DEF OnesComplement
  <2>4. CASE word > 0
    <3>1. word \in Nat /\ word >= 1 /\ word - 1 = (Word - 1) * 0 + (word - 1)
      <4> DEFINE M == Word - 1
      <4>1. M \in Int
        BY <1>W, SMT
      <4> HIDE DEF M
      <4>2. word - 1 = M * 0 + (word - 1)
        BY <1>0, <4>1, SMT
      <4> QED
        BY <1>0, <2>4, <4>2, SMT DEF M
    <3>2. OnesComplement(word) = word
      BY <1>0, <2>4, <3>1, OnesComplementIs
    <3> QED
      BY <2>1, <2>2, <3>2
  <2> QED
    BY <1>0, <2>3, <2>4, SMT
<1>2. CASE n > 0
  <2> DEFINE c == OnesComplement(n)
  <2>1. c \in Int /\ c >= 1 /\ c < Word
    BY <1>2, OnesComplementOf
  <2>2. PICK q \in Int : n - 1 = (Word - 1) * q + (c - 1)
    BY <1>2, OnesComplementOf
  <2> HIDE DEF c
  <2>3. c + word \in Int /\ c + word >= 0 /\ c + word <= 2 * (Word - 1)
    BY <1>0, <2>1, SMTT(40) DEF Word
  <2>4. n + word \in Nat /\ n + word > 0
    BY <1>0, <1>2, SMT
  <2>5. Wrap(c + word) = IF c + word < Word THEN c + word ELSE (c + word) - (Word - 1)
    <3> DEFINE s == c + word
    <3>1. s \in Int /\ s >= 0 /\ s <= 2 * (Word - 1)
      BY <2>3
    <3> HIDE DEF s
    <3>2. Wrap(s) = IF s < Word THEN s ELSE s - (Word - 1)
      BY <3>1, WrapSum
    <3> QED
      BY <3>2 DEF s
  <2>6. CASE c + word < Word
    <3>1. c + word \in Int /\ c + word >= 1
      BY <1>0, <2>1, SMT
    <3>2. (n + word) - 1 = (Word - 1) * q + ((c + word) - 1)
      <4> DEFINE X == (Word - 1) * q
      <4>1. X \in Int /\ n - 1 = X + (c - 1)
        BY <1>W, <2>2, SMT
      <4> HIDE DEF X
      <4>2. (n + word) - 1 = X + ((c + word) - 1)
        BY <1>0, <2>1, <4>1, SMT
      <4> QED
        BY <4>2 DEF X
    <3>3. OnesComplement(n + word) = c + word
      BY <2>4, <2>6, <3>1, <3>2, OnesComplementIs
    <3>4. Wrap(c + word) = c + word
      BY <2>6, <2>5
    <3> QED
      BY <3>3, <3>4 DEF c
  <2>7. CASE c + word >= Word
    <3> DEFINE e == (c + word) - (Word - 1)
    <3>1. e \in Int /\ e >= 1
      BY <1>W, <1>0, <2>1, <2>7, SMT
    <3>2. e < Word
      BY <1>W, <1>0, <2>1, SMT
    <3>3. (n + word) - 1 = (Word - 1) * (q + 1) + (e - 1)
      <4> DEFINE M == Word - 1
                 X == M * q
      <4>1. M \in Int /\ e = (c + word) - M
        BY <1>W, SMT
      <4> HIDE DEF M
      <4>2. X \in Int /\ n - 1 = X + (c - 1) /\ M * (q + 1) = X + M
        BY <2>2, <4>1, SMT DEF M
      <4> HIDE DEF X, e
      <4>3. (n + word) - 1 = (X + M) + (e - 1)
        BY <1>0, <2>1, <4>1, <4>2, SMT
      <4> QED
        BY <4>2, <4>3 DEF M
    <3>4. ~(c + word < Word)
      BY <1>W, <1>0, <2>1, <2>7, SMT
    <3>5. Wrap(c + word) = e
      BY <2>5, <3>4, Zenon
    <3> HIDE DEF e
    <3>6. q + 1 \in Int
      BY SMT
    <3>7. OnesComplement(n + word) = e
      BY <2>4, <3>1, <3>2, <3>3, <3>6, OnesComplementIs
    <3> QED
      BY <3>5, <3>7 DEF c
  <2> QED
    BY <1>W, <1>0, <2>1, <2>6, <2>7, SMT
<1> QED
  BY <1>1, <1>2, SMT

\* The inductive invariant: what is left are 16-bit words.
Words == 0..(Word - 1)
SignedChars == -128..127

PacketType(p) == p.len \in Words /\ p.low \in Words /\ p.high \in Words
                 /\ p.data \in Seq(SignedChars)

IInv == /\ rest \in Seq(Words)
        /\ total \in Nat
        /\ SumIsOnesComplement
        /\ PacketType(packet)

LEMMA SumInWords == IInv => check_sum \in Words
<1> SUFFICES ASSUME IInv PROVE check_sum \in Words
  OBVIOUS
<1>1. CASE total = 0
  <2>1. check_sum = 0
    BY <1>1 DEF IInv, SumIsOnesComplement, OnesComplement
  <2> QED
    BY <2>1, SMT DEF Words, Word
<1>2. CASE total > 0
  <2>1. check_sum \in Int /\ check_sum >= 1 /\ check_sum < Word
    BY <1>2, OnesComplementOf DEF IInv, SumIsOnesComplement
  <2>2. check_sum <= Word - 1 /\ Word - 1 \in Int
    BY <2>1, SMT DEF Word
  <2>3. check_sum >= 0
    BY <2>1, SMT
  <2> QED
    BY <2>1, <2>2, <2>3, SMT DEF Words
<1> QED
  BY <1>1, <1>2 DEF IInv

LEMMA InWords ==
  ASSUME NEW n \in Int, n >= 0, n <= 65535
  PROVE  n \in Words
<1>1. Word - 1 \in Int /\ n <= Word - 1
  BY SMT DEF Word
<1> HIDE DEF Words
<1>2. n \in 0..(Word - 1)
  BY <1>1, SMT
<1> QED
  BY <1>2 DEF Words

\* A char read with the mask is a byte.
LEMMA ByteRange ==
  ASSUME NEW c \in Int
  PROVE  Byte(c) \in Int /\ Byte(c) >= 0 /\ Byte(c) <= 255
BY SMT DEF Byte

\* The halves and the fields of 16 bits are packed into two chars ...
LEMMA SplitIsChars ==
  ASSUME NEW w \in Words
  PROVE  Split(w) \in Seq(SignedChars) /\ Len(Split(w)) = 2
<1>1. w \in Int /\ w >= 0 /\ w < 65536
  BY SMTT(40) DEF Words, Word
<1>2. w % 256 \in Int /\ w % 256 >= 0 /\ w % 256 < 256
  BY <1>1, SMT
<1>3. w \div 256 \in Int /\ w \div 256 >= 0 /\ w \div 256 < 256
  BY <1>1, SMT
<1>4. ASSUME NEW b \in Int, b >= 0, b < 256
      PROVE  Char(b) \in SignedChars
  BY <1>4, SMT DEF Char, SignedChars
<1>5. Char(w % 256) \in SignedChars /\ Char(w \div 256) \in SignedChars
  BY <1>2, <1>3, <1>4
<1> QED
  BY <1>5 DEF Split

\* ... and two chars make 16 bits again.
LEMMA JoinIsWord ==
  ASSUME NEW c \in Int, NEW d \in Int
  PROVE  Join(c, d) \in Words
<1> DEFINE n == Byte(c) + Byte(d) * 256
<1>1. n \in Int /\ n >= 0 /\ n <= 65535
  <2>1. /\ Byte(c) \in Int /\ Byte(c) >= 0 /\ Byte(c) <= 255
        /\ Byte(d) \in Int /\ Byte(d) >= 0 /\ Byte(d) <= 255
    BY ByteRange
  <2> QED
    BY <2>1
<1> HIDE DEF n
<1>2. n \in Words
  BY <1>1, InWords
<1> QED
  BY <1>2 DEF Join, n

LEMMA ByteIsWord ==
  ASSUME NEW c \in Int
  PROVE  Byte(c) \in Words
<1> DEFINE b == Byte(c)
<1>1. b \in Int /\ b >= 0 /\ b <= 255
  BY ByteRange
<1> HIDE DEF b
<1>2. b \in Words
  BY <1>1, InWords
<1> QED
  BY <1>2 DEF b

\* What calculate_checksum adds up are words.
LEMMA SummedIsWords ==
  ASSUME NEW p, PacketType(p)
  PROVE  Summed(p) \in Seq(Words)
<1> DEFINE bytes == [i \in DOMAIN p.data |-> Byte(p.data[i])]
<1>1. p.data \in Seq(SignedChars)
  BY DEF PacketType
<1>2. DOMAIN p.data = 1..Len(p.data) /\ Len(p.data) \in Nat
  BY <1>1
<1>3. \A i \in DOMAIN p.data : p.data[i] \in Int
  <2>1. \A i \in DOMAIN p.data : p.data[i] \in SignedChars
    BY <1>1
  <2>2. \A c \in SignedChars : c \in Int
    BY DEF SignedChars
  <2> QED
    BY <2>1, <2>2
<1>4. \A i \in DOMAIN p.data : Byte(p.data[i]) \in Words
  BY <1>3, ByteIsWord
<1>5. bytes \in Seq(Words)
  BY <1>2, <1>4
<1>6. <<p.len, p.low, p.high>> \in Seq(Words)
  BY DEF PacketType
<1> HIDE DEF bytes
<1>7. <<p.len, p.low, p.high>> \o bytes \in Seq(Words)
  BY <1>5, <1>6
<1> QED
  BY <1>7 DEF Summed, bytes

LEMMA HeaderAndData ==
  ASSUME NEW S, NEW a \in Seq(S), NEW b \in Seq(S), NEW c \in Seq(S), NEW d \in Seq(S),
         NEW e \in Seq(S), Len(a) = 2, Len(b) = 2, Len(c) = 2, Len(d) = 2
  PROVE  /\ a \o b \o c \o d \o e \in Seq(S)
         /\ Len(a \o b \o c \o d \o e) >= 8
<1>1. ASSUME NEW s \in Seq(S), NEW t \in Seq(S)
      PROVE  s \o t \in Seq(S) /\ Len(s \o t) = Len(s) + Len(t)
  BY <1>1, ConcatProperties, Zenon
<1>2. a \o b \in Seq(S) /\ Len(a \o b) = 2 + 2
  <2>1. Len(a \o b) = Len(a) + Len(b) /\ a \o b \in Seq(S)
    BY <1>1
  <2>2. Len(a) + Len(b) = 2 + 2
    OBVIOUS
  <2> QED
    BY <2>1, <2>2
<1>3. a \o b \o c \in Seq(S) /\ Len(a \o b \o c) = 2 + 2 + 2
  BY <1>1, <1>2, Zenon
<1>4. a \o b \o c \o d \in Seq(S) /\ Len(a \o b \o c \o d) = 2 + 2 + 2 + 2
  BY <1>1, <1>3, Zenon
<1>5. /\ a \o b \o c \o d \o e \in Seq(S)
      /\ Len(a \o b \o c \o d \o e) = 2 + 2 + 2 + 2 + Len(e)
  BY <1>1, <1>4, Zenon
<1>6. Len(e) \in Nat
  OBVIOUS
<1> QED
  BY <1>5, <1>6

LEMMA PackIsChars ==
  ASSUME NEW p, PacketType(p), NEW c \in Words
  PROVE  Pack(p, c) \in Seq(SignedChars) /\ Len(Pack(p, c)) >= 8
<1>1. /\ Split(p.low) \in Seq(SignedChars) /\ Len(Split(p.low)) = 2
      /\ Split(p.high) \in Seq(SignedChars) /\ Len(Split(p.high)) = 2
      /\ Split(p.len) \in Seq(SignedChars) /\ Len(Split(p.len)) = 2
      /\ Split(c) \in Seq(SignedChars) /\ Len(Split(c)) = 2
  BY SplitIsChars DEF PacketType
<1>2. p.data \in Seq(SignedChars)
  BY DEF PacketType
<1> QED
  BY <1>1, <1>2, HeaderAndData, Zenon DEF Pack

\* Whatever chars arrive, what is unpacked from them is a packet.
LEMMA UnpackIsPacket ==
  ASSUME NEW chars \in Seq(SignedChars), Len(chars) >= 8
  PROVE  PacketType(Unpack(chars))
<1> DEFINE len == Join(chars[5], chars[6])
           end == IF len < HEADER_SIZE THEN Len(chars) ELSE Min({len, Len(chars)})
           data == SubSeq(chars, HEADER_SIZE + 1, end)
<1>1. chars[1] \in Int /\ chars[2] \in Int /\ chars[3] \in Int
      /\ chars[4] \in Int /\ chars[5] \in Int /\ chars[6] \in Int
  <2>1. \A i \in 1..8 : chars[i] \in SignedChars
    OBVIOUS
  <2>2. \A c \in SignedChars : c \in Int
    BY DEF SignedChars
  <2>3. /\ 1 \in 1..8 /\ 2 \in 1..8 /\ 3 \in 1..8
        /\ 4 \in 1..8 /\ 5 \in 1..8 /\ 6 \in 1..8
    OBVIOUS
  <2> QED
    BY <2>1, <2>2, <2>3, Zenon
<1>2. Join(chars[1], chars[2]) \in Words /\ Join(chars[3], chars[4]) \in Words /\ len \in Words
  BY <1>1, JoinIsWord
<1>3. len \in Int
  BY <1>2, SMT DEF Words
<1> HIDE DEF len
<1>4. end \in Int /\ end <= Len(chars)
  <2>1. Len(chars) \in Int
    OBVIOUS
  <2>2. PICK m \in {len, Len(chars)} : \A n \in {len, Len(chars)} : m <= n
    BY <1>3, <2>1, SMT
  <2>3. Min({len, Len(chars)}) \in {len, Len(chars)}
        /\ \A n \in {len, Len(chars)} : Min({len, Len(chars)}) <= n
    BY <2>2, Zenon DEF Min
  <2> QED
    BY <1>3, <2>1, <2>3, SMT
<1> HIDE DEF end
<1>5. HEADER_SIZE + 1 \in Int /\ HEADER_SIZE + 1 >= 1
  BY DEF HEADER_SIZE
<1>6. \A i \in (HEADER_SIZE + 1)..end : chars[i] \in SignedChars
  BY <1>4, <1>5
<1>7. data \in Seq(SignedChars)
  BY <1>4, <1>5, <1>6, SubSeqProperties
<1> HIDE DEF data
<1>8. Unpack(chars) = [low |-> Join(chars[1], chars[2]), high |-> Join(chars[3], chars[4]),
                       len |-> len, cksum |-> Join(chars[7], chars[8]), data |-> data]
  BY Zenon DEF Unpack, len, end, data
<1> QED
  BY <1>2, <1>7, <1>8 DEF PacketType

LEMMA InitIInv == Init => IInv
<1> SUFFICES ASSUME Init PROVE IInv
  OBVIOUS
<1>1. PICK n \in 0..MaxData : \E data \in [1..n -> Chars], low, high \in Halves :
                                packet = Packet(low, high, data)
  BY DEF Init
<1>2. PICK data \in [1..n -> Chars], low \in Halves, high \in Halves :
        packet = Packet(low, high, data)
  BY <1>1
<1>3. n \in Nat /\ n <= MaxData /\ MaxData \in Int /\ MaxData <= Word - 1 - 8
  <2>1. MaxData \in 0..(Word - 1 - 8)
    BY PacketAssumption DEF HEADER_SIZE
  <2>2. Word - 1 - 8 \in Int
    BY SMT DEF Word
  <2> QED
    BY <2>1, <2>2, SMT
<1>4. data \in Seq(SignedChars) /\ Len(data) = n
  <2>1. data \in [1..n -> SignedChars]
    BY PacketAssumption DEF SignedChars
  <2> QED
    BY <1>3, <2>1
<1>5. low \in Words /\ high \in Words
  BY <1>2, PacketAssumption DEF Words
<1>6. n + 8 \in Words
  <2>1. n + 8 <= Word - 1
    BY <1>3, SMT DEF Word
  <2>2. n + 8 \in Int /\ n + 8 >= 0
    BY <1>3, SMT
  <2>3. Word - 1 \in Int
    BY SMT DEF Word
  <2> QED
    BY <2>1, <2>2, <2>3, SMT DEF Words
<1>7. PacketType(packet)
  <2>1. packet = [len |-> n + 8, low |-> low, high |-> high, data |-> data]
    BY <1>2, <1>4 DEF Packet, HEADER_SIZE
  <2> QED
    BY <1>4, <1>5, <1>6, <2>1 DEF PacketType
<1>8. rest \in Seq(Words)
  BY <1>7, SummedIsWords DEF Init
<1> QED
  BY <1>7, <1>8 DEF Init, IInv, SumIsOnesComplement, OnesComplement

LEMMA AddIInv == IInv /\ Add /\ UNCHANGED packet => IInv'
<1> SUFFICES ASSUME IInv, Add, UNCHANGED packet PROVE IInv'
  OBVIOUS
<1>1. Head(rest) \in Words /\ Tail(rest) \in Seq(Words)
  BY DEF Add, IInv
<1>2. check_sum' = Wrap(OnesComplement(total) + Head(rest))
  BY DEF Add, IInv, SumIsOnesComplement
<1>3. check_sum' = OnesComplement(total + Head(rest))
  BY <1>1, <1>2, WrapAdds DEF IInv, Words
<1>4. Head(rest) \in Nat
  BY <1>1, SMT DEF Words
<1>5. total' \in Nat
  BY <1>4 DEF Add, IInv
<1>6. PacketType(packet)'
  BY DEF IInv, PacketType
<1> QED
  BY <1>1, <1>3, <1>5, <1>6 DEF Add, IInv, SumIsOnesComplement

LEMMA ArriveIInv ==
  ASSUME NEW chars \in Seq(SignedChars), Len(chars) >= 8, IInv, Arrive(chars)
  PROVE  IInv'
<1>1. received' = Unpack(chars) /\ rest' = Summed(received') /\ check_sum' = 0 /\ total' = 0
  BY DEF Arrive, Calculate
<1>2. rest' \in Seq(Words)
  BY <1>1, UnpackIsPacket, SummedIsWords
<1>3. PacketType(packet)'
  BY DEF Arrive, IInv, PacketType
<1> QED
  BY <1>1, <1>2, <1>3 DEF IInv, SumIsOnesComplement, OnesComplement

LEMMA NextIInv == IInv /\ [Next]_vars => IInv'
<1> SUFFICES ASSUME IInv, [Next]_vars PROVE IInv'
  OBVIOUS
<1>1. CASE Add /\ UNCHANGED <<packet, intact, received, phase>>
  BY <1>1, AddIInv
<1>2. Pack(packet, check_sum) \in Seq(SignedChars) /\ Len(Pack(packet, check_sum)) >= 8
  BY SumInWords, PackIsChars DEF IInv
<1>3. CASE ArriveIntact
  BY <1>2, <1>3, ArriveIInv DEF ArriveIntact
<1>4. CASE ArriveCorrupted
  <2> DEFINE chars == Pack(packet, check_sum)
  <2>1. PICK i \in DOMAIN chars : \E char \in Chars \ {chars[i]} : Arrive([chars EXCEPT ![i] = char])
    BY <1>4, Zenon DEF ArriveCorrupted
  <2>2. PICK char \in Chars : Arrive([chars EXCEPT ![i] = char])
    BY <2>1
  <2>3. char \in SignedChars
    BY PacketAssumption DEF SignedChars
  <2>4. chars \in Seq(SignedChars) /\ Len(chars) >= 8
    BY <1>2
  <2> HIDE DEF chars
  <2>5. [chars EXCEPT ![i] = char] \in Seq(SignedChars) /\ Len([chars EXCEPT ![i] = char]) >= 8
    BY <2>3, <2>4
  <2> QED
    BY <2>2, <2>5, ArriveIInv
<1>5. CASE UNCHANGED vars
  BY <1>5 DEF vars, sumVars, IInv, SumIsOnesComplement, PacketType
<1> QED
  BY <1>1, <1>3, <1>4, <1>5 DEF Next

\* The loop of calculate_checksum computes the ones' complement sum of the
\* packet: nothing is lost when carries are wrapped one at a time.
THEOREM ChecksumComputes == Spec => []SumIsOnesComplement
<1>1. IInv => SumIsOnesComplement
  BY DEF IInv
<1> QED
  BY InitIInv, NextIInv, <1>1, PTL DEF Spec

\* calculate_checksum never takes its error exit, and the cast to uint16_t
\* keeps the sum.
THEOREM ChecksumFits == Spec => []SumFits
<1>1. IInv => SumFits
  BY SumInWords DEF SumFits, Words
<1> QED
  BY InitIInv, NextIInv, <1>1, PTL DEF Spec
===============================================================================
