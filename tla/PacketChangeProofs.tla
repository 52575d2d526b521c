-------------------------- MODULE PacketChangeProofs --------------------------
(***************************************************************************)
(* What the checksum notices, for packets of every length and content: one *)
(* char changed on the way, be it of the number, the length, the checksum  *)
(* or the data.  The sums of two sequences are compared by induction over  *)
(* their length, in the form of sets of naturals (SetInduction).           *)
(***************************************************************************)
EXTENDS PacketsProofs, WellFoundedInduction

\* Every nonempty set of naturals has a least element, ...
LEMMA LeastNatural ==
  ASSUME NEW S \in SUBSET Nat, S # {}
  PROVE  \E n \in S : \A m \in S : n <= m
<1> DEFINE R == {ss \in Nat \X Nat : ss[1] < ss[2]}
<1>1. IsWellFoundedOn(R, Nat)
  BY NatLessThanWellFounded DEF OpToRel
<1> HIDE DEF R
<1>2. PICK n \in S : \A m \in S : <<m, n>> \notin R
  BY <1>1, WFMin
<1>3. ASSUME NEW m \in S PROVE n <= m
  <2>1. ~(m < n)
    BY <1>2 DEF R
  <2> QED
    BY <2>1
<1> QED
  BY <1>3

\* ... which is induction, for a property given by the set of the numbers that
\* have it.
LEMMA SetInduction ==
  ASSUME NEW S, 0 \in S, \A n \in Nat : n \in S => n + 1 \in S
  PROVE  \A n \in Nat : n \in S
<1> SUFFICES ASSUME Nat \ S # {} PROVE FALSE
  OBVIOUS
<1>1. PICK n \in Nat \ S : \A m \in Nat \ S : n <= m
  BY LeastNatural
<1>2. n # 0
  BY <1>1
<1>3. n - 1 \in Nat /\ n - 1 \in S
  BY <1>1, <1>2
<1>4. (n - 1) + 1 = n
  BY <1>1
<1> QED
  BY <1>1, <1>3, <1>4

\* T[k] is the sum of the first k elements of s: a sum that a loop leaves behind.
PartialSums(T, s, k) == /\ T \in [Nat -> Int]
                        /\ T[0] = 0
                        /\ \A i \in 0..(k - 1) : T[i + 1] = T[i] + s[i + 1]

\* The first k elements of s add up to sum.
SumsTo(s, k, sum) == \E T \in [Nat -> Int] : PartialSums(T, s, k) /\ T[k] = sum

\* No elements add up to nothing, ...
LEMMA SumOfNone ==
  ASSUME NEW s
  PROVE  SumsTo(s, 0, 0)
<1> DEFINE T == [n \in Nat |-> 0]
<1>1. T \in [Nat -> Int] /\ T[0] = 0
  OBVIOUS
<1>2. \A i \in 0..(0 - 1) : T[i + 1] = T[i] + s[i + 1]
  <2>1. 0..(0 - 1) = {}
    BY SMT
  <2> QED
    BY <2>1
<1> HIDE DEF T
<1> QED
  BY <1>1, <1>2 DEF SumsTo, PartialSums

\* ... and one more adds itself.
LEMMA SumOfOneMore ==
  ASSUME NEW s, NEW k \in Nat, NEW sum \in Int, s[k + 1] \in Int, SumsTo(s, k, sum)
  PROVE  SumsTo(s, k + 1, sum + s[k + 1])
<1>1. PICK T \in [Nat -> Int] : PartialSums(T, s, k) /\ T[k] = sum
  BY DEF SumsTo
<1> DEFINE U == [T EXCEPT ![k + 1] = sum + s[k + 1]]
<1>2. U \in [Nat -> Int]
  BY SMT
<1>3. U[k + 1] = sum + s[k + 1] /\ \A i \in 0..k : U[i] = T[i]
  BY SMT
<1> HIDE DEF U
<1>4. T[0] = 0 /\ \A i \in 0..(k - 1) : T[i + 1] = T[i] + s[i + 1]
  BY <1>1 DEF PartialSums
<1>5. U[0] = 0 
  BY <1>3, <1>4
<1>6. ASSUME NEW i \in 0..((k + 1) - 1) PROVE U[i + 1] = U[i] + s[i + 1]
  <2>1. CASE i = k
    BY <1>1, <1>3, <2>1
  <2>2. CASE i < k
    <3>1. i \in 0..(k - 1) /\ i \in 0..k /\ i + 1 \in 0..k
      BY <2>2
    <3> QED
      BY <1>3, <1>4, <3>1
  <2> QED
    BY <2>1, <2>2
<1> QED
  BY <1>2, <1>3, <1>5, <1>6 DEF SumsTo, PartialSums

\* Sums of two sequences that differ in one place at most differ by what they
\* differ in there.
DifferInOne(s, t, n, i, d) ==
  \A j \in 1..n : s[j] \in Int /\ t[j] = s[j] + (IF j = i THEN d ELSE 0)

LEMMA SumsDiffer ==
  ASSUME NEW s, NEW t, NEW T \in [Nat -> Int], NEW U \in [Nat -> Int],
         NEW n \in Nat, NEW i \in Nat, NEW d \in Int,
         PartialSums(T, s, n), PartialSums(U, t, n), DifferInOne(s, t, n, i, d)
  PROVE  U[n] = T[n] + (IF 1 <= i /\ i <= n THEN d ELSE 0)
<1> DEFINE S == {k \in Nat : k <= n => U[k] = T[k] + (IF 1 <= i /\ i <= k THEN d ELSE 0)}
<1>1. /\ T \in [Nat -> Int] /\ T[0] = 0 /\ U \in [Nat -> Int] /\ U[0] = 0
      /\ \A k \in 0..(n - 1) : T[k + 1] = T[k] + s[k + 1] /\ U[k + 1] = U[k] + t[k + 1]
  BY DEF PartialSums
<1>2. 0 \in S
  BY <1>1
<1>3. ASSUME NEW k \in Nat, k \in S PROVE k + 1 \in S
  <2> SUFFICES ASSUME k + 1 <= n
               PROVE  U[k + 1] = T[k + 1] + (IF 1 <= i /\ i <= k + 1 THEN d ELSE 0)
    OBVIOUS
  <2>1. T[k] \in Int /\ U[k] \in Int /\ U[k] = T[k] + (IF 1 <= i /\ i <= k THEN d ELSE 0)
    BY <1>1, <1>3
  <2>2. k \in 0..(n - 1) /\ k + 1 \in 1..n
    BY SMT
  <2>3. /\ T[k + 1] = T[k] + s[k + 1] /\ U[k + 1] = U[k] + t[k + 1]
        /\ s[k + 1] \in Int /\ t[k + 1] = s[k + 1] + (IF k + 1 = i THEN d ELSE 0)
    BY <1>1, <2>2 DEF DifferInOne
  <2> HIDE DEF S
  <2> QED
    BY <2>1, <2>3, SMT
<1> HIDE DEF S
<1>4. n \in S
  BY <1>2, <1>3, SetInduction
<1> QED
  BY <1>4 DEF S

\* Sums of bytes grow, by 255 a byte at most.
Bytes(s, n) == \A j \in 1..n : s[j] \in Nat /\ s[j] <= 255

LEMMA SumsOfBytes ==
  ASSUME NEW s, NEW T \in [Nat -> Int], NEW n \in Nat, NEW m \in 0..n, PartialSums(T, s, n), Bytes(s, n)
  PROVE  \E b \in Nat : T[n] = T[m] + b /\ b <= 255 * (n - m)
<1> DEFINE S == {k \in Nat : m + k <= n => /\ T[m] <= T[m + k]
                                         /\ T[m + k] <= T[m] + 255 * k}
<1>1. /\ T \in [Nat -> Int] /\ \A k \in 0..(n - 1) : T[k + 1] = T[k] + s[k + 1]
  BY DEF PartialSums
<1>2. 0 \in S
  BY <1>1
<1>3. ASSUME NEW k \in Nat, k \in S PROVE k + 1 \in S
  <2> SUFFICES ASSUME m + (k + 1) <= n
               PROVE  T[m] <= T[m + (k + 1)] /\ T[m + (k + 1)] <= T[m] + 255 * (k + 1)
    OBVIOUS
  <2>1. T[m] <= T[m + k] /\ T[m + k] <= T[m] + 255 * k
    BY <1>3
  <2>2. m + k \in 0..(n - 1) /\ m + (k + 1) = (m + k) + 1 /\ m + (k + 1) \in 1..n
        /\ m \in Nat /\ m + k \in Nat
    OBVIOUS
  <2>3. /\ T[m + (k + 1)] = T[m + k] + s[m + (k + 1)]
        /\ s[m + (k + 1)] \in Nat /\ s[m + (k + 1)] <= 255
    BY <1>1, <2>2 DEF Bytes
  <2>4. T[m] \in Int /\ T[m + k] \in Int
    BY <1>1, <2>2
  <2> HIDE DEF S
  <2> QED
    BY <2>1, <2>3, <2>4, SMT
<1> HIDE DEF S
<1> DEFINE k == n - m
<1>4. k \in Nat /\ m + k = n /\ T[m] \in Int /\ T[n] \in Int
  OBVIOUS
<1>5. k \in S
  BY <1>2, <1>3, <1>4, SetInduction
<1>6. T[m] <= T[n] /\ T[n] <= T[m] + 255 * k
  BY <1>4, <1>5 DEF S
<1>7. T[n] - T[m] \in Nat /\ T[n] = T[m] + (T[n] - T[m]) /\ T[n] - T[m] <= 255 * k
  <2> HIDE DEF k
  <2> QED
    BY <1>4, <1>6
<1>8. \E b \in Nat : T[n] = T[m] + b /\ b <= 255 * k
  <2> HIDE DEF k
  <2> QED
    BY <1>7
<1> QED
  BY <1>8

\* The mask tells the signed chars apart, ...
LEMMA ByteTellsApart ==
  ASSUME NEW c \in SignedChars, NEW d \in SignedChars, Byte(c) = Byte(d)
  PROVE  c = d
<1>1. c \in Int /\ c >= -128 /\ c <= 127 /\ d \in Int /\ d >= -128 /\ d <= 127
  BY DEF SignedChars
<1>2. ASSUME NEW n \in Int, n >= -128, n <= 127
      PROVE  Byte(n) = IF n >= 0 THEN n ELSE n + 256
  <2>1. CASE n >= 0
    BY <1>2, <2>1, SMT DEF Byte
  <2>2. CASE n < 0
    BY <1>2, <2>2, SMT DEF Byte
  <2> QED
    BY <1>2, <2>1, <2>2, SMT
<1>3. Byte(c) = (IF c >= 0 THEN c ELSE c + 256) /\ Byte(d) = (IF d >= 0 THEN d ELSE d + 256)
  BY <1>1, <1>2
<1>4. (IF c >= 0 THEN c ELSE c + 256) = (IF d >= 0 THEN d ELSE d + 256)
  BY <1>3, Zenon
<1> QED
  BY <1>1, <1>4, SMT

\* ... and what was stored in a char is read back.
LEMMA ByteOfChar ==
  ASSUME NEW b \in Int, b >= 0, b < 256
  PROVE  Byte(Char(b)) = b /\ Char(b) \in SignedChars
<1>1. CASE b < 128
  BY <1>1, SMT DEF Byte, Char, SignedChars
<1>2. CASE b >= 128
  BY <1>2, SMT DEF Byte, Char, SignedChars
<1> QED
  BY <1>1, <1>2

\* A word that is split into two chars is joined from them again.
LEMMA JoinOfSplit ==
  ASSUME NEW w \in Words
  PROVE  Join(Split(w)[1], Split(w)[2]) = w
<1>1. w \in Int /\ w >= 0 /\ w < 65536
  <2>1. Word \in Int
    BY SMT DEF Word
  <2>2. Word = 65536
    BY SMT DEF Word
  <2>3. w \in Int /\ w >= 0 /\ w <= Word - 1
    BY <2>1, SMT DEF Words
  <2> QED
    BY <2>2, <2>3, SMT
<1>2. w % 256 \in Int /\ w % 256 >= 0 /\ w % 256 < 256
  BY <1>1, SMT
<1>3. w \div 256 \in Int /\ w \div 256 >= 0 /\ w \div 256 < 256
  BY <1>1, SMT
<1>4. w = (w % 256) + (w \div 256) * 256
  BY <1>1, SMT
<1>5. Split(w)[1] = Char(w % 256) /\ Split(w)[2] = Char(w \div 256)
  BY DEF Split
<1>6. Byte(Char(w % 256)) = w % 256 /\ Byte(Char(w \div 256)) = w \div 256
  BY <1>2, <1>3, ByteOfChar
<1> QED
  BY <1>4, <1>5, <1>6 DEF Join

\* A word of which one char changed is another one, and differs by less than
\* the modulus of the checksum: by 255 at most in the first char, by a multiple
\* of 256 in the second.
LEMMA FirstCharChanged ==
  ASSUME NEW c \in SignedChars, NEW d \in SignedChars, NEW e \in SignedChars, c # e
  PROVE  /\ Join(e, d) # Join(c, d)
         /\ Join(e, d) - Join(c, d) <= 255 /\ Join(c, d) - Join(e, d) <= 255
<1>1. c \in Int /\ d \in Int /\ e \in Int
  BY DEF SignedChars
<1>2. /\ Byte(c) \in Int /\ Byte(c) >= 0 /\ Byte(c) <= 255
      /\ Byte(d) \in Int
      /\ Byte(e) \in Int /\ Byte(e) >= 0 /\ Byte(e) <= 255
  BY <1>1, ByteRange
<1>3. Byte(c) # Byte(e)
  BY ByteTellsApart
<1> QED
  BY <1>2, <1>3, SMT DEF Join

\* The same of the second char.
LEMMA SecondCharChanged ==
  ASSUME NEW c \in SignedChars, NEW d \in SignedChars, NEW e \in SignedChars, d # e
  PROVE  \E k \in -255..255 : k # 0 /\ Join(c, e) = Join(c, d) + 256 * k
<1>1. c \in Int /\ d \in Int /\ e \in Int
  BY DEF SignedChars
<1>2. /\ Byte(d) \in Int /\ Byte(d) >= 0 /\ Byte(d) <= 255
      /\ Byte(c) \in Int
      /\ Byte(e) \in Int /\ Byte(e) >= 0 /\ Byte(e) <= 255
  BY <1>1, ByteRange
<1>3. Byte(d) # Byte(e)
  BY ByteTellsApart
<1> DEFINE a == Byte(d)
           b == Byte(e)
           l == Byte(c)
<1>4. a \in Int /\ b \in Int /\ l \in Int /\ a # b /\ a >= 0 /\ a <= 255 /\ b >= 0 /\ b <= 255
  BY <1>2, <1>3
<1> HIDE DEF a, b, l
<1>5. \E k \in -255..255 : k # 0 /\ l + b * 256 = (l + a * 256) + 256 * k
  <2>1. b - a \in -255..255 /\ b - a # 0 /\ l + b * 256 = (l + a * 256) + 256 * (b - a)
    BY <1>4
  <2> QED
    BY <2>1
<1> QED
  BY <1>5 DEF Join, a, b, l

\* st is s followed by t, as its length and its elements say.
IsConcat(st, s, t) == /\ Len(st) = Len(s) + Len(t)
                      /\ \A i \in 1..Len(s) : st[i] = s[i]
                      /\ \A j \in 1..Len(t) : st[Len(s) + j] = t[j]

LEMMA Concatenated ==
  ASSUME NEW S, NEW s \in Seq(S), NEW t \in Seq(S)
  PROVE  s \o t \in Seq(S) /\ IsConcat(s \o t, s, t)
<1>1. /\ s \o t \in Seq(S) /\ Len(s \o t) = Len(s) + Len(t)
      /\ \A i \in 1..(Len(s) + Len(t)) :
           (s \o t)[i] = IF i <= Len(s) THEN s[i] ELSE t[i - Len(s)]
  BY ConcatProperties
<1>2. Len(s) \in Nat /\ Len(t) \in Nat
  OBVIOUS
<1> DEFINE st == s \o t
           m == Len(s)
           n == Len(t)
<1> HIDE DEF st, m, n
<1>3. m \in Nat /\ n \in Nat /\ \A i \in 1..(m + n) : st[i] = IF i <= m THEN s[i] ELSE t[i - m]
  BY <1>1, <1>2 DEF m, n, st
<1>4. ASSUME NEW i \in 1..m PROVE st[i] = s[i]
  BY <1>3, SMT
<1>5. ASSUME NEW j \in 1..n PROVE st[m + j] = t[j]
  <2>1. m + j \in 1..(m + n) /\ ~(m + j <= m) /\ (m + j) - m = j
    BY <1>3, SMT
  <2> QED
    BY <1>3, <2>1
<1> QED
  BY <1>1, <1>4, <1>5 DEF m, n, st, IsConcat

\* A packet as it is packed, char by char.
Chars8(chars, p, c) ==
  /\ Join(chars[1], chars[2]) = p.low
  /\ Join(chars[3], chars[4]) = p.high
  /\ Join(chars[5], chars[6]) = p.len
  /\ Join(chars[7], chars[8]) = c

\* The data of p follows the header.
HoldsData(chars, p) == \A j \in 1..Len(p.data) : p.data[j] = chars[HEADER_SIZE + j]

\* Pack writes the header in chars one to eight, and the data behind it.
LEMMA PackedChars ==
  ASSUME NEW p, PacketType(p), NEW c \in Words
  PROVE  /\ Pack(p, c) \in Seq(SignedChars)
         /\ Len(Pack(p, c)) = HEADER_SIZE + Len(p.data)
         /\ Chars8(Pack(p, c), p, c)
         /\ HoldsData(Pack(p, c), p)
<1> DEFINE a == Split(p.low)
           b == Split(p.high)
           d == Split(p.len)
           e == Split(c)
           x == p.data
<1>1. /\ a \in Seq(SignedChars) /\ Len(a) = 2
      /\ b \in Seq(SignedChars) /\ Len(b) = 2
      /\ d \in Seq(SignedChars) /\ Len(d) = 2
      /\ e \in Seq(SignedChars) /\ Len(e) = 2
      /\ x \in Seq(SignedChars)
  BY SplitIsChars DEF PacketType
<1>2. /\ Join(a[1], a[2]) = p.low /\ Join(b[1], b[2]) = p.high
      /\ Join(d[1], d[2]) = p.len /\ Join(e[1], e[2]) = c
  BY JoinOfSplit DEF PacketType
<1>3. Pack(p, c) = a \o b \o d \o e \o x
  BY DEF Pack
<1> HIDE DEF a, b, d, e, x
<1> DEFINE ab == a \o b
           abd == ab \o d
           abde == abd \o e
           chars == abde \o x
<1>4. /\ ab \in Seq(SignedChars) /\ Len(ab) = 4
      /\ ab[1] = a[1] /\ ab[2] = a[2] /\ ab[3] = b[1] /\ ab[4] = b[2]
  <2>1. ab \in Seq(SignedChars) /\ IsConcat(ab, a, b)
    BY <1>1, Concatenated
  <2> HIDE DEF ab
  <2> QED
    BY <1>1, <2>1 DEF IsConcat
<1> HIDE DEF ab
<1>5. /\ abd \in Seq(SignedChars) /\ Len(abd) = 6
      /\ \A i \in 1..4 : abd[i] = ab[i]
      /\ abd[5] = d[1] /\ abd[6] = d[2]
  <2>1. abd \in Seq(SignedChars) /\ IsConcat(abd, ab, d)
    BY <1>1, <1>4, Concatenated
  <2> HIDE DEF abd
  <2> QED
    BY <1>1, <1>4, <2>1 DEF IsConcat
<1> HIDE DEF abd
<1>6. /\ abde \in Seq(SignedChars) /\ Len(abde) = 8
      /\ \A i \in 1..6 : abde[i] = abd[i]
      /\ abde[7] = e[1] /\ abde[8] = e[2]
  <2>1. abde \in Seq(SignedChars) /\ IsConcat(abde, abd, e)
    BY <1>1, <1>5, Concatenated
  <2> HIDE DEF abde
  <2> QED
    BY <1>1, <1>5, <2>1 DEF IsConcat
<1> HIDE DEF abde
<1>7. /\ chars \in Seq(SignedChars) /\ Len(chars) = 8 + Len(x)
      /\ \A i \in 1..8 : chars[i] = abde[i]
      /\ \A j \in 1..Len(x) : chars[8 + j] = x[j]
  <2>1. chars \in Seq(SignedChars) /\ IsConcat(chars, abde, x)
    BY <1>1, <1>6, Concatenated
  <2> HIDE DEF chars
  <2> QED
    BY <1>1, <1>6, <2>1 DEF IsConcat
<1>8. Pack(p, c) = chars
  BY <1>3 DEF chars, abde, abd, ab
<1> HIDE DEF chars
<1>9. /\ chars[1] = a[1] /\ chars[2] = a[2] /\ chars[3] = b[1] /\ chars[4] = b[2]
      /\ chars[5] = d[1] /\ chars[6] = d[2] /\ chars[7] = e[1] /\ chars[8] = e[2]
  BY <1>4, <1>5, <1>6, <1>7
<1>10. Chars8(Pack(p, c), p, c)
  BY <1>2, <1>8, <1>9 DEF Chars8
<1>11. HEADER_SIZE = 8 /\ Len(p.data) = Len(x) /\ p.data = x
  BY DEF HEADER_SIZE, x
<1> QED
  BY <1>7, <1>8, <1>10, <1>11 DEF HoldsData

\* What unpack makes of chars: the data ends where the length field says, if
\* that is within the header and the chars.
IsCut(len, n) == HEADER_SIZE <= len /\ len < n

DataEnd(len, n) == IF IsCut(len, n) THEN len ELSE n

IsUnpacked(r, chars) ==
  /\ PacketType(r)
  /\ Chars8(chars, r, r.cksum)
  /\ Len(r.data) = DataEnd(r.len, Len(chars)) - HEADER_SIZE
  /\ HoldsData(chars, r)

\* Unpack reads what the chars hold.
LEMMA UnpackedPacket ==
  ASSUME NEW chars \in Seq(SignedChars), Len(chars) >= HEADER_SIZE
  PROVE  IsUnpacked(Unpack(chars), chars)
<1> DEFINE r == Unpack(chars)
           len == Join(chars[5], chars[6])
           cend == IF len < HEADER_SIZE THEN Len(chars) ELSE Min({len, Len(chars)})
           end == DataEnd(r.len, Len(chars))
           data == SubSeq(chars, HEADER_SIZE + 1, cend)
<1>0. HEADER_SIZE = 8
  BY DEF HEADER_SIZE
<1>1. PacketType(r)
  BY <1>0, UnpackIsPacket
<1>2. r = [low |-> Join(chars[1], chars[2]), high |-> Join(chars[3], chars[4]),
           len |-> len, cksum |-> Join(chars[7], chars[8]), data |-> data]
  BY Zenon DEF Unpack
<1> HIDE DEF r
<1>3. r.len = len /\ r.data = data /\ r.low = Join(chars[1], chars[2])
      /\ r.high = Join(chars[3], chars[4]) /\ r.cksum = Join(chars[7], chars[8])
  <2> HIDE DEF len, data
  <2> QED
    BY <1>2
<1>4. len \in Int
  <2>1. r.len \in Words
    BY <1>1 DEF PacketType
  <2> QED
    BY <1>3, <2>1, SMT DEF Words
<1>5. Len(chars) \in Int
  OBVIOUS
<1>6. cend = end
  <2>1. Min({len, Len(chars)}) = IF len <= Len(chars) THEN len ELSE Len(chars)
    <3> DEFINE n == Len(chars)
    <3>1. n \in Int
      BY <1>5
    <3> HIDE DEF n, len
    <3>2. PICK m \in {len, n} : \A q \in {len, n} : m <= q
      BY <1>4, <3>1, SMT
    <3>3. Min({len, n}) \in {len, n} /\ \A q \in {len, n} : Min({len, n}) <= q
      BY <3>2, Zenon DEF Min
    <3>4. Min({len, n}) = IF len <= n THEN len ELSE n
      BY <1>4, <3>1, <3>3, SMT
    <3> QED
      BY <3>4 DEF n
  <2> HIDE DEF len
  <2> QED
    BY <1>0, <1>3, <1>4, <1>5, <2>1, SMT DEF IsCut, DataEnd
<1>7. end \in Int /\ end >= 8 /\ end <= Len(chars)
  <2> HIDE DEF len
  <2> QED
    BY <1>0, <1>3, <1>4, <1>5, SMT DEF IsCut, DataEnd
<1> HIDE DEF end, cend, len
<1>8. /\ Len(data) = end - 8
      /\ \A j \in 1..(end - 8) : data[j] = chars[8 + j]
  <2>1. \A j \in 9..end : chars[j] \in SignedChars
    BY <1>7
  <2>2. data = SubSeq(chars, 9, end)
    <3>1. HEADER_SIZE + 1 = 9
      BY <1>0
    <3> QED
      BY <1>6, <3>1
  <2>3. 9 \in Int /\ end \in Int
    BY <1>7
  <2>4. /\ Len(SubSeq(chars, 9, end)) = IF 9 <= end THEN end - 9 + 1 ELSE 0
        /\ \A j \in 1..(end - 9 + 1) : SubSeq(chars, 9, end)[j] = chars[9 + j - 1]
    BY <2>1, <2>3, SubSeqProperties
  <2> HIDE DEF data
  <2>5. Len(data) = end - 8 
    BY <1>7, <2>2, <2>4
  <2>6. ASSUME NEW j \in 1..(end - 8) PROVE data[j] = chars[8 + j]
    <3>1. j \in 1..(end - 9 + 1) /\ 9 + j - 1 = 8 + j
      BY <1>7
    <3> QED
      BY <2>2, <2>4, <3>1
  <2> QED
    BY <2>5, <2>6
<1> HIDE DEF data
<1> QED
  <2>1. Chars8(chars, r, r.cksum)
    BY <1>3 DEF Chars8, len
  <2>2. Len(r.data) = DataEnd(r.len, Len(chars)) - HEADER_SIZE
    BY <1>0, <1>3, <1>8 DEF end
  <2>3. Len(r.data) = end - 8
    BY <1>3, <1>8
  <2>4. \A j \in 1..Len(r.data) : r.data[j] = chars[HEADER_SIZE + j]
    BY <1>0, <1>3, <1>8, <2>3
  <2>5. IsUnpacked(r, chars)
    BY <1>1, <2>1, <2>2, <2>4 DEF IsUnpacked, HoldsData
  <2> QED
    BY <2>5 DEF r

\* The sum calculate_checksum adds up: three header words and the bytes.
DataBytes(p) == [i \in DOMAIN p.data |-> Byte(p.data[i])]

\* The words that are added up, by their places.
LEMMA SummedWords ==
  ASSUME NEW p, PacketType(p)
  PROVE  /\ Len(Summed(p)) = 3 + Len(p.data)
         /\ Summed(p)[1] = p.len /\ Summed(p)[2] = p.low /\ Summed(p)[3] = p.high
         /\ \A j \in 1..Len(p.data) : Summed(p)[3 + j] = DataBytes(p)[j]
<1> DEFINE header == <<p.len, p.low, p.high>>
           bytes == DataBytes(p)
<1>1. p.data \in Seq(SignedChars) /\ DOMAIN p.data = 1..Len(p.data) /\ Len(p.data) \in Nat
  BY DEF PacketType
<1>2. \A i \in DOMAIN p.data : p.data[i] \in Int
  <2>1. \A i \in DOMAIN p.data : p.data[i] \in SignedChars
    BY <1>1
  <2>2. \A c \in SignedChars : c \in Int
    BY DEF SignedChars
  <2> QED
    BY <2>1, <2>2
<1>3. \A i \in DOMAIN p.data : Byte(p.data[i]) \in Words
  BY <1>2, ByteIsWord
<1>4. bytes \in Seq(Words) /\ Len(bytes) = Len(p.data)
  BY <1>1, <1>3 DEF DataBytes
<1>5. header \in Seq(Words) /\ Len(header) = 3
      /\ header[1] = p.len /\ header[2] = p.low /\ header[3] = p.high
  BY DEF PacketType
<1>6. Summed(p) = header \o bytes
  BY DEF Summed, DataBytes
<1> HIDE DEF header, bytes
<1>7. IsConcat(Summed(p), header, bytes)
  BY <1>4, <1>5, <1>6, Concatenated
<1> QED
  BY <1>4, <1>5, <1>7 DEF IsConcat, bytes

\* The sum of a packet is that of its header and that of its data.
LEMMA SumOfPacket ==
  ASSUME NEW p, PacketType(p), NEW sum, SumsTo(Summed(p), Len(Summed(p)), sum)
  PROVE  \E D \in [Nat -> Int] : /\ PartialSums(D, DataBytes(p), Len(p.data))
                                 /\ sum = p.len + p.low + p.high + D[Len(p.data)]
<1> DEFINE n == Len(p.data)
           s == Summed(p)
<1>1. n \in Nat
  BY DEF PacketType
<1>2. /\ Len(s) = 3 + n /\ s[1] = p.len /\ s[2] = p.low /\ s[3] = p.high
      /\ \A j \in 1..n : s[3 + j] = DataBytes(p)[j]
  BY SummedWords
<1>3. p.len \in Int /\ p.low \in Int /\ p.high \in Int
  BY SMTT(40) DEF PacketType, Words
<1> HIDE DEF n, s
<1>4. PICK T \in [Nat -> Int] : PartialSums(T, s, 3 + n) /\ T[3 + n] = sum
  BY <1>2 DEF SumsTo, s
<1>5. T[0] = 0 /\ \A i \in 0..((3 + n) - 1) : T[i + 1] = T[i] + s[i + 1]
  BY <1>4 DEF PartialSums
<1>6. T[3] = p.len + p.low + p.high
  <2>1. 0 \in 0..((3 + n) - 1) /\ 1 \in 0..((3 + n) - 1) /\ 2 \in 0..((3 + n) - 1)
    BY <1>1
  <2>2. T[0 + 1] = T[0] + s[0 + 1] /\ T[1 + 1] = T[1] + s[1 + 1] /\ T[2 + 1] = T[2] + s[2 + 1]
    BY <1>5, <2>1
  <2> QED
    BY <1>2, <1>3, <1>5, <2>2
<1> DEFINE D == [j \in Nat |-> T[3 + j] - T[3]]
<1>7. D \in [Nat -> Int] /\ \A j \in Nat : D[j] = T[3 + j] - T[3] /\ T[3 + j] \in Int
  OBVIOUS
<1> HIDE DEF D
<1>8. T[3] \in Int /\ D[0] = 0
  <2>1. 0 \in Nat /\ 3 + 0 = 3 /\ 3 \in Nat
    OBVIOUS
  <2>2. D[0] = T[3 + 0] - T[3] /\ T[3] \in Int
    BY <1>7, <2>1
  <2> QED
    BY <2>1, <2>2
<1>9. ASSUME NEW i \in 0..(n - 1) PROVE D[i + 1] = D[i] + DataBytes(p)[i + 1]
  <2>1. 3 + i \in 0..((3 + n) - 1) /\ i + 1 \in 1..n /\ i \in Nat /\ i + 1 \in Nat
        /\ (3 + i) + 1 = 3 + (i + 1)
    BY <1>1
  <2>2. T[3 + (i + 1)] = T[3 + i] + s[3 + (i + 1)] /\ s[3 + (i + 1)] = DataBytes(p)[i + 1]
    <3>1. T[(3 + i) + 1] = T[3 + i] + s[(3 + i) + 1]
      BY <1>5, <2>1
    <3> QED
      BY <1>2, <2>1, <3>1
  <2>3. /\ D[i + 1] = T[3 + (i + 1)] - T[3] /\ D[i] = T[3 + i] - T[3]
        /\ T[3 + (i + 1)] \in Int /\ T[3 + i] \in Int
    BY <1>7, <2>1
  <2>4. DataBytes(p)[i + 1] \in Int
    <3>1. p.data \in Seq(SignedChars) /\ i + 1 \in DOMAIN p.data
      BY <2>1 DEF PacketType, n
    <3>2. p.data[i + 1] \in Int
      <4>1. p.data[i + 1] \in SignedChars
        BY <3>1
      <4>2. \A c \in SignedChars : c \in Int
        BY DEF SignedChars
      <4> QED
        BY <4>1, <4>2
    <3>3. DataBytes(p)[i + 1] = Byte(p.data[i + 1])
      BY <3>1 DEF DataBytes
    <3> QED
      BY <3>2, <3>3, ByteRange
  <2> QED
    BY <1>8, <2>2, <2>3, <2>4
<1>10. PartialSums(D, DataBytes(p), n)
  BY <1>7, <1>8, <1>9 DEF PartialSums
<1>11. sum = p.len + p.low + p.high + D[n]
  <2>1. D[n] = T[3 + n] - T[3] /\ T[3 + n] \in Int
    BY <1>1, <1>7
  <2> QED
    BY <1>3, <1>4, <1>6, <2>1
<1> QED
  BY <1>7, <1>10, <1>11 DEF n

\* The data's bytes.
LEMMA DataByte ==
  ASSUME NEW p, PacketType(p), NEW j \in 1..Len(p.data)
  PROVE  /\ p.data[j] \in SignedChars /\ DataBytes(p)[j] = Byte(p.data[j])
         /\ DataBytes(p)[j] \in Nat /\ DataBytes(p)[j] <= 255
<1>1. p.data \in Seq(SignedChars) /\ j \in DOMAIN p.data
  BY DEF PacketType
<1>2. p.data[j] \in SignedChars
  BY <1>1
<1>3. p.data[j] \in Int
  <2>1. \A c \in SignedChars : c \in Int
    BY DEF SignedChars
  <2> QED
    BY <1>2, <2>1
<1>4. DataBytes(p)[j] = Byte(p.data[j])
  BY <1>1 DEF DataBytes
<1>5. Byte(p.data[j]) \in Int /\ Byte(p.data[j]) >= 0 /\ Byte(p.data[j]) <= 255
  BY <1>3, ByteRange
<1> QED
  BY <1>2, <1>4, <1>5

\* Sums that are not equal, but closer than the modulus, have different
\* checksums.
LEMMA ChecksumsApart ==
  ASSUME NEW t \in Nat, NEW u \in Nat, t > 0, OnesComplement(t) = OnesComplement(u),
         t - u < Word - 1, u - t < Word - 1
  PROVE  t = u
<1>1. OnesComplement(t) \in Int /\ OnesComplement(t) >= 1
  BY OnesComplementOf
<1>2. u > 0
  <2>1. OnesComplement(0) = 0
    BY DEF OnesComplement
  <2>2. u # 0
    BY <1>1, <2>1
  <2> QED
    BY <2>2
<1> DEFINE c == OnesComplement(t)
<1>3. PICK q \in Int : t - 1 = (Word - 1) * q + (c - 1)
  BY OnesComplementOf
<1>4. PICK r \in Int : u - 1 = (Word - 1) * r + (c - 1)
  BY <1>2, OnesComplementOf
<1>5. c \in Int
  BY <1>1
<1> HIDE DEF c
<1>6. t - u = (Word - 1) * (q - r)
  BY <1>3, <1>4, <1>5, SMTT(40) DEF Word
<1>7. q - r \in Int /\ 65535 * (q - r) < 65535 /\ 65535 * (q - r) > -65535
  BY <1>6, SMTT(40) DEF Word
<1>8. q - r = 0
  <2> DEFINE k == q - r
  <2>1. k \in Int /\ 65535 * k < 65535 /\ 65535 * k > -65535
    BY <1>7
  <2> HIDE DEF k
  <2>2. k = 0
    BY <2>1, SMT
  <2> QED
    BY <2>2 DEF k
<1>9. t - u = 0
  BY <1>6, <1>8, SMT DEF Word
<1> QED
  BY <1>9, SMT

\* chars in which the i-th one changed.
OneChanged(m, chars, i) ==
  /\ chars \in Seq(SignedChars) /\ m \in Seq(SignedChars)
  /\ Len(m) = Len(chars) /\ i \in 1..Len(chars)
  /\ m[i] # chars[i]
  /\ \A j \in 1..Len(chars) : j # i => m[j] = chars[j]

\* Words that differ, but by less than the modulus.
Differ(a, b) == a # b /\ a - b <= 65280 /\ b - a <= 65280

\* One of the two chars of a word changed.
LEMMA OneCharOfAWord ==
  ASSUME NEW a \in SignedChars, NEW b \in SignedChars, NEW c \in SignedChars, NEW d \in SignedChars,
         \/ a # c /\ b = d
         \/ a = c /\ b # d
  PROVE  Differ(Join(a, b), Join(c, d))
<1>1. Join(a, b) \in Int /\ Join(c, d) \in Int
  <2>1. a \in Int /\ b \in Int /\ c \in Int /\ d \in Int
    BY DEF SignedChars
  <2>2. Join(a, b) \in Words /\ Join(c, d) \in Words
    BY <2>1, JoinIsWord
  <2>3. \A w \in Words : w \in Int
    BY DEF Words
  <2> QED
    BY <2>2, <2>3
<1> DEFINE v == Join(a, b)
           w == Join(c, d)
<1>2. CASE a # c /\ b = d
  <2>1. v # w /\ v - w <= 255 /\ w - v <= 255
    BY <1>2, FirstCharChanged
  <2>2. v \in Int /\ w \in Int
    BY <1>1
  <2> HIDE DEF v, w
  <2>3. Differ(v, w)
    BY <2>1, <2>2 DEF Differ
  <2> QED
    BY <2>3 DEF v, w
<1>3. CASE a = c /\ b # d
  <2>1. PICK k \in -255..255 : k # 0 /\ v = w + 256 * k
    BY <1>3, SecondCharChanged
  <2>2. v \in Int /\ w \in Int
    BY <1>1
  <2> HIDE DEF v, w
  <2>3. Differ(v, w)
    BY <2>1, <2>2 DEF Differ
  <2> QED
    BY <2>3 DEF v, w
<1> QED
  BY <1>2, <1>3

\* The field the change is in differs, the others are those sent.
FieldsChanged(p, r, c, i) ==
  /\ IF i \in {1, 2} THEN Differ(r.low, p.low) ELSE r.low = p.low
  /\ IF i \in {3, 4} THEN Differ(r.high, p.high) ELSE r.high = p.high
  /\ IF i \in {5, 6} THEN Differ(r.len, p.len) ELSE r.len = p.len
  /\ IF i \in {7, 8} THEN r.cksum # c ELSE r.cksum = c
  /\ i = 5 => r.len - p.len <= 255 /\ p.len - r.len <= 255
  /\ i = 6 => \E k \in -255..255 : k # 0 /\ r.len = p.len + 256 * k

\* Chars with one change hold a header with one changed field, or none.
LEMMA ChangedFields ==
  ASSUME NEW p, NEW c \in Words, NEW r, NEW chars, NEW m, NEW i,
         OneChanged(m, chars, i), Len(chars) >= 8,
         Chars8(chars, p, c), Chars8(m, r, r.cksum)
  PROVE  FieldsChanged(p, r, c, i)
<1>1. \A j \in 1..8 : m[j] \in SignedChars /\ chars[j] \in SignedChars
  BY DEF OneChanged
<1>2. \A j \in 1..8 : j # i <=> m[j] = chars[j]
  BY DEF OneChanged
<1>3. ASSUME NEW j \in {1, 3, 5, 7}
      PROVE  IF i \in {j, j + 1} THEN Differ(Join(m[j], m[j + 1]), Join(chars[j], chars[j + 1]))
                                 ELSE Join(m[j], m[j + 1]) = Join(chars[j], chars[j + 1])
  <2>1. j \in 1..8 /\ j + 1 \in 1..8 /\ j # j + 1
    OBVIOUS
  <2>2. CASE i = j
    <3>1. m[j] # chars[j] /\ m[j + 1] = chars[j + 1]
      BY <1>2, <2>1, <2>2
    <3> QED
      BY <1>1, <2>1, <2>2, <3>1, OneCharOfAWord
  <2>3. CASE i = j + 1
    <3>1. m[j] = chars[j] /\ m[j + 1] # chars[j + 1]
      BY <1>2, <2>1, <2>3
    <3> QED
      BY <1>1, <2>1, <2>3, <3>1, OneCharOfAWord
  <2>4. CASE i \notin {j, j + 1}
    BY <1>2, <2>1, <2>4
  <2> QED
    BY <2>2, <2>3, <2>4
<1>4. IF i \in {1, 2} THEN Differ(r.low, p.low) ELSE r.low = p.low
  <2>1. IF i \in {1, 1 + 1} THEN Differ(Join(m[1], m[1 + 1]), Join(chars[1], chars[1 + 1]))
                            ELSE Join(m[1], m[1 + 1]) = Join(chars[1], chars[1 + 1])
    BY <1>3
  <2> QED
    BY <2>1 DEF Chars8
<1>5. IF i \in {3, 4} THEN Differ(r.high, p.high) ELSE r.high = p.high
  <2>1. IF i \in {3, 3 + 1} THEN Differ(Join(m[3], m[3 + 1]), Join(chars[3], chars[3 + 1]))
                            ELSE Join(m[3], m[3 + 1]) = Join(chars[3], chars[3 + 1])
    BY <1>3
  <2> QED
    BY <2>1 DEF Chars8
<1>6. IF i \in {5, 6} THEN Differ(r.len, p.len) ELSE r.len = p.len
  <2>1. IF i \in {5, 5 + 1} THEN Differ(Join(m[5], m[5 + 1]), Join(chars[5], chars[5 + 1]))
                            ELSE Join(m[5], m[5 + 1]) = Join(chars[5], chars[5 + 1])
    BY <1>3
  <2> QED
    BY <2>1 DEF Chars8
<1>7. IF i \in {7, 8} THEN r.cksum # c ELSE r.cksum = c
  <2>1. IF i \in {7, 7 + 1} THEN Differ(Join(m[7], m[7 + 1]), Join(chars[7], chars[7 + 1]))
                            ELSE Join(m[7], m[7 + 1]) = Join(chars[7], chars[7 + 1])
    BY <1>3
  <2> QED
    BY <2>1 DEF Chars8, Differ
<1>8. ASSUME i = 5 PROVE r.len - p.len <= 255 /\ p.len - r.len <= 255
  <2>1. m[5] # chars[5] /\ m[6] = chars[6]
    BY <1>2, <1>8
  <2>2. m[5] \in SignedChars /\ chars[5] \in SignedChars /\ chars[6] \in SignedChars
    BY <1>1
  <2> QED
    BY <2>1, <2>2, FirstCharChanged DEF Chars8
<1>9. ASSUME i = 6 PROVE \E k \in -255..255 : k # 0 /\ r.len = p.len + 256 * k
  <2>1. m[6] # chars[6] /\ m[5] = chars[5]
    BY <1>2, <1>9
  <2>2. m[6] \in SignedChars /\ chars[5] \in SignedChars /\ chars[6] \in SignedChars
    BY <1>1
  <2> QED
    <3> DEFINE a == m[5]
               b == m[6]
               e == chars[6]
    <3>1. a \in SignedChars /\ b \in SignedChars /\ e \in SignedChars /\ e # b
      BY <2>1, <2>2
    <3>2. Join(a, b) = r.len /\ Join(a, e) = p.len
      BY <2>1 DEF Chars8
    <3> HIDE DEF a, b, e
    <3>3. \E k \in -255..255 : k # 0 /\ Join(a, b) = Join(a, e) + 256 * k
      BY ONLY <3>1, SecondCharChanged
    <3> QED
      BY <3>2, <3>3
<1> QED
  BY <1>4, <1>5, <1>6, <1>7, <1>8, <1>9 DEF FieldsChanged

\* The data's bytes that are left are those sent, but for the one changed.
DataDiffers(p, r, i, d) ==
  /\ i > HEADER_SIZE => d # 0
  /\ \A j \in 1..Len(r.data) :
       DataBytes(r)[j] = DataBytes(p)[j] + (IF j = i - HEADER_SIZE THEN d ELSE 0)

\* They hold data with one changed byte, or none.
LEMMA ChangedData ==
  ASSUME NEW p, PacketType(p), NEW r, PacketType(r), NEW chars, NEW m, NEW i,
         OneChanged(m, chars, i), Len(chars) = HEADER_SIZE + Len(p.data),
         HoldsData(chars, p), Len(r.data) <= Len(p.data), HoldsData(m, r)
  PROVE  \E d \in -255..255 : DataDiffers(p, r, i, d)
<1>0. /\ HEADER_SIZE = 8 /\ Len(p.data) \in Nat /\ Len(r.data) \in Nat
      /\ i \in Int /\ i >= 1 /\ i <= 8 + Len(p.data)
  BY DEF HEADER_SIZE, PacketType, OneChanged
<1>1. ASSUME NEW j \in 1..Len(r.data), j # i - 8
      PROVE  DataBytes(r)[j] = DataBytes(p)[j] + 0
  <2>1. j \in 1..Len(p.data) /\ 8 + j # i /\ 8 + j \in 1..(8 + Len(p.data))
    BY <1>0, <1>1
  <2>2. m[8 + j] = chars[8 + j]
    BY <1>0, <2>1 DEF OneChanged
  <2>3. r.data[j] = p.data[j]
    <3>1. r.data[j] = m[HEADER_SIZE + j]
      BY <1>1 DEF HoldsData
    <3>2. p.data[j] = chars[HEADER_SIZE + j]
      BY <2>1 DEF HoldsData
    <3> QED
      BY <1>0, <2>2, <3>1, <3>2
  <2>4. DataBytes(r)[j] = Byte(r.data[j]) /\ DataBytes(p)[j] = Byte(p.data[j])
        /\ DataBytes(p)[j] \in Nat
    BY <2>1, DataByte
  <2> QED
    BY <2>3, <2>4
<1>2. CASE i - 8 \in 1..Len(r.data)
  <2> DEFINE x == i - 8
  <2>1. x \in 1..Len(r.data) /\ x \in 1..Len(p.data) /\ 8 + x = i
    BY <1>0, <1>2
  <2> HIDE DEF x
  <2>2. r.data[x] # p.data[x]
    <3>1. r.data[x] = m[8 + x] /\ p.data[x] = chars[8 + x]
      BY <1>0, <2>1 DEF HoldsData
    <3> QED
      BY <2>1, <3>1 DEF OneChanged
  <2>3. /\ r.data[x] \in SignedChars /\ DataBytes(r)[x] = Byte(r.data[x])
        /\ DataBytes(r)[x] \in Nat /\ DataBytes(r)[x] <= 255
    BY <2>1, DataByte
  <2>4. /\ p.data[x] \in SignedChars /\ DataBytes(p)[x] = Byte(p.data[x])
        /\ DataBytes(p)[x] \in Nat /\ DataBytes(p)[x] <= 255
    BY <2>1, DataByte
  <2>5. DataBytes(r)[x] # DataBytes(p)[x]
    BY <2>2, <2>3, <2>4, ByteTellsApart
  <2> DEFINE a == DataBytes(r)[x]
             b == DataBytes(p)[x]
             d == a - b
  <2>6. d \in -255..255 /\ d # 0 /\ a = b + d
    <3>1. a \in Nat /\ a <= 255 /\ b \in Nat /\ b <= 255 /\ a # b
      BY <2>3, <2>4, <2>5
    <3> HIDE DEF a, b
    <3> QED
      BY <3>1
  <2> HIDE DEF d
  <2>7. \A j \in 1..Len(r.data) : DataBytes(r)[j] = DataBytes(p)[j] + (IF j = i - 8 THEN d ELSE 0)
    BY <1>1, <2>6 DEF x
  <2>8. DataDiffers(p, r, i, d)
    BY <1>0, <2>6, <2>7 DEF DataDiffers
  <2> QED
    BY <2>6, <2>8
<1>3. CASE i - 8 \notin 1..Len(r.data)
  <2>1. \A j \in 1..Len(r.data) : DataBytes(r)[j] = DataBytes(p)[j] + 0
    BY <1>1, <1>3
  <2>2. \A j \in 1..Len(r.data) :
          DataBytes(r)[j] = DataBytes(p)[j] + (IF j = i - HEADER_SIZE THEN 1 ELSE 0)
    BY <1>0, <1>3, <2>1
  <2>3. 1 \in -255..255 /\ 1 # 0
    OBVIOUS
  <2>4. DataDiffers(p, r, i, 1)
    BY <2>2, <2>3, Zenon DEF DataDiffers
  <2> QED
    BY <2>3, <2>4
<1> QED
  BY <1>2, <1>3

\* The loop of calculate_checksum adds p up to sum.
SumOfAll(p, sum) == sum \in Nat /\ SumsTo(Summed(p), Len(Summed(p)), sum)

\* t and u share the sum a of the data that is left; t has that of the end, b, too.
BothSums(p, r, t, u, n, l, x, d) ==
  \E a, b \in Nat :
    /\ b <= 255 * (n - l)
    /\ t = p.len + p.low + p.high + (a + b)
    /\ u = r.len + r.low + r.high + (a + (IF 1 <= x /\ x <= l THEN d ELSE 0))

\* p has n bytes of data.
HasData(p, n) == n = Len(p.data)

LEMMA SumsOfBoth ==
  ASSUME NEW p, PacketType(p), NEW r, PacketType(r), NEW n \in Nat, NEW l \in Nat,
         HasData(p, n), HasData(r, l), l <= n,
         NEW t, NEW u, SumOfAll(p, t), SumOfAll(r, u), NEW x \in Nat, NEW d \in Int,
         DifferInOne(DataBytes(p), DataBytes(r), l, x, d)
  PROVE  BothSums(p, r, t, u, n, l, x, d)
<1>1. PICK D \in [Nat -> Int] : /\ PartialSums(D, DataBytes(p), n)
                                /\ t = p.len + p.low + p.high + D[n]
  BY SumOfPacket DEF SumOfAll, HasData
<1>2. PICK E \in [Nat -> Int] : /\ PartialSums(E, DataBytes(r), l)
                                /\ u = r.len + r.low + r.high + E[l]
  BY SumOfPacket DEF SumOfAll, HasData
<1>3. Bytes(DataBytes(p), n) /\ Bytes(DataBytes(p), l)
  <2>1. \A j \in 1..n : DataBytes(p)[j] \in Nat /\ DataBytes(p)[j] <= 255
    BY DataByte DEF HasData
  <2>2. \A j \in 1..l : j \in 1..n
    OBVIOUS
  <2> QED
    BY <2>1, <2>2 DEF Bytes
<1>4. PartialSums(D, DataBytes(p), l)
  <2>1. \A i \in 0..(l - 1) : i \in 0..(n - 1)
    OBVIOUS
  <2> QED
    BY <1>1, <2>1 DEF PartialSums
<1>5. D[0] = 0
  BY <1>1 DEF PartialSums
<1>6. PICK b \in Nat : D[n] = D[l] + b /\ b <= 255 * (n - l)
  <2>1. l \in 0..n
    OBVIOUS
  <2> QED
    BY <1>1, <1>3, <2>1, SumsOfBytes
<1>7. PICK a \in Nat : D[l] = D[0] + a
  <2>1. 0 \in 0..l
    OBVIOUS
  <2> QED
    BY <1>3, <1>4, <2>1, SumsOfBytes
<1>8. D[l] = a
  BY <1>5, <1>7
<1>9. E[l] = D[l] + (IF 1 <= x /\ x <= l THEN d ELSE 0)
  BY <1>2, <1>4, SumsDiffer
<1>10. /\ t = p.len + p.low + p.high + (a + b)
       /\ u = r.len + r.low + r.high + (a + (IF 1 <= x /\ x <= l THEN d ELSE 0))
  BY <1>1, <1>2, <1>6, <1>8, <1>9, Zenon
<1> QED
  BY <1>6, <1>10, Zenon DEF BothSums

\* How much of the data unpack keeps.
LEMMA KeptData ==
  ASSUME NEW r, PacketType(r), NEW n \in Nat, NEW l \in Nat,
         HasData(r, l), Len(r.data) = DataEnd(r.len, 8 + n) - 8
  PROVE  /\ l <= n
         /\ IF 8 <= r.len /\ r.len < 8 + n THEN l = r.len - 8 ELSE l = n
<1>1. r.len \in Int
  BY SMTT(40) DEF PacketType, Words
<1>2. l = DataEnd(r.len, 8 + n) - 8
  BY DEF HasData
<1> DEFINE len == r.len
<1>3. len \in Int /\ l = (IF 8 <= len /\ len < 8 + n THEN len ELSE 8 + n) - 8
  BY <1>1, <1>2 DEF DataEnd, IsCut, HEADER_SIZE
<1> HIDE DEF len
<1>4. l <= n /\ IF 8 <= len /\ len < 8 + n THEN l = len - 8 ELSE l = n
  BY <1>3
<1> QED
  BY <1>4 DEF len

\* The sums of what was sent and of what arrived, by the field that changed.
SumsApart(p, r, t, u, i, n, l) ==
  \E a, b \in Nat : \E d \in -255..255 :
    /\ b <= 255 * (n - l)
    /\ i > 8 => d # 0
    /\ t = p.len + p.low + p.high + (a + b)
    /\ u = r.len + r.low + r.high + (a + (IF 9 <= i /\ i <= 8 + l THEN d ELSE 0))

LEMMA SumsOfChanged ==
  ASSUME NEW p, PacketType(p), NEW r, PacketType(r), NEW n \in Nat, NEW l \in Nat,
         HasData(p, n), HasData(r, l), l <= n, NEW t, NEW u, SumOfAll(p, t), SumOfAll(r, u),
         NEW chars, NEW m, NEW i, OneChanged(m, chars, i), Len(chars) = HEADER_SIZE + Len(p.data),
         HoldsData(chars, p), HoldsData(m, r)
  PROVE  SumsApart(p, r, t, u, i, n, l)
<1>1. i \in Nat /\ i >= 1
  BY DEF OneChanged
<1>2. Len(r.data) <= Len(p.data)
  BY DEF HasData
<1>3. PICK d \in -255..255 : DataDiffers(p, r, i, d)
  BY <1>2, ChangedData
<1> DEFINE x == IF i > 8 THEN i - 8 ELSE 0
<1>4. x \in Nat /\ d \in Int
  BY <1>1
<1>5. \A j \in Nat : j >= 1 => (j = i - 8 <=> j = x)
  BY <1>1
<1>6. \A k \in Nat : (1 <= x /\ x <= k) <=> (9 <= i /\ i <= 8 + k)
  BY <1>1
<1> HIDE DEF x
<1>7. \A j \in 1..l : DataBytes(r)[j] = DataBytes(p)[j] + (IF j = x THEN d ELSE 0)
  <2>1. \A j \in 1..l :
              DataBytes(r)[j] = DataBytes(p)[j] + (IF j = i - 8 THEN d ELSE 0)
    BY <1>3 DEF HasData, HEADER_SIZE, DataDiffers
  <2>2. \A j \in 1..l : j \in Nat /\ j >= 1
    OBVIOUS
  <2> QED
    BY <1>5, <2>1, <2>2
<1>8. \A j \in 1..l : DataBytes(p)[j] \in Int
  <2>1. \A j \in 1..l : j \in 1..n
    OBVIOUS
  <2>2. \A j \in 1..n : DataBytes(p)[j] \in Nat
    BY DataByte DEF HasData
  <2>3. \A k \in Nat : k \in Int
    OBVIOUS
  <2> QED
    BY <2>1, <2>2, <2>3, Zenon
<1>9. DifferInOne(DataBytes(p), DataBytes(r), l, x, d)
  BY <1>7, <1>8, Zenon DEF DifferInOne
<1>10. BothSums(p, r, t, u, n, l, x, d)
  BY <1>4, <1>9, SumsOfBoth
<1>11. PICK a \in Nat, b \in Nat :
           /\ b <= 255 * (n - l)
           /\ t = p.len + p.low + p.high + (a + b)
           /\ u = r.len + r.low + r.high + (a + (IF 1 <= x /\ x <= l THEN d ELSE 0))
  BY <1>10, Zenon DEF BothSums
<1>12. u = r.len + r.low + r.high + (a + (IF 9 <= i /\ i <= 8 + l THEN d ELSE 0))
  BY <1>6, <1>11, Zenon
<1>13. i > 8 => d # 0
  BY <1>3, Zenon DEF HEADER_SIZE, DataDiffers
<1>14. /\ b <= 255 * (n - l)
       /\ i > 8 => d # 0
       /\ t = p.len + p.low + p.high + (a + b)
       /\ u = r.len + r.low + r.high + (a + (IF 9 <= i /\ i <= 8 + l THEN d ELSE 0))
  BY <1>11, <1>12, <1>13, Zenon
<1> QED
  BY <1>14, ZenonT(40) DEF SumsApart

\* Fields that sum up to less than the modulus apart.
Close(t, u) == t # u /\ t - u <= 65280 /\ u - t <= 65280

\* Unless the end of the data is cut off, a change in a field or in the data
\* changes the sum by less than the modulus.
LEMMA ChangeInSum ==
  ASSUME NEW p, PacketType(p), NEW r, PacketType(r), NEW c, NEW n \in Nat, NEW l \in Nat,
         NEW t \in Nat, NEW u \in Nat, NEW i \in 1..(8 + n),
         SumsApart(p, r, t, u, i, n, l), FieldsChanged(p, r, c, i),
         p.len = 8 + n, l <= n,
         IF 8 <= r.len /\ r.len < 8 + n THEN l = r.len - 8 ELSE l = n
  PROVE  \/ i \in {7, 8} /\ t = u
         \/ i \notin {7, 8} /\ Close(t, u)
         \/ i = 6 /\ 8 <= r.len /\ r.len < 8 + n /\ t # u
<1>1. /\ p.len \in Int /\ p.low \in Int /\ p.high \in Int
      /\ r.len \in Int /\ r.low \in Int /\ r.high \in Int
  <2>1. \A w \in Words : w \in Int
    BY DEF Words
  <2> QED
    BY <2>1 DEF PacketType
<1> DEFINE plen == p.len
           plow == p.low
           phigh == p.high
           rlen == r.len
           rlow == r.low
           rhigh == r.high
<1>2. PICK a \in Nat, b \in Nat, d \in -255..255 :
        /\ b <= 255 * (n - l)
        /\ i > 8 => d # 0
        /\ t = plen + plow + phigh + (a + b)
        /\ u = rlen + rlow + rhigh + (a + (IF 9 <= i /\ i <= 8 + l THEN d ELSE 0))
  BY Zenon DEF SumsApart
<1>3. /\ IF i \in {1, 2} THEN Differ(rlow, plow) ELSE rlow = plow
      /\ IF i \in {3, 4} THEN Differ(rhigh, phigh) ELSE rhigh = phigh
      /\ IF i \in {5, 6} THEN Differ(rlen, plen) ELSE rlen = plen
      /\ i = 5 => rlen - plen <= 255 /\ plen - rlen <= 255
  BY DEF FieldsChanged
<1>4. /\ plen \in Int /\ plow \in Int /\ phigh \in Int
      /\ rlen \in Int /\ rlow \in Int /\ rhigh \in Int /\ plen = 8 + n
      /\ IF 8 <= rlen /\ rlen < 8 + n THEN l = rlen - 8 ELSE l = n
  BY <1>1
<1> HIDE DEF plen, plow, phigh, rlen, rlow, rhigh
<1>5. ASSUME i \notin {5, 6}
      PROVE  l = n /\ b = 0 /\ rlen = plen
  BY <1>2, <1>3, <1>4, <1>5
<1>6. CASE i \in {1, 2}
  <2>1. u - t = rlow - plow /\ Differ(rlow, plow)
    BY <1>2, <1>3, <1>4, <1>5, <1>6
  <2> QED
    BY <1>4, <1>6, <2>1 DEF Differ, Close
<1>7. CASE i \in {3, 4}
  <2>1. u - t = rhigh - phigh /\ Differ(rhigh, phigh)
    BY <1>2, <1>3, <1>4, <1>5, <1>7
  <2> QED
    BY <1>4, <1>7, <2>1 DEF Differ, Close
<1>8. CASE i \in {7, 8}
  BY <1>2, <1>3, <1>4, <1>5, <1>8
<1>9. CASE i > 8
  <2>1. u - t = d /\ d # 0
    BY <1>2, <1>3, <1>4, <1>5, <1>9
  <2> QED
    BY <1>9, <2>1 DEF Close
<1>10. CASE i \in {5, 6}
  <2>1. t - u = (plen - rlen) + b /\ Differ(rlen, plen)
    BY <1>2, <1>3, <1>4, <1>10
  <2>2. CASE ~(8 <= rlen /\ rlen < 8 + n)
    <3>1. b = 0
      BY <1>2, <1>4, <2>2
    <3> QED
      BY <1>4, <1>10, <2>1, <3>1 DEF Differ, Close
  <2>3. CASE 8 <= rlen /\ rlen < 8 + n
    <3>1. b <= 255 * (plen - rlen) /\ rlen < plen
      BY <1>2, <1>4, <2>3
    <3>2. t # u
      BY <1>4, <2>1, <3>1
    <3>3. CASE i = 5
      <4>1. plen - rlen <= 255
        BY <1>3, <3>3
      <4>2. t - u <= 65280 /\ u - t <= 65280
        BY <1>4, <2>1, <3>1, <4>1
      <4> QED
        BY <3>2, <3>3, <4>2 DEF Close
    <3>4. CASE i = 6
      BY <2>3, <3>2, <3>4 DEF rlen
    <3> QED
      BY <1>10, <3>3, <3>4
  <2> QED
    BY <2>2, <2>3
<1> QED
  BY <1>6, <1>7, <1>8, <1>9, <1>10

\* A change in one char that leaves the checksum right has cut off the end.
LEMMA ChangeIsDetected ==
  ASSUME NEW p, PacketType(p), p.len = HEADER_SIZE + Len(p.data),
         NEW r, NEW chars, NEW m, NEW i, NEW t, NEW u,
         Len(chars) = HEADER_SIZE + Len(p.data), Chars8(chars, p, OnesComplement(t)),
         HoldsData(chars, p), OneChanged(m, chars, i), IsUnpacked(r, m),
         SumOfAll(p, t), SumOfAll(r, u), r.cksum = OnesComplement(u)
  PROVE  TailCut(p, r)
<1> DEFINE n == Len(p.data)
           l == Len(r.data)
           c == OnesComplement(t)
<1>1. PacketType(r) /\ Chars8(m, r, r.cksum) /\ HoldsData(m, r)
  BY DEF IsUnpacked
<1>2. n \in Nat /\ l \in Nat /\ HasData(p, n) /\ HasData(r, l)
  BY <1>1 DEF PacketType, HasData
<1>3. HEADER_SIZE = 8
  BY DEF HEADER_SIZE
<1>4. Len(m) = 8 + n /\ Len(chars) = 8 + n /\ p.len = 8 + n /\ i \in 1..(8 + n)
  BY <1>3 DEF OneChanged
<1>5. Len(r.data) = DataEnd(r.len, 8 + n) - 8
  BY <1>3, <1>4 DEF IsUnpacked
<1>6. t \in Nat /\ u \in Nat
  BY DEF SumOfAll
<1> HIDE DEF n, l
<1>7. l <= n /\ IF 8 <= r.len /\ r.len < 8 + n THEN l = r.len - 8 ELSE l = n
  BY <1>1, <1>2, <1>5, KeptData
<1>8. SumsApart(p, r, t, u, i, n, l)
  BY <1>1, <1>2, <1>7, SumsOfChanged
<1>9. t > 0
  <2>1. PICK a \in Nat, b \in Nat : t = p.len + p.low + p.high + (a + b)
    BY <1>8, Zenon DEF SumsApart
  <2>2. p.low \in Nat /\ p.high \in Nat
    <3>1. \A w \in Words : w \in Nat
      BY SMTT(40) DEF Words
    <3> QED
      BY <3>1 DEF PacketType
  <2> QED
    BY <1>2, <1>4, <2>1, <2>2
<1>10. c \in Words
  <2>1. c \in Int /\ c >= 1 /\ c < Word
    BY <1>6, <1>9, OnesComplementOf
  <2> HIDE DEF c
  <2>2. c >= 0 /\ c <= 65535
    BY <2>1, SMT DEF Word
  <2> QED
    BY <2>1, <2>2, InWords
<1>11. FieldsChanged(p, r, c, i)
  <2>1. Len(chars) >= 8
    BY <1>2, <1>4
  <2> QED
    BY <1>1, <1>10, <2>1, ChangedFields
<1>12. r.cksum = c => ~Close(t, u)
  <2> SUFFICES ASSUME r.cksum = c, Close(t, u) PROVE FALSE
    OBVIOUS
  <2>1. OnesComplement(t) = OnesComplement(u)
    OBVIOUS
  <2>2. t # u /\ t - u <= 65280 /\ u - t <= 65280
    BY DEF Close
  <2>3. t - u < Word - 1 /\ u - t < Word - 1
    <3>1. Word - 1 = 65535
      BY SMT DEF Word
    <3> QED
      BY ONLY <1>6, <2>2, <3>1
  <2> QED
    <3>1. t = u
      BY ONLY <1>6, <1>9, <2>1, <2>3, ChecksumsApart
    <3> QED
      BY <2>2, <3>1
<1>13. r.cksum # c => t # u
  OBVIOUS
<1> HIDE DEF c
<1>14. i = 6 /\ 8 <= r.len /\ r.len < 8 + n
  <2>1. \/ i \in {7, 8} /\ t = u
        \/ i \notin {7, 8} /\ Close(t, u)
        \/ i = 6 /\ 8 <= r.len /\ r.len < 8 + n /\ t # u
    BY <1>1, <1>2, <1>4, <1>6, <1>7, <1>8, <1>11, ChangeInSum
  <2>2. IF i \in {7, 8} THEN r.cksum # c ELSE r.cksum = c
    BY <1>11 DEF FieldsChanged
  <2> QED
    BY <1>12, <1>13, <2>1, <2>2
<1>15. r.len \in Int /\ l = r.len - 8
  <2>1. \A w \in Words : w \in Int
    BY DEF Words
  <2> QED
    BY <1>1, <1>7, <1>14, <2>1 DEF PacketType
<1>16. r.low = p.low /\ r.high = p.high
  BY <1>11, <1>14 DEF FieldsChanged
<1>17. \E k \in 1..255 : p.len = r.len + 256 * k
  <2>1. PICK k \in -255..255 : k # 0 /\ r.len = p.len + 256 * k
    BY <1>11, <1>14, Zenon DEF FieldsChanged
  <2> DEFINE len == r.len
             q == -k
  <2>2. q \in 1..255 /\ 8 + n = len + 256 * q
    <3>1. len \in Int /\ len < 8 + n /\ len = (8 + n) + 256 * k
      BY <1>4, <1>14, <1>15, <2>1
    <3> HIDE DEF len
    <3>2. q \in Int /\ q = -k /\ k = -q
      BY <2>1
    <3> HIDE DEF q
    <3>3. 8 + n = len + 256 * q
      BY <1>2, <2>1, <3>1, <3>2
    <3>4. q > 0 /\ q <= 255
      BY <1>2, <2>1, <3>1, <3>2, <3>3
    <3> QED
      BY <3>2, <3>3, <3>4
  <2> HIDE DEF q
  <2> QED
    BY <1>4, <2>2, Zenon
<1>18. \A j \in 1..Len(r.data) : r.data[j] = p.data[j]
  <2> TAKE j \in 1..Len(r.data)
  <2>1. j \in 1..n /\ 8 + j # i /\ 8 + j \in 1..(8 + n)
    BY <1>2, <1>7, <1>14 DEF l
  <2>2. m[8 + j] = chars[8 + j]
    BY <1>4, <2>1 DEF OneChanged
  <2>3. r.data[j] = m[8 + j]
    BY <1>1, <1>3 DEF HoldsData
  <2>4. p.data[j] = chars[8 + j]
    BY <1>3, <2>1 DEF HoldsData, n
  <2> QED
    BY <2>2, <2>3, <2>4
<1>19. r.len >= HEADER_SIZE /\ Len(r.data) = r.len - HEADER_SIZE
  BY <1>3, <1>14, <1>15 DEF l
<1> QED
  BY <1>16, <1>17, <1>18, <1>19, Zenon DEF TailCut

\* A sum is determined by what is summed up.
LEMMA SumIsUnique ==
  ASSUME NEW p, PacketType(p), NEW t, NEW u, SumOfAll(p, t), SumOfAll(p, u)
  PROVE  t = u
<1> DEFINE s == Summed(p)
           n == Len(s)
<1>1. PICK T \in [Nat -> Int] : PartialSums(T, s, n) /\ T[n] = t
  BY DEF SumOfAll, SumsTo
<1>2. PICK U \in [Nat -> Int] : PartialSums(U, s, n) /\ U[n] = u
  BY DEF SumOfAll, SumsTo
<1>3. s \in Seq(Words)
  BY SummedIsWords
<1> HIDE DEF s
<1>4. n \in Nat
  BY <1>3
<1>5. \A j \in 1..n : s[j] \in Int
  <2>1. \A w \in Words : w \in Int
    BY DEF Words
  <2>2. \A j \in 1..n : s[j] \in Words
    BY <1>3
  <2> QED
    BY <2>1, <2>2
<1> HIDE DEF n
<1>6. DifferInOne(s, s, n, 0, 0)
  BY <1>5 DEF DifferInOne
<1>7. U[n] = T[n] + (IF 1 <= 0 /\ 0 <= n THEN 0 ELSE 0)
  BY <1>1, <1>2, <1>4, <1>6, SumsDiffer
<1>8. T[n] \in Int /\ U[n] = T[n]
  BY <1>4, <1>7
<1> QED
  BY <1>1, <1>2, <1>8

\* A packet that was not touched is unpacked as it was packed.
LEMMA IntactContents ==
  ASSUME NEW p, PacketType(p), p.len = HEADER_SIZE + Len(p.data), NEW c \in Words
  PROVE  LET r == Unpack(Pack(p, c))
         IN  /\ PacketType(r) /\ r.low = p.low /\ r.high = p.high
             /\ r.len = p.len /\ r.data = p.data /\ r.cksum = c
<1> DEFINE chars == Pack(p, c)
           r == Unpack(chars)
           n == Len(p.data)
<1>1. HEADER_SIZE = 8
  BY DEF HEADER_SIZE
<1>2. /\ chars \in Seq(SignedChars) /\ Len(chars) = HEADER_SIZE + Len(p.data)
      /\ Chars8(chars, p, c) /\ HoldsData(chars, p)
  BY PackedChars
<1> HIDE DEF chars
<1>3. n \in Nat /\ p.data \in Seq(SignedChars) /\ Len(chars) = 8 + n /\ p.len = 8 + n
  BY <1>1, <1>2 DEF PacketType
<1>4. IsUnpacked(r, chars)
  <2>1. Len(chars) >= HEADER_SIZE
    BY <1>1, <1>3
  <2> QED
    BY <1>2, <2>1, UnpackedPacket
<1> HIDE DEF r
<1>5. PacketType(r) /\ r.data \in Seq(SignedChars)
  BY <1>4 DEF IsUnpacked, PacketType
<1>6. r.low = p.low /\ r.high = p.high /\ r.len = p.len /\ r.cksum = c
  BY <1>2, <1>4 DEF IsUnpacked, Chars8
<1>7. Len(r.data) = n
  <2>1. Len(r.data) = DataEnd(8 + n, 8 + n) - 8
    BY <1>1, <1>3, <1>4, <1>6 DEF IsUnpacked
  <2> HIDE DEF n
  <2> QED
    BY <1>1, <1>3, <2>1 DEF DataEnd, IsCut
<1>8. \A j \in 1..n : r.data[j] = p.data[j]
  BY <1>2, <1>4, <1>7 DEF IsUnpacked, HoldsData
<1>9. r.data = p.data
  BY <1>3, <1>5, <1>7, <1>8, SeqEqual
<1> QED
  BY <1>5, <1>6, <1>9, Zenon DEF r, chars

\* x is what is left of s after the first k elements.
Remains(x, s, k) == /\ Len(x) = Len(s) - k
                    /\ \A j \in 1..Len(x) : x[j] = s[k + j]

\* The loop has x still to add, and has added the rest of s up to sum.
AddedUp(x, s, sum) == \E k \in 0..Len(s) : Remains(x, s, k) /\ SumsTo(s, k, sum)

\* The packet whose words the loop is adding up.
Current == IF phase = "sender" THEN packet ELSE received

\* What arrived is what was packed, with one char changed or none.
OnItsWay(t) ==
  LET chars == Pack(packet, OnesComplement(t))
  IN  \/ intact /\ received = Unpack(chars)
      \/ /\ ~intact
         /\ \E m \in Seq(SignedChars) : \E i \in DOMAIN chars :
              OneChanged(m, chars, i) /\ received = Unpack(m)

\* Between sender and receiver: total is the sum of what the loop has passed, and
\* what the receiver adds up is what was sent but for one char.
TransitInv ==
  /\ IInv
  /\ phase \in {"sender", "receiver"}
  /\ packet.len = HEADER_SIZE + Len(packet.data)
  /\ PacketType(received)
  /\ AddedUp(rest, Summed(Current), total)
  /\ phase = "receiver" => \E t \in Nat : t > 0 /\ SumOfAll(packet, t) /\ OnItsWay(t)

\* The loop starts with the whole packet, goes on by a word, and ends with
\* nothing left.
LEMMA LoopStarts ==
  ASSUME NEW s \in Seq(Words)
  PROVE  AddedUp(s, s, 0)
<1>1. Len(s) \in Nat
  OBVIOUS
<1>2. Remains(s, s, 0)
  BY <1>1 DEF Remains
<1>3. 0 \in 0..Len(s) /\ SumsTo(s, 0, 0)
  BY <1>1, SumOfNone
<1> QED
  BY <1>2, <1>3 DEF AddedUp

\* A word goes from what is left to the sum.
LEMMA LoopGoesOn ==
  ASSUME NEW s \in Seq(Words), NEW x \in Seq(Words), x # <<>>, NEW sum \in Nat,
         AddedUp(x, s, sum)
  PROVE  AddedUp(Tail(x), s, sum + Head(x))
<1>1. PICK k \in 0..Len(s) : Remains(x, s, k) /\ SumsTo(s, k, sum)
  BY DEF AddedUp
<1> DEFINE n == Len(s)
           l == Len(x)
<1>2. n \in Nat /\ l \in Nat /\ l > 0 /\ k \in Nat
  <2>1. Len(x) # 0
    BY EmptySeq
  <2> QED
    BY <2>1
<1>3. l = n - k /\ \A j \in 1..l : x[j] = s[k + j]
  BY <1>1 DEF Remains
<1>4. /\ Tail(x) \in Seq(Words) /\ Len(Tail(x)) = l - 1 /\ Head(x) = x[1]
      /\ \A j \in 1..(l - 1) : Tail(x)[j] = x[j + 1]
  BY <1>2, HeadTailProperties
<1> DEFINE y == Tail(x)
<1> HIDE DEF n, l, y
<1>5. k + 1 \in 0..n /\ n - (k + 1) = l - 1
  BY <1>2, <1>3
<1>6. Head(x) = s[k + 1]
  BY <1>2, <1>3, <1>4
<1>7. \A j \in 1..(l - 1) : y[j] = s[(k + 1) + j]
  <2> TAKE j \in 1..(l - 1)
  <2>1. j + 1 \in 1..l /\ k + (j + 1) = (k + 1) + j
    BY <1>2
  <2>2. y[j] = x[j + 1]
    BY <1>4 DEF y
  <2> QED
    BY <1>3, <2>1, <2>2
<1>8. Remains(y, s, k + 1)
  BY <1>4, <1>5, <1>7 DEF Remains, n, y
<1>9. SumsTo(s, k + 1, sum + s[k + 1])
  <2>1. k + 1 \in 1..Len(s)
    BY <1>2, <1>5 DEF n
  <2>2. s[k + 1] \in Words
    BY <2>1
  <2>3. s[k + 1] \in Int
    BY <2>2 DEF Words
  <2> QED
    BY <1>1, <1>2, <2>3, SumOfOneMore
<1> QED
  BY <1>5, <1>6, <1>8, <1>9 DEF AddedUp, n, y

\* At the end the sum is that of the packet.
LEMMA LoopEnds ==
  ASSUME NEW p, PacketType(p), NEW sum \in Nat, AddedUp(<<>>, Summed(p), sum)
  PROVE  SumOfAll(p, sum)
<1> DEFINE s == Summed(p)
<1>1. s \in Seq(Words)
  BY SummedIsWords
<1> HIDE DEF s
<1>2. PICK k \in 0..Len(s) : Remains(<<>>, s, k) /\ SumsTo(s, k, sum)
  BY DEF AddedUp, s
<1>3. Len(s) \in Nat /\ 0 = Len(s) - k
  BY <1>1, <1>2 DEF Remains
<1>4. k = Len(s)
  BY <1>3
<1> QED
  BY <1>2, <1>4 DEF SumOfAll, s

\* The length alone makes the sum positive.
LEMMA SumIsPositive ==
  ASSUME NEW p, PacketType(p), p.len = HEADER_SIZE + Len(p.data), NEW t, SumOfAll(p, t)
  PROVE  t \in Nat /\ t > 0
<1> DEFINE n == Len(p.data)
<1>1. n \in Nat /\ HasData(p, n) /\ p.len = 8 + n
  BY DEF HasData, PacketType, HEADER_SIZE
<1> HIDE DEF n
<1>2. p.low \in Nat /\ p.high \in Nat
  <2>1. \A w \in Words : w \in Nat
    BY SMTT(40) DEF Words
  <2> QED
    BY <2>1 DEF PacketType
<1>3. DifferInOne(DataBytes(p), DataBytes(p), n, 0, 0)
  <2>1. \A j \in 1..n : DataBytes(p)[j] \in Nat
    BY DataByte DEF n
  <2> QED
    BY <2>1 DEF DifferInOne
<1>4. BothSums(p, p, t, t, n, n, 0, 0)
  BY <1>1, <1>3, SumsOfBoth
<1>5. PICK a \in Nat, b \in Nat : t = p.len + p.low + p.high + (a + b)
  BY <1>4, Zenon DEF BothSums
<1> QED
  BY <1>1, <1>2, <1>5

LEMMA InitTransit == Init => TransitInv
<1> SUFFICES ASSUME Init PROVE TransitInv
  OBVIOUS
<1>1. IInv
  BY InitIInv
<1>2. PacketType(packet)
  BY <1>1 DEF IInv
<1>3. packet.len = HEADER_SIZE + Len(packet.data)
  <2>1. PICK n \in 0..MaxData : \E data \in [1..n -> Chars], low, high \in Halves :
                                packet = Packet(low, high, data)
    BY DEF Init
  <2>2. PICK data \in [1..n -> Chars], low \in Halves, high \in Halves :
          packet = Packet(low, high, data)
    BY <2>1
  <2>3. packet.len = Len(data) + HEADER_SIZE /\ packet.data = data
    BY <2>2 DEF Packet
  <2>4. Len(packet.data) \in Int /\ HEADER_SIZE \in Int
    BY <1>2 DEF PacketType, HEADER_SIZE
  <2> QED
    BY <2>3, <2>4
<1>4. PacketType(received)
  <2>1. 0 \in Words
    BY SMT DEF Words, Word
  <2>2. Pack(packet, 0) \in Seq(SignedChars) /\ Len(Pack(packet, 0)) >= 8
    BY <1>2, <2>1, PackIsChars
  <2> QED
    BY <2>2, UnpackIsPacket DEF Init
<1>5. AddedUp(rest, Summed(Current), total)
  BY <1>2, SummedIsWords, LoopStarts DEF Init, Current
<1> QED
  BY <1>1, <1>3, <1>4, <1>5 DEF TransitInv, Init

LEMMA AddTransit == TransitInv /\ Add /\ UNCHANGED <<packet, intact, received, phase>> => TransitInv'
<1> SUFFICES ASSUME TransitInv, Add, UNCHANGED <<packet, intact, received, phase>>
             PROVE  TransitInv'
  OBVIOUS
<1>1. IInv'
  BY AddIInv DEF TransitInv
<1>2. Summed(Current) \in Seq(Words)
  BY SummedIsWords DEF TransitInv, IInv, Current
<1>3. AddedUp(rest, Summed(Current), total)'
  <2>1. Current' = Current
    BY DEF Current
  <2>2. AddedUp(rest', Summed(Current), total')
    BY <1>2, LoopGoesOn DEF TransitInv, IInv, Add
  <2> QED
    BY <2>1, <2>2
<1>4. (phase = "receiver" => \E t \in Nat : t > 0 /\ SumOfAll(packet, t) /\ OnItsWay(t))'
  <2>1. \A t : OnItsWay(t)' <=> OnItsWay(t)
    BY DEF OnItsWay
  <2> QED
    BY <2>1 DEF TransitInv
<1> QED
  BY <1>1, <1>3, <1>4 DEF TransitInv

\* The loop of the receiver starts on chars that differ in one place, if any.
LEMMA ArriveTransit ==
  ASSUME NEW m \in Seq(SignedChars), Len(m) >= 8, TransitInv, Arrive(m),
         \/ intact' /\ m = Pack(packet, check_sum)
         \/ /\ ~intact'
            /\ \E i \in DOMAIN Pack(packet, check_sum) : OneChanged(m, Pack(packet, check_sum), i)
  PROVE  TransitInv'
<1>1. IInv'
  BY ArriveIInv DEF TransitInv
<1>2. /\ phase = "sender" /\ rest = <<>> /\ phase' = "receiver" /\ packet' = packet
      /\ received' = Unpack(m) /\ rest' = Summed(received') /\ check_sum' = 0 /\ total' = 0
  BY DEF Arrive, Calculate
<1>3. PacketType(received')
  BY <1>2, UnpackIsPacket
<1>4. AddedUp(rest, Summed(Current), total)'
  <2>1. Current' = received'
    BY <1>2 DEF Current
  <2>2. AddedUp(rest', Summed(received'), total')
    BY <1>2, <1>3, SummedIsWords, LoopStarts
  <2> QED
    BY <2>1, <2>2
<1>5. SumOfAll(packet, total)
  BY <1>2, LoopEnds DEF TransitInv, IInv, Current
<1>6. total \in Nat /\ total > 0
  BY <1>5, SumIsPositive DEF TransitInv, IInv
<1>7. PICK t \in Nat : t = total
  BY <1>6
<1>8. OnItsWay(t)'
  <2>1. check_sum = OnesComplement(t)
    BY <1>7 DEF TransitInv, IInv, SumIsOnesComplement
  <2> DEFINE chars == Pack(packet, OnesComplement(t))
  <2>2. \/ intact' /\ received' = Unpack(chars)
        \/ /\ ~intact'
           /\ \E q \in Seq(SignedChars) : \E i \in DOMAIN chars :
                OneChanged(q, chars, i) /\ received' = Unpack(q)
    BY <1>2, <2>1
  <2> QED
    BY <1>2, <2>2 DEF OnItsWay
<1>9. SumOfAll(packet, t)'
  BY <1>2, <1>5, <1>7
<1> QED
  BY <1>1, <1>2, <1>3, <1>4, <1>6, <1>7, <1>8, <1>9 DEF TransitInv

LEMMA NextTransit == TransitInv /\ [Next]_vars => TransitInv'
<1> SUFFICES ASSUME TransitInv, [Next]_vars PROVE TransitInv'
  OBVIOUS
<1>1. CASE Add /\ UNCHANGED <<packet, intact, received, phase>>
  BY <1>1, AddTransit
<1> DEFINE chars == Pack(packet, check_sum)
<1>2. chars \in Seq(SignedChars) /\ Len(chars) >= 8
  BY SumInWords, PackIsChars DEF TransitInv, IInv
<1>3. CASE ArriveIntact
  <2>1. Arrive(chars) /\ intact'
    BY <1>3 DEF ArriveIntact
  <2> QED
    BY <1>2, <2>1, ArriveTransit
<1>4. CASE ArriveCorrupted
  <2>1. PICK i \in DOMAIN chars : \E char \in Chars \ {chars[i]} : Arrive([chars EXCEPT ![i] = char])
    BY <1>4, Zenon DEF ArriveCorrupted
  <2>2. PICK char \in Chars \ {chars[i]} : Arrive([chars EXCEPT ![i] = char])
    BY <2>1
  <2>3. char \in SignedChars /\ char # chars[i]
    BY PacketAssumption DEF SignedChars
  <2> HIDE DEF chars
  <2> DEFINE m == [chars EXCEPT ![i] = char]
  <2>4. m \in Seq(SignedChars) /\ Len(m) >= 8 /\ OneChanged(m, chars, i)
    <3>1. i \in 1..Len(chars)
      BY <1>2
    <3>2. m \in Seq(SignedChars) /\ Len(m) = Len(chars)
      BY <1>2, <2>3
    <3>3. m[i] = char /\ \A j \in 1..Len(chars) : j # i => m[j] = chars[j]
      BY <1>2, <3>1
    <3> HIDE DEF m
    <3> QED
      BY <1>2, <2>3, <3>1, <3>2, <3>3 DEF OneChanged
  <2> HIDE DEF m
  <2>5. Arrive(m)
    BY <2>2 DEF m
  <2>6. ~intact'
    BY <1>4, Zenon DEF ArriveCorrupted
  <2> QED
    BY <2>4, <2>5, <2>6, ArriveTransit DEF chars
<1>5. CASE UNCHANGED vars
  <2>1. IInv'
    BY NextIInv DEF TransitInv
  <2>2. \A t : OnItsWay(t)' <=> OnItsWay(t)
    BY <1>5 DEF OnItsWay, vars
  <2>3. Current' = Current
    BY <1>5 DEF Current, vars
  <2> QED
    BY <1>5, <2>1, <2>2, <2>3 DEF TransitInv, vars, sumVars
<1> QED
  BY <1>1, <1>3, <1>4, <1>5 DEF Next

\* When the receiver's loop is done, it has the ones' complement sum of what
\* was received.
LEMMA ReceiverIsDone ==
  TransitInv /\ phase = "receiver" /\ rest = <<>> =>
    /\ PacketType(packet) /\ packet.len = HEADER_SIZE + Len(packet.data)
    /\ PacketType(received) /\ SumOfAll(received, total) /\ total \in Nat
    /\ check_sum = OnesComplement(total)
    /\ \E t \in Nat : t > 0 /\ SumOfAll(packet, t) /\ OnItsWay(t)
<1> SUFFICES ASSUME TransitInv, phase = "receiver", rest = <<>>
             PROVE  /\ PacketType(packet) /\ packet.len = HEADER_SIZE + Len(packet.data)
                    /\ PacketType(received) /\ SumOfAll(received, total) /\ total \in Nat
                    /\ check_sum = OnesComplement(total)
                    /\ \E t \in Nat : t > 0 /\ SumOfAll(packet, t) /\ OnItsWay(t)
  OBVIOUS
<1>1. SumOfAll(received, total)
  BY LoopEnds DEF TransitInv, IInv, Current
<1> QED
  BY <1>1 DEF TransitInv, IInv, SumIsOnesComplement

\* A checksum fits into its field.
LEMMA ChecksumIsWord ==
  ASSUME NEW t \in Nat, t > 0
  PROVE  OnesComplement(t) \in Words
<1> DEFINE c == OnesComplement(t)
<1>1. c \in Int /\ c >= 1 /\ c < Word
  BY OnesComplementOf
<1> HIDE DEF c
<1>2. c >= 0 /\ c <= 65535
  BY <1>1, SMT DEF Word
<1> QED
  BY <1>1, <1>2, InWords DEF c

\* What was not touched: the same sum, and the same checksum.
LEMMA IntactArrives ==
  ASSUME NEW p, PacketType(p), p.len = HEADER_SIZE + Len(p.data), NEW r, NEW t \in Nat, t > 0,
         SumOfAll(p, t), r = Unpack(Pack(p, OnesComplement(t))), NEW u, SumOfAll(r, u)
  PROVE  r.cksum = OnesComplement(u) /\ Contents(r) = Contents(p)
<1>1. /\ PacketType(r) /\ r.low = p.low /\ r.high = p.high
      /\ r.len = p.len /\ r.data = p.data /\ r.cksum = OnesComplement(t)
  BY ChecksumIsWord, IntactContents
<1>2. Summed(r) = Summed(p)
  BY <1>1 DEF Summed
<1>3. SumOfAll(p, u)
  BY <1>2 DEF SumOfAll
<1>4. t = u
  BY <1>3, SumIsUnique
<1> QED
  BY <1>1, <1>4 DEF Contents

\* What an accepted packet is worth, of the two histories it can have.
LEMMA DoneIsDecided == TransitInv => IntactIsAccepted /\ AcceptedIsSent
<1> SUFFICES ASSUME TransitInv, phase = "receiver", rest = <<>>
             PROVE  /\ intact => received.cksum = check_sum /\ Contents(received) = Contents(packet)
                    /\ received.cksum = check_sum /\ ~intact => TailCut(packet, received)
  BY Zenon DEF IntactIsAccepted, AcceptedIsSent, Accepted
<1>1. /\ PacketType(packet) /\ packet.len = HEADER_SIZE + Len(packet.data)
      /\ PacketType(received) /\ SumOfAll(received, total)
      /\ check_sum = OnesComplement(total)
  BY ReceiverIsDone
<1>2. PICK t \in Nat : t > 0 /\ SumOfAll(packet, t) /\ OnItsWay(t)
  BY ReceiverIsDone
<1> DEFINE chars == Pack(packet, OnesComplement(t))
<1>3. ASSUME intact
      PROVE  received.cksum = check_sum /\ Contents(received) = Contents(packet)
  <2>1. received = Unpack(chars)
    BY <1>2, <1>3 DEF OnItsWay
  <2> QED
    BY <1>1, <1>2, <2>1, IntactArrives
<1>4. ASSUME ~intact, received.cksum = check_sum
      PROVE  TailCut(packet, received)
  <2>1. PICK m \in Seq(SignedChars), i \in DOMAIN chars :
          OneChanged(m, chars, i) /\ received = Unpack(m)
    BY <1>2, <1>4 DEF OnItsWay
  <2>2. OnesComplement(t) \in Words
    BY <1>2, ChecksumIsWord
  <2>3. /\ Len(chars) = HEADER_SIZE + Len(packet.data)
        /\ Chars8(chars, packet, OnesComplement(t)) /\ HoldsData(chars, packet)
    BY <1>1, <2>2, PackedChars
  <2> HIDE DEF chars
  <2>4. Len(m) >= HEADER_SIZE
    <3>1. Len(packet.data) \in Nat /\ HEADER_SIZE \in Int
      BY <1>1 DEF PacketType, HEADER_SIZE
    <3> QED
      BY <2>1, <2>3, <3>1 DEF OneChanged
  <2>5. IsUnpacked(received, m)
    BY <2>1, <2>4, UnpackedPacket
  <2>6. received.cksum = OnesComplement(total)
    BY <1>1, <1>4
  <2> QED
    BY <1>1, <1>2, <2>1, <2>3, <2>5, <2>6, ChangeIsDetected
<1> QED
  BY <1>3, <1>4

\* A packet that nothing happened to is accepted: pack, unpack and
\* calculate_checksum agree on the bytes of both sides.
THEOREM IntactCorrect == Spec => []IntactIsAccepted
<1>1. TransitInv => IntactIsAccepted
  BY DoneIsDecided
<1> QED
  BY InitTransit, NextTransit, <1>1, PTL DEF Spec

\* What passes the test of calculate_checksum is what was sent, or, when the length
\* of a packet of 256 bytes of data or more has changed, the beginning of that under
\* the number it was sent with: for data of every length the length field can hold.
THEOREM ChangesNoticed == Spec => []AcceptedIsSent
<1>1. TransitInv => AcceptedIsSent
  BY DoneIsDecided
<1> QED
  BY InitTransit, NextTransit, <1>1, PTL DEF Spec
===============================================================================
