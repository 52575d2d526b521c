------------------------------- MODULE Checksum -------------------------------
(***************************************************************************)
(* packet_util::calculate_checksum, for data packets and, with no data,    *)
(* for ACKs: a loop that adds the length, the halves of the sequence       *)
(* number and the bytes to a uint32_t, and wraps the 17th bit around after *)
(* each addition.  Definitions named Buggy... are mistakes the properties  *)
(* are tested against; the model does not use them.                        *)
(***************************************************************************)
EXTENDS Integers, Sequences

Word == 65536

VARIABLES rest,         \* what is still to be added
          check_sum,
          total         \* history: what was added, as a number without a width

sumVars == <<rest, check_sum, total>>

\* Bit 16 of a uint32_t.
ExtraBit(sum) == (sum \div Word) % 2 = 1

\* A mistake: the bit is dropped.
BuggyWrap(sum) == IF ExtraBit(sum) THEN sum % Word ELSE sum

\* wrap_extra_bits: bit 16, if it is set, is added to the lower 16 bits.
Wrap(sum) == IF ExtraBit(sum) THEN (sum % Word) + 1 ELSE sum

Add == /\ rest # <<>>
       /\ check_sum' = Wrap(check_sum + Head(rest))
       /\ total' = total + Head(rest)
       /\ rest' = Tail(rest)

-----------------------------------------------------------------------------
\* The ones' complement sum of words that add up to n: congruent to n modulo
\* Word - 1, and zero only when all words are.
OnesComplement(n) == IF n = 0 THEN 0 ELSE ((n - 1) % (Word - 1)) + 1

\* After every addition the sum fits into 16 bits: "Error calculating data
\* packet checksum" never happens, and the cast to uint16_t loses nothing.
SumFits == check_sum \in 0..(Word - 1)

\* The loop computes the ones' complement sum, whatever the order of carries.
SumIsOnesComplement == check_sum = OnesComplement(total)
===============================================================================
