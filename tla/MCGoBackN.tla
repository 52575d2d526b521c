------------------------------ MODULE MCGoBackN ------------------------------
(***************************************************************************)
(* Instances of GoBackNTransfer for TLC.  The files repeat no payload.     *)
(***************************************************************************)
EXTENDS GoBackNTransfer

CONSTANTS d1, d2, d3, d4

MCData == {d1, d2, d3, d4}
File2 == <<d1, d2>>
File4 == <<d1, d2, d3, d4>>

\* next_seq_number happens to be zero, or to have any value.
Zero == {0}
Any == 0..7
==============================================================================
