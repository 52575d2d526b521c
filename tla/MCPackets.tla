------------------------------- MODULE MCPackets -------------------------------
(***************************************************************************)
(* An instance of Packets for TLC: halves at the ends of their range and   *)
(* where carries happen, chars at the ends of theirs, around the sign, and *)
(* a length that cuts one byte off.                                        *)
(***************************************************************************)
EXTENDS Packets

MCHalves == {0, 255, 65527, 65535}
MCChars == {-128, -1, 0, 1, 9, 127}
===============================================================================
