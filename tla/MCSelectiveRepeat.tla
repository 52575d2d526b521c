-------------------------- MODULE MCSelectiveRepeat --------------------------
(***************************************************************************)
(* Instances of SelectiveRepeatTransfer for TLC.  The files repeat no      *)
(* payload, so that a payload written in the wrong place shows.            *)
(***************************************************************************)
EXTENDS SelectiveRepeatTransfer

CONSTANTS d1, d2, d3, d4

MCData == {d1, d2, d3, d4}
File2 == <<d1, d2>>
File4 == <<d1, d2, d3, d4>>
ClientWindow == {2}
==============================================================================
