---------------------------- MODULE MCStopAndWait ----------------------------
(***************************************************************************)
(* Instances of StopAndWaitTransfer for TLC.                               *)
(***************************************************************************)
EXTENDS StopAndWaitTransfer

CONSTANTS d1, d2, a1, a2

MCData == {d1, d2}
File2 == <<d1, d2>>
TwoAddresses == {a1, a2}
ClientWindow == {1}
==============================================================================
