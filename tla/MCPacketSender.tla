---------------------------- MODULE MCPacketSender ----------------------------
(***************************************************************************)
(* An instance of PacketSender for TLC: the worker and the timer thread of *)
(* a selective repeat transfer, and a third thread that belongs to the     *)
(* same transfer, to another, or to a mode without a mutex.                *)
(***************************************************************************)
EXTENDS PacketSender

CONSTANTS worker, timer, other

MCThreads == {worker, timer, other}
MCSequence == <<2, 1, 3>>
MCDeployments == {[t \in MCThreads |-> worker],
                  [t \in MCThreads |-> IF t = other THEN other ELSE worker],
                  [t \in MCThreads |-> t]}
===============================================================================
