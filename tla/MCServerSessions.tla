-------------------------- MODULE MCServerSessions ---------------------------
(***************************************************************************)
(* Instances of ServerSessions for TLC.                                    *)
(***************************************************************************)
EXTENDS ServerSessions, TLC

CONSTANTS c1, c2, t1, t2

OneClient == {c1}
TwoClients == {c1, c2}
OneThread == {t1}
TwoThreads == {t1, t2}

EmptyOrOne == {0, 1}
One == {1}
Two == {2}

Symmetry == Permutations(TwoClients) \cup Permutations(TwoThreads)
==============================================================================
