---------------------------- MODULE FileTransfer -----------------------------
(***************************************************************************)
(* What a transfer promises, whatever the strategy: the client's output    *)
(* file only ever grows along the requested file, one or more whole        *)
(* payloads at a time, and the client stops ("File received fully from     *)
(* server") only when it holds all of it.                                  *)
(***************************************************************************)
EXTENDS Naturals, Sequences

CONSTANT File

VARIABLES written,   \* the payloads the client has written to its file
          done       \* the client has stopped receiving

vars == <<written, done>>

Init == written = <<>> /\ done = FALSE

Write == /\ ~done
         /\ \E n \in (Len(written) + 1)..Len(File) : written' = SubSeq(File, 1, n)
         /\ UNCHANGED done

Stop == /\ ~done
        /\ written = File
        /\ done' = TRUE
        /\ UNCHANGED written

Next == Write \/ Stop

Spec == Init /\ [][Next]_vars
==============================================================================
