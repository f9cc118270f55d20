--------------------------- MODULE MCStreamServer ---------------------------
(***************************************************************************)
(* A window that reloads by opening a second stream socket and reconnects  *)
(* by using its second control connection, on which it also retries.       *)
(***************************************************************************)
EXTENDS StreamServer, TLC

CONSTANTS window, before, after

TheSocketClient  == [s \in Sockets |-> window]
TheControlClient == [t \in Controls |-> window]
Symmetry         == Permutations(Sockets)
=============================================================================
