-------------------------- MODULE MCDaemonEndpoint --------------------------
(* Two clients and three daemons, two of which can start at once on the     *)
(* file of the third.                                                       *)
EXTENDS DaemonEndpoint, TLC

MCSymmetry == Permutations(Daemon) \cup Permutations(Client)

\* Nothing is claimed of a daemon that was displaced, so TLC stops at that step.
MCUntilDisplaced == ~displaced
=============================================================================
