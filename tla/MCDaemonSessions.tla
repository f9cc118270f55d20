-------------------------- MODULE MCDaemonSessions --------------------------
(***************************************************************************)
(* Two connections.  On the first a create for a pane and one without; on  *)
(* the second a retry of the first create and the close of its session.    *)
(***************************************************************************)
EXTENDS DaemonSessions, TLC

CONSTANTS window, cli, make, remake, other, end, pane

TheConns  == [r \in {make, other} |-> window] @@ [r \in {remake, end} |-> cli]
ThePanes  == [r \in {make, remake} |-> pane] @@ [r \in {other} |-> NoPane]
TheNames  == [r \in {make, other, end} |-> r] @@ [r \in {remake} |-> make]
TheTarget == [r \in {end} |-> make]
=============================================================================
