---------------------------- MODULE MCPtySession ----------------------------
(***************************************************************************)
(* A shell and one job it may start, on either platform.                   *)
(***************************************************************************)
EXTENDS PtySession

CONSTANTS shell, job
=============================================================================
