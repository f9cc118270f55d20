--------------------------- MODULE MCWindowCredit ---------------------------
(***************************************************************************)
(* Two panes: a quiet one that the user closes, and a busy one whose child *)
(* exits and whose output may follow the exit.  A chunk of two bytes lets  *)
(* a sink overdraw, a window of three is reopened by an ack of two, and    *)
(* the exit leaves the window of the desktop a byte short.                 *)
(***************************************************************************)
EXTENDS WindowCredit, TLC
CONSTANTS s1, s2
Written == s1 :> 1 @@ s2 :> 5
Exits == s1 :> 0 @@ s2 :> 1
=============================================================================
