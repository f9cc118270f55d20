-------------------------- MODULE MCSessionOutput --------------------------
(* The sizes stand to each other as the code's do: the flush ceiling is above *)
(* what coalescing waits for, the window is a few chunks, and the last chunk  *)
(* may overdraw what is left of it.                                           *)
EXTENDS SessionOutput

CONSTANTS s1, s2

MCSinks == {s1, s2}

\* One client that may leave, of a session that is closed and may exit, and two
\* clients of different speed that share one.
MCPlays ==
  {[sinks |-> {s1}, events |-> {"exit", "close", "release"}, bytes |-> 2],
   [sinks |-> {s1}, events |-> {"close", "release"}, bytes |-> 3],
   [sinks |-> {s1, s2}, events |-> {"eof"}, bytes |-> 2]}
=============================================================================
