----------------------------- MODULE PtyConduit -----------------------------
(***************************************************************************)
(* What the threads behind a pty promise the consumer of its output        *)
(* (PtyOutput of crates/nysia-core/src/pty/session.rs): the chunks in the  *)
(* order they were written, none missing while the session is not being    *)
(* closed and the consumer has not gone, and an end that is only heard     *)
(* after the last of them.  Chunks are numbered as they are written.       *)
(***************************************************************************)
EXTENDS Naturals, Sequences, SequencesExt

CONSTANT MaxChunks  \* bound: chunks ever written

VARIABLES
  written,  \* chunks written so far
  transit,  \* those under way, oldest first
  got,      \* the last chunk the consumer took
  lossy,    \* chunks under way may be dropped
  heard     \* the consumer has been told that there will be no more

vars == <<written, transit, got, lossy, heard>>

Init ==
  /\ written = 0 /\ transit = <<>> /\ got = 0
  /\ lossy = FALSE /\ heard = FALSE

Write ==
  /\ ~heard /\ written < MaxChunks
  /\ written' = written + 1
  /\ transit' = Append(transit, written')
  /\ UNCHANGED <<got, lossy, heard>>

Deliver ==
  /\ transit # <<>>
  /\ got' = Head(transit)
  /\ transit' = Tail(transit)
  /\ UNCHANGED <<written, lossy, heard>>

\* What is left keeps its order.
Lose ==
  /\ lossy
  /\ \E i \in DOMAIN transit : transit' = RemoveAt(transit, i)
  /\ UNCHANGED <<written, got, lossy, heard>>

\* The session is closed, or the consumer goes and takes its queue with it.
GiveUp ==
  /\ lossy' = TRUE
  /\ \E n \in 0..Len(transit) : transit' = SubSeq(transit, n + 1, Len(transit))
  /\ UNCHANGED <<written, got, heard>>

Hear ==
  /\ transit = <<>>
  /\ heard' = TRUE
  /\ UNCHANGED <<written, transit, got, lossy>>

Next == Write \/ Deliver \/ Lose \/ GiveUp \/ Hear

Spec == Init /\ [][Next]_vars
=============================================================================
