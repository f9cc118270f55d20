--------------------------- MODULE MCWindowStream ---------------------------
(***************************************************************************)
(* A page that loads twice, with one session attached, detached and        *)
(* watched, or attached again; and one that loads once, with two sessions. *)
(***************************************************************************)
EXTENDS WindowStream, TLC

CONSTANTS first, second, one, again, other, drop, eye, shell, agent

TheHandles == [t \in {one, again, drop} |-> shell] @@ [t \in {other} |-> agent]
Symmetry   == Permutations(Loads)
TheFrames  == <<2, 0>>
Reloads    == {{one, drop, eye}, {one, again}}
TheCasts   == {cast \cup Loads : cast \in Reloads} \cup {{l, one, other} : l \in Loads}
=============================================================================
