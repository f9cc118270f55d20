-------------------------- MODULE MCProjectService --------------------------
(***************************************************************************)
(* Starts of `x/n`, its retry, and of `x-n`, whose directory has the same  *)
(* name; a session in a folder of the main worktree; a registration of the *)
(* directory the first start makes.                                        *)
(***************************************************************************)
EXTENDS ProjectService, TLC

CONSTANTS start, again, other, open, register, forget, list

TheMain    == <<<<"repo">>>>
TheAside   == <<<<"aside">>>>
TheInside  == {<<<<"repo">>, <<"src">>>>}
TheTrunk   == <<"m">>
Slashed    == <<"x", "/", "n">>
Dashed     == <<"x", "-", "n">>
Made       == Candidate(Slashed, 1)

TheUnused   == {Dashed}
TheBranches == {TheTrunk, Slashed, Dashed}
TheBranchOf == [s \in {start, again} |-> Slashed] @@ [s \in {other} |-> Dashed]
TheFolder   == [r \in {start, again, other, forget, list} |-> TheMain]
               @@ [r \in {open} |-> <<<<"repo">>, <<"src">>>>] @@ [r \in {register} |-> Made]

\* The window starts the branch and tries again; the rest is the CLI's.
TheEarlier  == [r \in {start, other} |-> {}] @@ [r \in {again} |-> {start}]
               @@ [r \in {forget} |-> {start, again}] @@ [r \in {open} |-> {other}]
               @@ [r \in {register} |-> {other, open}]
               @@ [r \in {list} |-> {other, open, register}]
=============================================================================
