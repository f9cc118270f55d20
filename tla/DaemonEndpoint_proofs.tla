------------------------ MODULE DaemonEndpoint_proofs ------------------------
(***************************************************************************)
(* Proofs about DaemonEndpoint, for any daemons and any clients.           *)
(*                                                                         *)
(* The invariant, EndpointInv, rests on one observation: a daemon binds at *)
(* most once, so a socket that has stopped listening never listens again.  *)
(* What bind_unix sampled and then found refused is therefore dead for     *)
(* good, and unlinking it harms nobody.                                    *)
(***************************************************************************)
EXTENDS DaemonEndpoint, TLAPS

DaemonPcs == Binding \cup Listening \cup Ended \cup {"unborn", "beaten", "ending", "dropping"}
ClientPcs == Probing \cup {"idle", "locking", "spawning", "connected"}
Stages == Pending \cup {"none", "answered", "refused", "dropped"}
DaemonState == [pc : DaemonPcs, probed : Daemon \cup {None}, built : BOOLEAN]
ClientState == [pc : ClientPcs, started : Daemon \cup {None}, record : Daemon \cup {None}]
DialState == [stage : Stages, server : Daemon \cup {None}]

OwnerPcs == {"unheard", "bound", "serving", "retiring", "closing"}
Past == {"unlinked", "ending", "dropping"} \cup Ended
Serves == {"serving", "retiring", "closing", "unlinked", "ending"}
Gone == {"dropping"} \cup Ended
LockPcs == {"second", "spawning", "waiting"}

-----------------------------------------------------------------------------
(* The inductive invariant, in parts.                                      *)

FilesTyped ==
  /\ entry \in Daemon \cup {None} /\ lease \in Daemon \cup {None}
  /\ unordered \in BOOLEAN /\ displaced \in BOOLEAN

DaemonsTyped == daemon \in [Daemon -> DaemonState]

DialsTyped ==
  /\ dial \in [Daemon \cup Client -> DialState]
  /\ \A x \in Daemon \cup Client : dial[x].stage = "none" <=> dial[x].server = None

ClientsTyped ==
  /\ lock \in Client \cup {None}
  /\ client \in [Client -> ClientState]
  /\ \A c \in Client : lock = c <=> client[c].pc \in LockPcs

Typed == FilesTyped /\ DaemonsTyped /\ DialsTyped /\ ClientsTyped

\* A file is of a daemon that has bound, and so is what bind_unix sampled; what is
\* dropped was built.
Known ==
  /\ entry # None => daemon[entry].pc \in OwnerPcs \cup Past
  /\ \A d \in Daemon : daemon[d].probed # None =>
                         daemon[daemon[d].probed].pc \in OwnerPcs \cup Past
  /\ \A d \in Daemon : daemon[d].pc = "dropping" => daemon[d].built

\* An owner is named, an inode the probe was refused by has no owner, and the one
\* that serves has the lease, or has lost it to the end of an earlier one.
Named ==
  ~displaced =>
    \A d \in Daemon :
      /\ daemon[d].pc \in OwnerPcs => entry = d
      /\ daemon[d].pc \in {"check", "unlink"} /\ daemon[d].probed # None =>
           daemon[daemon[d].probed].pc \in Past
      /\ daemon[d].pc \in {"serving", "retiring"} => lease = d \/ (lease = None /\ Followed(d))

\* A connection is at a daemon that still serves it, an answer is of one that served.
Dialled ==
  \A x \in Daemon \cup Client :
    /\ dial[x].stage = "backlog" => daemon[dial[x].server].pc \in Listening
    /\ dial[x].stage \in {"accepted", "vetted"} => daemon[dial[x].server].pc \in Serves
    /\ dial[x].stage = "answered" => daemon[dial[x].server].pc \in Serves \cup Gone

Doubted ==
  /\ \A c \in Client : client[c].pc = "connected" => dial[c].stage = "answered"
  /\ DoubtIsJustified

EndpointInv == Typed /\ Known /\ Named /\ Dialled /\ Doubted

-----------------------------------------------------------------------------
\* The invariant holds while no daemon was started.
LEMMA InitInv ==
  ASSUME Init
  PROVE  EndpointInv
<1> USE DEF Init, NoCall, NoDial
<1>1. Typed
  BY EndpointAssumption DEF Typed, FilesTyped, DaemonsTyped, DialsTyped, ClientsTyped, DaemonState, ClientState,
     DialState, DaemonPcs, ClientPcs, Stages, LockPcs
<1>2. Known /\ Named /\ Dialled
  BY EndpointAssumption DEF Known, Named, Dialled, OwnerPcs, Past, Ended
<1>3. Doubted
  BY DEF Doubted, DoubtIsJustified
<1> QED BY <1>1, <1>2, <1>3 DEF EndpointInv

-----------------------------------------------------------------------------
(* What a step of a daemon does, action by action.                         *)

Moves(d) == Binds(d) \/ Lives(d)

\* The others stay where they are.
Alone(d) ==
  /\ daemon' \in [Daemon -> DaemonState]
  /\ \A e \in Daemon : e # d => daemon'[e] = daemon[e]

\* d takes the free name.
Names(d) ==
  /\ entry = None /\ entry' = d /\ UNCHANGED <<lease, displaced>>
  /\ daemon[d].pc \in {"starting", "rebind"}
  /\ daemon'[d].pc = "unheard" /\ daemon'[d].probed = daemon[d].probed

Samples(d) ==
  /\ UNCHANGED <<entry, lease, displaced>>
  /\ daemon[d].pc = "sample"
  /\ daemon'[d].pc = "probe" /\ daemon'[d].probed = entry

\* d was refused by the file, so its daemon listens no more, or not yet.
Refused(d) ==
  /\ UNCHANGED <<entry, lease>>
  /\ daemon[d].pc = "probe" /\ daemon'[d].pc = "check"
  /\ daemon'[d].probed = daemon[d].probed
  /\ entry # None /\ daemon[entry].pc \notin Listening
  /\ displaced' = (displaced \/ daemon[entry].pc = "unheard")

Unlinks(d) ==
  /\ entry' = None /\ UNCHANGED lease
  /\ daemon[d].pc = "unlink" /\ daemon'[d].pc \in {"beaten", "rebind"}
  /\ daemon'[d].probed = None
  /\ displaced \/ (entry \notin {None, daemon[d].probed} /\ Alive(entry)) => displaced'

\* d serves, or stops.
Serving(d) ==
  /\ UNCHANGED <<entry, displaced>> /\ daemon'[d].probed = daemon[d].probed
  /\ \/ daemon[d].pc = "bound" /\ daemon'[d].pc = "serving" /\ lease' = d
     \/ daemon[d].pc = "retiring" /\ daemon'[d].pc = "closing" /\ lease' = None

\* d is dropped, and the lease of whoever serves by then goes with it.
Drops(d) ==
  /\ UNCHANGED <<entry, displaced>> /\ daemon'[d].probed = daemon[d].probed
  /\ daemon[d].pc = "dropping" /\ daemon'[d].pc = "retired" /\ lease' = None

Unnames(d) ==
  /\ entry' = None /\ UNCHANGED <<lease, displaced>>
  /\ daemon[d].pc = "closing" /\ daemon'[d].pc = "unlinked"
  /\ daemon'[d].probed = daemon[d].probed

\* Every other step leaves the files alone, and gives d nothing new.
Quiet(d) ==
  /\ UNCHANGED <<entry, lease>> /\ displaced' \in {displaced, TRUE}
  /\ daemon'[d].probed \in {None, daemon[d].probed}
  /\ daemon[d].pc \in OwnerPcs => daemon'[d].pc \in OwnerPcs \cup Past
  /\ daemon[d].pc \in Past => daemon'[d].pc \in Past
  /\ daemon'[d].pc \in OwnerPcs => daemon[d].pc \in OwnerPcs
  /\ daemon'[d].pc \in {"serving", "retiring"} => daemon[d].pc \in {"serving", "retiring"}
  /\ daemon'[d].pc = "serving" => daemon[d].pc = "serving"
  /\ daemon'[d].pc \in {"check", "unlink"} => daemon[d].pc \in {"check", "unlink"}

\* Where a daemon can come to.
LEMMA PcsKnown ==
  /\ "starting" \in DaemonPcs /\ "sample" \in DaemonPcs /\ "probe" \in DaemonPcs /\ "check" \in DaemonPcs
  /\ "unlink" \in DaemonPcs /\ "rebind" \in DaemonPcs /\ "unheard" \in DaemonPcs /\ "bound" \in DaemonPcs
  /\ "serving" \in DaemonPcs /\ "retiring" \in DaemonPcs /\ "closing" \in DaemonPcs
  /\ "unlinked" \in DaemonPcs /\ "ending" \in DaemonPcs /\ "dropping" \in DaemonPcs
  /\ "retired" \in DaemonPcs /\ "killed" \in DaemonPcs /\ "already running" \in DaemonPcs
  /\ "gave up" \in DaemonPcs /\ "beaten" \in DaemonPcs
BY DEF DaemonPcs, Binding, Listening, Ended

\* Every action of a daemon has one of these effects, on itself and on the files.
LEMMA DaemonStep ==
  ASSUME Typed, NEW d \in Daemon, Moves(d)
  PROVE  /\ Alone(d) /\ FilesTyped'
         /\ \/ Names(d) \/ Samples(d) \/ Refused(d) \/ Unlinks(d)
            \/ Serving(d) \/ Drops(d) \/ Unnames(d) \/ Quiet(d)
<1> USE DEF Typed, FilesTyped, DaemonsTyped, DaemonState
<1>1. CASE BindUnix(d)
  <2>1. FilesTyped'
    BY <1>1 DEF BindUnix, ghosts
  <2>2. CASE entry = None
    <3>1. daemon' = [daemon EXCEPT ![d].pc = "unheard"]
      BY <1>1, <2>2 DEF BindUnix
    <3>2. Alone(d)
      BY <3>1, PcsKnown DEF Alone
    <3>3. Names(d)
      BY <1>1, <2>2, <3>1 DEF BindUnix, ghosts, Names
    <3> QED BY <2>1, <3>2, <3>3
  <2>3. CASE entry # None
    <3>1. daemon' = [daemon EXCEPT ![d].pc = "sample"]
      BY <1>1, <2>3 DEF BindUnix
    <3>2. Alone(d)
      BY <3>1, PcsKnown DEF Alone
    <3>3. Quiet(d)
      BY <1>1, <2>3, <3>1 DEF BindUnix, ghosts, Quiet, OwnerPcs, Past, DaemonPcs, Binding, Listening, Ended
    <3> QED BY <2>1, <3>2, <3>3
  <2> QED BY <2>2, <2>3
<1>2. CASE SocketIdentity(d)
  <2>0. daemon' = [daemon EXCEPT ![d].pc = "probe", ![d].probed = entry] /\ UNCHANGED <<files, ghosts>>
    BY <1>2 DEF SocketIdentity
  <2>1. Alone(d) /\ FilesTyped'
    BY <2>0, PcsKnown DEF files, ghosts, Alone
  <2>2. Samples(d)
    BY <1>2 DEF SocketIdentity, files, ghosts, Samples
  <2> QED BY <2>1, <2>2
<1>3. CASE ProbeStale(d)
  <2>1. FilesTyped'
    BY <1>3 DEF ProbeStale, files
  <2>2. CASE entry # None /\ ~Answering
    <3>1. daemon' = [daemon EXCEPT ![d].pc = "check"]
      BY <1>3, <2>2 DEF ProbeStale, files
    <3>2. Alone(d)
      BY <3>1, PcsKnown DEF Alone
    <3>3. Refused(d)
      BY <1>3, <2>2, <3>1 DEF ProbeStale, files, Refused, Answering
    <3> QED BY <2>1, <3>2, <3>3
  <2>3. CASE entry = None \/ Answering
    <3>1. PICK pc \in {"beaten", "rebind"} :
            daemon' = [daemon EXCEPT ![d].pc = pc, ![d].probed = None]
      BY <1>3, <2>3 DEF ProbeStale, files
    <3>4. pc \in DaemonPcs
      BY PcsKnown
    <3>2. Alone(d)
      BY <3>1, <3>4 DEF Alone
    <3>5. daemon'[d].pc = pc /\ daemon'[d].probed = None /\ daemon[d].pc = "probe"
      BY <1>3, <3>1 DEF ProbeStale
    <3>6. UNCHANGED <<entry, lease>> /\ displaced' \in {displaced, TRUE}
      BY <1>3 DEF ProbeStale, files
    <3>3. Quiet(d)
      BY <3>5, <3>6 DEF Quiet, OwnerPcs, Past, Ended
    <3> QED BY <2>1, <3>2, <3>3
  <2> QED BY <2>2, <2>3
<1>4. CASE CheckIdentity(d)
  <2>0. /\ \/ daemon' = [daemon EXCEPT ![d].pc = "beaten", ![d].probed = None]
           \/ daemon' = [daemon EXCEPT ![d].pc = "unlink"]
        /\ UNCHANGED <<files, ghosts>>
    BY <1>4 DEF CheckIdentity
  <2>3. ASSUME daemon' = [daemon EXCEPT ![d].pc = "beaten", ![d].probed = None] PROVE Alone(d)
    BY <2>3, PcsKnown DEF Alone
  <2>4. ASSUME daemon' = [daemon EXCEPT ![d].pc = "unlink"] PROVE Alone(d)
    BY <2>4, PcsKnown DEF Alone
  <2>1. Alone(d) /\ FilesTyped'
    BY <2>0, <2>3, <2>4 DEF files, ghosts
  <2>2. Quiet(d)
    BY <1>4 DEF CheckIdentity, files, ghosts, Quiet, OwnerPcs, Past, DaemonPcs, Binding, Listening, Ended
  <2> QED BY <2>1, <2>2
<1>5. CASE UnlinkStale(d)
  <2>0. PICK pc \in {"beaten", "rebind"} : daemon' = [daemon EXCEPT ![d].pc = pc, ![d].probed = None]
    BY <1>5 DEF UnlinkStale
  <2>3. Alone(d)
    BY <2>0, PcsKnown DEF Alone
  <2>1. Alone(d) /\ FilesTyped'
    BY <1>5, <2>3 DEF UnlinkStale
  <2>2. Unlinks(d)
    BY <1>5 DEF UnlinkStale, Unlinks
  <2> QED BY <2>1, <2>2
<1>6. CASE Rebind(d)
  <2>1. FilesTyped'
    BY <1>6 DEF Rebind, ghosts
  <2>2. CASE entry = None
    <3>1. daemon' = [daemon EXCEPT ![d].pc = "unheard"]
      BY <1>6, <2>2 DEF Rebind
    <3>2. Alone(d)
      BY <3>1, PcsKnown DEF Alone
    <3>3. Names(d)
      BY <1>6, <2>2, <3>1 DEF Rebind, ghosts, Names
    <3> QED BY <2>1, <3>2, <3>3
  <2>3. CASE entry # None
    <3>1. daemon' = [daemon EXCEPT ![d].pc = "beaten"]
      BY <1>6, <2>3 DEF Rebind
    <3>2. Alone(d)
      BY <3>1, PcsKnown DEF Alone
    <3>3. Quiet(d)
      BY <1>6, <2>3, <3>1 DEF Rebind, ghosts, Quiet, OwnerPcs, Past, DaemonPcs, Binding, Listening, Ended
    <3> QED BY <2>1, <3>2, <3>3
  <2> QED BY <2>2, <2>3
<1>7. CASE Listen(d)
  <2>1. Alone(d) /\ FilesTyped'
    BY <1>7, PcsKnown DEF Listen, files, ghosts, Alone
  <2>2. Quiet(d)
    BY <1>7 DEF Listen, files, ghosts, Quiet, OwnerPcs, Past, DaemonPcs, Binding, Listening, Ended
  <2> QED BY <2>1, <2>2
<1>8. CASE ConfirmDial(d)
  <2>0. daemon' = daemon \/ daemon' = [daemon EXCEPT ![d].pc = "gave up"]
    BY <1>8 DEF ConfirmDial
  <2>1. Alone(d)
    BY <2>0, PcsKnown DEF Alone
  <2>3. FilesTyped'
    BY <1>8 DEF ConfirmDial, files, ghosts
  <2>2. Quiet(d)
    BY <1>8 DEF ConfirmDial, files, ghosts, Quiet, OwnerPcs, Past, DaemonPcs, Binding, Listening, Ended
  <2> QED BY <2>1, <2>2, <2>3
<1>9. CASE Confirm(d)
  <2>0. PICK pc \in {"gave up", "already running"} : daemon' = [daemon EXCEPT ![d].pc = pc]
    BY <1>9 DEF Confirm
  <2>4. pc \in DaemonPcs
    BY PcsKnown
  <2>1. Alone(d)
    BY <2>0, <2>4 DEF Alone
  <2>3. FilesTyped'
    BY <1>9 DEF Confirm, files, ghosts
  <2>2. Quiet(d)
    BY <1>9 DEF Confirm, files, ghosts, Quiet, OwnerPcs, Past, DaemonPcs, Binding, Listening, Ended
  <2> QED BY <2>1, <2>2, <2>3
<1>10. CASE StartByHand(d)
  <2>1. Alone(d) /\ FilesTyped'
    BY <1>10, PcsKnown DEF StartByHand, files, Alone
  <2>2. Quiet(d)
    BY <1>10 DEF StartByHand, files, Quiet, OwnerPcs, Past, DaemonPcs, Binding, Listening, Ended
  <2> QED BY <2>1, <2>2
<1>11. CASE WriteLease(d)
  <2>1. Alone(d) /\ FilesTyped'
    BY <1>11, PcsKnown DEF WriteLease, ghosts, Alone
  <2>2. Serving(d)
    BY <1>11 DEF WriteLease, ghosts, Serving
  <2> QED BY <2>1, <2>2
<1>12. CASE OpenFails(d)
  <2>1. Alone(d) /\ FilesTyped'
    BY <1>12, PcsKnown DEF OpenFails, files, ghosts, Alone
  <2>2. Quiet(d)
    BY <1>12 DEF OpenFails, files, ghosts, Quiet, OwnerPcs, Past, DaemonPcs, Binding, Listening, Ended
  <2> QED BY <2>1, <2>2
<1>13. CASE Stop(d)
  <2>1. Alone(d) /\ FilesTyped'
    BY <1>13, PcsKnown DEF Stop, files, ghosts, Alone
  <2>2. Quiet(d)
    BY <1>13 DEF Stop, files, ghosts, Quiet, OwnerPcs, Past, DaemonPcs, Binding, Listening, Ended
  <2> QED BY <2>1, <2>2
<1>14. CASE RemoveLease(d)
  <2>1. Alone(d) /\ FilesTyped'
    BY <1>14, PcsKnown DEF RemoveLease, ghosts, Alone
  <2>2. Serving(d)
    BY <1>14 DEF RemoveLease, ghosts, Serving
  <2> QED BY <2>1, <2>2
<1>15. CASE DropListener(d)
  <2>1. Alone(d) /\ FilesTyped'
    BY <1>15, PcsKnown DEF DropListener, ghosts, Alone
  <2>2. Unnames(d)
    BY <1>15 DEF DropListener, ghosts, Unnames
  <2> QED BY <2>1, <2>2
<1>16. CASE CloseSocket(d)
  <2>1. Alone(d) /\ FilesTyped'
    BY <1>16, PcsKnown DEF CloseSocket, files, ghosts, Alone
  <2>2. Quiet(d)
    BY <1>16 DEF CloseSocket, files, ghosts, Quiet, OwnerPcs, Past, DaemonPcs, Binding, Listening, Ended
  <2> QED BY <2>1, <2>2
<1>17. CASE Exit(d)
  <2>0. PICK pc \in {"dropping", "retired"} : daemon' = [daemon EXCEPT ![d].pc = pc]
    BY <1>17 DEF Exit
  <2>3. Alone(d)
    BY <2>0, PcsKnown DEF Alone
  <2>1. Alone(d) /\ FilesTyped'
    BY <1>17, <2>3 DEF Exit, files, ghosts
  <2>2. Quiet(d)
    BY <1>17 DEF Exit, files, ghosts, Quiet, OwnerPcs, Past, DaemonPcs, Binding, Listening, Ended
  <2> QED BY <2>1, <2>2
<1>19. CASE DropDaemon(d)
  <2>1. Alone(d) /\ FilesTyped'
    BY <1>19, PcsKnown DEF DropDaemon, ghosts, Alone
  <2>2. Drops(d)
    BY <1>19 DEF DropDaemon, ghosts, Drops
  <2> QED BY <2>1, <2>2
<1>18. CASE Crash(d)
  <2>1. Alone(d) /\ FilesTyped'
    <3>1. daemon' = [daemon EXCEPT ![d].pc = "killed", ![d].probed = None] /\ UNCHANGED <<files, ghosts>>
      BY <1>18 DEF Crash
    <3>2. Alone(d)
      BY <3>1, PcsKnown DEF Alone
    <3> QED BY <3>1, <3>2 DEF files, ghosts
  <2>3. /\ daemon'[d].pc = "killed" /\ daemon'[d].probed = None
        /\ UNCHANGED <<entry, lease, displaced>>
    BY <1>18 DEF Crash, files, ghosts
  <2>2. Quiet(d)
    BY <2>3 DEF Quiet, OwnerPcs, Past, Ended
  <2> QED BY <2>1, <2>2
<1> QED BY <1>1, <1>2, <1>3, <1>4, <1>5, <1>6, <1>7, <1>8, <1>9, <1>10, <1>11, <1>12, <1>13,
           <1>14, <1>15, <1>16, <1>17, <1>18, <1>19 DEF Moves, Binds, Lives

\* Every step of a daemon leaves an ended one as it is, and drops a `Daemon` only
\* where one was built.
Finishing(d) ==
  /\ \A e \in Daemon : daemon[e].pc = "retired" => daemon'[e] = daemon[e]
  /\ daemon'[d].pc = "dropping" => daemon'[d].built
  /\ daemon[d].pc = "dropping" => daemon'[d].built = daemon[d].built

LEMMA FinishStep ==
  ASSUME Typed, NEW d \in Daemon, Moves(d)
  PROVE  Finishing(d)
<1> USE DEF Typed, DaemonsTyped, DaemonState
<1>0. Alone(d)
  BY DaemonStep
<1> SUFFICES /\ daemon[d].pc # "retired" \/ daemon' = daemon
             /\ daemon'[d].pc = "dropping" => daemon'[d].built
             /\ daemon[d].pc = "dropping" => daemon'[d].built = daemon[d].built
  BY <1>0 DEF Finishing, Alone
<1>1. CASE BindUnix(d) \/ SocketIdentity(d) \/ CheckIdentity(d) \/ Rebind(d) \/ Listen(d)
  BY <1>1 DEF BindUnix, SocketIdentity, CheckIdentity, Rebind, Listen
<1>2. CASE ProbeStale(d) \/ UnlinkStale(d)
  BY <1>2 DEF ProbeStale, UnlinkStale
<1>3. CASE ConfirmDial(d) \/ Confirm(d)
  BY <1>3 DEF ConfirmDial, Confirm
<1>4. CASE StartByHand(d) \/ WriteLease(d) \/ OpenFails(d) \/ Stop(d) \/ RemoveLease(d)
  BY <1>4 DEF StartByHand, WriteLease, OpenFails, Stop, RemoveLease
<1>5. CASE DropListener(d) \/ CloseSocket(d) \/ Exit(d) \/ DropDaemon(d)
  BY <1>5 DEF DropListener, CloseSocket, Exit, DropDaemon
<1>6. CASE Crash(d)
  BY <1>6 DEF Crash, Alive, Ended
<1> QED BY <1>1, <1>2, <1>3, <1>4, <1>5, <1>6 DEF Moves, Binds, Lives

\* A spawned daemon is like one that moved without touching a file.
LEMMA SpawnStep ==
  ASSUME Typed, NEW c \in Client, Spawn(c)
  PROVE  FilesTyped' /\ \E d \in Daemon : Alone(d) /\ Quiet(d) /\ Finishing(d)
<1>1. PICK d \in Daemon : /\ daemon[d].pc = "unborn"
                          /\ daemon' = [daemon EXCEPT ![d].pc = "starting"]
  BY DEF Spawn
<1>2. Alone(d)
  BY <1>1 DEF Alone, Typed, DaemonsTyped, DaemonState, DaemonPcs, Binding
<1>3. Quiet(d)
  BY <1>1 DEF Spawn, files, ghosts, Quiet, Typed, DaemonsTyped, DaemonState, OwnerPcs, Past, Ended
<1>4. Finishing(d)
  BY <1>1 DEF Finishing, Typed, DaemonsTyped, DaemonState
<1> QED BY <1>2, <1>3, <1>4 DEF Spawn, files, ghosts, Typed, FilesTyped

-----------------------------------------------------------------------------
(* The invariant is kept.                                                  *)

\* What every step of a daemon does, and what a client does by Spawn.
Steps(d) ==
  /\ Alone(d) /\ Finishing(d)
  /\ \/ Names(d) \/ Samples(d) \/ Refused(d) \/ Unlinks(d)
     \/ Serving(d) \/ Drops(d) \/ Unnames(d) \/ Quiet(d)

\* Who has bound once, has bound for good.
LEMMA KnownStep ==
  ASSUME Typed, Known, NEW d \in Daemon, Steps(d)
  PROVE  Known'
<1> USE DEF Typed, FilesTyped, DaemonsTyped, DaemonState
<1>1. /\ \/ entry' \in {None, entry}
         \/ entry' = d /\ daemon'[d].pc = "unheard"
      /\ daemon'[d].probed \in {None, entry, daemon[d].probed}
      /\ daemon[d].pc \in OwnerPcs \cup Past => daemon'[d].pc \in OwnerPcs \cup Past
  BY DEF Steps, Names, Samples, Refused, Unlinks, Serving, Drops, Unnames, Quiet, OwnerPcs, Past, Ended
<1>2. \A e \in Daemon : daemon'[e].pc = "dropping" => daemon'[e].built
  BY DEF Steps, Alone, Finishing, Known
<1> QED BY <1>1, <1>2 DEF Steps, Alone, Known, OwnerPcs

\* An earlier daemon that was dropped stays dropped.
LEMMA FollowedStays ==
  ASSUME NEW d \in Daemon, Steps(d), NEW e \in Daemon, Followed(e)
  PROVE  Followed(e)'
BY DEF Steps, Finishing, Followed

\* No step takes a live daemon's name or lease: what bind_unix unlinks is dead, and
\* where it is not, the step is one of the two windows.
LEMMA NamedStep ==
  ASSUME Typed, Known, Named, NEW d \in Daemon, Steps(d)
  PROVE  Named'
<1> SUFFICES ASSUME ~displaced', NEW e \in Daemon
             PROVE  /\ daemon'[e].pc \in OwnerPcs => entry' = e
                    /\ daemon'[e].pc \in {"check", "unlink"} /\ daemon'[e].probed # None =>
                         daemon'[daemon'[e].probed].pc \in Past
                    /\ daemon'[e].pc \in {"serving", "retiring"} =>
                         lease' = e \/ (lease' = None /\ Followed(e)')
  BY DEF Named
<1> USE DEF Typed, FilesTyped, DaemonsTyped, DaemonState, Steps, Alone
<1>1. ~displaced
  BY DEF Names, Samples, Refused, Unlinks, Serving, Drops, Unnames, Quiet
<1>2. daemon'[e].pc \in OwnerPcs => entry' = e
  <2>1. CASE Unlinks(d)
    <3>1. entry # None => daemon[entry].pc \notin OwnerPcs
      <4>0. ~(entry \notin {None, daemon[d].probed} /\ Alive(entry))
        BY <2>1 DEF Unlinks
      <4>1. entry \in {None, daemon[d].probed} \/ ~Alive(entry)
        BY <4>0
      <4>2. CASE entry # None /\ entry = daemon[d].probed
        BY <1>1, <2>1, <4>2 DEF Unlinks, Named, Past, OwnerPcs, Ended
      <4>3. CASE entry # None /\ ~Alive(entry)
        BY <4>3 DEF Alive, OwnerPcs, Ended
      <4> QED BY <4>1, <4>2, <4>3
    <3> QED BY <1>1, <2>1, <3>1 DEF Unlinks, Named, OwnerPcs
  <2>2. CASE Names(d) \/ Unnames(d)
    BY <1>1, <2>2, EndpointAssumption DEF Names, Unnames, Named, OwnerPcs
  <2>3. CASE Samples(d) \/ Refused(d) \/ Serving(d) \/ Drops(d) \/ Quiet(d)
    BY <1>1, <2>3 DEF Samples, Refused, Serving, Drops, Quiet, Named, OwnerPcs
  <2> QED BY <2>1, <2>2, <2>3
<1>3. ASSUME daemon'[e].pc \in {"check", "unlink"}, daemon'[e].probed # None
      PROVE  daemon'[daemon'[e].probed].pc \in Past
  <2>1. \A x \in Daemon : daemon[x].pc \in Past => daemon'[x].pc \in Past
    BY DEF Names, Samples, Refused, Unlinks, Serving, Drops, Unnames, Quiet, Past, Ended
  <2>2. CASE Refused(d) /\ e = d
    <3>1. daemon[entry].pc \in Past
      BY <1>1, <2>2 DEF Refused, Known, OwnerPcs, Past, Listening
    <3>2. daemon[daemon[d].probed].pc \in Past
      BY <1>1, <1>3, <2>2, <3>1 DEF Refused, Known, Named, OwnerPcs, Past, Ended
    <3> QED BY <2>1, <2>2, <3>2, <1>3 DEF Refused
  <2>3. \/ daemon[e].pc \in {"check", "unlink"} /\ daemon'[e].probed = daemon[e].probed
        \/ Refused(d) /\ e = d
    BY <1>3 DEF Names, Samples, Unlinks, Serving, Drops, Unnames, Quiet
  <2> QED BY <1>1, <1>3, <2>1, <2>2, <2>3 DEF Named
<1>4. ASSUME daemon'[e].pc \in {"serving", "retiring"}
      PROVE  lease' = e \/ (lease' = None /\ Followed(e)')
  <2>1. CASE Serving(d)
    BY <1>1, <1>4, <2>1, FollowedStays DEF Serving, Named, OwnerPcs
  <2>2. CASE Drops(d)
    <3>1. e # d /\ daemon'[d].pc = "retired" /\ daemon'[d].built
      BY <1>4, <2>2 DEF Drops, Finishing, Known
    <3> QED BY <2>2, <3>1 DEF Drops, Followed
  <2>3. CASE ~Serving(d) /\ ~Drops(d)
    <3>1. lease' = lease /\ daemon[e].pc \in {"serving", "retiring"}
      BY <1>4, <2>3 DEF Names, Samples, Refused, Unlinks, Unnames, Quiet
    <3> QED BY <1>1, <3>1, FollowedStays DEF Named
  <2> QED BY <2>1, <2>2, <2>3
<1> QED BY <1>2, <1>3, <1>4

-----------------------------------------------------------------------------
(* Clients and connections.                                                *)

\* The connections at d that stand at one of `stages` are broken, those of `up`
\* given up.
Breaks(new, d, stages, up) ==
  /\ new \in [Daemon \cup Client -> DialState]
  /\ \A x \in Daemon \cup Client :
       \/ x \in up /\ new[x] = NoDial
       \/ /\ x \notin up
          /\ IF dial[x].server = d /\ dial[x].stage \in stages
             THEN new[x] = [stage |-> "dropped", server |-> d]
             ELSE new[x] = dial[x]

\* What Broken does.
LEMMA BrokenEffect ==
  ASSUME Typed, NEW d \in Daemon, NEW stages, "none" \notin stages
  PROVE  Breaks(Broken(d, stages), d, stages, {})
<1> USE DEF Typed, DialsTyped, DialState, Stages
<1>1. ASSUME NEW x \in Daemon \cup Client
      PROVE  /\ [dial[x] EXCEPT !.stage = "dropped"] = [stage |-> "dropped", server |-> dial[x].server]
             /\ [stage |-> "dropped", server |-> dial[x].server] \in DialState
             /\ dial[x] \in DialState
  OBVIOUS
<1> HIDE DEF DialState
<1>2. Broken(d, stages) = [x \in Daemon \cup Client |->
                             IF dial[x].server = d /\ dial[x].stage \in stages
                             THEN [stage |-> "dropped", server |-> d] ELSE dial[x]]
  BY <1>1 DEF Broken
<1> HIDE DEF Typed, DialsTyped, Stages
<1>3. \A x \in Daemon \cup Client :
        Broken(d, stages)[x] = IF dial[x].server = d /\ dial[x].stage \in stages
                               THEN [stage |-> "dropped", server |-> d] ELSE dial[x]
  BY <1>2
<1>4. Broken(d, stages) \in [Daemon \cup Client -> DialState]
  BY <1>1, <1>2
<1> QED BY <1>3, <1>4 DEF Breaks

\* A daemon that goes on still serves what it has served.
Onward(d) ==
  /\ daemon[d].pc \in Listening => daemon'[d].pc \in Listening
  /\ daemon[d].pc \in Serves => daemon'[d].pc \in Serves
  /\ daemon[d].pc \in Gone => daemon'[d].pc \in Gone

\* Connections nobody touches stay served.
LEMMA OnwardKeeps ==
  ASSUME Typed, Dialled, \A e \in Daemon : Onward(e), UNCHANGED dial
  PROVE  DialsTyped' /\ Dialled'
<1>1. DialsTyped'
  BY DEF Typed, DialsTyped
<1>2. ASSUME NEW x \in Daemon \cup Client, dial[x].stage # "none"
      PROVE  dial[x].server \in Daemon
  BY <1>2 DEF Typed, DialsTyped, DialState
<1> QED BY <1>1, <1>2 DEF Dialled, Onward

\* Breaking what a daemon no longer serves.
LEMMA BrokenKeeps ==
  ASSUME Typed, Dialled, NEW d \in Daemon, Alone(d), NEW stages, NEW up,
         stages \subseteq Pending, Breaks(dial', d, stages, up),
         "backlog" \in stages \/ daemon'[d].pc \in Listening \/ daemon[d].pc \notin Listening,
         {"accepted", "vetted"} \subseteq stages \/ daemon'[d].pc \in Serves,
         daemon'[d].pc \in Serves \cup Gone
  PROVE  DialsTyped' /\ Dialled'
<1>1. DialsTyped'
  BY EndpointAssumption DEF Breaks, NoDial, Typed, DialsTyped, Pending
<1>2. ASSUME NEW x \in Daemon \cup Client, dial[x].stage # "none"
      PROVE  dial[x].server \in Daemon
  BY <1>2 DEF Typed, DialsTyped, DialState
<1>3. ASSUME NEW x \in Daemon \cup Client
      PROVE  /\ dial'[x].stage = "backlog" => daemon'[dial'[x].server].pc \in Listening
             /\ dial'[x].stage \in {"accepted", "vetted"} => daemon'[dial'[x].server].pc \in Serves
             /\ dial'[x].stage = "answered" => daemon'[dial'[x].server].pc \in Serves \cup Gone
  <2>1. CASE dial[x].server = d /\ dial[x].stage \in stages
    BY <2>1 DEF Breaks, NoDial
  <2>2. CASE dial[x].server # d /\ dial[x].stage # "none"
    BY <1>2, <2>2 DEF Breaks, NoDial, Dialled, Alone
  <2>3. CASE dial[x].server = d /\ dial[x].stage \notin stages
    BY <2>3 DEF Breaks, NoDial, Dialled
  <2>4. CASE dial[x].stage = "none"
    BY <2>4 DEF Breaks, NoDial, Pending
  <2> QED BY <2>1, <2>2, <2>3, <2>4
<1> QED BY <1>1, <1>3 DEF Dialled

\* One connection goes on, at a daemon that lets it.
LEMMA DialKeeps ==
  ASSUME Typed, Dialled, \A e \in Daemon : Onward(e),
         NEW x \in Daemon \cup Client, NEW r \in DialState, dial' = [dial EXCEPT ![x] = r],
         r.stage = "none" <=> r.server = None,
         r.stage = "backlog" => daemon'[r.server].pc \in Listening,
         r.stage \in {"accepted", "vetted"} => daemon'[r.server].pc \in Serves,
         r.stage = "answered" => daemon'[r.server].pc \in Serves \cup Gone
  PROVE  DialsTyped' /\ Dialled'
<1>1. DialsTyped'
  BY DEF Typed, DialsTyped
<1>2. ASSUME NEW y \in Daemon \cup Client, dial[y].stage # "none"
      PROVE  dial[y].server \in Daemon
  BY <1>2 DEF Typed, DialsTyped, DialState
<1>3. dial'[x] = r /\ \A y \in Daemon \cup Client : y # x => dial'[y] = dial[y]
  BY DEF Typed, DialsTyped
<1> QED BY <1>1, <1>2, <1>3 DEF Dialled, Onward

\* One connection is given up.
LEMMA HangUpKeeps ==
  ASSUME Typed, Dialled, \A e \in Daemon : Onward(e),
         NEW x \in Daemon \cup Client, dial' = [dial EXCEPT ![x] = NoDial]
  PROVE  DialsTyped' /\ Dialled'
<1>1. NoDial \in DialState
  BY DEF NoDial, DialState, Stages
<1> QED BY <1>1, DialKeeps DEF NoDial

\* A connect goes into the backlog of a daemon that listens (Client::connect).
LEMMA ConnectKeeps ==
  ASSUME Typed, Dialled, \A e \in Daemon : Onward(e),
         NEW x \in Daemon \cup Client, Connect(x), UNCHANGED daemon
  PROVE  DialsTyped' /\ Dialled'
<1>1. [stage |-> "backlog", server |-> entry] \in DialState
  BY DEF Typed, FilesTyped, DialState, Stages, Pending
<1> QED BY <1>1, DialKeeps DEF Connect, Answering

\* A daemon accepts, vets and answers only while it serves (serve_io).
LEMMA ConnectionKeeps ==
  ASSUME Typed, Dialled, NEW x \in Daemon \cup Client, Connection(x)
  PROVE  DialsTyped' /\ Dialled'
<1> DEFINE At(stage) == [stage |-> stage, server |-> dial[x].server]
<1>1. \A e \in Daemon : Onward(e)
  BY DEF Connection, Accept, Vet, Answer, Onward
<1>2. dial[x] \in DialState /\ (dial[x].server = None <=> dial[x].stage = "none")
  BY DEF Typed, DialsTyped
<1>3. ASSUME NEW stage \in Stages
      PROVE  [dial EXCEPT ![x].stage = stage] = [dial EXCEPT ![x] = At(stage)] /\ At(stage) \in DialState
  <2>1. [dial[x] EXCEPT !.stage = stage] = At(stage) /\ At(stage) \in DialState
    BY <1>2, <1>3 DEF DialState
  <2>2. [dial EXCEPT ![x].stage = stage] = [dial EXCEPT ![x] = [dial[x] EXCEPT !.stage = stage]]
    OBVIOUS
  <2> QED BY <2>1, <2>2
<1>4. CASE Accept(x)
  <2>1. dial' = [dial EXCEPT ![x] = At("accepted")]
    BY <1>3, <1>4 DEF Accept, Stages, Pending
  <2> QED BY <1>1, <1>2, <1>3, <1>4, <2>1, DialKeeps DEF Accept, Serves, Stages, Pending
<1>5. CASE Vet(x)
  <2>1. PICK stage \in {"vetted", "refused"} : dial' = [dial EXCEPT ![x].stage = stage]
    BY <1>5 DEF Vet
  <2>2. dial' = [dial EXCEPT ![x] = At(stage)] /\ At(stage) \in DialState
    BY <1>3, <2>1 DEF Stages, Pending
  <2>3. daemon'[dial[x].server].pc \in Serves
    BY <1>5 DEF Vet, Dialled
  <2> QED BY <1>1, <1>2, <1>5, <2>1, <2>2, <2>3, DialKeeps DEF Vet
<1>6. CASE Answer(x)
  <2>1. dial' = [dial EXCEPT ![x] = At("answered")] /\ At("answered") \in DialState
    BY <1>3, <1>6 DEF Answer, Stages
  <2>2. daemon'[dial[x].server].pc \in Serves
    BY <1>6 DEF Answer, Dialled
  <2> QED BY <1>1, <1>2, <1>6, <2>1, <2>2, DialKeeps DEF Answer
<1> QED BY <1>4, <1>5, <1>6 DEF Connection

\* A daemon that goes breaks the connections it leaves (Listener::drop, the runtime).
LEMMA DaemonDials ==
  ASSUME Typed, Dialled, NEW d \in Daemon, Moves(d)
  PROVE  DialsTyped' /\ Dialled'
<1>1. Alone(d)
  BY DaemonStep
<1>2. ASSUME Onward(d)
      PROVE  \A e \in Daemon : Onward(e)
  BY <1>1, <1>2 DEF Alone, Onward
<1>3. ASSUME Onward(d), UNCHANGED dial
      PROVE  DialsTyped' /\ Dialled'
  BY <1>2, <1>3, OnwardKeeps
<1> USE DEF Typed, DaemonsTyped, DaemonState
<1>4. CASE BindUnix(d)
  <2>1. daemon[d].pc = "starting" /\ UNCHANGED dial
    BY <1>4 DEF BindUnix
  <2>2. Onward(d)
    BY <2>1 DEF Onward, Listening, Serves, Gone, Ended
  <2> QED BY <1>3, <2>1, <2>2
<1>5. CASE SocketIdentity(d)
  BY <1>3, <1>5 DEF SocketIdentity, Onward, Listening, Serves, Gone, Ended
<1>6. CASE ProbeStale(d)
  <2>1. daemon[d].pc = "probe" /\ UNCHANGED dial
    BY <1>6 DEF ProbeStale
  <2>2. Onward(d)
    BY <2>1 DEF Onward, Listening, Serves, Gone, Ended
  <2> QED BY <1>3, <2>1, <2>2
<1>7. CASE CheckIdentity(d)
  BY <1>3, <1>7 DEF CheckIdentity, Onward, Listening, Serves, Gone, Ended
<1>8. CASE UnlinkStale(d)
  BY <1>3, <1>8 DEF UnlinkStale, Onward, Listening, Serves, Gone, Ended
<1>9. CASE Rebind(d)
  <2>1. daemon[d].pc = "rebind" /\ UNCHANGED dial
    BY <1>9 DEF Rebind
  <2>2. Onward(d)
    BY <2>1 DEF Onward, Listening, Serves, Gone, Ended
  <2> QED BY <1>3, <2>1, <2>2
<1>10. CASE Listen(d)
  BY <1>3, <1>10 DEF Listen, Onward, Listening, Serves, Gone, Ended
<1>11. CASE StartByHand(d)
  BY <1>3, <1>11 DEF StartByHand, Onward, Listening, Serves, Gone, Ended
<1>12. CASE WriteLease(d)
  BY <1>3, <1>12 DEF WriteLease, Onward, Listening, Serves, Gone, Ended
<1>13. CASE OpenFails(d)
  BY <1>3, <1>13 DEF OpenFails, Onward, Listening, Serves, Gone, Ended
<1>14. CASE Stop(d)
  BY <1>3, <1>14 DEF Stop, Onward, Listening, Serves, Gone, Ended
<1>15. CASE RemoveLease(d)
  BY <1>3, <1>15 DEF RemoveLease, Onward, Listening, Serves, Gone, Ended
<1>16. CASE DropListener(d)
  BY <1>3, <1>16 DEF DropListener, Onward, Listening, Serves, Gone, Ended
<1>22. CASE DropDaemon(d)
  BY <1>3, <1>22 DEF DropDaemon, Onward, Listening, Serves, Gone, Ended
<1>17. CASE ConfirmDial(d)
  <2>1. Onward(d)
    BY <1>17 DEF ConfirmDial, Onward, Listening, Serves, Gone, Ended
  <2>2. CASE UNCHANGED dial
    BY <1>3, <2>1, <2>2
  <2>3. CASE Connect(d) /\ UNCHANGED daemon
    BY <1>2, <2>1, <2>3, ConnectKeeps
  <2> QED BY <1>17, <2>2, <2>3 DEF ConfirmDial
<1>18. CASE Confirm(d)
  <2>1. Onward(d)
    BY <1>18 DEF Confirm, Onward, Listening, Serves, Gone, Ended
  <2> QED BY <1>2, <1>18, <2>1, HangUpKeeps DEF Confirm
<1>19. CASE CloseSocket(d)
  <2>1. Breaks(dial', d, {"backlog"}, {})
    BY <1>19, BrokenEffect DEF CloseSocket
  <2>2. daemon'[d].pc \in Serves
    BY <1>19 DEF CloseSocket, Serves
  <2> QED BY <1>1, <2>1, <2>2, BrokenKeeps DEF Pending
<1>20. CASE Exit(d)
  <2>1. Breaks(dial', d, {"accepted", "vetted"}, {})
    BY <1>20, BrokenEffect DEF Exit
  <2>2. daemon'[d].pc \in Gone /\ daemon[d].pc \notin Listening
    BY <1>20 DEF Exit, Gone, Ended, Listening, Typed, DaemonsTyped, DaemonState
  <2> QED BY <1>1, <2>1, <2>2, BrokenKeeps DEF Pending, Serves, Gone, Ended
<1>21. CASE Crash(d)
  <2>1. Breaks(Broken(d, Pending), d, Pending, {})
    BY BrokenEffect DEF Pending
  <2>2. NoDial \in DialState
    BY DEF NoDial, DialState, Stages
  <2>3. Breaks(dial', d, Pending, {d})
    BY <1>21, <2>1, <2>2 DEF Crash, Breaks
  <2>4. daemon'[d].pc \in Ended
    BY <1>21 DEF Crash, Ended
  <2> QED BY <1>1, <2>3, <2>4, BrokenKeeps DEF Pending, Gone
<1> QED BY <1>4, <1>5, <1>6, <1>7, <1>8, <1>9, <1>10, <1>11, <1>12, <1>13, <1>14, <1>15, <1>16, <1>17, <1>18, <1>19, <1>20, <1>21,
           <1>22 DEF Moves, Binds, Lives

\* What a client's step does to its connection, and to no daemon but for Spawn.
LEMMA ClientDials ==
  ASSUME Typed, Dialled, NEW c \in Client, EnsureDaemon(c)
  PROVE  DialsTyped' /\ Dialled'
<1>1. CASE Spawn(c)
  <2>1. PICK d \in Daemon : daemon[d].pc = "unborn" /\ daemon' = [daemon EXCEPT ![d].pc = "starting"]
    BY <1>1 DEF Spawn
  <2>2. \A e \in Daemon : Onward(e)
    BY <2>1 DEF Onward, Typed, DaemonsTyped, Listening, Serves, Gone, Ended
  <2> QED BY <1>1, <2>2, OnwardKeeps DEF Spawn
<1>2. CASE UNCHANGED daemon
  <2>1. \A e \in Daemon : Onward(e)
    BY <1>2 DEF Onward
  <2>2. CASE UNCHANGED dial
    BY <2>1, <2>2, OnwardKeeps
  <2>3. CASE dial' = [dial EXCEPT ![c] = NoDial]
    BY <2>1, <2>3, HangUpKeeps
  <2>4. CASE Connect(c)
    BY <1>2, <2>1, <2>4, ConnectKeeps
  <2>5. \/ UNCHANGED dial
        \/ dial' = [dial EXCEPT ![c] = NoDial]
        \/ Connect(c)
        \/ Spawn(c)
    BY DEF EnsureDaemon, Begin, ProbeConnects, ProbeFindsNobody, MayNotSpawn, ProbeFails, TakeLock,
           LockTimeout, SpawnFails, NeverReady, Settle, Leave, Fails
  <2> QED BY <1>1, <2>2, <2>3, <2>4, <2>5
<1>3. UNCHANGED daemon \/ Spawn(c)
  BY DEF EnsureDaemon, Begin, ProbeConnects, ProbeFindsNobody, MayNotSpawn, ProbeFails, TakeLock,
         LockTimeout, SpawnFails, NeverReady, Settle, Leave
<1> QED BY <1>1, <1>2, <1>3

\* The client c becomes r.
Becomes(c, r) == client' = [client EXCEPT ![c] = r]

\* The lock is left alone, taken by c or released by c, and c has it then if r does.
Locking(c, r) ==
  /\ lock' = lock \/ (lock = None /\ lock' = c) \/ (lock = c /\ lock' = None)
  /\ (lock' = c) <=> r.pc \in LockPcs

\* One client moves, and takes, keeps or releases the lock as it does.
LEMMA ClientTo ==
  ASSUME Typed, NEW c \in Client, NEW r \in ClientState, Becomes(c, r),
         Locking(c, r)
  PROVE  ClientsTyped'
<1>1. /\ client' \in [Client -> ClientState] /\ client'[c] = r
      /\ \A b \in Client : b # c => client'[b] = client[b]
  BY DEF Typed, ClientsTyped, Becomes
<1>2. lock' \in Client \cup {None}
  BY DEF Typed, ClientsTyped, Locking
<1>3. ASSUME NEW b \in Client, b # c
      PROVE  (lock' = b) <=> (lock = b)
  BY <1>3, EndpointAssumption DEF Locking
<1>4. ASSUME NEW b \in Client
      PROVE  (lock' = b) <=> client'[b].pc \in LockPcs
  <2>1. CASE b = c
    BY <1>1, <2>1 DEF Locking
  <2>2. CASE b # c
    BY <1>1, <1>3, <2>2 DEF Typed, ClientsTyped
  <2> QED BY <2>1, <2>2
<1> QED BY <1>1, <1>2, <1>4 DEF ClientsTyped

\* A client that returns gives the lock back if it has it.
LEMMA ReturnTo ==
  ASSUME Typed, NEW c \in Client, NEW r \in ClientState, Becomes(c, r),
         r.pc \notin LockPcs, lock' = Unlocked(c)
  PROVE  ClientsTyped'
<1>1. Locking(c, r)
  BY EndpointAssumption DEF Unlocked, Locking
<1> QED BY <1>1, ClientTo

\* The lock is held from its acquisition to the client's return (ensure_daemon).
LEMMA ClientStep ==
  ASSUME Typed, NEW c \in Client, EnsureDaemon(c)
  PROVE  ClientsTyped' /\ FilesTyped' /\ DaemonsTyped'
<1>1. FilesTyped' /\ DaemonsTyped'
  <2> USE DEF Typed
  <2>1. CASE Spawn(c)
    BY <2>1, SpawnStep DEF Alone, DaemonsTyped
  <2>2. CASE NeverReady(c) \/ Leave(c)
    BY <2>2 DEF NeverReady, Leave, files, FilesTyped, DaemonsTyped
  <2>3. CASE UNCHANGED <<files, daemon, ghosts>>
    BY <2>3 DEF files, ghosts, FilesTyped, DaemonsTyped
  <2> QED BY <2>1, <2>2, <2>3 DEF EnsureDaemon, Begin, ProbeConnects, ProbeFindsNobody, MayNotSpawn,
        ProbeFails, TakeLock, LockTimeout, SpawnFails, Settle
<1> SUFFICES ClientsTyped'
  BY <1>1
<1>2. client[c] \in ClientState /\ lock \in Client \cup {None} /\ (lock = c <=> client[c].pc \in LockPcs)
  BY DEF Typed, ClientsTyped
<1> DEFINE At(pc) == [client[c] EXCEPT !.pc = pc]
<1>3. ASSUME NEW pc \in ClientPcs
      PROVE  At(pc) \in ClientState /\ At(pc).pc = pc
                /\ [client EXCEPT ![c].pc = pc] = [client EXCEPT ![c] = At(pc)]
  BY <1>2, <1>3 DEF ClientState
<1> HIDE DEF At
<1>4. CASE Becomes(c, NoCall) /\ lock' = Unlocked(c)
  <2>1. NoCall \in ClientState /\ NoCall.pc \notin LockPcs
    BY DEF NoCall, ClientState, ClientPcs, LockPcs
  <2> QED BY <1>4, <2>1, ReturnTo
<1>5. CASE Begin(c)
  <2>1. [NoCall EXCEPT !.pc = "first"] \in ClientState /\ [NoCall EXCEPT !.pc = "first"].pc = "first"
    BY DEF NoCall, ClientState, ClientPcs, Probing
  <2>2. lock' = lock /\ lock # c
    BY <1>2, <1>5 DEF Begin, LockPcs
  <2>3. Becomes(c, [NoCall EXCEPT !.pc = "first"])
    BY <1>5 DEF Begin, Becomes
  <2>4. Locking(c, [NoCall EXCEPT !.pc = "first"])
    BY <2>1, <2>2 DEF Locking, LockPcs
  <2> QED BY <2>1, <2>3, <2>4, ClientTo
<1>6. CASE ProbeConnects(c)
  BY <1>6 DEF ProbeConnects, Typed, ClientsTyped
<1>7. CASE ProbeFindsNobody(c)
  <2>1. CASE client[c].pc = "first"
    <3>1. Becomes(c, At("locking")) /\ At("locking") \in ClientState
            /\ At("locking").pc = "locking"
      BY <1>3, <1>7, <2>1 DEF ProbeFindsNobody, ClientPcs, Becomes
    <3>2. Locking(c, At("locking"))
      BY <1>2, <1>7, <2>1, <3>1 DEF ProbeFindsNobody, LockPcs, Locking
    <3> QED BY <3>1, <3>2, ClientTo
  <2>2. CASE client[c].pc = "second"
    <3>1. Becomes(c, At("spawning")) /\ At("spawning") \in ClientState
            /\ At("spawning").pc = "spawning"
      BY <1>3, <1>7, <2>2 DEF ProbeFindsNobody, ClientPcs, Becomes
    <3>2. Locking(c, At("spawning"))
      BY <1>2, <1>7, <2>2, <3>1 DEF ProbeFindsNobody, LockPcs, Locking
    <3> QED BY <3>1, <3>2, ClientTo
  <2> QED BY <1>7, <2>1, <2>2 DEF ProbeFindsNobody
<1>8. CASE TakeLock(c)
  <2>1. Becomes(c, At("second")) /\ At("second") \in ClientState
          /\ At("second").pc = "second"
    BY <1>3, <1>8 DEF TakeLock, ClientPcs, Probing, Becomes
  <2>2. Locking(c, At("second"))
    BY <1>8, <2>1 DEF TakeLock, LockPcs, Locking
  <2> QED BY <2>1, <2>2, ClientTo
<1>9. CASE Spawn(c)
  <2> DEFINE Started(d) == [client[c] EXCEPT !.pc = "waiting", !.started = d]
  <2>1. PICK d \in Daemon : Becomes(c, Started(d))
    BY <1>9 DEF Spawn, Becomes
  <2>2. Started(d) \in ClientState /\ Started(d).pc = "waiting"
    BY <1>2 DEF ClientState, ClientPcs, Probing
  <2> HIDE DEF Started
  <2>3. Locking(c, Started(d))
    BY <1>2, <1>9, <2>2 DEF Spawn, LockPcs, Locking
  <2> QED BY <2>1, <2>2, <2>3, ClientTo
<1>10. CASE Settle(c)
  <2> DEFINE Settled == [pc |-> "connected", started |-> None, record |-> lease]
  <2>1. Settled \in ClientState /\ Settled.pc \notin LockPcs
    BY DEF ClientState, ClientPcs, LockPcs, Typed, FilesTyped
  <2>2. Becomes(c, Settled) /\ lock' = Unlocked(c)
    BY <1>10 DEF Settle, Becomes
  <2> HIDE DEF Settled
  <2> QED BY <2>1, <2>2, ReturnTo
<1>11. CASE MayNotSpawn(c) \/ ProbeFails(c) \/ LockTimeout(c) \/ SpawnFails(c) \/ NeverReady(c) \/ Leave(c)
  <2>1. client' = [client EXCEPT ![c] = NoCall] /\ lock' = Unlocked(c)
    BY <1>11 DEF MayNotSpawn, ProbeFails, LockTimeout, SpawnFails, NeverReady, Leave, Fails
  <2> QED BY <1>4, <2>1 DEF Becomes
<1> QED BY <1>5, <1>6, <1>7, <1>8, <1>9, <1>10, <1>11 DEF EnsureDaemon

-----------------------------------------------------------------------------
(* A client that doubts has no reason to.                                  *)

\* A daemon that no longer serves does not begin again.
LEMMA NotAgain ==
  ASSUME Typed, NEW d \in Daemon, Moves(d), NEW e \in Daemon,
         daemon[e].pc \in Serves \cup Gone, daemon[e].pc # "serving"
  PROVE  daemon'[e].pc # "serving"
BY DaemonStep DEF Alone, Serves, Gone, Ended, Names, Samples, Refused, Unlinks, Serving, Drops, Unnames, Quiet

\* No daemon takes back an answer.
LEMMA AnswerStays ==
  ASSUME Typed, NEW d \in Daemon, Moves(d), NEW c \in Client, dial[c].stage = "answered"
  PROVE  dial'[c] = dial[c]
<1> USE EndpointAssumption DEF Typed, DialsTyped
<1>1. CASE CloseSocket(d)
  <2>1. Breaks(dial', d, {"backlog"}, {})
    BY <1>1, BrokenEffect DEF CloseSocket
  <2> QED BY <2>1 DEF Breaks
<1>2. CASE Exit(d)
  <2>1. Breaks(dial', d, {"accepted", "vetted"}, {})
    BY <1>2, BrokenEffect DEF Exit
  <2> QED BY <2>1 DEF Breaks
<1>3. CASE Crash(d)
  <2>1. Breaks(Broken(d, Pending), d, Pending, {})
    BY BrokenEffect DEF Pending
  <2> QED BY <1>3, <2>1 DEF Crash, Breaks, Pending
<1>4. CASE ConfirmDial(d) \/ Confirm(d)
  BY <1>4 DEF ConfirmDial, Confirm, Connect
<1>5. CASE BindUnix(d) \/ SocketIdentity(d) \/ ProbeStale(d) \/ CheckIdentity(d) \/ UnlinkStale(d)
           \/ Rebind(d) \/ Listen(d)
  BY <1>5 DEF BindUnix, SocketIdentity, ProbeStale, CheckIdentity, UnlinkStale, Rebind, Listen
<1>6. CASE StartByHand(d) \/ WriteLease(d) \/ OpenFails(d) \/ Stop(d) \/ RemoveLease(d) \/ DropListener(d)
           \/ DropDaemon(d)
  BY <1>6 DEF StartByHand, WriteLease, OpenFails, Stop, RemoveLease, DropListener, DropDaemon
<1> QED BY <1>1, <1>2, <1>3, <1>4, <1>5, <1>6 DEF Moves, Binds, Lives

\* No step of a daemon touches a client or the lock.
LEMMA ClientsApart ==
  ASSUME NEW d \in Daemon, Moves(d)
  PROVE  UNCHANGED <<client, lock>>
<1>1. CASE BindUnix(d) \/ SocketIdentity(d) \/ ProbeStale(d) \/ CheckIdentity(d) \/ UnlinkStale(d)
           \/ Rebind(d) \/ Listen(d) \/ ConfirmDial(d) \/ Confirm(d)
  BY <1>1 DEF BindUnix, SocketIdentity, ProbeStale, CheckIdentity, UnlinkStale, Rebind, Listen,
              ConfirmDial, Confirm
<1>2. CASE StartByHand(d) \/ WriteLease(d) \/ OpenFails(d) \/ Stop(d) \/ RemoveLease(d) \/ DropListener(d)
           \/ CloseSocket(d) \/ Exit(d) \/ DropDaemon(d) \/ Crash(d)
  BY <1>2 DEF StartByHand, WriteLease, OpenFails, Stop, RemoveLease, DropListener, CloseSocket, Exit, DropDaemon, Crash
<1> QED BY <1>1, <1>2 DEF Moves, Binds, Lives

\* What DoubtIsJustified says of one connected client.
Trusts(c) ==
  daemon[dial[c].server].pc = "serving" =>
    \/ client[c].record = dial[c].server
    \/ client[c].record = None /\ Followed(dial[c].server)

\* The doubt of a client stays justified while daemons come and go.
LEMMA DoubtDaemon ==
  ASSUME Typed, Dialled, Doubted, NEW d \in Daemon, Moves(d)
  PROVE  Doubted'
<1> SUFFICES ASSUME NEW c \in Client, client'[c].pc = "connected"
             PROVE  /\ dial'[c].stage = "answered"
                    /\ ~displaced' => Trusts(c)'
  BY DEF Doubted, DoubtIsJustified, Trusts
<1>1. UNCHANGED client
  BY ClientsApart
<1>2. dial[c].stage = "answered"
  BY <1>1 DEF Doubted
<1>3. dial'[c] = dial[c]
  BY <1>2, AnswerStays
<1>4. ~displaced' => ~displaced
  BY DaemonStep DEF Names, Samples, Refused, Unlinks, Serving, Drops, Unnames, Quiet, Typed, FilesTyped
<1>5. dial[c].server \in Daemon /\ daemon[dial[c].server].pc \in Serves \cup Gone
  BY <1>2 DEF Dialled, Typed, DialsTyped, DialState
<1>6. ASSUME ~displaced' PROVE Trusts(c)'
  <2> SUFFICES ASSUME daemon'[dial'[c].server].pc = "serving"
               PROVE  client[c].record = dial[c].server \/ (client[c].record = None /\ Followed(dial[c].server)')
    BY <1>1, <1>3 DEF Trusts, Followed
  <2>1. daemon[dial[c].server].pc = "serving"
    BY <1>3, <1>5, NotAgain
  <2>2. client[c].record = dial[c].server \/ (client[c].record = None /\ Followed(dial[c].server))
    BY <1>1, <1>4, <1>6, <2>1 DEF Doubted, DoubtIsJustified
  <2>3. Steps(d)
    BY DaemonStep, FinishStep DEF Steps
  <2>4. Followed(dial[c].server) => Followed(dial[c].server)'
    BY <1>5, <2>3 DEF Steps, Finishing, Followed
  <2> QED BY <2>2, <2>4
<1> QED BY <1>2, <1>3, <1>6

\* It concerns no connection that still waits.
LEMMA DoubtConnection ==
  ASSUME Typed, Doubted, NEW x \in Daemon \cup Client, Connection(x)
  PROVE  Doubted'
<1>1. UNCHANGED <<daemon, client, displaced>> /\ dial[x].stage \in Pending
  BY DEF Connection, Accept, Vet, Answer, ghosts, Pending
<1>2. \A c \in Client : c # x => dial'[c] = dial[c]
  BY DEF Connection, Accept, Vet, Answer, Typed, DialsTyped
<1>3. \A c \in Client : client[c].pc = "connected" => c # x
  BY <1>1 DEF Doubted, Pending
<1> QED BY <1>1, <1>2, <1>3 DEF Doubted, DoubtIsJustified, Followed

\* A client's step leaves the other clients alone, and only Settle connects it.
LEMMA ClientApart ==
  ASSUME Typed, NEW c \in Client, EnsureDaemon(c)
  PROVE  /\ \A b \in Client : b # c => client'[b] = client[b] /\ dial'[b] = dial[b]
         /\ client'[c].pc = "connected" => Settle(c)
<1> USE DEF Typed, ClientsTyped, DialsTyped
<1>1. \A b \in Client : b # c => client'[b] = client[b]
  BY DEF EnsureDaemon, Begin, ProbeConnects, ProbeFindsNobody, MayNotSpawn, ProbeFails, TakeLock,
         LockTimeout, Spawn, SpawnFails, NeverReady, Settle, Leave, Fails
<1>2. \A b \in Client : b # c => dial'[b] = dial[b]
  BY DEF EnsureDaemon, Begin, ProbeConnects, Connect, ProbeFindsNobody, MayNotSpawn, ProbeFails, TakeLock,
         LockTimeout, Spawn, SpawnFails, NeverReady, Settle, Leave, Fails
<1> USE DEF ClientState
<1>3. CASE MayNotSpawn(c) \/ ProbeFails(c) \/ LockTimeout(c) \/ SpawnFails(c) \/ NeverReady(c) \/ Leave(c)
  <2>1. client' = [client EXCEPT ![c] = NoCall]
    BY <1>3 DEF MayNotSpawn, ProbeFails, LockTimeout, SpawnFails, NeverReady, Leave, Fails
  <2> QED BY <1>1, <1>2, <2>1 DEF NoCall
<1>4. CASE Begin(c) \/ ProbeConnects(c) \/ TakeLock(c)
  BY <1>1, <1>2, <1>4 DEF Begin, ProbeConnects, TakeLock, NoCall, Probing
<1>5. CASE ProbeFindsNobody(c)
  <2>1. client'[c].pc \in {"locking", "spawning"}
    BY <1>5 DEF ProbeFindsNobody
  <2> QED BY <1>1, <1>2, <2>1
<1>6. CASE Spawn(c)
  <2>1. client'[c].pc = "waiting"
    BY <1>6 DEF Spawn
  <2> QED BY <1>1, <1>2, <2>1
<1>7. CASE Settle(c)
  BY <1>1, <1>2, <1>7
<1> QED BY <1>3, <1>4, <1>5, <1>6, <1>7 DEF EnsureDaemon

\* A client starts a daemon or leaves the daemons and the files alone.
LEMMA ClientLeaves ==
  ASSUME NEW c \in Client, EnsureDaemon(c)
  PROVE  Spawn(c) \/ UNCHANGED <<entry, lease, daemon, displaced>>
BY DEF EnsureDaemon, Begin, ProbeConnects, ProbeFindsNobody, MayNotSpawn, ProbeFails, TakeLock,
       LockTimeout, SpawnFails, NeverReady, Settle, Leave, files, ghosts

\* A client that settles reads the lease of the one that serves (settle).
LEMMA DoubtClient ==
  ASSUME Typed, Named, Dialled, Doubted, NEW c \in Client, EnsureDaemon(c)
  PROVE  Doubted'
<1> SUFFICES ASSUME NEW b \in Client, client'[b].pc = "connected"
             PROVE  /\ dial'[b].stage = "answered"
                    /\ ~displaced' => Trusts(b)'
  BY DEF Doubted, DoubtIsJustified, Trusts
<1>1. UNCHANGED displaced
  BY ClientLeaves DEF Spawn, ghosts
<1>2. \A e \in Daemon : /\ daemon'[e].pc = "serving" => daemon[e].pc = "serving"
                        /\ Followed(e) => Followed(e)'
  <2>1. CASE Spawn(c)
    BY <2>1, SpawnStep DEF Alone, Quiet, Finishing, Followed
  <2>2. CASE UNCHANGED daemon
    BY <2>2 DEF Followed
  <2> QED BY <2>1, <2>2, ClientLeaves
<1>3. CASE b # c
  <2>1. client'[b] = client[b] /\ dial'[b] = dial[b] /\ dial[b].stage = "answered"
    BY <1>3, ClientApart DEF Doubted
  <2>2. dial[b].server \in Daemon
    BY <2>1 DEF Typed, DialsTyped, DialState
  <2> QED BY <1>1, <1>2, <2>1, <2>2 DEF Doubted, DoubtIsJustified, Trusts
<1>4. CASE b = c
  <2>1. Settle(c)
    BY <1>4, ClientApart
  <2>2. dial'[c] = dial[c] /\ dial[c].stage = "answered"
    BY <2>1 DEF Settle
  <2>3. client'[c].record = lease
    BY <2>1 DEF Settle, Typed, ClientsTyped
  <2>4. dial[c].server \in Daemon
    BY <2>2 DEF Typed, DialsTyped, DialState
  <2> QED BY <1>1, <1>2, <1>4, <2>2, <2>3, <2>4 DEF Named, Trusts
<1> QED BY <1>3, <1>4

-----------------------------------------------------------------------------
(* The invariant, and what it says.                                        *)

\* Where the daemons and the files are left alone.
LEMMA Still ==
  ASSUME Known, Named, UNCHANGED <<entry, lease, daemon, displaced>>
  PROVE  Known' /\ Named'
BY DEF Known, Named, Followed

\* Every step keeps the invariant: of a daemon, a connection, a client, or of nobody.
LEMMA InvStep ==
  ASSUME EndpointInv, [Next]_vars
  PROVE  EndpointInv'
<1> USE DEF EndpointInv
<1>1. ASSUME NEW d \in Daemon, Moves(d)
      PROVE  EndpointInv'
  <2>1. Steps(d) /\ FilesTyped' /\ DaemonsTyped'
    BY <1>1, DaemonStep, FinishStep DEF Steps, Alone, DaemonsTyped
  <2>2. ClientsTyped'
    BY <1>1, ClientsApart DEF Typed, ClientsTyped
  <2>3. DialsTyped' /\ Dialled'
    BY <1>1, DaemonDials
  <2>4. Doubted'
    BY <1>1, DoubtDaemon
  <2>5. Known' /\ Named'
    BY <2>1, KnownStep, NamedStep
  <2> QED BY <2>1, <2>2, <2>3, <2>4, <2>5 DEF Typed
<1>2. ASSUME NEW x \in Daemon \cup Client, Connection(x)
      PROVE  EndpointInv'
  <2>1. UNCHANGED <<entry, lease, lock, daemon, client, unordered, displaced>>
    BY <1>2 DEF Connection, Accept, Vet, Answer, files, ghosts
  <2>2. FilesTyped' /\ DaemonsTyped' /\ ClientsTyped'
    BY <2>1 DEF Typed, FilesTyped, DaemonsTyped, ClientsTyped
  <2>3. DialsTyped' /\ Dialled'
    BY <1>2, ConnectionKeeps
  <2>4. Doubted'
    BY <1>2, DoubtConnection
  <2>5. Known' /\ Named'
    BY <2>1, Still
  <2> QED BY <2>2, <2>3, <2>4, <2>5 DEF Typed
<1>3. ASSUME NEW c \in Client, EnsureDaemon(c)
      PROVE  EndpointInv'
  <2>1. ClientsTyped' /\ FilesTyped' /\ DaemonsTyped'
    BY <1>3, ClientStep
  <2>2. DialsTyped' /\ Dialled'
    BY <1>3, ClientDials
  <2>3. Doubted'
    BY <1>3, DoubtClient
  <2>4. Known' /\ Named'
    <3>1. CASE Spawn(c)
      <4>1. PICK d \in Daemon : Steps(d)
        BY <3>1, SpawnStep DEF Steps
      <4> QED BY <4>1, KnownStep, NamedStep
    <3>2. CASE UNCHANGED <<entry, lease, daemon, displaced>>
      BY <3>2, Still
    <3> QED BY <1>3, <3>1, <3>2, ClientLeaves
  <2> QED BY <2>1, <2>2, <2>3, <2>4 DEF Typed
<1>4. CASE UNCHANGED vars
  BY <1>4 DEF vars, files, ghosts, Typed, FilesTyped, DaemonsTyped, DialsTyped, ClientsTyped, Known, Named,
              Dialled, Doubted, DoubtIsJustified, Followed
<1> QED BY <1>1, <1>2, <1>3, <1>4 DEF Next, Moves

\* The inductive invariant holds in every run of any daemons and clients.
THEOREM EndpointInvariant == Spec => []EndpointInv
<1>1. Init => EndpointInv
  BY InitInv
<1>2. EndpointInv /\ [Next]_vars => EndpointInv'
  BY InvStep
<1> QED BY <1>1, <1>2, PTL DEF Spec

\* Types, and that the holder of the spawn lock is where ensure_daemon holds it.
LEMMA EndpointTyping == Spec => []EndpointTypeOK
<1>1. EndpointInv => EndpointTypeOK
  BY DEF EndpointInv, Typed, FilesTyped, DaemonsTyped, DialsTyped, ClientsTyped, EndpointTypeOK,
         DaemonState, ClientState, DialState, DaemonPcs, ClientPcs, Stages, LockPcs
<1> QED BY <1>1, EndpointInvariant, PTL

\* bind_unix never unlinks a live daemon's socket but through its two windows,
\* however many daemons start, stop and are killed there; and the lease describes
\* nobody else than the daemon that serves, which can lose it only to the drop of an
\* earlier daemon (Daemon::bind, Daemon::shutdown, Daemon::drop).
THEOREM EndpointNames == Spec => []EndpointIsNamed
<1>1. EndpointInv => OwnerIsNamed
  BY DEF EndpointInv, Named, OwnerIsNamed, Owners, OwnerPcs
<1>2. EndpointInv => ServingHasLease
  BY DEF EndpointInv, Named, ServingHasLease
<1>3. EndpointTypeOK /\ OwnerIsNamed /\ ServingHasLease => EndpointIsNamed
  BY DEF EndpointIsNamed
<1> QED BY <1>1, <1>2, <1>3, EndpointTyping, EndpointInvariant, PTL

\* Somebody else's record beside whoever answered means that it stopped, and no record
\* means that, or an earlier daemon's drop (settle).
THEOREM EndpointDoubt == Spec => []DoubtIsJustified
<1>1. EndpointInv => DoubtIsJustified
  BY DEF EndpointInv, Doubted
<1> QED BY <1>1, EndpointInvariant, PTL

\* A connection that waits for an answer waits for a daemon that lives
\* (Client::connect, Daemon::serve, Listener::drop).
THEOREM EndpointWaits == Spec => []NobodyWaitsInVain
<1>1. EndpointInv => NobodyWaitsInVain
  <2> SUFFICES ASSUME EndpointInv, NEW x \in Daemon \cup Client, dial[x].stage \in Pending
               PROVE  Alive(dial[x].server)
    BY DEF NobodyWaitsInVain
  <2>1. daemon[dial[x].server].pc \in Listening \cup Serves
    BY DEF EndpointInv, Dialled, Pending
  <2> QED BY <2>1 DEF Alive, Listening, Serves, Gone, Ended
<1> QED BY <1>1, EndpointInvariant, PTL

(* One daemon at a time, while clients alone start them.                   *)

\* The daemons on their way to the bind, or with a socket to their name.
Taken == {d \in Daemon : daemon[d].pc \in Binding \cup OwnerPcs}

\* d is the one that the holder of the lock started and waits for.
Expected(d) ==
  \E c \in Client : /\ lock = c /\ client[c].pc = "waiting" /\ client[c].started = d
                    /\ dial[c].stage = "none"

\* Who is on its way to the bind is expected, and no one interferes: the file is
\* still the one it sampled.
TurnOf(d) ==
  /\ daemon[d].pc \in Binding => Expected(d)
  /\ daemon[d].pc = "probe" => daemon[d].probed = entry
  /\ daemon[d].pc \in {"check", "unlink"} => daemon[d].probed = entry /\ entry # None
  /\ daemon[d].pc = "rebind" => entry = None
  /\ daemon[d].pc = "unlinked" => entry # d
  /\ daemon[d].pc # "beaten"

TurnsInOrder ==
  /\ ~displaced
  /\ \A d, e \in Taken : d = e
  /\ \A d \in Daemon : TurnOf(d)
  /\ \A c \in Client : client[c].pc = "spawning" => dial[c].stage = "none" /\ Taken = {}

TurnInv == EndpointInv /\ (~unordered => TurnsInOrder)

\* While a daemon is on its way to the bind, nobody answers at the endpoint.
LEMMA NobodyAnswers ==
  ASSUME EndpointInv, TurnsInOrder, NEW d \in Daemon, daemon[d].pc \in Binding
  PROVE  ~Answering
<1> SUFFICES ASSUME entry # None, daemon[entry].pc \in Listening
             PROVE  FALSE
  BY DEF Answering
<1>1. entry \in Daemon
  BY DEF EndpointInv, Typed, FilesTyped
<1>2. daemon[entry].pc # "unlinked"
  BY <1>1 DEF TurnsInOrder, TurnOf
<1>3. entry \in Taken /\ d \in Taken
  BY <1>1, <1>2 DEF Taken, Listening, OwnerPcs
<1>4. d = entry
  BY <1>3 DEF TurnsInOrder
<1> QED BY <1>4 DEF Binding, Listening

\* A step on the way to the bind leads to the bind: the only daemon that is on
\* its way, or has a socket, is the one that makes it.
LEMMA BindTurns ==
  ASSUME EndpointInv, EndpointInv', TurnsInOrder, NEW d \in Daemon, Binds(d)
  PROVE  TurnsInOrder'
<1> USE DEF EndpointInv
<1>1. ~ConfirmDial(d) /\ ~Confirm(d)
  BY Zenon DEF TurnsInOrder, TurnOf, ConfirmDial, Confirm
<1>2. daemon[d].pc \in Binding
  BY <1>1 DEF Binds, BindUnix, SocketIdentity, ProbeStale, CheckIdentity, UnlinkStale, Rebind,
              Listen, Binding
<1>3. ~Answering
  BY <1>2, NobodyAnswers
<1>4. UNCHANGED <<lock, client, dial>>
  BY <1>1 DEF Binds, BindUnix, SocketIdentity, ProbeStale, CheckIdentity, UnlinkStale, Rebind, Listen
<1>5. Alone(d)
  BY DaemonStep DEF Moves
<1>6. d \in Taken /\ \A e \in Daemon : e # d => e \notin Taken
  BY <1>2 DEF Taken, TurnsInOrder
<1>7. TurnOf(d) /\ daemon[d] \in DaemonState
  BY DEF TurnsInOrder, Typed, DaemonsTyped
<1>8. entry \notin {None, d} => entry \in Daemon /\ daemon[entry].pc \notin OwnerPcs \cup Binding
  BY <1>6 DEF Taken, Typed, FilesTyped
<1>9. entry = d => daemon[d].pc = "unheard"
  <2>1. daemon[d].pc \notin Past
    BY <1>2, Zenon DEF Binding, Past, Ended
  <2> QED BY <1>2, <2>1, EndpointAssumption DEF Known, OwnerPcs, Binding
\* What it does to d.
<1> DEFINE Next1 ==
      /\ displaced' = displaced
      /\ daemon'[d].pc \in Binding \cup {"bound"}
      /\ daemon'[d].pc = "probe" => daemon'[d].probed = entry'
      /\ daemon'[d].pc \in {"check", "unlink"} => daemon'[d].probed = entry' /\ entry' # None
      /\ daemon'[d].pc = "rebind" => entry' = None
      /\ entry' \in {entry, None, d}
<1>10. Next1
  <2>1. CASE BindUnix(d)
    BY <2>1, <1>7 DEF BindUnix, ghosts, Binding, Typed, DaemonsTyped, DaemonState
  <2>2. CASE SocketIdentity(d)
    BY <2>2, <1>7 DEF SocketIdentity, files, ghosts, Binding, Typed, DaemonsTyped, DaemonState
  <2>3. CASE ProbeStale(d)
    <3>1. daemon[d].pc = "probe" /\ UNCHANGED <<entry, lease>>
      BY <2>3 DEF ProbeStale, files
    <3>2. ~(entry # None /\ daemon[entry].pc = "unheard")
      BY <1>8, <1>9, <3>1 DEF Binding
    <3>3. displaced' = displaced
      BY <2>3, <3>2 DEF ProbeStale, Typed, FilesTyped
    <3>4. CASE entry = None
      <4>1. daemon' = [daemon EXCEPT ![d].pc = "rebind", ![d].probed = None]
        BY <1>3, <2>3, <3>4 DEF ProbeStale
      <4> QED BY <3>1, <3>3, <3>4, <4>1 DEF Binding, Typed, DaemonsTyped
    <3>5. CASE entry # None
      <4>1. daemon' = [daemon EXCEPT ![d].pc = "check"]
        BY <1>3, <2>3, <3>5 DEF ProbeStale
      <4>2. daemon'[d].pc = "check" /\ daemon'[d].probed = daemon[d].probed
        BY <4>1 DEF Typed, DaemonsTyped, DaemonState
      <4> QED BY <1>7, <3>1, <3>3, <3>5, <4>2 DEF Binding, TurnOf
    <3> QED BY <3>4, <3>5
  <2>4. CASE CheckIdentity(d)
    <3>1. daemon[d].pc = "check" /\ daemon[d].probed = entry /\ entry # None
      BY <1>7, <2>4 DEF CheckIdentity, TurnOf
    <3>2. daemon' = [daemon EXCEPT ![d].pc = "unlink"]
      BY <2>4, <3>1 DEF CheckIdentity
    <3> QED BY <2>4, <3>1, <3>2 DEF CheckIdentity, files, ghosts, Binding, Typed, DaemonsTyped
  <2>5. CASE UnlinkStale(d)
    <3>1. daemon[d].pc = "unlink" /\ daemon[d].probed = entry /\ entry # None
      BY <1>7, <2>5 DEF UnlinkStale, TurnOf
    <3>2. daemon' = [daemon EXCEPT ![d].pc = "rebind", ![d].probed = None]
      BY <2>5, <3>1 DEF UnlinkStale
    <3>3. displaced' = displaced
      BY <2>5, <3>1 DEF UnlinkStale, Typed, FilesTyped
    <3>4. daemon'[d].pc = "rebind" /\ entry' = None
      BY <2>5, <3>2 DEF UnlinkStale, Typed, DaemonsTyped, DaemonState
    <3> QED BY <3>3, <3>4 DEF Binding
  <2>6. CASE Rebind(d)
    <3>1. entry = None
      BY <1>7, <2>6 DEF Rebind, TurnOf
    <3> QED BY <2>6, <3>1 DEF Rebind, ghosts, Binding, Typed, DaemonsTyped, DaemonState
  <2>7. CASE Listen(d)
    BY <2>7 DEF Listen, files, ghosts, Typed, DaemonsTyped, DaemonState
  <2> QED BY <1>1, <2>1, <2>2, <2>3, <2>4, <2>5, <2>6, <2>7 DEF Binds
<1> HIDE DEF Next1
<1>11. Taken' \subseteq {d}
  BY <1>5, <1>6 DEF Taken, Alone
<1>12. ASSUME NEW e \in Daemon PROVE TurnOf(e)'
  <2>1. CASE e = d
    <3>1. Expected(d)'
      BY <1>2, <1>4, <1>7 DEF TurnOf, Expected
    <3> QED BY <1>10, <2>1, <3>1 DEF Next1, TurnOf, Binding
  <2>2. CASE e # d
    <3>1. daemon'[e] = daemon[e] /\ e \notin Taken /\ TurnOf(e)
      BY <1>5, <1>6, <2>2 DEF Alone, TurnsInOrder
    <3>2. daemon[e].pc \notin Binding
      BY <3>1 DEF Taken
    <3>3. daemon[e].pc \notin {"probe", "check", "unlink", "rebind"}
      BY <3>2 DEF Binding
    <3>4. entry' # e \/ entry = e
      BY <1>10, <2>2, EndpointAssumption DEF Next1
    <3> QED BY <3>1, <3>2, <3>3, <3>4 DEF TurnOf
  <2> QED BY <2>1, <2>2
<1>13. \A c \in Client : client[c].pc # "spawning"
  BY <1>6 DEF TurnsInOrder
<1> QED BY <1>4, <1>10, <1>11, <1>12, <1>13 DEF TurnsInOrder, Next1

\* The life of a daemon after the bind, and its death, only make room.
LEMMA LifeTurns ==
  ASSUME EndpointInv, TurnsInOrder, NEW d \in Daemon, Lives(d), ~StartByHand(d)
  PROVE  TurnsInOrder'
<1> USE DEF EndpointInv
<1>1. UNCHANGED <<lock, client, displaced>>
  BY DEF Lives, WriteLease, OpenFails, Stop, RemoveLease, DropListener, CloseSocket, Exit, DropDaemon, Crash,
         files, ghosts
<1>2. Alone(d)
  BY DaemonStep DEF Moves
<1>3. daemon[d] \in DaemonState
  BY DEF Typed, DaemonsTyped
<1>4. \/ /\ daemon'[d].pc \in {"serving", "retiring", "closing"} /\ entry' = entry
         /\ daemon[d].pc \in OwnerPcs
      \/ /\ daemon'[d].pc = "unlinked" /\ entry' = None /\ daemon[d].pc \in OwnerPcs
      \/ /\ daemon'[d].pc \in {"ending", "dropping", "retired", "killed"} /\ entry' = entry
  BY <1>3 DEF Lives, WriteLease, OpenFails, Stop, RemoveLease, DropListener, CloseSocket, Exit, DropDaemon, Crash,
         files, ghosts, OwnerPcs, Typed, DaemonsTyped, DaemonState
<1>5. \A c \in Client : dial[c].stage = "none" => dial'[c].stage = "none"
  <2> SUFFICES ASSUME NEW c \in Client, dial[c].stage = "none" PROVE dial'[c].stage = "none"
    OBVIOUS
  <2>1. c \in DOMAIN dial /\ c # d
    BY EndpointAssumption DEF Typed, DialsTyped
  <2>2. \A stages : "none" \notin stages => Broken(d, stages)[c].stage = "none"
    BY <2>1 DEF Broken
  <2>3. CASE UNCHANGED dial
    BY <2>3
  <2>4. CASE CloseSocket(d)
    BY <2>2, <2>4 DEF CloseSocket
  <2>5. CASE Exit(d)
    BY <2>2, <2>5 DEF Exit
  <2>6. CASE Crash(d)
    <3>1. dial'[c] = Broken(d, Pending)[c]
      BY <2>1, <2>6 DEF Crash, Broken
    <3> QED BY <2>2, <3>1 DEF Pending
  <2> QED BY <2>3, <2>4, <2>5, <2>6 DEF Lives, WriteLease, OpenFails, Stop, RemoveLease, DropListener, DropDaemon
<1>6. Taken' \subseteq Taken
  <2>1. d \in Taken' => d \in Taken
    BY <1>4 DEF Taken, OwnerPcs, Binding
  <2> QED BY <1>2, <2>1 DEF Taken, Alone
<1>7. ASSUME NEW e \in Daemon PROVE TurnOf(e)'
  <2>1. CASE e = d
    BY <1>4, <2>1, EndpointAssumption DEF TurnOf, Binding
  <2>2. CASE e # d
    <3>1. daemon'[e] = daemon[e] /\ TurnOf(e)
      BY <1>2, <2>2 DEF Alone, TurnsInOrder
    <3>2. Expected(e) => Expected(e)'
      BY <1>1, <1>5 DEF Expected
    <3>3. CASE entry' = entry
      BY <3>1, <3>2, <3>3 DEF TurnOf
    <3>4. CASE entry' = None /\ daemon[d].pc \in OwnerPcs
      <4>1. daemon[e].pc \notin Binding
        BY <2>2, <3>4 DEF TurnsInOrder, Taken
      <4>2. daemon[e].pc \notin {"probe", "check", "unlink", "rebind"}
        BY <4>1 DEF Binding
      <4> QED BY <3>1, <3>4, <4>1, <4>2, EndpointAssumption DEF TurnOf
    <3> QED BY <1>4, <3>3, <3>4
  <2> QED BY <2>1, <2>2
<1>8. \A c \in Client : client'[c].pc = "spawning" => dial'[c].stage = "none" /\ Taken' = {}
  BY <1>1, <1>5, <1>6 DEF TurnsInOrder
<1> QED BY <1>1, <1>6, <1>7, <1>8 DEF TurnsInOrder

\* Nobody is on its way, and nobody has a socket, once the second probe of the
\* holder of the lock has met nobody.
LEMMA NobodyIsThere ==
  ASSUME EndpointInv, TurnsInOrder, NEW c \in Client, client[c].pc = "second", ~Answering
  PROVE  Taken = {}
<1> USE DEF EndpointInv
<1> SUFFICES ASSUME NEW d \in Daemon, daemon[d].pc \in Binding \cup OwnerPcs PROVE FALSE
  BY DEF Taken
<1>1. lock = c
  BY DEF Typed, ClientsTyped, LockPcs
<1>2. daemon[d].pc \notin Binding
  BY <1>1 DEF TurnsInOrder, TurnOf, Expected
<1>3. entry = d
  BY <1>2 DEF TurnsInOrder, Named
<1>4. daemon[d].pc \in Listening
  BY <1>2 DEF OwnerPcs, Binding, Listening
<1> QED BY <1>3, <1>4, EndpointAssumption DEF Answering

\* A client starts a daemon only where none is, and waits for it under the lock
\* until it has bound.
LEMMA ClientTurns ==
  ASSUME EndpointInv, TurnsInOrder, NEW c \in Client, EnsureDaemon(c), ~unordered'
  PROVE  TurnsInOrder'
<1> USE DEF EndpointInv
<1>1. \A b \in Client : b # c => client'[b] = client[b] /\ dial'[b] = dial[b]
  BY ClientApart
<1>2. \A b \in Client : lock = b <=> client[b].pc \in LockPcs
  BY DEF Typed, ClientsTyped
<1>3. CASE Spawn(c)
  <2>1. PICK d \in Daemon :
          /\ daemon[d].pc = "unborn" /\ daemon' = [daemon EXCEPT ![d].pc = "starting"]
          /\ client' = [client EXCEPT ![c] = [client[c] EXCEPT !.pc = "waiting", !.started = d]]
    BY <1>3, Zenon DEF Spawn
  <2>2. client[c].pc = "spawning" /\ UNCHANGED <<entry, lock, dial, displaced>>
    BY <1>3 DEF Spawn, files, ghosts
  <2>3. lock = c /\ dial[c].stage = "none" /\ Taken = {}
    BY <1>2, <2>2 DEF TurnsInOrder, LockPcs
  <2>4. /\ daemon'[d].pc = "starting"
        /\ \A e \in Daemon : e # d => daemon'[e] = daemon[e]
        /\ client'[c].pc = "waiting" /\ client'[c].started = d
    BY <2>1 DEF Typed, DaemonsTyped, DaemonState, ClientsTyped, ClientState
  <2>5. Taken' \subseteq {d}
    BY <2>3, <2>4 DEF Taken
  <2>6. ASSUME NEW e \in Daemon PROVE TurnOf(e)'
    <3>1. CASE e = d
      BY <2>2, <2>3, <2>4, <3>1 DEF TurnOf, Expected
    <3>2. CASE e # d
      <4>1. daemon'[e] = daemon[e] /\ TurnOf(e) /\ daemon[e].pc \notin Binding
        BY <2>3, <2>4, <3>2 DEF TurnsInOrder, Taken
      <4> QED BY <2>2, <4>1 DEF TurnOf
    <3> QED BY <3>1, <3>2
  <2>7. \A b \in Client : client'[b].pc # "spawning"
    BY <1>1, <1>2, <2>3, <2>4 DEF LockPcs
  <2> QED BY <2>2, <2>5, <2>6, <2>7 DEF TurnsInOrder
<1>4. CASE ~Spawn(c)
  <2>1. UNCHANGED <<entry, daemon, displaced>>
    BY <1>4, ClientLeaves
  <2>2. UNCHANGED Taken
    BY <2>1 DEF Taken
  <2>3. lock \notin {None, c} => lock' = lock
    BY <1>4 DEF EnsureDaemon, Begin, ProbeConnects, ProbeFindsNobody, MayNotSpawn, ProbeFails, TakeLock,
                LockTimeout, SpawnFails, NeverReady, Settle, Leave, Fails, Unlocked
  <2>4. ASSUME NEW d \in Daemon, daemon[d].pc \in Binding PROVE Expected(d)'
    <3>1. PICK h \in Client : lock = h /\ client[h].pc = "waiting" /\ client[h].started = d
                              /\ dial[h].stage = "none"
      BY <2>4 DEF TurnsInOrder, TurnOf, Expected
    <3>2. ~Answering
      BY <2>4, NobodyAnswers
    <3>3. h # c
      <4> SUFFICES ASSUME h = c PROVE FALSE
        OBVIOUS
      <4>1. client[c].pc = "waiting" /\ dial[c].stage = "none" /\ Unready(c)
        BY <2>4, <3>1 DEF Unready
      <4>2. ~NeverReady(c) /\ ~Leave(c)
        BY <4>1 DEF NeverReady, Leave
      <4> QED BY <3>2, <4>1, <4>2 DEF EnsureDaemon, Begin, ProbeConnects, Connect, ProbeFindsNobody,
                 MayNotSpawn, ProbeFails, TakeLock, LockTimeout, Spawn, SpawnFails, Settle
    <3>4. lock' = h
      BY <2>3, <3>1, <3>3, EndpointAssumption
    <3> QED BY <1>1, <3>1, <3>3, <3>4 DEF Expected
  <2>5. \A d \in Daemon : TurnOf(d)'
    BY <2>1, <2>4 DEF TurnsInOrder, TurnOf
  <2>6. ASSUME NEW b \in Client, client'[b].pc = "spawning"
        PROVE  dial'[b].stage = "none" /\ Taken' = {}
    <3>1. CASE b # c
      BY <1>1, <2>2, <2>6, <3>1 DEF TurnsInOrder
    <3>2. CASE b = c
      <4>1. client[c] \in ClientState
        BY DEF Typed, ClientsTyped
      <4>2. ProbeFindsNobody(c) /\ client[c].pc # "first"
        BY <1>4, <2>6, <3>2, <4>1 DEF EnsureDaemon, Begin, ProbeConnects, ProbeFindsNobody, MayNotSpawn,
           ProbeFails, TakeLock, LockTimeout, SpawnFails, NeverReady, Settle, Leave, Fails, NoCall,
           Probing, Typed, ClientsTyped, ClientState
      <4>3. client[c].pc = "second" /\ dial'[c].stage = "none" /\ ~Answering
        BY <4>2 DEF ProbeFindsNobody
      <4> QED BY <2>2, <3>2, <4>3, NobodyIsThere
    <3> QED BY <3>1, <3>2
  <2> QED BY <2>1, <2>2, <2>5, <2>6 DEF TurnsInOrder
<1> QED BY <1>3, <1>4

LEMMA TurnStep ==
  ASSUME TurnInv, [Next]_vars
  PROVE  TurnInv'
<1>1. EndpointInv /\ EndpointInv'
  BY InvStep DEF TurnInv
<1> SUFFICES ASSUME ~unordered' PROVE TurnsInOrder'
  BY <1>1 DEF TurnInv
<1>2. ASSUME NEW d \in Daemon, Binds(d) PROVE TurnsInOrder'
  <2>1. UNCHANGED unordered
    BY <1>2, Zenon DEF Binds, BindUnix, SocketIdentity, ProbeStale, CheckIdentity, UnlinkStale, Rebind,
                       Listen, ConfirmDial, Confirm, ghosts
  <2> QED BY <1>1, <1>2, <2>1, BindTurns DEF TurnInv
<1>3. ASSUME NEW d \in Daemon, Lives(d) PROVE TurnsInOrder'
  <2>1. ~StartByHand(d)
    BY DEF StartByHand
  <2>2. UNCHANGED unordered
    BY <1>3, <2>1 DEF Lives, WriteLease, OpenFails, Stop, RemoveLease, DropListener, CloseSocket, Exit,
                      DropDaemon, Crash, ghosts
  <2> QED BY <1>1, <1>3, <2>1, <2>2, LifeTurns DEF TurnInv
<1>4. ASSUME NEW c \in Client, EnsureDaemon(c) PROVE TurnsInOrder'
  <2>1. unordered => unordered'
    <3>1. CASE Spawn(c)
      BY <3>1, Zenon DEF Spawn, ghosts
    <3>2. CASE ~Spawn(c)
      BY <1>4, <3>2 DEF EnsureDaemon, Begin, ProbeConnects, ProbeFindsNobody, MayNotSpawn, ProbeFails,
                        TakeLock, LockTimeout, SpawnFails, NeverReady, Settle, Leave, ghosts
    <3> QED BY <3>1, <3>2
  <2> QED BY <1>1, <1>4, <2>1, ClientTurns DEF TurnInv
<1>5. ASSUME NEW x \in Daemon \cup Client, Connection(x) PROVE TurnsInOrder'
  <2>1. UNCHANGED <<entry, lock, daemon, client, unordered, displaced>>
    BY <1>5 DEF Connection, Accept, Vet, Answer, files, ghosts
  <2>2. \A c \in Client : dial[c].stage = "none" => dial'[c] = dial[c]
    BY <1>1, <1>5 DEF Connection, Accept, Vet, Answer, EndpointInv, Typed, DialsTyped
  <2>3. TurnsInOrder /\ UNCHANGED Taken
    BY <2>1 DEF TurnInv, Taken
  <2>4. \A d \in Daemon : Expected(d) => Expected(d)'
    BY <2>1, <2>2 DEF Expected
  <2>5. \A d \in Daemon : TurnOf(d)'
    BY <2>1, <2>3, <2>4 DEF TurnsInOrder, TurnOf
  <2> QED BY <2>1, <2>2, <2>3, <2>5 DEF TurnsInOrder
<1>6. CASE UNCHANGED vars
  BY <1>6 DEF vars, files, ghosts, TurnInv, TurnsInOrder, Taken, TurnOf, Expected
<1> QED BY <1>2, <1>3, <1>4, <1>5, <1>6 DEF Next

\* While no daemon is started but by clients, each under the lock until it has
\* bound, one daemon at a time is on its way to the bind or owns a socket, and none
\* that finds a dead file is turned away (ensure_daemon, SpawnLock::acquire).
THEOREM EndpointTurns == Spec => []SpawnsInTurn
<1>1. Init => TurnInv
  <2> SUFFICES ASSUME Init PROVE TurnInv
    OBVIOUS
  <2>1. /\ \A d \in Daemon : daemon[d].pc = "unborn"
        /\ \A c \in Client : client[c].pc = "idle"
        /\ ~displaced
    BY DEF Init, NoCall
  <2>2. Taken = {} /\ \A d \in Daemon : TurnOf(d)
    BY <2>1 DEF Taken, TurnOf, Binding, OwnerPcs
  <2> QED BY <2>1, <2>2, InitInv DEF TurnInv, TurnsInOrder
<1>2. TurnInv /\ [Next]_vars => TurnInv'
  BY TurnStep
<1>3. TurnInv => SpawnsInTurn
  BY DEF TurnInv, TurnsInOrder, TurnOf, Taken, SpawnsInTurn, LockSerialises, StaleSocketYields, Owners,
         OwnerPcs
<1> QED BY <1>1, <1>2, <1>3, PTL DEF Spec

=============================================================================
