--------------------------- MODULE DaemonEndpoint ---------------------------
(***************************************************************************)
(* One endpoint of the machine, on Unix: the socket file, the lease beside *)
(* it and the spawn lock (rpc/transport.rs, lease.rs, discovery.rs), the   *)
(* daemons that start there, serve, stop or are killed (rpc/server.rs,     *)
(* nysia/src/daemon.rs), and the clients that look for a daemon and start  *)
(* one when nobody answers.                                                *)
(*                                                                         *)
(* Every daemon binds at most one socket, so its name is also the name of  *)
(* the socket's inode.  The file of a daemon that was killed stays behind. *)
(***************************************************************************)
CONSTANTS
  Daemon,  \* daemon processes, each started at most once
  Client,  \* processes that call ensure_daemon
  None

ASSUME EndpointAssumption == None \notin Daemon \cup Client /\ Daemon \cap Client = {}

VARIABLES
  entry,     \* the socket file at the endpoint: whose it is
  lease,     \* the pid record beside it: whom it describes
  lock,      \* who holds the spawn lock
  daemon,    \* each daemon process: where it is, the inode it sampled, its `Daemon`
  client,    \* each client: where it is, the daemon it started, the record it read
  dial,      \* each process's connection to the endpoint: how far, and to whom
  unordered, \* history variable: a daemon was started that no lock kept apart
  displaced  \* history variable: one of the two windows of bind_unix was hit

files == <<entry, lease>>
ghosts == <<unordered, displaced>>
vars == <<files, lock, daemon, client, dial, ghosts>>

Binding == {"starting", "sample", "probe", "check", "unlink", "rebind", "unheard"}
Listening == {"bound", "serving", "retiring", "closing", "unlinked"}
Ended == {"retired", "killed", "already running", "gave up"}
Probing == {"first", "second", "waiting"}

Pending == {"backlog", "accepted", "vetted"}
NoCall == [pc |-> "idle", started |-> None, record |-> None]
NoDial == [stage |-> "none", server |-> None]

Alive(d) == daemon[d].pc \notin Ended \cup {"unborn"}

\* What a connect to the path meets.
Answering == entry # None /\ daemon[entry].pc \in Listening

-----------------------------------------------------------------------------
(* Binding: Listener::bind and bind_unix.                                  *)

BindUnix_LeaseFirst(d) ==
  /\ daemon[d].pc = "starting"
  /\ lease' = d
  /\ IF entry = None
     THEN /\ entry' = d
          /\ daemon' = [daemon EXCEPT ![d].pc = "unheard"]
     ELSE /\ daemon' = [daemon EXCEPT ![d].pc = "sample"]
          /\ UNCHANGED entry
  /\ UNCHANGED <<lock, client, dial, ghosts>>

\* The first bind: it fails whenever the file is there.
BindUnix(d) ==
  /\ daemon[d].pc = "starting"
  /\ IF entry = None
     THEN /\ entry' = d
          /\ daemon' = [daemon EXCEPT ![d].pc = "unheard"]
     ELSE /\ daemon' = [daemon EXCEPT ![d].pc = "sample"]
          /\ UNCHANGED entry
  /\ UNCHANGED <<lease, lock, client, dial, ghosts>>

\* `socket_identity(path)`, before the probe.
SocketIdentity(d) ==
  /\ daemon[d].pc = "sample"
  /\ daemon' = [daemon EXCEPT ![d].pc = "probe", ![d].probed = entry]
  /\ UNCHANGED <<files, lock, client, dial, ghosts>>

\* The probe: accepted, refused, or no file any more.  The socket of a daemon
\* that has bound and does not listen yet refuses as well, which is the first window.
ProbeStale(d) ==
  /\ daemon[d].pc = "probe"
  /\ \/ /\ entry # None /\ ~Answering
        /\ daemon' = [daemon EXCEPT ![d].pc = "check"]
     \/ /\ entry = None \/ Answering
        /\ daemon' = [daemon EXCEPT ![d].pc = IF Answering THEN "beaten" ELSE "rebind",
                                    ![d].probed = None]
  /\ displaced' = (displaced \/ (entry # None /\ daemon[entry].pc = "unheard"))
  /\ UNCHANGED <<files, lock, client, dial, unordered>>

CheckIdentity_Trusting(d) ==
  /\ daemon[d].pc = "check"
  /\ daemon' = IF daemon[d].probed = None
               THEN [daemon EXCEPT ![d].pc = "beaten"]
               ELSE [daemon EXCEPT ![d].pc = "unlink", ![d].probed = entry]
  /\ UNCHANGED <<files, lock, client, dial, ghosts>>

\* The comparison that spares a socket which replaced the stale one.
CheckIdentity(d) ==
  /\ daemon[d].pc = "check"
  /\ daemon' = IF daemon[d].probed = None \/ entry # daemon[d].probed
               THEN [daemon EXCEPT ![d].pc = "beaten", ![d].probed = None]
               ELSE [daemon EXCEPT ![d].pc = "unlink"]
  /\ UNCHANGED <<files, lock, client, dial, ghosts>>

\* `remove_file`, of whatever is at the path by then.  A live socket that took the
\* place of the one the check had seen is the second window.
UnlinkStale(d) ==
  /\ daemon[d].pc = "unlink"
  /\ entry' = None
  /\ daemon' = [daemon EXCEPT ![d].pc = IF entry = None THEN "beaten" ELSE "rebind",
                              ![d].probed = None]
  /\ displaced' = (displaced \/ (entry \notin {None, daemon[d].probed} /\ Alive(entry)))
  /\ UNCHANGED <<lease, lock, client, dial, unordered>>

\* The second and last bind.
Rebind(d) ==
  /\ daemon[d].pc = "rebind"
  /\ IF entry = None
     THEN /\ entry' = d
          /\ daemon' = [daemon EXCEPT ![d].pc = "unheard"]
     ELSE /\ daemon' = [daemon EXCEPT ![d].pc = "beaten"]
          /\ UNCHANGED entry
  /\ UNCHANGED <<lease, lock, client, dial, ghosts>>

\* A bind of tokio is bind(2) and then listen(2).
Listen(d) ==
  /\ daemon[d].pc = "unheard"
  /\ daemon' = [daemon EXCEPT ![d].pc = "bound"]
  /\ UNCHANGED <<files, lock, client, dial, ghosts>>

-----------------------------------------------------------------------------
(* A daemon's life after the bind.                                         *)

\* Daemon::bind: the store opens, the spool is drained, the lease is written.
WriteLease(d) ==
  /\ daemon[d].pc = "bound"
  /\ lease' = d
  /\ daemon' = [daemon EXCEPT ![d].pc = "serving", ![d].built = TRUE]
  /\ UNCHANGED <<entry, lock, client, dial, ghosts>>

\* Daemon::bind fails on the store or the lease, and drops the listener.
OpenFails(d) ==
  /\ daemon[d].pc = "bound"
  /\ daemon' = [daemon EXCEPT ![d].pc = "closing"]
  /\ UNCHANGED <<files, lock, client, dial, ghosts>>

\* Daemon::serve leaves its loop, idle or interrupted; `shutting_down` is set.
Stop(d) ==
  /\ daemon[d].pc = "serving"
  /\ daemon' = [daemon EXCEPT ![d].pc = "retiring"]
  /\ UNCHANGED <<files, lock, client, dial, ghosts>>

\* Daemon::shutdown: every session is closed, then the lease is removed.
RemoveLease(d) ==
  /\ daemon[d].pc = "retiring"
  /\ lease' = None
  /\ daemon' = [daemon EXCEPT ![d].pc = "closing"]
  /\ UNCHANGED <<entry, lock, client, dial, ghosts>>

\* Listener::drop removes the file at the path, whosever it is.
DropListener(d) ==
  /\ daemon[d].pc = "closing"
  /\ entry' = None
  /\ daemon' = [daemon EXCEPT ![d].pc = "unlinked"]
  /\ UNCHANGED <<lease, lock, client, dial, ghosts>>

\* Connections to d that stand at one of `stages` are broken.
Broken(d, stages) ==
  [x \in DOMAIN dial |-> IF dial[x].server = d /\ dial[x].stage \in stages
                         THEN [dial[x] EXCEPT !.stage = "dropped"]
                         ELSE dial[x]]

CloseSocket_Leaks(d) ==
  /\ daemon[d].pc = "unlinked"
  /\ daemon' = [daemon EXCEPT ![d].pc = "ending"]
  /\ UNCHANGED <<files, lock, client, dial, ghosts>>

\* The listener closes, and with it what nobody accepted.
CloseSocket(d) ==
  /\ daemon[d].pc = "unlinked"
  /\ dial' = Broken(d, {"backlog"})
  /\ daemon' = [daemon EXCEPT ![d].pc = "ending"]
  /\ UNCHANGED <<files, lock, client, ghosts>>

\* `run_at` returns, and with the runtime go the tasks of its connections, each of
\* which shares the `Daemon`.
Exit(d) ==
  /\ daemon[d].pc = "ending"
  /\ dial' = Broken(d, {"accepted", "vetted"})
  /\ daemon' = [daemon EXCEPT ![d].pc = IF daemon[d].built THEN "dropping" ELSE "retired"]
  /\ UNCHANGED <<files, lock, client, ghosts>>

\* Daemon::drop, with the last share: the lease is removed once more, whosever it is
\* by now.  The name has been free since DropListener.
DropDaemon(d) ==
  /\ daemon[d].pc = "dropping"
  /\ lease' = None
  /\ daemon' = [daemon EXCEPT ![d].pc = "retired"]
  /\ UNCHANGED <<entry, lock, client, dial, ghosts>>

\* Killed at any moment: files stay, the kernel closes the sockets.
Crash(d) ==
  /\ Alive(d)
  /\ dial' = [Broken(d, Pending) EXCEPT ![d] = NoDial]
  /\ daemon' = [daemon EXCEPT ![d].pc = "killed", ![d].probed = None]
  /\ UNCHANGED <<files, lock, client, ghosts>>

-----------------------------------------------------------------------------
(* One connection of x, a client or a defeated daemon.                     *)

\* Client::connect: into the listener's backlog, where the hello waits.
Connect(x) ==
  /\ Answering
  /\ dial' = [dial EXCEPT ![x] = [stage |-> "backlog", server |-> entry]]

\* Daemon::serve accepts as long as it is in its loop.
Accept(x) ==
  /\ dial[x].stage = "backlog" /\ daemon[dial[x].server].pc = "serving"
  /\ dial' = [dial EXCEPT ![x].stage = "accepted"]
  /\ UNCHANGED <<files, lock, daemon, client, ghosts>>

\* vet: a daemon that is shutting down refuses.
Vet(x) ==
  /\ dial[x].stage = "accepted"
  /\ dial' = [dial EXCEPT ![x].stage =
                IF daemon[dial[x].server].pc = "serving" THEN "vetted" ELSE "refused"]
  /\ UNCHANGED <<files, lock, daemon, client, ghosts>>

\* serve_io: the hello is answered.
Answer(x) ==
  /\ dial[x].stage = "vetted"
  /\ dial' = [dial EXCEPT ![x].stage = "answered"]
  /\ UNCHANGED <<files, lock, daemon, client, ghosts>>

-----------------------------------------------------------------------------
(* A daemon that lost the bind: confirm.                                   *)

ConfirmDial(d) ==
  /\ daemon[d].pc = "beaten" /\ dial[d].stage = "none"
  /\ \/ Connect(d) /\ UNCHANGED daemon
     \/ /\ ~Answering
        /\ daemon' = [daemon EXCEPT ![d].pc = "gave up"]
        /\ UNCHANGED dial
  /\ UNCHANGED <<files, lock, client, ghosts>>

\* Any answer, a refusal and a broken connection among them, is taken for a
\* daemon; silence is not.
Confirm(d) ==
  /\ daemon[d].pc = "beaten" /\ dial[d].stage # "none"
  /\ daemon' = [daemon EXCEPT ![d].pc =
                  IF dial[d].stage \in Pending THEN "gave up" ELSE "already running"]
  /\ dial' = [dial EXCEPT ![d] = NoDial]
  /\ UNCHANGED <<files, lock, client, ghosts>>

-----------------------------------------------------------------------------
(* A client: ensure_daemon.                                                *)

\* A return gives the lock back when it is held.
Unlocked(c) == IF lock = c THEN None ELSE lock

Fails(c) ==
  /\ client' = [client EXCEPT ![c] = NoCall]
  /\ dial' = [dial EXCEPT ![c] = NoDial]
  /\ lock' = Unlocked(c)

\* The call.
Begin(c) ==
  /\ client[c].pc = "idle"
  /\ client' = [client EXCEPT ![c] = [NoCall EXCEPT !.pc = "first"]]
  /\ UNCHANGED <<files, lock, daemon, dial, ghosts>>

\* A probe that connects.
ProbeConnects(c) ==
  /\ client[c].pc \in Probing /\ dial[c].stage = "none"
  /\ Connect(c)
  /\ UNCHANGED <<files, lock, daemon, client, ghosts>>

\* A probe answered "nothing is listening".  The first one leads to the lock, the
\* second to the spawn; those after the spawn are repeated.
ProbeFindsNobody(c) ==
  /\ client[c].pc \in {"first", "second"} /\ dial[c].stage = "none" /\ ~Answering
  /\ client' = [client EXCEPT ![c].pc = IF @ = "first" THEN "locking" ELSE "spawning"]
  /\ UNCHANGED <<files, lock, daemon, dial, ghosts>>

\* SpawnPolicy::Never
MayNotSpawn(c) ==
  /\ client[c].pc = "first" /\ dial[c].stage = "none" /\ ~Answering
  /\ Fails(c)
  /\ UNCHANGED <<files, daemon, ghosts>>

\* A probe that failed in any other way ends the call.
ProbeFails(c) ==
  /\ dial[c].stage \in {"refused", "dropped"}
  /\ Fails(c)
  /\ UNCHANGED <<files, daemon, ghosts>>

TakeLock_SkipsProbe(c) ==
  /\ client[c].pc = "locking" /\ lock = None
  /\ lock' = c
  /\ client' = [client EXCEPT ![c].pc = "spawning"]
  /\ UNCHANGED <<files, daemon, dial, ghosts>>

\* SpawnLock::acquire
TakeLock(c) ==
  /\ client[c].pc = "locking" /\ lock = None
  /\ lock' = c
  /\ client' = [client EXCEPT ![c].pc = "second"]
  /\ UNCHANGED <<files, daemon, dial, ghosts>>

LockTimeout(c) ==
  /\ client[c].pc = "locking" /\ lock # None
  /\ Fails(c)
  /\ UNCHANGED <<files, daemon, ghosts>>

\* spawn_daemon
Spawn(c) ==
  /\ client[c].pc = "spawning"
  /\ \E d \in Daemon :
       /\ daemon[d].pc = "unborn"
       /\ daemon' = [daemon EXCEPT ![d].pc = "starting"]
       /\ client' = [client EXCEPT ![c] = [client[c] EXCEPT !.pc = "waiting", !.started = d]]
  /\ UNCHANGED <<files, lock, dial, ghosts>>

SpawnFails(c) ==
  /\ client[c].pc = "spawning"
  /\ Fails(c)
  /\ UNCHANGED <<files, daemon, ghosts>>

\* The daemon this client started may still be on its way to the bind.
Unready(c) ==
  client[c].pc = "waiting" /\ daemon[client[c].started].pc \in Binding

\* READY_TIMEOUT, after a probe that found nobody.
NeverReady(c) ==
  /\ client[c].pc = "waiting" /\ dial[c].stage = "none" /\ ~Answering
  /\ unordered' = (unordered \/ Unready(c))
  /\ Fails(c)
  /\ UNCHANGED <<files, daemon, displaced>>

\* settle: the record beside the endpoint is read, to be compared with who answered.
Settle(c) ==
  /\ dial[c].stage = "answered" /\ client[c].pc \in Probing
  /\ client' = [client EXCEPT ![c] = [pc |-> "connected", started |-> None,
                                      record |-> lease]]
  /\ lock' = Unlocked(c)
  /\ UNCHANGED <<files, daemon, dial, ghosts>>

\* The client hangs up, or is killed in the middle of the call: the kernel
\* releases its lock.
Leave(c) ==
  /\ client[c].pc # "idle"
  /\ client' = [client EXCEPT ![c] = NoCall]
  /\ dial' = [dial EXCEPT ![c] = NoDial]
  /\ lock' = Unlocked(c)
  /\ unordered' = (unordered \/ Unready(c))
  /\ UNCHANGED <<files, daemon, displaced>>

\* `nysia --daemon` from a terminal or a supervisor, which takes no lock.
StartByHand(d) ==
  /\ daemon[d].pc = "unborn"
  /\ daemon' = [daemon EXCEPT ![d].pc = "starting"]
  /\ unordered' = TRUE
  /\ UNCHANGED <<files, lock, client, dial, displaced>>

-----------------------------------------------------------------------------
Init ==
  /\ entry = None /\ lease = None /\ lock = None
  /\ daemon = [d \in Daemon |-> [pc |-> "unborn", probed |-> None, built |-> FALSE]]
  /\ client = [c \in Client |-> NoCall]
  /\ dial = [x \in Daemon \cup Client |-> NoDial]
  /\ unordered = FALSE /\ displaced = FALSE

Binds(d) ==
  \/ BindUnix(d) \/ SocketIdentity(d) \/ ProbeStale(d) \/ CheckIdentity(d)
  \/ UnlinkStale(d) \/ Rebind(d) \/ Listen(d) \/ ConfirmDial(d) \/ Confirm(d)

Lives(d) ==
  \/ StartByHand(d) \/ WriteLease(d) \/ OpenFails(d) \/ Stop(d) \/ RemoveLease(d)
  \/ DropListener(d) \/ CloseSocket(d) \/ Exit(d) \/ DropDaemon(d) \/ Crash(d)

Connection(x) == Accept(x) \/ Vet(x) \/ Answer(x)

EnsureDaemon(c) ==
  \/ Begin(c) \/ ProbeConnects(c) \/ ProbeFindsNobody(c) \/ MayNotSpawn(c) \/ ProbeFails(c)
  \/ TakeLock(c) \/ LockTimeout(c) \/ Spawn(c) \/ SpawnFails(c) \/ NeverReady(c)
  \/ Settle(c) \/ Leave(c)

Next ==
  \/ \E d \in Daemon : Binds(d) \/ Lives(d)
  \/ \E x \in Daemon \cup Client : Connection(x)
  \/ \E c \in Client : EnsureDaemon(c)

Spec == Init /\ [][Next]_vars

-----------------------------------------------------------------------------
\* Every variable keeps its type; who holds the lock is in the part of the call
\* the lock covers.
EndpointTypeOK ==
  /\ {entry, lease} \subseteq Daemon \cup {None} /\ lock \in Client \cup {None}
  /\ daemon \in [Daemon -> [pc : Binding \cup Listening \cup Ended
                                   \cup {"unborn", "beaten", "ending", "dropping"},
                            probed : Daemon \cup {None}, built : BOOLEAN]]
  /\ client \in [Client -> [pc : Probing \cup {"idle", "locking", "spawning", "connected"},
                            started : Daemon \cup {None}, record : Daemon \cup {None}]]
  /\ dial \in [Daemon \cup Client ->
                 [stage : Pending \cup {"none", "answered", "refused", "dropped"},
                  server : Daemon \cup {None}]]
  /\ \A x \in Daemon \cup Client : dial[x].stage = "none" <=> dial[x].server = None
  /\ \A c \in Client : lock = c <=> client[c].pc \in {"second", "spawning", "waiting"}
  /\ {unordered, displaced} \subseteq BOOLEAN

Owners == {d \in Daemon : daemon[d].pc \in {"unheard", "bound", "serving", "retiring", "closing"}}

\* A daemon that holds a listener can be reached until it removes its own file:
\* no daemon that starts, stops or was killed takes the name of a live one away
\* (bind_unix, "the second would unlink the first daemon's live socket"), but for
\* one that hit a window bind_unix leaves open.
OwnerIsNamed == ~displaced => \A d \in Owners : entry = d

\* Some daemon other than d has run Daemon::drop.
Followed(d) == \E e \in Daemon \ {d} : daemon[e].pc = "retired" /\ daemon[e].built

\* The lease beside the endpoint never describes anyone else than the daemon that
\* serves there, whatever daemons came and went around it (Daemon::bind,
\* Daemon::shutdown).  It can be missing, but only because an earlier daemon came to
\* the second removal of its lease, in Daemon::drop, after this one wrote its own.
ServingHasLease ==
  ~displaced =>
    \A d \in Daemon : daemon[d].pc \in {"serving", "retiring"} =>
      lease = d \/ (lease = None /\ Followed(d))

\* The two files of an endpoint, in a state where every process is somewhere
\* `bind_unix`, `serve` or `ensure_daemon` can be.
EndpointIsNamed == EndpointTypeOK /\ OwnerIsNamed /\ ServingHasLease

\* A client that reads another daemon's record is not connected to a daemon that is
\* still serving: a stale record never discredits a healthy daemon (settle).  One that
\* finds no record may be, after a Daemon::drop of an earlier daemon.
DoubtIsJustified ==
  ~displaced =>
    \A c \in Client :
      LET server == dial[c].server IN
      client[c].pc = "connected" /\ daemon[server].pc = "serving" =>
        client[c].record = server \/ (client[c].record = None /\ Followed(server))

\* The daemons Nysia starts for itself come one at a time: the lock is held until
\* the last one answers (discovery.rs, "Two clients racing to spawn").
LockSerialises ==
  ~unordered => \A d, e \in {b \in Daemon : daemon[b].pc \in Binding} \cup Owners : d = e

\* And so the file a killed daemon left never turns one of them away.
StaleSocketYields == ~unordered => \A d \in Daemon : daemon[d].pc # "beaten"

\* What the spawn lock is for.
SpawnsInTurn == LockSerialises /\ StaleSocketYields

\* Nobody waits for an answer that cannot come: neither the dial of a client nor
\* that of a defeated daemon has a deadline of its own before the handshake
\* (Client::connect), so a daemon that goes must break what it did not serve.
NobodyWaitsInVain ==
  \A x \in Daemon \cup Client : dial[x].stage \in Pending => Alive(dial[x].server)

=============================================================================
