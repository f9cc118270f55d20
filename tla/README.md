# A TLA+ model of nysia

Nysia is a terminal workspace that outlives its window.  A headless daemon
(`nysiad`, crate `nysia-core`, started by the binary `nysia`) owns pseudo
terminals, keeps their screens, and serves them over a local socket to a
desktop window (`apps/desktop`, whose webview is `apps/web`) and to a command
line.  This directory holds TLA+ modules that model the daemon and its clients,
TLC configurations that check them on small instances, and proofs that TLAPS
checks for every instance.  Every definition is read off the source; the table
`map` of `PROJECT.json` says which lines each one stands for.

## 1. The system

### Components, their state, and how they meet

| Component | State | Operations | Meets |
|---|---|---|---|
| Stream registry, `rpc/stream.rs` | client id -> stream connection; connection -> next stream id and sinks | bind, unbind, attach, detach, apply_credit, close of a sink | one mutex; called by every connection task |
| Connection tasks, `rpc/server.rs` | per socket: handshake, verb in progress, deferred work; the cache of receipts | hello, verbs, credit frames, teardown | registry, sessions, agent status |
| Session, `rpc/session.rs` | terminal state and replay ring; pending output; list of sinks; exit status | attach, read, send, resize, wait, close; the pump thread | pty threads, sinks |
| Session registry, `rpc/session.rs` | name -> session, incarnations | create, get, list, close, close_all | agent launch, store |
| Pty, `pty/session.rs`, `pty/teardown.rs` | reader, waiter and writer of one child | spawn, write, resize, shutdown | operating system |
| Sink, `rpc/stream.rs` | allowance, position in the pending buffer, outbox | send, replenish, close | pump, attach, stream task |
| Window: control side, `src-tauri/src/state.rs` | the live connection and its generation, stream table | connect, attach_channel, attach_session, detach_session, rendered | both sockets, webview |
| Window: reader, `src-tauri/src/daemon/stream.rs` | inbox of signals, credit ledger, one held frame | the read loop | stream socket, stream table, webview channel |
| Webview, `apps/web/src/transport` | per-stream ledger, surfaces, reconnect state | deliver, rendered, idle ack, connect sequence | window |
| Agent status, `rpc/agent_status.rs`, `rpc/spool.rs`, `store/status.rs` | newest status per pane, subscribers, spool file | record, restore, subscribe, broadcast, drain | hooks, store, sinks |
| Discovery and lifecycle, `rpc/discovery.rs`, `lease.rs`, `transport.rs` | lease file, socket, spawn lock, idle clock | probe, spawn, bind, retire | other processes |
| Projects and worktrees, `rpc/project.rs`, `worktree.rs`, `store/project.rs` | registered directories, worktrees | register, start, list | git, store |
| Terminal state, `vt/` | grid, line log, replay ring | feed, resize, read | pump |

The two connections of a client are independent sockets.  Verbs and their
answers travel on the control connection; terminal output, credit and agent
status travel in frames on the stream connection.  Nothing orders one against
the other except what the daemon does deliberately, and most of the hard
behaviour of the system comes from that.

### What is hard, and what makes each part correct

- *Reload and reconnect.*  A window that reloads opens a new stream connection
  under the same client id while the tasks of the old one are still running.
  A client id must always name its newest accepted connection, a late teardown
  of the old one must not touch it, and ids of one connection must never be
  confused with those of another.
- *Answer before frames.*  A client drops the connection on a frame with an id
  it was never told.  The answer naming an id must precede the first frame on
  the other socket, on every path, including failed writes and retries.
- *Flow control.*  One pump thread per session offers one buffer to several
  sinks with their own allowances.  It must neither lose, repeat nor reorder
  bytes, nor grow without bound, nor stop for ever; three ledgers (daemon,
  window, webview) must agree while panes come and go.
- *Threads that end each other.*  Closing a session stops a pump that may be
  waiting for a client, and a reader that may be waiting for the pump.
- *Locks taken one after another.*  The registry of sessions looks for a pane
  and inserts under two locks, the window asks, records and signals under three,
  a start lists the worktrees and adds one in two runs of git.  What others do
  in between decides.
- *Crashes and races between processes.*  Leases, sockets, spool files and
  spawn locks are shared with processes that may die at any point.

`PROJECT.json` lists these as `hazards`, each with its line and the properties
that would catch it going wrong.

## 2. Modules

| Module | Models | Its state and actions in the code |
|---|---|---|
| `StreamRegistry` | `StreamRegistry` of `rpc/stream.rs` | `connections`, `current`, `next_connection` are the fields of `Inner`; `sink` is the `closed` flag of every `StreamSink` ever made; `superseded` the permits of the `Notify`s.  One action per method; every method holds the one mutex throughout. |
| `StreamServer` | the tasks of `rpc/server.rs` over that table | `phase` is where `serve_io`/`serve_stream` is for each stream socket, `ctl` where `serve_control` is for each control connection.  A step is what happens between two `await`s or two locks. |
| `SessionOutput` | one session's pump, `attach` and `close`, with its sinks | `pump`, `attacher`, `closer` are program counters of the three kinds of thread; what one lock covers is one step, and a write of the pump's to the pty is one that may last. |
| `PtyConduit` | what the threads behind a pty promise the pump | chunks written, handed over, and whether the end was heard; the abstract specification of `PtySession`. |
| `PtySession` | one pty: `pty/session.rs`, and `pty/teardown.rs` on both platforms | `reader`, `waiter`, `consumer`, `closer` are the threads, `queue` and `hand` what is between master and consumer, `lock` the mutex of the writer; `proc`, `parent`, `foreign` are the processes of the session and which of them the daemon may not signal, `tree` what `collect_tree` found. |
| `DaemonSessions` | the session registry, the life of a connection and its verbs, receipts, retirement and shutdown: `rpc/session.rs`, `rpc/server.rs` | `table` is the map of sessions, `pty` the state of each, `receipts` the cache in its order of eviction; `conn`, `step` are where connections and requests are, `clients` and `in_flight` the counters `should_retire` reads, `daemon` and `victims` where shutdown and `close_all` are. |
| `WindowCredit` | credit from the daemon's sink to the pane and back | `allowance` is the sink's, `ledger`/`total` the desktop's `CreditLedger`, `pending` the webview's; `reader` is the loop of `daemon/stream.rs`.  `charged` is what exit frames have taken of a ledger entry; output may follow an exit, as it may in the pump. |
| `WindowStream` | the window between its webview and the two sockets: `src-tauri/src/state.rs`, `daemon/stream.rs` | `held` is `Client::inner`, `table` the `StreamTable`; `load`, `attach`, `detach`, `watch` are where the commands of the webview are, `reader` one reader thread per stream connection with its inbox, the frames it holds and what it showed; `peer` is the daemon's side. |
| `ProjectService` | the project verbs and the worktrees behind them: `rpc/project.rs`, `worktree.rs`, `store/project.rs` | `step`, `known`, `place` are where a request is and what it has looked up; `store` the table of projects, `cwd` the folders of the sessions; `trees`, `branches` (git) and `dirs`, `concealed` (disk; concealing is best effort and may fail) are changed by the service and by a person with a terminal. |
| `AgentStatus` | a pane's status from the hook process to the table, the spool and the windows | `hook` is where `nysia hook` is, `handler` the daemon's task for its request (on the blocking pool from `stamped` on), `spool` every spool file ever made with the name it has now, `leftovers`/`claimed`/`page`/`hand` the local variables of `drain`, `history` the table, `phase` and `life` the daemon that is running; `prompt` (history) the hooks whose write met the file under the pane's own name. |
| `DaemonEndpoint` | the socket file, the lease, the spawn lock and the processes around them, on Unix | `entry` and `lease` are the two files, by whose they are; `daemon` is where each daemon is, from `bind_unix` to its exit and to `Daemon::drop`, and the inode `bind_unix` sampled; `client` is where `ensure_daemon` is; `dial` is the connection of each process, from the backlog to the answer.  A step is one system call or what happens between two. |
| `DaemonVerbs_proofs`, `DaemonSessions_proofs`, `WindowStream_proofs`, `WindowCredit_proofs`, `SessionOutput_proofs`, `AgentStatus_proofs`, `DaemonEndpoint_proofs`, `PtySession_proofs` | theorems about the modules they are named after; the first about what control connections reach: `StreamRegistry` and `StreamServer`, and `ProjectService`, which shares no state with them | |
| `MC...` | instances for TLC | |

How they compose.  `StreamServer` EXTENDS `StreamRegistry`: its steps are made of
the registry's own actions, so that it implements `RegistrySpec` (the registry under
callers that may do anything) by construction, and what is proved of the registry holds
of the server.
`PtySession` implements `PtyConduit` under a refinement mapping (`Conduit`): the
queue, the chunk in the reader's hand and what the kernel still holds are the
conduit's transit.  It is the interface at which the pump of `SessionOutput`
begins.  `WindowStream` takes the daemon for the honest peer that `StreamServer`
describes: ids count up, the answer that names one precedes its frames.
`DaemonSessions` and `DaemonEndpoint` meet at retirement, which the second has as one
step that may happen whenever the first allows it.

Data are abstracted to what the properties distinguish.  A frame is a kind and
an interval of the child's byte numbers; a session's output is the numbers
1, 2, ..; a client, a socket or a sink is a model value or a small number; a path
is a sequence of components.  A status row is its hook, its clock reading and whether
it was restored.  Ids are bounded (`Ceiling`, `MaxKey`), as are requests
(`MaxRequests`, `MaxReleases`), output (`MaxBytes`, `MaxOutput`, `MaxChunks`,
`MaxFrames`), reconnects (`MaxReconnects`), processes that change
their user (`Switchers`), failures (`MaxFailures`), what a person
does beside the daemon (`MaxMeddling`), clock ticks (`MaxClock`) and daemons
(`MaxLives`); `Casts` says which commands a behaviour of the window consists of, and
`Refreshing` which attaches may overlap.  Each bound is a constant and appears in a guard.

## 3. Runs

| Run | Question | Bounds and why they are enough |
|---|---|---|
| `server` | Do reloads, lost answers, retries, detaches and broadcasts leave the table, the sinks and the clients consistent? | One window with two stream sockets (a reload, symmetric) and two control connections, retries on the second; two attaches or subscribes, one release.  Two of each is what a race needs: every property relates at most two connections and two ids.  1.0 million states. |
| `output` | Is a client's stream well ordered while it attaches, the child exits and the session closes; does `close` come back; do two clients share one buffer without loss, and does the pump ever stop for good? | `Plays` says what a behaviour consists of: one client that attaches while the child exits and the session is closed or left, two bytes; the same without the exit, three bytes; or two clients, of which one is ahead of the other, blocked while the other is not, or both are.  A ring of 2 (so it is trimmed), windows that open at 1 and chunks of 2 (so the last chunk overdraws), a flush ceiling of 2, an outbox of 3 (so it fills).  0.4 million states. |
| `credit` | Do the three ledgers agree, what can a daemon that keeps to the window be dropped for, and does every rendered window reopen? | Two panes, one that writes a byte and may be closed, one that writes five and has an exit among or after them; windows of 3 under a shared budget of 5, chunks and acks of 2, an exit frame of 1: a sink overdraws, a batch is partial, a read completes two frames, and output that follows the exit finds the window short by it.  The connection is replaced once.  `ReadDeadline` is TRUE: without it `WindowReopens` fails, see below.  That the shared budget is short while the stream's own credit would do takes sizes this run does not have; that clause rests on the proof.  1.4 million states. |
| `agent_status` | Is a report that was taken, or spooled in time, kept, restored at most once, and never above a newer one? | Two hooks, of the lead, a subagent or no state; a history of two rows; a spool of one row, so that it fills; two daemons, each killed or stopped at any step; two clock readings, so that rows tie and differ. |
| `agent_spool` | Is every row that was spooled kept? | No: see Divergences.  The bounds are those of `agent_status`. |
| `agent_window` | Does a window that missed nothing show the pane's status? | No: see Divergences. |
| `endpoint` | Do daemons that start together, stop or die ever take the name or the lease of the one that serves, or leave somebody waiting? | Three daemons, because the race in `bind_unix` takes two that start on the file of a third; two clients, because the spawn lock takes two; every process may be killed at any step, and what `Daemon::drop` does at the end of one comes at any time after its successor.  TLC stops at a step that displaces a daemon (see below). |
| `pty` | What outlives a kill, what is the consumer handed, and does `shutdown` return? | Both platforms; two processes, so that one forks, is reparented or leaves the session while the other is killed; three chunks through a kernel buffer of one and a queue of one, so that each stage fills and the reader blocks with a chunk in hand.  The job may become another user's and the daemon's again (`Switchers`; the shell does not, which the proof does not need).  0.5 million states. |
| `daemon_sessions` | Does a retry run once, does a shutdown leave a session behind, does a daemon left alone retire? | Two connections; two creates that race for one pane, one of them a retry of the other, a third without a pane, and a close: the smallest in which a receipt of capacity 1 is evicted, a close meets the retry, and all of them meet the retirement or the interrupt. |
| `projects` | Does a start get the branch it names, is a session listed where it runs, is the store without twins? | One repository; two starts of one branch and one of a second branch with the same slug; an open, a registration, a forget, a listing; one change by a person at any moment, which is what it takes to make any looked-up fact stale; two directory attempts, so that the first may be taken. |
| `project_stale` | Is a directory that `free_directory` chooses unused? | No: see Divergences. |
| `window` | Do the window's table, its readers and the daemon agree while pages reload, sessions attach and detach, and sockets fail? | A page that loads twice with one session attached, detached and watched, or attached again, and a page that loads once with two sessions attached beside each other; the first connection of either kind may fail; two frames, so that one is held and one overtakes it.  Twice is what a reload is; two sessions is what an id recorded out of order takes.  The connection of the second load carries no frames within the bounds: what is claimed of its readers rests on the proofs. |

What the properties say is written above each of them in the modules.  Several are
conjunctions of named parts: `TableConsistent`, `BuffersBounded`, `BooksBalance`,
`HistorySound`, `EndpointIsNamed`, `SpawnsInTurn`, `SessionIsReaped`,
`SessionsAreHeld`, `StoreIsSound` and `TableAgrees` each join the invariants that make
one structure sound.  Every property of a passing run has a mutant (`mutants` in
`PROJECT.json`): a changed definition, as a plausible bug would change it, under
which TLC finds the property violated.

Runs have `CHECK_DEADLOCK FALSE` because the systems do stop: clients send a
bounded number of requests, children write a bounded number of bytes, a daemon is
started at most once.

Some properties say of which behaviours they are about:

- `bind_unix` leaves two windows in which a daemon unlinks the socket of another
  that lives.  One is documented (`transport.rs:499-504`): a socket bound between
  the check of the identity and the unlink.  The other is not: tokio's bind is
  bind(2) and then listen(2), and a probe between the two is refused like that of
  a dead socket.  Both take two daemons started outside the spawn lock.  The
  history variable `displaced` records that one was hit; `EndpointIsNamed` and
  `DoubtIsJustified` claim nothing after it.  `unordered` records that a daemon was
  started without the lock, or that a client gave the lock up before its daemon
  had bound; `SpawnsInTurn` is about the others.  Inode numbers are taken not to be
  used again while a probe is under way.
- `overlaps` records which commands of the window ran into each other: a load with an
  attach or a detach (`"commands"`), two attaches, or a detach with frames that are held
  (`"sessions"`).  `PeersAgree` is about behaviours with neither, `StreamsAreFed` and
  `HeldIsWoken` about those without the first.  `HealthyIsKept` and `DeliveredInOrder`
  are about all of them.
- `excused` are the retries that came while the original was running, or after its
  receipt had made room: the code does the work again for these, and `RetryRunsOnce` is
  about the others.  `late` are the sessions inserted after the snapshot of
  `close_all`.  `fresh`, `escaped` and `refused` are the processes forked after the tree
  was collected, those that had left it, and those that refused the last signal, or the
  probe before it, as another user's; `SessionIsReaped` is about the others.
- `prompt` are the hooks that wrote while their file had the pane's own name.
  `PromptIsKept` is about them; `NothingVanishes`, which the code claims, is about all,
  and the run `agent_spool` refutes it.
- `Followed(d)`: another daemon has been dropped.  Only then may the lease of a daemon
  that serves be missing (`EndpointIsNamed`), or a client of it have found no record
  (`DoubtIsJustified`); it is never another daemon's.

### Fairness

- `SessionOutput`: the pump, a started attach and a started close are threads
  the operating system schedules; time passes (`Ages`); a client reads its
  socket and acks what it rendered.  Nobody has to attach, write, exit or close.  The pump
  writes the terminal's replies to the pty and stands there while the child reads no input
  (`session.rs:1464-1471`): that write has no fairness, nor has a close while it stands,
  and `NoStall` and `CloseReturns` leave out the behaviours that end in it (`StuckInWrite`).
- `PtySession`: the reader, the waiter and a started shutdown are threads (weak); the
  writer's mutex is granted in the end (strong, because others take it in between); a
  write to the pty ends where nothing can block it.  No process has to read, exit or
  fork, and the consumer need not take another chunk.
- `DaemonSessions`: the tasks of connections and verbs, the drop of a session and a
  started shutdown (weak); the ticker ticks (weak), and retires where it finds the
  daemon idle again and again (strong, because clients come and go between ticks).
  Clients need do nothing.
- `WindowCredit`: the reader thread runs, acks arrive, a pane that was given
  bytes renders them, and its idle timer fires.  No fairness is assumed of the
  daemon's sending or of the user.
- `StreamServer`: a task whose `select!` has a ready arm is polled (weak).  No property
  of a run rests on it: that a superseded task hears of it is an invariant
  (`SupersededIsWoken`).
- `AgentStatus`, `DaemonEndpoint`, `ProjectService`, `WindowStream`: none; their
  properties are about what is never lost, repeated, taken or put in the wrong order.

## 4. Proofs

Of the registry `DaemonVerbs_proofs` proves, for any clients and any bounds, `RegistryTyping`,
`RegistryTable` (`TableConsistent`) and `RegistryClosedForGood` (an action property).
They rest on one assumption, `RegistryAssumption`: the two bounds are positive naturals.
The argument is one inductive invariant, `RegistryInv`: the type invariant,
`NamesAndConnectionsAgree`, `OpenSinkIsRouted` and `IdsBelowWatermark`.  None of the
three is inductive alone.  That a bound connection starts with no sink of its key
open needs keys to be below the counter; that an attach adds an entry nobody had
needs ids to be below the watermark; that a bind removes every trace of the
connection it supersedes needs names and connections to agree.  The proof has an
*effect lemma* per method (`BindEffect`, `AttachEffect`, `UnbindEffect`), which says
what the method does to each part of the table in plain set-theoretic terms, and a
preservation lemma per action that uses only the effect.  `RegistryClosedForGood`
follows from `RegistryInv`: an attach writes only a sink that did not exist.

Of the server it proves, for any clients, sockets, control connections and
bounds: `ServerTyping`, `ServerTable`, `ServerAccepts` (`AcceptedConnectionIsCurrent`), `ServerReaders`
(`OpenSinkHasReader`), `ServerAnswersFirst` (`FramesFollowAnswer`), `ServerForgives`
(`AckKeepsConnection`) and `ServerWakes` (`SupersededIsWoken`), from
`ServerAssumption` and `RegistryAssumption`.  That every step is a step of the
registry or a stutter follows from how the actions are written, and needs the types alone
(a lemma, `ServerImplementsRegistry`); `RegistryInv` is so inherited rather than proved
again.  The server's own invariant `ServerInv` adds two parts.
`SocketsInOrder` ties sockets to connections: a key belongs to one socket, every
registered key to a task that still serves it, and the socket a client opened last
holds its name from the bind on.  `AnswersInOrder` follows a sink from its
reservation: what a receipt, an answer or a client names was handed out, what is
about to start was told, and an open sink was told or is in an answer that is being
written.  The second is what fails without `abandon` on a write that failed, and the
first without the order of bind and acceptance.

Of the projects it proves, for any requests, branches, folders and any person beside the
daemon: `ProjectBranches` (`BranchHonoured`), `ProjectListings` (`ListedWhereItRuns`) and
`ProjectRows` (`StoreIsSound`: typing, `NoTwins`), from `ProjectAssumption`: a request has
one verb, paths are not empty, and the main worktree is not itself put into the `Base` of
the person's.  The invariant `ProjectInv` has a part per matter beside the types.
`PlacesInOrder`: a worktree that git lists is the main one, the person's, or one a start
made directly in `Base`.  `BranchKept`: what a start has found or made is of its branch
from then on, because git lets nobody check the branch out elsewhere, and prunes only what
the person took away (`DOMAIN trees \ dirs \subseteq touched`).  `Attributed`: a session never
changes its folder, so whatever a listing attributes worktree by worktree agrees, though
the lock is given up in between; the lemmas about paths (`AsLongIsSame`,
`DeepestOfItself`) say why the deepest folder that covers a worktree is that worktree.
`RowsInOrder`: rows are of the main worktree, or of the person's where that is not in
`Base` (`Registrable`); `RootIsRegistrable` shows that `registration_root` returns nothing
else.  It needs that of several worktrees in whose `Base` a folder lies the first in git's
list, the main one, is taken.

`DaemonSessions_proofs` proves, for any connections, requests and capacity:
`DaemonRetries` (`RetryRunsOnce`) and `DaemonHolds` (`SessionsAreHeld`), from
`DaemonAssumption`.  In the invariant `DaemonInv`, `RetriesInOrder` says that an answer
with a result is in the receipts, or its retries are excused, and that a retry past the
receipts is excused or has an original that is over without one; `SessionsInOrder`
says what `close_all` still has to close and what is left of the table at each stage of
the shutdown, that a living session is held by somebody or came late, and that nobody
is at work on the blocking pool once the daemon has exited.  The counters of
`should_retire` are cardinalities; that they stay right needs the finiteness of
connections and requests.

`WindowStream_proofs` proves, for any loads, attaches, detaches and watches: `WindowKeeps`
(`HealthyIsKept`) and `WindowLetsGo` (`WatcherIsLetGo`), from `WindowAssumption`.  The
invariant `WindowInv` has a part per actor.  `LoadsInOrder`: loads come one at a time, and
one that claimed a generation holds the live connection with no stream in it, and the
daemon bound to an older one, until its handshake.  `ReadersInOrder`: the reader of the
live generation was never told to stop, it ends only with its stream lost or
astray, the daemon closes on it only once it is gone, and nothing is known of a
generation nobody claimed.  `WatchersInOrder`: a watcher parks on a connection, and
one whose connection is gone or replaced is about to be woken.  The proof needs that loads do not
overlap: without `LoadRuns = {}` in the start of a load it fails.

`WindowDelivers` (`DeliveredInOrder`) rests on a second invariant over the first,
`LineInv`, which puts the frames of a connection in one line: of each id, what was shown
comes before what is held, that before what is in the buffer, that before what is on
the wire, and that before what the daemon writes next.  The frames held are of one id, a
closed connection is never bound again, and nothing is written on it.

`WindowTable` (`TableAgrees`), `WindowPeers` (`PeersAgree`) and `WindowWakes`
(`HeldIsWoken`) rest on both.  `TableInOrder` has an id in one place at a time: on its way
into the table (answered and not recorded), in it, or on its way out (forgotten, and the
daemon not yet asked or still being asked); what is in the table or on its way into it is
fed by the daemon on the generation it is bound to.  `CountInv` types the table and relates
`overlaps` to what runs.  From there `PeersInv` follows the watermark of the table: it is
the id that comes next, or the one whose answer is being recorded, so no frame is above
it; and what the daemon feeds below it is routed or leaving.  The reader of the live
connection reads what the daemon wrote on that connection and on no other
(`BoundInOrder`), and reads nothing while it holds a frame (`HeldInOrder`), which is why
the frame it holds is at the watermark or can be delivered.  `HeldIsWoken` is inductive
once a load that has spawned its reader is known to have emptied the table.

`WindowCredit_proofs` proves, for any panes, bytes and sizes: `CreditBalances`
(`BooksBalance`: typing, `LedgerBalances`, `SharedBudgetBalances`, `MirrorAgrees`) and
`CreditHonest` (`HonestDaemonIsKept`), from `CreditAssumption`: the window is coherent, as
`is_coherent` demands, and there are finitely many streams.  The invariant `CreditInv`
has a part per question.  `LedgerOK` has the three sums that stay constant; they hold
because no cap of the window ever bites (`NothingIsCut`: what `drain_ack` and `detach`
clamp is never above the cap), and an ack is never clamped because of the mirror.
`MirrorAgrees` bounds what the daemon may still send on a stream and has yet to hear was
acked (`Promised`): it is no less than the ledger's credit and no more than that and what
exit frames have taken of it (`charged`), wherever the exits come.  It and
`NeverOverdrawn` rest on each other and on the order of things on the way: a detach is in
the inbox before the pane counts as told (`DetachIsTold`), and the reader has routed its buffer
before it takes a signal (`BufferIsRead`).  `NothingMadeUp` follows a rendered byte from the
ledger through the webview and back, which is why no ack is phantom.  The shared
budget is a sum over streams, a fold that the library defines by a recursive function
that CHOOSE takes; the first part of the module shows that such a function exists (by the least size
at which it would not), that the order of the members does not matter, and what a sum
does when a member changes, comes or goes.

`SessionOutput_proofs` proves, for any sinks and any sizes: `OutputInOrder`
(`LiveOutputInOrder`), `OutputReplays` (`ReplayThenLive`) and `OutputBounded`
(`BuffersBounded`: typing, `WindowHonoured`, `PendingBounded`), from `OutputAssumption`:
the sizes are positive, a search for a newline ends within the ring (`AlignScan < Ring`)
and a window opens no wider than it may be (`Initial <= Maximum`).  The invariant
`OutputInv` has three parts beside the types.  `OutboxesHold`: an outbox takes no frame
it has no room for, without which the number of chunks `flush_all` sends would not be a
natural number.  `PumpInOrder`: what the terminal state was fed is in the buffer, but for
one chunk while the pump carries it, and the pump reads only below the ceiling.
`SinkInOrder`: a sink is in the list only once its attach is through, with nothing live
in its outbox before; from then on its live output ends at the byte `base + delivered`,
where `flush_all` resumes.  `FlushAllEffect` needs that a finite minimum exists (`Least`,
by well-foundedness) and that all chunks of a stretch but the last are full
(`ChunksFill`).  The account of a sink has an invariant of its own, `CreditInv`, that needs
nothing of the order: what a client has not acked, what its outbox holds untaken and what
credit is left add up to `Initial` (`Balanced`).  It is kept because what an outbox takes
in is what its sink spends (`Takes`, `TakenIsSpent`); because chunks are sent only on
credit above zero, so the debt stays below one chunk; and because an ack gives back
what was spent and so never meets the cap `Maximum`, which would swallow the rest.  What an
outbox carries is a sum over its frames by a recursive function; that there is one is shown by
the least length at which there would not be (`SumExists`).

`AgentStatus_proofs` proves, for any hooks, agents and bounds: `StatusHistory`
(`HistorySound`: typing, `RestoredYieldsToLive`, `NoEcho`), `StatusDelivered`
(`DeliveredIsKept`), `StatusOnce` (`HandedOverOnce`) and `StatusPrompt`
(`PromptIsKept`), from `StatusAssumption` (the bounds are positive, the lead is an
agent).  The inductive invariant `StatusInv` follows a report through the system: a
hook that fired keeps its clock reading and its agent (`HooksGoOnward`); a task
stamps a later reading (`Staged`); what the spool, a page or a drain holds is of
hooks that have spooled (`SpoolStaged`); so every row is of a hook that fired,
restored ones as old as the hook's reading, live ones no older (`HistoryStaged`).
`NoEcho` is not inductive: it follows from these and `RestoredYieldsToLive`, because a
copy that stood above its original would have to be both newer and no newer.
`AppendedEffect` says what appending and trimming do to one history.  The last two
theorems rest on a second invariant over the first, `SpoolInv`: a row is in one file, in
hand or settled, never in two of these and never twice in one, and a page that was read
holds nothing its file does not (`Once`).  Of the rows that were written under the pane's own
name it holds all (`PageHolds`), because a file that is read has lost that name for good and
more of these cannot come: removing it loses only rows that were written after the rename.
A row is new when it is written, because `StatusInv`
has every row anywhere to be of a hook that has spooled.

`DaemonEndpoint_proofs` proves, for any daemons and any clients: `EndpointNames`
(`EndpointIsNamed`: typing, `OwnerIsNamed`, `ServingHasLease`), `EndpointDoubt`
(`DoubtIsJustified`), `EndpointWaits` (`NobodyWaitsInVain`) and `EndpointTurns`
(`SpawnsInTurn`), from
`EndpointAssumption` (daemons, clients and `None` are different things).  The inductive
invariant `EndpointInv` turns on what `bind_unix` sampled.  A daemon binds at most
once, so the owner of a file has bound for good (`Known`), and a probe that was
refused by one that listens no more was refused by a dead one; the comparison of
inodes then makes what is unlinked either that dead socket or a live one that came
after it, which is the second window (`Named`).  That nobody waits in vain needs to
know at which daemon each stage of a connection can stand (`Dialled`), and the doubt
of a client needs both.  `DaemonStep` sorts the nineteen actions of a daemon into eight
effects, and the lemmas about names and leases see only these.  One of them, `Drops`, is the
removal of the lease by `Daemon::drop`, whosever it is by then: a lease that is missing
from then on has a dropped daemon behind it (`Followed`), which stays so (`FinishStep`,
`FollowedStays`).  As in the run, the
theorems about names, leases and doubts say nothing of a run that has hit one of the
two windows.  `EndpointTurns` has an invariant of its own, `TurnInv`, for runs in which
clients alone start daemons: a daemon on its way to the bind is the one the holder of
the lock has started and waits for (`Expected`).  So nobody answers while it binds, and
the file it sampled is the one it finds.  A client that starts one met nobody under the
lock, so none is there; neither window is ever hit.

`PtySession_proofs` proves, for any processes, chunks and capacity: `SessionReaped`
(`SessionIsReaped`) and `SessionIsAConduit` (`Spec => ConduitSpec`), from `PtyAssumption`.
The invariant `PtyInv` has a part per matter.  `KillInOrder` says that at each stage of
`kill_tree` every live process is in a set that is still to be killed, or has escaped the
table, or has refused the last signal or probe that was meant for it.  It
rests on `CollectionIsWhole`: what `collect_tree` gathers, as the least set that
holds leader and session and is closed under children, misses nobody but the escaped,
because the parents the table shows are alive themselves (`ParentsLive`).
`ChunksInOrder` and `ConsumerInOrder` put what was delivered, queued, in hand and unread
in one order and say when a thread can be gone.  The refinement joins queue, chunk in hand and what
the kernel holds into the one sequence in transit; the lemmas `Joined...` say what taking
from its head, dropping the chunk in hand and moving a chunk along do to it.

Only model-checked: what is stated under fairness or of what happens in the end (liveness
and ENABLED are out of the prover's reach).  Every invariant a run checks has its theorem.

## 5. Divergences

Where the model, which does what the code does, disagrees with what the code's
documentation says, each a run that ends in a counterexample.

1. *`agent_window`*: record, read back and broadcast are one closure on the
   blocking pool with no lock over the three (`server.rs:846-852`).  Of two hooks
   served at once, the one that read the older status may broadcast last, so the
   next frame is not the right one (`agent_status.rs:218-220`).
2. *`project_stale`*: `free_directory` looks for "a directory under `base` that nothing
   is using yet" (`worktree.rs:505`) and asks only whether the path exists
   (`:521`).  A worktree whose directory was deleted is still git's, so the path is
   chosen and `worktree add` refuses it; the refusal is marked retryable
   (`project.rs:825`), and every retry chooses the same path until somebody prunes.
3. *`agent_spool`*: the drain renames every file before it reads any, so that "no line can
   arrive after its file was read and before it was unlinked" (`spool.rs:250-252`, and
   `:110-111`).  But `append` opens the file and then writes to the handle (`:183-196`): a
   hook that opened before the rename writes to the renamed file, and when that is
   after the read its row is removed with the file.

### Seen in the models

What the models do, following the code, that no run is about.

Output and credit:

- `attach` takes the replay under the lock of the terminal state and joins the list of
  sinks under another lock.  Bytes flushed in between are in neither; bytes fed
  before the snapshot and still pending are in both (`session.rs:714` and `:758`,
  against `vt/replay.rs:3`).
- A sink with any credit left may send a whole chunk; the desktop's ledger refuses a
  frame longer than the credit left, as a protocol violation, and drops the
  connection.  `is_blocked` stops the reader before a single pane overruns, as long as a
  read completes one frame; a read that ends a frame it had in part and completes the one
  behind it routes both without asking again, and a second pane keeps the reader going
  anyway.  The same happens to an exit frame,
  which costs no credit at the daemon (`stream.rs:271`) and is charged like output by
  the window (`credit.rs:242`), and to the total over all streams, which the daemon does
  not track at all.  `HonestDaemonIsKept` therefore claims what is left: output overruns the
  stream's own credit by less than a chunk, and where the credit would do, it is the
  budget that other panes have used or that was not given back yet.
- Output may follow the exit of its stream: the pump announces the exit and goes on until
  the pty ends (`session.rs:1487-1495`).  The daemon counts that output against a window
  the desktop has charged for the exit too, so that it may be refused where it would
  have fitted.  `HonestDaemonIsKept` allows for the charge.
- The charge for an exit frame is not given back either.  Where the window grants no more
  than a chunk, which `is_coherent` allows, the ledger entry of a pane whose child exited
  stays below a chunk; if it is the only one open, the reader is blocked until it is detached or another is opened.
- After a reconnect, an id that is used again may ack bytes rendered on the
  connection before: `resetStreams` (`terminals.ts:243`) leaves the webview's
  ledger alone.  `HonestDaemonIsKept` excludes a phantom ack for the first connection.
- With a socket whose reads cannot time out (`ReadDeadline = FALSE`, named pipes
  on Windows) and two panes, a busy pane's acks wait behind a read that only a
  frame of the idle pane would end (`endpoint.rs:30-60` says correctness does not
  rest on the deadline).
- The last bytes of a child, if they find a spent window when the pty ends, are
  flushed once and then dropped (`session.rs:1482`, `:1496`).
- An exit recorded after `attach` looked for one and announced before the sink
  joined the list reaches the client by neither path (`session.rs:753-758`); nor
  does one that finds the outbox full.

Stream connections:

- A client reloads between sending `agent_status_unsubscribe` and the daemon serving
  it; the daemon looks the connection up when it serves, so the subscription of the
  *new* connection with the same id is released (`server.rs:886`, against
  `stream.rs:517-519`).
- The answer to an attach cannot be written; between `abandon` and
  `receipts.forget` (`server.rs:670-677`) a retry on another connection is still
  answered with the abandoned id.

The window:

- Two attaches answered in one order and recorded in the other move the watermark of
  the table past an id that is not recorded yet: its frames, which `route` should
  hold, are discarded as "the tail of a detach race", or the connection is dropped when
  the held one waits out `PENDING_DEADLINE` (`state.rs:876`).
- An attach or a detach that overlaps a load: an answer of the old connection is recorded
  in the table of the new one, or one of the new connection is wiped by the reset;
  a detach closes the session that has the same id on the new connection
  (`state.rs:907`, `server.rs:886`).
- A session that is detached between the recording of its id and the release of the
  frames held for it: `settle_pending` asks the table and never the watermark, waits
  two seconds and drops the whole connection.
- Between the spawn of a reader and the installation of its `Stream`, the signal of an
  attach has nobody to go to; a reader that is blocked for credit learns of the id at
  the next `READ_POLL`.

Sessions and the daemon's life:

- Two creates may both find a pane free and both start, the check and the insert being
  under two locks (`session.rs:1146-1155`, "Refused, never silently rebound").
- A retry that arrives while the original runs does the work again
  (`server.rs:707`), and what it did is stored under its own id.
- `should_retire` reads its counts one after another: a client that is accepted and not
  yet counted, or a session created after the reads, meets a daemon that is going.
- A session inserted between the snapshot of `close_all` and the clear is dropped after
  its client was told of it, and a create in flight at a shutdown may outlive the
  table; verbs on connections that are open are not refused once it has begun.

The pty:

- A child forked between `collect_tree` and the first signal is missed if everything else
  dies within the grace period, because the tree is collected again only for
  stragglers.
- A signal to a process of another user is refused.  The code warns where the whole group
  refuses and goes on (`session.rs:653-655`, `:669-671`), and `all_gone` reads the refusal of the
  probe as the end of the process (`teardown.rs:280-283`), so a grace period may end early
  and `shutdown` return as usual with such a process left.
- A survivor that holds the slave and does not read keeps a blocked write, which keeps
  the mutex of the writer, which `shutdown` waits for: `ShutdownReturns` excludes it as
  `HeldUp`.

Discovery and the spool:

- A daemon removes its lease twice, in `shutdown` before its listener goes and in `drop`
  after it (`server.rs:1220-1224`, `lease.rs:159-161`), the second time whosever lease it is.  A
  daemon that has bound in between serves on without one, and clients that reach it read no
  record (`discovery.rs:449-453`).  `SpawnsInTurn` rests on the probe and not on the lease.
- `confirm` takes a connection that is broken off without an answer for a daemon that
  answers (`daemon.rs:134`, against `:156-158` and `main.rs:57-59`).  The window is as
  long as the daemon it dialled takes to close its sessions: it has stopped accepting,
  and still owns the socket.
- Of two daemons started by hand, one may be unlinked between its bind(2) and its
  listen(2), although the comment says one window remains (`transport.rs:499-504`).

## 6. Plan

Done: `StreamRegistry`, `StreamServer`, `SessionOutput`, `WindowCredit`, `AgentStatus`,
`DaemonEndpoint`, `PtySession` over `PtyConduit`, `DaemonSessions`, `ProjectService`,
`WindowStream`; proofs of all of them.

Left, in order:

1. `DaemonSessions` over `PtySession`: the shutdown of one session is a step there, and
   `ShutdownReturns` is what it rests on.
2. The reconnect sequence of the webview (`DaemonStore.ts`), with the spawn policy and
   the budget of probes, over `WindowStream`; overlapping loads.
3. The line log and the OSC sniffer as pure algorithms against reference definitions.
4. Named pipes, in `DaemonEndpoint`.

## 7. Not modelled

- Rendering, settings and layout of the user interface; serialisation; the verification
  of peers by operating-system credentials; the git and GitHub child processes; the
  terminal grid, which is a library.  They keep no state that other components race
  for, or none that is more than a function of its input.
- In modelled components: resizing a pty, pids that are used again, a process table that
  cannot be read; incarnations and leaders of sessions; verbs that only read a
  session or write to it; two loads of the window at the same time, `request_aside`,
  losing the race to connect, several credit windows; folders of many repositories,
  bare repositories, the legality of branch names, the listing of several projects;
  named pipes.  Each module's header and the notes in `PROJECT.json` say what stands in
  their place, which is a nondeterministic outcome where they have one.

A large part of the files listed under `components` is tests, documentation, parsing and
formatting, which the models do not stand for: the map covers what the definitions
translate, and no more.  `PROJECT.json` lists every component with its status.
