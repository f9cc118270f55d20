----------------------------- MODULE PtySession -----------------------------
(***************************************************************************)
(* One pty session: crates/nysia-core/src/pty/session.rs (PtySession and   *)
(* PtyOutput) and the tree kill of pty/teardown.rs.                        *)
(*                                                                         *)
(* Four threads: the reader drains the pty's master into a bounded queue,  *)
(* the waiter reaps the leader, the consumer (the pump of rpc/session.rs)  *)
(* takes chunks from the queue and now and then writes an answer to the    *)
(* pty, and one caller runs `shutdown`.  Beside them the processes of the  *)
(* session fork, write, exit and leave it with setsid.                     *)
(*                                                                         *)
(* A chunk is one read of the master; chunks are numbered as written.      *)
(* Time is not counted: a grace period or a timeout may end at any moment. *)
(***************************************************************************)
EXTENDS Naturals, Sequences, FiniteSets, SequencesExt

CONSTANTS
  Procs,      \* process ids the children of a session can get
  Leader,     \* the pid of the child `spawn` starts
  Nobody,     \* no process: the parent of a process whose parent has died
  Platforms,  \* of {"unix", "windows"}
  Switchers,  \* bound: processes that may change their user
  MaxChunks,  \* bound: chunks ever written, the last of them a console's flush
  PipeMax,    \* chunks the kernel's buffer of the pty holds
  QueueMax    \* SessionSpec::output_queue

ASSUME PtyAssumption ==
  /\ Leader \in Procs /\ Nobody \notin Procs /\ Switchers \subseteq Procs
  /\ Platforms \subseteq {"unix", "windows"}
  /\ {MaxChunks, PipeMax, QueueMax} \subseteq Nat \ {0}

VARIABLES
  os,         \* which platform the session runs on
  proc,       \* a process: never started, live, dead and not reaped, gone
  parent,     \* its parent, as the process table has it
  group,      \* the processes in the leader's process group
  member,     \* the processes whose session id is the leader's
  foreign,    \* those of another user, which the daemon may not signal
  escaped,    \* (history) those no relation led to when the tree was collected
  fresh,      \* (history) those forked since the tree was last collected
  refused,    \* (history) those that lived on through the last signal or probe meant for them
  written,    \* chunks written to the pty
  read,       \* chunks the reader has read
  hand,       \* the chunk `send_chunk` holds, or none
  queue,      \* the bounded channel
  reader,     \* the reader thread
  discarding, \* its local of that name
  got,        \* the last chunk the consumer took
  heard,      \* the consumer has been answered Output::Eof
  consumer,   \* the consumer
  client,     \* another thread that writes to the pty
  lock,       \* who holds the `writer` mutex through a write
  exit,       \* the exit slot is set
  waiter,     \* the waiter thread
  closing,    \* PtySession::closing
  closer,     \* the thread that spawns the session and later shuts it down
  tree, late, \* its locals in kill_tree
  writer,     \* PtySession::writer is still there
  master      \* PtySession::master

procVars   == <<os, proc, parent, group, member, foreign>>
readVars   == <<read, hand, reader, discarding>>
takeVars   == <<got, heard, consumer>>
inputVars  == <<client, lock>>
waitVars   == <<exit, waiter>>
closeVars  == <<closing, closer, tree, late, writer, master>>
histVars == <<escaped, fresh, refused>>
vars == <<procVars, histVars, written, queue, readVars, takeVars, inputVars, waitVars, closeVars>>

Live == {p \in Procs : proc[p] = "live"}

Closers ==
  {"spawning", "open", "collect", "term", "grace", "killgroup", "recollect", "killtree",
   "killlate", "exit", "writer", "master", "reader", "waiter", "done", "failed"}

PtyTypeOK ==
  /\ os \in Platforms
  /\ proc \in [Procs -> {"none", "live", "zombie", "gone"}]
  /\ parent \in [Procs -> Procs \cup {Nobody}]
  /\ {group, member, foreign, escaped, fresh, refused, tree, late} \subseteq SUBSET Procs
  /\ written \in 0..MaxChunks /\ read \in 0..written
  /\ hand \subseteq 1..read /\ Cardinality(hand) <= 1
  /\ queue \in Seq(1..read) /\ Len(queue) <= QueueMax
  /\ reader \in {"reading", "sending", "done"}
  /\ got \in 0..read
  /\ consumer \in {"none", "takes", "replies", "gone"}
  /\ client \in {"idle", "writes"}
  /\ lock \in {"free", "consumer", "client"}
  /\ waiter \in {"none", "waiting", "done"}
  /\ closer \in Closers
  /\ master \in {"open", "closing", "closed"}
  /\ {discarding, heard, exit, closing, writer} \subseteq BOOLEAN

\* `openpty`, `spawn_command`, and the reader is running.
Init ==
  /\ os \in Platforms
  /\ proc = [p \in Procs |-> IF p = Leader THEN "live" ELSE "none"]
  /\ parent = [p \in Procs |-> Nobody]
  /\ group = {Leader} /\ member = {Leader} /\ foreign = {}
  /\ escaped = {} /\ fresh = {} /\ refused = {}
  /\ written = 0 /\ read = 0 /\ hand = {} /\ queue = <<>>
  /\ reader = "reading" /\ discarding = FALSE
  /\ got = 0 /\ heard = FALSE /\ consumer = "none"
  /\ client = "idle" /\ lock = "free"
  /\ exit = FALSE /\ waiter = "none"
  /\ closing = FALSE /\ closer = "spawning" /\ tree = {} /\ late = {}
  /\ writer = TRUE /\ master = "open"

-----------------------------------------------------------------------------
\* The processes of the session, which hold the slave open while they live.

\* With job control a shell puts the job it forks in a group of its own.
Fork(p) ==
  /\ proc[p] = "live"
  /\ \E q \in Procs, own \in BOOLEAN :
       /\ proc[q] = "none" /\ (own => os = "unix")
       /\ proc' = [proc EXCEPT ![q] = "live"]
       /\ parent' = [parent EXCEPT ![q] = p]
       /\ group' = IF p \in group /\ ~own THEN group \cup {q} ELSE group
       /\ member' = IF p \in member THEN member \cup {q} ELSE member
       /\ foreign' = IF p \in foreign THEN foreign \cup {q} ELSE foreign
       /\ fresh' = IF closing THEN fresh \cup {q} ELSE fresh
  /\ UNCHANGED <<os, escaped, refused, written, queue, readVars, takeVars, inputVars, waitVars, closeVars>>

Setsid(p) ==
  /\ os = "unix" /\ proc[p] = "live" /\ p # Leader /\ p \in member
  /\ group' = group \ {p} /\ member' = member \ {p}
  /\ UNCHANGED <<os, proc, parent, foreign, histVars, written, queue,
                 readVars, takeVars, inputVars, waitVars, closeVars>>

\* A process becomes one of another user, or of the daemon's again: sudo, su.
ChangesUser(p) ==
  /\ os = "unix" /\ proc[p] = "live" /\ p \in Switchers
  /\ foreign' = IF p \in foreign THEN foreign \ {p} ELSE foreign \cup {p}
  /\ UNCHANGED <<os, proc, parent, group, member, histVars, written, queue,
                 readVars, takeVars, inputVars, waitVars, closeVars>>

\* The children of a dead process are reparented.
Dies(dead) ==
  /\ proc' = [p \in Procs |-> IF p \in dead /\ proc[p] = "live" THEN "zombie" ELSE proc[p]]
  /\ parent' = [p \in Procs |-> IF parent[p] \in dead THEN Nobody ELSE parent[p]]
  /\ UNCHANGED <<os, group, member, foreign>>

\* The effect of SIGKILL, or of the job's end: a signal to a process of another user
\* is refused (EPERM), and the code goes on with the rest.
Killed(sent) == Dies(sent \ foreign)

\* Those of the set that live on because they may not be signalled.
Refuse(sent) == refused' = refused \cup (sent \cap Live \cap foreign)

\* A process exits: by itself, or because it was sent SIGTERM.
Exits(p) ==
  /\ proc[p] = "live"
  /\ Dies({p})
  /\ UNCHANGED <<histVars, written, queue, readVars, takeVars, inputVars, waitVars, closeVars>>

\* A dead process other than the leader is reaped by its parent or by init.
Reap(p) ==
  /\ p # Leader /\ proc[p] = "zombie"
  /\ proc' = [proc EXCEPT ![p] = "gone"]
  /\ UNCHANGED <<os, parent, group, member, foreign, histVars, written, queue,
                 readVars, takeVars, inputVars, waitVars, closeVars>>

\* A write to the pty blocks while the kernel's buffer is full.
Write ==
  /\ Live # {} /\ master # "closed"
  /\ written + 1 < MaxChunks /\ written - read < PipeMax
  /\ written' = written + 1
  /\ UNCHANGED <<procVars, histVars, queue, readVars, takeVars, inputVars, waitVars, closeVars>>

-----------------------------------------------------------------------------
\* The reader thread.

Read ==
  /\ reader = "reading" /\ read < written
  /\ read' = read + 1
  /\ hand' = IF discarding THEN {} ELSE {read'}
  /\ reader' = IF discarding THEN "reading" ELSE "sending"
  /\ UNCHANGED <<procVars, histVars, written, queue, discarding,
                 takeVars, inputVars, waitVars, closeVars>>

\* Every slave is closed; a pseudoconsole ends its pipe when it is closed.
ReadEof ==
  /\ reader = "reading" /\ read = written
  /\ IF os = "unix" THEN Live = {} ELSE master = "closed"
  /\ reader' = "done"
  /\ UNCHANGED <<procVars, histVars, written, queue, read, hand, discarding,
                 takeVars, inputVars, waitVars, closeVars>>

\* Mutant: the chunk that finds the queue full is dropped, closing or not.
Dropped_Always == Len(queue) = QueueMax

\* Mutant: a full queue is waited out whatever happens.
Dropped_Never == FALSE

\* `send_chunk` gives up on a full queue once the session is closing.
Dropped == Len(queue) = QueueMax /\ closing

\* `send_chunk`: the consumer is gone, or there is room, or the chunk is
\* dropped; otherwise it polls.
SendChunk ==
  /\ reader = "sending" /\ reader' = "reading" /\ hand' = {}
  /\ \/ consumer = "gone" /\ discarding' = TRUE /\ queue' = queue
     \/ /\ consumer # "gone" /\ discarding' = discarding
        /\ \/ Len(queue) < QueueMax /\ queue' = Append(queue, read)
           \/ Dropped /\ queue' = queue
  /\ UNCHANGED <<procVars, histVars, written, read, takeVars, inputVars, waitVars, closeVars>>

Reader == Read \/ ReadEof \/ SendChunk

-----------------------------------------------------------------------------
\* The consumer, and the threads that write to the pty.

\* `recv_timeout`; a timeout changes nothing.
Take ==
  /\ consumer = "takes" /\ queue # <<>>
  /\ got' = Head(queue) /\ queue' = Tail(queue)
  /\ UNCHANGED <<procVars, histVars, written, readVars, heard, consumer,
                 inputVars, waitVars, closeVars>>

HearEof ==
  /\ consumer = "takes" /\ queue = <<>> /\ reader = "done"
  /\ ~heard /\ heard' = TRUE
  /\ UNCHANGED <<procVars, histVars, written, queue, readVars, got, consumer,
                 inputVars, waitVars, closeVars>>

\* PtyOutput is dropped, and what is queued with it.
Leave ==
  /\ consumer = "takes" /\ consumer' = "gone"
  /\ queue' = <<>>
  /\ UNCHANGED <<procVars, histVars, written, readVars, got, heard,
                 inputVars, waitVars, closeVars>>

\* The pump answers a device query; it takes nothing until the write is over.
Reply ==
  /\ consumer = "takes" /\ consumer' = "replies"
  /\ UNCHANGED <<procVars, histVars, written, queue, readVars, got, heard,
                 inputVars, waitVars, closeVars>>

ClientWrites ==
  /\ closer # "spawning" /\ client = "idle" /\ client' = "writes"
  /\ UNCHANGED <<procVars, histVars, written, queue, readVars, takeVars, lock,
                 waitVars, closeVars>>

\* `write` takes the mutex, or finds the writer gone and fails.
Locks(who) ==
  /\ lock = "free"
  /\ IF who = "consumer" THEN consumer = "replies" ELSE client = "writes"
  /\ IF writer
       THEN lock' = who /\ UNCHANGED <<consumer, client>>
       ELSE /\ lock' = lock
            /\ consumer' = IF who = "consumer" THEN "takes" ELSE consumer
            /\ client' = IF who = "client" THEN "idle" ELSE client
  /\ UNCHANGED <<procVars, histVars, written, queue, readVars, got, heard,
                 waitVars, closeVars>>

\* The write returns and the mutex is released: the child has read its input,
\* or on Unix nobody holds the slave.  A pseudoconsole always reads its input.
Unlocks ==
  /\ lock # "free" /\ lock' = "free"
  /\ consumer' = IF lock = "consumer" THEN "takes" ELSE consumer
  /\ client' = IF lock = "client" THEN "idle" ELSE client
  /\ UNCHANGED <<procVars, histVars, written, queue, readVars, got, heard,
                 waitVars, closeVars>>

WriteCannotBlock == os = "windows" \/ Live = {}

-----------------------------------------------------------------------------
\* The waiter thread.

Waits ==
  /\ waiter = "waiting" /\ proc[Leader] = "zombie"
  /\ proc' = [proc EXCEPT ![Leader] = "gone"]
  /\ exit' = TRUE /\ waiter' = "done"
  /\ UNCHANGED <<os, parent, group, member, foreign, histVars, written, queue,
                 readVars, takeVars, inputVars, closeVars>>

-----------------------------------------------------------------------------
\* `spawn` after the reader has started, and `shutdown`.

Goes(from, to) == closer = from /\ closer' = to

SpawnCompletes ==
  /\ Goes("spawning", "open")
  /\ waiter' = "waiting" /\ consumer' = "takes"
  /\ UNCHANGED <<procVars, histVars, written, queue, readVars, got, heard, inputVars, exit,
                 closing, tree, late, writer, master>>

\* The job cannot be assigned or the waiter not started: the child is killed,
\* and the locals go in reverse order, the queue's end before the master.
SpawnFails ==
  /\ Goes("spawning", "master")
  /\ Killed({Leader})
  /\ consumer' = "gone" /\ queue' = <<>> /\ writer' = FALSE
  /\ UNCHANGED <<histVars, written, readVars, got, heard, inputVars, waitVars,
                 closing, tree, late, master>>

\* `finished` is swapped and `closing` set; a second call changes nothing.
Begin ==
  /\ Goes("open", "collect")
  /\ closing' = TRUE
  /\ UNCHANGED <<procVars, histVars, written, queue, readVars, takeVars, inputVars, waitVars,
                 tree, late, writer, master>>

\* What a kill of the set `dead` and the move of the closer leave alone.
KillLeaves == UNCHANGED <<escaped, fresh, written, queue, readVars, takeVars, inputVars,
                          waitVars, closing, tree, late, writer, master>>

\* TerminateJobObject, or the killer of the child alone where that fails.
TerminateJob ==
  /\ os = "windows" /\ Goes("collect", "exit")
  /\ (Killed(Procs) \/ Killed({Leader})) /\ KillLeaves /\ UNCHANGED refused

\* `collect_tree`: the leader, its session, and the descendants of these, which
\* is the least set that holds the first two and the children of its members.
CollectTree ==
  LET table == {p \in Procs : proc[p] \in {"live", "zombie"}}
      Grown(found) ==
        /\ {Leader} \cup (table \cap member) \subseteq found
        /\ \A p \in table : parent[p] \in found => p \in found
  IN {p \in Procs : \A found \in SUBSET Procs : Grown(found) => p \in found}

\* The ancestors of a process, itself included.
Lineage(p) ==
  LET Climbs(line) == p \in line /\ \A q \in line : parent[q] \in line \cup {Nobody}
  IN {q \in Procs : \A line \in SUBSET Procs : Climbs(line) => q \in line}

\* What no collection can find: a live process that left the session, and
\* whose way up to it is cut.
Untraceable == {p \in Live : Lineage(p) \cap member = {}}

Collect ==
  /\ os = "unix" /\ Goes("collect", "term")
  /\ tree' = CollectTree /\ fresh' = {} /\ escaped' = Untraceable /\ UNCHANGED refused
  /\ UNCHANGED <<procVars, written, queue, readVars, takeVars, inputVars, waitVars,
                 closing, late, writer, master>>

\* SIGTERM to the group and to the tree: whoever does not ignore it exits.
Term ==
  /\ Goes("term", "grace")
  /\ UNCHANGED <<procVars, closing, tree, late, writer, master, histVars, written, queue,
                 readVars, takeVars, inputVars, waitVars>>

\* Mutant: the leader is left out of the poll, as the code once did.
AllGone_JobsOnly == \A p \in tree \ {Leader} : proc[p] = "gone" \/ p \in foreign

\* A process that is not reaped yet still answers the probe; one of another user
\* does not, and reads as gone.
AllGone == \A p \in tree : proc[p] = "gone" \/ p \in foreign

\* The grace period ends early when the whole tree has gone.
Grace ==
  /\ \/ AllGone /\ Goes("grace", "exit") /\ Refuse(tree)
     \/ ~AllGone /\ Goes("grace", "killgroup") /\ UNCHANGED refused
  /\ UNCHANGED <<procVars, closing, tree, late, writer, master, escaped, fresh, written, queue,
                 readVars, takeVars, inputVars, waitVars>>

KillGroup ==
  /\ Goes("killgroup", "recollect")
  /\ Killed(group) /\ KillLeaves /\ UNCHANGED refused

Recollect ==
  /\ Goes("recollect", "killtree")
  /\ late' = CollectTree /\ fresh' = {} /\ escaped' = Untraceable \ tree
  /\ UNCHANGED <<procVars, refused, written, queue, readVars, takeVars, inputVars, waitVars,
                 closing, tree, writer, master>>

KillTree ==
  /\ Goes("killtree", "killlate")
  /\ Killed(tree) /\ Refuse(tree) /\ KillLeaves

KillLate ==
  /\ Goes("killlate", "exit")
  /\ Killed(late) /\ Refuse(late) /\ KillLeaves

\* `exit.wait(grace)` ends with the exit status or without it.
WaitExit ==
  /\ Goes("exit", "writer")
  /\ UNCHANGED <<procVars, closing, tree, late, writer, master, histVars, written, queue,
                 readVars, takeVars, inputVars, waitVars>>

DropWriter ==
  /\ Goes("writer", "master")
  /\ lock = "free"
  /\ writer' = FALSE
  /\ UNCHANGED <<procVars, closing, tree, late, master, histVars, written, queue,
                 readVars, takeVars, inputVars, waitVars>>

AfterMaster == IF waiter = "none" THEN "failed" ELSE "reader"

\* On Unix the reader has a descriptor of its own, and nothing waits.
DropMaster ==
  /\ os = "unix" /\ Goes("master", AfterMaster)
  /\ master' = "closed"
  /\ UNCHANGED <<procVars, closing, tree, late, writer, histVars, written, queue,
                 readVars, takeVars, inputVars, waitVars>>

\* ClosePseudoConsole flushes the screen into the pipe and comes back when the
\* pipe has been read and its clients have gone.
CloseConsole ==
  /\ os = "windows" /\ closer = "master" /\ master = "open"
  /\ master' = "closing"
  /\ written - read < PipeMax
  /\ written' = written + 1
  /\ UNCHANGED <<procVars, closing, closer, tree, late, writer, histVars, queue,
                 readVars, takeVars, inputVars, waitVars>>

ConsoleCloses ==
  /\ master = "closing" /\ read = written /\ Live = {}
  /\ Goes("master", AfterMaster)
  /\ master' = "closed"
  /\ UNCHANGED <<procVars, closing, tree, late, writer, histVars, written, queue,
                 readVars, takeVars, inputVars, waitVars>>

\* `join_or_detach`, twice: the thread has ended, or the timeout.
JoinThreads ==
  /\ Goes("reader", "waiter") \/ Goes("waiter", "done")
  /\ UNCHANGED <<procVars, closing, tree, late, writer, master, histVars, written, queue,
                 readVars, takeVars, inputVars, waitVars>>

Shutdown ==
  \/ TerminateJob \/ Collect \/ Term \/ Grace \/ KillGroup \/ Recollect \/ KillTree \/ KillLate
  \/ WaitExit \/ DropWriter \/ DropMaster \/ CloseConsole \/ ConsoleCloses \/ JoinThreads

Next ==
  \/ \E p \in Procs : Fork(p) \/ Setsid(p) \/ ChangesUser(p) \/ Exits(p) \/ Reap(p)
  \/ Write \/ Reader \/ Take \/ HearEof \/ Leave \/ Reply \/ ClientWrites
  \/ \E who \in {"consumer", "client"} : Locks(who)
  \/ (WriteCannotBlock \/ Live # {}) /\ Unlocks
  \/ Waits \/ SpawnCompletes \/ SpawnFails \/ Begin \/ Shutdown

\* The threads run, what cannot block returns, and the dead are reaped.  No
\* process has to read, write or exit, and the consumer has to do nothing.
Fairness ==
  /\ WF_vars(Reader) /\ WF_vars(Waits) /\ WF_vars(Shutdown) /\ SF_vars(DropWriter)
  /\ WF_vars(WriteCannotBlock /\ Unlocks)

Spec == Init /\ [][Next]_vars /\ Fairness

-----------------------------------------------------------------------------
\* Properties.

\* `kill_tree` misses nothing it could have known of and may signal: what is still
\* alive once `shutdown` is over was forked after the tree was last collected, or
\* neither the session nor a chain of parents led to it then, or it was of another
\* user when the last signal, or the probe that stood for it, was meant for it.
SurvivorsAreLate ==
  os = "unix" /\ closer = "done" => Live \subseteq fresh \cup escaped \cup refused

\* A session whose threads are where its state says leaves nothing it knew of behind.
SessionIsReaped == PtyTypeOK /\ SurvivorsAreLate

\* The three buffers between a child and the consumer are one conduit, which is
\* what the pump of SessionOutput takes its chunks from.
Transit == queue \o SetToSeq(hand) \o [i \in 1..(written - read) |-> read + i]
MayLose == closing \/ consumer = "gone"

Conduit == INSTANCE PtyConduit WITH transit <- Transit, lossy <- MayLose

ConduitSpec == Conduit!Spec

\* `shutdown` comes back, and so does a spawn that fails half way, with a full
\* queue and a consumer that never takes another chunk, unless a process that
\* outlives the kill holds up a write to the pty or keeps the pseudoconsole open.
HeldUp == Live # {} /\ (lock # "free" \/ os = "windows")
ShutdownReturns ==
  \/ <>[]HeldUp
  \/ [](closer \in {"collect", "master"} => <>(closer \in {"done", "failed"}))
=============================================================================
