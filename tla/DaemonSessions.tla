--------------------------- MODULE DaemonSessions ---------------------------
(***************************************************************************)
(* The sessions a daemon owns and how long the daemon itself lives:        *)
(* SessionRegistry of crates/nysia-core/src/rpc/session.rs, and in         *)
(* rpc/server.rs the life of a connection, the dispatch of its verbs with  *)
(* their receipts, should_retire and shutdown.                             *)
(*                                                                         *)
(* A connection serves one verb at a time; connections run beside each     *)
(* other, beside the accept loop, which also ticks, and beside the pumps   *)
(* of the sessions.  What one lock of the registry covers is one step, so  *)
(* a create is a look for the holder of the pane, a spawn, and an insert.  *)
(*                                                                         *)
(* A session is named after the request that spawned it.  The verbs are    *)
(* `session_create` and `session_close`; the others change nothing here.   *)
(***************************************************************************)
EXTENDS Naturals, Sequences, FiniteSets

CONSTANTS
  Conns,     \* control connections
  Creates,   \* `session_create` requests
  Closes,    \* `session_close` requests
  ConnOf,    \* the connection a request is sent on
  PaneOf,    \* the pane a create names
  NoPane,    \* it names none, and gets one of its own
  Names,     \* the request a retry is a retry of; itself for any other
  Target,    \* the session a close names
  Capacity,  \* RECEIPT_CAPACITY
  Interrupts \* whether the daemon may be interrupted

Requests == Creates \cup Closes
Nothing  == "nothing"

ASSUME DaemonAssumption ==
  /\ ConnOf \in [Requests -> Conns]
  /\ Names \in [Requests -> Requests]
  /\ Target \in [Closes -> Creates]
  /\ DOMAIN PaneOf = Creates
  /\ Capacity \in Nat \ {0}
  /\ Interrupts \in BOOLEAN
  /\ Requests \cap {Nothing, "refused"} = {}
  /\ IsFiniteSet(Conns) /\ IsFiniteSet(Requests)

VARIABLES
  conn,      \* where the task of a connection is
  left,      \* connections whose client has gone
  step,      \* where a request is
  result,    \* what it will be, or was, answered: "refused" or a request's answer
  told,      \* requests whose answer was written to a client that was there
  table,     \* SessionRegistry::sessions
  pty,       \* the pty of a session
  receipts,  \* Receipts::order; each of them has its answer stored
  excused,   \* (history) retries sent while the original ran, or whose original's receipt went
  clients, in_flight, served_anyone,  \* the counters of the daemon
  tick,      \* what the accept loop has read of them, in order
  idle_since,\* it found the daemon idle at an earlier tick
  daemon,    \* where the thread of `serve` is
  victims,   \* its local in `close_all`
  late       \* (history) sessions inserted after that snapshot was taken

connVars    == <<conn, left>>
requestVars == <<step, result, told, excused>>
counterVars == <<clients, in_flight, served_anyone>>
loopVars    == <<tick, idle_since, daemon, victims>>
sessionVars == <<table, pty, late>>
vars == <<connVars, requestVars, counterVars, loopVars, sessionVars, receipts>>

DaemonTypeOK ==
  /\ conn \in [Conns -> {"none", "vetted", "accepted", "serving", "over"}]
  /\ left \subseteq Conns
  /\ step \in [Requests -> {"unsent", "check", "spawn", "pump", "insert", "remove", "kill",
                            "put", "write", "over"}]
  /\ result \in [Requests -> Requests \cup {Nothing, "refused"}]
  /\ {told, excused} \subseteq SUBSET Requests
  /\ {table, victims, late} \subseteq SUBSET Creates
  /\ pty \in [Creates -> {"none", "running", "exited", "dead"}]
  /\ receipts \in Seq(Requests) /\ Len(receipts) <= Capacity
  /\ tick \in {"none", "served", "clients", "in_flight"}
  /\ daemon \in {"serving", "stopping", "snapshot", "clear", "close", "lease", "exited"}
  /\ {served_anyone, idle_since} \subseteq BOOLEAN
  \* The counters are what they count.
  /\ clients = Cardinality({c \in Conns : conn[c] = "serving"})
  /\ in_flight = Cardinality({r \in Requests : step[r] \notin {"unsent", "over"}})

Init ==
  /\ conn = [c \in Conns |-> "none"] /\ left = {}
  /\ step = [r \in Requests |-> "unsent"]
  /\ result = [r \in Requests |-> Nothing]
  /\ told = {} /\ excused = {} /\ receipts = <<>>
  /\ table = {} /\ late = {}
  /\ pty = [h \in Creates |-> "none"]
  /\ clients = 0 /\ in_flight = 0 /\ served_anyone = FALSE
  /\ tick = "none" /\ idle_since = FALSE /\ daemon = "serving" /\ victims = {}

Up == daemon # "exited"

-----------------------------------------------------------------------------
\* The life of a connection: serve_io and serve_control.

Becomes(c, from, to) == Up /\ conn[c] = from /\ conn' = [conn EXCEPT ![c] = to]

\* The loop accepts it and `vet` lets it through; a hello is refused from the
\* moment `shutting_down` is set.
Connect(c) ==
  /\ Becomes(c, "none", "vetted")
  /\ daemon \in {"serving", "stopping"}
  /\ UNCHANGED <<left, requestVars, counterVars, loopVars, sessionVars, receipts>>

\* The hello is answered, and only then is the client counted.
Accept(c) ==
  /\ Becomes(c, "vetted", "accepted")
  /\ UNCHANGED <<left, requestVars, counterVars, loopVars, sessionVars, receipts>>

Count(c) ==
  /\ Becomes(c, "accepted", "serving")
  /\ served_anyone' = TRUE /\ clients' = clients + 1
  /\ UNCHANGED <<left, in_flight, requestVars, loopVars, sessionVars, receipts>>

\* The client goes away, at any moment; the task notices when it next reads
\* or writes.
Leave(c) ==
  /\ conn[c] \in {"accepted", "serving"} /\ c \notin left
  /\ left' = left \cup {c}
  /\ UNCHANGED <<conn, requestVars, counterVars, loopVars, sessionVars, receipts>>

Busy(c) == \E r \in Requests : ConnOf[r] = c /\ step[r] \notin {"unsent", "over"}

Disconnect(c) ==
  /\ c \in left /\ ~Busy(c)
  /\ Becomes(c, "serving", "over")
  /\ clients' = clients - 1
  /\ UNCHANGED <<left, in_flight, served_anyone, requestVars, loopVars, sessionVars, receipts>>

-----------------------------------------------------------------------------
\* `dispatch`.

StepTo(r, from, to) == Up /\ step[r] = from /\ step' = [step EXCEPT ![r] = to]

First(r) == IF r \in Creates THEN "check" ELSE "remove"

\* A client retries on another connection what it was not answered on the
\* first, and closes a session it was told of.
Sends(r) ==
  /\ conn[ConnOf[r]] = "serving" /\ ~Busy(ConnOf[r]) /\ ConnOf[r] \notin left
  /\ Names[r] # r => ConnOf[Names[r]] \in left /\ Names[r] \notin told
  /\ r \in Closes => \E t \in told : result[t] = Target[r]

Replayed(r) == Names[r] # r /\ \E i \in DOMAIN receipts : receipts[i] = Names[r]

\* A retry whose original has an answer stored is given that answer.
Dispatch(r) ==
  /\ Sends(r)
  /\ IF Replayed(r)
       THEN StepTo(r, "unsent", "write") /\ result' = [result EXCEPT ![r] = Names[r]]
       ELSE StepTo(r, "unsent", First(r)) /\ UNCHANGED result
  /\ in_flight' = in_flight + 1
  /\ excused' = IF Names[r] # r /\ step[Names[r]] # "over" THEN excused \cup {r} ELSE excused
  /\ UNCHANGED <<clients, served_anyone, told, connVars, loopVars, sessionVars, receipts>>

Refused(r, from) ==
  /\ StepTo(r, from, "write")
  /\ result' = [result EXCEPT ![r] = "refused"]

Full == Len(receipts) = Capacity

\* Mutant: an answer is stored only for a client that is still there.
Put_IfPresent(r) ==
  /\ StepTo(r, "put", "write")
  /\ result' = [result EXCEPT ![r] = r]
  /\ receipts' = IF ConnOf[r] \in left \/ Full THEN receipts ELSE Append(receipts, r)
  /\ UNCHANGED <<told, excused, connVars, counterVars, loopVars, sessionVars>>

\* An answer that is not an error is stored before it is written; the oldest
\* makes room for it.
Put(r) ==
  /\ StepTo(r, "put", "write")
  /\ result' = [result EXCEPT ![r] = r]
  /\ receipts' = Append(IF Full THEN Tail(receipts) ELSE receipts, r)
  /\ excused' = IF Full THEN excused \cup {q \in Requests : Names[q] = Head(receipts)} ELSE excused
  /\ UNCHANGED <<told, connVars, counterVars, loopVars, sessionVars>>

\* Mutant: a failed write breaks out of the loop before the counter.
WriteAnswer_Leaks(r) ==
  /\ StepTo(r, "write", "over")
  /\ in_flight' = IF ConnOf[r] \in left THEN in_flight ELSE in_flight - 1
  /\ told' = IF ConnOf[r] \in left THEN told ELSE told \cup {r}
  /\ UNCHANGED <<clients, served_anyone, result, excused, connVars, loopVars, sessionVars, receipts>>

\* After a failed write the task goes on to Disconnect.
WriteAnswer(r) ==
  /\ StepTo(r, "write", "over")
  /\ in_flight' = in_flight - 1
  /\ told' = IF ConnOf[r] \in left THEN told ELSE told \cup {r}
  /\ UNCHANGED <<clients, served_anyone, result, excused, connVars, loopVars, sessionVars, receipts>>

-----------------------------------------------------------------------------
\* SessionRegistry::create.

\* `pane_holder`
Held(pane) == \E h \in table : PaneOf[h] = pane /\ pane # NoPane /\ pty[h] # "exited"

Check(r) ==
  /\ IF Held(PaneOf[r]) THEN Refused(r, "check")
     ELSE StepTo(r, "check", "spawn") /\ UNCHANGED result
  /\ UNCHANGED <<told, excused, connVars, counterVars, loopVars, sessionVars, receipts>>

\* PtySession::spawn, which may refuse.
Spawn(r) ==
  /\ \/ /\ StepTo(r, "spawn", "pump") /\ UNCHANGED result
        /\ pty' = [pty EXCEPT ![r] = "running"]
     \/ Refused(r, "spawn") /\ UNCHANGED pty
  /\ UNCHANGED <<told, excused, table, late, connVars, counterVars, loopVars, receipts>>

\* The pump is started; where it cannot be, the session is closed again.
StartPump(r) ==
  /\ \/ StepTo(r, "pump", "insert") /\ UNCHANGED <<result, pty>>
     \/ Refused(r, "pump") /\ pty' = [pty EXCEPT ![r] = "dead"]
  /\ UNCHANGED <<told, excused, table, late, connVars, counterVars, loopVars, receipts>>

Insert(r) ==
  /\ StepTo(r, "insert", "put")
  /\ table' = table \cup {r}
  /\ late' = IF daemon \in {"clear", "close", "lease"} THEN late \cup {r} ELSE late
  /\ UNCHANGED <<result, told, excused, pty, connVars, counterVars, loopVars, receipts>>

-----------------------------------------------------------------------------
\* SessionRegistry::close, and what else may end a session.

Forget(r) ==
  /\ r \in Closes
  /\ IF Target[r] \in table
       THEN StepTo(r, "remove", "kill") /\ table' = table \ {Target[r]} /\ UNCHANGED result
       ELSE Refused(r, "remove") /\ UNCHANGED table
  /\ UNCHANGED <<told, excused, pty, late, connVars, counterVars, loopVars, receipts>>

\* OwnedSession::close comes back when the tree is dead and the pump joined.
Kill(r) ==
  /\ r \in Closes /\ StepTo(r, "kill", "put")
  /\ pty' = [pty EXCEPT ![Target[r]] = "dead"]
  /\ UNCHANGED <<result, told, excused, table, late, connVars, counterVars, loopVars, receipts>>

\* The child exits by itself; its session stays in the table.
ChildExits(h) ==
  /\ pty[h] = "running" /\ pty' = [pty EXCEPT ![h] = "exited"]
  /\ UNCHANGED <<table, late, connVars, requestVars, counterVars, loopVars, receipts>>

\* Who holds a reference to a session.
InHand(h) ==
  \/ h \in table \cup victims
  \/ step[h] \in {"pump", "insert"}
  \/ \E r \in Closes : Target[r] = h /\ step[r] = "kill"

\* The last reference goes: `stop` is set, the pump ends, and with it goes the
\* last reference to the pty, whose drop shuts it down.
Drop(h) ==
  /\ Up /\ ~InHand(h) /\ pty[h] \in {"running", "exited"}
  /\ pty' = [pty EXCEPT ![h] = "dead"]
  /\ UNCHANGED <<table, late, connVars, requestVars, counterVars, loopVars, receipts>>

-----------------------------------------------------------------------------
\* The loop of `serve`: should_retire reads one counter after another.

TickTo(from, to) == daemon = "serving" /\ tick = from /\ tick' = to

BusyTick ==
  /\ daemon = "serving"
  /\ \/ tick = "none" /\ ~served_anyone
     \/ tick = "served" /\ clients # 0
     \/ tick = "clients" /\ in_flight # 0
     \/ tick = "in_flight" /\ table # {}
  /\ tick' = "none" /\ idle_since' = FALSE
  /\ UNCHANGED <<daemon, victims, connVars, requestVars, counterVars, sessionVars, receipts>>

ReadOn ==
  /\ \/ TickTo("none", "served") /\ served_anyone
     \/ TickTo("served", "clients") /\ clients = 0
     \/ TickTo("clients", "in_flight") /\ in_flight = 0
  /\ UNCHANGED <<idle_since, daemon, victims, connVars, requestVars, counterVars, sessionVars, receipts>>

\* The first idle tick starts the grace period.
IdleTick ==
  /\ TickTo("in_flight", "none") /\ table = {}
  /\ idle_since' = TRUE
  /\ UNCHANGED <<daemon, victims, connVars, requestVars, counterVars, sessionVars, receipts>>

\* A later one finds that it has passed.
Retire ==
  /\ TickTo("in_flight", "none") /\ table = {} /\ idle_since
  /\ daemon' = "stopping"
  /\ UNCHANGED <<idle_since, victims, connVars, requestVars, counterVars, sessionVars, receipts>>

Interrupt ==
  /\ Interrupts /\ daemon = "serving" /\ tick = "none"
  /\ daemon' = "stopping"
  /\ UNCHANGED <<tick, idle_since, victims, connVars, requestVars, counterVars, sessionVars, receipts>>

-----------------------------------------------------------------------------
\* `shutdown`, and `close_all` under two locks.

StopsAt(from, to) == daemon = from /\ daemon' = to

SetShuttingDown ==
  /\ StopsAt("stopping", "snapshot")
  /\ UNCHANGED <<tick, idle_since, victims, connVars, requestVars, counterVars, sessionVars, receipts>>

\* Mutant: a session whose child has exited is taken to need no closing.
Snapshot_Running ==
  /\ StopsAt("snapshot", "clear")
  /\ victims' = {h \in table : pty[h] = "running"}
  /\ UNCHANGED <<tick, idle_since, connVars, requestVars, counterVars, sessionVars, receipts>>

Snapshot ==
  /\ StopsAt("snapshot", "clear")
  /\ victims' = table
  /\ UNCHANGED <<tick, idle_since, connVars, requestVars, counterVars, sessionVars, receipts>>

Clear ==
  /\ StopsAt("clear", "close")
  /\ table' = {}
  /\ UNCHANGED <<tick, idle_since, victims, pty, late, connVars, requestVars, counterVars, receipts>>

CloseVictim ==
  /\ daemon = "close"
  /\ \E h \in victims :
       /\ pty' = [pty EXCEPT ![h] = "dead"]
       /\ victims' = victims \ {h}
  /\ UNCHANGED <<tick, idle_since, daemon, table, late, connVars, requestVars, counterVars, receipts>>

RemoveLease ==
  /\ victims = {} /\ StopsAt("close", "lease")
  /\ UNCHANGED <<tick, idle_since, victims, connVars, requestVars, counterVars, sessionVars, receipts>>

\* The runtime waits for the blocking work it has started, not for pumps; the
\* tasks of the connections stop where they are.
Blocking(r) == step[r] \in {"check", "spawn", "pump", "insert", "remove", "kill"}

Exit ==
  /\ StopsAt("lease", "exited")
  /\ \A r \in Requests : ~Blocking(r)
  /\ UNCHANGED <<tick, idle_since, victims, connVars, requestVars, counterVars, sessionVars, receipts>>

-----------------------------------------------------------------------------
Serving(c) == Accept(c) \/ Count(c) \/ Disconnect(c)

Running(r) ==
  \/ Put(r) \/ WriteAnswer(r)
  \/ r \in Creates /\ (Check(r) \/ Spawn(r) \/ StartPump(r) \/ Insert(r))
  \/ Forget(r) \/ Kill(r)

Ticking == BusyTick \/ ReadOn \/ IdleTick

Stopping == SetShuttingDown \/ Snapshot \/ Clear \/ CloseVictim \/ RemoveLease \/ Exit

Next ==
  \/ \E c \in Conns : Connect(c) \/ Leave(c) \/ Serving(c)
  \/ \E r \in Requests : Dispatch(r) \/ Running(r)
  \/ \E h \in Creates : ChildExits(h) \/ Drop(h)
  \/ Ticking \/ Retire \/ Interrupt \/ Stopping

\* Tasks and threads run and the ticker ticks; the grace period passes.  No
\* client has to connect, send or leave, and no child has to exit.
Fairness ==
  /\ \A c \in Conns : WF_vars(Serving(c))
  /\ \A r \in Requests : WF_vars(Running(r))
  /\ \A h \in Creates : WF_vars(Drop(h))
  /\ WF_vars(Ticking) /\ SF_vars(Retire) /\ WF_vars(Stopping)

Spec == Init /\ [][Next]_vars /\ Fairness

-----------------------------------------------------------------------------
\* Properties.

\* "A retry names the original and gets the original answer rather than doing
\* the work twice", wherever the connection was lost, unless the original was
\* still running when the retry came or its receipt had made room for others.
RetryRunsOnce ==
  \A r \in Creates :
    Names[r] # r /\ result[Names[r]] = Names[r] /\ pty[r] # "none" => r \in excused

\* A daemon that exits leaves no session's tree behind, except of a session
\* that was put in the table after the snapshot of `close_all`.
NothingOutlivesShutdown ==
  ~Up => \A h \in Creates : pty[h] \in {"running", "exited"} => h \in late

\* The table, the counts and the sessions agree, to the end of the daemon.
SessionsAreHeld == DaemonTypeOK /\ NothingOutlivesShutdown

\* A daemon left alone retires: no count stays up behind a client that went in
\* the middle of a verb.
Deserted == served_anyone /\ table = {} /\ \A c \in Conns : conn[c] \in {"none", "over"}
IdleRetires == <>[]Deserted => <>~Up
=============================================================================
