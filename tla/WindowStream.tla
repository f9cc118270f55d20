----------------------------- MODULE WindowStream -----------------------------
(***************************************************************************)
(* The window's side of its two connections to the daemon: Client of       *)
(* apps/desktop/src-tauri/src/state.rs, the control worker of              *)
(* daemon/control.rs and the reader thread of daemon/stream.rs.            *)
(*                                                                         *)
(* Commands of the webview run beside each other on a blocking pool, and   *)
(* outlive the page that invoked them: a load connects and opens the       *)
(* output connection (daemon_connect, then terminal_attach), an attach     *)
(* routes a session onto it, a detach stops that, and a watch waits for    *)
(* the connection to go.  Beside them runs one reader per stream           *)
(* connection that was ever opened.  What one lock covers is one step.     *)
(*                                                                         *)
(* The daemon is the honest peer StreamServer describes: ids count up per  *)
(* stream connection, the answer naming an id is written before the first  *)
(* frame that carries it, and a new connection closes the one it replaces. *)
(* The two sockets are not ordered against each other.  Credit, which      *)
(* WindowCredit models, is here only what it does to the reader's loop.    *)
(***************************************************************************)
EXTENDS Naturals, Sequences, FiniteSets, Functions

CONSTANTS
  Loads,      \* runs of the connect sequence
  Attaches,   \* calls of attach_session
  Detaches,   \* calls of detach_session
  Watches,    \* calls of wait_for_disconnect
  Refreshing, \* bound: attaches that may run beside each other
  HandleOf,   \* the session an attach or a detach is about
  MaxFrames,  \* bound: frames the daemon writes on each stream connection
  Casts,      \* bound: the commands a behaviour may consist of
  MaxFailures \* bound: connections of either kind, counted from the first, that may fail

Handles     == {HandleOf[t] : t \in Attaches \cup Detaches}
Generations == 1..Cardinality(Loads)
Ids         == 1..Cardinality(Attaches)
NoControl   == 0
NoStream    == 0
NoId        == 0

ASSUME WindowAssumption ==
  /\ IsFiniteSet(Loads) /\ IsFiniteSet(Attaches)
  /\ Refreshing \subseteq Attaches
  /\ Casts \subseteq SUBSET (Loads \cup Attaches \cup Detaches \cup Watches)
  /\ DOMAIN HandleOf = Attaches \cup Detaches
  /\ MaxFrames \in [Generations -> Nat] /\ MaxFailures \in Nat

VARIABLES
  held,       \* Client::inner
  table,      \* Client::table
  next_generation, \* generations claimed
  dialled,    \* control connections opened
  dead,       \* those of them whose socket failed
  announcing, \* tear-downs that have yet to announce their edge
  load, attach, detach, watch, \* where the commands are
  reader,     \* the reader thread of each stream connection
  peer,       \* the daemon's side of each stream connection
  bound,      \* the one the daemon routes this window's sessions to
  lost,       \* (history) connections that failed by themselves
  astray,     \* (history) those whose reader found the daemon at fault
  overlaps    \* (history) which commands ran into each other

commandVars == <<load, attach, detach, watch>>
stateVars   == <<held, table, next_generation, dialled, dead, announcing>>
daemonVars  == <<peer, bound>>
historyVars == <<lost, astray, overlaps>>
vars == <<stateVars, commandVars, reader, daemonVars, historyVars>>

Nobody   == [control |-> NoControl, stream |-> NoStream, generation |-> 0]
EmptyMap == [x \in {} |-> x]
NewTable == [by_handle |-> EmptyMap, by_stream |-> EmptyMap, next |-> 1]

Stop      == [is |-> "Stop", stream |-> NoId]
Attached  == [is |-> "Attached", stream |-> NoId]
Detach(i) == [is |-> "Detach", stream |-> i]
Signals   == [is : {"Stop", "Attached", "Detach"}, stream : Ids \cup {NoId}]
Frames    == [stream : Ids, n : Nat]

\* `pending` is <<>> when nothing is held; `shown` is the last frame of each
\* id that went to the webview.
Unspawned == [at |-> "none", signals |-> <<>>, ledger |-> {}, pending |-> <<>>,
              buffer |-> <<>>, shown |-> [i \in Ids |-> 0]]
Unopened  == [last |-> 0, feeds |-> EmptyMap, sent |-> [i \in Ids |-> 0],
              wire |-> <<>>, closed |-> FALSE]

ReaderSteps == {"none", "pass", "blocked", "holding", "read", "route", "resettle", "over", "ended"}
LoadSteps   == {"idle", "connected", "claimed", "announced", "answered", "spawned",
                "done", "failed"}
AskSteps    == {"idle", "sent", "answered", "recorded", "done", "failed"}
DropSteps   == {"idle", "forgotten", "sent", "done"}

\* A command that has begun nothing, or has returned.
LoadAt(step)  == [at |-> step, generation |-> 0, superseded |-> NoStream]
AskAt(step)   == [at |-> step, control |-> NoControl, stream |-> NoId, on |-> 0]
DropAt(step)  == [at |-> step, control |-> NoControl, stream |-> NoId, on |-> 0]
WatchAt(step) == [at |-> step, control |-> NoControl, generation |-> 0]

Init ==
  /\ held = Nobody /\ table = NewTable
  /\ next_generation = 0 /\ dialled = 0 /\ dead = {} /\ announcing = 0
  /\ \E cast \in Casts :
       /\ load = [l \in Loads |-> LoadAt(IF l \in cast THEN "idle" ELSE "failed")]
       /\ attach = [t \in Attaches |-> AskAt(IF t \in cast THEN "idle" ELSE "done")]
       /\ detach = [t \in Detaches |-> DropAt(IF t \in cast THEN "idle" ELSE "done")]
       /\ watch = [w \in Watches |-> WatchAt(IF w \in cast THEN "idle" ELSE "returned")]
  /\ reader = [g \in Generations |-> Unspawned]
  /\ peer = [g \in Generations |-> Unopened]
  /\ bound = 0
  /\ lost = {} /\ astray = {} /\ overlaps = {}

-----------------------------------------------------------------------------
\* Shared steps.

\* Mutant: the watermark stays where it is.
Remember_KeepsWatermark(t, stream, handle) ==
  [t EXCEPT !.by_handle = [h \in DOMAIN @ \cup {handle} |-> IF h = handle THEN stream ELSE @[h]],
            !.by_stream = [i \in DOMAIN @ \cup {stream} |-> IF i = stream THEN handle ELSE @[i]]]

\* StreamTable.
Remember(t, stream, handle) ==
  [by_handle |-> [h \in DOMAIN t.by_handle \cup {handle} |-> IF h = handle THEN stream ELSE t.by_handle[h]],
   by_stream |-> [i \in DOMAIN t.by_stream \cup {stream} |-> IF i = stream THEN handle ELSE t.by_stream[i]],
   next      |-> IF stream + 1 > t.next THEN stream + 1 ELSE t.next]

Forget(t, handle) ==
  [t EXCEPT !.by_handle = Restrict(@, DOMAIN @ \ {handle}),
            !.by_stream = Restrict(@, DOMAIN @ \ {t.by_handle[handle]})]

Routed(i) == i \in DOMAIN table.by_stream

\* A Stream that is dropped, or its methods called.
Send(readers, g, signal) ==
  IF g = NoStream \/ readers[g].at \in {"over", "ended"} THEN readers
                  ELSE [readers EXCEPT ![g].signals = Append(@, signal)]

\* The id a reader holds frames for.
HeldFor(r) == IF r.pending = <<>> THEN NoId ELSE r.pending[1].stream

\* `held.take()`, and the drop of what it took, where `live` holds of it.
Take(live, readers) ==
  IF live THEN /\ held' = Nobody /\ announcing' = announcing + 1
               /\ reader' = Send(readers, held.stream, Stop)
          ELSE /\ UNCHANGED <<held, announcing>>
               /\ reader' = readers

\* A verb failed with the socket it was sent on, perhaps long after the window
\* moved on to another.
DisconnectControl(c) == Take(held.control = c, reader)

\* Which histories a command that starts now adds.
LoadRuns   == {l \in Loads : load[l].at \notin {"idle", "done", "failed"}}
AttachRuns == {t \in Attaches : attach[t].at \notin {"idle", "done", "failed"}}
DetachRuns == {t \in Detaches : detach[t].at \notin {"idle", "done"}}
Overlap(kinds) == overlaps' = overlaps \cup kinds
When(condition, kind) == IF condition THEN {kind} ELSE {}

\* The socket of the live control connection fails, or the daemon goes, and
\* the first verb to find out, one of those that are not modelled, says so.
ControlFails(c) ==
  /\ c = held.control /\ c \in 1..MaxFailures /\ c \notin dead
  /\ dead' = dead \cup {c}
  /\ DisconnectControl(c)
  /\ UNCHANGED <<table, next_generation, dialled, commandVars, daemonVars, historyVars>>

Woken == [w \in Watches |-> IF watch[w].at = "parked" THEN WatchAt("returned") ELSE watch[w]]

\* announce_edge, by a thread that tore a connection down.
Announce ==
  /\ announcing > 0
  /\ announcing' = announcing - 1
  /\ watch' = Woken
  /\ UNCHANGED <<held, table, next_generation, dialled, dead, load, attach, detach, reader, daemonVars, historyVars>>

\* wait_for_disconnect, which the store calls when a load has returned: no
\* edge passes while it looks at the connection.
Watch(w) ==
  /\ watch[w].at = "idle" /\ LoadRuns = {} /\ \E l \in Loads : load[l].at = "done"
  /\ watch' = [watch EXCEPT ![w] = [at |-> IF held.control = NoControl THEN "returned" ELSE "parked",
                                    control |-> held.control, generation |-> held.generation]]
  /\ UNCHANGED <<stateVars, load, attach, detach, reader, daemonVars, historyVars>>

-----------------------------------------------------------------------------
\* The connect sequence: connect, then attach_channel.

Load(l, from, to) == load[l].at = from /\ load' = [load EXCEPT ![l].at = to]

Returns(l, from, as) == load[l].at = from /\ load' = [load EXCEPT ![l] = LoadAt(as)]

LoadFails(l, from) ==
  /\ Returns(l, from, "failed")
  /\ UNCHANGED <<table, next_generation, dialled, attach, detach, watch, lost, astray, overlaps>>

\* Bound: a load begins when the one before has returned.
Starts ==
  /\ LoadRuns = {}
  /\ Overlap(When(AttachRuns \cup DetachRuns # {}, "commands"))

\* A daemon is attached already: connect answers with its identity.
ConnectHeld(l) ==
  /\ held.control # NoControl
  /\ Load(l, "idle", "connected") /\ Starts
  /\ UNCHANGED <<stateVars, attach, detach, watch, reader, daemonVars, lost, astray>>

\* The seam dials, and starts a daemon where there is none, under no lock;
\* the connection is installed.  (One that another load installed meanwhile
\* would be kept instead; loads come one at a time here.)
Connect(l) ==
  /\ held.control = NoControl
  /\ Load(l, "idle", "connected") /\ Starts
  /\ dialled' = dialled + 1
  /\ held' = [Nobody EXCEPT !.control = dialled']
  /\ UNCHANGED <<table, next_generation, dead, announcing, attach, detach, watch, reader,
                 daemonVars, lost, astray>>

\* supersede_stream.
Supersede(l) ==
  /\ held.control # NoControl /\ load[l].at = "connected"
  /\ next_generation' = next_generation + 1
  /\ held' = [held EXCEPT !.generation = next_generation', !.stream = NoStream]
  /\ load' = [load EXCEPT ![l] = [at |-> "claimed", generation |-> next_generation',
                                  superseded |-> held.stream]]
  /\ UNCHANGED <<table, dialled, dead, announcing, attach, detach, watch, reader, daemonVars, historyVars>>

\* The connection went meanwhile; the generation that was claimed is nobody's.
SupersedeNothing(l) ==
  /\ held.control = NoControl
  /\ LoadFails(l, "connected")
  /\ UNCHANGED <<held, dead, announcing, reader, daemonVars>>

\* Mutant: nobody is told that the connection was replaced.
AnnounceSuperseded_Silent(l) ==
  /\ Load(l, "claimed", "announced")
  /\ reader' = Send(reader, load[l].superseded, Stop)
  /\ UNCHANGED <<stateVars, attach, detach, watch, daemonVars, historyVars>>

\* Its announce_edge, and `drop(superseded)`.
AnnounceSuperseded(l) ==
  /\ Load(l, "claimed", "announced")
  /\ reader' = Send(reader, load[l].superseded, Stop)
  /\ watch' = Woken
  /\ UNCHANGED <<stateVars, attach, detach, daemonVars, historyVars>>

\* The daemon closes the connection it had; what it wrote before can still be
\* read.
Closed(p) == [Unopened EXCEPT !.closed = TRUE, !.wire = p.wire]
Replaced ==
  IF bound = 0 THEN peer
  ELSE [peer EXCEPT ![bound] = Closed(@)]

\* The stream hello is answered: the daemon bound the connection before.
Handshake(l) ==
  /\ Load(l, "announced", "answered")
  /\ peer' = Replaced
  /\ bound' = load[l].generation
  /\ UNCHANGED <<stateVars, attach, detach, watch, reader, historyVars>>

\* It is not: the daemon saw nothing of it, or bound it and unbound it again.
HandshakeFails(l) ==
  /\ LoadFails(l, "announced")
  /\ \/ UNCHANGED daemonVars
     \/ peer' = Replaced /\ bound' = 0
  /\ UNCHANGED <<held, dead, announcing, reader>>

\* Mutant: what the last connection taught is kept.
SpawnReader_KeepsTable(l) ==
  /\ Load(l, "answered", "spawned")
  /\ reader' = [reader EXCEPT ![load[l].generation].at = "pass"]
  /\ UNCHANGED <<stateVars, attach, detach, watch, daemonVars, historyVars>>

\* The table is emptied and the thread spawned; it looks at nothing until its
\* first step.
SpawnReader(l) ==
  /\ Load(l, "answered", "spawned")
  /\ table' = NewTable
  /\ reader' = [reader EXCEPT ![load[l].generation].at = "pass"]
  /\ UNCHANGED <<held, next_generation, dialled, dead, announcing, attach, detach, watch,
                 daemonVars, historyVars>>

\* `connected.stream = Some(stream)`, dropping what was there.
InstallStream(l) ==
  /\ held.control # NoControl
  /\ Returns(l, "spawned", "done")
  /\ held' = [held EXCEPT !.stream = load[l].generation]
  /\ reader' = Send(reader, held.stream, Stop)
  /\ UNCHANGED <<table, next_generation, dialled, dead, announcing, attach, detach, watch, daemonVars, historyVars>>

\* The connection went meanwhile; the Stream just made is dropped.
InstallNothing(l) ==
  /\ held.control = NoControl
  /\ LoadFails(l, "spawned")
  /\ reader' = Send(reader, load[l].generation, Stop)
  /\ UNCHANGED <<held, dead, announcing, daemonVars>>

-----------------------------------------------------------------------------
\* attach_session.

Ask(t, from, to) == attach[t].at = from /\ attach' = [attach EXCEPT ![t].at = to]

AskReturns(t, from, as) == attach[t].at = from /\ attach' = [attach EXCEPT ![t] = AskAt(as)]

StartsAttach(t) ==
  /\ AttachRuns = {} \/ AttachRuns \cup {t} \subseteq Refreshing
  /\ Overlap(When(LoadRuns # {}, "commands") \cup When(AttachRuns # {}, "sessions"))

\* An id this window already holds is the answer.
AttachKnown(t) ==
  /\ HandleOf[t] \in DOMAIN table.by_handle
  /\ AskReturns(t, "idle", "done")
  /\ UNCHANGED <<stateVars, load, detach, watch, reader, daemonVars, historyVars>>

\* request: which connection is live is read under the lock, and the answer is
\* waited for without it.
Asked(t) == IF held.control = NoControl THEN AskAt("failed")
                                        ELSE [AskAt("sent") EXCEPT !.control = held.control]

AttachUnknown(t) ==
  /\ HandleOf[t] \notin DOMAIN table.by_handle
  /\ attach[t].at = "idle" /\ attach' = [attach EXCEPT ![t] = Asked(t)]
  /\ StartsAttach(t)
  /\ UNCHANGED <<stateVars, load, detach, watch, reader, daemonVars, lost, astray>>

\* The daemon serves the verb and its answer is on the way back.
AnswerAttach(t) ==
  /\ attach[t].at = "sent" /\ attach[t].control \notin dead /\ bound # 0
  /\ LET i == peer[bound].last + 1 IN
       /\ attach' = [attach EXCEPT ![t].at = "answered", ![t].stream = i, ![t].on = bound]
       /\ peer' = [peer EXCEPT ![bound].last = i,
                               ![bound].feeds = [j \in DOMAIN @ \cup {i} |-> IF j = i THEN HandleOf[t] ELSE @[j]]]
  /\ UNCHANGED <<stateVars, load, detach, watch, reader, bound, historyVars>>

\* The daemon refuses, having no stream connection to route to: asked again
\* while the budget lasts.
RefuseAttach(t) ==
  /\ bound = 0 /\ attach[t].control \notin dead
  /\ \/ attach[t].at = "sent" /\ attach' = [attach EXCEPT ![t] = Asked(t)]
     \/ AskReturns(t, "sent", "failed")
  /\ UNCHANGED <<stateVars, load, detach, watch, reader, daemonVars, historyVars>>

FailAttach(t) ==
  /\ attach[t].control \in dead
  /\ AskReturns(t, "sent", "failed")
  /\ DisconnectControl(attach[t].control)
  /\ UNCHANGED <<table, next_generation, dialled, dead, load, detach, watch, daemonVars, historyVars>>

RememberAttach(t) ==
  /\ Ask(t, "answered", "recorded")
  /\ table' = Remember(table, attach[t].stream, HandleOf[t])
  /\ UNCHANGED <<held, next_generation, dialled, dead, announcing, load, detach, watch, reader,
                 daemonVars, historyVars>>

\* Mutant: the reader is not woken.
SignalAttached_Not(t) ==
  /\ AskReturns(t, "recorded", "done")
  /\ UNCHANGED <<stateVars, load, detach, watch, reader, daemonVars, historyVars>>

\* The table is the truth; the signal wakes a reader that waits for one.
SignalAttached(t) ==
  /\ AskReturns(t, "recorded", "done")
  /\ reader' = Send(reader, held.stream, Attached)
  /\ UNCHANGED <<stateVars, load, detach, watch, daemonVars, historyVars>>

-----------------------------------------------------------------------------
\* detach_session.

ForgetDetach(t) ==
  LET h == HandleOf[t] IN
  /\ detach[t].at = "idle" /\ h \in DOMAIN table.by_handle
  /\ detach' = [detach EXCEPT ![t].at = "forgotten", ![t].stream = table.by_handle[h], ![t].on = held.generation]
  /\ table' = Forget(table, h)
  /\ Overlap(When(LoadRuns # {}, "commands")
             \cup When(\E g \in Generations : HeldFor(reader[g]) = table.by_handle[h], "sessions"))
  /\ UNCHANGED <<held, next_generation, dialled, dead, announcing, load, attach, watch, reader,
                 daemonVars, lost, astray>>

\* The reader is told, and the daemon asked, of whatever is live by now.
SignalDetach(t) ==
  /\ detach[t].at = "forgotten"
  /\ reader' = Send(reader, held.stream, Detach(detach[t].stream))
  /\ detach' = IF held.control = NoControl
                 THEN [detach EXCEPT ![t] = DropAt("done")]
                 ELSE [detach EXCEPT ![t].at = "sent", ![t].control = held.control]
  /\ UNCHANGED <<stateVars, load, attach, watch, daemonVars, historyVars>>

DetachAnswered(t) ==
  detach[t].at = "sent" /\ detach' = [detach EXCEPT ![t] = DropAt("done")]

\* The daemon takes the id for one of the connection that is bound now.
ServeDetach(t) ==
  /\ DetachAnswered(t) /\ detach[t].control \notin dead
  /\ peer' = IF bound = 0 THEN peer
             ELSE [peer EXCEPT ![bound].feeds = Restrict(@, DOMAIN @ \ {detach[t].stream})]
  /\ UNCHANGED <<stateVars, load, attach, watch, reader, bound, historyVars>>

FailDetach(t) ==
  /\ DetachAnswered(t) /\ detach[t].control \in dead
  /\ DisconnectControl(detach[t].control)
  /\ Overlap({"sessions"})
  /\ UNCHANGED <<table, next_generation, dialled, dead, load, attach, watch, daemonVars, lost, astray>>

-----------------------------------------------------------------------------
\* The daemon writes output, and notices that a reader has gone.

SendFrame(g, i) ==
  /\ i \in DOMAIN peer[g].feeds /\ reader[g].at \notin {"over", "ended"}
  /\ FoldFunction(+, 0, peer[g].sent) < MaxFrames[g]
  /\ peer' = [peer EXCEPT ![g].sent[i] = @ + 1,
                          ![g].wire = Append(@, [stream |-> i, n |-> peer[g].sent[i] + 1])]
  /\ UNCHANGED <<stateVars, commandVars, reader, bound, historyVars>>

Unbind(g) ==
  /\ bound = g /\ reader[g].at \in {"over", "ended"}
  /\ bound' = 0
  /\ peer' = [peer EXCEPT ![g] = Closed(@)]
  /\ UNCHANGED <<stateVars, commandVars, reader, historyVars>>

-----------------------------------------------------------------------------
\* The reader of generation g: `read` of daemon/stream.rs.

Becomes(g, next) == reader' = [reader EXCEPT ![g] = next]
Local(g, next) ==
  /\ Becomes(g, next)
  /\ UNCHANGED <<stateVars, commandVars, daemonVars, historyVars>>

\* `read` returns, and with it go the inbox, the ledger and the socket.
Ends(g) ==
  /\ reader' = [reader EXCEPT ![g] = [Unspawned EXCEPT !.at = "over", !.shown = reader[g].shown]]
  /\ peer' = [peer EXCEPT ![g].wire = <<>>]
  /\ UNCHANGED <<stateVars, commandVars, bound, overlaps>>

\* Frames go to the webview in the order they are given.
Shown(r, frames) ==
  [r EXCEPT !.ledger = @ \cup {f.stream : f \in Range(frames)},
            !.shown = [i \in Ids |->
              IF \E k \in DOMAIN frames : frames[k].stream = i
                THEN frames[CHOOSE k \in DOMAIN frames :
                              /\ frames[k].stream = i
                              /\ \A m \in DOMAIN frames : frames[m].stream = i => m <= k].n
                ELSE @[i]]]

\* settle_pending, where what is held can be delivered or there is nothing.
Settled(r) == IF r.pending = <<>> THEN r ELSE Shown([r EXCEPT !.pending = <<>>], r.pending)
CanSettle(g) == reader[g].pending = <<>> \/ Routed(HeldFor(reader[g]))

\* What follows the acks of a pass: with streams attached, none of them may
\* have room for another chunk.  Nothing is read while a frame is held.
AfterSettling(r) ==
  (IF r.ledger # {} THEN {"blocked"} ELSE {}) \cup {IF r.pending = <<>> THEN "read" ELSE "holding"}

\* What brings the thread to another pass of its loop: a signal, and where it
\* waits for one READ_POLL at the latest; the webview rendering something, where
\* it is blocked for credit; in a read, the deadline a platform may have for it.
StartsPass(g) ==
  \/ reader[g].at \in {"pass", "holding"}
  \/ reader[g].at = "blocked" /\ (reader[g].signals # <<>> \/ held.stream = g)
  \/ reader[g].at = "read" /\ reader[g].signals # <<>> /\ peer[g].wire = <<>> /\ ~peer[g].closed

Told(g, signal) == signal \in Range(reader[g].signals)

\* A pass up to the next wait: every signal is taken, what is held is settled,
\* acks are flushed.
Pass(g) ==
  LET took == [reader[g] EXCEPT !.signals = <<>>, !.ledger = {i \in @ : ~Told(g, Detach(i))}]
      r    == IF CanSettle(g) THEN Settled(took) ELSE took
  IN  /\ StartsPass(g) /\ ~Told(g, Stop)
      /\ \E next \in AfterSettling(r) : Local(g, [r EXCEPT !.at = next])

TakeStop(g) ==
  /\ StartsPass(g) /\ Told(g, Stop)
  /\ Ends(g)
  /\ UNCHANGED <<lost, astray>>

\* On to the next frame of the buffer, or to another pass.
NextFrame(r) == [r EXCEPT !.at = IF r.buffer = <<>> THEN "pass" ELSE "route"]

\* The same, straight after a frame was held.
Resettle(g) ==
  /\ reader[g].at = "resettle"
  /\ Local(g, NextFrame(IF CanSettle(g) THEN Settled(reader[g]) ELSE reader[g]))

\* A drop of the connection while it is the live one is the reader finding
\* fault with the daemon.
Astray(g) == astray' = IF held.generation = g THEN astray \cup {g} ELSE astray

\* PENDING_DEADLINE: two seconds are longer than an answer that has been
\* written takes to be recorded.
GiveUp(g) ==
  /\ reader[g].at = "resettle" \/ StartsPass(g)
  /\ ~CanSettle(g)
  /\ ~ \E t \in Attaches : attach[t].at = "answered" /\ attach[t].on = g /\ attach[t].stream = HeldFor(reader[g])
  /\ Ends(g) /\ Astray(g)
  /\ UNCHANGED lost

\* One read returns some of what was written, or the end of the stream.
ReadFrames(g) ==
  /\ reader[g].at = "read"
  /\ \E n \in 1..Len(peer[g].wire) :
       /\ Becomes(g, [reader[g] EXCEPT !.at = "route", !.buffer = SubSeq(peer[g].wire, 1, n)])
       /\ peer' = [peer EXCEPT ![g].wire = SubSeq(@, n + 1, Len(@))]
  /\ UNCHANGED <<stateVars, commandVars, bound, historyVars>>

ReadEnd(g) ==
  /\ reader[g].at = "read" /\ peer[g].closed /\ peer[g].wire = <<>>
  /\ Ends(g)
  /\ UNCHANGED <<lost, astray>>

\* The socket failed, the framing is corrupt, the window's credit was broken,
\* or the sink of the webview is gone.
ReaderFails(g) ==
  /\ reader[g].at = "read" /\ g \in 1..MaxFailures
  /\ Ends(g)
  /\ lost' = lost \cup {g}
  /\ UNCHANGED astray

\* Mutant: the table is consulted before what is held.
Held_TableFirst(g, f) == HeldFor(reader[g]) = f.stream /\ ~Routed(f.stream)

\* route_or_hold: what is held is consulted before the table.
Held(g, f) == HeldFor(reader[g]) = f.stream

Front(g) == reader[g].buffer[1]
Routing(g) == reader[g].at = "route"
Past(g) == NextFrame([reader[g] EXCEPT !.buffer = Tail(@)])

HoldMore(g) ==
  /\ Routing(g) /\ Held(g, Front(g))
  /\ Local(g, [Past(g) EXCEPT !.pending = Append(@, Front(g))])

Deliver(g) ==
  /\ Routing(g) /\ ~Held(g, Front(g))
  /\ Front(g).stream \in reader[g].ledger \/ Routed(Front(g).stream)
  /\ Local(g, Shown(Past(g), <<Front(g)>>))

Unattached(g) ==
  /\ Routing(g) /\ ~Held(g, Front(g))
  /\ Front(g).stream \notin reader[g].ledger /\ ~Routed(Front(g).stream)

\* The daemon feeds the id, and no detach of it is on its way.
Fed(g, i) ==
  /\ i \in DOMAIN peer[g].feeds
  /\ \A t \in Detaches : detach[t].stream # i \/ detach[t].on # g

\* Below the watermark: the tail of a detach.
Discard(g) ==
  /\ Unattached(g) /\ Front(g).stream < table.next
  /\ Becomes(g, Past(g))
  /\ IF Fed(g, Front(g).stream) THEN Astray(g) ELSE astray' = astray
  /\ UNCHANGED <<stateVars, commandVars, daemonVars, lost, overlaps>>

\* The watermark itself: the opening of an attach not yet recorded.
Hold(g) ==
  /\ Unattached(g) /\ Front(g).stream = table.next /\ reader[g].pending = <<>>
  /\ Local(g, [Past(g) EXCEPT !.pending = <<Front(g)>>, !.at = "resettle"])

\* Beyond it, or a second id at it: never assigned.
DropConnection(g) ==
  /\ Unattached(g) /\ Front(g).stream >= table.next
  /\ Front(g).stream = table.next => reader[g].pending # <<>>
  /\ Ends(g) /\ Astray(g)
  /\ UNCHANGED lost

\* Mutant: the reader that ends takes whatever is live with it.
DisconnectGeneration_Any(g, readers) == Take(held.control # NoControl, readers)

DisconnectGeneration(g, readers) ==
  Take(held.control # NoControl /\ held.generation = g, readers)

\* on_closed.
OnClosed(g) ==
  /\ reader[g].at = "over"
  /\ DisconnectGeneration(g, [reader EXCEPT ![g].at = "ended"])
  /\ UNCHANGED <<table, next_generation, dialled, dead, commandVars, daemonVars, historyVars>>

-----------------------------------------------------------------------------
LoadStep(l) ==
  \/ Supersede(l) \/ SupersedeNothing(l) \/ AnnounceSuperseded(l)
  \/ Handshake(l) \/ HandshakeFails(l) \/ SpawnReader(l)
  \/ InstallStream(l) \/ InstallNothing(l)

AttachStep(t) ==
  \/ AnswerAttach(t) \/ RefuseAttach(t) \/ FailAttach(t) \/ RememberAttach(t) \/ SignalAttached(t)

ReaderStep(g) ==
  \/ Pass(g) \/ TakeStop(g) \/ Resettle(g) \/ GiveUp(g)
  \/ ReadFrames(g) \/ ReadEnd(g) \/ ReaderFails(g)
  \/ HoldMore(g) \/ Deliver(g) \/ Discard(g) \/ Hold(g) \/ DropConnection(g)
  \/ OnClosed(g)

Next ==
  \/ \E l \in Loads : ConnectHeld(l) \/ Connect(l) \/ LoadStep(l)
  \/ \E t \in Attaches : AttachKnown(t) \/ AttachUnknown(t) \/ AttachStep(t)
  \/ \E t \in Detaches : ForgetDetach(t) \/ SignalDetach(t) \/ ServeDetach(t) \/ FailDetach(t)
  \/ \E w \in Watches : Watch(w)
  \/ \E g \in Generations : ReaderStep(g) \/ Unbind(g)
  \/ \E g \in Generations, i \in Ids : SendFrame(g, i)
  \/ \E c \in 1..Cardinality(Loads) : ControlFails(c)
  \/ Announce

Spec == Init /\ [][Next]_vars

-----------------------------------------------------------------------------
\* Properties.

\* Every variable has its type; and the two directions of the table agree,
\* below the watermark: a session that has an id is the one that id routes to,
\* and an id that is routed is the one its session has, unless a record of an
\* earlier connection got in between.
WindowTypeOK ==
  /\ held \in [control : 0..Cardinality(Loads), stream : 0..Cardinality(Loads),
               generation : 0..Cardinality(Loads)]
  /\ DOMAIN table.by_handle \subseteq Handles /\ DOMAIN table.by_stream \subseteq Ids
  /\ \A i \in DOMAIN table.by_stream : i < table.next
  /\ "commands" \notin overlaps =>
       \A h \in DOMAIN table.by_handle : /\ table.by_handle[h] \in DOMAIN table.by_stream
                                         /\ table.by_stream[table.by_handle[h]] = h
  /\ overlaps = {} => \A i \in DOMAIN table.by_stream :
                        /\ table.by_stream[i] \in DOMAIN table.by_handle
                        /\ table.by_handle[table.by_stream[i]] = i
  /\ next_generation \in 0..Cardinality(Loads) /\ dialled \in 0..Cardinality(Loads)
  /\ dead \subseteq 1..dialled /\ announcing \in Nat
  /\ \A l \in Loads : load[l].at \in LoadSteps
  /\ \A t \in Attaches : attach[t].at \in AskSteps
  /\ \A t \in Detaches : detach[t].at \in DropSteps
  /\ \A w \in Watches : watch[w].at \in {"idle", "parked", "returned"}
  /\ \A g \in Generations :
       /\ reader[g].at \in ReaderSteps
       /\ Range(reader[g].signals) \subseteq Signals
       /\ Range(reader[g].pending) \cup Range(reader[g].buffer) \subseteq Frames
  /\ bound \in 0..next_generation

\* What the watermark is for, against an honest daemon: unless two attaches,
\* or an attach or detach and a load, ran at the same time, or a session was
\* detached between the recording of its id and the release of what was held
\* for it, the reader of the live connection never takes the daemon for lost
\* and never discards a frame of a session the daemon still feeds.
PeersAgree == overlaps = {} => astray = {}

\* attach_channel's "every id this window held is void": under the same
\* condition, once a stream is installed, a session the table knows is fed by
\* the daemon on the connection being read, under that id.
StreamsAreFed ==
  (overlaps \subseteq {"sessions"} /\ held.stream # NoStream /\ bound = held.stream)
    => \A h \in DOMAIN table.by_handle :
         /\ table.by_handle[h] \in DOMAIN peer[bound].feeds
         /\ peer[bound].feeds[table.by_handle[h]] = h

\* The table agrees with itself, and with the daemon.
TableAgrees == WindowTypeOK /\ StreamsAreFed

\* A connection is torn down only because of itself: its control socket
\* failed, or the reader of its newest stream connection lost that one or the
\* daemon -- never a reader that was replaced, whatever commands run beside
\* the load that replaces it, as long as loads come one at a time.
HealthyIsKept ==
  [][(held.control # NoControl /\ held'.control = NoControl)
       => \/ held.control \in dead'
          \/ held.generation \in lost \cup astray]_vars

\* The output of a stream id reaches the webview in the order the daemon wrote
\* it, however its frames meet the recording of the id.
DeliveredInOrder ==
  [][\A g \in Generations, i \in Ids : reader'[g].shown[i] >= reader[g].shown[i]]_vars

\* daemon_watch: a watcher parked on a connection that is gone or replaced is
\* about to be let go by the thread that saw to that.
WatcherIsLetGo ==
  \A w \in Watches :
    (/\ watch[w].at = "parked"
     /\ held.control # watch[w].control \/ held.generation # watch[w].generation)
      => announcing > 0 \/ \E l \in Loads : load[l].at = "claimed"

\* The opening frames of an attach do not wait for the webview: a reader that
\* is blocked for credit, with frames held for an id the table routes by now,
\* has a signal to take or is about to be sent one.  (A stream that is not
\* installed yet cannot be sent any.)
HeldIsWoken ==
  \A g \in Generations :
    (/\ reader[g].at = "blocked" /\ reader[g].pending # <<>> /\ Routed(HeldFor(reader[g]))
     /\ held.stream = g /\ "commands" \notin overlaps)
      => reader[g].signals # <<>> \/ \E t \in Attaches : attach[t].at = "recorded"

=============================================================================
