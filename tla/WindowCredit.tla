---------------------------- MODULE WindowCredit ----------------------------
(***************************************************************************)
(* The credit window from end to end: the sinks of the daemon              *)
(* (StreamSink::send and ::replenish), the stream reader of the desktop    *)
(* process (apps/desktop/src-tauri/src/daemon/stream.rs) with its          *)
(* CreditLedger (channel/credit.rs), and the webview's own ledger          *)
(* (apps/web/src/transport/credit.ts, terminals.ts).                       *)
(*                                                                         *)
(* Frames of every pane share one stream socket, and so do the acks going  *)
(* back.  The reader thread alone touches the desktop's ledger; the        *)
(* webview's reports reach it as signals, in order.  One window of credit  *)
(* is in force throughout, and every stream is one the table routes until  *)
(* its pane is detached.                                                   *)
(***************************************************************************)
EXTENDS Integers, Sequences, FiniteSetsExt, SequencesExt, Functions

CONSTANTS
  Streams,       \* the panes' streams, all attached to begin with
  Detachable,    \* those the user may close
  ReadDeadline,  \* whether a read of the socket can time out (not on Windows)
  MaxReconnects, \* bound: stream connections that replace the first
  MaxOutput,     \* bound: output bytes the child of each stream writes
  MaxExits,      \* bound: exit frames sent on each stream
  ExitBytes,     \* payload of an exit frame
  Initial, Maximum, TotalInitial, TotalMax, AckBatch, Chunk  \* CreditWindow

\* `CreditWindow::is_coherent`, without the pending cap, which nothing enforces.
Coherent ==
  /\ Initial <= Maximum /\ TotalInitial <= TotalMax
  /\ Initial <= TotalInitial /\ Maximum <= TotalMax
  /\ Chunk > 0

ASSUME CreditAssumption ==
  /\ IsFiniteSet(Streams)
  /\ MaxOutput \in [Streams -> Nat] /\ MaxExits \in [Streams -> Nat]
  /\ {ExitBytes, Initial, Maximum, TotalInitial, TotalMax,
      AckBatch, Chunk} \subseteq Nat \ {0}
  /\ ReadDeadline \in BOOLEAN /\ MaxReconnects \in Nat
  /\ Detachable \subseteq Streams
  /\ Coherent

VARIABLES
  allowance,   \* StreamSink::credit, at the daemon
  written,     \* output bytes sent on each stream
  exits,       \* exit frames sent on each stream
  gone,        \* streams the daemon has finished with: detached
  wire,        \* frames on the stream socket, daemon to window
  acking,      \* bytes of acks on it, window to daemon
  buffer,      \* frames decoded from one read and not yet routed
  reader,      \* where the reader thread is; how it ended
  signals,     \* its inbox
  ledger,      \* CreditLedger::streams: stream -> [credit, unrendered, ungranted]
  total,       \* CreditLedger::total_credit
  totalUngranted,
  charged,     \* (history) exit frames charged to each stream's entry
  pane,        \* how far each pane's detach has got
  inFlight,    \* webview: delivered and not yet rendered
  pending,     \* webview: rendered and not yet reported
  idleAcks,    \* webview: streams with an idle-ack timer running
  reconnects   \* stream connections opened since the first

daemonVars == <<allowance, written, exits, gone>>
ledgerVars == <<ledger, total, totalUngranted, charged>>
webVars    == <<inFlight, pending, idleAcks, reconnects>>
vars == <<daemonVars, wire, acking, buffer, reader, signals, ledgerVars, pane, webVars>>

Kinds == {"output", "exit"}
Frame == [stream : Streams, kind : Kinds, bytes : Nat]
Signal == [kind : {"rendered", "detach"}, stream : Streams, bytes : Nat]

CreditTypeOK ==
  /\ allowance \in [Streams -> (1 - Chunk)..Maximum]
  /\ {written, exits, charged} \subseteq [Streams -> Nat]
  /\ gone \subseteq Streams
  /\ wire \in Seq(Frame) /\ buffer \in Seq(Frame) /\ signals \in Seq(Signal)
  /\ acking \in [Streams -> Nat]
  /\ reader \in {"top", "read", "decode", "output_overrun", "exit_overrun", "phantom_ack"}
  /\ DOMAIN ledger \subseteq Streams
  /\ ledger \in [DOMAIN ledger ->
       [credit : 0..Maximum, unrendered : 0..Initial, ungranted : 0..Initial]]
  /\ total \in 0..TotalMax /\ totalUngranted \in 0..TotalMax
  /\ pane \in [Streams -> {"shown", "forgotten", "posted", "detached", "closed"}]
  /\ inFlight \in [Streams -> Nat] /\ pending \in [Streams -> Nat]
  /\ idleAcks \subseteq {s \in Streams : pending[s] > 0}
  /\ reconnects \in 0..MaxReconnects

Zero == [s \in Streams |-> 0]

Init ==
  /\ allowance = [s \in Streams |-> Initial]
  /\ written = Zero /\ exits = Zero /\ gone = {}
  /\ wire = <<>> /\ buffer = <<>> /\ signals = <<>> /\ acking = Zero
  /\ reader = "top"
  /\ ledger = [s \in {} |-> 0] /\ total = TotalInitial /\ totalUngranted = 0
  /\ charged = Zero
  /\ pane = [s \in Streams |-> "shown"]
  /\ inFlight = Zero /\ pending = Zero /\ idleAcks = {} /\ reconnects = 0

-----------------------------------------------------------------------------
\* The daemon.

\* `StreamSink::send`: any credit at all is enough for a whole chunk.
Send(s, n) ==
  /\ s \notin gone /\ allowance[s] > 0
  /\ n <= Chunk /\ written[s] + n <= MaxOutput[s]
  /\ allowance' = [allowance EXCEPT ![s] = @ - n]
  /\ written' = [written EXCEPT ![s] = @ + n]
  /\ wire' = Append(wire, [stream |-> s, kind |-> "output", bytes |-> n])
  /\ UNCHANGED <<exits, gone, acking, buffer, reader, signals, ledgerVars, pane, webVars>>

\* An exit frame spends nothing, so no window can refuse it.  It need not come
\* last, nor once: an attach to a session that has exited sends one, the pump
\* another, with output after it while there is some, and a close one more.
SendExit(s) ==
  /\ s \notin gone /\ exits[s] < MaxExits[s]
  /\ exits' = [exits EXCEPT ![s] = @ + 1]
  /\ wire' = Append(wire, [stream |-> s, kind |-> "exit", bytes |-> ExitBytes])
  /\ UNCHANGED <<allowance, written, gone, acking, buffer, reader, signals, ledgerVars, pane, webVars>>

\* `apply_credit` and `replenish`; an ack for a detached stream is discarded.
ApplyAck(s) ==
  /\ acking[s] > 0
  /\ acking' = [acking EXCEPT ![s] = 0]
  /\ allowance' = [allowance EXCEPT ![s] = Min({Maximum, @ + acking[s]})]
  /\ UNCHANGED <<written, exits, gone, wire, buffer, reader, signals, ledgerVars, pane, webVars>>

-----------------------------------------------------------------------------
\* CreditLedger.

Fresh == [credit |-> Initial, unrendered |-> 0, ungranted |-> 0]

\* Mutant: an entry that is there is opened anew.
Opened_Anew(s) == [t \in DOMAIN ledger \cup {s} |-> IF t = s THEN Fresh ELSE ledger[t]]

\* `attach` leaves an entry that is there alone.
Opened(s) == IF s \in DOMAIN ledger THEN ledger
             ELSE [t \in DOMAIN ledger \cup {s} |-> IF t = s THEN Fresh ELSE ledger[t]]

Available(entry) == Min({entry.credit, total})

\* No attached stream can take another chunk.
IsBlocked ==
  /\ DOMAIN ledger # {}
  /\ total < Chunk \/ \A s \in DOMAIN ledger : Available(ledger[s]) < Chunk

\* `drain_ack`: the bytes it acks, and what it leaves in the ledger.
Drained(s) == Min({ledger[s].ungranted, Maximum - Min({ledger[s].credit, Maximum})})

\* Mutant: the shared budget is not given back.
Restored_Never(n) == 0

Restored(n) == Min({n, TotalMax - Min({total, TotalMax})})

Owing == {s \in DOMAIN ledger : ledger[s].ungranted > 0}

\* `flush_acks` walks every stream that owes an ack; the first one drained
\* returns the whole of the shared budget.
FlushAcks ==
  /\ acking' = [s \in Streams |-> acking[s] + IF s \in Owing THEN Drained(s) ELSE 0]
  /\ ledger' = [s \in DOMAIN ledger |->
                 [ledger[s] EXCEPT !.credit = @ + Drained(s), !.ungranted = 0]]
  /\ IF Owing = {} THEN UNCHANGED <<total, totalUngranted>>
                   ELSE total' = total + Restored(totalUngranted) /\ totalUngranted' = 0
  /\ UNCHANGED charged

-----------------------------------------------------------------------------
\* The reader thread.

Routed(s) == pane[s] = "shown"

\* `apply(Signal::Detach)`: CreditLedger::detach.
ApplyDetach(s) ==
  /\ IF s \in DOMAIN ledger
       THEN /\ total' = Min({TotalMax, total + ledger[s].unrendered})
            /\ ledger' = Restrict(ledger, DOMAIN ledger \ {s})
       ELSE UNCHANGED <<total, ledger>>
  /\ UNCHANGED <<totalUngranted, charged, acking, reader>>

\* `apply(Signal::Rendered)`: a stream the ledger has not opened is opened if
\* the table routes it; then `render_and_ack`.
ApplyRendered(s, n) ==
  LET book  == IF Routed(s) THEN Opened(s) ELSE ledger
      batch == book[s].ungranted + n
      room  == Maximum - Min({book[s].credit, Maximum})
      spent == [book EXCEPT ![s].unrendered = @ - n]
  IN \/ /\ s \in DOMAIN book => n > book[s].unrendered
        /\ reader' = IF s \in DOMAIN book THEN "phantom_ack" ELSE reader
        /\ UNCHANGED <<ledgerVars, acking>>
     \/ /\ s \in DOMAIN book /\ n <= book[s].unrendered /\ batch < AckBatch
        /\ ledger' = [spent EXCEPT ![s].ungranted = batch]
        /\ totalUngranted' = totalUngranted + n
        /\ UNCHANGED <<total, charged, acking, reader>>
     \/ /\ s \in DOMAIN book /\ n <= book[s].unrendered /\ batch >= AckBatch
        /\ ledger' = [spent EXCEPT ![s].ungranted = 0, ![s].credit = @ + Min({batch, room})]
        /\ total' = total + Restored(totalUngranted + n)
        /\ totalUngranted' = 0
        /\ acking' = [acking EXCEPT ![s] = @ + Min({batch, room})]
        /\ UNCHANGED <<charged, reader>>

\* One signal from the inbox, at the top of a pass.
TakeSignal ==
  LET signal == Head(signals) IN
  /\ reader = "top" /\ signals # <<>>
  /\ signals' = Tail(signals)
  /\ IF signal.kind = "detach" THEN ApplyDetach(signal.stream)
                               ELSE ApplyRendered(signal.stream, signal.bytes)
  /\ UNCHANGED <<daemonVars, wire, buffer, pane, webVars>>

\* The inbox is empty: acks go out, and the pass goes on to read.
Flush ==
  /\ reader = "top" /\ signals = <<>>
  /\ FlushAcks
  /\ reader' = "read"
  /\ UNCHANGED <<daemonVars, wire, buffer, signals, pane, webVars>>

\* Out of credit, the reader waits for a signal; otherwise it is in `read`,
\* and sees its signals once that has timed out.
Resume ==
  /\ reader = "read" /\ signals # <<>>
  /\ IsBlocked \/ (wire = <<>> /\ ReadDeadline)
  /\ reader' = "top"
  /\ UNCHANGED <<daemonVars, wire, acking, buffer, signals, ledgerVars, pane, webVars>>

WireBytes(fs) == FoldSeq(LAMBDA f, sum : sum + f.bytes, 0, fs)

\* One read of a chunk's worth of bytes completes one frame, which may have been
\* read in part before, and the smaller ones that fit in behind it.
Read ==
  \E n \in 1..Len(wire) :
    /\ reader = "read" /\ ~IsBlocked
    /\ WireBytes(SubSeq(wire, 2, n)) < Chunk
    /\ buffer' = SubSeq(wire, 1, n)
    /\ wire' = SubSeq(wire, n + 1, Len(wire))
    /\ reader' = "decode"
    /\ UNCHANGED <<daemonVars, acking, signals, ledgerVars, pane, webVars>>

\* `CreditLedger::receive`, which charges a frame of any kind.
Receive(f) ==
  LET book == Opened(f.stream) IN
  /\ f.bytes <= Available(book[f.stream])
  /\ ledger' = [book EXCEPT ![f.stream].credit = @ - f.bytes,
                            ![f.stream].unrendered = @ + f.bytes]
  /\ total' = total - f.bytes

Overruns(f) == f.bytes > Available(Opened(f.stream)[f.stream])

Attached(s) == s \in DOMAIN ledger \/ Routed(s)

\* `route` and `deliver`, one frame of the buffer; the webview counts output, and
\* never reports an exit as rendered.
Deliver ==
  LET f == Head(buffer) IN
  /\ reader = "decode" /\ buffer # <<>>
  /\ Attached(f.stream)
  /\ Receive(f)
  /\ IF f.kind = "output"
       THEN inFlight' = [inFlight EXCEPT ![f.stream] = @ + f.bytes] /\ UNCHANGED charged
       ELSE charged' = [charged EXCEPT ![f.stream] = @ + f.bytes] /\ UNCHANGED inFlight
  /\ buffer' = Tail(buffer)
  /\ UNCHANGED <<daemonVars, wire, acking, reader, signals, totalUngranted, pane, pending,
                 idleAcks, reconnects>>

\* A frame for a stream that has been detached.
Discard ==
  /\ reader = "decode" /\ buffer # <<>>
  /\ ~Attached(Head(buffer).stream)
  /\ buffer' = Tail(buffer)
  /\ UNCHANGED <<daemonVars, wire, acking, reader, signals, ledgerVars, pane, webVars>>

\* CreditError::Overrun: the connection is dropped.
Drop ==
  LET f == Head(buffer) IN
  /\ reader = "decode" /\ buffer # <<>>
  /\ Attached(f.stream) /\ Overruns(f)
  /\ reader' = IF f.kind = "output" THEN "output_overrun" ELSE "exit_overrun"
  /\ UNCHANGED <<daemonVars, wire, acking, buffer, signals, ledgerVars, pane, webVars>>

NextPass ==
  /\ reader = "decode" /\ buffer = <<>>
  /\ reader' = "top"
  /\ UNCHANGED <<daemonVars, wire, acking, buffer, signals, ledgerVars, pane, webVars>>

Reader == TakeSignal \/ Flush \/ Resume \/ Read \/ Deliver \/ Discard \/ Drop \/ NextPass

-----------------------------------------------------------------------------
\* The pane, and the webview behind the Channel.

PaneGoes(s, from, to) == s \in Detachable /\ pane[s] = from /\ pane' = [pane EXCEPT ![s] = to]

\* `detach_session`: the table forgets the id, the reader is told, and last
\* the daemon is.
Forget(s) ==
  /\ PaneGoes(s, "shown", "forgotten")
  /\ UNCHANGED <<daemonVars, wire, acking, buffer, reader, signals, ledgerVars, webVars>>

PostDetach(s) ==
  /\ PaneGoes(s, "forgotten", "posted")
  /\ signals' = Append(signals, [kind |-> "detach", stream |-> s, bytes |-> 0])
  /\ UNCHANGED <<daemonVars, wire, acking, buffer, reader, ledgerVars, webVars>>

DaemonDetaches(s) ==
  /\ PaneGoes(s, "posted", "detached")
  /\ gone' = gone \cup {s}
  /\ acking' = [acking EXCEPT ![s] = 0]
  /\ UNCHANGED <<allowance, written, exits, wire, buffer, reader, signals, ledgerVars, webVars>>

Report(s, n) == signals' = Append(signals, [kind |-> "rendered", stream |-> s, bytes |-> n])

\* xterm's write callback: a full batch is reported, a partial one waits.
Render(s) ==
  LET batch == pending[s] + inFlight[s] IN
  /\ inFlight[s] > 0
  /\ inFlight' = [inFlight EXCEPT ![s] = 0]
  /\ IF batch >= AckBatch
       THEN /\ Report(s, batch)
            /\ pending' = [pending EXCEPT ![s] = 0] /\ idleAcks' = idleAcks \ {s}
       ELSE /\ pending' = [pending EXCEPT ![s] = batch] /\ idleAcks' = idleAcks \cup {s}
            /\ UNCHANGED signals
  /\ UNCHANGED <<daemonVars, wire, acking, buffer, reader, ledgerVars, pane, reconnects>>

\* Mutant: the idle ack leaves what it reports to be reported again.
IdleAck_Keeps(s) ==
  /\ s \in idleAcks
  /\ Report(s, pending[s])
  /\ UNCHANGED <<daemonVars, wire, acking, buffer, reader, ledgerVars, pane, webVars>>

\* IDLE_ACK_MS after the last render: a partial batch leaves on its own.
IdleAck(s) ==
  /\ s \in idleAcks
  /\ Report(s, pending[s])
  /\ pending' = [pending EXCEPT ![s] = 0] /\ idleAcks' = idleAcks \ {s}
  /\ UNCHANGED <<daemonVars, wire, acking, buffer, reader, ledgerVars, pane, inFlight, reconnects>>

\* `TerminalRouter::close`, after the session's detach: the last ack goes out,
\* and what was still to be rendered never will be.
CloseSurface(s) ==
  /\ PaneGoes(s, "detached", "closed")
  /\ IF pending[s] > 0 THEN Report(s, pending[s]) ELSE UNCHANGED signals
  /\ pending' = [pending EXCEPT ![s] = 0] /\ idleAcks' = idleAcks \ {s}
  /\ inFlight' = [inFlight EXCEPT ![s] = 0]
  /\ UNCHANGED <<daemonVars, wire, acking, buffer, reader, ledgerVars, reconnects>>

\* The stream connection is replaced and every pane attached again; ids start
\* over.  `attach_channel` has a new reader, table and ledger; `resetStreams`
\* disposes the surfaces and their timers.  (Not while a pane is closing.)
Reconnect ==
  /\ reconnects < MaxReconnects /\ \A s \in Streams : pane[s] \in {"shown", "closed"}
  /\ reconnects' = reconnects + 1
  /\ allowance' = [s \in Streams |-> Initial]
  /\ wire' = <<>> /\ buffer' = <<>> /\ signals' = <<>> /\ acking' = Zero
  /\ reader' = "top"
  /\ ledger' = [s \in {} |-> 0] /\ total' = TotalInitial /\ totalUngranted' = 0
  /\ charged' = Zero
  /\ inFlight' = Zero /\ idleAcks' = {}
  /\ UNCHANGED <<written, exits, gone, pane, pending>>

Next ==
  \/ Reader
  \/ \E s \in Streams :
       \/ \E n \in 1..Chunk : Send(s, n)
       \/ SendExit(s) \/ ApplyAck(s)
       \/ Forget(s) \/ PostDetach(s) \/ DaemonDetaches(s)
       \/ Render(s) \/ IdleAck(s) \/ CloseSurface(s)
  \/ Reconnect

\* The reader thread runs, acks reach the daemon, and a visible pane renders.
Fairness ==
  /\ WF_vars(Reader)
  /\ \A s \in Streams : WF_vars(ApplyAck(s)) /\ WF_vars(Render(s)) /\ WF_vars(IdleAck(s))

Spec == Init /\ [][Next]_vars /\ Fairness

-----------------------------------------------------------------------------
\* Properties.

Dropped == reader \in {"output_overrun", "exit_overrun", "phantom_ack"}

\* What the frames, or signals, of one kind carry for a stream.
Bytes(fs, kind, s) ==
  SumFunction([i \in DOMAIN fs |-> IF fs[i].kind = kind /\ fs[i].stream = s THEN fs[i].bytes ELSE 0])

\* Output of the stream that is on its way to the ledger.
Coming(s) == Bytes(buffer, "output", s) + Bytes(wire, "output", s)
Book(s) == IF s \in DOMAIN ledger THEN ledger[s] ELSE Fresh

\* A window is only moved about: what the ledger of an attached stream may
\* still receive, what it has not seen rendered and what it has not acked add
\* up to what the stream was granted.
LedgerBalances ==
  \A s \in DOMAIN ledger :
    ledger[s].credit + ledger[s].unrendered + ledger[s].ungranted = Initial

\* The same of the budget the streams share, however many of them were closed
\* in mid-burst: closing sessions does not leak it away.
SharedBudgetBalances ==
  total + totalUngranted + SumFunction([s \in DOMAIN ledger |-> ledger[s].unrendered]) = TotalInitial

\* What the daemon may still send on a stream, what it has sent, and what it has
\* yet to hear was acked.
Promised(s) == allowance[s] + acking[s] + Coming(s)

\* The desktop's ledger mirrors the daemon's: it is what the desktop believes the
\* stream may still receive, or more by no more than the exit frames took, which
\* the desktop charges and the daemon does not.
MirrorAgrees ==
  \A s \in Streams \ gone :
    Routed(s) /\ ~Dropped =>
      Promised(s) \in Book(s).credit..(Book(s).credit + charged[s])

\* The window is moved about and nothing else, at both ends.
BooksBalance == CreditTypeOK /\ LedgerBalances /\ SharedBudgetBalances /\ MirrorAgrees

\* A daemon that honours the window is dropped for little.  The webview never
\* claims to have rendered what it was not sent, whatever it batches and
\* whenever its panes close (its ledger outlives the connection, so the claim is
\* for the first one).  Output is never a chunk or more over the stream's credit, but
\* for what exit frames have taken of it, because a sink with none left waits;
\* and where the credit would do, the budget is short only because it is shared,
\* or not yet given back.
HonestDaemonIsKept ==
  /\ reader = "phantom_ack" => reconnects > 0
  /\ reader = "output_overrun" =>
       LET f == Head(buffer) IN
       /\ f.bytes < Book(f.stream).credit + charged[f.stream] + Chunk
       /\ \/ f.bytes > Book(f.stream).credit
          \/ DOMAIN ledger \ {f.stream} # {}
          \/ totalUngranted > 0

\* A pane whose output is rendered goes on: its window reopens.
WindowReopens ==
  \A s \in Streams : []<>(allowance[s] > 0 \/ s \in gone \/ ~Routed(s) \/ Dropped)

=============================================================================
