---------------------------- MODULE SessionOutput ----------------------------
(***************************************************************************)
(* How a session's output reaches the clients watching it:                 *)
(* crates/nysia-core/src/rpc/session.rs (OwnedSession::attach and ::close, *)
(* spawn_pump, blocked, flush, flush_all), StreamSink of rpc/stream.rs and *)
(* the ring of vt/replay.rs.                                               *)
(*                                                                         *)
(* Three kinds of thread meet here.  The pump takes chunks from the pty,   *)
(* feeds the terminal state (`vt` lock), coalesces them in `pending` and   *)
(* offers that buffer to every sink in the list (`sinks` lock).  An        *)
(* attaching thread snapshots the replay ring (`vt` lock), sends it, marks *)
(* its end, and only then joins the list (`sinks` lock).  A closing thread *)
(* stops the pump and empties the list.  What one lock covers is one step. *)
(*                                                                         *)
(* The child's bytes are numbered 1, 2, ..; <<a, b>> stands for the bytes  *)
(* a+1..b.  Sizes are small numbers in the order the code's have.          *)
(***************************************************************************)
EXTENDS Integers, Sequences, FiniteSetsExt, SequencesExt

CONSTANTS
  Sinks,         \* the stream sinks clients attach to this session
  Plays,         \* bound: what a behaviour is made of: the sinks that
                 \* attach, the bytes written, and what else happens
  MaxBytes,      \* bound: bytes the child ever writes
  ReadMax,       \* READ_BUFFER: the largest chunk the pty's reader hands over
  Ring,          \* capacity of the replay ring
  Newlines,      \* which of the child's bytes are newlines
  AlignScan,     \* ALIGN_SCAN_LIMIT
  CoalesceMin,   \* COALESCE_MIN
  FlushCeiling,  \* FLUSH_CEILING
  Initial,       \* CreditWindow::per_stream_initial
  Maximum,       \* CreditWindow::per_stream_max
  Chunk,         \* CreditWindow::chunk
  OutboxFrames   \* OUTBOX_FRAMES

\* What happens to a session besides output.
Happenings == {"exit", "eof", "close", "release"}

ASSUME OutputAssumption ==
  /\ {MaxBytes, ReadMax, Ring, AlignScan, CoalesceMin, FlushCeiling,
      Initial, Maximum, Chunk, OutboxFrames} \subseteq Nat \ {0}
  /\ Plays \subseteq [sinks : SUBSET Sinks, events : SUBSET Happenings, bytes : 0..MaxBytes]
  /\ AlignScan < Ring
  /\ Newlines \subseteq 1..MaxBytes
  /\ Initial <= Maximum

VARIABLES
  play,      \* what this behaviour is made of, which no step changes
  exited,    \* the waiter has recorded the child's exit status
  eof,       \* the pty's output has ended and been drained
  fed,       \* bytes the terminal state has been fed
  lost,      \* bytes trimmed from the front of the replay ring
  base, tip, \* `pending` holds the bytes base+1..tip
  aged,      \* `oldest` is FLUSH_INTERVAL old
  pump,      \* where the pump thread is
  announced, \* the pump's `exit_sent`
  stop,      \* OwnedSession::stop
  closer,    \* where the thread in `close` is
  status,    \* `shutdown` came back with an exit status
  feeding,   \* OwnedSession::sinks
  attacher,  \* where each sink's attach is
  todo,      \* what is left of its replay
  credit, delivered, closed,  \* StreamSink
  frames,    \* every frame a sink's outbox ever took
  taken,     \* how many of them the client has
  unacked    \* payload bytes it has rendered and not acked

pumpVars   == <<fed, lost, pump, announced>>
bufferVars == <<base, tip, aged, feeding, delivered, credit, frames>>
attachVars == <<attacher, todo>>
closeVars  == <<stop, closer, status>>
ptyVars    == <<play, exited, eof>>
clientVars == <<closed, taken, unacked>>
vars == <<pumpVars, bufferVars, attachVars, closeVars, ptyVars, clientVars>>

\* FrameKind.  "Replay" and "Output" are both `Output` on the wire.
Kinds == {"Grant", "Replay", "ReplayEnd", "Output", "Exit"}
Frame == [kind : Kinds, from : 0..MaxBytes, to : 0..MaxBytes]
Mark(kind) == [kind |-> kind, from |-> 0, to |-> 0]

SessionTypeOK ==
  /\ play \in Plays
  /\ {exited, eof, aged, announced, stop, status} \subseteq BOOLEAN
  /\ fed \in 0..MaxBytes /\ lost \in 0..fed
  /\ tip \in 0..fed /\ base \in 0..tip
  /\ pump \in {"top", "gate", "read", "reply", "append", "check", "announce", "tail", "done"}
  /\ closer \in {"open", "stopped", "shut", "drained", "closed"}
  /\ feeding \subseteq Sinks
  /\ attacher \in [Sinks -> {"none", "replay", "check", "join", "done"}]
  /\ todo \in [Sinks -> (0..MaxBytes) \X (0..MaxBytes)]
  /\ credit \in [Sinks -> (1 - Chunk)..Maximum]
  /\ delivered \in [Sinks -> 0..MaxBytes]
  /\ closed \in [Sinks -> BOOLEAN]
  /\ frames \in [Sinks -> Seq(Frame)]
  /\ taken \in [Sinks -> Nat] /\ unacked \in [Sinks -> Nat]

Init ==
  /\ play \in Plays
  /\ exited = FALSE /\ eof = FALSE /\ aged = FALSE /\ announced = FALSE
  /\ fed = 0 /\ lost = 0 /\ base = 0 /\ tip = 0
  /\ pump = "top" /\ closer = "open" /\ stop = FALSE /\ status = FALSE
  /\ feeding = {}
  /\ attacher = [s \in Sinks |-> "none"]
  /\ todo = [s \in Sinks |-> <<0, 0>>]
  /\ credit = [s \in Sinks |-> Initial]
  /\ delivered = [s \in Sinks |-> 0]
  /\ closed = [s \in Sinks |-> FALSE]
  /\ frames = [s \in Sinks |-> <<>>]
  /\ taken = [s \in Sinks |-> 0]
  /\ unacked = [s \in Sinks |-> 0]

-----------------------------------------------------------------------------
\* StreamSink.

Room(s) == OutboxFrames - (Len(frames[s]) - taken[s])

Blocked(s) == credit[s] <= 0

\* What `send` does with a frame that spends nothing: it is dropped if the
\* sink is closed or its outbox is full, and no caller retries it.
Sending(s, kind) ==
  IF closed[s] \/ Room(s) = 0 THEN frames[s] ELSE Append(frames[s], Mark(kind))

\* Frames of one kind carrying the bytes a+1..b, each at most `Chunk` long.
Chunked(kind, a, b, n) ==
  [i \in 1..n |-> [kind |-> kind,
                   from |-> a + (i - 1) * Chunk,
                   to   |-> Min({b, a + i * Chunk})]]

\* Mutant: an allowance that is spent is spent some more.
Affordable_Overspends(s) == Room(s)

\* How many chunks in a row a sink takes: each is sent if the credit is above
\* zero before it, and spends its length.
Affordable(s) ==
  IF Blocked(s) THEN 0 ELSE Min({Room(s), (credit[s] + Chunk - 1) \div Chunk})

\* Mutant: an ack that finds the allowance spent is lost.
Replenished_NotFromZero(s, bytes) == IF Blocked(s) THEN credit[s] ELSE credit[s] + bytes

\* `replenish`
Replenished(s, bytes) == Min({Maximum, credit[s] + bytes})

-----------------------------------------------------------------------------
\* The pending buffer.

Pending == tip - base

Listening == {s \in feeding : ~closed[s]}

\* Mutant: the buffer is offered from its head again.
Resume_FromHead(s) == 0

\* Where flush_all resumes with a sink, and how far it gets.
Resume(s) == Min({delivered[s], Pending})

Chunks(s) == Min({Affordable(s), (Pending - Resume(s) + Chunk - 1) \div Chunk})

Done(s) == Min({Pending, Resume(s) + Chunks(s) * Chunk})

\* The bytes the slowest sink has taken.
Common == Min({Done(s) : s \in Listening})

\* `flush_all`, under the lock of the list.  A sink that closes while it runs
\* is as good as one that closed before.
FlushAll ==
  \/ /\ Pending = 0
     /\ UNCHANGED bufferVars
  \/ /\ Pending > 0 /\ Listening = {}
     /\ feeding' = {} /\ base' = tip /\ aged' = FALSE
     /\ UNCHANGED <<tip, delivered, credit, frames>>
  \/ /\ Pending > 0 /\ Listening # {}
     /\ feeding' = Listening
     /\ base' = base + Common
     /\ aged' = (aged /\ base' < tip)
     /\ frames' = [s \in Sinks |->
          IF s \in Listening
            THEN frames[s] \o Chunked("Output", base + Resume(s), base + Done(s), Chunks(s))
            ELSE frames[s]]
     /\ credit' = [s \in Sinks |->
          IF s \in Listening THEN credit[s] - (Done(s) - Resume(s)) ELSE credit[s]]
     /\ delivered' = [s \in Sinks |->
          IF s \in Listening THEN Done(s) - Common ELSE delivered[s]]
     /\ UNCHANGED tip

-----------------------------------------------------------------------------
\* The pump thread.

PumpGoes(from, to) == pump = from /\ pump' = to

\* Mutant: the flag is looked at only when nothing is pending.
PumpStops_Lazily ==
  /\ stop /\ Pending = 0
  /\ PumpGoes("top", "tail")
  /\ UNCHANGED <<fed, lost, announced, bufferVars, attachVars, closeVars, ptyVars, clientVars>>

PumpStops ==
  /\ stop
  /\ PumpGoes("top", "tail")
  /\ UNCHANGED <<fed, lost, announced, bufferVars, attachVars, closeVars, ptyVars, clientVars>>

\* `flush`
PumpFlushes ==
  /\ ~stop
  /\ PumpGoes("top", "gate")
  /\ IF Pending >= CoalesceMin \/ aged THEN FlushAll ELSE UNCHANGED bufferVars
  /\ UNCHANGED <<fed, lost, announced, attachVars, closeVars, ptyVars, clientVars>>

\* `blocked(&sinks) || pending.len() >= FLUSH_CEILING`
Holds == (Listening # {} /\ \A s \in Listening : Blocked(s)) \/ Pending >= FlushCeiling

PumpGates ==
  /\ PumpGoes("gate", IF Holds THEN "top" ELSE "read")
  /\ feeding' = Listening
  /\ UNCHANGED <<fed, lost, announced, base, tip, aged, delivered, credit, frames,
                 attachVars, closeVars, ptyVars, clientVars>>

\* `ReplayRing::push`: what is gone from the front once n more bytes are in.
Trimmed(n) ==
  LET cut  == fed + n - Ring
      near == {b \in Newlines : cut < b /\ b <= cut + AlignScan}
  IN IF cut <= lost THEN lost ELSE IF near = {} THEN cut ELSE Min(near)

\* A chunk: the terminal state has it before `pending` does, and what the
\* terminal answers to a query in it goes to the pty in between.
PumpFeeds ==
  \E n \in 1..ReadMax :
    /\ ~eof /\ fed + n <= play.bytes
    /\ pump = "read" /\ pump' \in {"reply", "append"}
    /\ fed' = fed + n
    /\ lost' = Trimmed(n)
    /\ UNCHANGED <<announced, bufferVars, attachVars, closeVars, ptyVars, clientVars>>

\* `PtySession::write` returns, or fails: it stands while the child does not
\* read its input, and holds nothing of this module's meanwhile.
PumpReplies ==
  /\ PumpGoes("reply", "append")
  /\ UNCHANGED <<fed, lost, announced, bufferVars, attachVars, closeVars, ptyVars, clientVars>>

PumpAppends ==
  /\ PumpGoes("append", "check")
  /\ tip' = fed
  /\ UNCHANGED <<fed, lost, announced, base, aged, feeding, delivered, credit, frames,
                 attachVars, closeVars, ptyVars, clientVars>>

PumpTimesOut ==
  /\ PumpGoes("read", "check")
  /\ UNCHANGED <<fed, lost, announced, bufferVars, attachVars, closeVars, ptyVars, clientVars>>

PumpSeesEof ==
  /\ eof
  /\ PumpGoes("read", "tail")
  /\ FlushAll
  /\ UNCHANGED <<fed, lost, announced, attachVars, closeVars, ptyVars, clientVars>>

PumpChecksExit ==
  /\ IF exited /\ ~announced
       THEN PumpGoes("check", "announce") /\ FlushAll
       ELSE PumpGoes("check", "top") /\ UNCHANGED bufferVars
  /\ UNCHANGED <<fed, lost, announced, attachVars, closeVars, ptyVars, clientVars>>

PumpAnnounces ==
  /\ PumpGoes("announce", "top")
  /\ announced' = TRUE
  /\ frames' = [s \in Sinks |-> IF s \in feeding THEN Sending(s, "Exit") ELSE frames[s]]
  /\ UNCHANGED <<fed, lost, base, tip, aged, feeding, delivered, credit,
                 attachVars, closeVars, ptyVars, clientVars>>

PumpEnds ==
  /\ PumpGoes("tail", "done")
  /\ FlushAll
  /\ UNCHANGED <<fed, lost, announced, attachVars, closeVars, ptyVars, clientVars>>

Pump ==
  \/ PumpStops \/ PumpFlushes \/ PumpGates \/ PumpFeeds \/ PumpReplies \/ PumpAppends
  \/ PumpTimesOut \/ PumpSeesEof \/ PumpChecksExit \/ PumpAnnounces \/ PumpEnds

\* The pump stands in a write to the pty.
Replying == pump = "reply"

\* FLUSH_INTERVAL passes with bytes pending.
Ages ==
  /\ ~aged /\ Pending > 0
  /\ aged' = TRUE
  /\ UNCHANGED <<base, tip, feeding, delivered, credit, frames,
                 pumpVars, attachVars, closeVars, ptyVars, clientVars>>

-----------------------------------------------------------------------------
\* A thread in `attach`.

AttachGoes(s, from, to) == attacher[s] = from /\ attacher' = [attacher EXCEPT ![s] = to]

\* Mutant: the sink joins the list before its replay is sent.
TakeReplay_Joins(s) ==
  /\ s \in play.sinks
  /\ AttachGoes(s, "none", "replay")
  /\ frames' = [frames EXCEPT ![s] = Sending(s, "Grant")]
  /\ todo' = [todo EXCEPT ![s] = <<lost, fed>>]
  /\ feeding' = feeding \cup {s}
  /\ UNCHANGED <<base, tip, aged, delivered, credit,
                 pumpVars, closeVars, ptyVars, clientVars>>

\* The opening grant, and the snapshot of the ring.
TakeReplay(s) ==
  /\ s \in play.sinks
  /\ AttachGoes(s, "none", "replay")
  /\ frames' = [frames EXCEPT ![s] = Sending(s, "Grant")]
  /\ todo' = [todo EXCEPT ![s] = <<lost, fed>>]
  /\ UNCHANGED <<base, tip, aged, feeding, delivered, credit,
                 pumpVars, closeVars, ptyVars, clientVars>>

\* One chunk of it; the rest is dropped when the sink will not take one.
SendReplay(s) ==
  LET from == todo[s][1]
      to   == todo[s][2]
      end  == Min({to, from + Chunk})
  IN /\ attacher[s] = "replay" /\ from < to
     /\ IF closed[s] \/ Affordable(s) = 0
          THEN /\ todo' = [todo EXCEPT ![s] = <<to, to>>]
               /\ UNCHANGED <<frames, credit>>
          ELSE /\ todo' = [todo EXCEPT ![s] = <<end, to>>]
               /\ frames' = [frames EXCEPT ![s] = @ \o Chunked("Replay", from, end, 1)]
               /\ credit' = [credit EXCEPT ![s] = @ - (end - from)]
     /\ UNCHANGED <<base, tip, aged, feeding, delivered, attacher,
                    pumpVars, closeVars, ptyVars, clientVars>>

MarkReplay(s) ==
  /\ todo[s][1] = todo[s][2]
  /\ AttachGoes(s, "replay", "check")
  /\ frames' = [frames EXCEPT ![s] = Sending(s, "ReplayEnd")]
  /\ UNCHANGED <<base, tip, aged, feeding, delivered, credit, todo,
                 pumpVars, closeVars, ptyVars, clientVars>>

\* A session that has already exited still owes the client its exit frame.
CheckExit(s) ==
  /\ AttachGoes(s, "check", "join")
  /\ frames' = [frames EXCEPT ![s] = IF exited THEN Sending(s, "Exit") ELSE @]
  /\ UNCHANGED <<base, tip, aged, feeding, delivered, credit, todo,
                 pumpVars, closeVars, ptyVars, clientVars>>

Join(s) ==
  /\ AttachGoes(s, "join", "done")
  /\ feeding' = feeding \cup {s}
  /\ UNCHANGED <<base, tip, aged, delivered, credit, frames, todo,
                 pumpVars, closeVars, ptyVars, clientVars>>

Attach(s) == TakeReplay(s) \/ SendReplay(s) \/ MarkReplay(s) \/ CheckExit(s) \/ Join(s)

-----------------------------------------------------------------------------
\* The thread in `close`.

CloseGoes(from, to) == closer = from /\ closer' = to

CloseStops ==
  /\ "close" \in play.events
  /\ CloseGoes("open", "stopped")
  /\ stop' = TRUE
  /\ UNCHANGED <<status, bufferVars, pumpVars, attachVars, ptyVars, clientVars>>

\* `PtySession::shutdown` comes back within its timeouts, with whatever status
\* has been recorded by then.
CloseShutsDown ==
  /\ CloseGoes("stopped", "shut")
  /\ status' = exited
  /\ UNCHANGED <<stop, bufferVars, pumpVars, attachVars, ptyVars, clientVars>>

CloseDrains ==
  /\ CloseGoes("shut", "drained")
  /\ feeding' = {}
  /\ closed' = [s \in Sinks |-> closed[s] \/ s \in feeding]
  /\ frames' = [s \in Sinks |-> IF s \in feeding /\ status THEN Sending(s, "Exit") ELSE frames[s]]
  /\ UNCHANGED <<stop, status, base, tip, aged, delivered, credit, taken, unacked,
                 pumpVars, attachVars, ptyVars>>

CloseJoins ==
  /\ pump = "done"
  /\ CloseGoes("drained", "closed")
  /\ UNCHANGED <<stop, status, bufferVars, pumpVars, attachVars, ptyVars, clientVars>>

Close == CloseShutsDown \/ CloseDrains \/ CloseJoins

-----------------------------------------------------------------------------
\* The pty and the clients.

\* The waiter and the reader see the child's end separately, in either order.
Exits ==
  /\ "exit" \in play.events
  /\ ~exited /\ exited' = TRUE
  /\ UNCHANGED <<play, eof, bufferVars, pumpVars, attachVars, closeVars, clientVars>>

PipeEnds ==
  /\ "eof" \in play.events
  /\ ~eof /\ eof' = TRUE
  /\ UNCHANGED <<play, exited, bufferVars, pumpVars, attachVars, closeVars, clientVars>>

\* A frame reaches the client, which renders what it carries.
Deliver(s) ==
  LET frame == frames[s][taken[s] + 1] IN
  /\ taken[s] < Len(frames[s])
  /\ taken' = [taken EXCEPT ![s] = @ + 1]
  /\ unacked' = [unacked EXCEPT ![s] = @ + (frame.to - frame.from)]
  /\ UNCHANGED <<closed, bufferVars, pumpVars, attachVars, closeVars, ptyVars>>

\* The client acks what it has rendered, when a batch is full or when it has
\* gone quiet; `apply_credit` finds the sink while it is routed.
Ack(s) ==
  /\ ~closed[s] /\ unacked[s] > 0
  /\ unacked' = [unacked EXCEPT ![s] = 0]
  /\ credit' = [credit EXCEPT ![s] = Replenished(s, unacked[s])]
  /\ UNCHANGED <<closed, taken, base, tip, aged, feeding, delivered, frames,
                 pumpVars, attachVars, closeVars, ptyVars>>

\* The client detaches, or its connection goes.
Release(s) ==
  /\ "release" \in play.events /\ s \in play.sinks
  /\ ~closed[s] /\ closed' = [closed EXCEPT ![s] = TRUE]
  /\ UNCHANGED <<taken, unacked, bufferVars, pumpVars, attachVars, closeVars, ptyVars>>

Next ==
  \/ Pump \/ Ages \/ CloseStops \/ Close \/ Exits \/ PipeEnds
  \/ \E s \in Sinks : Attach(s) \/ Deliver(s) \/ Ack(s) \/ Release(s)

\* Threads are scheduled, time passes, sockets drain, and every client renders
\* what it is sent; nobody has to attach, detach, close, write or exit.  A child
\* need not read its input: a write of the pump's has no fairness, and neither
\* has a close while it stands, for `shutdown` wants the lock it holds.
Fairness ==
  /\ WF_vars(~Replying /\ Pump) /\ WF_vars(Ages) /\ WF_vars(~Replying /\ Close)
  /\ \A s \in Sinks : /\ WF_vars(SendReplay(s) \/ MarkReplay(s) \/ CheckExit(s) \/ Join(s))
                      /\ WF_vars(Deliver(s)) /\ WF_vars(Ack(s))

Spec == Init /\ [][Next]_vars /\ Fairness

-----------------------------------------------------------------------------
\* Properties.

\* Frames i and j of a sink's outbox carry output, and none between them does.
NextLive(fs, i, j) ==
  /\ i < j /\ fs[i].kind = "Output" /\ fs[j].kind = "Output"
  /\ \A k \in (i + 1)..(j - 1) : fs[k].kind # "Output"

\* flush_all's promise: however the sinks differ in speed, and wherever each
\* of them stopped, live output reaches a sink in order, with no byte twice
\* and none left out.
LiveOutputInOrder ==
  \A s \in Sinks : \A i, j \in DOMAIN frames[s] :
    NextLive(frames[s], i, j) => frames[s][i].to = frames[s][j].from

\* One ReplayEnd per attach, after the last replayed byte and before anything
\* live: a client holds the terminal's answers back until it, and lets every
\* answer through after it.
ReplayThenLive ==
  \A s \in Sinks : \A i, j \in DOMAIN frames[s] :
    i < j /\ frames[s][i].kind \in {"ReplayEnd", "Output"}
      => frames[s][j].kind \notin {"Replay", "ReplayEnd"}

\* What the first n frames of an outbox carry.
Carried(fs) ==
  LET sum[n \in 0..Len(fs)] == IF n = 0 THEN 0 ELSE sum[n - 1] + (fs[n].to - fs[n].from)
  IN sum

\* The bytes a client has been sent and has not acked.
Outstanding(s) ==
  unacked[s] + (Carried(frames[s])[Len(frames[s])] - Carried(frames[s])[taken[s]])

\* They never exceed the window by more than the end of one chunk, and the two
\* ends agree on how many they are.
WindowHonoured ==
  \A s \in Sinks :
    /\ Outstanding(s) = Initial - credit[s]
    /\ Outstanding(s) < Initial + Chunk

\* A flood is not absorbed into the daemon's memory, whichever sinks are slow.
PendingBounded == Pending < FlushCeiling + ReadMax

\* Neither the client's side of the window nor the daemon's memory is overrun, and
\* every thread is where its state says.
BuffersBounded == SessionTypeOK /\ WindowHonoured /\ PendingBounded

\* The child has stopped reading its input, with the pump in a write to it.
StuckInWrite == <>[]Replying

\* While the session runs, and the child has paused (it writes MaxBytes at the
\* most) with its input read, the pump is not held and has nothing left that a
\* sink is owed: every window reopens, whatever the sizes are and however many
\* sinks of whatever speed share the pump.
NoStall == StuckInWrite \/ []<>((Pending = 0 /\ ~Holds) \/ stop \/ eof)

\* `close` comes back: the pump it joins sees the flag wherever it was, a write
\* that never returns excepted.
CloseReturns == StuckInWrite \/ ((closer = "stopped") ~> (closer = "closed"))
=============================================================================
