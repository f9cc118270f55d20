------------------------- MODULE WindowStream_proofs -------------------------
(***************************************************************************)
(* Proofs about WindowStream, for any commands, sessions and failures.     *)
(*                                                                         *)
(* A healthy connection is kept because a reader that was told to stop, or *)
(* whose daemon closed on it, is never the one of the live generation      *)
(* (ReadersInOrder); and that in turn because a load claims its generation *)
(* under the lock before anything is told or closed (LoadsInOrder).        *)
(*                                                                         *)
(* Output is delivered in order because what was shown, what is held, what *)
(* was read and what is on the wire are in line (LineInv).  The table      *)
(* agrees with the daemon because an id is in one place at a time, on the  *)
(* way into the table, in it, or on the way out (TableInOrder); and the    *)
(* watermark misjudges no frame because it is the id that comes next, or   *)
(* the one whose answer is being recorded (PeersInv).                      *)
(***************************************************************************)
EXTENDS WindowStream, FiniteSetTheorems, TLAPS

\* Of a reader and of the daemon's side only these matter here.
ReadersShaped(r) ==
  /\ DOMAIN r = Generations
  /\ \A g \in Generations : /\ {"at", "signals"} \subseteq DOMAIN r[g]
                            /\ r[g].signals \in Seq(Range(r[g].signals))

PeersShaped(p) == DOMAIN p = Generations /\ \A g \in Generations : "closed" \in DOMAIN p[g]

LoadsTyped   == load \in [Loads -> [at : LoadSteps, generation : Nat, superseded : Nat]]
WatchesTyped == watch \in [Watches -> [at : {"idle", "parked", "returned"}, control : Nat, generation : Nat]]

WindowShaped ==
  /\ held \in [control : Nat, stream : Nat, generation : Nat]
  /\ next_generation \in Nat /\ dialled \in Nat /\ announcing \in Nat /\ bound \in Nat
  /\ LoadsTyped /\ WatchesTyped
  /\ ReadersShaped(reader) /\ PeersShaped(peer)

Live(g)     == held.control # NoControl /\ held.generation = g
Gone(g)     == reader[g].at \in {"over", "ended"}
Stopping(r) == Stop \in Range(r.signals)
Claims(l)   == load[l].at \in {"claimed", "announced", "answered", "spawned"}

\* Loads come one at a time; one that has claimed a generation holds the live
\* connection, which has no stream yet, and the daemon is bound to an older one
\* until the handshake.
LoadsInOrder ==
  /\ \A k, l \in LoadRuns : k = l
  /\ held.generation <= next_generation /\ held.stream <= next_generation /\ bound <= next_generation
  /\ \A l \in Loads : Claims(l) =>
       /\ load[l].generation \in 1..next_generation
       /\ held.control # NoControl => held.generation = load[l].generation /\ held.stream = NoStream
       /\ load[l].at \in {"claimed", "announced"} => bound < load[l].generation
       /\ load[l].at = "claimed" => load[l].superseded < load[l].generation
       /\ load[l].at # "spawned" =>
            \A g \in Generations : g = load[l].generation => reader[g].at = "none"

\* A generation nobody claimed is untouched; the live one is told of nothing,
\* and its reader ends only with its connection.
ReadersInOrder ==
  /\ \A g \in Generations : g > next_generation =>
       reader[g].at = "none" /\ ~Stopping(reader[g]) /\ ~peer[g].closed
  /\ \A g \in Generations : Live(g) =>
       /\ ~Stopping(reader[g])
       /\ reader[g].at = "over" => g \in lost \cup astray
       /\ peer[g].closed => Gone(g)

WatchersInOrder ==
  /\ \A w \in Watches : watch[w].at = "parked" => watch[w].control # NoControl
  /\ WatcherIsLetGo

WindowInv == WindowShaped /\ LoadsInOrder /\ ReadersInOrder /\ WatchersInOrder

-----------------------------------------------------------------------------
\* Helpers.

\* Generations are positive.
LEMMA GenerationsCount == Cardinality(Loads) \in Nat /\ Generations \subseteq Nat \ {0}
<1>1. Cardinality(Loads) \in Nat
  BY WindowAssumption, FS_CardinalityType
<1> QED
  BY <1>1 DEF Generations

\* One more signal.
LEMMA SignalAppended ==
  ASSUME NEW s, NEW x, s \in Seq(Range(s))
  PROVE  /\ Append(s, x) \in Seq(Range(Append(s, x)))
         /\ Range(Append(s, x)) = Range(s) \cup {x}
<1> DEFINE T == Range(s) \cup {x}
<1>1. s \in Seq(T)
  BY DEF Range
<1>2. Append(s, x) \in Seq(T) /\ Len(Append(s, x)) = Len(s) + 1 /\ Len(s) \in Nat
  BY <1>1
<1>3. /\ DOMAIN s = 1..Len(s) /\ DOMAIN Append(s, x) = 1..(Len(s) + 1)
      /\ \A i \in 1..Len(s) : Append(s, x)[i] = s[i]
      /\ Append(s, x)[Len(s) + 1] = x
  BY <1>1, <1>2
<1>4. Range(Append(s, x)) = T
  BY <1>2, <1>3 DEF Range
<1> QED
  BY <1>2, <1>4

\* A signal reaches one reader and changes nothing else of it.
LEMMA SendEffect ==
  ASSUME NEW readers, ReadersShaped(readers), NEW k, NEW signal
  PROVE  /\ ReadersShaped(Send(readers, k, signal))
         /\ \A g \in Generations :
              /\ Send(readers, k, signal)[g].at = readers[g].at
              /\ g # k => Send(readers, k, signal)[g] = readers[g]
              /\ signal # Stop => (Stopping(Send(readers, k, signal)[g]) <=> Stopping(readers[g]))
<1>1. CASE k = NoStream \/ readers[k].at \in {"over", "ended"} \/ k \notin Generations
  <2>1. Send(readers, k, signal) = readers \/ k \notin Generations
    BY <1>1 DEF Send
  <2>2. ASSUME k \notin Generations
        PROVE  /\ DOMAIN Send(readers, k, signal) = Generations
               /\ \A g \in Generations : Send(readers, k, signal)[g] = readers[g]
    BY <2>2 DEF Send, ReadersShaped
  <2> QED
    BY <2>1, <2>2 DEF ReadersShaped
<1>2. CASE k # NoStream /\ readers[k].at \notin {"over", "ended"} /\ k \in Generations
  <2> DEFINE s == readers[k].signals
             r == Send(readers, k, signal)
  <2>1. r = [readers EXCEPT ![k].signals = Append(s, signal)]
    BY <1>2 DEF Send
  <2>2. /\ DOMAIN r = Generations
        /\ \A g \in Generations : g # k => r[g] = readers[g]
        /\ {"at", "signals"} \subseteq DOMAIN r[k]
        /\ r[k].at = readers[k].at /\ r[k].signals = Append(s, signal)
    BY <1>2, <2>1 DEF ReadersShaped
  <2>3. /\ Append(s, signal) \in Seq(Range(Append(s, signal)))
        /\ Range(Append(s, signal)) = Range(s) \cup {signal}
    BY <1>2, SignalAppended DEF ReadersShaped
  <2> HIDE DEF r
  <2>4. ReadersShaped(r)
    BY <2>2, <2>3 DEF ReadersShaped
  <2>5. signal # Stop => (Stopping(r[k]) <=> Stopping(readers[k]))
    BY <2>2, <2>3 DEF Stopping
  <2> QED
    BY <2>2, <2>4, <2>5 DEF r
<1> QED
  BY <1>1, <1>2

\* A load moves on, or returns, and the others stay where they are.
LEMMA LoadMoved ==
  ASSUME LoadsTyped, NEW l \in Loads, NEW from, NEW to \in LoadSteps, Load(l, from, to)
  PROVE  /\ LoadsTyped' /\ load[l].at = from /\ load'[l].at = to
         /\ load'[l].generation = load[l].generation /\ load'[l].superseded = load[l].superseded
         /\ \A k \in Loads : k # l => load'[k] = load[k]
BY DEF LoadsTyped, Load

LEMMA LoadReturned ==
  ASSUME LoadsTyped, NEW l \in Loads, NEW from, NEW as \in LoadSteps, Returns(l, from, as)
  PROVE  /\ LoadsTyped' /\ load[l].at = from /\ load'[l].at = as
         /\ \A k \in Loads : k # l => load'[k] = load[k]
BY DEF LoadsTyped, Returns, LoadAt, NoStream

-----------------------------------------------------------------------------
\* Steps that leave loads, the connection and the watches alone.

\* Neither a load nor a watch moves, and the connection stays.
StandsStill == UNCHANGED <<held, next_generation, dialled, announcing, bound, load, watch>>

\* No reader moves and none is told to stop, and the daemon closes nothing.
Quiet ==
  /\ StandsStill /\ lost' = lost /\ astray' = astray
  /\ ReadersShaped(reader') /\ PeersShaped(peer')
  /\ \A g \in Generations :
       /\ reader'[g].at = reader[g].at /\ (Stopping(reader'[g]) => Stopping(reader[g]))
       /\ peer'[g].closed = peer[g].closed

\* One reader moves.
Reads(g) ==
  /\ StandsStill /\ lost \subseteq lost' /\ astray \subseteq astray'
  /\ ReadersShaped(reader') /\ PeersShaped(peer')
  /\ \A h \in Generations : peer'[h].closed = peer[h].closed /\ (h # g => reader'[h] = reader[h])
  /\ reader[g].at \notin {"none", "over", "ended"}
  /\ Stopping(reader'[g]) => Stopping(reader[g])
  /\ reader'[g].at = "over" /\ Live(g) => g \in lost' \cup astray' \/ peer[g].closed \/ Stopping(reader[g])

LEMMA QuietKeeps ==
  ASSUME WindowInv, Quiet
  PROVE  WindowInv'
<1>1. WindowShaped'
  BY DEF WindowInv, WindowShaped, Quiet, StandsStill, LoadsTyped, WatchesTyped
<1>2. LoadsInOrder'
  BY DEF WindowInv, LoadsInOrder, Quiet, StandsStill, LoadRuns, Claims
<1>3. ReadersInOrder'
  BY DEF WindowInv, ReadersInOrder, Quiet, StandsStill, Live, Gone
<1>4. WatchersInOrder'
  BY DEF WindowInv, WatchersInOrder, WatcherIsLetGo, Quiet, StandsStill
<1> QED
  BY <1>1, <1>2, <1>3, <1>4 DEF WindowInv

LEMMA ReadsKeeps ==
  ASSUME WindowInv, NEW g \in Generations, Reads(g)
  PROVE  WindowInv'
<1>1. WindowShaped'
  BY DEF WindowInv, WindowShaped, Reads, StandsStill, LoadsTyped, WatchesTyped
<1>2. LoadsInOrder'
  BY DEF WindowInv, LoadsInOrder, Reads, StandsStill, LoadRuns, Claims
<1>3. ReadersInOrder'
  <2> USE DEF WindowInv, ReadersInOrder, Reads, StandsStill, Live, Gone
  <2>1. ASSUME NEW h \in Generations, h > next_generation'
        PROVE  reader'[h].at = "none" /\ ~Stopping(reader'[h]) /\ ~peer'[h].closed
    BY <2>1
  <2>2. ASSUME NEW h \in Generations, Live(h)', h # g
        PROVE  /\ ~Stopping(reader'[h])
               /\ reader'[h].at = "over" => h \in lost' \cup astray'
               /\ peer'[h].closed => Gone(h)'
    BY <2>2
  <2>3. ASSUME Live(g)'
        PROVE  /\ ~Stopping(reader'[g])
               /\ reader'[g].at = "over" => g \in lost' \cup astray'
               /\ peer'[g].closed => Gone(g)'
    BY <2>3
  <2> QED
    BY <2>1, <2>2, <2>3
<1>4. WatchersInOrder'
  BY DEF WindowInv, WatchersInOrder, WatcherIsLetGo, Reads, StandsStill
<1> QED
  BY <1>1, <1>2, <1>3, <1>4 DEF WindowInv

-----------------------------------------------------------------------------
\* Steps that take the live connection down, or would.

\* Readers as they are, but for one that has ended.
Ended(g, readers) ==
  /\ ReadersShaped(readers)
  /\ \A h \in Generations : h # g => readers[h] = reader[h]
  /\ g \in Generations =>
       /\ readers[g] = reader[g] \/ (reader[g].at = "over" /\ readers[g].at = "ended")
       /\ Stopping(readers[g]) => Stopping(reader[g])

LEMMA TakeKeeps ==
  ASSUME WindowInv, NEW live \in BOOLEAN, NEW g, NEW readers, Ended(g, readers), Take(live, readers),
         UNCHANGED <<next_generation, dialled, bound, load, watch, peer, lost, astray>>
  PROVE  WindowInv'
<1>0. /\ WindowShaped /\ LoadsInOrder /\ ReadersInOrder /\ WatchersInOrder
      /\ announcing \in Nat
  BY DEF WindowInv, WindowShaped
<1>1. CASE live
  <2>1. held' = Nobody /\ announcing' = announcing + 1 /\ reader' = Send(readers, held.stream, Stop)
    BY <1>1 DEF Take
  <2>2. held'.control = 0 /\ held'.stream = 0 /\ held'.generation = 0
    BY <2>1 DEF Nobody, NoControl, NoStream
  <2>3. /\ ReadersShaped(reader')
        /\ \A h \in Generations : /\ reader'[h].at = readers[h].at
                                  /\ h # held.stream => reader'[h] = readers[h]
    BY <2>1, SendEffect DEF Ended
  <2>4. \A h \in Generations : reader[h].at = "none" => reader'[h].at = "none"
    BY <2>3 DEF Ended
  <2>5. WindowShaped'
    BY <1>0, <2>1, <2>3 DEF WindowShaped, LoadsTyped, WatchesTyped, Nobody, NoControl, NoStream
  <2>6. LoadsInOrder'
    BY <1>0, <2>2, <2>4 DEF LoadsInOrder, LoadRuns, Claims, NoControl, WindowShaped
  <2>7. \A h \in Generations : h > next_generation => h # held.stream /\ readers[h] = reader[h]
    BY <1>0, GenerationsCount DEF LoadsInOrder, ReadersInOrder, Ended, WindowShaped
  <2>8. ReadersInOrder'
    BY <1>0, <2>2, <2>3, <2>7 DEF ReadersInOrder, Live, NoControl
  <2>9. WatchersInOrder'
    BY <1>0, <2>1 DEF WatchersInOrder, WatcherIsLetGo
  <2> QED
    BY <2>5, <2>6, <2>8, <2>9 DEF WindowInv
<1>2. CASE ~live
  <2>1. held' = held /\ announcing' = announcing /\ reader' = readers
    BY <1>2 DEF Take
  <2>2. WindowShaped'
    BY <1>0, <2>1 DEF WindowShaped, LoadsTyped, WatchesTyped, Ended
  <2>3. LoadsInOrder'
    BY <1>0, <2>1 DEF LoadsInOrder, LoadRuns, Claims, Ended
  <2>4. ReadersInOrder'
    BY <1>0, <2>1 DEF ReadersInOrder, Live, Gone, Ended
  <2>5. WatchersInOrder'
    BY <1>0, <2>1 DEF WatchersInOrder, WatcherIsLetGo
  <2> QED
    BY <2>2, <2>3, <2>4, <2>5 DEF WindowInv
<1> QED
  BY <1>1, <1>2

-----------------------------------------------------------------------------
\* The commands other than loads.

LEMMA AttachQuiet ==
  ASSUME WindowInv, NEW t \in Attaches,
         \/ AttachKnown(t) \/ AttachUnknown(t) \/ AnswerAttach(t) \/ RefuseAttach(t)
         \/ RememberAttach(t) \/ SignalAttached(t)
  PROVE  Quiet
<1>0. ReadersShaped(reader) /\ PeersShaped(peer) /\ WindowShaped
  BY DEF WindowInv, WindowShaped
<1>1. CASE AttachKnown(t) \/ AttachUnknown(t) \/ RefuseAttach(t) \/ RememberAttach(t)
  BY <1>0, <1>1 DEF AttachKnown, AttachUnknown, RefuseAttach, RememberAttach, Quiet, StandsStill, stateVars,
                    daemonVars, historyVars
<1>2. CASE AnswerAttach(t)
  <2>1. UNCHANGED <<held, next_generation, dialled, announcing, bound, load, watch, reader, lost, astray>>
    BY <1>2 DEF AnswerAttach, stateVars, historyVars
  <2>2. PeersShaped(peer') /\ \A h \in Generations : peer'[h].closed = peer[h].closed
    BY <1>0, <1>2 DEF AnswerAttach, PeersShaped
  <2> QED
    BY <1>0, <2>1, <2>2 DEF Quiet, StandsStill
<1>3. CASE SignalAttached(t)
  <2>1. UNCHANGED <<held, next_generation, dialled, announcing, bound, load, watch, peer, lost, astray>>
    BY <1>3 DEF SignalAttached, stateVars, daemonVars, historyVars
  <2>2. reader' = Send(reader, held.stream, Attached) /\ Attached # Stop
    BY <1>3 DEF SignalAttached, Attached, Stop
  <2>3. /\ ReadersShaped(reader')
        /\ \A g \in Generations : reader'[g].at = reader[g].at /\ (Stopping(reader'[g]) <=> Stopping(reader[g]))
    BY <1>0, <2>2, SendEffect
  <2> QED
    BY <1>0, <2>1, <2>3 DEF Quiet, StandsStill
<1> QED
  BY <1>1, <1>2, <1>3

LEMMA DetachQuiet ==
  ASSUME WindowInv, NEW t \in Detaches, ForgetDetach(t) \/ SignalDetach(t) \/ ServeDetach(t)
  PROVE  Quiet
<1>0. ReadersShaped(reader) /\ PeersShaped(peer) /\ WindowShaped
  BY DEF WindowInv, WindowShaped
<1>1. CASE ForgetDetach(t)
  BY <1>0, <1>1 DEF ForgetDetach, Quiet, StandsStill, daemonVars
<1>2. CASE SignalDetach(t)
  <2>1. UNCHANGED <<held, next_generation, dialled, announcing, bound, load, watch, peer, lost, astray>>
    BY <1>2 DEF SignalDetach, stateVars, daemonVars, historyVars
  <2>2. PICK i : reader' = Send(reader, held.stream, Detach(i))
    BY <1>2 DEF SignalDetach
  <2>3. Detach(i) # Stop
    BY DEF Detach, Stop
  <2>4. /\ ReadersShaped(reader')
        /\ \A g \in Generations : reader'[g].at = reader[g].at /\ (Stopping(reader'[g]) <=> Stopping(reader[g]))
    BY <1>0, <2>2, <2>3, SendEffect
  <2> QED
    BY <1>0, <2>1, <2>4 DEF Quiet, StandsStill
<1>3. CASE ServeDetach(t)
  <2>1. UNCHANGED <<held, next_generation, dialled, announcing, bound, load, watch, reader, lost, astray>>
    BY <1>3 DEF ServeDetach, stateVars, historyVars
  <2>2. PeersShaped(peer') /\ \A h \in Generations : peer'[h].closed = peer[h].closed
    BY <1>0, <1>3 DEF ServeDetach, PeersShaped
  <2> QED
    BY <1>0, <2>1, <2>2 DEF Quiet, StandsStill
<1> QED
  BY <1>1, <1>2, <1>3

LEMMA SendFrameQuiet ==
  ASSUME WindowInv, NEW g \in Generations, NEW i \in Ids, SendFrame(g, i)
  PROVE  Quiet
<1>0. ReadersShaped(reader) /\ PeersShaped(peer)
  BY DEF WindowInv, WindowShaped
<1>1. UNCHANGED <<held, next_generation, dialled, announcing, bound, load, watch, reader, lost, astray>>
  BY DEF SendFrame, stateVars, commandVars, historyVars
<1>2. PeersShaped(peer') /\ \A h \in Generations : peer'[h].closed = peer[h].closed
  BY <1>0 DEF SendFrame, PeersShaped
<1> QED
  BY <1>0, <1>1, <1>2 DEF Quiet, StandsStill

\* The steps that tear the connection down are Take, and only where they may.
LEMMA TakesKeep ==
  ASSUME WindowInv,
         \/ \E t \in Attaches : FailAttach(t)
         \/ \E t \in Detaches : FailDetach(t)
         \/ \E c \in 1..Cardinality(Loads) : ControlFails(c)
         \/ \E g \in Generations : OnClosed(g)
  PROVE  /\ WindowInv'
         /\ (held.control # NoControl /\ held'.control = NoControl)
              => held.control \in dead' \/ held.generation \in lost \cup astray
<1>0. ReadersShaped(reader) /\ ReadersInOrder
  BY DEF WindowInv, WindowShaped
<1>1. Ended(0, reader)
  BY <1>0, GenerationsCount DEF Ended
<1>2. ASSUME NEW t \in Attaches, FailAttach(t)
      PROVE  /\ WindowInv'
             /\ (held.control # NoControl /\ held'.control = NoControl) => held.control \in dead'
  <2>1. /\ attach[t].control \in dead /\ Take(held.control = attach[t].control, reader)
        /\ UNCHANGED <<next_generation, dialled, bound, load, watch, peer, lost, astray, dead>>
    BY <1>2 DEF FailAttach, DisconnectControl, daemonVars, historyVars
  <2>2. WindowInv'
    BY <1>1, <2>1, TakeKeeps
  <2> QED
    BY <2>1, <2>2 DEF Take
<1>3. ASSUME NEW t \in Detaches, FailDetach(t)
      PROVE  /\ WindowInv'
             /\ (held.control # NoControl /\ held'.control = NoControl) => held.control \in dead'
  <2>1. /\ detach[t].control \in dead /\ Take(held.control = detach[t].control, reader)
        /\ UNCHANGED <<next_generation, dialled, bound, load, watch, peer, lost, astray, dead>>
    BY <1>3 DEF FailDetach, DisconnectControl, daemonVars
  <2>2. WindowInv'
    BY <1>1, <2>1, TakeKeeps
  <2> QED
    BY <2>1, <2>2 DEF Take
<1>4. ASSUME NEW c \in 1..Cardinality(Loads), ControlFails(c)
      PROVE  WindowInv' /\ held.control \in dead'
  <2>1. /\ c = held.control /\ dead' = dead \cup {c} /\ Take(held.control = c, reader)
        /\ UNCHANGED <<next_generation, dialled, bound, load, watch, peer, lost, astray>>
    BY <1>4 DEF ControlFails, DisconnectControl, commandVars, daemonVars, historyVars
  <2>2. WindowInv'
    BY <1>1, <2>1, TakeKeeps
  <2> QED
    BY <2>1, <2>2
<1>5. ASSUME NEW g \in Generations, OnClosed(g)
      PROVE  /\ WindowInv'
             /\ (held.control # NoControl /\ held'.control = NoControl) => held.generation \in lost \cup astray
  <2> DEFINE readers == [reader EXCEPT ![g].at = "ended"]
             live    == held.control # NoControl /\ held.generation = g
  <2>1. /\ reader[g].at = "over" /\ Take(live, readers)
        /\ UNCHANGED <<next_generation, dialled, bound, load, watch, peer, lost, astray>>
    BY <1>5 DEF OnClosed, DisconnectGeneration, commandVars, daemonVars, historyVars
  <2>2. Ended(g, readers)
    <3>1. /\ DOMAIN readers = Generations /\ \A h \in Generations : h # g => readers[h] = reader[h]
          /\ {"at", "signals"} \subseteq DOMAIN readers[g]
          /\ readers[g].at = "ended" /\ readers[g].signals = reader[g].signals
      BY <1>0 DEF ReadersShaped
    <3> HIDE DEF readers
    <3> QED
      BY <1>0, <2>1, <3>1 DEF Ended, ReadersShaped, Stopping
  <2>3. WindowInv'
    <3> HIDE DEF readers
    <3>1. live \in BOOLEAN
      OBVIOUS
    <3> HIDE DEF live
    <3> QED
      BY <2>1, <2>2, <3>1, TakeKeeps
  <2>4. live => g \in lost \cup astray
    BY <1>0, <2>1 DEF ReadersInOrder, Live
  <2>5. ~live => held' = held
    BY <2>1 DEF Take
  <2> QED
    BY <2>3, <2>4, <2>5
<1> QED
  BY <1>2, <1>3, <1>4, <1>5

-----------------------------------------------------------------------------
\* The readers.

\* What a reader does for itself: `next` is what becomes of it.
Continues(g, next) ==
  /\ {"at", "signals"} \subseteq DOMAIN next /\ next.signals \in Seq(Range(next.signals))
  /\ next.at # "over" /\ (Stopping(next) => Stopping(reader[g]))

LEMMA LocalReads ==
  ASSUME WindowInv, NEW g \in Generations, NEW next, reader[g].at \notin {"none", "over", "ended"},
         Continues(g, next), reader' = [reader EXCEPT ![g] = next], StandsStill,
         PeersShaped(peer'), \A h \in Generations : peer'[h].closed = peer[h].closed,
         lost' = lost, astray \subseteq astray'
  PROVE  Reads(g)
<1>1. ReadersShaped(reader)
  BY DEF WindowInv, WindowShaped
<1>2. reader'[g] = next /\ \A h \in Generations : h # g => reader'[h] = reader[h]
  BY <1>1 DEF ReadersShaped
<1>3. ReadersShaped(reader')
  BY <1>1, <1>2 DEF ReadersShaped, Continues
<1> QED
  BY <1>2, <1>3 DEF Reads, Continues

LEMMA EndsReads ==
  ASSUME WindowInv, NEW g \in Generations, reader[g].at \notin {"none", "over", "ended"}, Ends(g),
         lost \subseteq lost', astray \subseteq astray',
         Live(g) => g \in lost' \cup astray' \/ peer[g].closed \/ Stopping(reader[g])
  PROVE  Reads(g)
<1>1. ReadersShaped(reader) /\ PeersShaped(peer)
  BY DEF WindowInv, WindowShaped
<1>2. StandsStill
  BY DEF Ends, StandsStill, stateVars, commandVars
<1>3. /\ DOMAIN reader' = Generations /\ \A h \in Generations : h # g => reader'[h] = reader[h]
      /\ {"at", "signals"} \subseteq DOMAIN reader'[g]
      /\ reader'[g].at = "over" /\ reader'[g].signals = <<>>
  BY <1>1 DEF Ends, ReadersShaped, Unspawned
<1>4. <<>> \in Seq(Range(<<>>)) /\ Range(<<>>) = {}
  BY DEF Range
<1>5. ReadersShaped(reader') /\ ~Stopping(reader'[g])
  BY <1>1, <1>3, <1>4 DEF ReadersShaped, Stopping
<1>6. PeersShaped(peer') /\ \A h \in Generations : peer'[h].closed = peer[h].closed
  BY <1>1 DEF Ends, PeersShaped
<1> QED
  BY <1>2, <1>3, <1>5, <1>6 DEF Reads

\* What delivering does to a reader: nothing to where it is and what it was told.
LEMMA ShownKeeps ==
  ASSUME NEW r, NEW frames, {"at", "signals"} \subseteq DOMAIN r
  PROVE  /\ {"at", "signals"} \subseteq DOMAIN Shown(r, frames)
         /\ Shown(r, frames).at = r.at /\ Shown(r, frames).signals = r.signals
BY DEF Shown

LEMMA SettledKeeps ==
  ASSUME NEW r, {"at", "signals"} \subseteq DOMAIN r
  PROVE  /\ {"at", "signals"} \subseteq DOMAIN Settled(r)
         /\ Settled(r).at = r.at /\ Settled(r).signals = r.signals
<1> DEFINE q == [r EXCEPT !.pending = <<>>]
<1>1. {"at", "signals"} \subseteq DOMAIN q /\ q.at = r.at /\ q.signals = r.signals
  OBVIOUS
<1> HIDE DEF q
<1>2. Settled(r) = r \/ Settled(r) = Shown(q, r.pending)
  BY DEF Settled, q
<1> QED
  BY <1>1, <1>2, ShownKeeps

LEMMA NextFrameKeeps ==
  ASSUME NEW r, {"at", "signals"} \subseteq DOMAIN r
  PROVE  /\ {"at", "signals"} \subseteq DOMAIN NextFrame(r)
         /\ NextFrame(r).at \in {"pass", "route"} /\ NextFrame(r).signals = r.signals
BY DEF NextFrame

LEMMA PastKeeps ==
  ASSUME WindowInv, NEW g \in Generations
  PROVE  /\ {"at", "signals"} \subseteq DOMAIN Past(g)
         /\ Past(g).at \in {"pass", "route"} /\ Past(g).signals = reader[g].signals
<1> DEFINE q == [reader[g] EXCEPT !.buffer = Tail(@)]
<1>1. {"at", "signals"} \subseteq DOMAIN q /\ q.signals = reader[g].signals
  BY DEF WindowInv, WindowShaped, ReadersShaped
<1> HIDE DEF q
<1>2. Past(g) = NextFrame(q)
  BY DEF Past, q
<1> QED
  BY <1>1, <1>2, NextFrameKeeps

\* A reader that has the signals it had continues.
LEMMA SameSignals ==
  ASSUME WindowInv, NEW g \in Generations, NEW next, {"at", "signals"} \subseteq DOMAIN next,
         next.signals = reader[g].signals, next.at # "over"
  PROVE  Continues(g, next)
BY DEF Continues, Stopping, WindowInv, WindowShaped, ReadersShaped

\* A pass takes the signals, settles and acks.
LEMMA PassReads ==
  ASSUME WindowInv, NEW g \in Generations, Pass(g)
  PROVE  Reads(g)
<1> DEFINE took == [reader[g] EXCEPT !.signals = <<>>, !.ledger = {i \in @ : ~Told(g, Detach(i))}]
           r    == IF CanSettle(g) THEN Settled(took) ELSE took
<1>0. PeersShaped(peer) /\ {"at", "signals"} \subseteq DOMAIN reader[g]
  BY DEF WindowInv, WindowShaped, ReadersShaped
<1>1. {"at", "signals"} \subseteq DOMAIN took /\ took.signals = <<>>
  BY <1>0
<1>2. PICK next \in AfterSettling(r) : Local(g, [r EXCEPT !.at = next])
  BY DEF Pass
<1>3. next \in {"blocked", "read", "holding"}
  BY <1>2 DEF AfterSettling
<1>4. StartsPass(g)
  BY DEF Pass
<1> HIDE DEF took
<1>5. {"at", "signals"} \subseteq DOMAIN r /\ r.signals = <<>>
  BY <1>1, SettledKeeps
<1> HIDE DEF r
<1> DEFINE s == [r EXCEPT !.at = next]
<1>6. {"at", "signals"} \subseteq DOMAIN s /\ s.at = next /\ s.signals = <<>>
  BY <1>5
<1>7. reader' = [reader EXCEPT ![g] = s] /\ StandsStill /\ peer' = peer /\ lost' = lost /\ astray' = astray
  BY <1>2 DEF Local, Becomes, StandsStill, stateVars, commandVars, daemonVars, historyVars
<1> HIDE DEF s
<1>8. <<>> \in Seq(Range(<<>>)) /\ Range(<<>>) = {}
  BY DEF Range
<1>9. Continues(g, s)
  BY <1>3, <1>6, <1>8 DEF Continues, Stopping
<1>10. reader[g].at \notin {"none", "over", "ended"}
  BY <1>4 DEF StartsPass
<1> QED
  BY <1>0, <1>7, <1>9, <1>10, LocalReads

\* The steps that leave the reader running.
LEMMA RunsReads ==
  ASSUME WindowInv, NEW g \in Generations,
         Resettle(g) \/ ReadFrames(g) \/ HoldMore(g) \/ Deliver(g) \/ Discard(g) \/ Hold(g)
  PROVE  Reads(g)
<1>0. PeersShaped(peer) /\ {"at", "signals"} \subseteq DOMAIN reader[g]
  BY DEF WindowInv, WindowShaped, ReadersShaped
<1>1. ASSUME NEW next, Local(g, next), {"at", "signals"} \subseteq DOMAIN next,
             next.signals = reader[g].signals, next.at # "over", reader[g].at \notin {"none", "over", "ended"}
      PROVE  Reads(g)
  <2>1. reader' = [reader EXCEPT ![g] = next] /\ StandsStill /\ peer' = peer /\ lost' = lost /\ astray' = astray
    BY <1>1 DEF Local, Becomes, StandsStill, stateVars, commandVars, daemonVars, historyVars
  <2> QED
    BY <1>0, <1>1, <2>1, SameSignals, LocalReads
<1>2. CASE Resettle(g)
  <2> DEFINE r == IF CanSettle(g) THEN Settled(reader[g]) ELSE reader[g]
  <2>1. {"at", "signals"} \subseteq DOMAIN r /\ r.signals = reader[g].signals
    BY <1>0, SettledKeeps
  <2>2. Local(g, NextFrame(r)) /\ reader[g].at = "resettle"
    BY <1>2 DEF Resettle
  <2> HIDE DEF r
  <2> QED
    BY <1>1, <2>1, <2>2, NextFrameKeeps
<1>3. CASE HoldMore(g)
  <2> DEFINE r == [Past(g) EXCEPT !.pending = Append(@, Front(g))]
  <2>1. {"at", "signals"} \subseteq DOMAIN r /\ r.signals = reader[g].signals /\ r.at # "over"
    BY PastKeeps
  <2>2. Local(g, r) /\ reader[g].at = "route"
    BY <1>3 DEF HoldMore, Routing
  <2> HIDE DEF r
  <2> QED
    BY <1>1, <2>1, <2>2
<1>4. CASE Deliver(g)
  <2>1. Local(g, Shown(Past(g), <<Front(g)>>)) /\ reader[g].at = "route"
    BY <1>4 DEF Deliver, Routing
  <2> DEFINE r == Shown(Past(g), <<Front(g)>>)
  <2>2. {"at", "signals"} \subseteq DOMAIN r /\ r.signals = reader[g].signals /\ r.at # "over"
    BY PastKeeps, ShownKeeps
  <2> HIDE DEF r
  <2> QED
    BY <1>1, <2>1, <2>2 DEF r
<1>5. CASE Hold(g)
  <2> DEFINE r == [Past(g) EXCEPT !.pending = <<Front(g)>>, !.at = "resettle"]
  <2>1. {"at", "signals"} \subseteq DOMAIN r /\ r.signals = reader[g].signals /\ r.at # "over"
    BY PastKeeps
  <2>2. Local(g, r) /\ reader[g].at = "route"
    BY <1>5 DEF Hold, Unattached, Routing
  <2> HIDE DEF r
  <2> QED
    BY <1>1, <2>1, <2>2
<1>6. CASE Discard(g)
  <2>1. /\ reader' = [reader EXCEPT ![g] = Past(g)] /\ StandsStill /\ peer' = peer /\ lost' = lost
        /\ astray \subseteq astray' /\ reader[g].at = "route"
    BY <1>6 DEF Discard, Unattached, Routing, Becomes, Astray, StandsStill, stateVars, commandVars, daemonVars
  <2>2. Continues(g, Past(g))
    BY PastKeeps, SameSignals
  <2> QED
    BY <1>0, <2>1, <2>2, LocalReads
<1>7. CASE ReadFrames(g)
  <2>1. PICK n \in 1..Len(peer[g].wire) :
          /\ Becomes(g, [reader[g] EXCEPT !.at = "route", !.buffer = SubSeq(peer[g].wire, 1, n)])
          /\ peer' = [peer EXCEPT ![g].wire = SubSeq(@, n + 1, Len(@))]
    BY <1>7 DEF ReadFrames
  <2> DEFINE r == [reader[g] EXCEPT !.at = "route", !.buffer = SubSeq(peer[g].wire, 1, n)]
  <2>2. {"at", "signals"} \subseteq DOMAIN r /\ r.signals = reader[g].signals /\ r.at # "over"
    BY <1>0
  <2>3. PeersShaped(peer') /\ \A h \in Generations : peer'[h].closed = peer[h].closed
    BY <1>0, <2>1 DEF PeersShaped
  <2>4. StandsStill /\ lost' = lost /\ astray' = astray /\ reader[g].at = "read"
    BY <1>7 DEF ReadFrames, StandsStill, stateVars, commandVars, historyVars
  <2>5. reader' = [reader EXCEPT ![g] = r]
    BY <2>1 DEF Becomes
  <2> HIDE DEF r
  <2>6. Continues(g, r)
    BY <2>2, SameSignals
  <2> QED
    BY <2>3, <2>4, <2>5, <2>6, LocalReads
<1> QED
  BY <1>2, <1>3, <1>4, <1>5, <1>6, <1>7

\* The steps in which `read` returns.
LEMMA LeavesReads ==
  ASSUME WindowInv, NEW g \in Generations,
         TakeStop(g) \/ GiveUp(g) \/ ReadEnd(g) \/ ReaderFails(g) \/ DropConnection(g)
  PROVE  Reads(g)
<1>1. CASE TakeStop(g)
  BY <1>1, EndsReads DEF TakeStop, StartsPass, Told, Stopping
<1>2. CASE GiveUp(g)
  BY <1>2, EndsReads DEF GiveUp, StartsPass, Astray, Live
<1>3. CASE ReadEnd(g)
  BY <1>3, EndsReads DEF ReadEnd
<1>4. CASE ReaderFails(g)
  BY <1>4, EndsReads DEF ReaderFails
<1>5. CASE DropConnection(g)
  BY <1>5, EndsReads DEF DropConnection, Unattached, Routing, Astray, Live
<1> QED
  BY <1>1, <1>2, <1>3, <1>4, <1>5

-----------------------------------------------------------------------------
\* Loads.

\* A running load is the only one.
LEMMA OnlyLoad ==
  ASSUME WindowInv, NEW l \in Loads, load[l].at \notin {"idle", "done", "failed"}
  PROVE  \A k \in Loads : k # l => load[k].at \in {"idle", "done", "failed"}
BY DEF WindowInv, LoadsInOrder, LoadRuns

\* A load that has claimed its generation only moves on, in its own record.
Proceeds(l, to) ==
  /\ LoadsTyped' /\ load[l].at \notin {"idle", "done", "failed"} /\ load'[l].at = to
  /\ load'[l].generation = load[l].generation /\ load'[l].superseded = load[l].superseded
  /\ \A k \in Loads : k # l => load'[k] = load[k]

\* It returns.
Finishes(l) ==
  /\ LoadsTyped' /\ load[l].at \notin {"idle", "done", "failed"} /\ load'[l].at \in {"done", "failed"}
  /\ \A k \in Loads : k # l => load'[k] = load[k]

LEMMA StartsKeeps ==
  ASSUME WindowInv, NEW l \in Loads, ConnectHeld(l) \/ Connect(l)
  PROVE  WindowInv'
<1>0. /\ WindowShaped /\ LoadsInOrder /\ ReadersInOrder /\ WatchersInOrder
  BY DEF WindowInv
<1>1. /\ Load(l, "idle", "connected") /\ LoadRuns = {}
      /\ UNCHANGED <<next_generation, announcing, bound, watch, reader, peer, lost, astray>>
  BY DEF ConnectHeld, Connect, Starts, stateVars, daemonVars
<1>2. /\ LoadsTyped' /\ load'[l].at = "connected" /\ load[l].at = "idle"
      /\ \A k \in Loads : k # l => load'[k] = load[k]
  BY <1>0, <1>1, LoadMoved DEF WindowShaped, LoadSteps
<1>3. \A k \in Loads : load[k].at \in {"idle", "done", "failed"}
  BY <1>1 DEF LoadRuns
<1>4. \A k \in Loads : ~Claims(k)'
  BY <1>2, <1>3 DEF Claims
<1>5. \A k, m \in LoadRuns' : k = m
  BY <1>2, <1>3 DEF LoadRuns
<1>6. CASE ConnectHeld(l)
  <2>1. UNCHANGED <<held, dialled>>
    BY <1>6 DEF ConnectHeld, stateVars
  <2>2. WindowShaped'
    BY <1>0, <1>1, <1>2, <2>1 DEF WindowShaped, WatchesTyped
  <2>3. LoadsInOrder'
    BY <1>0, <1>1, <1>4, <1>5, <2>1 DEF LoadsInOrder
  <2>4. ReadersInOrder'
    BY <1>0, <1>1, <2>1 DEF ReadersInOrder, Live, Gone
  <2>5. WatchersInOrder'
    BY <1>0, <1>1, <1>2, <2>1 DEF WatchersInOrder, WatcherIsLetGo
  <2> QED
    BY <2>2, <2>3, <2>4, <2>5 DEF WindowInv
<1>7. CASE Connect(l)
  <2>1. /\ held.control = NoControl /\ dialled' = dialled + 1
        /\ held' = [control |-> dialled + 1, stream |-> 0, generation |-> 0]
    BY <1>7 DEF Connect, Nobody, NoStream
  <2>2. WindowShaped'
    BY <1>0, <1>1, <1>2, <2>1 DEF WindowShaped, WatchesTyped
  <2>3. LoadsInOrder'
    BY <1>0, <1>1, <1>4, <1>5, <2>1 DEF LoadsInOrder, WindowShaped
  <2>4. \A g \in Generations : ~Live(g)'
    BY <2>1, GenerationsCount DEF Live
  <2>5. ReadersInOrder'
    BY <1>0, <1>1, <2>4 DEF ReadersInOrder
  <2>6. WatchersInOrder'
    BY <1>0, <1>1, <1>2, <2>1 DEF WatchersInOrder, WatcherIsLetGo
  <2> QED
    BY <2>2, <2>3, <2>5, <2>6 DEF WindowInv
<1> QED
  BY <1>6, <1>7

LEMMA SupersedeKeeps ==
  ASSUME WindowInv, NEW l \in Loads, Supersede(l)
  PROVE  WindowInv'
<1> DEFINE n == next_generation + 1
<1>0. /\ WindowShaped /\ LoadsInOrder /\ ReadersInOrder /\ WatchersInOrder
  BY DEF WindowInv
<1>1. /\ held.control # NoControl /\ load[l].at = "connected" /\ next_generation' = n
      /\ UNCHANGED <<dialled, announcing, bound, watch, reader, peer, lost, astray>>
  BY DEF Supersede, daemonVars, historyVars
<1>2. held' = [control |-> held.control, stream |-> 0, generation |-> n]
  BY <1>0 DEF Supersede, WindowShaped, NoStream
<1>3. /\ LoadsTyped' /\ load'[l] = [at |-> "claimed", generation |-> n, superseded |-> held.stream]
      /\ \A k \in Loads : k # l => load'[k] = load[k]
  BY <1>0 DEF Supersede, WindowShaped, LoadsTyped, LoadSteps
<1>4. \A k \in Loads : k # l => load[k].at \in {"idle", "done", "failed"}
  BY <1>1, OnlyLoad
<1>5. WindowShaped'
  BY <1>0, <1>1, <1>2, <1>3 DEF WindowShaped, WatchesTyped
<1>6. /\ held.stream \in Nat /\ next_generation \in Nat /\ bound \in Nat
      /\ held.stream <= next_generation /\ bound <= next_generation
  BY <1>0 DEF WindowShaped, LoadsInOrder
<1>7. \A g \in Generations : g = n => reader[g].at = "none" /\ ~Stopping(reader[g]) /\ ~peer[g].closed
  BY <1>0, <1>6 DEF ReadersInOrder
<1>8. LoadsInOrder'
  <2>1. \A k \in Loads : Claims(k)' => k = l
    BY <1>3, <1>4 DEF Claims
  <2>2. \A k, m \in LoadRuns' : k = m
    BY <1>3, <1>4 DEF LoadRuns
  <2>3. load'[l].generation \in 1..n /\ bound < n /\ load'[l].superseded < n
    BY <1>3, <1>6
  <2> QED
    BY <1>1, <1>2, <1>3, <1>6, <1>7, <2>1, <2>2, <2>3 DEF LoadsInOrder, NoStream, Claims
<1>9. ReadersInOrder'
  <2>1. \A g \in Generations : g > n => g > next_generation
    BY <1>6, GenerationsCount
  <2>2. \A g \in Generations : Live(g)' => g = n
    BY <1>2 DEF Live
  <2> QED
    BY <1>0, <1>1, <1>7, <2>1, <2>2 DEF ReadersInOrder
<1>10. WatchersInOrder'
  BY <1>0, <1>1, <1>3 DEF WatchersInOrder, WatcherIsLetGo
<1> QED
  BY <1>5, <1>8, <1>9, <1>10 DEF WindowInv

LEMMA AnnounceSupersededKeeps ==
  ASSUME WindowInv, NEW l \in Loads, AnnounceSuperseded(l)
  PROVE  WindowInv'
<1>0. /\ WindowShaped /\ LoadsInOrder /\ ReadersInOrder /\ WatchersInOrder
  BY DEF WindowInv
<1>1. /\ Load(l, "claimed", "announced") /\ reader' = Send(reader, load[l].superseded, Stop) /\ watch' = Woken
      /\ UNCHANGED <<held, next_generation, dialled, announcing, bound, peer, lost, astray>>
  BY DEF AnnounceSuperseded, stateVars, daemonVars, historyVars
<1>2. load[l].at = "claimed" /\ Proceeds(l, "announced")
  BY <1>0, <1>1, LoadMoved DEF WindowShaped, LoadSteps, Proceeds
<1>3. /\ ReadersShaped(reader')
      /\ \A g \in Generations : /\ reader'[g].at = reader[g].at
                                /\ g # load[l].superseded => reader'[g] = reader[g]
  BY <1>0, <1>1, SendEffect DEF WindowShaped
<1>4. /\ watch' \in [Watches -> [at : {"idle", "parked", "returned"}, control : Nat, generation : Nat]]
      /\ \A w \in Watches : watch'[w].at # "parked"
  BY <1>0, <1>1 DEF Woken, WatchAt, WindowShaped, WatchesTyped, NoControl
<1>5. WindowShaped'
  BY <1>0, <1>1, <1>2, <1>3, <1>4 DEF WindowShaped, WatchesTyped, Proceeds
<1>6. /\ load[l].superseded < load[l].generation /\ load[l].generation \in 1..next_generation
      /\ held.control # NoControl => held.generation = load[l].generation
  BY <1>0, <1>2 DEF LoadsInOrder, Claims
<1>7. load[l].superseded \in Nat /\ load[l].generation \in Nat /\ next_generation \in Nat
  BY <1>0 DEF WindowShaped, LoadsTyped
<1>8. LoadsInOrder'
  BY <1>0, <1>1, <1>2, <1>3, OnlyLoad DEF LoadsInOrder, LoadRuns, Claims, Proceeds
<1>9. \A g \in Generations : Live(g) \/ g > next_generation => reader'[g] = reader[g]
  <2>1. ASSUME NEW g \in Generations, Live(g) PROVE g # load[l].superseded
    BY <1>6, <1>7, <2>1 DEF Live
  <2>2. ASSUME NEW g \in Generations, g > next_generation PROVE g # load[l].superseded
    BY <1>6, <1>7, <2>2, GenerationsCount
  <2> QED
    BY <1>3, <2>1, <2>2
<1>10. ReadersInOrder'
  BY <1>0, <1>1, <1>3, <1>9 DEF ReadersInOrder, Live, Gone
<1>11. WatchersInOrder'
  BY <1>4 DEF WatchersInOrder, WatcherIsLetGo
<1> QED
  BY <1>5, <1>8, <1>10, <1>11 DEF WindowInv

\* The daemon binds the load's connection, or none, and closes the one it had.
LEMMA ReplacedCloses ==
  ASSUME WindowShaped
  PROVE  /\ PeersShaped(Replaced)
         /\ \A g \in Generations : g # bound \/ bound = 0 => Replaced[g].closed = peer[g].closed
BY DEF WindowShaped, PeersShaped, Replaced, Closed, Unopened

LEMMA HandshakeKeeps ==
  ASSUME WindowInv, NEW l \in Loads, Handshake(l) \/ HandshakeFails(l)
  PROVE  WindowInv'
<1>0. /\ WindowShaped /\ LoadsInOrder /\ ReadersInOrder /\ WatchersInOrder
  BY DEF WindowInv
<1>1. /\ load[l].at = "announced" /\ (Proceeds(l, "answered") \/ Finishes(l))
      /\ UNCHANGED <<held, next_generation, dialled, announcing, watch, reader, lost, astray>>
  <2>1. CASE Handshake(l)
    <3>1. Load(l, "announced", "answered")
      BY <2>1 DEF Handshake
    <3> QED
      BY <1>0, <2>1, <3>1, LoadMoved DEF Handshake, WindowShaped, LoadSteps, Proceeds, stateVars, historyVars
  <2>2. CASE HandshakeFails(l)
    <3>1. Returns(l, "announced", "failed")
      BY <2>2 DEF HandshakeFails, LoadFails
    <3> QED
      BY <1>0, <2>2, <3>1, LoadReturned DEF HandshakeFails, LoadFails, WindowShaped, LoadSteps, Finishes
  <2> QED
    BY <2>1, <2>2
<1>2. /\ load[l].generation \in 1..next_generation /\ bound < load[l].generation
      /\ held.control # NoControl => held.generation = load[l].generation
  BY <1>0, <1>1 DEF LoadsInOrder, Claims
<1>3. bound \in Nat /\ load[l].generation \in Nat /\ next_generation \in Nat
  BY <1>0 DEF WindowShaped, LoadsTyped
<1>4. /\ peer' = peer \/ peer' = Replaced
      /\ bound' \in {bound, 0, load[l].generation}
      /\ bound' = load[l].generation => bound' = bound \/ Proceeds(l, "answered")
  <2>1. CASE Handshake(l)
    <3>1. Load(l, "announced", "answered")
      BY <2>1 DEF Handshake
    <3> QED
      BY <1>0, <2>1, <3>1, LoadMoved DEF Handshake, WindowShaped, LoadSteps, Proceeds
  <2>2. CASE HandshakeFails(l)
    BY <1>2, <1>3, <2>2 DEF HandshakeFails, daemonVars
  <2> QED
    BY <2>1, <2>2
<1>5. /\ PeersShaped(peer')
      /\ \A g \in Generations : g # bound \/ bound = 0 => peer'[g].closed = peer[g].closed
  BY <1>0, <1>4, ReplacedCloses DEF WindowShaped
<1>6. bound' \in Nat /\ bound' <= next_generation
  BY <1>0, <1>2, <1>3, <1>4 DEF LoadsInOrder
<1>7. WindowShaped'
  BY <1>0, <1>1, <1>5, <1>6 DEF WindowShaped, WatchesTyped, Proceeds, Finishes
<1>8. \A k \in Loads : k # l => load'[k].at \in {"idle", "done", "failed"}
  BY <1>1, OnlyLoad DEF Proceeds, Finishes
<1>9. LoadsInOrder'
  <2>1. \A k, m \in LoadRuns' : k = m
    BY <1>8 DEF LoadRuns
  <2>2. \A k \in Loads : Claims(k)' => k = l /\ Proceeds(l, "answered")
    BY <1>1, <1>8 DEF Claims, Finishes
  <2>3. Proceeds(l, "answered") => load'[l].at = "answered" /\ load'[l].generation = load[l].generation
    BY DEF Proceeds
  <2>4. Claims(l) /\ load[l].at # "spawned"
    BY <1>1 DEF Claims
  <2> QED
    BY <1>0, <1>1, <1>6, <2>1, <2>2, <2>3, <2>4 DEF LoadsInOrder
<1>10. \A g \in Generations : Live(g) \/ g > next_generation => peer'[g].closed = peer[g].closed
  <2>1. ASSUME NEW g \in Generations, Live(g) PROVE g # bound
    BY <1>2, <1>3, <2>1 DEF Live
  <2>2. ASSUME NEW g \in Generations, g > next_generation PROVE g # bound
    BY <1>2, <1>3, <2>2, GenerationsCount
  <2> QED
    BY <1>5, <2>1, <2>2
<1>11. ReadersInOrder'
  BY <1>0, <1>1, <1>10 DEF ReadersInOrder, Live, Gone
<1>12. WatchersInOrder'
  BY <1>0, <1>1 DEF WatchersInOrder, WatcherIsLetGo, Proceeds, Finishes
<1> QED
  BY <1>7, <1>9, <1>11, <1>12 DEF WindowInv

LEMMA SpawnReaderKeeps ==
  ASSUME WindowInv, NEW l \in Loads, SpawnReader(l)
  PROVE  WindowInv'
<1>0. /\ WindowShaped /\ LoadsInOrder /\ ReadersInOrder /\ WatchersInOrder
  BY DEF WindowInv
<1>1. /\ Load(l, "answered", "spawned") /\ reader' = [reader EXCEPT ![load[l].generation].at = "pass"]
      /\ UNCHANGED <<held, next_generation, dialled, announcing, bound, watch, peer, lost, astray>>
  BY DEF SpawnReader, daemonVars, historyVars
<1>2. load[l].at = "answered" /\ Proceeds(l, "spawned")
  BY <1>0, <1>1, LoadMoved DEF WindowShaped, LoadSteps, Proceeds
<1>3. /\ load[l].generation \in 1..next_generation
      /\ \A g \in Generations : g = load[l].generation => reader[g].at = "none"
  BY <1>0, <1>2 DEF LoadsInOrder, Claims
<1>4. \A g \in Generations :
        /\ {"at", "signals"} \subseteq DOMAIN reader'[g] /\ reader'[g].signals = reader[g].signals
        /\ g # load[l].generation => reader'[g] = reader[g]
        /\ g = load[l].generation => reader'[g].at = "pass"
  BY <1>0, <1>1 DEF WindowShaped, ReadersShaped
<1>5. ReadersShaped(reader') /\ \A g \in Generations : Stopping(reader'[g]) <=> Stopping(reader[g])
  BY <1>0, <1>1, <1>4 DEF WindowShaped, ReadersShaped, Stopping
<1>6. WindowShaped'
  BY <1>0, <1>1, <1>2, <1>5 DEF WindowShaped, WatchesTyped, Proceeds
<1>7. LoadsInOrder'
  BY <1>0, <1>1, <1>2, <1>3, OnlyLoad DEF LoadsInOrder, LoadRuns, Claims, Proceeds
<1>8. \A g \in Generations : g > next_generation => g # load[l].generation
  BY <1>0, <1>3, GenerationsCount DEF WindowShaped, LoadsTyped
<1>9. ReadersInOrder'
  BY <1>0, <1>1, <1>3, <1>4, <1>5, <1>8 DEF ReadersInOrder, Live, Gone
<1>10. WatchersInOrder'
  BY <1>0, <1>1, <1>2 DEF WatchersInOrder, WatcherIsLetGo, Proceeds
<1> QED
  BY <1>6, <1>7, <1>9, <1>10 DEF WindowInv

\* A load that ends without touching the connection or its stream.
LEMMA FinishKeeps ==
  ASSUME WindowInv, NEW l \in Loads, Finishes(l), load[l].at # "claimed",
         held'.control = held.control, held'.generation = held.generation,
         held' \in [control : Nat, stream : Nat, generation : Nat],
         held'.stream <= next_generation, ReadersShaped(reader'),
         \A g \in Generations : reader'[g].at = reader[g].at,
         \A g \in Generations : Live(g) \/ g > next_generation => reader'[g] = reader[g],
         UNCHANGED <<next_generation, dialled, announcing, bound, watch, peer, lost, astray>>
  PROVE  WindowInv'
<1>0. /\ WindowShaped /\ LoadsInOrder /\ ReadersInOrder /\ WatchersInOrder
  BY DEF WindowInv
<1>1. WindowShaped'
  BY <1>0 DEF WindowShaped, WatchesTyped, Finishes
<1>2. \A k \in Loads : load'[k].at \in {"idle", "done", "failed"}
  BY OnlyLoad DEF Finishes
<1>3. LoadsInOrder'
  BY <1>0, <1>2 DEF LoadsInOrder, LoadRuns, Claims
<1>4. ReadersInOrder'
  BY <1>0 DEF ReadersInOrder, Live, Gone
<1>5. WatchersInOrder'
  BY <1>0 DEF WatchersInOrder, WatcherIsLetGo, Finishes
<1> QED
  BY <1>1, <1>3, <1>4, <1>5 DEF WindowInv

LEMMA FinishesKeep ==
  ASSUME WindowInv, NEW l \in Loads, SupersedeNothing(l) \/ InstallStream(l) \/ InstallNothing(l)
  PROVE  WindowInv'
<1>0. WindowShaped /\ LoadsInOrder
  BY DEF WindowInv
<1>1. ASSUME NEW from \in LoadSteps, NEW as \in {"done", "failed"}, Returns(l, from, as),
             from \notin {"idle", "done", "failed"}
      PROVE  Finishes(l) /\ load[l].at = from
  <2>1. LoadsTyped /\ as \in LoadSteps
    BY <1>0 DEF WindowShaped, LoadSteps
  <2>2. /\ LoadsTyped' /\ load[l].at = from /\ load'[l].at = as
        /\ \A k \in Loads : k # l => load'[k] = load[k]
    BY <1>1, <2>1, LoadReturned
  <2> QED
    BY <1>1, <2>2 DEF Finishes
<1>2. CASE SupersedeNothing(l)
  <2>1. /\ Returns(l, "connected", "failed")
        /\ UNCHANGED <<held, reader, next_generation, dialled, announcing, bound, watch, peer, lost, astray>>
    BY <1>2 DEF SupersedeNothing, LoadFails, daemonVars
  <2>2. Finishes(l) /\ load[l].at = "connected"
    BY <1>1, <2>1 DEF LoadSteps
  <2> QED
    BY <1>0, <2>1, <2>2, FinishKeeps DEF WindowShaped, LoadsInOrder
<1>3. CASE InstallStream(l)
  <2>1. /\ Returns(l, "spawned", "done") /\ held.control # NoControl
        /\ held' = [held EXCEPT !.stream = load[l].generation] /\ reader' = Send(reader, held.stream, Stop)
        /\ UNCHANGED <<next_generation, dialled, announcing, bound, watch, peer, lost, astray>>
    BY <1>3 DEF InstallStream, daemonVars, historyVars
  <2>2. Finishes(l) /\ load[l].at = "spawned"
    BY <1>1, <2>1 DEF LoadSteps
  <2>3. held.stream = NoStream /\ load[l].generation \in 1..next_generation
    BY <1>0, <2>1, <2>2 DEF LoadsInOrder, Claims
  <2>4. reader' = reader
    BY <2>1, <2>3 DEF Send
  <2>5. /\ held'.control = held.control /\ held'.generation = held.generation
        /\ held'.stream = load[l].generation /\ held' \in [control : Nat, stream : Nat, generation : Nat]
    BY <1>0, <2>1, <2>3 DEF WindowShaped, LoadsTyped
  <2>6. held'.stream <= next_generation
    BY <1>0, <2>3, <2>5 DEF WindowShaped
  <2> QED
    BY <1>0, <2>1, <2>2, <2>4, <2>5, <2>6, FinishKeeps DEF WindowShaped
<1>4. CASE InstallNothing(l)
  <2>1. /\ Returns(l, "spawned", "failed") /\ held.control = NoControl
        /\ reader' = Send(reader, load[l].generation, Stop)
        /\ UNCHANGED <<held, next_generation, dialled, announcing, bound, watch, peer, lost, astray>>
    BY <1>4 DEF InstallNothing, LoadFails, daemonVars
  <2>2. Finishes(l) /\ load[l].at = "spawned"
    BY <1>1, <2>1 DEF LoadSteps
  <2>3. load[l].generation \in 1..next_generation /\ next_generation \in Nat
    BY <1>0, <2>2 DEF LoadsInOrder, Claims, WindowShaped
  <2>4. /\ ReadersShaped(reader')
        /\ \A g \in Generations : /\ reader'[g].at = reader[g].at
                                  /\ g # load[l].generation => reader'[g] = reader[g]
    BY <1>0, <2>1, SendEffect DEF WindowShaped
  <2>5. \A g \in Generations : Live(g) \/ g > next_generation => g # load[l].generation
    BY <2>1, <2>3, GenerationsCount DEF Live
  <2> QED
    BY <1>0, <2>1, <2>2, <2>4, <2>5, FinishKeeps DEF WindowShaped, LoadsInOrder
<1> QED
  BY <1>2, <1>3, <1>4

-----------------------------------------------------------------------------
\* The daemon's end of a connection, and the watches.

LEMMA UnbindKeeps ==
  ASSUME WindowInv, NEW g \in Generations, Unbind(g)
  PROVE  WindowInv'
<1>0. /\ WindowShaped /\ LoadsInOrder /\ ReadersInOrder /\ WatchersInOrder
  BY DEF WindowInv
<1>1. /\ bound = g /\ Gone(g) /\ bound' = 0 /\ peer' = [peer EXCEPT ![g] = Closed(@)]
      /\ UNCHANGED <<held, next_generation, dialled, announcing, load, watch, reader, lost, astray>>
  BY DEF Unbind, Gone, stateVars, commandVars, historyVars
<1>2. PeersShaped(peer') /\ \A h \in Generations : h # g => peer'[h] = peer[h]
  BY <1>0, <1>1 DEF WindowShaped, PeersShaped, Closed, Unopened
<1>3. WindowShaped'
  BY <1>0, <1>1, <1>2 DEF WindowShaped, LoadsTyped, WatchesTyped
<1>4. next_generation \in Nat /\ \A l \in Loads : load[l].generation \in Nat
  BY <1>0 DEF WindowShaped, LoadsTyped
<1>5. LoadsInOrder'
  BY <1>0, <1>1, <1>4 DEF LoadsInOrder, LoadRuns, Claims
<1>6. g <= next_generation /\ g \in Nat
  BY <1>0, <1>1, GenerationsCount DEF LoadsInOrder
<1>7. ReadersInOrder'
  BY <1>0, <1>1, <1>2, <1>4, <1>6, GenerationsCount DEF ReadersInOrder, Live, Gone
<1>8. WatchersInOrder'
  BY <1>0, <1>1 DEF WatchersInOrder, WatcherIsLetGo
<1> QED
  BY <1>3, <1>5, <1>7, <1>8 DEF WindowInv

\* A watch parks on the connection that is live, and an announcement lets all go.
LEMMA WatchesKeep ==
  ASSUME WindowInv, Announce \/ \E w \in Watches : Watch(w)
  PROVE  WindowInv'
<1>0. /\ WindowShaped /\ LoadsInOrder /\ ReadersInOrder /\ WatchersInOrder
  BY DEF WindowInv
<1>1. UNCHANGED <<held, next_generation, dialled, bound, load, reader, peer, lost, astray>>
  BY DEF Announce, Watch, stateVars, daemonVars, historyVars
<1>2. LoadsInOrder' /\ ReadersInOrder'
  BY <1>0, <1>1 DEF LoadsInOrder, LoadRuns, Claims, ReadersInOrder, Live, Gone
<1>3. CASE Announce
  <2>1. announcing' \in Nat
    BY <1>0, <1>3 DEF Announce, WindowShaped
  <2>2. /\ watch' \in [Watches -> [at : {"idle", "parked", "returned"}, control : Nat, generation : Nat]]
        /\ \A w \in Watches : watch'[w].at # "parked"
    BY <1>0, <1>3 DEF Announce, Woken, WatchAt, WindowShaped, WatchesTyped, NoControl
  <2>3. WindowShaped'
    BY <1>0, <1>1, <2>1, <2>2 DEF WindowShaped, LoadsTyped, WatchesTyped
  <2>4. WatchersInOrder'
    BY <2>2 DEF WatchersInOrder, WatcherIsLetGo
  <2> QED
    BY <1>2, <2>3, <2>4 DEF WindowInv
<1>4. ASSUME NEW w \in Watches, Watch(w)
      PROVE  WindowInv'
  <2> DEFINE next == [at |-> IF held.control = NoControl THEN "returned" ELSE "parked",
                      control |-> held.control, generation |-> held.generation]
  <2>1. announcing' = announcing /\ watch' = [watch EXCEPT ![w] = next]
    BY <1>4 DEF Watch, stateVars
  <2>2. next \in [at : {"idle", "parked", "returned"}, control : Nat, generation : Nat]
    BY <1>0 DEF WindowShaped
  <2>3. /\ WatchesTyped' /\ watch'[w] = next
        /\ \A v \in Watches : v # w => watch'[v] = watch[v]
    BY <1>0, <2>1, <2>2 DEF WindowShaped, WatchesTyped
  <2>4. WindowShaped'
    BY <1>0, <1>1, <2>1, <2>3 DEF WindowShaped, LoadsTyped
  <2>5. watch'[w].at = "parked" => /\ watch'[w].control = held.control /\ held.control # NoControl
                                   /\ watch'[w].generation = held.generation
    BY <2>3
  <2>6. WatchersInOrder'
    <3> HIDE DEF next
    <3> QED
      BY <1>0, <1>1, <2>1, <2>3, <2>5 DEF WatchersInOrder, WatcherIsLetGo
  <2> QED
    BY <1>2, <2>4, <2>6 DEF WindowInv
<1> QED
  BY <1>3, <1>4

-----------------------------------------------------------------------------
\* The window's invariant.

LEMMA WindowStart == Init => WindowInv
<1> SUFFICES ASSUME Init PROVE WindowInv
  OBVIOUS
<1>1. PICK cast \in Casts :
        /\ load = [l \in Loads |-> LoadAt(IF l \in cast THEN "idle" ELSE "failed")]
        /\ watch = [w \in Watches |-> WatchAt(IF w \in cast THEN "idle" ELSE "returned")]
  BY DEF Init
<1>2. LoadsTyped /\ \A l \in Loads : load[l].at \in {"idle", "failed"}
  BY <1>1 DEF LoadsTyped, LoadAt, LoadSteps, NoStream
<1>3. WatchesTyped /\ \A w \in Watches : watch[w].at # "parked"
  BY <1>1 DEF WatchesTyped, WatchAt, NoControl
<1>4. /\ held = [control |-> 0, stream |-> 0, generation |-> 0]
      /\ next_generation = 0 /\ dialled = 0 /\ announcing = 0 /\ bound = 0
  BY DEF Init, Nobody, NoControl, NoStream
<1>5. <<>> \in Seq(Range(<<>>)) /\ Range(<<>>) = {}
  BY DEF Range
<1>6. /\ ReadersShaped(reader)
      /\ \A g \in Generations : reader[g].at = "none" /\ ~Stopping(reader[g])
  BY <1>5 DEF Init, ReadersShaped, Unspawned, Stopping
<1>7. PeersShaped(peer) /\ \A g \in Generations : ~peer[g].closed
  BY DEF Init, PeersShaped, Unopened
<1>8. WindowShaped
  BY <1>2, <1>3, <1>4, <1>6, <1>7 DEF WindowShaped
<1>9. LoadsInOrder
  BY <1>2, <1>4 DEF LoadsInOrder, LoadRuns, Claims
<1>10. ReadersInOrder
  BY <1>4, <1>6, <1>7 DEF ReadersInOrder, Live, NoControl
<1>11. WatchersInOrder
  BY <1>3 DEF WatchersInOrder, WatcherIsLetGo
<1> QED
  BY <1>8, <1>9, <1>10, <1>11 DEF WindowInv

\* Every step keeps the invariant, and takes a healthy connection from nobody.
LEMMA WindowStep ==
  ASSUME WindowInv, [Next]_vars
  PROVE  /\ WindowInv'
         /\ (held.control # NoControl /\ held'.control = NoControl)
              => held.control \in dead' \/ held.generation \in lost \cup astray
<1> DEFINE Kept == held.control # NoControl => held'.control # NoControl
<1>0. WindowShaped
  BY DEF WindowInv
<1>1. ASSUME NEW l \in Loads, ConnectHeld(l) \/ Connect(l)
      PROVE  WindowInv' /\ Kept
  <2>1. Kept
    BY <1>1 DEF ConnectHeld, Connect, stateVars
  <2> QED
    BY <1>1, <2>1, StartsKeeps
<1>2. ASSUME NEW l \in Loads, LoadStep(l)
      PROVE  WindowInv' /\ Kept
  <2>1. CASE Supersede(l)
    <3>1. held'.control = held.control
      BY <1>0, <2>1 DEF Supersede, WindowShaped
    <3> QED
      BY <2>1, <3>1, SupersedeKeeps
  <2>2. CASE InstallStream(l)
    <3>1. held'.control = held.control
      BY <1>0, <2>2 DEF InstallStream, WindowShaped
    <3> QED
      BY <2>2, <3>1, FinishesKeep
  <2>3. CASE ~Supersede(l) /\ ~InstallStream(l)
    <3>1. held' = held
      BY <1>2, <2>3 DEF LoadStep, SupersedeNothing, AnnounceSuperseded, Handshake, HandshakeFails, SpawnReader,
                        InstallNothing, stateVars
    <3>2. WindowInv'
      BY <1>2, <2>3, FinishesKeep, AnnounceSupersededKeeps, HandshakeKeeps, SpawnReaderKeeps DEF LoadStep
    <3> QED
      BY <3>1, <3>2
  <2> QED
    BY <2>1, <2>2, <2>3
<1>3. ASSUME NEW t \in Attaches, AttachKnown(t) \/ AttachUnknown(t) \/ AttachStep(t), ~FailAttach(t)
      PROVE  WindowInv' /\ Kept
  BY <1>3, AttachQuiet, QuietKeeps DEF AttachStep, Quiet, StandsStill
<1>4. ASSUME NEW t \in Detaches, ForgetDetach(t) \/ SignalDetach(t) \/ ServeDetach(t)
      PROVE  WindowInv' /\ Kept
  BY <1>4, DetachQuiet, QuietKeeps DEF Quiet, StandsStill
<1>5. ASSUME Announce \/ \E w \in Watches : Watch(w)
      PROVE  WindowInv' /\ Kept
  <2>1. held' = held
    BY <1>5 DEF Announce, Watch, stateVars
  <2> QED
    BY <1>5, <2>1, WatchesKeep
<1>6. ASSUME NEW g \in Generations, ReaderStep(g), ~OnClosed(g)
      PROVE  WindowInv' /\ Kept
  <2>1. Reads(g)
    BY <1>6, PassReads, RunsReads, LeavesReads DEF ReaderStep
  <2> QED
    BY <2>1, ReadsKeeps DEF Reads, StandsStill
<1>7. ASSUME NEW g \in Generations, Unbind(g)
      PROVE  WindowInv' /\ Kept
  <2>1. held' = held
    BY <1>7 DEF Unbind, stateVars
  <2> QED
    BY <1>7, <2>1, UnbindKeeps
<1>8. ASSUME NEW g \in Generations, NEW i \in Ids, SendFrame(g, i)
      PROVE  WindowInv' /\ Kept
  BY <1>8, SendFrameQuiet, QuietKeeps DEF Quiet, StandsStill
<1>9. ASSUME UNCHANGED vars
      PROVE  WindowInv' /\ Kept
  <2>1. Quiet
    BY <1>0, <1>9 DEF vars, stateVars, commandVars, daemonVars, historyVars, Quiet, StandsStill, WindowShaped
  <2> QED
    BY <2>1, QuietKeeps DEF Quiet, StandsStill
<1>10. \/ UNCHANGED vars
       \/ \E l \in Loads : ConnectHeld(l) \/ Connect(l) \/ LoadStep(l)
       \/ \E t \in Attaches : AttachKnown(t) \/ AttachUnknown(t) \/ AttachStep(t)
       \/ \E t \in Detaches : ForgetDetach(t) \/ SignalDetach(t) \/ ServeDetach(t) \/ FailDetach(t)
       \/ \E w \in Watches : Watch(w)
       \/ \E g \in Generations : ReaderStep(g) \/ Unbind(g)
       \/ \E g \in Generations, i \in Ids : SendFrame(g, i)
       \/ \E c \in 1..Cardinality(Loads) : ControlFails(c)
       \/ Announce
  BY DEF Next
<1> QED
  BY <1>1, <1>2, <1>3, <1>4, <1>5, <1>6, <1>7, <1>8, <1>9, <1>10, TakesKeep

-----------------------------------------------------------------------------
\* The order of what is delivered.

\* Frames of one stream are in the order of their numbers.
Orderly(s)      == \A j, k \in DOMAIN s : j <= k /\ s[j].stream = s[k].stream => s[j].n <= s[k].n
Before(s, t)    == \A j \in DOMAIN s, k \in DOMAIN t : s[j].stream = t[k].stream => s[j].n <= t[k].n
From(least, s)  == \A k \in DOMAIN s : least[s[k].stream] <= s[k].n
UpTo(s, most)   == \A k \in DOMAIN s : s[k].n <= most[s[k].stream]
Together(s)     == \A k \in DOMAIN s : s[k].stream = s[1].stream

\* What is shown comes before what is held, that before what was read, that
\* before what is on the wire, and all before what the daemon writes next.
\* What is held is of one stream.
InLine(r, p) ==
  /\ DOMAIN r = {"at", "signals", "ledger", "pending", "buffer", "shown"}
  /\ r.pending \in Seq(Frames) /\ r.buffer \in Seq(Frames) /\ r.shown \in [Ids -> Nat]
  /\ Orderly(r.pending) /\ Together(r.pending) /\ Orderly(r.buffer)
  /\ From(r.shown, r.pending) /\ From(r.shown, r.buffer) /\ Before(r.pending, r.buffer)
  /\ r.at = "route" => r.buffer # <<>>
  /\ DOMAIN p = {"last", "feeds", "sent", "wire", "closed"}
  /\ p.wire \in Seq(Frames) /\ p.sent \in [Ids -> Nat] /\ Orderly(p.wire)
  /\ From(r.shown, p.wire) /\ Before(r.pending, p.wire) /\ Before(r.buffer, p.wire)
  /\ ~p.closed =>
       /\ UpTo(r.pending, p.sent) /\ UpTo(r.buffer, p.sent) /\ UpTo(p.wire, p.sent)
       /\ \A i \in Ids : r.shown[i] <= p.sent[i]

\* The daemon writes nothing on a connection it closed, and binds none again.
Fresh(l) == load[l].at \in {"claimed", "announced"}
ClosedIsClosed ==
  \A g \in Generations : peer[g].closed =>
    /\ g # bound /\ DOMAIN peer[g].feeds = {}
    /\ \A l \in Loads : Fresh(l) => load[l].generation # g

LineInv == ClosedIsClosed /\ \A g \in Generations : InLine(reader[g], peer[g])

\* Nothing shown is taken back.
Onward(r, q) == \A i \in Ids : q.shown[i] >= r.shown[i]
NoneTakenBack == \A g \in Generations : Onward(reader[g], reader'[g])

\* Of a reader and of a peer only this matters to the order.
AlikeReader(r, q) ==
  /\ DOMAIN q = DOMAIN r /\ q.pending = r.pending /\ q.buffer = r.buffer /\ q.shown = r.shown
  /\ q.at = "route" => r.at = "route" \/ r.buffer # <<>>
AlikePeer(p, q) ==
  /\ DOMAIN q = DOMAIN p /\ q.wire = p.wire /\ q.sent = p.sent /\ q.closed = p.closed
  /\ p.closed => q.feeds = p.feeds

LEMMA AlikeInLine ==
  ASSUME NEW r, NEW q, NEW p, NEW o, InLine(r, p), AlikeReader(r, q), AlikePeer(p, o)
  PROVE  InLine(q, o) /\ Onward(r, q)
BY DEF InLine, AlikeReader, AlikePeer, Onward

LEMMA FrameOf ==
  ASSUME NEW s \in Seq(Frames), NEW k \in DOMAIN s
  PROVE  s[k] \in Frames /\ s[k].stream \in Ids /\ s[k].n \in Nat
<1>1. s[k] \in Frames
  OBVIOUS
<1> QED
  BY <1>1 DEF Frames

LEMMA SendAlike ==
  ASSUME NEW readers, ReadersShaped(readers), NEW k, NEW signal, NEW g \in Generations
  PROVE  AlikeReader(readers[g], Send(readers, k, signal)[g])
BY DEF Send, ReadersShaped, AlikeReader

\* Frames delivered are the newest shown of their stream.
LEMMA ShownEffect ==
  ASSUME NEW r, {"at", "signals", "ledger", "pending", "buffer", "shown"} \subseteq DOMAIN r,
         NEW frames \in Seq(Frames), frames # <<>>, Together(frames)
  PROVE  /\ DOMAIN Shown(r, frames) = DOMAIN r
         /\ Shown(r, frames).at = r.at /\ Shown(r, frames).pending = r.pending
         /\ Shown(r, frames).buffer = r.buffer
         /\ Shown(r, frames).shown =
              [i \in Ids |-> IF i = frames[1].stream THEN frames[Len(frames)].n ELSE r.shown[i]]
<1> DEFINE Last(i) == CHOOSE k \in DOMAIN frames :
                        /\ frames[k].stream = i
                        /\ \A m \in DOMAIN frames : frames[m].stream = i => m <= k
           next    == [i \in Ids |-> IF \E k \in DOMAIN frames : frames[k].stream = i
                                       THEN frames[Last(i)].n ELSE r.shown[i]]
<1>1. Len(frames) \in DOMAIN frames /\ 1 \in DOMAIN frames /\ DOMAIN frames = 1..Len(frames)
  BY DEF Together
<1>2. ASSUME NEW i \in Ids
      PROVE  next[i] = IF i = frames[1].stream THEN frames[Len(frames)].n ELSE r.shown[i]
  <2>1. CASE i = frames[1].stream
    <3>1. /\ frames[Len(frames)].stream = i
          /\ \A m \in DOMAIN frames : frames[m].stream = i => m <= Len(frames)
      BY <1>1, <2>1 DEF Together
    <3>2. Last(i) \in DOMAIN frames /\ \A m \in DOMAIN frames : frames[m].stream = i => m <= Last(i)
      BY <1>1, <3>1
    <3>3. Last(i) = Len(frames)
      BY <1>1, <3>1, <3>2
    <3>4. \E k \in DOMAIN frames : frames[k].stream = i
      BY <1>1, <3>1
    <3> HIDE DEF Last
    <3> QED
      BY <2>1, <3>3, <3>4
  <2>2. CASE i # frames[1].stream
    <3>1. ~ \E k \in DOMAIN frames : frames[k].stream = i
      BY <2>2 DEF Together
    <3> HIDE DEF Last
    <3> QED
      BY <2>2, <3>1
  <2> QED
    BY <2>1, <2>2
<1>3. Shown(r, frames) = [r EXCEPT !.ledger = @ \cup {f.stream : f \in Range(frames)}, !.shown = next]
  BY DEF Shown
<1> HIDE DEF next
<1>4. next = [i \in Ids |-> next[i]]
  BY DEF next
<1> QED
  BY <1>2, <1>3, <1>4

\* What is held goes out before what was read.
LEMMA SettledInLine ==
  ASSUME NEW r, NEW p, InLine(r, p)
  PROVE  InLine(Settled(r), p) /\ Onward(r, Settled(r)) /\ Settled(r).at = r.at
<1>1. CASE r.pending = <<>>
  <2>1. Settled(r) = r
    BY <1>1 DEF Settled
  <2>2. r.shown \in [Ids -> Nat]
    BY DEF InLine
  <2> QED
    BY <2>1, <2>2 DEF Onward
<1>2. CASE r.pending # <<>>
  <2> DEFINE o == [r EXCEPT !.pending = <<>>]
             q == Settled(r)
             h == r.pending
  <2>1. /\ DOMAIN o = DOMAIN r /\ o.at = r.at /\ o.pending = <<>> /\ o.buffer = r.buffer /\ o.shown = r.shown
        /\ {"at", "signals", "ledger", "pending", "buffer", "shown"} \subseteq DOMAIN o
    BY DEF InLine
  <2>2. q = Shown(o, h)
    BY <1>2 DEF Settled
  <2>3. h \in Seq(Frames) /\ h # <<>> /\ Together(h)
    BY <1>2 DEF InLine
  <2> HIDE DEF o, q, h
  <2>4. /\ DOMAIN q = DOMAIN r /\ q.at = r.at /\ q.pending = <<>> /\ q.buffer = r.buffer
        /\ q.shown = [i \in Ids |-> IF i = h[1].stream THEN h[Len(h)].n ELSE r.shown[i]]
    BY <2>1, <2>2, <2>3, ShownEffect
  <2>5. /\ Len(h) \in DOMAIN h /\ h[Len(h)].stream = h[1].stream
        /\ h[Len(h)].n \in Nat /\ h[1].stream \in Ids
    <3>1. Len(h) \in DOMAIN h /\ 1 \in DOMAIN h
      BY <2>3
    <3> QED
      BY <2>3, <3>1, FrameOf DEF Together
  <2>6. r.shown \in [Ids -> Nat] /\ r.shown[h[1].stream] <= h[Len(h)].n
    BY <2>5 DEF InLine, From, h
  <2>12. q.shown \in [Ids -> Nat] /\ Onward(r, q)
    BY <2>4, <2>5, <2>6 DEF Onward
  <2>7. \A t : (t \in Seq(Frames) /\ From(r.shown, t) /\ Before(h, t)) => From(q.shown, t)
    <3> TAKE t
    <3> SUFFICES ASSUME t \in Seq(Frames), From(r.shown, t), Before(h, t), NEW k \in DOMAIN t
                 PROVE  q.shown[t[k].stream] <= t[k].n
      BY DEF From
    <3>1. t[k].stream \in Ids
      BY FrameOf
    <3>2. r.shown[t[k].stream] <= t[k].n /\ (t[k].stream = h[1].stream => h[Len(h)].n <= t[k].n)
      BY <2>5 DEF From, Before
    <3> QED
      BY <2>4, <3>1, <3>2
  <2>8. p.closed \/ \A i \in Ids : q.shown[i] <= p.sent[i]
    <3>1. p.closed \/ (h[Len(h)].n <= p.sent[h[1].stream] /\ \A i \in Ids : r.shown[i] <= p.sent[i])
      BY <2>5 DEF InLine, UpTo, h
    <3> QED
      BY <2>4, <3>1
  <2>9. Orderly(<<>>) /\ Together(<<>>) /\ From(q.shown, <<>>) /\ <<>> \in Seq(Frames)
    BY DEF Orderly, Together, From
  <2>10. UpTo(<<>>, p.sent) /\ \A t : Before(<<>>, t)
    BY DEF UpTo, Before
  <2>11. From(q.shown, q.buffer) /\ From(q.shown, p.wire)
    BY <2>4, <2>7 DEF InLine, h
  <2> QED
    BY <2>4, <2>8, <2>9, <2>10, <2>11, <2>12 DEF InLine, q
<1> QED
  BY <1>1, <1>2

\* On to what is left of the buffer.
LEMMA NextFrameInLine ==
  ASSUME NEW r, NEW p, InLine([r EXCEPT !.at = "pass"], p), "at" \in DOMAIN r
  PROVE  InLine(NextFrame(r), p) /\ NextFrame(r).shown = r.shown
<1> DEFINE q == [r EXCEPT !.at = "pass"]
<1>1. /\ DOMAIN q = DOMAIN r /\ q.pending = r.pending /\ q.buffer = r.buffer /\ q.shown = r.shown
      /\ q.at = "pass"
  OBVIOUS
<1>2. /\ DOMAIN NextFrame(r) = DOMAIN r /\ NextFrame(r).pending = r.pending
      /\ NextFrame(r).buffer = r.buffer /\ NextFrame(r).shown = r.shown
      /\ NextFrame(r).at = "route" => r.buffer # <<>>
  BY DEF NextFrame
<1>3. InLine(q, p)
  OBVIOUS
<1> HIDE DEF q
<1>4. AlikeReader(q, NextFrame(r)) /\ AlikePeer(p, p)
  BY <1>1, <1>2 DEF AlikeReader, AlikePeer
<1> QED
  BY <1>2, <1>3, <1>4, AlikeInLine

\* A frame at the end of a sequence.
LEMMA FrameAppended ==
  ASSUME NEW s \in Seq(Frames), NEW f \in Frames
  PROVE  /\ Append(s, f) \in Seq(Frames)
         /\ Orderly(s) /\ Before(s, <<f>>) => Orderly(Append(s, f))
         /\ Together(s) /\ (s # <<>> => s[1].stream = f.stream) => Together(Append(s, f))
         /\ \A t \in Seq(Frames) : /\ Before(s, t) /\ Before(<<f>>, t) => Before(Append(s, f), t)
                                   /\ Before(t, s) /\ Before(t, <<f>>) => Before(t, Append(s, f))
         /\ \A least : From(least, s) /\ From(least, <<f>>) => From(least, Append(s, f))
         /\ \A most : UpTo(s, most) /\ UpTo(<<f>>, most) => UpTo(Append(s, f), most)
<1> DEFINE q == Append(s, f)
           n == Len(s)
<1>1. q \in Seq(Frames) /\ n \in Nat /\ DOMAIN s = 1..n /\ DOMAIN q = 1..(n + 1)
  OBVIOUS
<1>2. q[n + 1] = f /\ \A k \in 1..n : q[k] = s[k]
  OBVIOUS
<1>3. DOMAIN <<f>> = {1} /\ <<f>>[1] = f
  OBVIOUS
<1>4. \A k \in DOMAIN q : k = n + 1 \/ k \in 1..n
  BY <1>1
<1>5. f.n \in Nat
  BY DEF Frames
<1> HIDE DEF q, n
<1>6. ASSUME Orderly(s), Before(s, <<f>>) PROVE Orderly(q)
  <2> SUFFICES ASSUME NEW j \in DOMAIN q, NEW k \in DOMAIN q, j <= k, q[j].stream = q[k].stream
               PROVE  q[j].n <= q[k].n
    BY DEF Orderly
  <2>1. CASE k \in 1..n
    <3>1. j \in 1..n
      BY <1>1, <2>1
    <3> QED
      BY <1>1, <1>2, <1>6, <2>1, <3>1 DEF Orderly
  <2>2. CASE k = n + 1 /\ j \in 1..n
    BY <1>1, <1>2, <1>3, <1>6, <2>2 DEF Before
  <2>3. CASE k = n + 1 /\ j = n + 1
    BY <1>2, <1>5, <2>3
  <2> QED
    BY <1>4, <2>1, <2>2, <2>3
<1>7. ASSUME Together(s), s # <<>> => s[1].stream = f.stream PROVE Together(q)
  <2>1. CASE s = <<>>
    <3>1. n = 0
      BY <2>1 DEF n
    <3>2. \A k \in DOMAIN q : k = 1
      BY <1>1, <3>1
    <3> QED
      BY <3>2 DEF Together
  <2>2. CASE s # <<>>
    <3>1. 1 \in 1..n
      BY <1>1, <2>2 DEF n
    <3> QED
      BY <1>1, <1>2, <1>4, <1>7, <2>2, <3>1 DEF Together
  <2> QED
    BY <2>1, <2>2
<1>8. ASSUME NEW t \in Seq(Frames)
      PROVE  /\ Before(s, t) /\ Before(<<f>>, t) => Before(q, t)
             /\ Before(t, s) /\ Before(t, <<f>>) => Before(t, q)
  BY <1>1, <1>2, <1>3, <1>4 DEF Before
<1>9. ASSUME NEW least PROVE From(least, s) /\ From(least, <<f>>) => From(least, q)
  BY <1>1, <1>2, <1>3, <1>4 DEF From
<1>10. ASSUME NEW most PROVE UpTo(s, most) /\ UpTo(<<f>>, most) => UpTo(q, most)
  BY <1>1, <1>2, <1>3, <1>4 DEF UpTo
<1> QED
  BY <1>1, <1>6, <1>7, <1>8, <1>9, <1>10 DEF q

\* A sequence cut in two after its n-th frame.
Cut(s, n, a, b) ==
  /\ a \in Seq(Frames) /\ b \in Seq(Frames) /\ DOMAIN a = 1..n /\ DOMAIN b = 1..(Len(s) - n)
  /\ \A k \in 1..n : a[k] = s[k]
  /\ \A k \in 1..(Len(s) - n) : b[k] = s[n + k]

LEMMA CutInTwo ==
  ASSUME NEW s \in Seq(Frames), NEW n \in 0..Len(s), NEW a, NEW b, Cut(s, n, a, b)
  PROVE  /\ Orderly(s) => Orderly(a) /\ Orderly(b) /\ Before(a, b)
         /\ \A t \in Seq(Frames) : /\ Before(s, t) => Before(a, t) /\ Before(b, t)
                                   /\ Before(t, s) => Before(t, a) /\ Before(t, b)
         /\ \A least : From(least, s) => From(least, a) /\ From(least, b)
         /\ \A most : UpTo(s, most) => UpTo(a, most) /\ UpTo(b, most)
<1>1. /\ \A k \in DOMAIN a : k \in Int /\ k \in DOMAIN s /\ a[k] = s[k] /\ k <= n
      /\ \A k \in DOMAIN b : k \in Int /\ n + k \in DOMAIN s /\ b[k] = s[n + k] /\ n <= n + k
  BY DEF Cut
<1>2. ASSUME Orderly(s) PROVE Orderly(a) /\ Orderly(b) /\ Before(a, b)
  <2>1. \A j, k \in DOMAIN a : j <= k /\ a[j].stream = a[k].stream => a[j].n <= a[k].n
    BY <1>1, <1>2 DEF Orderly
  <2>2. ASSUME NEW j \in DOMAIN b, NEW k \in DOMAIN b, j <= k, b[j].stream = b[k].stream
        PROVE  b[j].n <= b[k].n
    <3>1. n + j <= n + k
      BY <1>1, <2>2
    <3> QED
      BY <1>1, <1>2, <2>2, <3>1 DEF Orderly
  <2>3. ASSUME NEW j \in DOMAIN a, NEW k \in DOMAIN b, a[j].stream = b[k].stream
        PROVE  a[j].n <= b[k].n
    <3>1. j <= n + k
      BY <1>1
    <3> QED
      BY <1>1, <1>2, <2>3, <3>1 DEF Orderly
  <2> QED
    BY <2>1, <2>2, <2>3 DEF Orderly, Before
<1>3. ASSUME NEW t \in Seq(Frames)
      PROVE  /\ Before(s, t) => Before(a, t) /\ Before(b, t)
             /\ Before(t, s) => Before(t, a) /\ Before(t, b)
  BY <1>1 DEF Before
<1>4. ASSUME NEW least PROVE From(least, s) => From(least, a) /\ From(least, b)
  BY <1>1 DEF From
<1>5. ASSUME NEW most PROVE UpTo(s, most) => UpTo(a, most) /\ UpTo(b, most)
  BY <1>1 DEF UpTo
<1> QED
  BY <1>2, <1>3, <1>4, <1>5

\* Where a frame just taken from the buffer stands.
Ahead(f, r, p) ==
  /\ f \in Frames /\ From(r.shown, <<f>>) /\ Before(r.pending, <<f>>)
  /\ Before(<<f>>, r.buffer) /\ Before(<<f>>, p.wire)
  /\ ~p.closed => UpTo(<<f>>, p.sent)

LEMMA PastInLine ==
  ASSUME NEW g \in Generations, NEW p, InLine(reader[g], p), Routing(g)
  PROVE  /\ InLine(Past(g), p) /\ Ahead(Front(g), Past(g), p)
         /\ Past(g).shown = reader[g].shown /\ Past(g).pending = reader[g].pending
<1> DEFINE r == reader[g]
           f == Front(g)
           q == [r EXCEPT !.buffer = Tail(@)]
           o == [q EXCEPT !.at = "pass"]
<1>1. r.buffer \in Seq(Frames) /\ r.buffer # <<>>
  BY DEF InLine, Routing
<1>2. Cut(r.buffer, 1, <<f>>, Tail(r.buffer)) /\ f \in Frames /\ 1 \in 0..Len(r.buffer)
  BY <1>1 DEF Cut, Front
<1>3. /\ DOMAIN q = DOMAIN r /\ q.pending = r.pending /\ q.buffer = Tail(r.buffer) /\ q.shown = r.shown
      /\ DOMAIN r = {"at", "signals", "ledger", "pending", "buffer", "shown"}
  BY DEF InLine
<1>4. /\ DOMAIN o = DOMAIN r /\ o.pending = r.pending /\ o.buffer = Tail(r.buffer) /\ o.shown = r.shown
      /\ o.at = "pass"
  BY <1>3
<1>5. Past(g) = NextFrame(q)
  BY DEF Past
<1> HIDE DEF q
<1>6. /\ Orderly(Tail(r.buffer)) /\ Before(<<f>>, Tail(r.buffer))
      /\ Before(r.pending, Tail(r.buffer)) /\ Before(r.pending, <<f>>)
      /\ Before(Tail(r.buffer), p.wire) /\ Before(<<f>>, p.wire)
      /\ From(r.shown, Tail(r.buffer)) /\ From(r.shown, <<f>>)
      /\ ~p.closed => UpTo(Tail(r.buffer), p.sent) /\ UpTo(<<f>>, p.sent)
  <2> HIDE DEF f
  <2> QED
    BY <1>1, <1>2, CutInTwo DEF InLine
<1>7. Tail(r.buffer) \in Seq(Frames)
  BY <1>1
<1>8. InLine(o, p)
  <2> HIDE DEF o
  <2> QED
    BY <1>4, <1>6, <1>7 DEF InLine
<1>9. InLine(Past(g), p) /\ Past(g).shown = q.shown
  BY <1>3, <1>5, <1>8, NextFrameInLine
<1>10. Past(g).pending = r.pending /\ Past(g).buffer = Tail(r.buffer)
  BY <1>3, <1>5 DEF NextFrame
<1>11. Ahead(f, Past(g), p)
  <2> HIDE DEF f
  <2> QED
    BY <1>2, <1>3, <1>6, <1>9, <1>10 DEF Ahead
<1> QED
  BY <1>3, <1>9, <1>10, <1>11

\* It is held behind what is held of its stream, or shown.
LEMMA HeldInLine ==
  ASSUME NEW r, NEW p, NEW f, NEW at, at # "route" \/ r.at = "route", InLine(r, p), Ahead(f, r, p),
         r.pending # <<>> => r.pending[1].stream = f.stream
  PROVE  /\ InLine([r EXCEPT !.pending = Append(@, f), !.at = at], p)
         /\ Onward(r, [r EXCEPT !.pending = Append(@, f), !.at = at])
<1> DEFINE q == [r EXCEPT !.pending = Append(@, f), !.at = at]
<1>1. /\ DOMAIN q = DOMAIN r /\ q.pending = Append(r.pending, f) /\ q.buffer = r.buffer
      /\ q.shown = r.shown /\ q.at = at
  BY DEF InLine
<1> HIDE DEF q
<1>2. /\ Append(r.pending, f) \in Seq(Frames) /\ Orderly(Append(r.pending, f)) /\ Together(Append(r.pending, f))
      /\ From(r.shown, Append(r.pending, f))
      /\ Before(Append(r.pending, f), r.buffer) /\ Before(Append(r.pending, f), p.wire)
      /\ ~p.closed => UpTo(Append(r.pending, f), p.sent)
  BY FrameAppended DEF InLine, Ahead
<1>3. InLine(q, p)
  BY <1>1, <1>2 DEF InLine
<1>4. Onward(r, q)
  BY <1>1 DEF Onward, InLine
<1> QED
  BY <1>3, <1>4 DEF q

LEMMA ShownInLine ==
  ASSUME NEW r, NEW p, NEW f, InLine(r, p), Ahead(f, r, p),
         r.pending # <<>> => r.pending[1].stream # f.stream
  PROVE  InLine(Shown(r, <<f>>), p) /\ Onward(r, Shown(r, <<f>>))
<1> DEFINE q == Shown(r, <<f>>)
<1>1. /\ <<f>> \in Seq(Frames) /\ <<f>> # <<>> /\ Together(<<f>>)
      /\ <<f>>[1] = f /\ <<f>>[Len(<<f>>)] = f /\ 1 \in DOMAIN <<f>>
  BY DEF Ahead, Together
<1>2. {"at", "signals", "ledger", "pending", "buffer", "shown"} \subseteq DOMAIN r
  BY DEF InLine
<1> HIDE DEF q
<1>3. /\ DOMAIN q = DOMAIN r /\ q.at = r.at /\ q.pending = r.pending /\ q.buffer = r.buffer
      /\ q.shown = [i \in Ids |-> IF i = f.stream THEN f.n ELSE r.shown[i]]
  <2> DEFINE s == <<f>>
  <2>1. s \in Seq(Frames) /\ s # <<>> /\ Together(s) /\ s[1] = f /\ s[Len(s)] = f /\ q = Shown(r, s)
    BY <1>1 DEF q
  <2> HIDE DEF s
  <2> QED
    BY <1>2, <2>1, ShownEffect
<1>4. f.stream \in Ids /\ f.n \in Nat /\ r.shown \in [Ids -> Nat] /\ r.shown[f.stream] <= f.n
  BY <1>1, FrameOf DEF Ahead, InLine, From
<1>5. q.shown \in [Ids -> Nat] /\ Onward(r, q)
  BY <1>3, <1>4 DEF Onward
<1>6. ASSUME NEW t \in Seq(Frames), From(r.shown, t), Before(<<f>>, t)
      PROVE  From(q.shown, t)
  <2> SUFFICES ASSUME NEW k \in DOMAIN t PROVE q.shown[t[k].stream] <= t[k].n
    BY DEF From
  <2>1. t[k].stream \in Ids
    BY FrameOf
  <2>2. r.shown[t[k].stream] <= t[k].n /\ (f.stream = t[k].stream => f.n <= t[k].n)
    BY <1>1, <1>6 DEF From, Before
  <2> QED
    BY <1>3, <2>1, <2>2
<1>7. Before(<<f>>, r.pending)
  <2>1. \A k \in DOMAIN r.pending : r.pending[k].stream # f.stream
    BY DEF InLine, Together
  <2> QED
    BY <2>1 DEF Before
<1>8. From(q.shown, r.pending) /\ From(q.shown, r.buffer) /\ From(q.shown, p.wire)
  BY <1>6, <1>7 DEF InLine, Ahead
<1>9. ~p.closed => \A i \in Ids : q.shown[i] <= p.sent[i]
  <2>1. ~p.closed => f.n <= p.sent[f.stream] /\ \A i \in Ids : r.shown[i] <= p.sent[i]
    BY <1>1 DEF InLine, Ahead, UpTo
  <2> QED
    BY <1>3, <2>1
<1> QED
  BY <1>3, <1>5, <1>8, <1>9 DEF InLine, q

-----------------------------------------------------------------------------
\* Steps that keep the order.

\* Nobody reads and nothing is written, closed or claimed.
Untouched ==
  /\ \A g \in Generations : AlikeReader(reader[g], reader'[g]) /\ AlikePeer(peer[g], peer'[g])
  /\ bound' = bound
  /\ \A l \in Loads : Fresh(l)' => Fresh(l) /\ load'[l].generation = load[l].generation

LEMMA UntouchedKeeps ==
  ASSUME LineInv, Untouched
  PROVE  LineInv' /\ NoneTakenBack
<1>1. \A g \in Generations : InLine(reader'[g], peer'[g]) /\ Onward(reader[g], reader'[g])
  BY AlikeInLine DEF LineInv, Untouched
<1>2. ClosedIsClosed'
  BY DEF LineInv, ClosedIsClosed, Untouched, AlikePeer
<1> QED
  BY <1>1, <1>2 DEF LineInv, NoneTakenBack

\* The readers are what they were but for what they were told.
LEMMA ReadersAlike ==
  ASSUME ReadersShaped(reader), \/ reader' = reader
                                \/ \E k, signal : reader' = Send(reader, k, signal)
  PROVE  \A g \in Generations : AlikeReader(reader[g], reader'[g])
<1>1. CASE reader' = reader
  BY <1>1 DEF AlikeReader
<1>2. CASE \E k, signal : reader' = Send(reader, k, signal)
  BY <1>2, SendAlike
<1> QED
  BY <1>1, <1>2

LEMMA AttachesUntouched ==
  ASSUME WindowInv, LineInv, NEW t \in Attaches,
         AttachKnown(t) \/ AttachUnknown(t) \/ AttachStep(t)
  PROVE  Untouched
<1>0. ReadersShaped(reader) /\ PeersShaped(peer)
  BY DEF WindowInv, WindowShaped
<1>1. load' = load /\ bound' = bound
  BY DEF AttachKnown, AttachUnknown, AttachStep, AnswerAttach, RefuseAttach, FailAttach, RememberAttach,
         SignalAttached, daemonVars
<1>2. \A g \in Generations : AlikeReader(reader[g], reader'[g])
  <2>1. reader' = reader \/ \E k, signal : reader' = Send(reader, k, signal)
    BY DEF AttachKnown, AttachUnknown, AttachStep, AnswerAttach, RefuseAttach, FailAttach, RememberAttach,
           SignalAttached, DisconnectControl, Take
  <2> QED
    BY <1>0, <2>1, ReadersAlike
<1>3. CASE AnswerAttach(t)
  <2>1. PICK i, f : peer' = [peer EXCEPT ![bound].last = i, ![bound].feeds = f]
    BY <1>3 DEF AnswerAttach
  <2>2. \A g \in Generations : DOMAIN peer[g] = {"last", "feeds", "sent", "wire", "closed"}
    BY DEF LineInv, InLine
  <2>3. \A g \in Generations : /\ DOMAIN peer'[g] = DOMAIN peer[g] /\ peer'[g].wire = peer[g].wire
                               /\ peer'[g].sent = peer[g].sent /\ peer'[g].closed = peer[g].closed
                               /\ g # bound => peer'[g] = peer[g]
    BY <1>0, <2>1, <2>2 DEF PeersShaped
  <2>4. \A g \in Generations : peer[g].closed => g # bound
    BY DEF LineInv, ClosedIsClosed
  <2> QED
    BY <1>1, <1>2, <2>3, <2>4 DEF Untouched, AlikePeer, Fresh
<1>4. CASE ~AnswerAttach(t)
  <2>1. peer' = peer
    BY <1>4 DEF AttachKnown, AttachUnknown, AttachStep, RefuseAttach, FailAttach, RememberAttach,
                SignalAttached, daemonVars
  <2> QED
    BY <1>1, <1>2, <2>1 DEF Untouched, AlikePeer, Fresh
<1> QED
  BY <1>3, <1>4

LEMMA DetachesUntouched ==
  ASSUME WindowInv, LineInv, NEW t \in Detaches,
         ForgetDetach(t) \/ SignalDetach(t) \/ ServeDetach(t) \/ FailDetach(t)
  PROVE  Untouched
<1>0. ReadersShaped(reader) /\ PeersShaped(peer)
  BY DEF WindowInv, WindowShaped
<1>1. load' = load /\ bound' = bound
  BY DEF ForgetDetach, SignalDetach, ServeDetach, FailDetach, daemonVars
<1>2. \A g \in Generations : AlikeReader(reader[g], reader'[g])
  <2>1. reader' = reader \/ \E k, signal : reader' = Send(reader, k, signal)
    BY DEF ForgetDetach, SignalDetach, ServeDetach, FailDetach, DisconnectControl, Take
  <2> QED
    BY <1>0, <2>1, ReadersAlike
<1>3. CASE ServeDetach(t)
  <2>1. peer' = peer \/ \E f : peer' = [peer EXCEPT ![bound].feeds = f]
    BY <1>3 DEF ServeDetach
  <2>2. \A g \in Generations : DOMAIN peer[g] = {"last", "feeds", "sent", "wire", "closed"}
    BY DEF LineInv, InLine
  <2>3. \A g \in Generations : /\ DOMAIN peer'[g] = DOMAIN peer[g] /\ peer'[g].wire = peer[g].wire
                               /\ peer'[g].sent = peer[g].sent /\ peer'[g].closed = peer[g].closed
                               /\ g # bound => peer'[g] = peer[g]
    BY <1>0, <2>1, <2>2 DEF PeersShaped
  <2>4. \A g \in Generations : peer[g].closed => g # bound
    BY DEF LineInv, ClosedIsClosed
  <2> QED
    BY <1>1, <1>2, <2>3, <2>4 DEF Untouched, AlikePeer, Fresh
<1>4. CASE ~ServeDetach(t)
  <2>1. peer' = peer
    BY <1>4 DEF ForgetDetach, SignalDetach, FailDetach, daemonVars
  <2> QED
    BY <1>1, <1>2, <2>1 DEF Untouched, AlikePeer, Fresh
<1> QED
  BY <1>3, <1>4

\* Failures, watches and the end of a reader.
LEMMA OthersUntouched ==
  ASSUME WindowInv, LineInv,
         \/ \E c \in 1..Cardinality(Loads) : ControlFails(c)
         \/ \E g \in Generations : OnClosed(g)
         \/ Announce \/ \E w \in Watches : Watch(w)
         \/ UNCHANGED vars
  PROVE  Untouched
<1>0. ReadersShaped(reader)
  BY DEF WindowInv, WindowShaped
<1>1. load' = load /\ bound' = bound /\ peer' = peer
  BY DEF ControlFails, OnClosed, Announce, Watch, vars, commandVars, daemonVars
<1>2. \A g \in Generations : AlikeReader(reader[g], reader'[g])
  <2>1. CASE \E g \in Generations : OnClosed(g)
    <3>1. PICK g \in Generations : OnClosed(g)
      BY <2>1
    <3> DEFINE readers == [reader EXCEPT ![g].at = "ended"]
    <3>2. reader' = readers \/ \E k, signal : reader' = Send(readers, k, signal)
      BY <3>1 DEF OnClosed, DisconnectGeneration, Take
    <3>3. DOMAIN reader[g] = {"at", "signals", "ledger", "pending", "buffer", "shown"}
      BY DEF LineInv, InLine
    <3>4. /\ DOMAIN readers = Generations /\ \A h \in Generations : h # g => readers[h] = reader[h]
          /\ DOMAIN readers[g] = DOMAIN reader[g] /\ readers[g].pending = reader[g].pending
          /\ readers[g].buffer = reader[g].buffer /\ readers[g].shown = reader[g].shown
          /\ readers[g].signals = reader[g].signals /\ readers[g].at = "ended"
      BY <1>0, <3>3 DEF ReadersShaped
    <3> HIDE DEF readers
    <3>5. ReadersShaped(readers) /\ \A h \in Generations : AlikeReader(reader[h], readers[h])
      BY <1>0, <3>4 DEF ReadersShaped, AlikeReader
    <3>6. \A h \in Generations : AlikeReader(readers[h], reader'[h])
      BY <3>2, <3>5, SendAlike DEF AlikeReader
    <3> QED
      BY <3>5, <3>6 DEF AlikeReader
  <2>2. CASE ~ \E g \in Generations : OnClosed(g)
    <3>1. reader' = reader \/ \E k, signal : reader' = Send(reader, k, signal)
      BY <2>2 DEF ControlFails, DisconnectControl, Take, Announce, Watch, vars
    <3> QED
      BY <1>0, <3>1, ReadersAlike
  <2> QED
    BY <2>1, <2>2
<1> QED
  BY <1>1, <1>2 DEF Untouched, AlikePeer, Fresh

\* One connection moves, at either end, and stays open if it was.
LEMMA OneKeeps ==
  ASSUME LineInv, NEW g \in Generations, UNCHANGED <<bound, load>>,
         \A h \in Generations : h # g => reader'[h] = reader[h] /\ peer'[h] = peer[h],
         peer'[g].closed = peer[g].closed, peer'[g].feeds = peer[g].feeds,
         InLine(reader'[g], peer'[g]), Onward(reader[g], reader'[g])
  PROVE  LineInv' /\ NoneTakenBack
<1>1. ASSUME NEW h \in Generations
      PROVE  InLine(reader'[h], peer'[h]) /\ Onward(reader[h], reader'[h])
  <2>1. InLine(reader[h], peer[h])
    BY DEF LineInv
  <2>2. Onward(reader[h], reader[h])
    BY <2>1 DEF InLine, Onward
  <2> QED
    BY <2>1, <2>2
<1>2. ClosedIsClosed'
  BY DEF LineInv, ClosedIsClosed, Fresh
<1> QED
  BY <1>1, <1>2 DEF LineInv, NoneTakenBack

\* A reader moves and reads nothing.
LEMMA LocalKeeps ==
  ASSUME WindowInv, LineInv, NEW g \in Generations, NEW next, Becomes(g, next),
         UNCHANGED <<bound, load, peer>>, InLine(next, peer[g]), Onward(reader[g], next)
  PROVE  LineInv' /\ NoneTakenBack
<1>1. ReadersShaped(reader)
  BY DEF WindowInv, WindowShaped
<1>2. reader'[g] = next /\ \A h \in Generations : h # g => reader'[h] = reader[h]
  BY <1>1 DEF Becomes, ReadersShaped
<1> QED
  BY <1>2, OneKeeps

LEMMA EndsKeeps ==
  ASSUME WindowInv, LineInv, NEW g \in Generations, Ends(g)
  PROVE  LineInv' /\ NoneTakenBack
<1> DEFINE r == reader'[g]
           p == peer'[g]
<1>1. ReadersShaped(reader) /\ PeersShaped(peer) /\ InLine(reader[g], peer[g])
  BY DEF WindowInv, WindowShaped, LineInv
<1>2. UNCHANGED <<bound, load>>
  BY DEF Ends, commandVars
<1>3. /\ DOMAIN r = {"at", "signals", "ledger", "pending", "buffer", "shown"}
      /\ r.at = "over" /\ r.pending = <<>> /\ r.buffer = <<>> /\ r.shown = reader[g].shown
      /\ \A h \in Generations : h # g => reader'[h] = reader[h]
  BY <1>1 DEF Ends, Unspawned, ReadersShaped
<1>4. /\ DOMAIN p = {"last", "feeds", "sent", "wire", "closed"}
      /\ p.wire = <<>> /\ p.sent = peer[g].sent /\ p.closed = peer[g].closed /\ p.feeds = peer[g].feeds
      /\ \A h \in Generations : h # g => peer'[h] = peer[h]
  BY <1>1 DEF Ends, InLine, PeersShaped
<1> HIDE DEF r, p
<1>5. <<>> \in Seq(Frames) /\ Orderly(<<>>) /\ Together(<<>>) /\ Before(<<>>, <<>>)
  BY DEF Orderly, Together, Before
<1>6. \A b : From(b, <<>>) /\ UpTo(<<>>, b)
  BY DEF From, UpTo
<1>7. InLine(r, p) /\ Onward(reader[g], r)
  BY <1>1, <1>3, <1>4, <1>5, <1>6 DEF InLine, Onward
<1> QED
  BY <1>2, <1>3, <1>4, <1>7, OneKeeps DEF r, p

LEMMA PassKeeps ==
  ASSUME WindowInv, LineInv, NEW g \in Generations, Pass(g)
  PROVE  LineInv' /\ NoneTakenBack
<1> DEFINE took == [reader[g] EXCEPT !.signals = <<>>, !.ledger = {i \in @ : ~Told(g, Detach(i))}]
           r    == IF CanSettle(g) THEN Settled(took) ELSE took
<1>1. InLine(reader[g], peer[g])
  BY DEF LineInv
<1>2. AlikeReader(reader[g], took) /\ AlikePeer(peer[g], peer[g])
  BY <1>1 DEF AlikeReader, AlikePeer, InLine
<1>3. PICK next \in AfterSettling(r) : Local(g, [r EXCEPT !.at = next])
  BY DEF Pass
<1>4. next # "route"
  BY <1>3 DEF AfterSettling
<1> HIDE DEF took
<1>5. InLine(took, peer[g]) /\ Onward(reader[g], took)
  BY <1>1, <1>2, AlikeInLine
<1>6. InLine(r, peer[g]) /\ Onward(took, r)
  <2>1. Onward(took, took)
    BY <1>5 DEF Onward, InLine
  <2> QED
    BY <1>5, <2>1, SettledInLine
<1> HIDE DEF r
<1> DEFINE q == [r EXCEPT !.at = next]
<1>7. AlikeReader(r, q)
  BY <1>4, <1>6 DEF AlikeReader, InLine
<1>8. Becomes(g, q) /\ UNCHANGED <<bound, load, peer>>
  BY <1>3 DEF Local, commandVars, daemonVars
<1> HIDE DEF q
<1>9. InLine(q, peer[g]) /\ q.shown = r.shown
  BY <1>2, <1>6, <1>7, AlikeInLine DEF AlikeReader
<1>10. Onward(reader[g], q)
  BY <1>1, <1>5, <1>6, <1>9 DEF Onward, InLine
<1> QED
  BY <1>8, <1>9, <1>10, LocalKeeps

LEMMA ResettleKeeps ==
  ASSUME WindowInv, LineInv, NEW g \in Generations, Resettle(g)
  PROVE  LineInv' /\ NoneTakenBack
<1> DEFINE r == IF CanSettle(g) THEN Settled(reader[g]) ELSE reader[g]
           q == [r EXCEPT !.at = "pass"]
<1>1. InLine(reader[g], peer[g])
  BY DEF LineInv
<1>2. InLine(r, peer[g]) /\ Onward(reader[g], r)
  <2>1. Onward(reader[g], reader[g])
    BY <1>1 DEF Onward, InLine
  <2> QED
    BY <1>1, <2>1, SettledInLine
<1>3. Becomes(g, NextFrame(r)) /\ UNCHANGED <<bound, load, peer>>
  BY DEF Resettle, Local, commandVars, daemonVars
<1> HIDE DEF r
<1>4. AlikeReader(r, q) /\ AlikePeer(peer[g], peer[g]) /\ "at" \in DOMAIN r
  BY <1>2 DEF AlikeReader, AlikePeer, InLine
<1> HIDE DEF q
<1>5. InLine(q, peer[g])
  BY <1>2, <1>4, AlikeInLine
<1>6. InLine(NextFrame(r), peer[g]) /\ NextFrame(r).shown = r.shown
  BY <1>4, <1>5, NextFrameInLine DEF q
<1>7. Onward(reader[g], NextFrame(r))
  BY <1>2, <1>6 DEF Onward
<1> QED
  BY <1>3, <1>6, <1>7, LocalKeeps

LEMMA ReadFramesKeeps ==
  ASSUME WindowInv, LineInv, NEW g \in Generations, ReadFrames(g)
  PROVE  LineInv' /\ NoneTakenBack
<1> DEFINE w == peer[g].wire
           r == reader'[g]
           p == peer'[g]
<1>1. ReadersShaped(reader) /\ PeersShaped(peer) /\ InLine(reader[g], peer[g])
  BY DEF WindowInv, WindowShaped, LineInv
<1>2. UNCHANGED <<bound, load>>
  BY DEF ReadFrames, commandVars
<1>3. PICK n \in 1..Len(w) :
        /\ Becomes(g, [reader[g] EXCEPT !.at = "route", !.buffer = SubSeq(w, 1, n)])
        /\ peer' = [peer EXCEPT ![g].wire = SubSeq(w, n + 1, Len(w))]
  BY DEF ReadFrames
<1> DEFINE a == SubSeq(w, 1, n)
           b == SubSeq(w, n + 1, Len(w))
<1>4. /\ DOMAIN r = {"at", "signals", "ledger", "pending", "buffer", "shown"}
      /\ r.pending = reader[g].pending /\ r.buffer = a /\ r.shown = reader[g].shown
      /\ \A h \in Generations : h # g => reader'[h] = reader[h]
  BY <1>1, <1>3 DEF Becomes, InLine, ReadersShaped
<1>5. /\ DOMAIN p = {"last", "feeds", "sent", "wire", "closed"}
      /\ p.wire = b /\ p.sent = peer[g].sent /\ p.closed = peer[g].closed /\ p.feeds = peer[g].feeds
      /\ \A h \in Generations : h # g => peer'[h] = peer[h]
  BY <1>1, <1>3 DEF InLine, PeersShaped
<1> HIDE DEF r, p
<1>6. w \in Seq(Frames) /\ n \in 0..Len(w) /\ Len(w) \in Nat
  BY <1>1 DEF InLine
<1> HIDE DEF w
<1>7. Cut(w, n, a, b)
  <2>1. a \in Seq(Frames) /\ Len(a) = n /\ \A k \in 1..n : a[k] = w[k]
    BY <1>3, <1>6
  <2>2. b \in Seq(Frames) /\ Len(b) = Len(w) - n
    BY <1>3, <1>6
  <2>3. \A k \in 1..(Len(w) - n) : b[k] = w[n + k]
    BY <1>3, <1>6
  <2> HIDE DEF a, b
  <2> QED
    BY <2>1, <2>2, <2>3 DEF Cut
<1>8. a # <<>> /\ a \in Seq(Frames) /\ b \in Seq(Frames)
  <2>1. a \in Seq(Frames) /\ b \in Seq(Frames) /\ DOMAIN a = 1..n
    BY <1>7 DEF Cut
  <2> HIDE DEF a, b
  <2> QED
    BY <1>3, <2>1
<1> HIDE DEF a, b
<1>9. /\ Orderly(a) /\ Orderly(b) /\ Before(a, b)
      /\ Before(r.pending, a) /\ Before(r.pending, b) /\ From(r.shown, a) /\ From(r.shown, b)
      /\ ~p.closed => UpTo(a, p.sent) /\ UpTo(b, p.sent)
  BY <1>1, <1>4, <1>5, <1>6, <1>7, CutInTwo DEF InLine, w
<1>10. InLine(r, p) /\ Onward(reader[g], r)
  BY <1>1, <1>4, <1>5, <1>8, <1>9 DEF InLine, Onward
<1> QED
  BY <1>2, <1>4, <1>5, <1>10, OneKeeps DEF r, p

\* A frame leaves the buffer: held, shown or discarded.
LEMMA RoutedKeeps ==
  ASSUME WindowInv, LineInv, NEW g \in Generations,
         HoldMore(g) \/ Deliver(g) \/ Discard(g) \/ Hold(g)
  PROVE  LineInv' /\ NoneTakenBack
<1> DEFINE f == Front(g)
           q == Past(g)
<1>0. InLine(reader[g], peer[g]) /\ Routing(g)
  BY DEF LineInv, HoldMore, Deliver, Discard, Hold, Unattached
<1>1. /\ InLine(q, peer[g]) /\ Ahead(f, q, peer[g])
      /\ q.shown = reader[g].shown /\ q.pending = reader[g].pending
  BY <1>0, PastInLine
<1>2. UNCHANGED <<bound, load, peer>>
  BY DEF HoldMore, Deliver, Discard, Hold, Local, commandVars, daemonVars
<1>3. q.at \in {"pass", "route"} /\ "at" \in DOMAIN q
  BY PastKeeps
<1>4. HeldFor(reader[g]) = IF q.pending = <<>> THEN NoId ELSE q.pending[1].stream
  BY <1>1 DEF HeldFor
<1>5. f.stream \in Ids
  BY <1>1 DEF Ahead, Frames
<1> HIDE DEF f, q
<1>6. \A next : Onward(q, next) => Onward(reader[g], next)
  BY <1>1 DEF Onward
<1>7. CASE HoldMore(g)
  <2>1. Becomes(g, [q EXCEPT !.pending = Append(@, f)]) /\ HeldFor(reader[g]) = f.stream
    BY <1>7 DEF HoldMore, Held, Local, f, q
  <2>2. q.pending # <<>> => q.pending[1].stream = f.stream
    BY <1>4, <2>1
  <2> DEFINE next == [q EXCEPT !.pending = Append(@, f), !.at = q.at]
  <2>3. InLine(next, peer[g]) /\ Onward(q, next)
    BY <1>1, <1>3, <2>2, HeldInLine
  <2>4. next = [q EXCEPT !.pending = Append(@, f)]
    BY <1>3
  <2> HIDE DEF next
  <2> QED
    BY <1>2, <1>6, <2>1, <2>3, <2>4, LocalKeeps
<1>8. CASE Hold(g)
  <2>1. Becomes(g, [q EXCEPT !.pending = <<f>>, !.at = "resettle"]) /\ q.pending = <<>>
    BY <1>1, <1>8 DEF Hold, Local, f, q
  <2> DEFINE next == [q EXCEPT !.pending = Append(@, f), !.at = "resettle"]
  <2>2. InLine(next, peer[g]) /\ Onward(q, next)
    BY <1>1, <2>1, HeldInLine
  <2>3. next = [q EXCEPT !.pending = <<f>>, !.at = "resettle"]
    BY <2>1
  <2> HIDE DEF next
  <2> QED
    BY <1>2, <1>6, <2>1, <2>2, <2>3, LocalKeeps
<1>9. CASE Deliver(g)
  <2>1. Becomes(g, Shown(q, <<f>>)) /\ HeldFor(reader[g]) # f.stream
    BY <1>9 DEF Deliver, Held, Local, f, q
  <2>2. q.pending # <<>> => q.pending[1].stream # f.stream
    BY <1>4, <2>1
  <2>3. InLine(Shown(q, <<f>>), peer[g]) /\ Onward(q, Shown(q, <<f>>))
    BY <1>1, <2>2, ShownInLine
  <2> QED
    BY <1>2, <1>6, <2>1, <2>3, LocalKeeps
<1>10. CASE Discard(g)
  <2>1. Becomes(g, q)
    BY <1>10 DEF Discard, q
  <2>2. Onward(q, q)
    BY <1>1 DEF Onward, InLine
  <2> QED
    BY <1>1, <1>2, <1>6, <2>1, <2>2, LocalKeeps
<1> QED
  BY <1>7, <1>8, <1>9, <1>10

LEMMA SendFrameKeeps ==
  ASSUME WindowInv, LineInv, NEW g \in Generations, NEW i \in Ids, SendFrame(g, i)
  PROVE  LineInv' /\ NoneTakenBack
<1> DEFINE r == reader[g]
           o == peer[g]
           p == peer'[g]
           n == o.sent[i] + 1
           f == [stream |-> i, n |-> n]
<1>1. PeersShaped(peer) /\ InLine(r, o) /\ ~o.closed
  BY DEF WindowInv, WindowShaped, LineInv, ClosedIsClosed, SendFrame
<1>2. UNCHANGED <<bound, load, reader>>
  BY DEF SendFrame, commandVars
<1>3. peer' = [peer EXCEPT ![g].sent[i] = n, ![g].wire = Append(o.wire, f)]
  BY DEF SendFrame
<1>4. n \in Nat /\ n > o.sent[i] /\ f \in Frames /\ f.stream = i /\ f.n = n
  BY <1>1 DEF InLine, Frames
<1> HIDE DEF f, n
<1>5. /\ DOMAIN p = {"last", "feeds", "sent", "wire", "closed"}
      /\ p.wire = Append(o.wire, f) /\ p.sent = [o.sent EXCEPT ![i] = n]
      /\ p.closed = o.closed /\ p.feeds = o.feeds
      /\ \A h \in Generations : h # g => peer'[h] = peer[h]
  BY <1>1, <1>3 DEF InLine, PeersShaped
<1> HIDE DEF r, o, p
<1>6. p.sent \in [Ids -> Nat] /\ p.sent[i] = n /\ \A j \in Ids : o.sent[j] <= p.sent[j]
  BY <1>1, <1>4, <1>5 DEF InLine
<1>7. ASSUME NEW t \in Seq(Frames), UpTo(t, o.sent)
      PROVE  Before(t, <<f>>) /\ UpTo(t, p.sent)
  <2>1. ASSUME NEW k \in DOMAIN t
        PROVE  /\ t[k].n <= p.sent[t[k].stream]
               /\ t[k].stream = i => t[k].n <= n
    <3>1. t[k].stream \in Ids /\ t[k].n \in Nat /\ t[k].n <= o.sent[t[k].stream]
      BY <1>7, FrameOf DEF UpTo
    <3> QED
      BY <1>1, <1>4, <1>6, <3>1 DEF InLine
  <2> QED
    BY <1>4, <2>1 DEF Before, UpTo
<1>8. From(r.shown, <<f>>) /\ UpTo(<<f>>, p.sent)
  <2>1. r.shown[i] <= o.sent[i] /\ r.shown[i] \in Nat /\ o.sent[i] \in Nat
    BY <1>1 DEF InLine
  <2>2. r.shown[i] <= n /\ n <= p.sent[i]
    BY <1>4, <1>6, <2>1
  <2> QED
    BY <1>4, <2>2 DEF From, UpTo
<1>9. /\ Before(r.pending, <<f>>) /\ Before(r.buffer, <<f>>) /\ Before(o.wire, <<f>>)
      /\ UpTo(r.pending, p.sent) /\ UpTo(r.buffer, p.sent) /\ UpTo(o.wire, p.sent)
  BY <1>1, <1>7 DEF InLine
<1>10. /\ p.wire \in Seq(Frames) /\ Orderly(p.wire) /\ From(r.shown, p.wire)
       /\ Before(r.pending, p.wire) /\ Before(r.buffer, p.wire) /\ UpTo(p.wire, p.sent)
  BY <1>1, <1>4, <1>5, <1>8, <1>9, FrameAppended DEF InLine
<1>11. \A j \in Ids : r.shown[j] <= p.sent[j]
  BY <1>1, <1>6 DEF InLine
<1>12. InLine(r, p) /\ Onward(r, r)
  BY <1>1, <1>5, <1>6, <1>9, <1>10, <1>11 DEF InLine, Onward
<1> QED
  BY <1>2, <1>5, <1>12, OneKeeps DEF r, o, p

\* What closing leaves of a connection, and of the order on it.
LEMMA ClosedEffect ==
  ASSUME NEW o
  PROVE  /\ DOMAIN Closed(o) = {"last", "feeds", "sent", "wire", "closed"}
         /\ Closed(o).wire = o.wire /\ Closed(o).sent \in [Ids -> Nat]
         /\ DOMAIN Closed(o).feeds = {} /\ Closed(o).closed = TRUE
BY DEF Closed, Unopened, EmptyMap

LEMMA ClosedInLine ==
  ASSUME NEW r, NEW o, InLine(r, o)
  PROVE  InLine(r, Closed(o))
<1> DEFINE p == Closed(o)
<1>1. p.closed = TRUE
  BY ClosedEffect
<1>2. /\ DOMAIN p = {"last", "feeds", "sent", "wire", "closed"}
      /\ p.wire = o.wire /\ p.sent \in [Ids -> Nat]
  BY ClosedEffect
<1> HIDE DEF p
<1>3. ~p.closed => /\ UpTo(r.pending, p.sent) /\ UpTo(r.buffer, p.sent) /\ UpTo(p.wire, p.sent)
                   /\ \A i \in Ids : r.shown[i] <= p.sent[i]
  BY Zenon, <1>1
<1> QED
  BY <1>2, <1>3 DEF InLine, p

\* A connection is closed, and with it what is fed on it; what it carried
\* can still be read.
LEMMA ClosedKeeps ==
  ASSUME LineInv, UNCHANGED reader, NEW g,
         PeersShaped(peer), peer' = [peer EXCEPT ![g] = Closed(@)] \/ peer' = peer
  PROVE  /\ \A h \in Generations : InLine(reader'[h], peer'[h])
         /\ \A h \in Generations : h # g => peer'[h] = peer[h]
         /\ \A h \in Generations : peer'[h].closed /\ ~peer[h].closed => h = g
         /\ \A h \in Generations : peer'[h].closed => DOMAIN peer'[h].feeds = {}
         /\ NoneTakenBack
<1>1. ASSUME NEW h \in Generations PROVE InLine(reader[h], peer[h]) /\ Onward(reader[h], reader[h])
  BY DEF LineInv, InLine, Onward
<1>2. CASE peer' = peer
  BY <1>1, <1>2 DEF NoneTakenBack, LineInv, ClosedIsClosed
<1>3. CASE peer' = [peer EXCEPT ![g] = Closed(@)]
  <2>1. DOMAIN peer' = Generations /\ \A h \in Generations : h # g => peer'[h] = peer[h]
    BY <1>3 DEF PeersShaped
  <2>2. ASSUME g \in Generations
        PROVE  peer'[g] = Closed(peer[g])
    <3>1. DOMAIN peer = Generations
      BY DEF PeersShaped
    <3>2. [peer EXCEPT ![g] = Closed(peer[g])][g] = Closed(peer[g])
      BY <2>2, <3>1
    <3> QED
      BY <1>3, <3>2
  <2>3. ASSUME g \in Generations
        PROVE  InLine(reader[g], peer'[g]) /\ DOMAIN peer'[g].feeds = {}
    <3>1. InLine(reader[g], peer[g])
      BY <1>1, <2>3
    <3>2. InLine(reader[g], Closed(peer[g]))
      BY ONLY <3>1, ClosedInLine
    <3>3. DOMAIN Closed(peer[g]).feeds = {}
      BY ONLY ClosedEffect
    <3>4. peer'[g] = Closed(peer[g])
      BY <2>2, <2>3
    <3> QED
      BY ONLY <3>2, <3>3, <3>4
  <2>4. \A h \in Generations : h # g => InLine(reader[h], peer'[h])
    BY <1>1, <2>1
  <2>5. \A h \in Generations : peer'[h].closed => DOMAIN peer'[h].feeds = {}
    BY <2>1, <2>3 DEF LineInv, ClosedIsClosed
  <2>6. \A h \in Generations : peer'[h].closed /\ ~peer[h].closed => h = g
    BY <2>1
  <2>7. NoneTakenBack
    BY <1>1 DEF NoneTakenBack
  <2> QED
    BY <2>1, <2>3, <2>4, <2>5, <2>6, <2>7
<1> QED
  BY <1>2, <1>3

LEMMA UnbindLines ==
  ASSUME WindowInv, LineInv, NEW g \in Generations, Unbind(g)
  PROVE  LineInv' /\ NoneTakenBack
<1>1. /\ UNCHANGED <<reader, load>> /\ peer' = [peer EXCEPT ![g] = Closed(@)]
      /\ bound = g /\ bound' = 0
  BY DEF Unbind, commandVars
<1>2. PeersShaped(peer) /\ LoadsInOrder
  BY DEF WindowInv, WindowShaped
<1>3. \A l \in Loads : Fresh(l) => load[l].generation # g
  BY <1>1, <1>2, GenerationsCount DEF LoadsInOrder, Claims, Fresh
<1>4. /\ \A h \in Generations : InLine(reader'[h], peer'[h])
      /\ \A h \in Generations : peer'[h].closed => DOMAIN peer'[h].feeds = {} /\ (peer[h].closed \/ h = g)
      /\ NoneTakenBack
  BY <1>1, <1>2, ClosedKeeps
<1>5. ClosedIsClosed'
  BY <1>1, <1>3, <1>4, GenerationsCount DEF LineInv, ClosedIsClosed, Fresh
<1> QED
  BY <1>4, <1>5 DEF LineInv

LEMMA HandshakeLines ==
  ASSUME WindowInv, LineInv, NEW l \in Loads, Handshake(l) \/ HandshakeFails(l)
  PROVE  LineInv' /\ NoneTakenBack
<1>1. /\ UNCHANGED reader /\ load[l].at = "announced"
      /\ peer' = [peer EXCEPT ![bound] = Closed(@)] \/ peer' = peer
      /\ (bound' = bound /\ peer' = peer) \/ bound' \in {0, load[l].generation}
  <2>1. Replaced = peer \/ Replaced = [peer EXCEPT ![bound] = Closed(@)]
    BY DEF Replaced
  <2>2. CASE Handshake(l)
    BY <2>1, <2>2 DEF Handshake, Load, stateVars, historyVars
  <2>3. CASE HandshakeFails(l)
    BY <2>1, <2>3 DEF HandshakeFails, LoadFails, Returns, daemonVars
  <2> QED
    BY <2>2, <2>3
<1>2. PeersShaped(peer) /\ LoadsInOrder /\ LoadsTyped
  BY DEF WindowInv, WindowShaped
<1>3. /\ load'[l].at \in {"answered", "failed"}
      /\ \A k \in Loads : k # l => load'[k] = load[k]
  BY <1>2 DEF Handshake, HandshakeFails, LoadFails, Load, Returns, LoadAt, LoadsTyped
<1>4. \A k \in Loads : ~Fresh(k)'
  BY <1>1, <1>3, OnlyLoad DEF Fresh
<1>5. Fresh(l) /\ bound < load[l].generation /\ bound \in Nat /\ load[l].generation \in Nat
  BY <1>1, <1>2 DEF LoadsInOrder, Claims, Fresh, WindowInv, WindowShaped, LoadsTyped
<1>6. /\ \A h \in Generations : InLine(reader'[h], peer'[h])
      /\ \A h \in Generations : peer'[h].closed => DOMAIN peer'[h].feeds = {} /\ (peer[h].closed \/ h = bound)
      /\ NoneTakenBack
  BY <1>1, <1>2, ClosedKeeps
<1>7. ASSUME NEW h \in Generations, peer'[h].closed
      PROVE  h # bound'
  <2>1. h \in Nat \ {0}
    BY GenerationsCount
  <2>2. CASE peer[h].closed
    <3>1. h # bound /\ h # load[l].generation
      BY <1>5, <2>2 DEF LineInv, ClosedIsClosed
    <3> QED
      BY <1>1, <2>1, <3>1
  <2>3. CASE ~peer[h].closed
    <3>1. h = bound /\ peer' # peer
      BY <1>6, <1>7, <2>3
    <3> QED
      BY <1>1, <1>5, <2>1, <3>1
  <2> QED
    BY <2>2, <2>3
<1>8. ClosedIsClosed'
  BY <1>4, <1>6, <1>7 DEF ClosedIsClosed
<1> QED
  BY <1>6, <1>8 DEF LineInv

LEMMA SupersedeLines ==
  ASSUME WindowInv, LineInv, NEW l \in Loads, Supersede(l)
  PROVE  LineInv' /\ NoneTakenBack
<1>1. LoadsTyped /\ ReadersInOrder /\ next_generation \in Nat
  BY DEF WindowInv, WindowShaped
<1>2. /\ UNCHANGED <<reader, peer, bound>> /\ load'[l].generation = next_generation + 1
      /\ \A k \in Loads : k # l => load'[k] = load[k]
  BY <1>1 DEF Supersede, daemonVars, LoadsTyped
<1>3. \A g \in Generations : peer[g].closed => g # next_generation + 1
  BY <1>1 DEF ReadersInOrder
<1>4. ClosedIsClosed'
  BY <1>2, <1>3 DEF LineInv, ClosedIsClosed, Fresh
<1>5. \A g \in Generations : InLine(reader'[g], peer'[g]) /\ Onward(reader[g], reader'[g])
  BY <1>2 DEF LineInv, InLine, Onward
<1> QED
  BY <1>4, <1>5 DEF LineInv, NoneTakenBack

\* The other steps of a load read, write and close nothing.
LEMMA LoadsUntouched ==
  ASSUME WindowInv, LineInv, NEW l \in Loads,
         \/ ConnectHeld(l) \/ Connect(l) \/ SupersedeNothing(l) \/ AnnounceSuperseded(l)
         \/ SpawnReader(l) \/ InstallStream(l) \/ InstallNothing(l)
  PROVE  Untouched
<1>0. ReadersShaped(reader) /\ LoadsTyped
  BY DEF WindowInv, WindowShaped
<1>1. UNCHANGED <<peer, bound>>
  BY DEF ConnectHeld, Connect, SupersedeNothing, AnnounceSuperseded, SpawnReader, InstallStream, InstallNothing,
         LoadFails, daemonVars
<1>2. \A k \in Loads : Fresh(k)' => Fresh(k) /\ load'[k].generation = load[k].generation
  <2>1. \/ \E from, to : Load(l, from, to) /\ to \in {"connected", "spawned"}
        \/ \E from, as : Returns(l, from, as) /\ as \in {"done", "failed"}
        \/ Load(l, "claimed", "announced")
    BY DEF ConnectHeld, Connect, SupersedeNothing, AnnounceSuperseded, SpawnReader, InstallStream,
           InstallNothing, LoadFails
  <2> QED
    BY <1>0, <2>1 DEF Load, Returns, LoadAt, Fresh, LoadsTyped
<1>3. \A g \in Generations : AlikeReader(reader[g], reader'[g])
  <2>1. CASE SpawnReader(l)
    <3>1. PICK k : reader' = [reader EXCEPT ![k].at = "pass"]
      BY <2>1 DEF SpawnReader
    <3>2. \A g \in Generations : DOMAIN reader[g] = {"at", "signals", "ledger", "pending", "buffer", "shown"}
      BY DEF LineInv, InLine
    <3> QED
      BY <1>0, <3>1, <3>2 DEF AlikeReader, ReadersShaped
  <2>2. CASE ~SpawnReader(l)
    <3>1. reader' = reader \/ \E k, signal : reader' = Send(reader, k, signal)
      BY <2>2 DEF ConnectHeld, Connect, SupersedeNothing, AnnounceSuperseded, InstallStream, InstallNothing
    <3> QED
      BY <1>0, <3>1, ReadersAlike
  <2> QED
    BY <2>1, <2>2
<1> QED
  BY <1>1, <1>2, <1>3 DEF Untouched, AlikePeer

LEMMA LineStart == Init => LineInv
<1> SUFFICES ASSUME Init PROVE LineInv
  OBVIOUS
<1>1. \A g \in Generations : reader[g] = Unspawned /\ peer[g] = Unopened
  BY DEF Init
<1>2. /\ DOMAIN Unspawned = {"at", "signals", "ledger", "pending", "buffer", "shown"}
      /\ Unspawned.at = "none" /\ Unspawned.pending = <<>> /\ Unspawned.buffer = <<>>
      /\ Unspawned.shown = [i \in Ids |-> 0]
  BY DEF Unspawned
<1>3. /\ DOMAIN Unopened = {"last", "feeds", "sent", "wire", "closed"}
      /\ Unopened.wire = <<>> /\ Unopened.sent = [i \in Ids |-> 0] /\ Unopened.closed = FALSE
  BY DEF Unopened
<1>4. <<>> \in Seq(Frames) /\ Orderly(<<>>) /\ Together(<<>>) /\ Before(<<>>, <<>>)
  BY DEF Orderly, Together, Before
<1>5. \A b : From(b, <<>>) /\ UpTo(<<>>, b)
  BY DEF From, UpTo
<1>6. InLine(Unspawned, Unopened)
  <2> HIDE DEF Unspawned, Unopened
  <2> QED
    BY <1>2, <1>3, <1>4, <1>5 DEF InLine
<1>7. ClosedIsClosed
  BY <1>1, <1>3 DEF ClosedIsClosed
<1> QED
  BY <1>1, <1>6, <1>7 DEF LineInv

LEMMA LineStep ==
  ASSUME WindowInv, LineInv, [Next]_vars
  PROVE  LineInv' /\ NoneTakenBack
<1>1. ASSUME NEW l \in Loads, ConnectHeld(l) \/ Connect(l) \/ LoadStep(l)
      PROVE  LineInv' /\ NoneTakenBack
  BY <1>1, SupersedeLines, HandshakeLines, LoadsUntouched, UntouchedKeeps DEF LoadStep
<1>2. ASSUME NEW t \in Attaches, AttachKnown(t) \/ AttachUnknown(t) \/ AttachStep(t)
      PROVE  LineInv' /\ NoneTakenBack
  BY <1>2, AttachesUntouched, UntouchedKeeps
<1>3. ASSUME NEW t \in Detaches, ForgetDetach(t) \/ SignalDetach(t) \/ ServeDetach(t) \/ FailDetach(t)
      PROVE  LineInv' /\ NoneTakenBack
  BY <1>3, DetachesUntouched, UntouchedKeeps
<1>4. ASSUME NEW g \in Generations, ReaderStep(g), ~OnClosed(g)
      PROVE  LineInv' /\ NoneTakenBack
  <2>1. \/ Pass(g) \/ Resettle(g) \/ ReadFrames(g) \/ HoldMore(g) \/ Deliver(g) \/ Discard(g) \/ Hold(g)
        \/ Ends(g)
    BY <1>4 DEF ReaderStep, TakeStop, GiveUp, ReadEnd, ReaderFails, DropConnection
  <2> QED
    BY <2>1, PassKeeps, ResettleKeeps, ReadFramesKeeps, RoutedKeeps, EndsKeeps
<1>5. ASSUME NEW g \in Generations, Unbind(g)
      PROVE  LineInv' /\ NoneTakenBack
  BY <1>5, UnbindLines
<1>6. ASSUME NEW g \in Generations, NEW i \in Ids, SendFrame(g, i)
      PROVE  LineInv' /\ NoneTakenBack
  BY <1>6, SendFrameKeeps
<1>7. ASSUME \/ \E c \in 1..Cardinality(Loads) : ControlFails(c)
             \/ \E g \in Generations : OnClosed(g)
             \/ Announce \/ \E w \in Watches : Watch(w)
             \/ UNCHANGED vars
      PROVE  LineInv' /\ NoneTakenBack
  BY <1>7, OthersUntouched, UntouchedKeeps
<1>8. \/ UNCHANGED vars
      \/ \E l \in Loads : ConnectHeld(l) \/ Connect(l) \/ LoadStep(l)
      \/ \E t \in Attaches : AttachKnown(t) \/ AttachUnknown(t) \/ AttachStep(t)
      \/ \E t \in Detaches : ForgetDetach(t) \/ SignalDetach(t) \/ ServeDetach(t) \/ FailDetach(t)
      \/ \E w \in Watches : Watch(w)
      \/ \E g \in Generations : ReaderStep(g) \/ Unbind(g)
      \/ \E g \in Generations, i \in Ids : SendFrame(g, i)
      \/ \E c \in 1..Cardinality(Loads) : ControlFails(c)
      \/ Announce
  BY DEF Next
<1> QED
  BY <1>1, <1>2, <1>3, <1>4, <1>5, <1>6, <1>7, <1>8

-----------------------------------------------------------------------------
\* The table, the ids it routes, and the frames that are held: what is counted.

\* Commands that dialled, that claimed a generation, that were answered.
Dialling == {l \in Loads : load[l].at # "idle"}
Claiming == {l \in Loads : load[l].at \notin {"idle", "connected"}}
Served   == {t \in Attaches : attach[t].at \notin {"idle", "sent"}}

\* Each command begins one connection, one generation or one id at the most.
Counted ==
  /\ dialled <= Cardinality(Dialling) /\ next_generation <= Cardinality(Claiming)
  /\ held.control <= dialled /\ dead \subseteq 1..dialled
  /\ held.control = NoControl => held.stream = NoStream /\ held.generation = 0
  /\ \A g \in Generations : peer[g].last \in Nat /\ peer[g].last <= Cardinality(Served)

TableShaped(t) ==
  /\ DOMAIN t = {"by_handle", "by_stream", "next"}
  /\ DOMAIN t.by_handle \subseteq Handles /\ t.by_handle \in [DOMAIN t.by_handle -> Ids]
  /\ DOMAIN t.by_stream \subseteq Ids /\ t.by_stream \in [DOMAIN t.by_stream -> Handles]
  /\ t.next \in Nat /\ \A i \in DOMAIN t.by_stream : i < t.next

AsksShaped ==
  /\ attach \in [Attaches -> [at : AskSteps, control : Nat, stream : Ids \cup {NoId}, on : Nat]]
  /\ detach \in [Detaches -> [at : DropSteps, control : Nat, stream : Ids \cup {NoId}, on : Nat]]
  /\ \A t \in Attaches : attach[t].at = "answered" => attach[t].stream \in Ids

ReadersTyped ==
  \A g \in Generations : reader[g].at \in ReaderSteps /\ Range(reader[g].signals) \subseteq Signals

\* What the history says of the commands that run.
Apart ==
  /\ "commands" \notin overlaps => LoadRuns = {} \/ AttachRuns \cup DetachRuns = {}
  /\ overlaps = {} => \A t, u \in AttachRuns : t = u

CountInv == Counted /\ TableShaped(table) /\ AsksShaped /\ ReadersTyped /\ Apart

-----------------------------------------------------------------------------
\* Helpers.

\* Sets of commands are finite, and one more counts for one more.
LEMMA Counts ==
  ASSUME NEW S, IsFiniteSet(S), NEW A, NEW B, A \subseteq B, B \subseteq S
  PROVE  /\ Cardinality(A) \in Nat /\ Cardinality(B) \in Nat
         /\ Cardinality(A) <= Cardinality(B) /\ Cardinality(B) <= Cardinality(S)
         /\ \A x \in B : x \notin A => Cardinality(A) + 1 <= Cardinality(B)
<1>1. IsFiniteSet(A) /\ IsFiniteSet(B)
  BY FS_Subset
<1>2. /\ Cardinality(A) \in Nat /\ Cardinality(B) \in Nat
      /\ Cardinality(A) <= Cardinality(B) /\ Cardinality(B) <= Cardinality(S)
  BY <1>1, FS_Subset, FS_CardinalityType
<1>3. ASSUME NEW x \in B, x \notin A
      PROVE  Cardinality(A) + 1 <= Cardinality(B)
  <2>1. Cardinality(A \cup {x}) = Cardinality(A) + 1
    BY <1>1, <1>3, FS_AddElement
  <2>2. A \cup {x} \subseteq B
    BY <1>3
  <2> QED
    BY <1>1, <2>1, <2>2, FS_Subset
<1> QED
  BY <1>2, <1>3

\* A signal adds itself to one inbox.
LEMMA SendSignals ==
  ASSUME NEW readers, ReadersShaped(readers), NEW k, NEW signal
  PROVE  /\ \A g \in Generations :
              Range(Send(readers, k, signal)[g].signals) \subseteq Range(readers[g].signals) \cup {signal}
         /\ k \in Generations /\ readers[k].at \notin {"over", "ended"} => Send(readers, k, signal)[k].signals # <<>>
         /\ \A g \in Generations : readers[g].signals # <<>> => Send(readers, k, signal)[g].signals # <<>>
<1>1. CASE k = NoStream \/ readers[k].at \in {"over", "ended"}
  BY <1>1, GenerationsCount DEF Send, NoStream
<1>2. CASE k \notin Generations /\ ~(k = NoStream \/ readers[k].at \in {"over", "ended"})
  <2>1. Send(readers, k, signal) = [readers EXCEPT ![k].signals = Append(@, signal)]
    BY <1>2 DEF Send
  <2> QED
    BY <1>2, <2>1 DEF ReadersShaped
<1>3. CASE k \in Generations /\ ~(k = NoStream \/ readers[k].at \in {"over", "ended"})
  <2> DEFINE s == readers[k].signals
             r == Send(readers, k, signal)
  <2>1. r = [readers EXCEPT ![k].signals = Append(s, signal)]
    BY <1>3 DEF Send
  <2>2. /\ \A g \in Generations : g # k => r[g] = readers[g]
        /\ r[k].signals = Append(s, signal)
    BY <1>3, <2>1 DEF ReadersShaped
  <2>3. s \in Seq(Range(s))
    BY <1>3 DEF ReadersShaped
  <2>4. Range(Append(s, signal)) = Range(s) \cup {signal}
    BY <2>3, SignalAppended
  <2>5. Append(s, signal) # <<>>
    <3>1. Range(<<>>) = {}
      BY DEF Range
    <3> QED
      BY <2>4, <3>1
  <2> HIDE DEF r
  <2> QED
    BY <2>2, <2>4, <2>5 DEF r
<1> QED
  BY <1>1, <1>2, <1>3

LEMMA NewTableShaped == TableShaped(NewTable)
<1>1. DOMAIN EmptyMap = {}
  BY DEF EmptyMap
<1> HIDE DEF EmptyMap
<1>2. /\ DOMAIN NewTable = {"by_handle", "by_stream", "next"} /\ NewTable.next = 1
      /\ NewTable.by_handle = EmptyMap /\ NewTable.by_stream = EmptyMap
  BY DEF NewTable
<1>3. \A S : EmptyMap \in [DOMAIN EmptyMap -> S]
  BY DEF EmptyMap
<1> QED
  BY <1>1, <1>2, <1>3 DEF TableShaped

\* What recording an id does.
LEMMA RememberEffect ==
  ASSUME NEW t, TableShaped(t), NEW i \in Ids, NEW h \in Handles, NEW r, r = Remember(t, i, h)
  PROVE  /\ TableShaped(r)
         /\ DOMAIN r.by_handle = DOMAIN t.by_handle \cup {h} /\ r.by_handle[h] = i
         /\ \A k \in DOMAIN t.by_handle : k # h => r.by_handle[k] = t.by_handle[k]
         /\ DOMAIN r.by_stream = DOMAIN t.by_stream \cup {i} /\ r.by_stream[i] = h
         /\ \A j \in DOMAIN t.by_stream : j # i => r.by_stream[j] = t.by_stream[j]
         /\ r.next = IF i + 1 > t.next THEN i + 1 ELSE t.next
<1>1. /\ DOMAIN r = {"by_handle", "by_stream", "next"}
      /\ r.by_handle = [k \in DOMAIN t.by_handle \cup {h} |-> IF k = h THEN i ELSE t.by_handle[k]]
      /\ r.by_stream = [j \in DOMAIN t.by_stream \cup {i} |-> IF j = i THEN h ELSE t.by_stream[j]]
      /\ r.next = IF i + 1 > t.next THEN i + 1 ELSE t.next
  BY DEF Remember
<1>2. i \in Nat /\ t.next \in Nat
  BY WindowAssumption, FS_CardinalityType DEF TableShaped, Ids
<1>3. r.next \in Nat /\ i < r.next /\ \A j \in DOMAIN t.by_stream : j < r.next
  <2>1. \A j \in DOMAIN t.by_stream : j \in Nat /\ j < t.next
    BY DEF TableShaped, Ids
  <2> QED
    BY <1>1, <1>2, <2>1
<1>4. /\ DOMAIN r.by_handle = DOMAIN t.by_handle \cup {h} /\ r.by_handle[h] = i
      /\ \A k \in DOMAIN t.by_handle : k # h => r.by_handle[k] = t.by_handle[k]
      /\ r.by_handle \in [DOMAIN r.by_handle -> Ids]
  BY <1>1 DEF TableShaped
<1>5. /\ DOMAIN r.by_stream = DOMAIN t.by_stream \cup {i} /\ r.by_stream[i] = h
      /\ \A j \in DOMAIN t.by_stream : j # i => r.by_stream[j] = t.by_stream[j]
      /\ r.by_stream \in [DOMAIN r.by_stream -> Handles]
  BY <1>1 DEF TableShaped
<1> QED
  BY <1>1, <1>3, <1>4, <1>5 DEF TableShaped

\* What forgetting a session does.
LEMMA ForgetEffect ==
  ASSUME NEW t, TableShaped(t), NEW h \in DOMAIN t.by_handle, NEW r, r = Forget(t, h)
  PROVE  /\ TableShaped(r) /\ r.next = t.next
         /\ DOMAIN r.by_handle = DOMAIN t.by_handle \ {h}
         /\ \A k \in DOMAIN r.by_handle : r.by_handle[k] = t.by_handle[k]
         /\ DOMAIN r.by_stream = DOMAIN t.by_stream \ {t.by_handle[h]}
         /\ \A j \in DOMAIN r.by_stream : r.by_stream[j] = t.by_stream[j]
<1>1. /\ DOMAIN r = {"by_handle", "by_stream", "next"} /\ r.next = t.next
      /\ r.by_handle = [k \in DOMAIN t.by_handle \ {h} |-> t.by_handle[k]]
      /\ r.by_stream = [j \in DOMAIN t.by_stream \ {t.by_handle[h]} |-> t.by_stream[j]]
  BY DEF Forget, Restrict, TableShaped
<1> QED
  BY <1>1 DEF TableShaped

\* The step of a reader, as far as the others and the frames are concerned.
Moves(g) ==
  LET r == reader[g]  q == reader'[g]  p == peer[g]  o == peer'[g] IN
  /\ UNCHANGED <<held, table, next_generation, dialled, dead, announcing, load, attach, detach, watch, bound, overlaps>>
  /\ \A h \in Generations : h # g => reader'[h] = reader[h] /\ peer'[h] = peer[h]
  /\ o.last = p.last /\ o.feeds = p.feeds /\ o.closed = p.closed
  /\ r.at \notin {"none", "over", "ended"} /\ q.at \in ReaderSteps \ {"none", "ended"}
  /\ q.signals \in {r.signals, <<>>}
  /\ \/ q.at = "over" /\ q.pending = <<>> /\ q.buffer = <<>> /\ o.wire = <<>>
     \/ /\ q.at # "over" /\ o.wire = p.wire /\ q.buffer = r.buffer
        /\ q.pending = <<>> \/ (/\ q.pending = r.pending /\ q.at # "read"
                                /\ q.at = "blocked" => ~Routed(HeldFor(r)))
     \/ /\ r.at = "read" /\ q.at = "route" /\ q.pending = r.pending
        /\ \E n \in 1..Len(p.wire) : q.buffer = SubSeq(p.wire, 1, n) /\ o.wire = SubSeq(p.wire, n + 1, Len(p.wire))
     \/ /\ r.buffer # <<>> /\ o.wire = p.wire /\ q.buffer = Tail(r.buffer)
        /\ r.at = "route" /\ q.at \in {"pass", "route", "resettle"}
        /\ \/ q.pending = r.pending
           \/ q.pending = Append(r.pending, Front(g)) /\ HeldFor(r) = Front(g).stream
           \/ q.pending = <<Front(g)>> /\ r.pending = <<>> /\ Front(g).stream = table.next

\* Settling shows what is held, or leaves it.
LEMMA SettledMoves ==
  ASSUME NEW r, DOMAIN r = {"at", "signals", "ledger", "pending", "buffer", "shown"}
  PROVE  /\ DOMAIN Settled(r) = DOMAIN r
         /\ Settled(r).pending = <<>> /\ Settled(r).buffer = r.buffer
         /\ Settled(r).at = r.at /\ Settled(r).signals = r.signals
BY DEF Settled, Shown

LEMMA EndsMoves ==
  ASSUME LineInv, ReadersShaped(reader), PeersShaped(peer), NEW g \in Generations, Ends(g),
         reader[g].at \notin {"none", "over", "ended"}
  PROVE  Moves(g)
<1>1. /\ UNCHANGED <<held, table, next_generation, dialled, dead, announcing, load, attach, detach, watch, bound,
                     overlaps>>
      /\ reader' = [reader EXCEPT ![g] = [Unspawned EXCEPT !.at = "over", !.shown = reader[g].shown]]
      /\ peer' = [peer EXCEPT ![g].wire = <<>>]
  BY DEF Ends, stateVars, commandVars
<1>2. InLine(reader[g], peer[g])
  BY DEF LineInv
<1>3. /\ \A h \in Generations : h # g => reader'[h] = reader[h] /\ peer'[h] = peer[h]
      /\ reader'[g].at = "over" /\ reader'[g].pending = <<>> /\ reader'[g].buffer = <<>>
      /\ reader'[g].signals = <<>>
  BY <1>1 DEF ReadersShaped, PeersShaped, Unspawned
<1>4. /\ peer'[g].wire = <<>> /\ peer'[g].last = peer[g].last /\ peer'[g].feeds = peer[g].feeds
      /\ peer'[g].closed = peer[g].closed
  BY <1>1, <1>2 DEF PeersShaped, InLine
<1> QED
  BY <1>1, <1>3, <1>4 DEF Moves, ReaderSteps

LEMMA LocalMoves ==
  ASSUME LineInv, ReadersShaped(reader), NEW g \in Generations, NEW q, Local(g, q)
  PROVE  /\ UNCHANGED <<held, table, next_generation, dialled, dead, announcing, load, attach, detach, watch, bound,
                        overlaps, peer, astray>>
         /\ reader'[g] = q
         /\ \A h \in Generations : h # g => reader'[h] = reader[h]
BY DEF Local, Becomes, stateVars, commandVars, daemonVars, historyVars, ReadersShaped

LEMMA NextFrameMoves ==
  ASSUME NEW r, DOMAIN r = {"at", "signals", "ledger", "pending", "buffer", "shown"}
  PROVE  /\ DOMAIN NextFrame(r) = DOMAIN r
         /\ NextFrame(r).at \in {"pass", "route"}
         /\ NextFrame(r).pending = r.pending /\ NextFrame(r).buffer = r.buffer
         /\ NextFrame(r).signals = r.signals
BY DEF NextFrame

LEMMA PastMoves ==
  ASSUME LineInv, NEW g \in Generations
  PROVE  /\ DOMAIN Past(g) = {"at", "signals", "ledger", "pending", "buffer", "shown"}
         /\ Past(g).at \in {"pass", "route"}
         /\ Past(g).pending = reader[g].pending /\ Past(g).buffer = Tail(reader[g].buffer)
         /\ Past(g).signals = reader[g].signals
<1>1. DOMAIN reader[g] = {"at", "signals", "ledger", "pending", "buffer", "shown"}
  BY DEF LineInv, InLine
<1> DEFINE r == [reader[g] EXCEPT !.buffer = Tail(@)]
<1>2. /\ DOMAIN r = {"at", "signals", "ledger", "pending", "buffer", "shown"}
      /\ r.pending = reader[g].pending /\ r.buffer = Tail(reader[g].buffer) /\ r.signals = reader[g].signals
  BY <1>1
<1>3. Past(g) = NextFrame(r)
  BY DEF Past
<1> HIDE DEF r
<1>4. /\ DOMAIN NextFrame(r) = DOMAIN r /\ NextFrame(r).at \in {"pass", "route"}
      /\ NextFrame(r).pending = r.pending /\ NextFrame(r).buffer = r.buffer /\ NextFrame(r).signals = r.signals
  BY <1>2, NextFrameMoves
<1> QED
  BY <1>2, <1>3, <1>4

LEMMA PassMoves ==
  ASSUME LineInv, ReadersShaped(reader), NEW g \in Generations, Pass(g)
  PROVE  Moves(g)
<1> DEFINE took == [reader[g] EXCEPT !.signals = <<>>, !.ledger = {i \in @ : ~Told(g, Detach(i))}]
           r == IF CanSettle(g) THEN Settled(took) ELSE took
<1>1. DOMAIN reader[g] = {"at", "signals", "ledger", "pending", "buffer", "shown"}
  BY DEF LineInv, InLine
<1>2. /\ DOMAIN took = {"at", "signals", "ledger", "pending", "buffer", "shown"}
      /\ took.pending = reader[g].pending /\ took.buffer = reader[g].buffer /\ took.signals = <<>>
  BY <1>1
<1>3. PICK next \in AfterSettling(r) : Local(g, [r EXCEPT !.at = next])
  BY DEF Pass
<1> HIDE DEF took
<1>4. /\ DOMAIN r = {"at", "signals", "ledger", "pending", "buffer", "shown"}
      /\ r.buffer = reader[g].buffer /\ r.signals = <<>>
      /\ r.pending = <<>> \/ (r.pending = reader[g].pending /\ ~CanSettle(g))
  BY <1>2, SettledMoves
<1>5. next \in {"blocked", "read", "holding"} /\ (next = "read" => r.pending = <<>>)
  BY DEF AfterSettling
<1> HIDE DEF r
<1> DEFINE q == [r EXCEPT !.at = next]
<1>6. q.at = next /\ q.pending = r.pending /\ q.buffer = r.buffer /\ q.signals = <<>>
  BY <1>4
<1>7. Local(g, q)
  BY <1>3
<1> HIDE DEF q
<1>8. /\ UNCHANGED <<held, table, next_generation, dialled, dead, announcing, load, attach, detach, watch, bound,
                     overlaps, peer, astray>>
      /\ reader'[g] = q
      /\ \A h \in Generations : h # g => reader'[h] = reader[h]
  BY <1>7, LocalMoves
<1>9. reader[g].at \in {"pass", "holding", "blocked", "read"}
  BY DEF Pass, StartsPass
<1>10. q.pending = <<>> \/ (q.pending = reader[g].pending /\ q.at # "read" /\ ~Routed(HeldFor(reader[g])))
  BY <1>4, <1>5, <1>6 DEF CanSettle
<1> QED
  BY <1>4, <1>5, <1>6, <1>8, <1>9, <1>10 DEF Moves, ReaderSteps

LEMMA ResettleMoves ==
  ASSUME LineInv, ReadersShaped(reader), NEW g \in Generations, Resettle(g)
  PROVE  Moves(g)
<1> DEFINE r == IF CanSettle(g) THEN Settled(reader[g]) ELSE reader[g]
           q == NextFrame(r)
<1>1. DOMAIN reader[g] = {"at", "signals", "ledger", "pending", "buffer", "shown"}
  BY DEF LineInv, InLine
<1>2. /\ DOMAIN r = {"at", "signals", "ledger", "pending", "buffer", "shown"}
      /\ r.buffer = reader[g].buffer /\ r.signals = reader[g].signals
      /\ r.pending \in {<<>>, reader[g].pending}
  BY <1>1, SettledMoves
<1>3. Local(g, q) /\ reader[g].at = "resettle"
  BY DEF Resettle
<1> HIDE DEF r
<1>4. /\ q.at \in {"pass", "route"} /\ q.pending = r.pending /\ q.buffer = r.buffer
      /\ q.signals = r.signals
  BY <1>2, NextFrameMoves
<1> HIDE DEF q
<1>5. /\ UNCHANGED <<held, table, next_generation, dialled, dead, announcing, load, attach, detach, watch, bound,
                     overlaps, peer, astray>>
      /\ reader'[g] = q
      /\ \A h \in Generations : h # g => reader'[h] = reader[h]
  BY <1>3, LocalMoves
<1> QED
  BY <1>2, <1>3, <1>4, <1>5 DEF Moves, ReaderSteps

LEMMA ReadFramesMoves ==
  ASSUME LineInv, ReadersShaped(reader), PeersShaped(peer), NEW g \in Generations, ReadFrames(g)
  PROVE  Moves(g)
<1>1. InLine(reader[g], peer[g])
  BY DEF LineInv
<1>2. PICK n \in 1..Len(peer[g].wire) :
        /\ reader' = [reader EXCEPT ![g] = [reader[g] EXCEPT !.at = "route", !.buffer = SubSeq(peer[g].wire, 1, n)]]
        /\ peer' = [peer EXCEPT ![g].wire = SubSeq(peer[g].wire, n + 1, Len(peer[g].wire))]
  BY DEF ReadFrames, Becomes
<1>3. /\ UNCHANGED <<held, table, next_generation, dialled, dead, announcing, load, attach, detach, watch, bound,
                     overlaps>>
      /\ reader[g].at = "read"
  BY DEF ReadFrames, stateVars, commandVars, historyVars
<1>4. /\ \A h \in Generations : h # g => reader'[h] = reader[h] /\ peer'[h] = peer[h]
      /\ reader'[g] = [reader[g] EXCEPT !.at = "route", !.buffer = SubSeq(peer[g].wire, 1, n)]
      /\ peer'[g] = [peer[g] EXCEPT !.wire = SubSeq(peer[g].wire, n + 1, Len(peer[g].wire))]
  BY <1>2 DEF ReadersShaped, PeersShaped
<1>5. /\ reader'[g].at = "route" /\ reader'[g].buffer = SubSeq(peer[g].wire, 1, n)
      /\ reader'[g].pending = reader[g].pending /\ reader'[g].signals = reader[g].signals
  BY <1>1, <1>4 DEF InLine
<1>6. /\ peer'[g].wire = SubSeq(peer[g].wire, n + 1, Len(peer[g].wire))
      /\ peer'[g].last = peer[g].last /\ peer'[g].feeds = peer[g].feeds /\ peer'[g].closed = peer[g].closed
  BY <1>1, <1>4 DEF InLine
<1> QED
  BY <1>3, <1>4, <1>5, <1>6 DEF Moves, ReaderSteps

LEMMA RoutedMoves ==
  ASSUME LineInv, ReadersShaped(reader), NEW g \in Generations,
         HoldMore(g) \/ Deliver(g) \/ Discard(g) \/ Hold(g)
  PROVE  Moves(g)
<1>1. /\ UNCHANGED <<held, table, next_generation, dialled, dead, announcing, load, attach, detach, watch, bound,
                     overlaps, peer>>
      /\ reader[g].at = "route"
  BY DEF HoldMore, Deliver, Discard, Hold, Routing, Unattached, Local, stateVars, commandVars, daemonVars, historyVars
<1>2. InLine(reader[g], peer[g])
  BY DEF LineInv
<1>3. reader[g].buffer # <<>>
  BY <1>1, <1>2 DEF InLine
<1>4. PICK q : /\ reader' = [reader EXCEPT ![g] = q]
               /\ q.at \in {"pass", "route", "resettle"} /\ q.buffer = Tail(reader[g].buffer)
               /\ q.signals = reader[g].signals
               /\ \/ q.pending = reader[g].pending
                  \/ q.pending = Append(reader[g].pending, Front(g)) /\ HeldFor(reader[g]) = Front(g).stream
                  \/ q.pending = <<Front(g)>> /\ reader[g].pending = <<>> /\ Front(g).stream = table.next
  <2> HIDE DEF Front, Past, HeldFor
  <2>1. /\ DOMAIN Past(g) = {"at", "signals", "ledger", "pending", "buffer", "shown"}
        /\ Past(g).at \in {"pass", "route"}
        /\ Past(g).pending = reader[g].pending /\ Past(g).buffer = Tail(reader[g].buffer)
        /\ Past(g).signals = reader[g].signals
    BY PastMoves
  <2>2. CASE HoldMore(g)
    <3> DEFINE q == [Past(g) EXCEPT !.pending = Append(reader[g].pending, Front(g))]
    <3>1. reader' = [reader EXCEPT ![g] = q] /\ HeldFor(reader[g]) = Front(g).stream
      BY <2>1, <2>2 DEF HoldMore, Held, Local, Becomes
    <3>2. /\ q.at = Past(g).at /\ q.buffer = Past(g).buffer /\ q.signals = Past(g).signals
          /\ q.pending = Append(reader[g].pending, Front(g))
      BY <2>1
    <3> HIDE DEF q
    <3> QED
      BY <2>1, <3>1, <3>2
  <2>3. CASE Deliver(g)
    <3> DEFINE q == Shown(Past(g), <<Front(g)>>)
    <3>1. reader' = [reader EXCEPT ![g] = q]
      BY <2>3 DEF Deliver, Local, Becomes
    <3>2. /\ q.at = Past(g).at /\ q.buffer = Past(g).buffer /\ q.signals = Past(g).signals
          /\ q.pending = Past(g).pending
      BY <2>1 DEF Shown
    <3> HIDE DEF q
    <3> QED
      BY <2>1, <3>1, <3>2
  <2>4. CASE Discard(g)
    <3>1. reader' = [reader EXCEPT ![g] = Past(g)]
      BY <2>4 DEF Discard, Becomes
    <3> QED
      BY <2>1, <3>1
  <2>5. CASE Hold(g)
    <3> DEFINE q == [Past(g) EXCEPT !.pending = <<Front(g)>>, !.at = "resettle"]
    <3>1. /\ reader' = [reader EXCEPT ![g] = q]
          /\ reader[g].pending = <<>> /\ Front(g).stream = table.next
      BY <2>5 DEF Hold, Local, Becomes
    <3>2. /\ q.at = "resettle" /\ q.buffer = Past(g).buffer /\ q.signals = Past(g).signals
          /\ q.pending = <<Front(g)>>
      BY <2>1
    <3> HIDE DEF q
    <3> QED
      BY <2>1, <3>1, <3>2
  <2> QED
    BY <2>2, <2>3, <2>4, <2>5
<1>5. reader'[g] = q /\ \A h \in Generations : h # g => reader'[h] = reader[h]
  BY <1>4 DEF ReadersShaped
<1> QED
  BY <1>1, <1>3, <1>4, <1>5 DEF Moves, ReaderSteps

LEMMA ReaderMoves ==
  ASSUME WindowInv, LineInv, NEW g \in Generations, ReaderStep(g), ~OnClosed(g)
  PROVE  Moves(g)
<1>0. ReadersShaped(reader) /\ PeersShaped(peer)
  BY DEF WindowInv, WindowShaped
<1>1. \/ Pass(g) \/ Resettle(g) \/ ReadFrames(g)
      \/ HoldMore(g) \/ Deliver(g) \/ Discard(g) \/ Hold(g)
      \/ Ends(g) /\ reader[g].at \notin {"none", "over", "ended"}
  BY DEF ReaderStep, TakeStop, GiveUp, ReadEnd, ReaderFails, DropConnection, StartsPass, Unattached, Routing
<1> QED
  BY <1>0, <1>1, PassMoves, ResettleMoves, ReadFramesMoves, RoutedMoves, EndsMoves

-----------------------------------------------------------------------------
\* What is counted stays right.

LEMMA CommandsFinite == IsFiniteSet(Loads) /\ IsFiniteSet(Attaches) /\ Cardinality(Attaches) \in Nat
BY WindowAssumption, FS_CardinalityType

\* Nothing is dialled, claimed or answered, and no connection but a closed one
\* forgets how many ids it gave out.
LEMMA CountedKeeps ==
  ASSUME Counted, WindowShaped,
         Dialling \subseteq Dialling', Claiming \subseteq Claiming', Served \subseteq Served',
         UNCHANGED <<dialled, next_generation, dead>>,
         \/ held' = held \/ held' = Nobody
         \/ held.control # NoControl /\ held'.control = held.control,
         \A g \in Generations : peer'[g].last \in {peer[g].last, 0}
  PROVE  Counted'
<1>1. /\ Dialling' \subseteq Loads /\ Claiming' \subseteq Loads /\ Served' \subseteq Attaches
  BY DEF Dialling, Claiming, Served
<1>2. /\ Cardinality(Dialling) \in Nat /\ Cardinality(Dialling') \in Nat
      /\ Cardinality(Dialling) <= Cardinality(Dialling')
      /\ Cardinality(Claiming) \in Nat /\ Cardinality(Claiming') \in Nat
      /\ Cardinality(Claiming) <= Cardinality(Claiming')
      /\ Cardinality(Served) \in Nat /\ Cardinality(Served') \in Nat
      /\ Cardinality(Served) <= Cardinality(Served')
  BY <1>1, CommandsFinite, Counts
<1>3. dialled \in Nat /\ next_generation \in Nat /\ held.control \in Nat
  BY DEF WindowShaped
<1>4. /\ held'.control = held.control \/ held'.control = 0
      /\ held'.control = NoControl => held'.stream = NoStream /\ held'.generation = 0
  BY DEF Counted, Nobody, NoControl, NoStream
<1>5. dialled' <= Cardinality(Dialling') /\ next_generation' <= Cardinality(Claiming')
  BY <1>2, <1>3 DEF Counted
<1>6. held'.control <= dialled' /\ dead' \subseteq 1..dialled'
  BY <1>3, <1>4 DEF Counted
<1>7. \A g \in Generations : peer'[g].last \in Nat /\ peer'[g].last <= Cardinality(Served')
  BY <1>2 DEF Counted
<1> QED
  BY <1>4, <1>5, <1>6, <1>7 DEF Counted

LEMMA SignalsTyped == Stop \in Signals /\ Attached \in Signals /\ \A i \in Ids \cup {NoId} : Detach(i) \in Signals
BY DEF Stop, Attached, Detach, Signals

\* What everybody but the reader itself may do to it.
Same(r, q) ==
  /\ q.at = r.at \/ (r.at = "over" /\ q.at = "ended")
  /\ q.pending = r.pending /\ q.buffer = r.buffer
  /\ Range(q.signals) \subseteq Range(r.signals) \cup Signals
  /\ r.signals # <<>> => q.signals # <<>>

LEMMA SendSame ==
  ASSUME LineInv, ReadersShaped(reader), NEW k, NEW signal \in Signals, reader' = Send(reader, k, signal)
  PROVE  \A g \in Generations : Same(reader[g], reader'[g])
<1>1. \A g \in Generations :
        /\ reader'[g].at = reader[g].at
        /\ Range(reader'[g].signals) \subseteq Range(reader[g].signals) \cup {signal}
        /\ reader[g].signals # <<>> => reader'[g].signals # <<>>
  BY SendEffect, SendSignals
<1>2. \A g \in Generations : AlikeReader(reader[g], reader'[g])
  BY SendAlike
<1> QED
  BY <1>1, <1>2 DEF Same, AlikeReader

LEMMA TakeSame ==
  ASSUME LineInv, ReadersShaped(reader), NEW live \in BOOLEAN, Take(live, reader)
  PROVE  held' \in {held, Nobody} /\ \A g \in Generations : Same(reader[g], reader'[g])
<1>1. CASE live
  BY <1>1, SendSame, SignalsTyped DEF Take
<1>2. CASE ~live
  BY <1>2 DEF Take, Same
<1> QED
  BY <1>1, <1>2

LEMMA ClosedSame ==
  ASSUME LineInv, ReadersShaped(reader), NEW g \in Generations, OnClosed(g)
  PROVE  held' \in {held, Nobody} /\ \A h \in Generations : Same(reader[h], reader'[h])
<1> DEFINE readers == [reader EXCEPT ![g].at = "ended"]
           live    == held.control # NoControl /\ held.generation = g
<1>1. reader[g].at = "over" /\ Take(live, readers)
  BY DEF OnClosed, DisconnectGeneration
<1>2. DOMAIN reader[g] = {"at", "signals", "ledger", "pending", "buffer", "shown"}
  BY DEF LineInv, InLine
<1>3. /\ DOMAIN readers = Generations /\ \A h \in Generations : h # g => readers[h] = reader[h]
      /\ DOMAIN readers[g] = DOMAIN reader[g]
      /\ readers[g].at = "ended" /\ readers[g].signals = reader[g].signals
      /\ readers[g].pending = reader[g].pending /\ readers[g].buffer = reader[g].buffer
  BY <1>2 DEF ReadersShaped
<1> HIDE DEF readers
<1>4. ReadersShaped(readers)
  BY <1>3 DEF ReadersShaped
<1>5. CASE live
  <2>1. held' = Nobody /\ reader' = Send(readers, held.stream, Stop)
    BY <1>1, <1>5 DEF Take
  <2>2. \A h \in Generations :
          /\ reader'[h].at = readers[h].at
          /\ Range(reader'[h].signals) \subseteq Range(readers[h].signals) \cup {Stop}
          /\ readers[h].signals # <<>> => reader'[h].signals # <<>>
    BY <1>4, <2>1, SendEffect, SendSignals
  <2>3. \A h \in Generations : reader'[h].pending = readers[h].pending /\ reader'[h].buffer = readers[h].buffer
    BY <1>4, <2>1, SendAlike DEF AlikeReader
  <2> QED
    BY <1>1, <1>3, <2>1, <2>2, <2>3, SignalsTyped DEF Same
<1>6. CASE ~live
  <2>1. held' = held /\ reader' = readers
    BY <1>1, <1>6 DEF Take
  <2> QED
    BY <1>1, <1>3, <2>1 DEF Same
<1> QED
  BY <1>5, <1>6

\* Nobody else does more.
LEMMA ReadersSame ==
  ASSUME WindowInv, LineInv, AsksShaped,
         \/ \E l \in Loads : ConnectHeld(l) \/ Connect(l) \/ (LoadStep(l) /\ ~SpawnReader(l))
         \/ \E t \in Attaches : AttachKnown(t) \/ AttachUnknown(t) \/ AttachStep(t)
         \/ \E t \in Detaches : ForgetDetach(t) \/ SignalDetach(t) \/ ServeDetach(t) \/ FailDetach(t)
         \/ \E w \in Watches : Watch(w)
         \/ \E g \in Generations : OnClosed(g) \/ Unbind(g)
         \/ \E g \in Generations, i \in Ids : SendFrame(g, i)
         \/ \E c \in 1..Cardinality(Loads) : ControlFails(c)
         \/ Announce \/ UNCHANGED vars
  PROVE  \A g \in Generations : Same(reader[g], reader'[g])
<1>0. ReadersShaped(reader)
  BY DEF WindowInv, WindowShaped
<1>1. ASSUME reader' = reader
      PROVE  \A g \in Generations : Same(reader[g], reader'[g])
  BY <1>1 DEF Same
<1>2. CASE \E l \in Loads : ConnectHeld(l) \/ Connect(l) \/ (LoadStep(l) /\ ~SpawnReader(l))
  <2>1. PICK l \in Loads : ConnectHeld(l) \/ Connect(l) \/ (LoadStep(l) /\ ~SpawnReader(l))
    BY <1>2
  <2>2. reader' = reader \/ \E k : reader' = Send(reader, k, Stop)
    BY <2>1 DEF ConnectHeld, Connect, LoadStep, Supersede, SupersedeNothing, AnnounceSuperseded, Handshake,
                HandshakeFails, InstallStream, InstallNothing
  <2> QED
    BY <1>0, <1>1, <2>2, SendSame, SignalsTyped
<1>3. CASE \E t \in Attaches : AttachKnown(t) \/ AttachUnknown(t) \/ AttachStep(t)
  <2>1. PICK t \in Attaches : AttachKnown(t) \/ AttachUnknown(t) \/ AttachStep(t)
    BY <1>3
  <2>2. \/ reader' = reader \/ \E k : reader' = Send(reader, k, Attached)
        \/ Take(held.control = attach[t].control, reader)
    BY <2>1 DEF AttachKnown, AttachUnknown, AttachStep, AnswerAttach, RefuseAttach, FailAttach, RememberAttach,
                SignalAttached, DisconnectControl
  <2> QED
    BY <1>0, <1>1, <2>2, SendSame, SignalsTyped, TakeSame
<1>4. CASE \E t \in Detaches : ForgetDetach(t) \/ SignalDetach(t) \/ ServeDetach(t) \/ FailDetach(t)
  <2>1. PICK t \in Detaches : ForgetDetach(t) \/ SignalDetach(t) \/ ServeDetach(t) \/ FailDetach(t)
    BY <1>4
  <2>2. \/ reader' = reader \/ \E k : reader' = Send(reader, k, Detach(detach[t].stream))
        \/ Take(held.control = detach[t].control, reader)
    BY <2>1 DEF ForgetDetach, SignalDetach, ServeDetach, FailDetach, DisconnectControl
  <2>3. Detach(detach[t].stream) \in Signals
    BY SignalsTyped DEF AsksShaped
  <2> HIDE DEF Detach
  <2> QED
    BY <1>0, <1>1, <2>2, <2>3, SendSame, TakeSame
<1>5. CASE \E g \in Generations : OnClosed(g)
  BY <1>0, <1>5, ClosedSame
<1>6. CASE \E c \in 1..Cardinality(Loads) : ControlFails(c)
  <2>1. PICK c : Take(held.control = c, reader)
    BY <1>6 DEF ControlFails, DisconnectControl
  <2> QED
    BY <1>0, <2>1, TakeSame
<1>7. CASE \/ \E w \in Watches : Watch(w)
           \/ \E g \in Generations : Unbind(g)
           \/ \E g \in Generations, i \in Ids : SendFrame(g, i)
           \/ Announce \/ UNCHANGED vars
  BY <1>1, <1>7 DEF Watch, Unbind, SendFrame, Announce, vars
<1> QED
  BY <1>2, <1>3, <1>4, <1>5, <1>6, <1>7

\* Readers stay typed under every step.
LEMMA ReadersTypedKeeps ==
  ASSUME ReadersTyped, \A g \in Generations : Same(reader[g], reader'[g])
  PROVE  ReadersTyped'
BY DEF ReadersTyped, Same, ReaderSteps

\* Steps that leave the commands and the table alone.
LEMMA CalmKeeps ==
  ASSUME CountInv, WindowShaped, ReadersTyped', dead' \subseteq 1..dialled,
         UNCHANGED <<table, load, attach, detach, overlaps, dialled, next_generation>>,
         held' \in {held, Nobody},
         \A g \in Generations : peer'[g].last \in {peer[g].last, 0}
  PROVE  CountInv'
<1>1. Dialling' = Dialling /\ Claiming' = Claiming /\ Served' = Served
  BY DEF Dialling, Claiming, Served
<1>2. Cardinality(Dialling') = Cardinality(Dialling) /\ Cardinality(Claiming') = Cardinality(Claiming)
      /\ Cardinality(Served') = Cardinality(Served)
  BY <1>1
<1>3. Cardinality(Served) \in Nat
  BY CommandsFinite, Counts DEF Served
<1>4. dialled \in Nat
  BY DEF WindowShaped
<1>5. Counted'
  BY <1>2, <1>3, <1>4 DEF CountInv, Counted, Nobody, NoControl, NoStream
<1>6. TableShaped(table)' /\ AsksShaped' /\ Apart'
  BY DEF CountInv, AsksShaped, Apart, LoadRuns, AttachRuns, DetachRuns
<1> QED
  BY <1>5, <1>6 DEF CountInv

LEMMA ClosedLast == \A o : Closed(o).last = 0
BY DEF Closed, Unopened

LEMMA CalmCounts ==
  ASSUME WindowInv, LineInv, CountInv,
         \/ \E w \in Watches : Watch(w)
         \/ \E g \in Generations : ReaderStep(g) \/ Unbind(g)
         \/ \E g \in Generations, i \in Ids : SendFrame(g, i)
         \/ \E c \in 1..Cardinality(Loads) : ControlFails(c)
         \/ Announce \/ UNCHANGED vars
  PROVE  CountInv'
<1>0. WindowShaped /\ ReadersShaped(reader) /\ PeersShaped(peer) /\ Counted /\ ReadersTyped /\ AsksShaped
      /\ dead \subseteq 1..dialled
  BY DEF WindowInv, WindowShaped, CountInv, Counted
<1>1. ASSUME NEW g \in Generations, ReaderStep(g), ~OnClosed(g)
      PROVE  CountInv'
  <2>1. Moves(g)
    BY <1>1, ReaderMoves
  <2>2. \A h \in Generations : peer'[h].last = peer[h].last
    BY <2>1 DEF Moves
  <2>3. ReadersTyped'
    <3>1. Range(<<>>) \subseteq Signals
      BY DEF Range
    <3> QED
      BY <1>0, <2>1, <3>1 DEF ReadersTyped, Moves
  <2> QED
    BY <1>0, <2>1, <2>2, <2>3, CalmKeeps DEF Moves
<1>2. ASSUME NEW g \in Generations, Unbind(g)
      PROVE  CountInv'
  <2>1. \A h \in Generations : peer'[h].last \in {peer[h].last, 0}
    <3>1. peer' = [peer EXCEPT ![g] = Closed(@)]
      BY <1>2 DEF Unbind
    <3> QED
      BY <1>0, <3>1, ClosedLast DEF PeersShaped
  <2>2. UNCHANGED <<held, table, load, attach, detach, overlaps, dialled, next_generation, dead, reader>>
    BY <1>2 DEF Unbind, stateVars, commandVars, historyVars
  <2>3. ReadersTyped'
    BY <1>0, <2>2 DEF ReadersTyped
  <2> QED
    BY <1>0, <2>1, <2>2, <2>3, CalmKeeps
<1>3. ASSUME NEW g \in Generations, NEW i \in Ids, SendFrame(g, i)
      PROVE  CountInv'
  <2>1. \A h \in Generations : peer'[h].last = peer[h].last
    <3>1. PICK n, w : peer' = [peer EXCEPT ![g].sent[i] = n, ![g].wire = w]
      BY <1>3 DEF SendFrame
    <3>2. DOMAIN peer[g] = {"last", "feeds", "sent", "wire", "closed"}
      BY DEF LineInv, InLine
    <3> QED
      BY <1>0, <3>1, <3>2 DEF PeersShaped
  <2>2. UNCHANGED <<held, table, load, attach, detach, overlaps, dialled, next_generation, dead, reader>>
    BY <1>3 DEF SendFrame, stateVars, commandVars, historyVars
  <2>3. ReadersTyped'
    BY <1>0, <2>2 DEF ReadersTyped
  <2> QED
    BY <1>0, <2>1, <2>2, <2>3, CalmKeeps
<1>4. ASSUME NEW c \in 1..Cardinality(Loads), ControlFails(c)
      PROVE  CountInv'
  <2>1. \A g \in Generations : Same(reader[g], reader'[g])
    BY <1>0, <1>4, ReadersSame
  <2>2. held' \in {held, Nobody}
    BY <1>4 DEF ControlFails, DisconnectControl, Take
  <2>3. dead' \subseteq 1..dialled
    <3>1. c \in 1..dialled /\ dead' = dead \cup {c}
      BY <1>0, <1>4 DEF ControlFails, Counted, WindowShaped
    <3> QED
      BY <1>0, <3>1
  <2>4. UNCHANGED <<table, load, attach, detach, overlaps, dialled, next_generation, peer>>
    BY <1>4 DEF ControlFails, commandVars, daemonVars, historyVars
  <2> QED
    BY <1>0, <2>1, <2>2, <2>3, <2>4, ReadersTypedKeeps, CalmKeeps
<1>5. ASSUME NEW g \in Generations, OnClosed(g)
      PROVE  CountInv'
  <2>1. \A h \in Generations : Same(reader[h], reader'[h])
    BY <1>0, <1>5, ReadersSame
  <2>2. held' \in {held, Nobody}
    BY <1>5 DEF OnClosed, DisconnectGeneration, Take
  <2>3. UNCHANGED <<table, load, attach, detach, overlaps, dialled, next_generation, dead, peer>>
    BY <1>5 DEF OnClosed, commandVars, daemonVars, historyVars
  <2> QED
    BY <1>0, <2>1, <2>2, <2>3, ReadersTypedKeeps, CalmKeeps
<1>6. ASSUME (\E w \in Watches : Watch(w)) \/ Announce \/ UNCHANGED vars
      PROVE  CountInv'
  <2>1. UNCHANGED <<held, table, load, attach, detach, overlaps, dialled, next_generation, dead, peer, reader>>
    BY <1>6 DEF Watch, Announce, vars, stateVars, commandVars, daemonVars, historyVars
  <2>2. ReadersTyped'
    BY <1>0, <2>1 DEF ReadersTyped
  <2> QED
    BY <1>0, <2>1, <2>2, CalmKeeps
<1> QED
  BY <1>1, <1>2, <1>3, <1>4, <1>5, <1>6

\* A command takes no more part than it did: what the history says stands.
LEMMA ApartKeeps ==
  ASSUME Apart, overlaps \subseteq overlaps', LoadRuns' \subseteq LoadRuns,
         AttachRuns' \subseteq AttachRuns, DetachRuns' \subseteq DetachRuns
  PROVE  Apart'
BY DEF Apart

LEMMA LoadsCount ==
  ASSUME WindowInv, LineInv, CountInv, NEW l \in Loads, ConnectHeld(l) \/ Connect(l) \/ LoadStep(l)
  PROVE  CountInv'
<1>0. /\ WindowShaped /\ ReadersShaped(reader) /\ PeersShaped(peer) /\ LoadsTyped /\ LoadsInOrder
      /\ Counted /\ ReadersTyped /\ AsksShaped /\ Apart /\ TableShaped(table)
  BY DEF WindowInv, WindowShaped, CountInv
<1>1. UNCHANGED <<attach, detach, dead>>
  BY DEF ConnectHeld, Connect, LoadStep, Supersede, SupersedeNothing, AnnounceSuperseded, Handshake,
         HandshakeFails, SpawnReader, InstallStream, InstallNothing, LoadFails, stateVars
<1>2. Served' = Served /\ AsksShaped' /\ AttachRuns' = AttachRuns /\ DetachRuns' = DetachRuns
  BY <1>0, <1>1 DEF Served, AsksShaped, AttachRuns, DetachRuns
<1>3. /\ \A k \in Loads : k # l => load'[k] = load[k]
      /\ load'[l].at # "idle"
      /\ load[l].at \notin {"idle", "connected"} => load'[l].at \notin {"idle", "connected"}
      /\ ~(ConnectHeld(l) \/ Connect(l)) => load[l].at \notin {"idle", "done", "failed"}
  BY <1>0 DEF ConnectHeld, Connect, LoadStep, Supersede, SupersedeNothing, AnnounceSuperseded, Handshake,
         HandshakeFails, SpawnReader, InstallStream, InstallNothing, LoadFails, Load, Returns, LoadAt, LoadsTyped
<1>4. Dialling \subseteq Dialling' /\ Claiming \subseteq Claiming'
  BY <1>3 DEF Dialling, Claiming
<1>5. Apart'
  <2>1. CASE ConnectHeld(l) \/ Connect(l)
    <3>1. LoadRuns = {} /\ overlaps' = overlaps \cup When(AttachRuns \cup DetachRuns # {}, "commands")
      BY <2>1 DEF ConnectHeld, Connect, Starts, Overlap
    <3>2. overlaps \subseteq overlaps' /\ (AttachRuns \cup DetachRuns # {} => "commands" \in overlaps')
      BY <3>1 DEF When
    <3> QED
      BY <1>0, <1>2, <3>2 DEF Apart
  <2>2. CASE LoadStep(l) /\ ~(ConnectHeld(l) \/ Connect(l))
    <3>1. overlaps' = overlaps
      BY <2>2 DEF LoadStep, Supersede, SupersedeNothing, AnnounceSuperseded, Handshake,
         HandshakeFails, SpawnReader, InstallStream, InstallNothing, LoadFails, historyVars
    <3>2. LoadRuns' \subseteq LoadRuns
      BY <1>3, <2>2 DEF LoadRuns
    <3> QED
      BY <1>0, <1>2, <3>1, <3>2, ApartKeeps
  <2> QED
    BY <2>1, <2>2
<1>6. TableShaped(table)'
  BY <1>0, NewTableShaped DEF ConnectHeld, Connect, LoadStep, Supersede, SupersedeNothing, AnnounceSuperseded,
         Handshake, HandshakeFails, SpawnReader, InstallStream, InstallNothing, LoadFails, stateVars
<1>7. ReadersTyped'
  <2>1. CASE SpawnReader(l)
    <3>1. reader' = [reader EXCEPT ![load[l].generation].at = "pass"]
      BY <2>1 DEF SpawnReader
    <3>2. \A g \in Generations : DOMAIN reader[g] = {"at", "signals", "ledger", "pending", "buffer", "shown"}
      BY DEF LineInv, InLine
    <3>3. \A g \in Generations : reader'[g].at \in {reader[g].at, "pass"} /\ reader'[g].signals = reader[g].signals
      BY <1>0, <3>1, <3>2 DEF ReadersShaped
    <3> QED
      BY <1>0, <3>3 DEF ReadersTyped, ReaderSteps
  <2>2. CASE ~SpawnReader(l)
    <3>1. \A g \in Generations : Same(reader[g], reader'[g])
      BY <1>0, <2>2, ReadersSame
    <3> QED
      BY <1>0, <3>1, ReadersTypedKeeps
  <2> QED
    BY <2>1, <2>2
<1>8. \A g \in Generations : peer'[g].last \in {peer[g].last, 0}
  <2>1. peer' = peer \/ peer' = [peer EXCEPT ![bound] = Closed(@)]
    BY DEF ConnectHeld, Connect, LoadStep, Supersede, SupersedeNothing, AnnounceSuperseded, Handshake,
         HandshakeFails, SpawnReader, InstallStream, InstallNothing, LoadFails, daemonVars, Replaced
  <2> QED
    BY <1>0, <2>1, ClosedLast DEF PeersShaped
<1>9. Counted'
  <2>1. CASE Connect(l)
    <3>1. /\ dialled' = dialled + 1 /\ next_generation' = next_generation
          /\ held'.control = dialled' /\ load[l].at = "idle" /\ peer' = peer
      BY <2>1 DEF Connect, Load, Nobody, daemonVars
    <3>2. l \in Dialling' /\ l \notin Dialling
      BY <1>3, <3>1 DEF Dialling
    <3>3. /\ Cardinality(Dialling) \in Nat /\ Cardinality(Dialling') \in Nat
          /\ Cardinality(Dialling) + 1 <= Cardinality(Dialling')
          /\ Cardinality(Claiming) \in Nat /\ Cardinality(Claiming') \in Nat
          /\ Cardinality(Claiming) <= Cardinality(Claiming')
      BY <1>4, <3>2, CommandsFinite, Counts DEF Dialling, Claiming
    <3>4. dialled \in Nat /\ next_generation \in Nat
      BY <1>0 DEF WindowShaped
    <3> QED
      BY <1>0, <1>1, <1>2, <3>1, <3>3, <3>4 DEF Counted, NoControl
  <2>2. CASE Supersede(l)
    <3>1. /\ dialled' = dialled /\ next_generation' = next_generation + 1 /\ held.control # NoControl
          /\ load[l].at = "connected" /\ peer' = peer /\ load'[l].at = "claimed"
      BY <1>0, <2>2 DEF Supersede, LoadsTyped, daemonVars
    <3>2. held'.control = held.control
      BY <1>0, <2>2 DEF Supersede, WindowShaped
    <3>3. l \in Claiming' /\ l \notin Claiming
      BY <3>1 DEF Claiming
    <3>4. /\ Cardinality(Dialling) \in Nat /\ Cardinality(Dialling') \in Nat
          /\ Cardinality(Dialling) <= Cardinality(Dialling')
          /\ Cardinality(Claiming) \in Nat /\ Cardinality(Claiming') \in Nat
          /\ Cardinality(Claiming) + 1 <= Cardinality(Claiming')
      BY <1>4, <3>3, CommandsFinite, Counts DEF Dialling, Claiming
    <3>5. dialled \in Nat /\ next_generation \in Nat
      BY <1>0 DEF WindowShaped
    <3> QED
      BY <1>0, <1>1, <1>2, <3>1, <3>2, <3>4, <3>5 DEF Counted
  <2>3. CASE ~Connect(l) /\ ~Supersede(l)
    <3>1. UNCHANGED <<dialled, next_generation>>
      BY <2>3 DEF ConnectHeld, LoadStep, SupersedeNothing, AnnounceSuperseded, Handshake,
         HandshakeFails, SpawnReader, InstallStream, InstallNothing, LoadFails, stateVars
    <3>2. held' = held \/ (held.control # NoControl /\ held'.control = held.control)
      BY <1>0, <2>3 DEF ConnectHeld, LoadStep, SupersedeNothing, AnnounceSuperseded, Handshake,
         HandshakeFails, SpawnReader, InstallStream, InstallNothing, LoadFails, stateVars, WindowShaped
    <3> QED
      BY <1>0, <1>1, <1>2, <1>4, <1>8, <3>1, <3>2, CountedKeeps
  <2> QED
    BY <2>1, <2>2, <2>3
<1> QED
  BY <1>2, <1>5, <1>6, <1>7, <1>9 DEF CountInv

LEMMA IdsBound ==
  ASSUME NEW n \in Nat, n + 1 <= Cardinality(Attaches)
  PROVE  n + 1 \in Ids /\ n + 1 # NoId
BY CommandsFinite DEF Ids, NoId

LEMMA HandlesOf == \A t \in Attaches \cup Detaches : HandleOf[t] \in Handles
BY DEF Handles

\* The other steps of an attach change nothing that is counted.
LEMMA AnswerCounts ==
  ASSUME WindowInv, LineInv, CountInv, NEW t \in Attaches, AnswerAttach(t)
  PROVE  /\ peer[bound].last + 1 \in Ids /\ bound \in Generations /\ bound \in Nat
         /\ attach[t].at = "sent" /\ t \in AttachRuns /\ AttachRuns' = AttachRuns
         /\ attach'[t].at = "answered" /\ attach'[t].stream = peer[bound].last + 1 /\ attach'[t].on = bound
         /\ \A u \in Attaches : u # t => attach'[u] = attach[u]
         /\ peer'[bound].last = peer[bound].last + 1
         /\ DOMAIN peer'[bound].feeds = DOMAIN peer[bound].feeds \cup {peer[bound].last + 1}
         /\ peer'[bound].feeds[peer[bound].last + 1] = HandleOf[t]
         /\ \A j \in DOMAIN peer[bound].feeds : j # peer[bound].last + 1 => peer'[bound].feeds[j] = peer[bound].feeds[j]
         /\ peer'[bound].closed = peer[bound].closed /\ peer'[bound].wire = peer[bound].wire
         /\ \A g \in Generations : g # bound => peer'[g] = peer[g]
         /\ UNCHANGED <<stateVars, load, detach, watch, reader, bound, historyVars>>
         /\ CountInv'
<1> DEFINE b == bound
           i == peer[b].last + 1
<1>0. /\ WindowShaped /\ PeersShaped(peer) /\ LoadsInOrder
      /\ Counted /\ ReadersTyped /\ AsksShaped /\ Apart /\ TableShaped(table)
  BY DEF WindowInv, WindowShaped, CountInv
<1>1. b \in Generations /\ b \in Nat
  <2>1. b \in Nat /\ b # 0 /\ b <= next_generation /\ next_generation \in Nat
    BY <1>0 DEF AnswerAttach, WindowShaped, LoadsInOrder
  <2>2. next_generation <= Cardinality(Loads) /\ Cardinality(Loads) \in Nat
    <3>1. Cardinality(Claiming) <= Cardinality(Loads) /\ Cardinality(Claiming) \in Nat /\ Cardinality(Loads) \in Nat
      BY CommandsFinite, GenerationsCount, Counts DEF Claiming
    <3> QED
      BY <1>0, <2>1, <3>1 DEF Counted
  <2> QED
    BY <2>1, <2>2 DEF Generations
<1>2. /\ attach[t].at = "sent"
      /\ attach' = [attach EXCEPT ![t].at = "answered", ![t].stream = i, ![t].on = b]
      /\ peer' = [peer EXCEPT ![b].last = i,
                    ![b].feeds = [j \in DOMAIN @ \cup {i} |-> IF j = i THEN HandleOf[t] ELSE @[j]]]
      /\ UNCHANGED <<stateVars, load, detach, watch, reader, bound, historyVars>>
  BY DEF AnswerAttach
<1>3. DOMAIN peer[b] = {"last", "feeds", "sent", "wire", "closed"}
  BY <1>1 DEF LineInv, InLine
<1>4. /\ peer'[b].last = i
      /\ peer'[b].feeds = [j \in DOMAIN peer[b].feeds \cup {i} |-> IF j = i THEN HandleOf[t] ELSE peer[b].feeds[j]]
      /\ peer'[b].closed = peer[b].closed /\ peer'[b].wire = peer[b].wire
      /\ \A g \in Generations : g # b => peer'[g] = peer[g]
  BY <1>0, <1>1, <1>2, <1>3 DEF PeersShaped
<1>5. peer[b].last \in Nat /\ peer[b].last <= Cardinality(Served)
  BY <1>0, <1>1 DEF Counted
<1> HIDE DEF i, b
<1>6. /\ attach'[t].at = "answered" /\ attach'[t].stream = i /\ attach'[t].on = b
      /\ attach'[t].control = attach[t].control
      /\ DOMAIN attach'[t] = {"at", "control", "stream", "on"}
      /\ \A u \in Attaches : u # t => attach'[u] = attach[u]
      /\ DOMAIN attach' = Attaches
  BY <1>0, <1>2 DEF AsksShaped
<1>7. t \notin Served /\ t \in Served' /\ Served \subseteq Served'
  BY <1>2, <1>6 DEF Served
<1>8. /\ Cardinality(Served) \in Nat /\ Cardinality(Served') \in Nat
      /\ Cardinality(Served) + 1 <= Cardinality(Served') /\ Cardinality(Served') <= Cardinality(Attaches)
  BY <1>7, CommandsFinite, Counts DEF Served
<1>9. i \in Ids
  BY <1>5, <1>8, CommandsFinite, IdsBound DEF i
<1>10. AttachRuns' = AttachRuns /\ t \in AttachRuns
  BY <1>2, <1>6 DEF AttachRuns
<1>11. AsksShaped'
  <2>1. attach' \in [Attaches -> [at : AskSteps, control : Nat, stream : Ids \cup {NoId}, on : Nat]]
    <3> DEFINE q == [attach[t] EXCEPT !.at = "answered", !.stream = i, !.on = b]
    <3>1. attach' = [attach EXCEPT ![t] = q]
      BY <1>2
    <3>2. q \in [at : AskSteps, control : Nat, stream : Ids \cup {NoId}, on : Nat]
      BY <1>0, <1>1, <1>9 DEF AsksShaped, AskSteps
    <3> HIDE DEF q
    <3> QED
      BY <1>0, <3>1, <3>2 DEF AsksShaped
  <2>2. \A u \in Attaches : attach'[u].at = "answered" => attach'[u].stream \in Ids
    BY <1>0, <1>6, <1>9 DEF AsksShaped
  <2> QED
    BY <1>0, <1>2, <2>1, <2>2 DEF AsksShaped
<1>12. Counted'
  <2>1. \A g \in Generations : peer'[g].last \in Nat /\ peer'[g].last <= Cardinality(Served')
    BY <1>0, <1>4, <1>5, <1>8 DEF Counted, i
  <2>2. Dialling' = Dialling /\ Claiming' = Claiming
    BY <1>2 DEF Dialling, Claiming
  <2> QED
    BY <1>0, <1>2, <2>1, <2>2 DEF Counted, stateVars
<1>13. ReadersTyped' /\ TableShaped(table)' /\ Apart'
  BY <1>0, <1>2, <1>10 DEF ReadersTyped, Apart, LoadRuns, DetachRuns, stateVars, historyVars
<1>14. CountInv'
  BY <1>11, <1>12, <1>13 DEF CountInv
<1>15. /\ DOMAIN peer'[b].feeds = DOMAIN peer[b].feeds \cup {i} /\ peer'[b].feeds[i] = HandleOf[t]
       /\ \A j \in DOMAIN peer[b].feeds : j # i => peer'[b].feeds[j] = peer[b].feeds[j]
  BY <1>4
<1> QED
  BY <1>1, <1>2, <1>4, <1>6, <1>9, <1>10, <1>14, <1>15 DEF i, b

\* What is recorded of an attach: an entry like any other.
LEMMA AttachesTyped ==
  ASSUME AsksShaped, held.control \in Nat, NEW t \in Attaches, NEW q, attach' = [attach EXCEPT ![t] = q],
         \/ q \in {AskAt("done"), AskAt("failed"), Asked(t)}
         \/ q = [attach[t] EXCEPT !.at = "recorded"]
  PROVE  /\ attach' \in [Attaches -> [at : AskSteps, control : Nat, stream : Ids \cup {NoId}, on : Nat]]
         /\ q.at \in {"done", "failed", "sent", "recorded"}
<1>1. q \in [at : AskSteps, control : Nat, stream : Ids \cup {NoId}, on : Nat]
  BY DEF AsksShaped, AskAt, Asked, AskSteps, NoId, NoControl
<1>2. q.at \in {"done", "failed", "sent", "recorded"}
  BY DEF AsksShaped, AskAt, Asked
<1> QED
  BY <1>1, <1>2 DEF AsksShaped

LEMMA AttachesCount ==
  ASSUME WindowInv, LineInv, CountInv, NEW t \in Attaches, AttachKnown(t) \/ AttachUnknown(t) \/ AttachStep(t)
  PROVE  CountInv'
<1>0. /\ WindowShaped /\ Counted /\ ReadersTyped /\ AsksShaped /\ Apart /\ TableShaped(table)
      /\ held.control \in Nat
  BY DEF WindowInv, WindowShaped, CountInv
<1>1. CASE AnswerAttach(t)
  BY <1>1, AnswerCounts
<1>2. CASE ~AnswerAttach(t)
  <2>1. UNCHANGED <<load, detach, dead, dialled, next_generation, peer>>
    BY <1>2 DEF AttachKnown, AttachUnknown, AttachStep, RefuseAttach, FailAttach, RememberAttach,
         SignalAttached, stateVars, daemonVars
  <2>2. PICK q : /\ attach' = [attach EXCEPT ![t] = q]
                 /\ \/ q = AskAt("done") /\ attach[t].at \in {"idle", "recorded"}
                    \/ q = AskAt("failed") /\ attach[t].at = "sent"
                    \/ q = Asked(t) /\ (attach[t].at = "sent" \/ (attach[t].at = "idle" /\ AttachUnknown(t)))
                    \/ q = [attach[t] EXCEPT !.at = "recorded"] /\ attach[t].at = "answered"
    BY <1>2 DEF AttachKnown, AttachUnknown, AttachStep, RefuseAttach, FailAttach, RememberAttach,
         SignalAttached, AskReturns, Ask
  <2>3. /\ attach' \in [Attaches -> [at : AskSteps, control : Nat, stream : Ids \cup {NoId}, on : Nat]]
        /\ q.at \in {"done", "failed", "sent", "recorded"}
    BY <1>0, <2>2, AttachesTyped
  <2>4. attach'[t] = q /\ \A u \in Attaches : u # t => attach'[u] = attach[u]
    BY <1>0, <2>2 DEF AsksShaped
  <2>16. /\ AskAt("done").at = "done" /\ AskAt("failed").at = "failed"
         /\ [attach[t] EXCEPT !.at = "recorded"].at = "recorded"
    BY <1>0 DEF AskAt, AsksShaped
  <2>5. AsksShaped'
    BY <1>0, <2>1, <2>3, <2>4 DEF AsksShaped
  <2>6. \A g \in Generations : Same(reader[g], reader'[g])
    BY <1>0, ReadersSame
  <2>7. ReadersTyped'
    BY <1>0, <2>6, ReadersTypedKeeps
  <2>8. TableShaped(table)'
    <3>1. CASE RememberAttach(t)
      <4>1. table' = Remember(table, attach[t].stream, HandleOf[t]) /\ attach[t].at = "answered"
        BY <3>1 DEF RememberAttach, Ask
      <4>2. attach[t].stream \in Ids /\ HandleOf[t] \in Handles
        BY <1>0, <4>1, HandlesOf DEF AsksShaped
      <4> QED
        BY <1>0, <4>1, <4>2, RememberEffect
    <3>2. CASE ~RememberAttach(t)
      <4>1. table' = table
        BY <1>2, <3>2 DEF AttachKnown, AttachUnknown, AttachStep, RefuseAttach, FailAttach, SignalAttached, stateVars
      <4> QED
        BY <1>0, <4>1
    <3> QED
      BY <3>1, <3>2
  <2>9. held' \in {held, Nobody}
    BY <1>2 DEF AttachKnown, AttachUnknown, AttachStep, RefuseAttach, FailAttach, RememberAttach,
         SignalAttached, stateVars, DisconnectControl, Take
  <2>10. attach[t].at \in {"idle", "sent"} \/ q.at # "sent"
    BY <2>2, <2>16
  <2>11. Dialling' = Dialling /\ Claiming' = Claiming /\ Served \subseteq Served'
    BY <2>1, <2>3, <2>4, <2>10 DEF Dialling, Claiming, Served
  <2>12. \A g \in Generations : peer'[g].last \in {peer[g].last, 0}
    BY <2>1
  <2>13. held' = held \/ held' = Nobody
    BY <2>9
  <2>14. Counted'
    BY <1>0, <2>1, <2>11, <2>12, <2>13, CountedKeeps
  <2>15. Apart'
    <3>1. CASE AttachUnknown(t)
      <4>1. /\ AttachRuns = {} \/ AttachRuns \cup {t} \subseteq Refreshing
            /\ overlaps' = overlaps \cup When(LoadRuns # {}, "commands") \cup When(AttachRuns # {}, "sessions")
        BY <3>1 DEF AttachUnknown, StartsAttach, Overlap
      <4>2. /\ overlaps \subseteq overlaps' /\ (LoadRuns # {} => "commands" \in overlaps')
            /\ AttachRuns # {} => "sessions" \in overlaps'
        BY <4>1 DEF When
      <4>3. AttachRuns' \subseteq AttachRuns \cup {t} /\ LoadRuns' = LoadRuns /\ DetachRuns' = DetachRuns
        BY <2>1, <2>4 DEF AttachRuns, LoadRuns, DetachRuns
      <4> QED
        BY <1>0, <4>2, <4>3 DEF Apart
    <3>2. CASE ~AttachUnknown(t)
      <4>1. overlaps' = overlaps
        BY <1>2, <3>2 DEF AttachKnown, AttachStep, RefuseAttach, FailAttach, RememberAttach, SignalAttached, historyVars
      <4>2. attach[t].at \in {"sent", "answered", "recorded"} \/ q.at = "done"
        BY <2>2, <2>16, <3>2
      <4>3. AttachRuns' \subseteq AttachRuns /\ LoadRuns' = LoadRuns /\ DetachRuns' = DetachRuns
        BY <2>1, <2>4, <4>2 DEF AttachRuns, LoadRuns, DetachRuns
      <4> QED
        BY <1>0, <4>1, <4>3, ApartKeeps
    <3> QED
      BY <3>1, <3>2
  <2> QED
    BY <2>5, <2>7, <2>8, <2>14, <2>15 DEF CountInv
<1> QED
  BY <1>1, <1>2

LEMMA DetachesCount ==
  ASSUME WindowInv, LineInv, CountInv, NEW t \in Detaches,
         ForgetDetach(t) \/ SignalDetach(t) \/ ServeDetach(t) \/ FailDetach(t)
  PROVE  CountInv'
<1>0. /\ WindowShaped /\ Counted /\ ReadersTyped /\ AsksShaped /\ Apart /\ TableShaped(table)
      /\ PeersShaped(peer) /\ held.control \in Nat /\ held.generation \in Nat
  BY DEF WindowInv, WindowShaped, CountInv
<1>1. UNCHANGED <<load, attach, dead, dialled, next_generation>>
  BY DEF ForgetDetach, SignalDetach, ServeDetach, FailDetach, stateVars
<1>2. \A g \in Generations : Same(reader[g], reader'[g])
  BY <1>0, ReadersSame
<1>3. ReadersTyped'
  BY <1>0, <1>2, ReadersTypedKeeps
<1>4. held' = held \/ held' = Nobody
  BY DEF ForgetDetach, SignalDetach, ServeDetach, FailDetach, stateVars, DisconnectControl, Take
<1>5. \A g \in Generations : peer'[g].last \in {peer[g].last, 0}
  <2>1. CASE ServeDetach(t)
    <3>1. peer' = peer \/ \E f : peer' = [peer EXCEPT ![bound].feeds = f]
      BY <2>1 DEF ServeDetach
    <3>2. \A g \in Generations : DOMAIN peer[g] = {"last", "feeds", "sent", "wire", "closed"}
      BY DEF LineInv, InLine
    <3> QED
      BY <1>0, <3>1, <3>2 DEF PeersShaped
  <2>2. CASE ~ServeDetach(t)
    <3>1. peer' = peer
      BY <2>2 DEF ForgetDetach, SignalDetach, FailDetach, daemonVars
    <3> QED
      BY <3>1
  <2> QED
    BY <2>1, <2>2
<1>6. Dialling' = Dialling /\ Claiming' = Claiming /\ Served' = Served
  BY <1>1 DEF Dialling, Claiming, Served
<1>7. Counted'
  BY <1>0, <1>1, <1>4, <1>5, <1>6, CountedKeeps
<1>8. TableShaped(table)'
  <2>1. CASE ForgetDetach(t)
    BY <1>0, <2>1, ForgetEffect DEF ForgetDetach
  <2>2. CASE ~ForgetDetach(t)
    BY <1>0, <2>2 DEF SignalDetach, ServeDetach, FailDetach, stateVars
  <2> QED
    BY <2>1, <2>2
<1>9. PICK q : /\ detach' = [detach EXCEPT ![t] = q]
               /\ \/ q = DropAt("done")
                  \/ /\ ForgetDetach(t)
                     /\ q = [detach[t] EXCEPT !.at = "forgotten", !.stream = table.by_handle[HandleOf[t]],
                                              !.on = held.generation]
                  \/ SignalDetach(t) /\ q = [detach[t] EXCEPT !.at = "sent", !.control = held.control]
  BY <1>0 DEF ForgetDetach, SignalDetach, ServeDetach, FailDetach, DetachAnswered, AsksShaped
<1>10. q \in [at : DropSteps, control : Nat, stream : Ids \cup {NoId}, on : Nat]
  <2>1. q = DropAt("done") => q \in [at : DropSteps, control : Nat, stream : Ids \cup {NoId}, on : Nat]
    BY DEF DropAt, DropSteps, NoId, NoControl
  <2>2. ForgetDetach(t) => table.by_handle[HandleOf[t]] \in Ids
    BY <1>0 DEF ForgetDetach, TableShaped
  <2> QED
    BY <1>0, <1>9, <2>1, <2>2 DEF AsksShaped, DropSteps
<1>11. AsksShaped'
  BY <1>0, <1>1, <1>9, <1>10 DEF AsksShaped
<1>12. detach'[t] = q /\ \A u \in Detaches : u # t => detach'[u] = detach[u]
  BY <1>0, <1>9 DEF AsksShaped
<1>13. Apart'
  <2>1. LoadRuns' = LoadRuns /\ AttachRuns' = AttachRuns
    BY <1>1 DEF LoadRuns, AttachRuns
  <2>2. CASE ForgetDetach(t)
    <3>1. overlaps \subseteq overlaps' /\ (LoadRuns # {} => "commands" \in overlaps')
      BY <2>2 DEF ForgetDetach, Overlap, When
    <3>2. DetachRuns' \subseteq DetachRuns \cup {t}
      BY <1>12 DEF DetachRuns
    <3> QED
      BY <1>0, <2>1, <3>1, <3>2 DEF Apart
  <2>3. CASE ~ForgetDetach(t)
    <3>1. overlaps \subseteq overlaps'
      BY <2>3 DEF SignalDetach, ServeDetach, FailDetach, Overlap, historyVars
    <3>2. detach[t].at \in {"forgotten", "sent"}
      BY <2>3 DEF SignalDetach, ServeDetach, FailDetach, DetachAnswered
    <3>3. DetachRuns' \subseteq DetachRuns
      BY <1>12, <3>2 DEF DetachRuns
    <3> QED
      BY <1>0, <2>1, <3>1, <3>3, ApartKeeps
  <2> QED
    BY <2>2, <2>3
<1> QED
  BY <1>3, <1>7, <1>8, <1>11, <1>13 DEF CountInv

LEMMA CountStart == Init => CountInv
<1> SUFFICES ASSUME Init PROVE CountInv
  OBVIOUS
<1>1. /\ held = Nobody /\ table = NewTable /\ next_generation = 0 /\ dialled = 0 /\ dead = {} /\ overlaps = {}
      /\ \A l \in Loads : load[l].at \in {"idle", "failed"}
      /\ \A t \in Attaches : attach[t].at \in {"idle", "done"}
      /\ \A t \in Detaches : detach[t].at \in {"idle", "done"}
      /\ \A g \in Generations : reader[g] = Unspawned /\ peer[g] = Unopened
  BY DEF Init, LoadAt, AskAt, DropAt
<1>2. Counted
  <2>1. /\ Cardinality(Dialling) \in Nat /\ Cardinality(Claiming) \in Nat /\ Cardinality(Served) \in Nat
    BY CommandsFinite, Counts DEF Dialling, Claiming, Served
  <2>2. held.control = 0 /\ held.stream = 0 /\ held.generation = 0
    BY <1>1 DEF Nobody, NoControl, NoStream
  <2>3. \A g \in Generations : peer[g].last = 0
    BY <1>1 DEF Unopened
  <2> QED
    BY <1>1, <2>1, <2>2, <2>3 DEF Counted, NoStream
<1>3. AsksShaped
  <2>1. /\ \A s \in {"idle", "done"} : AskAt(s) \in [at : AskSteps, control : Nat, stream : Ids \cup {NoId}, on : Nat]
        /\ \A s \in {"idle", "done"} : DropAt(s) \in [at : DropSteps, control : Nat, stream : Ids \cup {NoId}, on : Nat]
    BY DEF AskAt, DropAt, AskSteps, DropSteps, NoId, NoControl
  <2>2. PICK cast : /\ attach = [t \in Attaches |-> AskAt(IF t \in cast THEN "idle" ELSE "done")]
                    /\ detach = [t \in Detaches |-> DropAt(IF t \in cast THEN "idle" ELSE "done")]
    BY DEF Init
  <2> HIDE DEF AskAt, DropAt
  <2> QED
    BY <1>1, <2>1, <2>2 DEF AsksShaped
<1>4. ReadersTyped
  <2>1. Unspawned.at = "none" /\ Unspawned.signals = <<>> /\ Range(<<>>) = {}
    BY DEF Unspawned, Range
  <2> QED
    BY <1>1, <2>1 DEF ReadersTyped, ReaderSteps
<1>5. Apart
  BY <1>1 DEF Apart, LoadRuns, AttachRuns
<1> QED
  BY <1>1, <1>2, <1>3, <1>4, <1>5, NewTableShaped DEF CountInv

LEMMA CountStep ==
  ASSUME WindowInv, LineInv, CountInv, [Next]_vars
  PROVE  CountInv'
<1>1. \/ \E l \in Loads : ConnectHeld(l) \/ Connect(l) \/ LoadStep(l)
      \/ \E t \in Attaches : AttachKnown(t) \/ AttachUnknown(t) \/ AttachStep(t)
      \/ \E t \in Detaches : ForgetDetach(t) \/ SignalDetach(t) \/ ServeDetach(t) \/ FailDetach(t)
      \/ \E w \in Watches : Watch(w)
      \/ \E g \in Generations : ReaderStep(g) \/ Unbind(g)
      \/ \E g \in Generations, i \in Ids : SendFrame(g, i)
      \/ \E c \in 1..Cardinality(Loads) : ControlFails(c)
      \/ Announce \/ UNCHANGED vars
  BY DEF Next
<1> QED
  BY <1>1, CalmCounts, LoadsCount, AttachesCount, DetachesCount

-----------------------------------------------------------------------------
\* The table and the daemon.

Answered(t)  == attach[t].at = "answered"
Detaching(d) == detach[d].at \in {"forgotten", "sent"}
Emptied      == \A l \in Loads : load[l].at # "answered"

\* The two directions agree; ids that are on the way into the table, in it, or on
\* the way out of it are different ones.
IdsApart ==
  /\ \A h \in DOMAIN table.by_handle : /\ table.by_handle[h] \in DOMAIN table.by_stream
                                       /\ table.by_stream[table.by_handle[h]] = h
  /\ \A t \in Attaches : Answered(t) =>
       /\ attach[t].stream \notin DOMAIN table.by_stream
       /\ \A u \in Attaches : Answered(u) /\ u # t => attach[u].stream # attach[t].stream
       /\ \A d \in Detaches : Detaching(d) => detach[d].stream # attach[t].stream
  /\ \A d \in Detaches : Detaching(d) =>
       \A h \in DOMAIN table.by_handle : table.by_handle[h] # detach[d].stream
  /\ \A l \in Loads : load[l].at = "spawned" => DOMAIN table.by_stream = {}

\* They are of the connection the daemon is bound to, which feeds them.
IdsFed ==
  /\ DOMAIN table.by_stream \subseteq 1..peer[bound].last
  /\ \A t \in Attaches : Answered(t) =>
       /\ attach[t].on = bound /\ attach[t].stream <= peer[bound].last
       /\ attach[t].stream \in DOMAIN peer[bound].feeds
       /\ peer[bound].feeds[attach[t].stream] = HandleOf[t]
  /\ \A d \in Detaches : Detaching(d) => detach[d].stream <= peer[bound].last
  /\ \A h \in DOMAIN table.by_handle : /\ table.by_handle[h] \in DOMAIN peer[bound].feeds
                                       /\ peer[bound].feeds[table.by_handle[h]] = h

\* Where no two commands ran into each other a session is asked for once, and an
\* id that is routed is the one its session has.
IdsSingle ==
  /\ \A t \in Attaches : attach[t].at \in {"sent", "answered"} => HandleOf[t] \notin DOMAIN table.by_handle
  /\ \A i \in DOMAIN table.by_stream : /\ table.by_stream[i] \in DOMAIN table.by_handle
                                       /\ table.by_handle[table.by_stream[i]] = i

TableInOrder ==
  /\ "commands" \notin overlaps => IdsApart /\ (bound # 0 /\ Emptied => IdsFed)
  /\ overlaps = {} => IdsSingle

\* Steps that leave the table and what the daemon feeds alone.
LEMMA TableStill ==
  ASSUME TableInOrder, table' = table, overlaps \subseteq overlaps',
         \A t \in Attaches : attach'[t].at = "answered" => attach'[t] = attach[t],
         \A t \in Attaches : attach'[t].at = "sent" =>
           HandleOf[t] \notin DOMAIN table.by_handle \/ attach[t].at = "sent",
         \A d \in Detaches : Detaching(d)' => Detaching(d) /\ detach'[d].stream = detach[d].stream,
         \A l \in Loads : load'[l].at = "spawned" => load[l].at = "spawned",
         bound' # 0 /\ Emptied' => /\ Emptied /\ bound' = bound
                                   /\ peer'[bound].last = peer[bound].last /\ peer'[bound].feeds = peer[bound].feeds
  PROVE  TableInOrder'
<1>1. \A t \in Attaches : Answered(t)' =>
        Answered(t) /\ attach'[t].stream = attach[t].stream /\ attach'[t].on = attach[t].on
  BY DEF Answered
<1>2. ASSUME "commands" \notin overlaps'
      PROVE  IdsApart' /\ (bound' # 0 /\ Emptied' => IdsFed')
  <2>1. IdsApart /\ (bound # 0 /\ Emptied => IdsFed)
    BY <1>2 DEF TableInOrder
  <2>2. IdsApart'
    BY <1>1, <2>1 DEF IdsApart
  <2>3. ASSUME bound' # 0, Emptied'
        PROVE  IdsFed'
    <3>1. /\ IdsFed /\ bound' = bound
          /\ peer'[bound'].last = peer[bound].last /\ peer'[bound'].feeds = peer[bound].feeds
      BY <2>1, <2>3
    <3> QED
      BY <1>1, <3>1 DEF IdsFed
  <2> QED
    BY <2>2, <2>3
<1>3. ASSUME overlaps' = {}
      PROVE  IdsSingle'
  <2>1. IdsSingle
    BY <1>3 DEF TableInOrder
  <2> QED
    BY <2>1 DEF IdsSingle
<1> QED
  BY <1>2, <1>3 DEF TableInOrder

LEMMA TableStart == Init => TableInOrder
<1> SUFFICES ASSUME Init PROVE TableInOrder
  OBVIOUS
<1>1. /\ table = NewTable /\ bound = 0
      /\ \A l \in Loads : load[l].at \in {"idle", "failed"}
      /\ \A t \in Attaches : attach[t].at \in {"idle", "done"}
      /\ \A t \in Detaches : detach[t].at \in {"idle", "done"}
  BY DEF Init, LoadAt, AskAt, DropAt
<1>2. DOMAIN table.by_handle = {} /\ DOMAIN table.by_stream = {}
  BY <1>1 DEF NewTable, EmptyMap
<1> QED
  BY <1>1, <1>2 DEF TableInOrder, IdsApart, IdsSingle, Answered, Detaching

\* The daemon is bound to a connection that was opened.
LEMMA BoundCounts ==
  ASSUME WindowInv, CountInv
  PROVE  next_generation \in 0..Cardinality(Loads) /\ (bound # 0 => bound \in Generations)
<1>1. bound \in Nat /\ bound <= next_generation /\ next_generation <= Cardinality(Claiming) /\ next_generation \in Nat
  BY DEF WindowInv, WindowShaped, LoadsInOrder, CountInv, Counted
<1>2. Cardinality(Claiming) \in Nat /\ Cardinality(Claiming) <= Cardinality(Loads) /\ Cardinality(Loads) \in Nat
  BY CommandsFinite, GenerationsCount, Counts DEF Claiming
<1> QED
  BY <1>1, <1>2 DEF Generations

LEMMA TableOthers ==
  ASSUME WindowInv, LineInv, CountInv, TableInOrder,
         \/ \E w \in Watches : Watch(w)
         \/ \E g \in Generations : ReaderStep(g) \/ Unbind(g)
         \/ \E g \in Generations, i \in Ids : SendFrame(g, i)
         \/ \E c \in 1..Cardinality(Loads) : ControlFails(c)
         \/ Announce \/ UNCHANGED vars
  PROVE  TableInOrder'
<1>0. UNCHANGED <<table, load, attach, detach, overlaps>>
  <2>1. ASSUME NEW g \in Generations, ReaderStep(g), ~OnClosed(g)
        PROVE  UNCHANGED <<table, load, attach, detach, overlaps>>
    BY <2>1, ReaderMoves DEF Moves
  <2> QED
    BY <2>1 DEF Watch, OnClosed, Unbind, SendFrame, ControlFails, Announce, vars, stateVars, commandVars, historyVars
<1>1. ASSUME bound' # 0
      PROVE  bound' = bound /\ peer'[bound].last = peer[bound].last /\ peer'[bound].feeds = peer[bound].feeds
  <2>1. ASSUME NEW g \in Generations, ReaderStep(g), ~OnClosed(g)
        PROVE  bound' = bound /\ peer'[bound].last = peer[bound].last /\ peer'[bound].feeds = peer[bound].feeds
    <3>1. Moves(g)
      BY <2>1, ReaderMoves
    <3>2. bound \in Generations
      BY <1>1, <3>1, BoundCounts DEF Moves
    <3> QED
      BY <3>1, <3>2 DEF Moves
  <2>2. ASSUME NEW g \in Generations, NEW i \in Ids, SendFrame(g, i)
        PROVE  bound' = bound /\ peer'[bound].last = peer[bound].last /\ peer'[bound].feeds = peer[bound].feeds
    <3>1. PICK n, w : peer' = [peer EXCEPT ![g].sent[i] = n, ![g].wire = w]
      BY <2>2 DEF SendFrame
    <3>2. DOMAIN peer[g] = {"last", "feeds", "sent", "wire", "closed"} /\ bound' = bound
      BY <2>2 DEF LineInv, InLine, SendFrame
    <3>3. bound \in Generations /\ DOMAIN peer = Generations
      BY <1>1, <3>2, BoundCounts DEF WindowInv, WindowShaped, PeersShaped
    <3> QED
      BY <3>1, <3>2, <3>3
  <2>3. ASSUME \/ \E w \in Watches : Watch(w)
               \/ \E g \in Generations : OnClosed(g)
               \/ \E c \in 1..Cardinality(Loads) : ControlFails(c)
               \/ Announce \/ UNCHANGED vars
        PROVE  bound' = bound /\ peer' = peer
    BY <2>3 DEF Watch, OnClosed, ControlFails, Announce, vars, daemonVars
  <2>4. ASSUME NEW g \in Generations, Unbind(g)
        PROVE  FALSE
    BY <1>1, <2>4 DEF Unbind
  <2> QED
    BY <2>1, <2>2, <2>3, <2>4
<1>2. Emptied' => Emptied
  BY <1>0 DEF Emptied
<1>3. \A d \in Detaches : Detaching(d)' => Detaching(d) /\ detach'[d].stream = detach[d].stream
  BY <1>0 DEF Detaching
<1> QED
  BY <1>0, <1>1, <1>2, <1>3, TableStill

LEMMA TableLoads ==
  ASSUME WindowInv, CountInv, TableInOrder, NEW l \in Loads, ConnectHeld(l) \/ Connect(l) \/ LoadStep(l)
  PROVE  TableInOrder'
<1>0. /\ LoadsTyped /\ LoadsInOrder /\ Apart
  BY DEF WindowInv, WindowShaped, CountInv
<1>1. CASE SpawnReader(l)
  <2>1. /\ load[l].at = "answered" /\ table' = NewTable /\ UNCHANGED <<attach, detach, overlaps>>
    BY <1>1 DEF SpawnReader, Load, historyVars
  <2>2. DOMAIN table'.by_handle = {} /\ DOMAIN table'.by_stream = {}
    BY <2>1 DEF NewTable, EmptyMap
  <2>3. ASSUME "commands" \notin overlaps'
        PROVE  /\ \A t \in Attaches : ~Answered(t)'
               /\ \A d \in Detaches : ~Detaching(d)'
    <3>1. l \in LoadRuns
      BY <2>1 DEF LoadRuns
    <3>2. AttachRuns = {} /\ DetachRuns = {}
      BY <1>0, <2>1, <2>3, <3>1 DEF Apart
    <3> QED
      BY <2>1, <3>2 DEF Answered, Detaching, AttachRuns, DetachRuns
  <2> QED
    BY <2>2, <2>3, <2>1 DEF TableInOrder, IdsApart, IdsFed, IdsSingle
<1>2. CASE ~SpawnReader(l)
  <2>1. UNCHANGED <<table, attach, detach>> /\ overlaps \subseteq overlaps'
    BY <1>2 DEF ConnectHeld, Connect, LoadStep, Supersede, SupersedeNothing, AnnounceSuperseded, Handshake,
         HandshakeFails, InstallStream, InstallNothing, LoadFails, stateVars, historyVars, Starts, Overlap
  <2>2. /\ \A k \in Loads : k # l => load'[k] = load[k]
        /\ load'[l].at # "spawned" /\ load[l].at # "answered"
    BY <1>0, <1>2 DEF ConnectHeld, Connect, LoadStep, Supersede, SupersedeNothing, AnnounceSuperseded, Handshake,
         HandshakeFails, InstallStream, InstallNothing, LoadFails, Load, Returns, LoadAt, LoadsTyped
  <2>3. ASSUME bound' # 0, Emptied'
        PROVE  bound' = bound /\ peer' = peer
    <3>1. ~Handshake(l)
      BY <1>0, <2>3 DEF Handshake, Load, LoadsTyped, Emptied
    <3> QED
      BY <1>2, <2>3, <3>1 DEF ConnectHeld, Connect, LoadStep, Supersede, SupersedeNothing, AnnounceSuperseded,
         HandshakeFails, InstallStream, InstallNothing, LoadFails, daemonVars
  <2>4. Emptied' => Emptied
    BY <2>2 DEF Emptied
  <2>5. \A d \in Detaches : Detaching(d)' => Detaching(d) /\ detach'[d].stream = detach[d].stream
    BY <2>1 DEF Detaching
  <2> QED
    BY <2>1, <2>2, <2>3, <2>4, <2>5, TableStill
<1> QED
  BY <1>1, <1>2

\* Where no load ran into it, an attach or a detach runs beside none.
LEMMA RunsAlone ==
  ASSUME Apart, "commands" \notin overlaps, AttachRuns \cup DetachRuns # {}
  PROVE  Emptied /\ \A l \in Loads : load[l].at # "spawned"
BY DEF Apart, LoadRuns, Emptied

LEMMA AnswerTable ==
  ASSUME WindowInv, LineInv, CountInv, TableInOrder, NEW t \in Attaches, AnswerAttach(t)
  PROVE  TableInOrder'
<1> DEFINE i == peer[bound].last + 1
<1>1. /\ bound \in Generations /\ bound \in Nat
      /\ attach[t].at = "sent" /\ t \in AttachRuns
      /\ attach'[t].at = "answered" /\ attach'[t].stream = i /\ attach'[t].on = bound
      /\ \A u \in Attaches : u # t => attach'[u] = attach[u]
      /\ peer'[bound].last = i
      /\ DOMAIN peer'[bound].feeds = DOMAIN peer[bound].feeds \cup {i}
      /\ peer'[bound].feeds[i] = HandleOf[t]
      /\ \A j \in DOMAIN peer[bound].feeds : j # i => peer'[bound].feeds[j] = peer[bound].feeds[j]
      /\ UNCHANGED <<stateVars, load, detach, watch, reader, bound, historyVars>>
  BY AnswerCounts
<1>2. UNCHANGED <<table, overlaps, detach, load, bound>>
  BY <1>1 DEF stateVars, historyVars
<1>3. peer[bound].last \in Nat /\ i \in Nat /\ peer[bound].last < i
  BY <1>1 DEF CountInv, Counted
<1>4. bound # 0
  BY DEF AnswerAttach
<1>5. \A j \in Nat : j <= peer[bound].last => j # i /\ j <= i
  BY <1>3
<1>10. Ids \subseteq Nat /\ NoId \in Nat
  BY CommandsFinite DEF Ids, NoId
<1>6. /\ \A u \in Attaches : attach[u].stream \in Ids \cup {NoId}
      /\ \A d \in Detaches : detach[d].stream \in Ids \cup {NoId}
  BY DEF CountInv, AsksShaped
<1>7. i \in 1..i
  BY <1>3
<1> HIDE DEF i
<1>8. ASSUME "commands" \notin overlaps'
      PROVE  IdsApart' /\ (bound' # 0 /\ Emptied' => IdsFed')
  <2>1. IdsApart /\ IdsFed /\ Emptied
    BY <1>1, <1>2, <1>4, <1>8, RunsAlone DEF TableInOrder, CountInv
  <2>2. \A l \in Loads : load[l].at # "spawned"
    BY <1>1, <1>2, <1>8, RunsAlone DEF CountInv
  <2>3. \A j \in DOMAIN table.by_stream : j # i /\ j \in 1..i
    BY <1>3, <2>1 DEF IdsFed
  <2>4. \A u \in Attaches : Answered(u) => attach[u].stream # i /\ attach[u].stream <= i
    BY <1>5, <1>6, <1>10, <2>1 DEF IdsFed
  <2>5. \A d \in Detaches : Detaching(d) => detach[d].stream # i /\ detach[d].stream <= i
    BY <1>5, <1>6, <1>10, <2>1 DEF IdsFed
  <2>6. /\ \A u \in Attaches : Answered(u)' => u = t \/ (Answered(u) /\ attach'[u] = attach[u])
        /\ \A d \in Detaches : Detaching(d)' => Detaching(d)
    BY <1>1, <1>2 DEF Answered, Detaching
  <2>7. IdsApart'
    BY <1>1, <1>2, <2>1, <2>2, <2>3, <2>4, <2>5, <2>6 DEF IdsApart
  <2>8. ~Answered(t)
    BY <1>1 DEF Answered
  <2>9. \A h \in DOMAIN table.by_handle : /\ table.by_handle[h] \in DOMAIN peer[bound].feeds
                                          /\ peer[bound].feeds[table.by_handle[h]] = h
                                          /\ table.by_handle[h] # i
    BY <2>1, <2>3 DEF IdsFed, IdsApart
  <2>10. IdsFed'
    <3>1. DOMAIN table'.by_stream \subseteq 1..peer'[bound'].last
      BY <1>1, <1>2, <2>3
    <3>2. \A u \in Attaches : Answered(u)' =>
            /\ attach'[u].on = bound /\ attach'[u].stream <= i
            /\ attach'[u].stream \in DOMAIN peer'[bound].feeds
            /\ peer'[bound].feeds[attach'[u].stream] = HandleOf[u]
      BY <1>1, <1>3, <2>1, <2>4, <2>6 DEF IdsFed
    <3>3. \A d \in Detaches : Detaching(d)' => detach'[d].stream <= i
      BY <1>2, <2>5, <2>6
    <3>4. \A h \in DOMAIN table'.by_handle : /\ table'.by_handle[h] \in DOMAIN peer'[bound].feeds
                                             /\ peer'[bound].feeds[table'.by_handle[h]] = h
      BY <1>1, <1>2, <2>9
    <3> QED
      BY <1>1, <1>2, <3>1, <3>2, <3>3, <3>4 DEF IdsFed
  <2> QED
    BY <2>7, <2>10
<1>9. overlaps' = {} => IdsSingle'
  BY <1>1, <1>2 DEF TableInOrder, IdsSingle
<1> QED
  BY <1>8, <1>9 DEF TableInOrder

LEMMA RememberTable ==
  ASSUME WindowInv, CountInv, TableInOrder, NEW t \in Attaches, RememberAttach(t)
  PROVE  TableInOrder'
<1> DEFINE i == attach[t].stream
           h == HandleOf[t]
           q == [attach[t] EXCEPT !.at = "recorded"]
<1>0. AsksShaped /\ Apart /\ TableShaped(table)
  BY DEF CountInv
<1>1. /\ attach[t].at = "answered" /\ attach' = [attach EXCEPT ![t] = q]
      /\ table' = Remember(table, i, h)
      /\ UNCHANGED <<detach, load, bound, peer, overlaps>>
  BY <1>0 DEF RememberAttach, Ask, AsksShaped, historyVars, daemonVars
<1>2. q.at = "recorded"
  BY <1>0 DEF AsksShaped
<1>3. i \in Ids /\ h \in Handles
  BY <1>0, <1>1, HandlesOf DEF AsksShaped
<1> HIDE DEF q, i, h
<1>4. attach'[t].at = "recorded" /\ \A u \in Attaches : u # t => attach'[u] = attach[u]
  BY <1>0, <1>1, <1>2 DEF AsksShaped
<1>5. /\ DOMAIN table'.by_handle = DOMAIN table.by_handle \cup {h} /\ table'.by_handle[h] = i
      /\ \A k \in DOMAIN table.by_handle : k # h => table'.by_handle[k] = table.by_handle[k]
      /\ DOMAIN table'.by_stream = DOMAIN table.by_stream \cup {i} /\ table'.by_stream[i] = h
      /\ \A j \in DOMAIN table.by_stream : j # i => table'.by_stream[j] = table.by_stream[j]
  BY <1>0, <1>1, <1>3, RememberEffect
<1>6. t \in AttachRuns /\ Answered(t)
  BY <1>1 DEF AttachRuns, Answered
<1>7. ASSUME "commands" \notin overlaps'
      PROVE  IdsApart' /\ (bound' # 0 /\ Emptied' => IdsFed')
  <2>1. IdsApart /\ (bound # 0 => IdsFed)
    BY <1>0, <1>1, <1>6, <1>7, RunsAlone DEF TableInOrder
  <2>2. \A l \in Loads : load[l].at # "spawned"
    BY <1>0, <1>1, <1>6, <1>7, RunsAlone
  <2>3. i \notin DOMAIN table.by_stream
    BY <1>6, <2>1 DEF IdsApart, i
  <2>4. \A u \in Attaches : Answered(u)' => u # t /\ Answered(u) /\ attach'[u] = attach[u] /\ attach[u].stream # i
    BY <1>4, <1>6, <2>1 DEF Answered, IdsApart, i
  <2>5. \A d \in Detaches : Detaching(d)' => Detaching(d) /\ detach'[d] = detach[d] /\ detach[d].stream # i
    BY <1>1, <1>6, <2>1 DEF Detaching, IdsApart, i
  <2>6. IdsApart'
    <3>1. \A k \in DOMAIN table'.by_handle : /\ table'.by_handle[k] \in DOMAIN table'.by_stream
                                             /\ table'.by_stream[table'.by_handle[k]] = k
      BY <1>5, <2>1, <2>3 DEF IdsApart
    <3>2. \A u \in Attaches : Answered(u)' =>
            /\ attach'[u].stream \notin DOMAIN table'.by_stream
            /\ \A v \in Attaches : Answered(v)' /\ v # u => attach'[v].stream # attach'[u].stream
            /\ \A d \in Detaches : Detaching(d)' => detach'[d].stream # attach'[u].stream
      BY <1>5, <2>1, <2>4, <2>5 DEF IdsApart
    <3>3. \A d \in Detaches : Detaching(d)' =>
            \A k \in DOMAIN table'.by_handle : table'.by_handle[k] # detach'[d].stream
      BY <1>5, <2>1, <2>5 DEF IdsApart
    <3> QED
      BY <1>1, <2>2, <3>1, <3>2, <3>3 DEF IdsApart
  <2>7. ASSUME bound' # 0
        PROVE  IdsFed'
    <3>1. IdsFed /\ bound # 0 /\ bound' = bound /\ peer' = peer
      BY <1>1, <2>1, <2>7
    <3>2. i \in 1..peer[bound].last /\ i \in DOMAIN peer[bound].feeds /\ peer[bound].feeds[i] = h
      <4>1. i \in Nat /\ i >= 1 /\ i <= peer[bound].last /\ i \in DOMAIN peer[bound].feeds /\ peer[bound].feeds[i] = h
        BY <1>3, <1>6, <3>1, CommandsFinite DEF Ids, IdsFed, i, h
      <4>2. peer[bound].last \in Nat
        BY <3>1, BoundCounts DEF CountInv, Counted
      <4> QED
        BY <4>1, <4>2
    <3>3. DOMAIN table'.by_stream \subseteq 1..peer[bound].last
      BY <1>5, <3>1, <3>2 DEF IdsFed
    <3>4. \A k \in DOMAIN table'.by_handle : /\ table'.by_handle[k] \in DOMAIN peer[bound].feeds
                                             /\ peer[bound].feeds[table'.by_handle[k]] = k
      BY <1>5, <3>1, <3>2 DEF IdsFed
    <3> QED
      BY <2>4, <2>5, <3>1, <3>3, <3>4 DEF IdsFed
  <2> QED
    BY <2>6, <2>7
<1>8. ASSUME overlaps' = {}
      PROVE  IdsSingle'
  <2>1. IdsSingle /\ IdsApart /\ \A u \in AttachRuns : u = t
    BY <1>0, <1>1, <1>6, <1>8 DEF TableInOrder, Apart
  <2>2. \A u \in Attaches : attach'[u].at \notin {"sent", "answered"}
    BY <1>4, <2>1 DEF AttachRuns
  <2>3. h \notin DOMAIN table.by_handle
    BY <1>1, <2>1 DEF IdsSingle, h
  <2>4. \A j \in DOMAIN table'.by_stream : /\ table'.by_stream[j] \in DOMAIN table'.by_handle
                                           /\ table'.by_handle[table'.by_stream[j]] = j
    BY <1>5, <2>1, <2>3 DEF IdsSingle
  <2> QED
    BY <2>2, <2>4 DEF IdsSingle
<1> QED
  BY <1>7, <1>8 DEF TableInOrder

LEMMA TableAttaches ==
  ASSUME WindowInv, LineInv, CountInv, TableInOrder, NEW t \in Attaches,
         AttachKnown(t) \/ AttachUnknown(t) \/ AttachStep(t)
  PROVE  TableInOrder'
<1>0. AsksShaped
  BY DEF CountInv
<1>1. CASE AnswerAttach(t)
  BY <1>1, AnswerTable
<1>2. CASE RememberAttach(t)
  BY <1>2, RememberTable
<1>3. CASE ~AnswerAttach(t) /\ ~RememberAttach(t)
  <2>1. UNCHANGED <<table, load, detach, bound, peer>> /\ overlaps \subseteq overlaps'
    BY <1>3 DEF AttachKnown, AttachUnknown, AttachStep, RefuseAttach, FailAttach, SignalAttached, stateVars, daemonVars,
                historyVars, StartsAttach, Overlap
  <2>2. PICK q : /\ attach' = [attach EXCEPT ![t] = q]
                 /\ \/ q \in {AskAt("done"), AskAt("failed")}
                    \/ q = Asked(t) /\ (attach[t].at = "sent" \/ HandleOf[t] \notin DOMAIN table.by_handle)
    BY <1>3 DEF AttachKnown, AttachUnknown, AttachStep, RefuseAttach, FailAttach, SignalAttached, AskReturns
  <2>3. q.at # "answered" /\ (q.at = "sent" => attach[t].at = "sent" \/ HandleOf[t] \notin DOMAIN table.by_handle)
    BY <2>2 DEF AskAt, Asked
  <2>4. attach'[t] = q /\ \A u \in Attaches : u # t => attach'[u] = attach[u]
    BY <1>0, <2>2 DEF AsksShaped
  <2>5. Emptied' => Emptied
    BY <2>1 DEF Emptied
  <2>6. \A d \in Detaches : Detaching(d)' => Detaching(d) /\ detach'[d].stream = detach[d].stream
    BY <2>1 DEF Detaching
  <2> QED
    BY <2>1, <2>3, <2>4, <2>5, <2>6, TableStill
<1> QED
  BY <1>1, <1>2, <1>3

LEMMA ForgetTable ==
  ASSUME WindowInv, CountInv, TableInOrder, NEW t \in Detaches, ForgetDetach(t)
  PROVE  TableInOrder'
<1> DEFINE h == HandleOf[t]
           i == table.by_handle[h]
           q == [detach[t] EXCEPT !.at = "forgotten", !.stream = i, !.on = held.generation]
<1>0. AsksShaped /\ TableShaped(table)
  BY DEF CountInv
<1>1. /\ h \in DOMAIN table.by_handle /\ table' = Forget(table, h)
      /\ detach' = [detach EXCEPT ![t] = q]
      /\ UNCHANGED <<attach, load, bound, peer>> /\ overlaps \subseteq overlaps'
  BY <1>0 DEF ForgetDetach, AsksShaped, Overlap, daemonVars
<1>2. q.at = "forgotten" /\ q.stream = i
  BY <1>0 DEF AsksShaped
<1> HIDE DEF q, i, h
<1>3. detach'[t].stream = i /\ \A d \in Detaches : d # t => detach'[d] = detach[d]
  BY <1>0, <1>1, <1>2 DEF AsksShaped
<1>4. /\ DOMAIN table'.by_handle = DOMAIN table.by_handle \ {h}
      /\ \A k \in DOMAIN table'.by_handle : table'.by_handle[k] = table.by_handle[k]
      /\ DOMAIN table'.by_stream = DOMAIN table.by_stream \ {i}
      /\ \A j \in DOMAIN table'.by_stream : table'.by_stream[j] = table.by_stream[j]
  BY <1>0, <1>1, ForgetEffect DEF i
<1>5. /\ \A u \in Attaches : Answered(u)' <=> Answered(u)
      /\ \A d \in Detaches : Detaching(d)' => (d = t /\ detach'[d].stream = i)
                                              \/ (Detaching(d) /\ detach'[d].stream = detach[d].stream)
      /\ Emptied' => Emptied
  BY <1>1, <1>3 DEF Answered, Detaching, Emptied
<1>6. ASSUME "commands" \notin overlaps'
      PROVE  IdsApart' /\ (bound' # 0 /\ Emptied' => IdsFed')
  <2>1. IdsApart /\ (bound # 0 /\ Emptied => IdsFed)
    BY <1>1, <1>6 DEF TableInOrder
  <2>2. i \in DOMAIN table.by_stream /\ table.by_stream[i] = h
    BY <1>1, <2>1 DEF IdsApart, i
  <2>3. \A k \in DOMAIN table'.by_handle : table'.by_handle[k] # i
    BY <1>4, <2>1, <2>2 DEF IdsApart
  <2>4. IdsApart'
    <3>1. \A k \in DOMAIN table'.by_handle : /\ table'.by_handle[k] \in DOMAIN table'.by_stream
                                             /\ table'.by_stream[table'.by_handle[k]] = k
      BY <1>4, <2>1, <2>3 DEF IdsApart
    <3>2. \A u \in Attaches : Answered(u)' =>
            /\ attach'[u].stream \notin DOMAIN table'.by_stream
            /\ \A v \in Attaches : Answered(v)' /\ v # u => attach'[v].stream # attach'[u].stream
            /\ \A d \in Detaches : Detaching(d)' => detach'[d].stream # attach'[u].stream
      BY <1>1, <1>4, <1>5, <2>1, <2>2 DEF IdsApart
    <3>3. \A d \in Detaches : Detaching(d)' =>
            \A k \in DOMAIN table'.by_handle : table'.by_handle[k] # detach'[d].stream
      BY <1>4, <1>5, <2>1, <2>3 DEF IdsApart
    <3>4. \A l \in Loads : load'[l].at = "spawned" => DOMAIN table'.by_stream = {}
      BY <1>1, <1>4, <2>1 DEF IdsApart
    <3> QED
      BY <3>1, <3>2, <3>3, <3>4 DEF IdsApart
  <2>5. ASSUME bound' # 0, Emptied'
        PROVE  IdsFed'
    <3>1. IdsFed /\ bound # 0 /\ bound' = bound /\ peer' = peer
      BY <1>1, <1>5, <2>1, <2>5
    <3>2. i <= peer[bound].last
      <4>1. peer[bound].last \in Nat
        BY <3>1, BoundCounts DEF CountInv, Counted
      <4> QED
        BY <2>2, <3>1, <4>1 DEF IdsFed
    <3> QED
      BY <1>1, <1>4, <1>5, <3>1, <3>2 DEF IdsFed
  <2> QED
    BY <2>4, <2>5
<1>7. ASSUME overlaps' = {}
      PROVE  IdsSingle'
  <2>1. IdsSingle
    BY <1>1, <1>7 DEF TableInOrder
  <2>2. \A j \in DOMAIN table'.by_stream : /\ table'.by_stream[j] \in DOMAIN table'.by_handle
                                           /\ table'.by_handle[table'.by_stream[j]] = j
    BY <1>1, <1>4, <2>1 DEF IdsSingle, i
  <2> QED
    BY <1>1, <1>4, <2>1, <2>2 DEF IdsSingle
<1> QED
  BY <1>6, <1>7 DEF TableInOrder

\* What serving a detach does.
LEMMA ServeEffect ==
  ASSUME WindowInv, LineInv, CountInv, NEW t \in Detaches, ServeDetach(t)
  PROVE  /\ detach[t].at = "sent" /\ detach'[t].at = "done"
         /\ \A d \in Detaches : d # t => detach'[d] = detach[d]
         /\ UNCHANGED <<stateVars, load, attach, watch, reader, bound, historyVars>>
         /\ \A g \in Generations : g # bound => peer'[g] = peer[g]
         /\ bound # 0 =>
              /\ peer'[bound].last = peer[bound].last /\ peer'[bound].closed = peer[bound].closed
              /\ peer'[bound].wire = peer[bound].wire
              /\ DOMAIN peer'[bound].feeds = DOMAIN peer[bound].feeds \ {detach[t].stream}
              /\ \A j \in DOMAIN peer'[bound].feeds : peer'[bound].feeds[j] = peer[bound].feeds[j]
<1>0. AsksShaped /\ PeersShaped(peer)
  BY DEF CountInv, WindowInv, WindowShaped
<1>1. /\ detach[t].at = "sent" /\ detach' = [detach EXCEPT ![t] = DropAt("done")]
      /\ peer' = IF bound = 0 THEN peer
                 ELSE [peer EXCEPT ![bound].feeds = Restrict(@, DOMAIN @ \ {detach[t].stream})]
      /\ UNCHANGED <<stateVars, load, attach, watch, reader, bound, historyVars>>
  BY DEF ServeDetach, DetachAnswered
<1>2. /\ detach'[t].at = "done"
      /\ \A d \in Detaches : d # t => detach'[d] = detach[d]
  BY <1>0, <1>1 DEF AsksShaped, DropAt
<1>3. \A g \in Generations : g # bound => peer'[g] = peer[g]
  BY <1>0, <1>1 DEF PeersShaped
<1>4. ASSUME bound # 0
      PROVE  /\ peer'[bound].last = peer[bound].last /\ peer'[bound].closed = peer[bound].closed
             /\ peer'[bound].wire = peer[bound].wire
             /\ DOMAIN peer'[bound].feeds = DOMAIN peer[bound].feeds \ {detach[t].stream}
             /\ \A j \in DOMAIN peer'[bound].feeds : peer'[bound].feeds[j] = peer[bound].feeds[j]
  <2> DEFINE f == peer[bound].feeds
  <2>1. bound \in Generations
    BY <1>4, BoundCounts
  <2>2. DOMAIN peer[bound] = {"last", "feeds", "sent", "wire", "closed"}
    BY <2>1 DEF LineInv, InLine
  <2>3. peer'[bound] = [peer[bound] EXCEPT !.feeds = Restrict(f, DOMAIN f \ {detach[t].stream})]
    BY <1>0, <1>1, <1>4, <2>1 DEF PeersShaped
  <2>4. peer'[bound].feeds = [j \in DOMAIN f \ {detach[t].stream} |-> f[j]]
    <3>1. Restrict(f, DOMAIN f \ {detach[t].stream}) = [j \in DOMAIN f \ {detach[t].stream} |-> f[j]]
      BY DEF Restrict
    <3> QED
      BY <2>2, <2>3, <3>1
  <2> QED
    BY <2>2, <2>3, <2>4
<1> QED
  BY <1>1, <1>2, <1>3, <1>4

LEMMA ServeTable ==
  ASSUME WindowInv, LineInv, CountInv, TableInOrder, NEW t \in Detaches, ServeDetach(t)
  PROVE  TableInOrder'
<1>1. /\ detach[t].at = "sent" /\ detach'[t].at = "done"
      /\ \A d \in Detaches : d # t => detach'[d] = detach[d]
      /\ UNCHANGED <<stateVars, load, attach, watch, reader, bound, historyVars>>
      /\ bound # 0 =>
           /\ peer'[bound].last = peer[bound].last
           /\ DOMAIN peer'[bound].feeds = DOMAIN peer[bound].feeds \ {detach[t].stream}
           /\ \A j \in DOMAIN peer'[bound].feeds : peer'[bound].feeds[j] = peer[bound].feeds[j]
  BY ServeEffect
<1>2. UNCHANGED <<table, load, attach, bound, overlaps>>
  BY <1>1 DEF stateVars, historyVars
<1>3. /\ Detaching(t)
      /\ \A d \in Detaches : Detaching(d)' => Detaching(d) /\ detach'[d] = detach[d]
      /\ \A u \in Attaches : Answered(u)' <=> Answered(u)
      /\ Emptied' <=> Emptied
  BY <1>1, <1>2 DEF Detaching, Answered, Emptied
<1>4. ASSUME "commands" \notin overlaps'
      PROVE  IdsApart' /\ (bound' # 0 /\ Emptied' => IdsFed')
  <2>1. IdsApart /\ (bound # 0 /\ Emptied => IdsFed)
    BY <1>2, <1>4 DEF TableInOrder
  <2>2. IdsApart'
    BY <1>2, <1>3, <2>1 DEF IdsApart
  <2>3. ASSUME bound # 0, Emptied
        PROVE  IdsFed'
    <3>1. \A u \in Attaches : Answered(u) => attach[u].stream # detach[t].stream
      BY <1>3, <2>1 DEF IdsApart
    <3>2. \A h \in DOMAIN table.by_handle : table.by_handle[h] # detach[t].stream
      BY <1>3, <2>1 DEF IdsApart
    <3> QED
      BY <1>1, <1>2, <1>3, <2>1, <2>3, <3>1, <3>2 DEF IdsFed
  <2> QED
    BY <1>2, <1>3, <2>2, <2>3
<1>5. overlaps' = {} => IdsSingle'
  BY <1>2 DEF TableInOrder, IdsSingle
<1> QED
  BY <1>4, <1>5 DEF TableInOrder

LEMMA TableDetaches ==
  ASSUME WindowInv, LineInv, CountInv, TableInOrder, NEW t \in Detaches,
         ForgetDetach(t) \/ SignalDetach(t) \/ ServeDetach(t) \/ FailDetach(t)
  PROVE  TableInOrder'
<1>0. AsksShaped
  BY DEF CountInv
<1>1. CASE SignalDetach(t) \/ FailDetach(t)
  <2>1. /\ UNCHANGED <<table, load, attach, bound, peer>> /\ overlaps \subseteq overlaps'
        /\ detach[t].at \in {"forgotten", "sent"}
        /\ \/ detach' = [detach EXCEPT ![t] = DropAt("done")]
           \/ detach' = [detach EXCEPT ![t].at = "sent", ![t].control = held.control]
    BY <1>1 DEF SignalDetach, FailDetach, DetachAnswered, stateVars, daemonVars, historyVars, Overlap
  <2>2. /\ \A d \in Detaches : d # t => detach'[d] = detach[d]
        /\ detach'[t].at = "done" \/ detach'[t].stream = detach[t].stream
    BY <1>0, <2>1 DEF AsksShaped, DropAt
  <2>3. \A d \in Detaches : Detaching(d)' => Detaching(d) /\ detach'[d].stream = detach[d].stream
    BY <2>1, <2>2 DEF Detaching
  <2>4. Emptied' => Emptied
    BY <2>1 DEF Emptied
  <2> QED
    BY <2>1, <2>3, <2>4, TableStill
<1> QED
  BY <1>1, ForgetTable, ServeTable

LEMMA TableStep ==
  ASSUME WindowInv, LineInv, CountInv, TableInOrder, [Next]_vars
  PROVE  TableInOrder'
<1>1. \/ \E l \in Loads : ConnectHeld(l) \/ Connect(l) \/ LoadStep(l)
      \/ \E t \in Attaches : AttachKnown(t) \/ AttachUnknown(t) \/ AttachStep(t)
      \/ \E t \in Detaches : ForgetDetach(t) \/ SignalDetach(t) \/ ServeDetach(t) \/ FailDetach(t)
      \/ \E w \in Watches : Watch(w)
      \/ \E g \in Generations : ReaderStep(g) \/ Unbind(g)
      \/ \E g \in Generations, i \in Ids : SendFrame(g, i)
      \/ \E c \in 1..Cardinality(Loads) : ControlFails(c)
      \/ Announce \/ UNCHANGED vars
  BY DEF Next
<1> QED
  BY <1>1, TableOthers, TableLoads, TableAttaches, TableDetaches

\* A sequence has the values of its range.
LEMMA FramesInRange ==
  ASSUME NEW s \in Seq(Frames)
  PROVE  Range(s) \subseteq Frames
BY DEF Range

\* What is counted bounds the fields, and the rest is the invariants'.
LEMMA TableHolds ==
  ASSUME WindowInv, LineInv, CountInv, TableInOrder
  PROVE  TableAgrees
<1>0. /\ WindowShaped /\ LoadsInOrder /\ LoadsTyped /\ WatchesTyped
      /\ Counted /\ TableShaped(table) /\ AsksShaped /\ ReadersTyped
  BY DEF WindowInv, WindowShaped, CountInv
<1>1. /\ Cardinality(Loads) \in Nat /\ next_generation \in 0..Cardinality(Loads) /\ dialled \in 0..Cardinality(Loads)
  <2>1. /\ Cardinality(Dialling) \in Nat /\ Cardinality(Dialling) <= Cardinality(Loads) /\ Cardinality(Loads) \in Nat
    BY CommandsFinite, GenerationsCount, Counts DEF Dialling
  <2> QED
    BY <1>0, <2>1, BoundCounts DEF Counted, WindowShaped
<1>2. held \in [control : 0..Cardinality(Loads), stream : 0..Cardinality(Loads), generation : 0..Cardinality(Loads)]
  <2>1. held.control \in 0..Cardinality(Loads) /\ held.stream \in 0..Cardinality(Loads)
        /\ held.generation \in 0..Cardinality(Loads)
    BY <1>0, <1>1 DEF WindowShaped, LoadsInOrder, Counted
  <2> QED
    BY <1>0, <2>1 DEF WindowShaped
<1>3. "commands" \notin overlaps => IdsApart
  BY DEF TableInOrder
<1>4. \A g \in Generations : Range(reader[g].pending) \cup Range(reader[g].buffer) \subseteq Frames
  BY FramesInRange DEF LineInv, InLine
<1>5. bound \in 0..next_generation
  BY <1>0 DEF WindowShaped, LoadsInOrder
<1>6. WindowTypeOK
  BY <1>0, <1>1, <1>2, <1>3, <1>4, <1>5 DEF WindowTypeOK, WindowShaped, LoadsTyped, WatchesTyped, Counted, TableShaped,
     AsksShaped, ReadersTyped, TableInOrder, IdsApart, IdsSingle
<1>7. StreamsAreFed
  <2>1. ASSUME overlaps \subseteq {"sessions"}, held.stream # NoStream, bound = held.stream
        PROVE  IdsFed
    <3>1. "commands" \notin overlaps /\ bound # 0
      BY <2>1 DEF NoStream
    <3>2. Emptied
      BY <1>0, <2>1 DEF Emptied, LoadsInOrder, Claims, Counted
    <3> QED
      BY <3>1, <3>2 DEF TableInOrder
  <2> QED
    BY <2>1 DEF StreamsAreFed, IdsFed
<1> QED
  BY <1>6, <1>7 DEF TableAgrees

-----------------------------------------------------------------------------
\* A reader that waits with frames held.

\* Steps that route nothing new and install no stream.
LEMMA WokenStill ==
  ASSUME HeldIsWoken, \A g \in Generations : Same(reader[g], reader'[g]),
         held'.stream \in {held.stream, NoStream}, overlaps \subseteq overlaps',
         DOMAIN table'.by_stream \subseteq DOMAIN table.by_stream,
         \/ \A g \in Generations : reader[g].at = "blocked" /\ held.stream = g => reader'[g].signals # <<>>
         \/ \A t \in Attaches : attach[t].at = "recorded" => attach'[t].at = "recorded"
  PROVE  HeldIsWoken'
<1> SUFFICES ASSUME NEW g \in Generations,
                    reader'[g].at = "blocked", reader'[g].pending # <<>>, Routed(HeldFor(reader[g]))',
                    held'.stream = g, "commands" \notin overlaps'
             PROVE  reader'[g].signals # <<>> \/ \E t \in Attaches : attach'[t].at = "recorded"
  BY DEF HeldIsWoken
<1>1. Same(reader[g], reader'[g]) /\ held.stream = g
  BY GenerationsCount DEF NoStream
<1>2. reader[g].at = "blocked" /\ reader[g].pending # <<>> /\ HeldFor(reader'[g]) = HeldFor(reader[g])
  BY <1>1 DEF Same, HeldFor
<1>3. Routed(HeldFor(reader[g]))
  BY <1>2 DEF Routed
<1>4. reader[g].signals # <<>> \/ \E t \in Attaches : attach[t].at = "recorded"
  BY <1>1, <1>2, <1>3 DEF HeldIsWoken
<1> QED
  BY <1>1, <1>2, <1>4 DEF Same

LEMMA WokenStart == Init => HeldIsWoken
BY DEF Init, HeldIsWoken, Unspawned

LEMMA WokenCalm ==
  ASSUME WindowInv, LineInv, CountInv, HeldIsWoken,
         \/ \E w \in Watches : Watch(w)
         \/ \E g \in Generations : OnClosed(g) \/ Unbind(g)
         \/ \E g \in Generations, i \in Ids : SendFrame(g, i)
         \/ \E c \in 1..Cardinality(Loads) : ControlFails(c)
         \/ Announce \/ UNCHANGED vars
  PROVE  HeldIsWoken'
<1>1. \A g \in Generations : Same(reader[g], reader'[g])
  BY ReadersSame DEF CountInv
<1>2. UNCHANGED <<table, attach, overlaps>> /\ held' \in {held, Nobody}
  BY DEF Watch, OnClosed, Unbind, SendFrame, ControlFails, Announce, vars, stateVars, commandVars, historyVars,
         DisconnectControl, DisconnectGeneration, Take
<1> QED
  BY <1>1, <1>2, WokenStill DEF Nobody

LEMMA WokenReads ==
  ASSUME HeldIsWoken, NEW h \in Generations, Moves(h)
  PROVE  HeldIsWoken'
<1> SUFFICES ASSUME NEW g \in Generations,
                    reader'[g].at = "blocked", reader'[g].pending # <<>>, Routed(HeldFor(reader[g]))',
                    held'.stream = g, "commands" \notin overlaps'
             PROVE  reader'[g].signals # <<>> \/ \E t \in Attaches : attach'[t].at = "recorded"
  BY DEF HeldIsWoken
<1>1. UNCHANGED <<held, table, attach, overlaps>>
  BY DEF Moves
<1>2. CASE g # h
  BY <1>1, <1>2 DEF Moves, HeldIsWoken, Routed
<1>3. CASE g = h
  BY <1>1, <1>3 DEF Moves, Routed, HeldFor
<1> QED
  BY <1>2, <1>3

LEMMA WokenLoads ==
  ASSUME WindowInv, LineInv, CountInv, TableInOrder, HeldIsWoken, NEW l \in Loads,
         ConnectHeld(l) \/ Connect(l) \/ LoadStep(l)
  PROVE  HeldIsWoken'
<1>0. /\ LoadsTyped /\ ReadersShaped(reader) /\ held \in [control : Nat, stream : Nat, generation : Nat]
  BY DEF WindowInv, WindowShaped
<1>1. CASE SpawnReader(l) \/ InstallStream(l)
  <2>1. overlaps' = overlaps
    BY <1>1 DEF SpawnReader, InstallStream, historyVars
  <2>2. "commands" \notin overlaps => DOMAIN table'.by_stream = {}
    <3>1. CASE SpawnReader(l)
      BY <3>1 DEF SpawnReader, NewTable, EmptyMap
    <3>2. CASE InstallStream(l)
      BY <3>2 DEF InstallStream, Returns, TableInOrder, IdsApart
    <3> QED
      BY <1>1, <3>1, <3>2
  <2> QED
    BY <2>1, <2>2 DEF HeldIsWoken, Routed
<1>2. CASE ~SpawnReader(l) /\ ~InstallStream(l)
  <2>1. \A g \in Generations : Same(reader[g], reader'[g])
    BY <1>2, ReadersSame DEF CountInv
  <2>2. UNCHANGED <<table, attach>> /\ overlaps \subseteq overlaps'
    BY <1>2 DEF ConnectHeld, Connect, LoadStep, Supersede, SupersedeNothing, AnnounceSuperseded, Handshake,
         HandshakeFails, InstallNothing, LoadFails, stateVars, historyVars, Starts, Overlap
  <2>3. held'.stream \in {held.stream, NoStream}
    BY <1>0, <1>2 DEF ConnectHeld, Connect, LoadStep, Supersede, SupersedeNothing, AnnounceSuperseded, Handshake,
         HandshakeFails, InstallNothing, LoadFails, stateVars, Nobody
  <2> QED
    BY <2>1, <2>2, <2>3, WokenStill
<1> QED
  BY <1>1, <1>2

LEMMA WokenAttaches ==
  ASSUME WindowInv, LineInv, CountInv, HeldIsWoken, NEW t \in Attaches,
         AttachKnown(t) \/ AttachUnknown(t) \/ AttachStep(t)
  PROVE  HeldIsWoken'
<1>0. AsksShaped /\ ReadersShaped(reader)
  BY DEF CountInv, WindowInv, WindowShaped
<1>1. \A g \in Generations : Same(reader[g], reader'[g])
  BY <1>0, ReadersSame
<1>2. CASE RememberAttach(t)
  <2>1. attach' = [attach EXCEPT ![t].at = "recorded"]
    BY <1>2 DEF RememberAttach, Ask
  <2>2. attach'[t].at = "recorded"
    BY <1>0, <2>1 DEF AsksShaped
  <2> QED
    BY <2>2 DEF HeldIsWoken
<1>3. CASE ~RememberAttach(t)
  <2>1. table' = table /\ overlaps \subseteq overlaps' /\ held' \in {held, Nobody}
    BY <1>3 DEF AttachKnown, AttachUnknown, AttachStep, AnswerAttach, RefuseAttach, FailAttach, SignalAttached,
                stateVars, historyVars, StartsAttach, Overlap, DisconnectControl, Take
  <2>2. held'.stream \in {held.stream, NoStream}
    BY <2>1 DEF Nobody
  <2>3. CASE SignalAttached(t)
    <3>1. reader' = Send(reader, held.stream, Attached)
      BY <2>3 DEF SignalAttached
    <3>2. \A g \in Generations : reader[g].at = "blocked" /\ held.stream = g => reader'[g].signals # <<>>
      BY <1>0, <3>1, SendSignals
    <3> QED
      BY <1>1, <2>1, <2>2, <3>2, WokenStill
  <2>4. CASE ~SignalAttached(t)
    <3>1. \A u \in Attaches : u # t => attach'[u] = attach[u]
      BY <1>0, <1>3, <2>4 DEF AttachKnown, AttachUnknown, AttachStep, AnswerAttach, RefuseAttach, FailAttach,
              AskReturns, AsksShaped
    <3>2. attach[t].at # "recorded"
      BY <1>3, <2>4 DEF AttachKnown, AttachUnknown, AttachStep, AnswerAttach, RefuseAttach, FailAttach, AskReturns
    <3> QED
      BY <1>1, <2>1, <2>2, <3>1, <3>2, WokenStill
  <2> QED
    BY <2>3, <2>4
<1> QED
  BY <1>2, <1>3

LEMMA WokenDetaches ==
  ASSUME WindowInv, LineInv, CountInv, HeldIsWoken, NEW t \in Detaches,
         ForgetDetach(t) \/ SignalDetach(t) \/ ServeDetach(t) \/ FailDetach(t)
  PROVE  HeldIsWoken'
<1>1. \A g \in Generations : Same(reader[g], reader'[g])
  BY ReadersSame DEF CountInv
<1>2. attach' = attach /\ overlaps \subseteq overlaps' /\ held' \in {held, Nobody}
  BY DEF ForgetDetach, SignalDetach, ServeDetach, FailDetach, stateVars, historyVars, Overlap, DisconnectControl, Take
<1>3. DOMAIN table'.by_stream \subseteq DOMAIN table.by_stream
  <2>1. CASE ForgetDetach(t)
    BY <2>1, ForgetEffect DEF ForgetDetach, CountInv
  <2>2. CASE ~ForgetDetach(t)
    BY <2>2 DEF SignalDetach, ServeDetach, FailDetach, stateVars
  <2> QED
    BY <2>1, <2>2
<1> QED
  BY <1>1, <1>2, <1>3, WokenStill DEF Nobody

LEMMA WokenStep ==
  ASSUME WindowInv, LineInv, CountInv, TableInOrder, HeldIsWoken, [Next]_vars
  PROVE  HeldIsWoken'
<1>1. \/ \E l \in Loads : ConnectHeld(l) \/ Connect(l) \/ LoadStep(l)
      \/ \E t \in Attaches : AttachKnown(t) \/ AttachUnknown(t) \/ AttachStep(t)
      \/ \E t \in Detaches : ForgetDetach(t) \/ SignalDetach(t) \/ ServeDetach(t) \/ FailDetach(t)
      \/ \E w \in Watches : Watch(w)
      \/ \E g \in Generations : (ReaderStep(g) /\ ~OnClosed(g)) \/ OnClosed(g) \/ Unbind(g)
      \/ \E g \in Generations, i \in Ids : SendFrame(g, i)
      \/ \E c \in 1..Cardinality(Loads) : ControlFails(c)
      \/ Announce \/ UNCHANGED vars
  BY DEF Next
<1>2. ASSUME NEW g \in Generations, ReaderStep(g), ~OnClosed(g)
      PROVE  HeldIsWoken'
  BY <1>2, ReaderMoves, WokenReads
<1> QED
  BY <1>1, <1>2, WokenCalm, WokenLoads, WokenAttaches, WokenDetaches

-----------------------------------------------------------------------------
\* The reader and the daemon.

\* The reader of the live generation.
Running(g) == Live(g) /\ reader[g].at \notin {"none", "over", "ended"}

Underway(g) == Range(reader[g].pending) \cup Range(reader[g].buffer) \cup Range(peer[g].wire)

\* It reads what the daemon is bound to, from the handshake on.
BoundInOrder ==
  /\ \A g \in Generations : Running(g) => bound = g
  /\ \A l \in Loads : load[l].at = "answered" => bound = load[l].generation

\* Nothing is read while a frame is held.
HeldInOrder == \A g \in Generations : reader[g].at \in {"none", "read", "over", "ended"} => reader[g].pending = <<>>

\* The daemon feeds, and has written for, ids that it gave out.
GivenOut == \A g \in Generations : ~peer[g].closed =>
              /\ DOMAIN peer[g].feeds \subseteq 1..peer[g].last
              /\ \A f \in Underway(g) : f.stream <= peer[g].last

\* It has given none out on a connection that has no reader yet.
Fresher(l) == load[l].at \in {"claimed", "announced", "answered"}
Blank ==
  /\ \A g \in Generations : g > next_generation => peer[g].last = 0
  /\ overlaps = {} => \A l \in Loads : Fresher(l) =>
                        \A g \in Generations : g = load[l].generation => peer[g].last = 0

\* The watermark of the table is the next id, or the one that is being recorded.
Watermark ==
  /\ \A t \in Attaches : Answered(t) => attach[t].stream = peer[bound].last /\ table.next = peer[bound].last
  /\ (\A t \in Attaches : ~Answered(t)) => table.next = peer[bound].last + 1

\* What the reader of g holds is at the watermark or can be delivered, and
\* came after the rest of its buffer; what the daemon feeds below the watermark
\* is routed, or a detach of it is on its way.
HeldAtWatermark(g) ==
  reader[g].pending # <<>> =>
    /\ Routed(HeldFor(reader[g])) \/ HeldFor(reader[g]) = table.next
    /\ \A f \in Range(reader[g].buffer) : f.stream <= HeldFor(reader[g])
Leaving(i, g) == \E d \in Detaches : Detaching(d) /\ detach[d].stream = i /\ detach[d].on = g
FedIsRouted(g) == \A i \in DOMAIN peer[g].feeds : i < table.next => Routed(i) \/ Leaving(i, g)

PeersInOrder ==
  overlaps = {} =>
    /\ astray = {}
    /\ bound # 0 /\ Emptied => Watermark
    /\ \A g \in Generations : Running(g) => HeldAtWatermark(g) /\ FedIsRouted(g)

PeersInv == BoundInOrder /\ HeldInOrder /\ GivenOut /\ Blank /\ PeersInOrder

\* The live generation runs: the daemon is bound to it, and has not closed on it.
LEMMA RunsBound ==
  ASSUME WindowInv, CountInv, BoundInOrder, NEW g \in Generations, Running(g)
  PROVE  bound = g /\ bound # 0 /\ Emptied /\ ~peer[g].closed
<1>1. LoadsInOrder /\ ReadersInOrder
  BY DEF WindowInv
<1>2. Emptied
  BY <1>1 DEF Emptied, Running, Live, LoadsInOrder, Claims
<1>3. ~peer[g].closed
  BY <1>1 DEF ReadersInOrder, Running, Gone
<1> QED
  BY <1>2, <1>3, GenerationsCount DEF BoundInOrder

\* Steps that leave the daemon, the table and the loads that connect alone.
LEMMA PeersStill ==
  ASSUME PeersInv, \A g \in Generations : Same(reader[g], reader'[g]),
         UNCHANGED <<table, next_generation, peer, bound, astray>>, overlaps \subseteq overlaps',
         \A g \in Generations : Live(g)' => Live(g),
         \A l \in Loads : load'[l].at = "answered" => load[l].at = "answered",
         \A l \in Loads : Fresher(l)' => Fresher(l) /\ load'[l].generation = load[l].generation,
         Emptied' => Emptied,
         \A t \in Attaches : Answered(t)' <=> Answered(t),
         \A t \in Attaches : Answered(t) => attach'[t].stream = attach[t].stream,
         overlaps' = {} => \A g \in Generations, d \in Detaches : Live(g)' /\ Detaching(d) =>
           Detaching(d)' /\ detach'[d].stream = detach[d].stream /\ detach'[d].on = detach[d].on
  PROVE  PeersInv'
<1>1. \A g \in Generations : /\ reader'[g].at = reader[g].at \/ (reader[g].at = "over" /\ reader'[g].at = "ended")
                             /\ reader'[g].pending = reader[g].pending /\ reader'[g].buffer = reader[g].buffer
  BY DEF Same
<1>2. \A g \in Generations : Running(g)' => Running(g)
  BY <1>1 DEF Running
<1>3. BoundInOrder'
  BY <1>2 DEF PeersInv, BoundInOrder, Fresher
<1>4. HeldInOrder'
  BY <1>1 DEF PeersInv, HeldInOrder
<1>5. GivenOut'
  BY <1>1 DEF PeersInv, GivenOut, Underway
<1>6. Blank'
  BY DEF PeersInv, Blank
<1>7. ASSUME overlaps' = {}
      PROVE  /\ astray' = {}
             /\ bound' # 0 /\ Emptied' => Watermark'
             /\ \A g \in Generations : Running(g)' => HeldAtWatermark(g)' /\ FedIsRouted(g)'
  <2>1. /\ astray = {}
        /\ bound # 0 /\ Emptied => Watermark
        /\ \A g \in Generations : Running(g) => HeldAtWatermark(g) /\ FedIsRouted(g)
    BY <1>7 DEF PeersInv, PeersInOrder
  <2>2. bound' # 0 /\ Emptied' => Watermark'
    BY <2>1 DEF Watermark
  <2>3. ASSUME NEW g \in Generations, Running(g)'
        PROVE  HeldAtWatermark(g)' /\ FedIsRouted(g)'
    <3>1. HeldAtWatermark(g) /\ FedIsRouted(g) /\ Live(g)'
      BY <1>2, <2>1, <2>3 DEF Running
    <3>2. HeldAtWatermark(g)'
      BY <1>1, <3>1 DEF HeldAtWatermark, Routed, HeldFor
    <3>3. \A i : Leaving(i, g) => Leaving(i, g)'
      BY <1>7, <3>1 DEF Leaving
    <3>4. FedIsRouted(g)'
      BY <3>1, <3>3 DEF FedIsRouted, Routed
    <3> QED
      BY <3>2, <3>4
  <2> QED
    BY <2>1, <2>2, <2>3
<1> QED
  BY <1>3, <1>4, <1>5, <1>6, <1>7 DEF PeersInv, PeersInOrder

LEMMA PeersStart == Init => PeersInv
<1> SUFFICES ASSUME Init PROVE PeersInv
  OBVIOUS
<1>1. /\ held = Nobody /\ bound = 0 /\ astray = {}
      /\ \A l \in Loads : load[l].at \in {"idle", "failed"}
      /\ \A g \in Generations : reader[g] = Unspawned /\ peer[g] = Unopened
  BY DEF Init, LoadAt
<1>2. \A g \in Generations : ~Running(g)
  BY <1>1 DEF Running, Unspawned
<1>3. \A g \in Generations : /\ reader[g].pending = <<>> /\ reader[g].buffer = <<>> /\ peer[g].wire = <<>>
                             /\ DOMAIN peer[g].feeds = {} /\ peer[g].last = 0
  BY <1>1 DEF Unspawned, Unopened, EmptyMap
<1>4. Range(<<>>) = {}
  BY DEF Range
<1> QED
  BY <1>1, <1>2, <1>3, <1>4 DEF PeersInv, BoundInOrder, HeldInOrder, GivenOut, Underway, Blank, PeersInOrder, Fresher

LEMMA UnderwayTyped ==
  ASSUME LineInv, NEW g \in Generations
  PROVE  \A f \in Underway(g) : f \in Frames /\ f.stream \in Ids /\ f.stream \in Nat
<1>1. /\ Range(reader[g].pending) \subseteq Frames /\ Range(reader[g].buffer) \subseteq Frames
      /\ Range(peer[g].wire) \subseteq Frames
  BY FramesInRange DEF LineInv, InLine
<1> QED
  BY <1>1, CommandsFinite DEF Underway, Frames, Ids


LEMMA PeersCalm ==
  ASSUME WindowInv, LineInv, CountInv, PeersInv,
         \/ \E w \in Watches : Watch(w)
         \/ \E g \in Generations : OnClosed(g)
         \/ \E c \in 1..Cardinality(Loads) : ControlFails(c)
         \/ Announce \/ UNCHANGED vars
  PROVE  PeersInv'
<1>1. \A g \in Generations : Same(reader[g], reader'[g])
  BY ReadersSame DEF CountInv
<1>2. /\ UNCHANGED <<table, next_generation, load, attach, detach, peer, bound, astray, overlaps>>
      /\ held' \in {held, Nobody}
  BY DEF Watch, OnClosed, ControlFails, Announce, vars, stateVars, commandVars, daemonVars, historyVars,
         DisconnectControl, DisconnectGeneration, Take
<1>3. \A g \in Generations : Live(g)' => Live(g)
  BY <1>2 DEF Live, Nobody
<1>4. /\ \A l \in Loads : Fresher(l)' => Fresher(l)
      /\ \A t \in Attaches : Answered(t)' <=> Answered(t)
      /\ \A d \in Detaches : Detaching(d)' <=> Detaching(d)
      /\ Emptied' => Emptied
  BY <1>2 DEF Fresher, Answered, Detaching, Emptied
<1> QED
  BY <1>1, <1>2, <1>3, <1>4, PeersStill

LEMMA PeersAttaches ==
  ASSUME WindowInv, LineInv, CountInv, PeersInv, NEW t \in Attaches,
         AttachKnown(t) \/ AttachUnknown(t) \/ RefuseAttach(t) \/ FailAttach(t) \/ SignalAttached(t)
  PROVE  PeersInv'
<1>0. AsksShaped
  BY DEF CountInv
<1>1. \A g \in Generations : Same(reader[g], reader'[g])
  BY <1>0, ReadersSame DEF AttachStep
<1>2. /\ UNCHANGED <<table, next_generation, load, detach, peer, bound, astray>> /\ held' \in {held, Nobody}
      /\ overlaps \subseteq overlaps'
  BY DEF AttachKnown, AttachUnknown, RefuseAttach, FailAttach, SignalAttached, stateVars, daemonVars, historyVars,
         DisconnectControl, Take, StartsAttach, Overlap
<1>3. \A g \in Generations : Live(g)' => Live(g)
  BY <1>2 DEF Live, Nobody
<1>4. PICK q \in {AskAt("done"), AskAt("failed"), Asked(t)} :
        attach' = [attach EXCEPT ![t] = q] /\ attach[t].at # "answered"
  BY DEF AttachKnown, AttachUnknown, RefuseAttach, FailAttach, SignalAttached, AskReturns
<1>5. q.at # "answered"
  BY <1>4 DEF AskAt, Asked
<1>6. attach'[t] = q /\ \A u \in Attaches : u # t => attach'[u] = attach[u]
  BY <1>0, <1>4 DEF AsksShaped
<1>7. /\ \A l \in Loads : Fresher(l)' => Fresher(l)
      /\ \A u \in Attaches : Answered(u)' <=> Answered(u)
      /\ \A u \in Attaches : Answered(u) => attach'[u] = attach[u]
      /\ \A d \in Detaches : Detaching(d)' <=> Detaching(d)
      /\ Emptied' => Emptied
  BY <1>2, <1>4, <1>5, <1>6 DEF Fresher, Answered, Detaching, Emptied
<1> QED
  BY <1>1, <1>2, <1>3, <1>7, PeersStill

LEMMA PeersDetaches ==
  ASSUME WindowInv, LineInv, CountInv, PeersInv, NEW t \in Detaches, SignalDetach(t) \/ FailDetach(t)
  PROVE  PeersInv'
<1>0. AsksShaped
  BY DEF CountInv
<1>1. \A g \in Generations : Same(reader[g], reader'[g])
  BY <1>0, ReadersSame
<1>2. /\ UNCHANGED <<table, next_generation, load, attach, peer, bound, astray>> /\ held' \in {held, Nobody}
      /\ overlaps \subseteq overlaps'
  BY DEF SignalDetach, FailDetach, stateVars, daemonVars, historyVars, DisconnectControl, Take, Overlap
<1>3. \A g \in Generations : Live(g)' => Live(g)
  BY <1>2 DEF Live, Nobody
<1>4. ASSUME overlaps' = {}, NEW g \in Generations, NEW d \in Detaches, Live(g)', Detaching(d)
      PROVE  Detaching(d)' /\ detach'[d].stream = detach[d].stream /\ detach'[d].on = detach[d].on
  <2>1. SignalDetach(t)
    BY <1>4 DEF FailDetach, Overlap
  <2>2. held.control # NoControl
    BY <1>3, <1>4 DEF Live
  <2>3. detach' = [detach EXCEPT ![t].at = "sent", ![t].control = held.control]
    BY <2>1, <2>2 DEF SignalDetach
  <2>4. d # t => detach'[d] = detach[d]
    BY <1>0, <2>3 DEF AsksShaped
  <2>5. detach'[t].at = "sent" /\ detach'[t].stream = detach[t].stream /\ detach'[t].on = detach[t].on
    BY <1>0, <2>3 DEF AsksShaped
  <2> QED
    BY <1>4, <2>4, <2>5 DEF Detaching
<1>5. /\ \A l \in Loads : Fresher(l)' => Fresher(l)
      /\ \A u \in Attaches : Answered(u)' <=> Answered(u)
      /\ Emptied' => Emptied
  BY <1>2 DEF Fresher, Answered, Emptied
<1> QED
  BY <1>1, <1>2, <1>3, <1>4, <1>5, PeersStill

\* Nothing the daemon fed is fed any more, and no reader runs; what was given
\* out is forgotten or stands.
LEMMA PeersStop ==
  ASSUME PeersInv, WindowInv, LineInv,
         \A g \in Generations : ~Running(g)',
         \A g \in Generations : Same(reader[g], reader'[g]),
         \A g \in Generations : ~peer'[g].closed => peer'[g] = peer[g],
         \A g \in Generations : peer'[g].last \in {0, peer[g].last},
         UNCHANGED <<table, attach, astray>>, overlaps \subseteq overlaps',
         next_generation' \in Nat, next_generation' >= next_generation,
         \A l \in Loads : load'[l].at = "answered" => bound' = load'[l].generation,
         \A l \in Loads : Fresher(l)' =>
            (Fresher(l) /\ load'[l].generation = load[l].generation) \/ load'[l].generation > next_generation,
         bound' # 0 /\ Emptied' => bound' = bound /\ Emptied /\ peer'[bound].last = peer[bound].last
  PROVE  PeersInv'
<1>1. \A g \in Generations : /\ reader'[g].at = reader[g].at \/ (reader[g].at = "over" /\ reader'[g].at = "ended")
                             /\ reader'[g].pending = reader[g].pending /\ reader'[g].buffer = reader[g].buffer
  BY DEF Same
<1>2. BoundInOrder'
  BY DEF BoundInOrder
<1>3. HeldInOrder'
  BY <1>1 DEF PeersInv, HeldInOrder
<1>4. GivenOut'
  BY <1>1 DEF PeersInv, GivenOut, Underway
<1>5. Blank'
  <2>1. \A g \in Generations : g > next_generation => peer[g].last = 0
    BY DEF PeersInv, Blank
  <2>2. next_generation \in Nat /\ Generations \subseteq Nat
    BY GenerationsCount DEF WindowInv, WindowShaped
  <2>3. \A g \in Generations : g > next_generation' => g > next_generation
    BY <2>2
  <2> QED
    BY <2>1, <2>3 DEF PeersInv, Blank
<1>6. overlaps' = {} => astray' = {} /\ (bound' # 0 /\ Emptied' => Watermark')
  BY DEF PeersInv, PeersInOrder, Watermark, Answered
<1> QED
  BY <1>2, <1>3, <1>4, <1>5, <1>6 DEF PeersInv, PeersInOrder

\* The daemon closes the connection it had, if any.
LEMMA ReplacedEffect ==
  ASSUME WindowInv, peer' = Replaced
  PROVE  \A g \in Generations : /\ ~peer'[g].closed => peer'[g] = peer[g]
                                /\ peer'[g].last \in {0, peer[g].last}
<1>1. peer' = peer \/ peer' = [peer EXCEPT ![bound] = Closed(@)]
  BY DEF Replaced
<1>2. \A o : Closed(o).closed = TRUE /\ Closed(o).last = 0
  BY DEF Closed, Unopened
<1> QED
  BY <1>1, <1>2 DEF WindowInv, WindowShaped, PeersShaped

LEMMA PeersShakes ==
  ASSUME WindowInv, LineInv, CountInv, PeersInv, NEW l \in Loads,
         Supersede(l) \/ Handshake(l) \/ (HandshakeFails(l) /\ peer' = Replaced /\ bound' = 0)
  PROVE  PeersInv'
<1>0. /\ LoadsTyped /\ LoadsInOrder /\ ReadersInOrder /\ next_generation \in Nat
      /\ held \in [control : Nat, stream : Nat, generation : Nat]
  BY DEF WindowInv, WindowShaped
<1>1. \A g \in Generations : Same(reader[g], reader'[g])
  <2>1. LoadStep(l) /\ ~SpawnReader(l)
    BY <1>0 DEF LoadStep, Supersede, Handshake, HandshakeFails, LoadFails, SpawnReader, Load, Returns, LoadsTyped
  <2> QED
    BY <2>1, ReadersSame DEF CountInv
<1>2. /\ UNCHANGED <<table, attach, astray, reader>> /\ overlaps \subseteq overlaps'
      /\ next_generation' \in {next_generation, next_generation + 1}
  BY DEF Supersede, Handshake, HandshakeFails, LoadFails, stateVars, historyVars
<1>3. \A k \in Loads : k # l => load'[k] = load[k] /\ load'[k].at # "answered"
  <2>1. \A k \in Loads : k # l => load'[k] = load[k]
    BY <1>0 DEF Supersede, Handshake, HandshakeFails, LoadFails, Load, Returns, LoadsTyped
  <2>2. l \in LoadRuns
    BY DEF Supersede, Handshake, HandshakeFails, LoadFails, Load, Returns, LoadRuns
  <2> QED
    BY <1>0, <2>1, <2>2 DEF LoadsInOrder, LoadRuns
<1>4. CASE Supersede(l)
  <2>1. /\ UNCHANGED <<peer, bound>> /\ load[l].at = "connected"
        /\ load'[l].at = "claimed" /\ load'[l].generation = next_generation + 1
    BY <1>0, <1>4 DEF Supersede, LoadsTyped, daemonVars
  <2>2. held'.generation = next_generation + 1
    BY <1>0, <1>4 DEF Supersede
  <2>3. \A g \in Generations : ~Running(g)'
    BY <1>0, <1>2, <2>2 DEF Running, Live, ReadersInOrder
  <2>4. Emptied' => Emptied
    BY <1>3, <2>1 DEF Emptied
  <2>5. \A k \in Loads : Fresher(k)' =>
            (Fresher(k) /\ load'[k].generation = load[k].generation) \/ load'[k].generation > next_generation
    BY <1>0, <1>3, <2>1 DEF Fresher
  <2>6. \A k \in Loads : load'[k].at = "answered" => bound' = load'[k].generation
    BY <1>3, <2>1
  <2> QED
    BY <1>0, <1>1, <1>2, <2>1, <2>3, <2>4, <2>5, <2>6, PeersStop
<1>5. CASE Handshake(l) \/ (HandshakeFails(l) /\ peer' = Replaced /\ bound' = 0)
  <2>1. /\ peer' = Replaced /\ held' = held /\ load[l].at = "announced" /\ next_generation' = next_generation
    BY <1>5 DEF Handshake, HandshakeFails, Load, LoadFails, Returns, stateVars
  <2>2. \/ /\ load'[l].at = "answered" /\ load'[l].generation = load[l].generation /\ bound' = load[l].generation
        \/ load'[l].at = "failed" /\ bound' = 0
    BY <1>0, <1>5 DEF Handshake, HandshakeFails, Load, LoadFails, Returns, LoadsTyped, LoadAt
  <2>3. \A g \in Generations : ~Running(g)'
    BY <1>0, <1>2, <2>1 DEF Running, Live, LoadsInOrder, Claims
  <2>4. ~(bound' # 0 /\ Emptied')
    BY <2>2 DEF Emptied
  <2>5. \A k \in Loads : load'[k].at = "answered" => bound' = load'[k].generation
    BY <1>3, <2>2
  <2>6. \A k \in Loads : Fresher(k)' => Fresher(k) /\ load'[k].generation = load[k].generation
    BY <1>3, <2>1, <2>2 DEF Fresher
  <2> QED
    BY <1>0, <1>1, <1>2, <2>1, <2>3, <2>4, <2>5, <2>6, ReplacedEffect, PeersStop
<1> QED
  BY <1>4, <1>5

LEMMA PeersUnbind ==
  ASSUME WindowInv, LineInv, CountInv, PeersInv, NEW g \in Generations, Unbind(g)
  PROVE  PeersInv'
<1>1. /\ bound = g /\ reader[g].at \in {"over", "ended"} /\ bound' = 0 /\ peer' = [peer EXCEPT ![g] = Closed(@)]
      /\ UNCHANGED <<held, table, next_generation, load, attach, reader, astray, overlaps>>
  BY DEF Unbind, stateVars, commandVars, historyVars
<1>2. \A h \in Generations : Same(reader[h], reader'[h])
  BY ReadersSame DEF CountInv
<1>3. \A h \in Generations : ~Running(h)'
  BY <1>1 DEF Running, Live, PeersInv, BoundInOrder
<1>4. \A h \in Generations : (~peer'[h].closed => peer'[h] = peer[h]) /\ peer'[h].last \in {0, peer[h].last}
  <2>1. \A o : Closed(o).closed = TRUE /\ Closed(o).last = 0
    BY DEF Closed, Unopened
  <2> QED
    BY <1>1, <2>1 DEF WindowInv, WindowShaped, PeersShaped
<1>5. \A l \in Loads : load[l].at # "answered"
  BY <1>1 DEF PeersInv, BoundInOrder, WindowInv, LoadsInOrder, Claims
<1>6. next_generation \in Nat
  BY DEF WindowInv, WindowShaped
<1>7. \A l \in Loads : Fresher(l)' => Fresher(l)
  BY <1>1 DEF Fresher
<1> QED
  BY <1>1, <1>2, <1>3, <1>4, <1>5, <1>6, <1>7, PeersStop

LEMMA PeersSpawn ==
  ASSUME WindowInv, LineInv, CountInv, PeersInv, NEW l \in Loads, SpawnReader(l)
  PROVE  PeersInv'
<1> DEFINE b == load[l].generation
<1>0. /\ LoadsTyped /\ LoadsInOrder /\ ReadersInOrder /\ ReadersShaped(reader) /\ Apart
      /\ BoundInOrder /\ HeldInOrder /\ GivenOut /\ Blank /\ PeersInOrder
  BY DEF WindowInv, WindowShaped, CountInv, PeersInv
<1>1. /\ load[l].at = "answered" /\ table' = NewTable
      /\ reader' = [reader EXCEPT ![b].at = "pass"]
      /\ UNCHANGED <<held, next_generation, attach, detach, peer, bound, astray, overlaps>>
  BY DEF SpawnReader, Load, daemonVars, historyVars
<1>2. /\ \A k \in Loads : k # l => load'[k] = load[k] /\ load'[k].at # "answered"
      /\ load'[l].at = "spawned"
  <2>1. /\ \A k \in Loads : k # l => load'[k] = load[k]
        /\ load'[l].at = "spawned"
    BY <1>0 DEF SpawnReader, Load, LoadsTyped
  <2> QED
    BY <1>0, <1>1, <2>1 DEF LoadsInOrder, LoadRuns
<1>3. bound = b /\ b \in Generations /\ reader[b].at = "none" /\ Fresher(l)
  <2>1. b \in 1..next_generation /\ next_generation \in 0..Cardinality(Loads)
    BY <1>0, <1>1, BoundCounts DEF LoadsInOrder, Claims
  <2>2. b \in Generations
    BY <2>1, GenerationsCount DEF Generations
  <2> QED
    BY <1>0, <1>1, <2>2 DEF LoadsInOrder, Claims, BoundInOrder, Fresher
<1>4. \A g \in Generations : /\ reader'[g].pending = reader[g].pending /\ reader'[g].buffer = reader[g].buffer
                             /\ g # b => reader'[g] = reader[g]
  <2>1. DOMAIN reader[b] = {"at", "signals", "ledger", "pending", "buffer", "shown"}
    BY <1>3 DEF LineInv, InLine
  <2> QED
    BY <1>0, <1>1, <1>3, <2>1 DEF ReadersShaped
<1>5. \A g \in Generations : Running(g)' => g = b /\ Live(b)
  BY <1>0, <1>1, <1>3 DEF Running, Live, LoadsInOrder, Claims
<1>6. BoundInOrder'
  BY <1>1, <1>2, <1>3, <1>5 DEF BoundInOrder
<1>7. HeldInOrder' /\ GivenOut'
  BY <1>0, <1>1, <1>3, <1>4 DEF HeldInOrder, GivenOut, Underway
<1>8. Blank'
  BY <1>0, <1>1, <1>2 DEF Blank, Fresher
<1>9. ASSUME overlaps = {}
      PROVE  Watermark' /\ \A g \in Generations : Running(g)' => HeldAtWatermark(g)' /\ FedIsRouted(g)'
  <2>1. AttachRuns = {}
    <3>1. l \in LoadRuns
      BY <1>1 DEF LoadRuns
    <3> QED
      BY <1>0, <1>9, <3>1 DEF Apart
  <2>2. \A t \in Attaches : ~Answered(t)'
    BY <1>1, <2>1 DEF AttachRuns, Answered
  <2>3. peer[b].last = 0
    BY <1>0, <1>3, <1>9 DEF Blank
  <2>4. table'.next = 1
    BY <1>1 DEF NewTable
  <2>5. Watermark'
    BY <1>1, <1>3, <2>2, <2>3, <2>4 DEF Watermark
  <2>6. ASSUME NEW g \in Generations, Running(g)'
        PROVE  HeldAtWatermark(g)' /\ FedIsRouted(g)'
    <3>1. g = b /\ Live(g)
      BY <1>5, <2>6
    <3>2. ~peer[g].closed
      BY <1>0, <1>3, <3>1 DEF ReadersInOrder, Gone
    <3>3. DOMAIN peer'[g].feeds = {}
      BY <1>0, <1>1, <2>3, <3>1, <3>2 DEF GivenOut
    <3>4. reader'[g].pending = <<>>
      BY <1>0, <1>3, <1>4, <3>1 DEF HeldInOrder
    <3> QED
      BY <3>3, <3>4 DEF HeldAtWatermark, FedIsRouted
  <2> QED
    BY <2>5, <2>6
<1>10. PeersInOrder'
  BY <1>0, <1>1, <1>9 DEF PeersInOrder
<1> QED
  BY <1>6, <1>7, <1>8, <1>10 DEF PeersInv

LEMMA PeersLoads ==
  ASSUME WindowInv, LineInv, CountInv, PeersInv, NEW l \in Loads, ConnectHeld(l) \/ Connect(l) \/ LoadStep(l)
  PROVE  PeersInv'
<1>0. /\ LoadsTyped /\ held \in [control : Nat, stream : Nat, generation : Nat]
  BY DEF WindowInv, WindowShaped
<1>1. CASE SpawnReader(l)
  BY <1>1, PeersSpawn
<1>2. CASE Supersede(l) \/ Handshake(l) \/ (HandshakeFails(l) /\ peer' = Replaced /\ bound' = 0)
  BY <1>2, PeersShakes
<1>3. CASE \/ ConnectHeld(l) \/ Connect(l) \/ SupersedeNothing(l) \/ AnnounceSuperseded(l)
           \/ InstallStream(l) \/ InstallNothing(l)
           \/ HandshakeFails(l) /\ UNCHANGED daemonVars
  <2>1. \A g \in Generations : Same(reader[g], reader'[g])
    <3>1. ~SpawnReader(l)
      BY <1>3 DEF ConnectHeld, Connect, SupersedeNothing, AnnounceSuperseded, InstallStream, InstallNothing,
                  HandshakeFails, SpawnReader, LoadFails, Load, Returns
    <3> QED
      BY <3>1, ReadersSame DEF CountInv
  <2>2. UNCHANGED <<table, next_generation, attach, detach, peer, bound, astray>> /\ overlaps \subseteq overlaps'
    BY <1>3 DEF ConnectHeld, Connect, SupersedeNothing, AnnounceSuperseded, InstallStream, InstallNothing,
                HandshakeFails, LoadFails, stateVars, daemonVars, historyVars, Starts, Overlap
  <2>3. \A g \in Generations : Live(g)' => Live(g)
    <3>1. \/ held' = held \/ held'.generation = 0
          \/ held.control # NoControl /\ held'.generation = held.generation
      BY <1>0, <1>3 DEF ConnectHeld, Connect, SupersedeNothing, AnnounceSuperseded, InstallStream, InstallNothing,
                HandshakeFails, LoadFails, stateVars, Nobody
    <3> QED
      BY <3>1, GenerationsCount DEF Live
  <2>4. /\ \A k \in Loads : k # l => load'[k] = load[k]
        /\ load'[l].at # "answered" /\ load[l].at # "answered"
        /\ load'[l].at \in {"claimed", "announced"} =>
             load[l].at \in {"claimed", "announced"} /\ load'[l].generation = load[l].generation
    BY <1>0, <1>3 DEF ConnectHeld, Connect, SupersedeNothing, AnnounceSuperseded, InstallStream, InstallNothing,
                HandshakeFails, LoadFails, Load, Returns, LoadAt, LoadsTyped
  <2>5. /\ \A k \in Loads : Fresher(k)' => Fresher(k) /\ load'[k].generation = load[k].generation
        /\ \A u \in Attaches : Answered(u)' <=> Answered(u)
        /\ \A d \in Detaches : Detaching(d)' <=> Detaching(d)
        /\ Emptied' => Emptied
    BY <2>2, <2>4 DEF Fresher, Answered, Detaching, Emptied
  <2> QED
    BY <2>1, <2>2, <2>3, <2>4, <2>5, PeersStill
<1> QED
  BY <1>1, <1>2, <1>3 DEF LoadStep, HandshakeFails


LEMMA PeersAnswer ==
  ASSUME WindowInv, LineInv, CountInv, PeersInv, NEW t \in Attaches, AnswerAttach(t)
  PROVE  PeersInv'
<1> DEFINE i == peer[bound].last + 1
<1>0. /\ LoadsInOrder /\ Apart /\ BoundInOrder /\ HeldInOrder /\ GivenOut /\ Blank /\ PeersInOrder
      /\ next_generation \in Nat
  BY DEF WindowInv, WindowShaped, CountInv, PeersInv
<1>1. /\ bound \in Generations /\ bound \in Nat
      /\ attach[t].at = "sent" /\ t \in AttachRuns
      /\ attach'[t].at = "answered" /\ attach'[t].stream = i
      /\ \A u \in Attaches : u # t => attach'[u] = attach[u]
      /\ peer'[bound].last = i
      /\ DOMAIN peer'[bound].feeds = DOMAIN peer[bound].feeds \cup {i}
      /\ peer'[bound].closed = peer[bound].closed /\ peer'[bound].wire = peer[bound].wire
      /\ \A g \in Generations : g # bound => peer'[g] = peer[g]
      /\ UNCHANGED <<stateVars, load, detach, watch, reader, bound, historyVars>>
  BY AnswerCounts
<1>2. UNCHANGED <<held, table, next_generation, load, detach, reader, bound, astray, overlaps>>
  BY <1>1 DEF stateVars, historyVars
<1>3. peer[bound].last \in Nat /\ i \in Nat /\ peer[bound].last < i
  BY <1>1 DEF CountInv, Counted
<1>4. bound # 0 /\ bound <= next_generation
  BY <1>0 DEF AnswerAttach, LoadsInOrder
<1>5. BoundInOrder' /\ HeldInOrder'
  BY <1>0, <1>2 DEF BoundInOrder, Running, Live, HeldInOrder
<1>6. GivenOut'
  <2>1. ASSUME NEW g \in Generations, g # bound, ~peer'[g].closed
        PROVE  /\ DOMAIN peer'[g].feeds \subseteq 1..peer'[g].last
               /\ \A f \in Underway(g)' : f.stream <= peer'[g].last
    BY <1>0, <1>1, <1>2, <2>1 DEF GivenOut, Underway
  <2>2. ASSUME ~peer'[bound].closed
        PROVE  DOMAIN peer'[bound].feeds \subseteq 1..i
    <3>1. DOMAIN peer[bound].feeds \subseteq 1..peer[bound].last
      BY <1>0, <1>1, <2>2 DEF GivenOut
    <3> QED
      BY <1>1, <1>3, <3>1
  <2>3. ASSUME NEW g \in Generations, g = bound, ~peer'[g].closed
        PROVE  \A f \in Underway(g)' : f.stream <= i
    <3>1. Underway(g)' = Underway(g)
      BY <1>1, <1>2, <2>3 DEF Underway
    <3>2. \A f \in Underway(g) : f.stream <= peer[g].last
      BY <1>0, <1>1, <2>3 DEF GivenOut
    <3>3. \A f \in Underway(g) : f.stream \in Nat
      BY UnderwayTyped
    <3> HIDE DEF i
    <3> QED
      BY <1>3, <2>3, <3>1, <3>2, <3>3
  <2> QED
    BY <1>1, <1>2, <2>1, <2>2, <2>3 DEF GivenOut
<1>7. ASSUME overlaps = {}
      PROVE  /\ AttachRuns = {t} /\ Emptied
             /\ \A l \in Loads : ~Fresher(l)
  <2>1. LoadRuns = {} /\ AttachRuns = {t}
    BY <1>0, <1>1, <1>7 DEF Apart
  <2> QED
    BY <2>1 DEF LoadRuns, Emptied, Fresher
<1>8. Blank'
  <2>1. \A g \in Generations : g > next_generation => g # bound
    BY <1>0, <1>1, <1>4
  <2>2. \A l \in Loads : Fresher(l)' => Fresher(l)
    BY <1>2 DEF Fresher
  <2> QED
    BY <1>0, <1>1, <1>2, <1>7, <2>1, <2>2 DEF Blank
<1>9. ASSUME overlaps = {}
      PROVE  Watermark' /\ \A g \in Generations : Running(g)' => HeldAtWatermark(g)' /\ FedIsRouted(g)'
  <2>1. \A u \in Attaches : ~Answered(u)
    BY <1>1, <1>7, <1>9 DEF AttachRuns, Answered
  <2>2. table.next = i
    BY <1>0, <1>4, <1>7, <1>9, <2>1 DEF PeersInOrder, Watermark
  <2>3. /\ \A u \in Attaches : Answered(u)' <=> u = t
    BY <1>1, <2>1 DEF Answered
  <2>4. Watermark'
    BY <1>1, <1>2, <2>2, <2>3 DEF Watermark
  <2>5. ASSUME NEW g \in Generations, Running(g)'
        PROVE  HeldAtWatermark(g)' /\ FedIsRouted(g)'
    <3>1. Running(g) /\ g = bound
      BY <1>0, <1>2, <2>5 DEF Running, Live, BoundInOrder
    <3>2. HeldAtWatermark(g) /\ FedIsRouted(g)
      BY <1>0, <1>9, <3>1 DEF PeersInOrder
    <3>3. HeldAtWatermark(g)'
      BY <1>2, <3>2 DEF HeldAtWatermark, Routed
    <3>4. \A j : Leaving(j, g) => Leaving(j, g)'
      BY <1>2 DEF Leaving, Detaching
    <3>5. ~(i < table'.next)
      BY <1>2, <1>3, <2>2
    <3> HIDE DEF i
    <3>6. FedIsRouted(g)'
      BY <1>1, <1>2, <3>1, <3>2, <3>4, <3>5 DEF FedIsRouted, Routed
    <3> QED
      BY <3>3, <3>6
  <2> QED
    BY <2>4, <2>5
<1>10. PeersInOrder'
  BY <1>0, <1>2, <1>9 DEF PeersInOrder
<1> QED
  BY <1>5, <1>6, <1>8, <1>10 DEF PeersInv

LEMMA PeersRemember ==
  ASSUME WindowInv, LineInv, CountInv, TableInOrder, PeersInv, NEW t \in Attaches, RememberAttach(t)
  PROVE  PeersInv'
<1> DEFINE i == attach[t].stream
           h == HandleOf[t]
           q == [attach[t] EXCEPT !.at = "recorded"]
<1>0. /\ AsksShaped /\ Apart /\ TableShaped(table)
      /\ BoundInOrder /\ HeldInOrder /\ GivenOut /\ Blank /\ PeersInOrder
  BY DEF CountInv, PeersInv
<1>1. /\ attach[t].at = "answered" /\ attach' = [attach EXCEPT ![t] = q]
      /\ table' = Remember(table, i, h)
      /\ UNCHANGED <<held, next_generation, load, detach, reader, peer, bound, astray, overlaps>>
  BY <1>0 DEF RememberAttach, Ask, AsksShaped, historyVars, daemonVars
<1>2. q.at = "recorded"
  BY <1>0 DEF AsksShaped
<1>3. i \in Ids /\ h \in Handles /\ i \in Nat
  BY <1>0, <1>1, HandlesOf, CommandsFinite DEF AsksShaped, Ids
<1> HIDE DEF q, i, h
<1>4. attach'[t].at = "recorded" /\ \A u \in Attaches : u # t => attach'[u] = attach[u]
  BY <1>0, <1>1, <1>2 DEF AsksShaped
<1>5. /\ DOMAIN table'.by_stream = DOMAIN table.by_stream \cup {i}
      /\ table'.next = IF i + 1 > table.next THEN i + 1 ELSE table.next
  BY <1>0, <1>1, <1>3, RememberEffect
<1>6. t \in AttachRuns /\ Answered(t)
  BY <1>1 DEF AttachRuns, Answered
<1>7. BoundInOrder' /\ HeldInOrder' /\ GivenOut' /\ Blank'
  BY <1>0, <1>1 DEF BoundInOrder, Running, Live, HeldInOrder, GivenOut, Underway, Blank, Fresher
<1>8. ASSUME overlaps = {}, bound # 0
      PROVE  /\ i = peer[bound].last /\ table.next = i /\ table'.next = i + 1
             /\ Watermark'
             /\ \A g \in Generations : Running(g)' => HeldAtWatermark(g)' /\ FedIsRouted(g)'
  <2>1. Emptied /\ \A u \in AttachRuns : u = t
    BY <1>0, <1>6, <1>8, RunsAlone DEF Apart
  <2>2. i = peer[bound].last /\ table.next = i
    BY <1>0, <1>6, <1>8, <2>1 DEF PeersInOrder, Watermark, i
  <2>3. table'.next = i + 1
    BY <1>3, <1>5, <2>2
  <2>4. \A u \in Attaches : ~Answered(u)'
    BY <1>4, <2>1 DEF Answered, AttachRuns
  <2>5. Watermark'
    BY <1>1, <2>2, <2>3, <2>4 DEF Watermark
  <2>6. ASSUME NEW g \in Generations, Running(g)'
        PROVE  HeldAtWatermark(g)' /\ FedIsRouted(g)'
    <3>1. Running(g) /\ g = bound /\ ~peer[g].closed
      <4>1. Running(g)
        BY <1>1, <2>6 DEF Running, Live
      <4> QED
        BY <1>0, <4>1, RunsBound
    <3>2. HeldAtWatermark(g) /\ FedIsRouted(g)
      BY <1>0, <1>8, <3>1 DEF PeersInOrder
    <3>3. \A j : Routed(j)' <=> Routed(j) \/ j = i
      BY <1>5 DEF Routed
    <3>4. HeldAtWatermark(g)'
      BY <1>1, <2>2, <3>2, <3>3 DEF HeldAtWatermark
    <3>5. \A j : Leaving(j, g) => Leaving(j, g)'
      BY <1>1 DEF Leaving, Detaching
    <3>6. \A j \in DOMAIN peer[g].feeds : j < i \/ j = i
      <4>1. DOMAIN peer[g].feeds \subseteq 1..i
        BY <1>0, <2>2, <3>1 DEF GivenOut
      <4> QED
        BY <1>3, <4>1
    <3>7. FedIsRouted(g)'
      BY <1>1, <2>2, <3>2, <3>3, <3>5, <3>6 DEF FedIsRouted
    <3> QED
      BY <3>4, <3>7
  <2> QED
    BY <2>2, <2>3, <2>5, <2>6
<1>9. \A g \in Generations : Running(g)' => bound # 0
  <2>1. \A g \in Generations : Running(g)' => Running(g)
    BY <1>1 DEF Running, Live
  <2> QED
    BY <1>0, <2>1, RunsBound
<1>10. PeersInOrder'
  BY <1>0, <1>1, <1>8, <1>9 DEF PeersInOrder
<1> QED
  BY <1>7, <1>10 DEF PeersInv

LEMMA PeersForget ==
  ASSUME WindowInv, LineInv, CountInv, PeersInv, NEW t \in Detaches, ForgetDetach(t)
  PROVE  PeersInv'
<1> DEFINE h == HandleOf[t]
           i == table.by_handle[h]
           q == [detach[t] EXCEPT !.at = "forgotten", !.stream = i, !.on = held.generation]
<1>0. /\ AsksShaped /\ TableShaped(table)
      /\ BoundInOrder /\ HeldInOrder /\ GivenOut /\ Blank /\ PeersInOrder
  BY DEF CountInv, PeersInv
<1>1. /\ h \in DOMAIN table.by_handle /\ table' = Forget(table, h)
      /\ detach' = [detach EXCEPT ![t] = q] /\ detach[t].at = "idle"
      /\ UNCHANGED <<held, next_generation, attach, load, reader, peer, bound, astray>>
      /\ overlaps \subseteq overlaps'
      /\ overlaps' = {} => \A g \in Generations : HeldFor(reader[g]) # i
  BY <1>0 DEF ForgetDetach, AsksShaped, Overlap, daemonVars, When
<1>2. q.at = "forgotten" /\ q.stream = i /\ q.on = held.generation
  BY <1>0 DEF AsksShaped
<1> HIDE DEF q, i, h
<1>3. detach'[t] = q /\ \A d \in Detaches : d # t => detach'[d] = detach[d]
  BY <1>0, <1>1, <1>2 DEF AsksShaped
<1>4. table'.next = table.next /\ DOMAIN table'.by_stream = DOMAIN table.by_stream \ {i}
  BY <1>0, <1>1, ForgetEffect DEF i
<1>5. BoundInOrder' /\ HeldInOrder' /\ GivenOut' /\ Blank'
  BY <1>0, <1>1 DEF BoundInOrder, Running, Live, HeldInOrder, GivenOut, Underway, Blank, Fresher
<1>6. ASSUME overlaps' = {}
      PROVE  /\ astray' = {} /\ (bound' # 0 /\ Emptied' => Watermark')
             /\ \A g \in Generations : Running(g)' => HeldAtWatermark(g)' /\ FedIsRouted(g)'
  <2>1. /\ astray = {} /\ (bound # 0 /\ Emptied => Watermark)
        /\ \A g \in Generations : Running(g) => HeldAtWatermark(g) /\ FedIsRouted(g)
    BY <1>0, <1>1, <1>6 DEF PeersInOrder
  <2>2. bound' # 0 /\ Emptied' => Watermark'
    BY <1>1, <1>4, <2>1 DEF Emptied, Watermark, Answered
  <2>3. ASSUME NEW g \in Generations, Running(g)'
        PROVE  HeldAtWatermark(g)' /\ FedIsRouted(g)'
    <3>1. HeldAtWatermark(g) /\ FedIsRouted(g) /\ held.generation = g
      BY <1>1, <2>1, <2>3 DEF Running, Live
    <3>2. \A j : Routed(j) => Routed(j)' \/ j = i
      BY <1>4 DEF Routed
    <3>7. HeldFor(reader[g]) # i /\ reader' = reader
      BY <1>1, <1>6
    <3>3. HeldAtWatermark(g)'
      BY <1>4, <3>1, <3>2, <3>7 DEF HeldAtWatermark
    <3>4. \A j : j = i => Leaving(j, g)'
      BY <1>2, <1>3, <3>1 DEF Leaving, Detaching
    <3>8. ~Detaching(t)
      BY <1>1 DEF Detaching
    <3>5. \A j : Leaving(j, g) => Leaving(j, g)'
      BY <1>3, <3>8 DEF Leaving, Detaching
    <3>6. FedIsRouted(g)'
      BY <1>1, <1>4, <3>1, <3>2, <3>4, <3>5 DEF FedIsRouted
    <3> QED
      BY <3>3, <3>6
  <2> QED
    BY <1>1, <2>1, <2>2, <2>3
<1> QED
  BY <1>5, <1>6 DEF PeersInv, PeersInOrder

LEMMA PeersServe ==
  ASSUME WindowInv, LineInv, CountInv, PeersInv, NEW t \in Detaches, ServeDetach(t)
  PROVE  PeersInv'
<1>0. BoundInOrder /\ HeldInOrder /\ GivenOut /\ Blank /\ PeersInOrder
  BY DEF PeersInv
<1>1. /\ detach[t].at = "sent" /\ detach'[t].at = "done"
      /\ \A d \in Detaches : d # t => detach'[d] = detach[d]
      /\ UNCHANGED <<stateVars, load, attach, watch, reader, bound, historyVars>>
      /\ \A g \in Generations : g # bound => peer'[g] = peer[g]
      /\ bound # 0 =>
           /\ peer'[bound].last = peer[bound].last /\ peer'[bound].closed = peer[bound].closed
           /\ peer'[bound].wire = peer[bound].wire
           /\ DOMAIN peer'[bound].feeds = DOMAIN peer[bound].feeds \ {detach[t].stream}
  BY ServeEffect
<1>2. UNCHANGED <<held, table, next_generation, load, attach, reader, bound, astray, overlaps>>
  BY <1>1 DEF stateVars, historyVars
<1>3. \A g \in Generations : /\ peer'[g].last = peer[g].last /\ peer'[g].closed = peer[g].closed
                             /\ peer'[g].wire = peer[g].wire
                             /\ DOMAIN peer'[g].feeds \subseteq DOMAIN peer[g].feeds
  BY <1>1, GenerationsCount
<1>4. BoundInOrder' /\ HeldInOrder' /\ Blank'
  BY <1>0, <1>2, <1>3 DEF BoundInOrder, Running, Live, HeldInOrder, Blank, Fresher
<1>5. GivenOut'
  BY <1>0, <1>2, <1>3 DEF GivenOut, Underway
<1>6. ASSUME overlaps = {}
      PROVE  /\ astray' = {} /\ (bound' # 0 /\ Emptied' => Watermark')
             /\ \A g \in Generations : Running(g)' => HeldAtWatermark(g)' /\ FedIsRouted(g)'
  <2>1. /\ astray = {} /\ (bound # 0 /\ Emptied => Watermark)
        /\ \A g \in Generations : Running(g) => HeldAtWatermark(g) /\ FedIsRouted(g)
    BY <1>0, <1>6 DEF PeersInOrder
  <2>2. bound' # 0 /\ Emptied' => Watermark'
    BY <1>1, <1>2, <2>1 DEF Emptied, Watermark, Answered
  <2>3. ASSUME NEW g \in Generations, Running(g)'
        PROVE  HeldAtWatermark(g)' /\ FedIsRouted(g)'
    <3>1. Running(g)
      BY <1>2, <2>3 DEF Running, Live
    <3>2. HeldAtWatermark(g) /\ FedIsRouted(g) /\ bound = g /\ bound # 0
      BY <1>0, <2>1, <3>1, RunsBound
    <3>3. HeldAtWatermark(g)'
      BY <1>2, <3>2 DEF HeldAtWatermark, Routed
    <3>4. \A j : Leaving(j, g) /\ j # detach[t].stream => Leaving(j, g)'
      BY <1>1 DEF Leaving, Detaching
    <3>5. FedIsRouted(g)'
      BY <1>1, <1>2, <3>2, <3>4 DEF FedIsRouted, Routed
    <3> QED
      BY <3>3, <3>5
  <2> QED
    BY <1>2, <2>1, <2>2, <2>3
<1> QED
  BY <1>2, <1>4, <1>5, <1>6 DEF PeersInv, PeersInOrder


LEMMA PeersWrites ==
  ASSUME WindowInv, LineInv, CountInv, PeersInv, NEW g \in Generations, NEW i \in Ids, SendFrame(g, i)
  PROVE  PeersInv'
<1>0. BoundInOrder /\ HeldInOrder /\ GivenOut /\ Blank /\ PeersInOrder /\ PeersShaped(peer)
  BY DEF PeersInv, WindowInv, WindowShaped
<1>1. /\ i \in DOMAIN peer[g].feeds
      /\ UNCHANGED <<held, table, next_generation, load, attach, detach, reader, bound, astray, overlaps>>
  BY DEF SendFrame, stateVars, commandVars, historyVars
<1>2. PICK n, f : f.stream = i /\ peer' = [peer EXCEPT ![g].sent[i] = n, ![g].wire = Append(@, f)]
  <2> DEFINE f == [stream |-> i, n |-> peer[g].sent[i] + 1]
  <2>1. peer' = [peer EXCEPT ![g].sent[i] = peer[g].sent[i] + 1, ![g].wire = Append(@, f)] /\ f.stream = i
    BY DEF SendFrame
  <2> HIDE DEF f
  <2> QED
    BY <2>1
<1>3. DOMAIN peer[g] = {"last", "feeds", "sent", "wire", "closed"} /\ peer[g].wire \in Seq(Frames)
  BY DEF LineInv, InLine
<1>4. /\ \A h \in Generations : h # g => peer'[h] = peer[h]
      /\ peer'[g].last = peer[g].last /\ peer'[g].feeds = peer[g].feeds /\ peer'[g].closed = peer[g].closed
      /\ peer'[g].wire = Append(peer[g].wire, f)
  BY <1>0, <1>2, <1>3 DEF PeersShaped
<1>5. Range(peer'[g].wire) \subseteq Range(peer[g].wire) \cup {f}
  BY <1>3, <1>4 DEF Range
<1>6. BoundInOrder' /\ HeldInOrder' /\ Blank'
  BY <1>0, <1>1, <1>4 DEF BoundInOrder, Running, Live, HeldInOrder, Blank, Fresher
<1>7. GivenOut'
  <2>1. \A h \in Generations : h # g => Underway(h)' = Underway(h)
    BY <1>1, <1>4 DEF Underway
  <2>2. Underway(g)' \subseteq Underway(g) \cup {f}
    BY <1>1, <1>5 DEF Underway
  <2>3. ~peer[g].closed => f.stream <= peer[g].last
    <3>1. ~peer[g].closed => i \in 1..peer[g].last
      BY <1>0, <1>1 DEF GivenOut
    <3>2. peer[g].last \in Nat
      BY DEF CountInv, Counted
    <3> QED
      BY <1>2, <3>1, <3>2
  <2> QED
    BY <1>0, <1>4, <2>1, <2>2, <2>3 DEF GivenOut
<1>8. \A h \in Generations : peer'[h].last = peer[h].last /\ peer'[h].feeds = peer[h].feeds
  BY <1>4
<1>9. bound # 0 => peer'[bound].last = peer[bound].last
  BY <1>8, BoundCounts
<1>10. PeersInOrder'
  <2>1. Watermark /\ bound # 0 => Watermark'
    BY <1>1, <1>9 DEF Watermark, Answered
  <2>2. \A h \in Generations : (Running(h)' => Running(h)) /\ (HeldAtWatermark(h) => HeldAtWatermark(h)')
    BY <1>1 DEF Running, Live, HeldAtWatermark, Routed
  <2>3. \A h \in Generations : FedIsRouted(h) => FedIsRouted(h)'
    BY <1>1, <1>8 DEF FedIsRouted, Routed, Leaving, Detaching
  <2>4. Emptied' => Emptied
    BY <1>1 DEF Emptied
  <2> QED
    BY <1>0, <1>1, <2>1, <2>2, <2>3, <2>4 DEF PeersInOrder
<1> QED
  BY <1>6, <1>7, <1>10 DEF PeersInv

\* A running reader finds the daemon at no fault: what it holds and cannot
\* deliver is being recorded, what is below the watermark and fed is routed or
\* leaving, and nothing comes from beyond it.
LEMMA ReaderTrusts ==
  ASSUME WindowInv, LineInv, CountInv, TableInOrder, PeersInv, overlaps = {}, NEW g \in Generations, Running(g),
         ReaderStep(g)
  PROVE  astray' = {}
<1> DEFINE f == Front(g)
<1>0. /\ bound = g /\ bound # 0 /\ Emptied /\ ~peer[g].closed
      /\ GivenOut /\ PeersInOrder /\ IdsFed /\ TableShaped(table)
  <2>1. bound = g /\ bound # 0 /\ Emptied /\ ~peer[g].closed
    BY RunsBound DEF PeersInv
  <2> QED
    BY <2>1 DEF PeersInv, TableInOrder, CountInv
<1>1. /\ astray = {} /\ Watermark /\ HeldAtWatermark(g) /\ FedIsRouted(g)
  BY <1>0 DEF PeersInOrder
<1>2. /\ \A e \in Underway(g) : e.stream \in Nat /\ e.stream <= peer[g].last
      /\ peer[g].last \in Nat /\ table.next \in Nat
      /\ \A i \in DOMAIN table.by_stream : i < table.next /\ i \in Nat
  BY <1>0, UnderwayTyped, CommandsFinite DEF GivenOut, CountInv, Counted, TableShaped, Ids
<1>3. /\ \A t \in Attaches : Answered(t) => attach[t].stream = peer[g].last /\ table.next = peer[g].last
      /\ (\A t \in Attaches : ~Answered(t)) => table.next = peer[g].last + 1
  BY <1>0, <1>1 DEF Watermark
<1>4. ~GiveUp(g)
  <2> SUFFICES ASSUME GiveUp(g) PROVE FALSE
    OBVIOUS
  <2>1. reader[g].pending # <<>> /\ ~Routed(HeldFor(reader[g]))
    BY DEF GiveUp, CanSettle
  <2>2. HeldFor(reader[g]) = table.next
    BY <1>1, <2>1 DEF HeldAtWatermark
  <2>3. HeldFor(reader[g]) <= peer[g].last
    <3>1. reader[g].pending \in Seq(Frames)
      BY DEF LineInv, InLine
    <3>2. reader[g].pending[1] \in Range(reader[g].pending)
      BY <2>1, <3>1 DEF Range
    <3>3. reader[g].pending[1].stream <= peer[g].last
      BY <1>2, <3>2 DEF Underway
    <3> QED
      BY <2>1, <3>3 DEF HeldFor
  <2>4. PICK t \in Attaches : Answered(t)
    BY <1>2, <1>3, <2>2, <2>3
  <2>5. attach[t].at = "answered" /\ attach[t].on = g /\ attach[t].stream = HeldFor(reader[g])
    BY <1>0, <1>3, <2>2, <2>4 DEF Answered, IdsFed
  <2> QED
    BY <2>5 DEF GiveUp
<1>5. ASSUME Routing(g)
      PROVE  f \in Range(reader[g].buffer) /\ f.stream \in Nat /\ f.stream <= peer[g].last
  <2>1. reader[g].buffer \in Seq(Frames) /\ reader[g].buffer # <<>>
    BY <1>5 DEF LineInv, InLine, Routing
  <2>2. f \in Range(reader[g].buffer)
    BY <2>1 DEF Range, Front
  <2> QED
    BY <1>2, <2>2 DEF Underway
<1> HIDE DEF f
<1>6. Discard(g) => astray' = astray
  <2> SUFFICES ASSUME Discard(g), Fed(g, f.stream) PROVE FALSE
    BY DEF Discard, f
  <2>1. f.stream < table.next /\ ~Routed(f.stream)
    BY DEF Discard, Unattached, f
  <2>2. f.stream \in DOMAIN peer[g].feeds /\ ~Leaving(f.stream, g)
    BY DEF Fed, Leaving
  <2> QED
    BY <1>1, <2>1, <2>2 DEF FedIsRouted
<1>7. ~DropConnection(g)
  <2> SUFFICES ASSUME DropConnection(g) PROVE FALSE
    OBVIOUS
  <2>1. /\ Routing(g) /\ HeldFor(reader[g]) # f.stream
        /\ f.stream >= table.next /\ (f.stream = table.next => reader[g].pending # <<>>)
    BY DEF DropConnection, Unattached, Held, f
  <2>2. f \in Range(reader[g].buffer) /\ f.stream \in Nat /\ f.stream <= peer[g].last
    BY <1>5, <2>1
  <2>3. f.stream = table.next
    BY <1>2, <1>3, <2>1, <2>2
  <2>4. f.stream <= HeldFor(reader[g]) /\ (Routed(HeldFor(reader[g])) \/ HeldFor(reader[g]) = table.next)
    BY <1>1, <2>1, <2>2, <2>3 DEF HeldAtWatermark
  <2>5. HeldFor(reader[g]) < table.next /\ HeldFor(reader[g]) \in Nat
    BY <1>2, <2>1, <2>3, <2>4 DEF Routed
  <2> QED
    BY <1>2, <2>3, <2>4, <2>5
<1>8. astray' = astray
  BY <1>4, <1>6, <1>7 DEF ReaderStep, Pass, TakeStop, Resettle, ReadFrames, ReadEnd, ReaderFails, HoldMore, Deliver,
     Hold, OnClosed, Local, historyVars
<1> QED
  BY <1>1, <1>8

LEMMA PartInRange ==
  ASSUME NEW s \in Seq(Frames), NEW n \in 1..Len(s)
  PROVE  /\ Range(SubSeq(s, 1, n)) \subseteq Range(s)
         /\ Range(SubSeq(s, n + 1, Len(s))) \subseteq Range(s)
<1>0. Len(s) \in Nat /\ n \in Nat /\ n <= Len(s) /\ DOMAIN s = 1..Len(s)
  OBVIOUS
<1>1. Range(SubSeq(s, 1, n)) \subseteq Range(s)
  <2>1. DOMAIN SubSeq(s, 1, n) = 1..n /\ \A k \in 1..n : SubSeq(s, 1, n)[k] = s[k]
    BY <1>0
  <2>2. \A k \in 1..n : k \in DOMAIN s
    BY <1>0
  <2> QED
    BY <2>1, <2>2 DEF Range
<1>2. Range(SubSeq(s, n + 1, Len(s))) \subseteq Range(s)
  <2>1. /\ DOMAIN SubSeq(s, n + 1, Len(s)) = 1..(Len(s) - n)
        /\ \A k \in 1..(Len(s) - n) : SubSeq(s, n + 1, Len(s))[k] = s[n + k]
    BY <1>0
  <2>2. \A k \in 1..(Len(s) - n) : n + k \in DOMAIN s
    BY <1>0
  <2> QED
    BY <2>1, <2>2 DEF Range
<1> QED
  BY <1>1, <1>2

LEMMA PeersReads ==
  ASSUME WindowInv, LineInv, CountInv, TableInOrder, PeersInv, NEW g \in Generations, ReaderStep(g), ~OnClosed(g)
  PROVE  PeersInv'
<1>0. /\ BoundInOrder /\ HeldInOrder /\ GivenOut /\ Blank /\ PeersInOrder
      /\ TableShaped(table) /\ Counted
  BY DEF PeersInv, CountInv
<1>1. Moves(g)
  BY ReaderMoves
<1>2. /\ UNCHANGED <<held, table, next_generation, load, attach, detach, bound, overlaps>>
      /\ \A h \in Generations : h # g => reader'[h] = reader[h] /\ peer'[h] = peer[h]
      /\ peer'[g].last = peer[g].last /\ peer'[g].feeds = peer[g].feeds /\ peer'[g].closed = peer[g].closed
      /\ reader[g].at \notin {"none", "over", "ended"} /\ reader'[g].at \notin {"none", "ended"}
  BY <1>1 DEF Moves
<1>3. /\ reader[g].pending \in Seq(Frames) /\ reader[g].buffer \in Seq(Frames) /\ peer[g].wire \in Seq(Frames)
      /\ reader[g].at = "route" => reader[g].buffer # <<>>
  BY DEF LineInv, InLine
<1>4. Underway(g)' \subseteq Underway(g)
  <2>1. Range(<<>>) = {}
    BY DEF Range
  <2>2. reader[g].buffer # <<>> => /\ Range(Tail(reader[g].buffer)) \subseteq Range(reader[g].buffer)
                                   /\ Front(g) \in Range(reader[g].buffer)
    BY <1>3 DEF Range, Front
  <2>3. ASSUME NEW n \in 1..Len(peer[g].wire)
        PROVE  /\ Range(SubSeq(peer[g].wire, 1, n)) \subseteq Range(peer[g].wire)
               /\ Range(SubSeq(peer[g].wire, n + 1, Len(peer[g].wire))) \subseteq Range(peer[g].wire)
    BY <1>3, PartInRange
  <2>4. Range(Append(reader[g].pending, Front(g))) \subseteq Range(reader[g].pending) \cup {Front(g)}
    BY <1>3 DEF Range
  <2>5. Range(<<Front(g)>>) = {Front(g)}
    BY DEF Range
  <2> HIDE DEF Front
  <2>6. Range(reader'[g].pending) \subseteq Range(reader[g].pending) \cup Range(reader[g].buffer)
    BY <1>1, <2>1, <2>2, <2>4, <2>5 DEF Moves
  <2>7. /\ Range(reader'[g].buffer) \subseteq Range(reader[g].buffer) \cup Range(peer[g].wire)
        /\ Range(peer'[g].wire) \subseteq Range(peer[g].wire)
    BY <1>1, <2>1, <2>2, <2>3 DEF Moves
  <2> QED
    BY <2>6, <2>7 DEF Underway
<1>5. \A h \in Generations : Running(h)' => Running(h)
  BY <1>2 DEF Running, Live
<1>6. BoundInOrder' /\ Blank'
  <2>1. \A h \in Generations : peer'[h].last = peer[h].last
    BY <1>2
  <2> QED
    BY <1>0, <1>2, <1>5, <2>1 DEF BoundInOrder, Blank, Fresher
<1>7. HeldInOrder'
  <2>1. reader'[g].at \in {"read", "over"} => reader'[g].pending = <<>>
    BY <1>1 DEF Moves
  <2> QED
    BY <1>0, <1>2, <2>1 DEF HeldInOrder
<1>8. GivenOut'
  <2>1. \A h \in Generations : h # g => Underway(h)' = Underway(h)
    BY <1>2 DEF Underway
  <2> QED
    BY <1>0, <1>2, <1>4, <2>1 DEF GivenOut
<1>9. \A h \in Generations : peer'[h].last = peer[h].last /\ peer'[h].feeds = peer[h].feeds
  BY <1>2
<1>10. ASSUME overlaps = {}
       PROVE  /\ astray' = {} /\ (bound' # 0 /\ Emptied' => Watermark')
              /\ \A h \in Generations : Running(h)' => HeldAtWatermark(h)' /\ FedIsRouted(h)'
  <2>1. /\ astray = {} /\ (bound # 0 /\ Emptied => Watermark)
        /\ \A h \in Generations : Running(h) => HeldAtWatermark(h) /\ FedIsRouted(h)
    BY <1>0, <1>10 DEF PeersInOrder
  <2>2. bound' # 0 /\ Emptied' => Watermark'
    BY <1>2, <1>9, <2>1, BoundCounts DEF Emptied, Watermark, Answered
  <2>3. \A h \in Generations : FedIsRouted(h) => FedIsRouted(h)'
    BY <1>2, <1>9 DEF FedIsRouted, Routed, Leaving, Detaching
  <2>4. ASSUME Running(g)'
        PROVE  HeldAtWatermark(g)'
    <3>1. Running(g) /\ HeldAtWatermark(g)
      BY <1>5, <2>1, <2>4
    <3>2. /\ bound = g /\ ~peer[g].closed /\ Watermark
      BY <1>0, <2>1, <3>1, RunsBound
    <3>3. \A e \in Range(reader[g].buffer) : e.stream \in Nat /\ e.stream <= peer[g].last
      BY <1>0, <3>2, UnderwayTyped DEF GivenOut, Underway
    <3>4. /\ table.next \in Nat /\ peer[g].last \in Nat
          /\ table.next = peer[g].last \/ table.next = peer[g].last + 1
      <4>1. table.next = peer[bound].last \/ table.next = peer[bound].last + 1
        BY <3>2 DEF Watermark
      <4> QED
        BY <1>0, <3>2, <4>1 DEF TableShaped, Counted
    <3>5. reader[g].buffer # <<>> => /\ Range(Tail(reader[g].buffer)) \subseteq Range(reader[g].buffer)
                                     /\ Front(g) \in Range(reader[g].buffer)
                                     /\ Front(g).stream # NoId
      <4>1. reader[g].buffer # <<>> => Front(g) \in Range(reader[g].buffer)
        BY <1>3 DEF Range, Front
      <4>2. reader[g].buffer # <<>> => Range(Tail(reader[g].buffer)) \subseteq Range(reader[g].buffer)
        BY <1>3 DEF Range
      <4>3. \A e \in Range(reader[g].buffer) : e.stream \in Ids
        BY UnderwayTyped DEF Underway
      <4>4. NoId \notin Ids
        BY CommandsFinite DEF NoId, Ids
      <4> QED
        BY <4>1, <4>2, <4>3, <4>4
    <3>6. SUFFICES ASSUME reader'[g].pending # <<>>
                   PROVE  /\ Routed(HeldFor(reader'[g])) \/ HeldFor(reader'[g]) = table.next
                          /\ \A e \in Range(reader'[g].buffer) : e.stream <= HeldFor(reader'[g])
      <4>1. \A j : Routed(j)' <=> Routed(j)
        BY <1>2 DEF Routed
      <4> QED
        BY <1>2, <4>1 DEF HeldAtWatermark
    <3>7. \/ reader'[g].buffer = reader[g].buffer /\ reader'[g].pending = reader[g].pending
          \/ /\ reader[g].buffer # <<>> /\ reader'[g].buffer = Tail(reader[g].buffer)
             /\ \/ reader'[g].pending = reader[g].pending
                \/ /\ reader'[g].pending = Append(reader[g].pending, Front(g))
                   /\ HeldFor(reader[g]) = Front(g).stream
                \/ reader'[g].pending = <<Front(g)>> /\ Front(g).stream = table.next
      <4>1. ~(reader[g].at = "read" /\ reader'[g].pending = reader[g].pending)
        BY <1>0, <3>6 DEF HeldInOrder
      <4> HIDE DEF Front, HeldFor
      <4> QED
        BY <1>1, <3>6, <4>1 DEF Moves
    <3>8. CASE reader'[g].pending = reader[g].pending
      <4>1. HeldFor(reader'[g]) = HeldFor(reader[g]) /\ reader[g].pending # <<>>
        BY <3>6, <3>8 DEF HeldFor
      <4>2. Range(reader'[g].buffer) \subseteq Range(reader[g].buffer)
        BY <3>5, <3>7
      <4> QED
        BY <3>1, <4>1, <4>2 DEF HeldAtWatermark
    <3>9. CASE /\ reader[g].buffer # <<>> /\ reader'[g].buffer = Tail(reader[g].buffer)
               /\ reader'[g].pending = Append(reader[g].pending, Front(g))
               /\ HeldFor(reader[g]) = Front(g).stream
      <4>1. reader[g].pending # <<>>
        BY <3>5, <3>9 DEF HeldFor
      <4>2. reader'[g].pending[1] = reader[g].pending[1]
        BY <1>3, <3>9, <4>1
      <4>3. HeldFor(reader'[g]) = HeldFor(reader[g])
        BY <3>6, <4>1, <4>2 DEF HeldFor
      <4>4. Range(reader'[g].buffer) \subseteq Range(reader[g].buffer)
        BY <3>5, <3>9
      <4> QED
        BY <3>1, <4>1, <4>3, <4>4 DEF HeldAtWatermark
    <3>10. CASE /\ reader[g].buffer # <<>> /\ reader'[g].buffer = Tail(reader[g].buffer)
                /\ reader'[g].pending = <<Front(g)>> /\ Front(g).stream = table.next
      <4>1. HeldFor(reader'[g]) = table.next
        BY <3>10 DEF HeldFor
      <4>2. table.next <= peer[g].last
        BY <3>3, <3>5, <3>10
      <4>3. table.next = peer[g].last
        BY <3>4, <4>2
      <4>4. Range(reader'[g].buffer) \subseteq Range(reader[g].buffer)
        BY <3>5, <3>10
      <4> QED
        BY <3>3, <4>1, <4>3, <4>4
    <3> QED
      BY <3>7, <3>8, <3>9, <3>10
  <2>5. ASSUME NEW h \in Generations, Running(h)'
        PROVE  HeldAtWatermark(h)'
    <3>1. CASE h # g
      BY <1>2, <1>5, <2>1, <2>5, <3>1 DEF HeldAtWatermark, Routed
    <3>2. CASE h = g
      BY <2>4, <2>5, <3>2
    <3> QED
      BY <3>1, <3>2
  <2>6. astray' = {}
    <3>1. CASE held.generation = g
      <4>1. Running(g)
        BY <1>0, <1>2, <3>1, GenerationsCount DEF Running, Live, Counted
      <4> QED
        BY <1>10, <4>1, ReaderTrusts
    <3>2. CASE held.generation # g
      BY <2>1, <3>2 DEF ReaderStep, Pass, TakeStop, Resettle, GiveUp, ReadFrames, ReadEnd, ReaderFails, HoldMore,
         Deliver, Discard, Hold, DropConnection, Astray, Local, historyVars
    <3> QED
      BY <3>1, <3>2
  <2> QED
    BY <1>5, <2>1, <2>2, <2>3, <2>5, <2>6
<1> QED
  BY <1>2, <1>6, <1>7, <1>8, <1>10 DEF PeersInv, PeersInOrder

LEMMA PeersStep ==
  ASSUME WindowInv, LineInv, CountInv, TableInOrder, PeersInv, [Next]_vars
  PROVE  PeersInv'
<1>1. \/ \E l \in Loads : ConnectHeld(l) \/ Connect(l) \/ LoadStep(l)
      \/ \E t \in Attaches : AttachKnown(t) \/ AttachUnknown(t) \/ AttachStep(t)
      \/ \E t \in Detaches : ForgetDetach(t) \/ SignalDetach(t) \/ ServeDetach(t) \/ FailDetach(t)
      \/ \E w \in Watches : Watch(w)
      \/ \E g \in Generations : (ReaderStep(g) /\ ~OnClosed(g)) \/ OnClosed(g) \/ Unbind(g)
      \/ \E g \in Generations, i \in Ids : SendFrame(g, i)
      \/ \E c \in 1..Cardinality(Loads) : ControlFails(c)
      \/ Announce \/ UNCHANGED vars
  BY DEF Next
<1>2. ASSUME NEW t \in Attaches, AttachKnown(t) \/ AttachUnknown(t) \/ AttachStep(t)
      PROVE  PeersInv'
  BY <1>2, PeersAnswer, PeersRemember, PeersAttaches DEF AttachStep
<1>3. ASSUME NEW t \in Detaches, ForgetDetach(t) \/ SignalDetach(t) \/ ServeDetach(t) \/ FailDetach(t)
      PROVE  PeersInv'
  BY <1>3, PeersForget, PeersServe, PeersDetaches
<1>4. ASSUME NEW g \in Generations, (ReaderStep(g) /\ ~OnClosed(g)) \/ OnClosed(g) \/ Unbind(g)
      PROVE  PeersInv'
  BY <1>4, PeersReads, PeersCalm, PeersUnbind
<1> QED
  BY <1>1, <1>2, <1>3, <1>4, PeersLoads, PeersWrites, PeersCalm

-----------------------------------------------------------------------------
\* The theorems.

\* The invariant holds whatever the webview, the sockets and the daemon do.
THEOREM WindowInvariance == Spec => []WindowInv
BY WindowStart, WindowStep, PTL DEF Spec

\* A connection is torn down only because of itself, with any number of loads,
\* attaches and detaches beside each other.
THEOREM WindowKeeps == Spec => HealthyIsKept
<1>1. WindowInv /\ [Next]_vars =>
        [(held.control # NoControl /\ held'.control = NoControl)
           => \/ held.control \in dead'
              \/ held.generation \in lost \cup astray]_vars
  BY WindowStep
<1> QED
  BY <1>1, WindowInvariance, PTL DEF Spec, HealthyIsKept

\* A watcher parked on a connection that is gone or replaced is about to be let
\* go, with any number of watchers and loads.
THEOREM WindowLetsGo == Spec => []WatcherIsLetGo
<1>1. WindowInv => WatcherIsLetGo
  BY DEF WindowInv, WatchersInOrder
<1> QED
  BY <1>1, WindowInvariance, PTL

\* What was read and not yet shown is in line.
THEOREM WindowLines == Spec => []LineInv
<1>1. LineInv /\ WindowInv /\ [Next]_vars => LineInv'
  BY LineStep
<1> QED
  BY <1>1, LineStart, WindowInvariance, PTL DEF Spec

\* The output of a stream reaches the webview in the order the daemon wrote it,
\* with any number of streams, frames and connections.
THEOREM WindowDelivers == Spec => DeliveredInOrder
<1>1. LineInv /\ WindowInv /\ [Next]_vars =>
        [\A g \in Generations, i \in Ids : reader'[g].shown[i] >= reader[g].shown[i]]_vars
  BY LineStep DEF NoneTakenBack, Onward
<1> QED
  BY <1>1, WindowLines, WindowInvariance, PTL DEF Spec, DeliveredInOrder

\* What is counted, and the table, stay in order.
THEOREM WindowTables == Spec => [](CountInv /\ TableInOrder)
<1>1. Init => CountInv /\ TableInOrder
  BY CountStart, TableStart
<1>2. WindowInv /\ LineInv /\ (CountInv /\ TableInOrder) /\ [Next]_vars => (CountInv /\ TableInOrder)'
  BY CountStep, TableStep
<1> QED
  BY <1>1, <1>2, WindowInvariance, WindowLines, PTL DEF Spec

\* The table of the window agrees with itself and, once a stream is installed,
\* with what the daemon feeds, with any number of sessions asked for and given
\* up beside each other.
THEOREM WindowTable == Spec => []TableAgrees
<1>1. WindowInv /\ LineInv /\ (CountInv /\ TableInOrder) => TableAgrees
  BY TableHolds
<1> QED
  BY <1>1, WindowInvariance, WindowLines, WindowTables, PTL

\* A reader that waits for credit with frames held for an id that is routed by
\* now is woken, with any number of sessions and readers.
THEOREM WindowWakes == Spec => []HeldIsWoken
<1>1. WindowInv /\ LineInv /\ (CountInv /\ TableInOrder) /\ HeldIsWoken /\ [Next]_vars => HeldIsWoken'
  BY WokenStep
<1> QED
  BY <1>1, WokenStart, WindowInvariance, WindowLines, WindowTables, PTL DEF Spec

\* Against an honest daemon the watermark never misjudges a frame: the reader
\* of the live connection takes no frame for one the daemon cannot have written
\* and discards none of a session that is fed, with any number of sessions,
\* frames and connections.
THEOREM WindowPeers == Spec => []PeersAgree
<1>1. WindowInv /\ LineInv /\ (CountInv /\ TableInOrder) /\ PeersInv /\ [Next]_vars => PeersInv'
  BY PeersStep
<1>2. Spec => []PeersInv
  BY <1>1, PeersStart, WindowInvariance, WindowLines, WindowTables, PTL DEF Spec
<1>3. PeersInv => PeersAgree
  BY DEF PeersInv, PeersInOrder, PeersAgree
<1> QED
  BY <1>2, <1>3, PTL
=============================================================================
