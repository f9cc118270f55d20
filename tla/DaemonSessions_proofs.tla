------------------------ MODULE DaemonSessions_proofs ------------------------
(***************************************************************************)
(* Proofs about DaemonSessions, for any connections, requests and panes,   *)
(* and any capacity of the receipts.                                       *)
(*                                                                         *)
(* A retry runs once because a receipt, while it is kept, stands for the   *)
(* answer, and while it is not, the eviction is remembered                 *)
(* (RetriesInOrder).  Nothing outlives the shutdown because a living       *)
(* session is always in somebody's hand (SessionsInOrder): the table, a    *)
(* create or close on its way, or the list close_all made.                 *)
(***************************************************************************)
EXTENDS DaemonSessions, FiniteSetTheorems, TLAPS

Stages == {"unsent", "check", "spawn", "pump", "insert", "remove", "kill", "put", "write", "over"}

ConnsTyped ==
  /\ conn \in [Conns -> {"none", "vetted", "accepted", "serving", "over"}]
  /\ left \subseteq Conns

RequestsTyped ==
  /\ step \in [Requests -> Stages]
  /\ result \in [Requests -> Requests \cup {Nothing, "refused"}]
  /\ told \subseteq Requests /\ excused \subseteq Requests

SessionsTyped ==
  /\ table \subseteq Creates /\ victims \subseteq Creates /\ late \subseteq Creates
  /\ pty \in [Creates -> {"none", "running", "exited", "dead"}]

ReceiptsTyped == receipts \in Seq(Requests) /\ Len(receipts) <= Capacity

LoopTyped ==
  /\ tick \in {"none", "served", "clients", "in_flight"}
  /\ daemon \in {"serving", "stopping", "snapshot", "clear", "close", "lease", "exited"}
  /\ served_anyone \in BOOLEAN /\ idle_since \in BOOLEAN

Served   == {c \in Conns : conn[c] = "serving"}
InFlight == {r \in Requests : step[r] \notin {"unsent", "over"}}
Counted  == clients = Cardinality(Served) /\ in_flight = Cardinality(InFlight)

\* The type invariant by its parts.
LEMMA TypingSplit ==
  DaemonTypeOK <=> ConnsTyped /\ RequestsTyped /\ SessionsTyped /\ ReceiptsTyped /\ LoopTyped /\ Counted
BY DEF DaemonTypeOK, ConnsTyped, RequestsTyped, SessionsTyped, ReceiptsTyped, LoopTyped, Counted, Served,
       InFlight, Stages

\* A request moves on, and the others stay where they are.
LEMMA StepMoved ==
  ASSUME RequestsTyped, NEW r \in Requests, NEW from, NEW to, StepTo(r, from, to)
  PROVE  /\ Up /\ step[r] = from /\ step'[r] = to
         /\ \A q \in Requests : q # r => step'[q] = step[q]
         /\ to \in Stages => step' \in [Requests -> Stages]
BY DEF RequestsTyped, StepTo

\* A request is answered.
LEMMA Resulted ==
  ASSUME RequestsTyped, NEW r \in Requests, NEW x, result' = [result EXCEPT ![r] = x]
  PROVE  /\ result'[r] = x /\ \A q \in Requests : q # r => result'[q] = result[q]
         /\ x \in Requests \cup {Nothing, "refused"}
              => result' \in [Requests -> Requests \cup {Nothing, "refused"}]
BY DEF RequestsTyped

-----------------------------------------------------------------------------
\* Types.

\* The connections.
LEMMA ConnsStep ==
  ASSUME ConnsTyped, [Next]_vars
  PROVE  ConnsTyped'
<1>1. ASSUME NEW c \in Conns, Connect(c) \/ Leave(c) \/ Serving(c) PROVE ConnsTyped'
  BY <1>1 DEF ConnsTyped, Connect, Leave, Serving, Accept, Count, Disconnect, Becomes
<1>2. ASSUME NEW r \in Requests, Dispatch(r) \/ Running(r) PROVE UNCHANGED connVars
  BY <1>2 DEF Dispatch, Running, Put, WriteAnswer, Check, Spawn, StartPump, Insert, Forget, Kill
<1>3. ASSUME NEW h \in Creates, ChildExits(h) \/ Drop(h) PROVE UNCHANGED connVars
  BY <1>3 DEF ChildExits, Drop
<1>4. ASSUME Ticking \/ Retire \/ Interrupt \/ Stopping \/ UNCHANGED vars PROVE UNCHANGED connVars
  BY <1>4 DEF Ticking, BusyTick, ReadOn, IdleTick, Retire, Interrupt, Stopping, SetShuttingDown, Snapshot,
              Clear, CloseVictim, RemoveLease, Exit, vars
<1> QED
  BY <1>1, <1>2, <1>3, <1>4 DEF Next, connVars, ConnsTyped

\* The loop of the daemon.
LEMMA LoopStep ==
  ASSUME LoopTyped, [Next]_vars
  PROVE  LoopTyped'
<1>1. ASSUME NEW c \in Conns, Connect(c) \/ Leave(c) \/ Serving(c) PROVE LoopTyped'
  BY <1>1 DEF LoopTyped, Connect, Leave, Serving, Accept, Count, Disconnect, loopVars, counterVars
<1>2. ASSUME NEW r \in Requests, Dispatch(r) \/ Running(r) PROVE UNCHANGED <<loopVars, served_anyone>>
  BY <1>2 DEF Dispatch, Running, Put, WriteAnswer, Check, Spawn, StartPump, Insert, Forget, Kill, counterVars
<1>3. ASSUME NEW h \in Creates, ChildExits(h) \/ Drop(h) PROVE UNCHANGED <<loopVars, served_anyone>>
  BY <1>3 DEF ChildExits, Drop, counterVars
<1>4. CASE Ticking \/ Retire \/ Interrupt
  BY <1>4 DEF LoopTyped, Ticking, BusyTick, ReadOn, IdleTick, Retire, Interrupt, TickTo, counterVars
<1>5. CASE Stopping
  BY <1>5 DEF LoopTyped, Stopping, SetShuttingDown, Snapshot, Clear, CloseVictim, RemoveLease, Exit, StopsAt,
              counterVars
<1>6. CASE UNCHANGED vars
  BY <1>6 DEF vars, loopVars, counterVars, LoopTyped
<1> QED
  BY <1>1, <1>2, <1>3, <1>4, <1>5, <1>6 DEF Next, loopVars, LoopTyped

\* What the requests leave alone.
LEMMA RequestsUntouched ==
  ASSUME [Next]_vars
  PROVE  \/ UNCHANGED <<requestVars, receipts, in_flight>>
         \/ \E r \in Requests : Dispatch(r) \/ Running(r)
<1>1. ASSUME NEW c \in Conns, Connect(c) \/ Leave(c) \/ Serving(c)
      PROVE  UNCHANGED <<requestVars, receipts, in_flight>>
  BY <1>1 DEF Connect, Leave, Serving, Accept, Count, Disconnect, counterVars
<1>2. ASSUME NEW h \in Creates, ChildExits(h) \/ Drop(h)
      PROVE  UNCHANGED <<requestVars, receipts, in_flight>>
  BY <1>2 DEF ChildExits, Drop, counterVars
<1>3. ASSUME Ticking \/ Retire \/ Interrupt \/ Stopping \/ UNCHANGED vars
      PROVE  UNCHANGED <<requestVars, receipts, in_flight>>
  BY <1>3 DEF Ticking, BusyTick, ReadOn, IdleTick, Retire, Interrupt, Stopping, SetShuttingDown, Snapshot,
              Clear, CloseVictim, RemoveLease, Exit, vars, counterVars
<1> QED
  BY <1>1, <1>2, <1>3 DEF Next

\* A step of a request: where it goes, and what it is answered.
LEMMA RequestMoves ==
  ASSUME RequestsTyped, NEW r \in Requests, Dispatch(r) \/ Running(r)
  PROVE  \E to \in Stages \ {"unsent"} :
           /\ Up /\ step[r] # "over" /\ step' = [step EXCEPT ![r] = to]
           /\ \/ result' = result
              \/ result' = [result EXCEPT ![r] = r] /\ step[r] = "put"
              \/ result' = [result EXCEPT ![r] = "refused"]
              \/ result' = [result EXCEPT ![r] = Names[r]] /\ Replayed(r) /\ step[r] = "unsent"
<1>1. CASE Dispatch(r)
  BY <1>1 DEF Dispatch, StepTo, First, Stages
<1>2. CASE Running(r)
  BY <1>2 DEF Running, Put, WriteAnswer, Check, Spawn, StartPump, Insert, Forget, Kill, Refused, StepTo, Stages
<1> QED
  BY <1>1, <1>2

\* The requests and their answers.
LEMMA RequestsStep ==
  ASSUME RequestsTyped, ReceiptsTyped, [Next]_vars
  PROVE  RequestsTyped'
<1>1. CASE UNCHANGED <<requestVars, receipts, in_flight>>
  BY <1>1 DEF requestVars, RequestsTyped
<1>2. ASSUME NEW r \in Requests, Dispatch(r) \/ Running(r) PROVE RequestsTyped'
  <2>1. step' \in [Requests -> Stages]
    <3>1. PICK to \in Stages : step' = [step EXCEPT ![r] = to]
      BY <1>2, RequestMoves
    <3> QED
      BY <3>1 DEF RequestsTyped
  <2>2. result' \in [Requests -> Requests \cup {Nothing, "refused"}]
    <3>1. PICK x \in Requests \cup {Nothing, "refused"} : result' = result \/ result' = [result EXCEPT ![r] = x]
      BY <1>2, RequestMoves, DaemonAssumption DEF Replayed
    <3> QED
      BY <3>1 DEF RequestsTyped
  <2>3. told' \subseteq Requests /\ excused' \subseteq Requests
    <3>1. CASE Dispatch(r)
      BY <3>1 DEF Dispatch, RequestsTyped
    <3>2. CASE Running(r)
      BY <3>2 DEF Running, Put, WriteAnswer, Check, Spawn, StartPump, Insert, Forget, Kill, RequestsTyped
    <3> QED
      BY <1>2, <3>1, <3>2
  <2> QED
    BY <2>1, <2>2, <2>3 DEF RequestsTyped
<1> QED
  BY <1>1, <1>2, RequestsUntouched

\* A receipt is stored, the oldest making room.
LEMMA PutEffect ==
  ASSUME ReceiptsTyped, RequestsTyped, NEW r \in Requests, Put(r)
  PROVE  /\ ReceiptsTyped'
         /\ Replayed(r)' = (Names[r] # r /\ \E i \in DOMAIN receipts' : receipts'[i] = Names[r])
         /\ \E i \in DOMAIN receipts' : receipts'[i] = r
         /\ excused \subseteq excused'
         /\ \A q \in Requests :
              (\E i \in DOMAIN receipts : receipts[i] = q)
                => \/ \E i \in DOMAIN receipts' : receipts'[i] = q
                   \/ \A p \in Requests : Names[p] = q => p \in excused'
<1> USE DaemonAssumption
<1>1. CASE Full
  <2>1. /\ receipts' = Append(Tail(receipts), r)
        /\ excused' = excused \cup {q \in Requests : Names[q] = Head(receipts)}
    BY <1>1 DEF Put
  <2>2. receipts \in Seq(Requests) /\ Len(receipts) = Capacity /\ Len(receipts) \in Nat \ {0}
    BY <1>1 DEF Full, ReceiptsTyped
  <2>3. /\ Tail(receipts) \in Seq(Requests) /\ Len(Tail(receipts)) = Len(receipts) - 1
        /\ Head(receipts) = receipts[1]
        /\ \A i \in 1..(Len(receipts) - 1) : Tail(receipts)[i] = receipts[i + 1]
    BY <2>2
  <2> DEFINE rest == Tail(receipts)
  <2> HIDE DEF rest
  <2>4. /\ receipts' \in Seq(Requests) /\ Len(receipts') = Len(rest) + 1
        /\ receipts'[Len(rest) + 1] = r
        /\ \A i \in 1..Len(rest) : receipts'[i] = rest[i]
    BY <2>1, <2>3 DEF rest
  <2>5. ReceiptsTyped'
    BY <2>2, <2>3, <2>4 DEF rest, ReceiptsTyped
  <2>6. \E i \in DOMAIN receipts' : receipts'[i] = r
    <3>1. Len(rest) + 1 \in DOMAIN receipts'
      BY <2>2, <2>3, <2>4 DEF rest
    <3> QED
      BY <2>4, <3>1
  <2>7. ASSUME NEW i \in DOMAIN receipts, i # 1
        PROVE  \E j \in DOMAIN receipts' : receipts'[j] = receipts[i]
    <3>1. i \in 1..Len(receipts) /\ i - 1 \in 1..(Len(receipts) - 1)
      BY <2>2, <2>7
    <3>2. receipts'[i - 1] = receipts[i]
      BY <2>3, <2>4, <3>1 DEF rest
    <3>3. i - 1 \in DOMAIN receipts'
      BY <2>2, <2>3, <2>4, <3>1 DEF rest
    <3> QED
      BY <3>2, <3>3
  <2>8. \A q \in Requests :
          (\E i \in DOMAIN receipts : receipts[i] = q)
            => \/ \E i \in DOMAIN receipts' : receipts'[i] = q
               \/ \A p \in Requests : Names[p] = q => p \in excused'
    BY <2>1, <2>3, <2>7
  <2> QED
    BY <2>1, <2>5, <2>6, <2>8 DEF Replayed
<1>2. CASE ~Full
  <2>1. receipts' = Append(receipts, r) /\ excused' = excused
    BY <1>2 DEF Put
  <2>2. receipts \in Seq(Requests) /\ Len(receipts) < Capacity /\ Len(receipts) \in Nat
    BY <1>2 DEF Full, ReceiptsTyped
  <2>3. /\ receipts' \in Seq(Requests) /\ Len(receipts') = Len(receipts) + 1
        /\ receipts'[Len(receipts) + 1] = r
        /\ \A i \in DOMAIN receipts : i \in DOMAIN receipts' /\ receipts'[i] = receipts[i]
        /\ Len(receipts) + 1 \in DOMAIN receipts'
    BY <2>1, <2>2
  <2> QED
    BY <2>1, <2>2, <2>3 DEF Replayed, ReceiptsTyped
<1> QED
  BY <1>1, <1>2

\* The receipts.
LEMMA ReceiptsStep ==
  ASSUME RequestsTyped, ReceiptsTyped, [Next]_vars
  PROVE  ReceiptsTyped'
<1>1. CASE UNCHANGED receipts
  BY <1>1 DEF ReceiptsTyped
<1>2. ASSUME NEW r \in Requests, Dispatch(r) \/ Running(r) PROVE ReceiptsTyped'
  <2>1. CASE Put(r)
    BY <2>1, PutEffect
  <2>2. CASE ~Put(r)
    BY <1>1, <1>2, <2>2 DEF Dispatch, Running, WriteAnswer, Check, Spawn, StartPump, Insert, Forget, Kill
  <2> QED
    BY <2>1, <2>2
<1> QED
  BY <1>1, <1>2, RequestsUntouched

-----------------------------------------------------------------------------
\* The counters.

\* Requests in flight.
LEMMA InFlightStep ==
  ASSUME RequestsTyped, in_flight = Cardinality(InFlight), [Next]_vars
  PROVE  in_flight' = Cardinality(InFlight')
<1> IsFiniteSet(InFlight)
  BY DaemonAssumption, FS_Subset DEF InFlight
<1>1. CASE UNCHANGED <<requestVars, receipts, in_flight>>
  BY <1>1 DEF requestVars, InFlight
<1>2. ASSUME NEW r \in Requests, Dispatch(r) PROVE in_flight' = Cardinality(InFlight')
  <2>1. PICK to \in {"write", "check", "remove"} : StepTo(r, "unsent", to)
    BY <1>2 DEF Dispatch, First
  <2>2. InFlight' = InFlight \cup {r} /\ r \notin InFlight
    BY <2>1, StepMoved DEF InFlight
  <2> QED
    BY <1>2, <2>2, FS_AddElement DEF Dispatch
<1>3. ASSUME NEW r \in Requests, WriteAnswer(r) PROVE in_flight' = Cardinality(InFlight')
  <2>1. StepTo(r, "write", "over")
    BY <1>3 DEF WriteAnswer
  <2>2. InFlight' = InFlight \ {r} /\ r \in InFlight
    BY <2>1, StepMoved DEF InFlight
  <2> QED
    BY <1>3, <2>2, FS_RemoveElement DEF WriteAnswer
<1>4. ASSUME NEW r \in Requests, Running(r), ~WriteAnswer(r) PROVE in_flight' = Cardinality(InFlight')
  <2>1. PICK from \in Stages \ {"unsent", "over"}, to \in Stages \ {"unsent", "over"} : StepTo(r, from, to)
    BY <1>4 DEF Running, Put, Check, Spawn, StartPump, Insert, Forget, Kill, Refused, Stages
  <2>2. InFlight' = InFlight
    BY <2>1, StepMoved DEF InFlight
  <2>3. in_flight' = in_flight
    BY <1>4 DEF Running, Put, Check, Spawn, StartPump, Insert, Forget, Kill, counterVars
  <2> QED
    BY <2>2, <2>3
<1> QED
  BY <1>1, <1>2, <1>3, <1>4, RequestsUntouched

\* Clients that are served.
LEMMA ServedStep ==
  ASSUME ConnsTyped, clients = Cardinality(Served), [Next]_vars
  PROVE  clients' = Cardinality(Served')
<1> IsFiniteSet(Served)
  BY DaemonAssumption, FS_Subset DEF Served
<1>1. CASE UNCHANGED <<conn, clients>>
  BY <1>1 DEF Served
<1>2. ASSUME NEW c \in Conns, Connect(c) \/ Accept(c) \/ Leave(c) PROVE clients' = Cardinality(Served')
  <2>1. Served' = Served
    BY <1>2 DEF Connect, Accept, Leave, Becomes, Served, ConnsTyped
  <2> QED
    BY <1>2, <2>1 DEF Connect, Accept, Leave, counterVars
<1>3. ASSUME NEW c \in Conns, Count(c) PROVE clients' = Cardinality(Served')
  <2>1. Served' = Served \cup {c} /\ c \notin Served
    BY <1>3 DEF Count, Becomes, Served, ConnsTyped
  <2> QED
    BY <1>3, <2>1, FS_AddElement DEF Count
<1>4. ASSUME NEW c \in Conns, Disconnect(c) PROVE clients' = Cardinality(Served')
  <2>1. Served' = Served \ {c} /\ c \in Served
    BY <1>4 DEF Disconnect, Becomes, Served, ConnsTyped
  <2> QED
    BY <1>4, <2>1, FS_RemoveElement DEF Disconnect
<1>5. ASSUME NEW r \in Requests, Dispatch(r) \/ Running(r) PROVE UNCHANGED <<conn, clients>>
  BY <1>5 DEF Dispatch, Running, Put, WriteAnswer, Check, Spawn, StartPump, Insert, Forget, Kill,
              connVars, counterVars
<1>6. ASSUME NEW h \in Creates, ChildExits(h) \/ Drop(h) PROVE UNCHANGED <<conn, clients>>
  BY <1>6 DEF ChildExits, Drop, connVars, counterVars
<1>7. ASSUME Ticking \/ Retire \/ Interrupt \/ Stopping \/ UNCHANGED vars PROVE UNCHANGED <<conn, clients>>
  BY <1>7 DEF Ticking, BusyTick, ReadOn, IdleTick, Retire, Interrupt, Stopping, SetShuttingDown, Snapshot,
              Clear, CloseVictim, RemoveLease, Exit, vars, connVars, counterVars
<1> QED
  BY <1>1, <1>2, <1>3, <1>4, <1>5, <1>6, <1>7 DEF Next, Serving

-----------------------------------------------------------------------------
\* Retries.

Receipted(r) == \E i \in DOMAIN receipts : receipts[i] = r

\* The answer of a request that has one is in the receipts, or its retries are
\* excused; and a retry that got past the receipts is excused, or its original
\* is over without an answer of its own.
RetriesInOrder ==
  /\ \A r \in Requests :
       result[r] = r => /\ step[r] \in {"write", "over"}
                        /\ Receipted(r) \/ \A q \in Requests : Names[q] = r => q \in excused
  /\ \A r \in Creates :
       Names[r] # r /\ (step[r] \notin {"unsent", "write", "over"} \/ pty[r] # "none")
         => r \in excused \/ (step[Names[r]] = "over" /\ result[Names[r]] # Names[r])

\* What only a spawn starts.
LEMMA PtyStarts ==
  ASSUME SessionsTyped, [Next]_vars, \A h \in Creates : InHand(h) => pty[h] # "none"
  PROVE  \A h \in Creates : pty[h] = "none" /\ pty'[h] # "none" => step[h] = "spawn"
<1> SUFFICES ASSUME NEW h \in Creates, pty[h] = "none", pty'[h] # "none" PROVE step[h] = "spawn"
  OBVIOUS
<1>0. Creates \subseteq Requests /\ Closes \subseteq Requests
  BY DEF Requests
<1>1. ASSUME NEW c \in Conns, Connect(c) \/ Leave(c) \/ Serving(c) PROVE UNCHANGED pty
  BY <1>1 DEF Connect, Leave, Serving, Accept, Count, Disconnect, sessionVars
<1>2. ASSUME NEW r \in Requests, Dispatch(r) PROVE UNCHANGED pty
  BY <1>2 DEF Dispatch, sessionVars
<1>3. ASSUME NEW r \in Requests, Running(r) PROVE step[h] = "spawn"
  <2>1. CASE Kill(r)
    <3>1. step[r] = "kill" /\ pty' = [pty EXCEPT ![Target[r]] = "dead"] /\ r \in Closes
      BY <2>1 DEF Kill, StepTo
    <3>2. InHand(h) \/ pty'[h] = pty[h]
      BY <3>1 DEF InHand, SessionsTyped
    <3> QED
      BY <3>2
  <2>2. CASE r \in Creates /\ StartPump(r)
    <3>1. step[r] = "pump" /\ (pty' = pty \/ pty' = [pty EXCEPT ![r] = "dead"])
      BY <2>2 DEF StartPump, StepTo, Refused
    <3>2. InHand(h) \/ pty'[h] = pty[h]
      BY <3>1 DEF InHand, SessionsTyped
    <3> QED
      BY <3>2
  <2>3. CASE r \in Creates /\ Spawn(r)
    <3>1. step[r] = "spawn" /\ (pty' = pty \/ pty' = [pty EXCEPT ![r] = "running"])
      BY <2>3 DEF Spawn, StepTo, Refused
    <3> QED
      BY <3>1 DEF SessionsTyped
  <2>4. CASE Put(r) \/ WriteAnswer(r) \/ Check(r) \/ Insert(r) \/ Forget(r)
    BY <2>4 DEF Put, WriteAnswer, Check, Insert, Forget, sessionVars
  <2> QED
    BY <1>3, <2>1, <2>2, <2>3, <2>4 DEF Running
<1>4. ASSUME NEW g \in Creates, ChildExits(g) \/ Drop(g) PROVE step[h] = "spawn"
  BY <1>4 DEF ChildExits, Drop, SessionsTyped
<1>5. CASE CloseVictim
  <2>1. PICK g \in victims : pty' = [pty EXCEPT ![g] = "dead"]
    BY <1>5 DEF CloseVictim
  <2>2. InHand(h) \/ pty'[h] = pty[h]
    BY <2>1 DEF InHand, SessionsTyped
  <2> QED
    BY <2>2
<1>6. ASSUME Ticking \/ Retire \/ Interrupt \/ (Stopping /\ ~CloseVictim) \/ UNCHANGED vars PROVE UNCHANGED pty
  BY <1>6 DEF Ticking, BusyTick, ReadOn, IdleTick, Retire, Interrupt, Stopping, SetShuttingDown, Snapshot,
              Clear, RemoveLease, Exit, vars, sessionVars
<1> QED
  BY <1>1, <1>2, <1>3, <1>4, <1>5, <1>6 DEF Next

\* Every step keeps the retries in order.
LEMMA RetriesStep ==
  ASSUME RequestsTyped, ReceiptsTyped, SessionsTyped, RetriesInOrder, [Next]_vars,
         \A h \in Creates : InHand(h) => pty[h] # "none"
  PROVE  RetriesInOrder'
<1>0. /\ Creates \subseteq Requests /\ \A r \in Requests : Names[r] \in Requests
      /\ Nothing \notin Requests /\ "refused" \notin Requests
  BY DaemonAssumption DEF Requests
<1>1. \A h \in Creates : pty[h] = "none" /\ pty'[h] # "none" => step[h] = "spawn"
  BY PtyStarts
<1>2. CASE UNCHANGED <<requestVars, receipts, in_flight>>
  BY <1>0, <1>1, <1>2 DEF RetriesInOrder, Receipted, requestVars
<1>3. ASSUME NEW r \in Requests, Dispatch(r) \/ Running(r) PROVE RetriesInOrder'
  <2>1. PICK to \in Stages \ {"unsent"} :
          /\ Up /\ step[r] # "over" /\ step' = [step EXCEPT ![r] = to]
          /\ \/ result' = result
             \/ result' = [result EXCEPT ![r] = r] /\ step[r] = "put"
             \/ result' = [result EXCEPT ![r] = "refused"]
             \/ result' = [result EXCEPT ![r] = Names[r]] /\ Replayed(r) /\ step[r] = "unsent"
    BY <1>3, RequestMoves
  <2>2. /\ step'[r] = to /\ \A q \in Requests : q # r => step'[q] = step[q] /\ result'[q] = result[q]
        /\ excused \subseteq excused'
        /\ \A q \in Requests : step[q] = "over" => step'[q] = "over" /\ result'[q] = result[q]
    <3>1. excused \subseteq excused'
      BY <1>3, PutEffect DEF Dispatch, Running, WriteAnswer, Check, Spawn, StartPump, Insert, Forget, Kill
    <3> QED
      BY <2>1, <3>1 DEF RequestsTyped
  <2>3. ASSUME NEW q \in Requests, Receipted(q)
        PROVE  Receipted(q)' \/ \A p \in Requests : Names[p] = q => p \in excused'
    <3>1. CASE Put(r)
      BY <2>3, <3>1, PutEffect DEF Receipted
    <3>2. CASE ~Put(r)
      <4>1. receipts' = receipts
        BY <1>3, <3>2 DEF Dispatch, Running, WriteAnswer, Check, Spawn, StartPump, Insert, Forget, Kill
      <4> QED
        BY <2>3, <4>1 DEF Receipted
    <3> QED
      BY <3>1, <3>2
  <2>4. ASSUME NEW q \in Requests, result'[q] = q
        PROVE  /\ step'[q] \in {"write", "over"}
               /\ Receipted(q)' \/ \A p \in Requests : Names[p] = q => p \in excused'
    <3>1. CASE result[q] = q /\ (q # r \/ ~Put(r))
      <4>1. /\ step[q] \in {"write", "over"}
            /\ Receipted(q) \/ \A p \in Requests : Names[p] = q => p \in excused
        BY <3>1 DEF RetriesInOrder
      <4>2. step'[q] \in {"write", "over"}
        <5>1. CASE q # r
          BY <2>2, <4>1, <5>1
        <5>2. CASE q = r
          <6>1. WriteAnswer(r)
            BY <1>3, <4>1, <5>2, <2>1 DEF Dispatch, Running, Put, Check, Spawn, StartPump, Insert, Forget, Kill,
                                          Refused, StepTo
          <6> QED
            BY <5>2, <6>1, StepMoved DEF WriteAnswer
        <5> QED
          BY <5>1, <5>2
      <4> QED
        BY <2>2, <2>3, <4>1, <4>2
    <3>2. CASE q = r /\ Put(r)
      <4>1. step'[r] = "write" /\ \E i \in DOMAIN receipts' : receipts'[i] = r
        BY <3>2, PutEffect, StepMoved DEF Put
      <4> QED
        BY <3>2, <4>1 DEF Receipted
    <3>3. CASE result[q] # q /\ ~(q = r /\ Put(r))
      <4>1. q = r
        BY <2>2, <2>4, <3>3
      <4>2. step[r] = "put"
        <5>1. ~(result' = result)
          BY <2>4, <3>3
        <5>2. ~(result' = [result EXCEPT ![r] = "refused"])
          BY <1>0, <2>4, <4>1 DEF RequestsTyped
        <5>3. ~(result' = [result EXCEPT ![r] = Names[r]] /\ Replayed(r))
          BY <2>4, <4>1 DEF RequestsTyped, Replayed
        <5> QED
          BY <2>1, <5>1, <5>2, <5>3
      <4>3. Put(r)
        BY <1>3, <4>2, <2>1 DEF Dispatch, Running, WriteAnswer, Check, Spawn, StartPump, Insert, Forget, Kill,
                                Refused, StepTo
      <4> QED
        BY <3>3, <4>1, <4>3
    <3> QED
      BY <3>1, <3>2, <3>3
  <2>5. ASSUME NEW q \in Creates, Names[q] # q,
               step'[q] \notin {"unsent", "write", "over"} \/ pty'[q] # "none"
        PROVE  q \in excused' \/ (step'[Names[q]] = "over" /\ result'[Names[q]] # Names[q])
    <3> DEFINE n == Names[q]
    <3>0. q \in Requests /\ n \in Requests
      BY <1>0
    <3>1. CASE step[q] \notin {"unsent", "write", "over"} \/ pty[q] # "none"
      <4>1. q \in excused \/ (step[n] = "over" /\ result[n] # n)
        BY <2>5, <3>1 DEF RetriesInOrder
      <4> QED
        BY <2>2, <3>0, <4>1
    <3>2. CASE step[q] \in {"unsent", "write", "over"} /\ pty[q] = "none"
      <4>1. step'[q] \notin {"unsent", "write", "over"}
        BY <1>1, <2>5, <3>2
      <4>2. q = r
        BY <2>2, <3>0, <3>2, <4>1
      <4>3. Dispatch(r)
        BY <1>3, <3>2, <4>1, <4>2, <3>0, StepMoved, <2>1
           DEF Running, Put, WriteAnswer, Check, Spawn, StartPump, Insert, Forget, Kill, Refused, StepTo
      <4>4. ~Replayed(r)
        <5>1. SUFFICES ASSUME Replayed(r) PROVE FALSE
          OBVIOUS
        <5>2. StepTo(r, "unsent", "write")
          BY <4>3, <5>1 DEF Dispatch
        <5> QED
          BY <4>1, <4>2, <5>2, StepMoved
      <4>5. result' = result /\ excused' = IF step[n] # "over" THEN excused \cup {r} ELSE excused
        BY <4>2, <4>3, <4>4, <2>5 DEF Dispatch
      <4>6. CASE step[n] # "over"
        BY <4>2, <4>5, <4>6
      <4>7. CASE step[n] = "over" /\ result[n] = n
        <5>1. ~Receipted(n)
          BY <4>2, <4>4, <2>5 DEF Replayed, Receipted
        <5> QED
          BY <2>2, <3>0, <4>7, <5>1 DEF RetriesInOrder
      <4>8. CASE step[n] = "over" /\ result[n] # n
        BY <2>2, <3>0, <4>8
      <4> QED
        BY <4>6, <4>7, <4>8
    <3> QED
      BY <3>1, <3>2
  <2> QED
    BY <2>4, <2>5 DEF RetriesInOrder
<1> QED
  BY <1>2, <1>3, RequestsUntouched

-----------------------------------------------------------------------------
\* Sessions.

Alive(h) == pty[h] \in {"running", "exited"}

\* A session somebody holds was spawned, and a living one is held by somebody or
\* came late; what `close_all` has to close, and what is left of the table, at
\* each stage of the shutdown.
SessionsInOrder ==
  /\ \A h \in Creates : InHand(h) => pty[h] # "none"
  /\ \A h \in Creates : Alive(h) => InHand(h) \/ h \in late
  /\ daemon \in {"serving", "stopping", "snapshot", "lease", "exited"} => victims = {}
  /\ daemon = "clear" => table \subseteq victims \cup late
  /\ daemon \in {"close", "lease", "exited"} => table \subseteq late
  /\ daemon = "exited" => \A r \in Requests : ~Blocking(r)

\* Steps that leave the sessions, who holds them and the daemon alone.
LEMMA SessionsUntouched ==
  ASSUME SessionsTyped, SessionsInOrder, UNCHANGED <<sessionVars, victims, daemon>>,
         \A h \in Creates : InHand(h)' = InHand(h),
         daemon = "exited" => UNCHANGED step
  PROVE  SessionsTyped' /\ SessionsInOrder'
BY DEF SessionsTyped, SessionsInOrder, sessionVars, Alive, Blocking

\* Requests that create no session and end none.
LEMMA IdleRequests ==
  ASSUME SessionsTyped, RequestsTyped, SessionsInOrder, NEW r \in Requests,
         Dispatch(r) \/ Put(r) \/ WriteAnswer(r) \/ (r \in Creates /\ Check(r))
  PROVE  SessionsTyped' /\ SessionsInOrder'
<1>0. Creates \subseteq Requests /\ Closes \subseteq Requests
  BY DEF Requests
<1>1. PICK from \in {"unsent", "put", "write", "check"}, to \in {"check", "remove", "write", "over", "spawn"} :
        StepTo(r, from, to)
  BY DEF Dispatch, First, Put, WriteAnswer, Check, Refused
<1>2. UNCHANGED <<sessionVars, victims, daemon>>
  BY DEF Dispatch, Put, WriteAnswer, Check, loopVars
<1>3. \A h \in Creates : InHand(h)' = InHand(h)
  BY <1>0, <1>1, <1>2, StepMoved DEF InHand, sessionVars
<1> QED
  BY <1>1, <1>2, <1>3, SessionsUntouched DEF StepTo, Up

\* A create on its way.
LEMMA CreateSessions ==
  ASSUME SessionsTyped, RequestsTyped, SessionsInOrder, NEW r \in Creates,
         Spawn(r) \/ StartPump(r) \/ Insert(r)
  PROVE  SessionsTyped' /\ SessionsInOrder'
<1>0. Creates \subseteq Requests /\ Closes \subseteq Requests /\ r \in Requests
  BY DEF Requests
<1>1. UNCHANGED <<victims, daemon>> /\ Up
  BY DEF Spawn, StartPump, Insert, loopVars, Refused, StepTo
<1>2. ASSUME Refused(r, "spawn"), UNCHANGED sessionVars PROVE SessionsTyped' /\ SessionsInOrder'
  <2>1. \A h \in Creates : InHand(h)' = InHand(h)
    BY <1>0, <1>1, <1>2, StepMoved DEF Refused, InHand, sessionVars
  <2> QED
    BY <1>1, <1>2, <2>1, SessionsUntouched DEF Up
<1>3. ASSUME NEW from, NEW to, StepTo(r, from, to), NEW p \in {"running", "dead"},
             pty' = [pty EXCEPT ![r] = p] \/ (pty' = pty /\ from = "pump"),
             from = "spawn" => p = "running" /\ to = "pump",
             UNCHANGED <<table, late>>,
             <<from, to>> \in {<<"spawn", "pump">>, <<"pump", "insert">>, <<"pump", "write">>},
             to = "write" => pty' = [pty EXCEPT ![r] = "dead"]
      PROVE  SessionsTyped' /\ SessionsInOrder'
  <2>1. /\ step[r] = from /\ step'[r] = to /\ \A q \in Requests : q # r => step'[q] = step[q]
    BY <1>0, <1>3, StepMoved
  <2>2. SessionsTyped'
    BY <1>1, <1>3 DEF SessionsTyped
  <2>3. \A h \in Creates : h # r => (InHand(h)' = InHand(h) /\ pty'[h] = pty[h])
    BY <1>0, <1>1, <1>3, <2>1 DEF InHand, SessionsTyped
  <2>4. pty'[r] # "none" /\ (Alive(r)' => InHand(r)')
    <3>1. pty'[r] # "none"
      <4>1. CASE pty' = [pty EXCEPT ![r] = p]
        BY <4>1 DEF SessionsTyped
      <4>2. CASE pty' = pty /\ from = "pump"
        BY <2>1, <4>2 DEF SessionsInOrder, InHand
      <4> QED
        BY <1>3, <4>1, <4>2
    <3>2. to = "write" => pty'[r] = "dead"
      BY <1>3 DEF SessionsTyped
    <3>3. to # "write" => InHand(r)'
      BY <1>3, <2>1 DEF InHand
    <3> QED
      BY <3>1, <3>2, <3>3 DEF Alive
  <2>5. /\ \A h \in Creates : InHand(h)' => pty'[h] # "none"
        /\ \A h \in Creates : Alive(h)' => InHand(h)' \/ h \in late'
    BY <1>3, <2>3, <2>4 DEF SessionsInOrder, Alive
  <2> QED
    BY <1>1, <1>3, <2>2, <2>5 DEF SessionsInOrder, Up
<1>4. CASE Spawn(r)
  <2>1. CASE Refused(r, "spawn") /\ UNCHANGED pty
    BY <1>2, <1>4, <2>1 DEF Spawn, sessionVars
  <2>2. CASE StepTo(r, "spawn", "pump") /\ pty' = [pty EXCEPT ![r] = "running"]
    BY <1>3, <1>4, <2>2 DEF Spawn
  <2> QED
    BY <1>4, <2>1, <2>2 DEF Spawn
<1>5. CASE StartPump(r)
  <2>1. CASE StepTo(r, "pump", "insert") /\ UNCHANGED pty
    BY <1>3, <1>5, <2>1 DEF StartPump
  <2>2. CASE StepTo(r, "pump", "write") /\ pty' = [pty EXCEPT ![r] = "dead"]
    BY <1>3, <1>5, <2>2 DEF StartPump
  <2> QED
    BY <1>5, <2>1, <2>2 DEF StartPump, Refused
<1>6. CASE Insert(r)
  <2>1. /\ step[r] = "insert" /\ step'[r] = "put" /\ \A q \in Requests : q # r => step'[q] = step[q]
        /\ table' = table \cup {r} /\ pty' = pty
        /\ late' = IF daemon \in {"clear", "close", "lease"} THEN late \cup {r} ELSE late
    BY <1>0, <1>6, StepMoved DEF Insert
  <2>2. SessionsTyped'
    BY <1>1, <2>1 DEF SessionsTyped
  <2>3. \A h \in Creates : InHand(h)' = InHand(h)
    BY <1>0, <1>1, <2>1 DEF InHand
  <2> QED
    BY <1>1, <2>1, <2>2, <2>3 DEF SessionsInOrder, Alive, Up
<1> QED
  BY <1>4, <1>5, <1>6

\* A close on its way: out of the table into the hand of the close, and dead.
LEMMA CloseSessions ==
  ASSUME SessionsTyped, RequestsTyped, SessionsInOrder, NEW r \in Requests, Forget(r) \/ Kill(r)
  PROVE  SessionsTyped' /\ SessionsInOrder'
<1>0. Creates \subseteq Requests /\ Closes \subseteq Requests /\ r \in Closes /\ Target[r] \in Creates
  BY DaemonAssumption DEF Requests, Forget, Kill
<1>1. UNCHANGED <<victims, daemon, late>> /\ Up
  BY DEF Forget, Kill, loopVars, Refused, StepTo
<1>2. CASE Forget(r)
  <2>1. CASE Target[r] \in table
    <3>1. /\ step[r] = "remove" /\ step'[r] = "kill" /\ \A q \in Requests : q # r => step'[q] = step[q]
          /\ table' = table \ {Target[r]} /\ pty' = pty
      BY <1>0, <1>2, <2>1, StepMoved DEF Forget
    <3>2. SessionsTyped'
      BY <1>1, <3>1 DEF SessionsTyped
    <3>3. \A h \in Creates : InHand(h)' = InHand(h)
      BY <1>0, <1>1, <2>1, <3>1 DEF InHand
    <3> QED
      BY <1>1, <3>1, <3>2, <3>3 DEF SessionsInOrder, Alive, Up
  <2>2. CASE Target[r] \notin table
    <3>1. StepTo(r, "remove", "write") /\ UNCHANGED sessionVars
      BY <1>2, <2>2 DEF Forget, Refused, sessionVars
    <3>2. \A h \in Creates : InHand(h)' = InHand(h)
      BY <1>0, <1>1, <3>1, StepMoved DEF InHand, sessionVars
    <3> QED
      BY <1>1, <3>1, <3>2, SessionsUntouched DEF Up
  <2> QED
    BY <2>1, <2>2
<1>3. CASE Kill(r)
  <2>1. /\ step[r] = "kill" /\ step'[r] = "put" /\ \A q \in Requests : q # r => step'[q] = step[q]
        /\ pty' = [pty EXCEPT ![Target[r]] = "dead"] /\ table' = table
    BY <1>0, <1>3, StepMoved DEF Kill
  <2>2. SessionsTyped'
    BY <1>0, <1>1, <2>1 DEF SessionsTyped
  <2>3. /\ pty'[Target[r]] = "dead"
        /\ \A h \in Creates : h # Target[r] => pty'[h] = pty[h]
    BY <1>0, <2>1 DEF SessionsTyped
  <2>4. \A h \in Creates : h # Target[r] => InHand(h)' = InHand(h)
    BY <1>0, <1>1, <2>1 DEF InHand
  <2> QED
    BY <1>1, <2>1, <2>2, <2>3, <2>4 DEF SessionsInOrder, Alive, Up
<1> QED
  BY <1>2, <1>3

\* Every step of a request keeps the sessions in order.
LEMMA RequestSessions ==
  ASSUME SessionsTyped, RequestsTyped, SessionsInOrder, NEW r \in Requests, Dispatch(r) \/ Running(r)
  PROVE  SessionsTyped' /\ SessionsInOrder'
<1>1. CASE Dispatch(r) \/ Put(r) \/ WriteAnswer(r) \/ (r \in Creates /\ Check(r))
  BY <1>1, IdleRequests
<1>2. CASE r \in Creates /\ (Spawn(r) \/ StartPump(r) \/ Insert(r))
  BY <1>2, CreateSessions
<1>3. CASE Forget(r) \/ Kill(r)
  BY <1>3, CloseSessions
<1> QED
  BY <1>1, <1>2, <1>3 DEF Running

\* What happens to the sessions themselves, and the shutdown.
LEMMA DaemonSteps ==
  ASSUME SessionsTyped, RequestsTyped, LoopTyped, SessionsInOrder,
         \/ \E h \in Creates : ChildExits(h) \/ Drop(h)
         \/ Ticking \/ Retire \/ Interrupt \/ Stopping
  PROVE  SessionsTyped' /\ SessionsInOrder'
<1>0. Creates \subseteq Requests /\ Closes \subseteq Requests
  BY DEF Requests
<1>1. UNCHANGED step
  BY DEF ChildExits, Drop, Ticking, BusyTick, ReadOn, IdleTick, Retire, Interrupt, Stopping, SetShuttingDown,
         Snapshot, Clear, CloseVictim, RemoveLease, Exit, requestVars
<1>2. ASSUME NEW h \in Creates, ChildExits(h) \/ Drop(h) PROVE SessionsTyped' /\ SessionsInOrder'
  <2>1. /\ UNCHANGED <<table, late, victims, daemon>>
        /\ pty[h] \in {"running", "exited"}
        /\ \/ pty' = [pty EXCEPT ![h] = "exited"]
           \/ pty' = [pty EXCEPT ![h] = "dead"]
    BY <1>2 DEF ChildExits, Drop, loopVars
  <2>2. SessionsTyped'
    BY <2>1 DEF SessionsTyped
  <2>3. /\ \A g \in Creates : g # h => pty'[g] = pty[g]
        /\ pty'[h] \in {"exited", "dead"}
    BY <2>1 DEF SessionsTyped
  <2>4. \A g \in Creates : InHand(g)' = InHand(g)
    BY <1>1, <2>1 DEF InHand
  <2> QED
    BY <1>1, <2>1, <2>2, <2>3, <2>4 DEF SessionsInOrder, Alive, Blocking
<1>3. ASSUME Ticking \/ Retire \/ Interrupt \/ SetShuttingDown PROVE SessionsTyped' /\ SessionsInOrder'
  <2>1. /\ UNCHANGED <<sessionVars, victims>>
        /\ daemon \in {"serving", "stopping"} /\ daemon' \in {"serving", "stopping", "snapshot"}
    BY <1>3 DEF Ticking, BusyTick, ReadOn, IdleTick, Retire, Interrupt, SetShuttingDown, TickTo, StopsAt
  <2>2. \A g \in Creates : InHand(g)' = InHand(g)
    BY <1>1, <2>1 DEF InHand, sessionVars
  <2> QED
    BY <2>1, <2>2 DEF SessionsInOrder, SessionsTyped, sessionVars, Alive
<1>4. CASE Snapshot
  <2>1. /\ daemon = "snapshot" /\ daemon' = "clear" /\ victims' = table
        /\ UNCHANGED <<table, pty, late>>
    BY <1>4 DEF Snapshot, StopsAt, sessionVars
  <2>2. \A g \in Creates : InHand(g)' = InHand(g)
    BY <1>1, <2>1 DEF InHand, SessionsInOrder
  <2> QED
    BY <2>1, <2>2 DEF SessionsInOrder, SessionsTyped, Alive
<1>5. CASE Clear
  <2>1. /\ daemon = "clear" /\ daemon' = "close" /\ table' = {}
        /\ UNCHANGED <<victims, pty, late>>
    BY <1>5 DEF Clear, StopsAt
  <2>2. \A g \in Creates : /\ InHand(g)' => InHand(g)
                           /\ InHand(g) => InHand(g)' \/ g \in late
    BY <1>1, <2>1 DEF InHand, SessionsInOrder
  <2> QED
    BY <2>1, <2>2 DEF SessionsInOrder, SessionsTyped, Alive
<1>6. CASE CloseVictim
  <2>1. PICK h \in victims : pty' = [pty EXCEPT ![h] = "dead"] /\ victims' = victims \ {h}
    BY <1>6 DEF CloseVictim
  <2>2. daemon = "close" /\ UNCHANGED <<daemon, table, late>> /\ h \in Creates
    BY <1>6 DEF CloseVictim, SessionsTyped
  <2>3. pty'[h] = "dead" /\ \A g \in Creates : g # h => pty'[g] = pty[g]
    BY <2>1, <2>2 DEF SessionsTyped
  <2>4. \A g \in Creates : g # h => InHand(g)' = InHand(g)
    BY <1>1, <2>1, <2>2 DEF InHand
  <2>5. SessionsTyped'
    BY <2>1, <2>2 DEF SessionsTyped
  <2> QED
    BY <2>2, <2>3, <2>4, <2>5 DEF SessionsInOrder, Alive
<1>7. CASE RemoveLease \/ Exit
  <2>1. /\ daemon' \in {"lease", "exited"} /\ daemon \in {"close", "lease"} /\ victims' = {} /\ victims = {}
        /\ UNCHANGED sessionVars
        /\ daemon' = "exited" => \A r \in Requests : ~Blocking(r)
    BY <1>7 DEF RemoveLease, Exit, StopsAt, SessionsInOrder
  <2>2. \A g \in Creates : InHand(g)' = InHand(g)
    BY <1>1, <2>1 DEF InHand, sessionVars
  <2> QED
    BY <1>1, <2>1, <2>2 DEF SessionsInOrder, SessionsTyped, sessionVars, Alive, Blocking
<1> QED
  BY <1>2, <1>3, <1>4, <1>5, <1>6, <1>7 DEF Stopping

-----------------------------------------------------------------------------
\* The daemon's invariant.

DaemonInv == DaemonTypeOK /\ RetriesInOrder /\ SessionsInOrder

\* Every step of the daemon keeps the invariant.
LEMMA DaemonStep == DaemonInv /\ [Next]_vars => DaemonInv'
<1> SUFFICES ASSUME DaemonInv, [Next]_vars PROVE DaemonInv'
  OBVIOUS
<1>0. /\ ConnsTyped /\ RequestsTyped /\ SessionsTyped /\ ReceiptsTyped /\ LoopTyped /\ Counted
      /\ RetriesInOrder /\ SessionsInOrder
  BY TypingSplit DEF DaemonInv
<1>1. SessionsTyped' /\ SessionsInOrder'
  <2>1. ASSUME NEW c \in Conns, Connect(c) \/ Leave(c) \/ Serving(c)
        PROVE  UNCHANGED <<sessionVars, victims, daemon, step>>
    BY <2>1 DEF Connect, Leave, Serving, Accept, Count, Disconnect, loopVars, requestVars
  <2>2. ASSUME UNCHANGED <<sessionVars, victims, daemon, step>> PROVE SessionsTyped' /\ SessionsInOrder'
    <3>1. \A h \in Creates : InHand(h)' = InHand(h)
      BY <2>2 DEF InHand, sessionVars
    <3> QED
      BY <1>0, <2>2, <3>1, SessionsUntouched
  <2>3. ASSUME UNCHANGED vars PROVE SessionsTyped' /\ SessionsInOrder'
    BY <2>2, <2>3 DEF vars, loopVars, requestVars
  <2>4. ASSUME NEW r \in Requests, Dispatch(r) \/ Running(r) PROVE SessionsTyped' /\ SessionsInOrder'
    BY <1>0, <2>4, RequestSessions
  <2> QED
    BY <1>0, <2>1, <2>2, <2>3, <2>4, DaemonSteps DEF Next
<1>2. RetriesInOrder'
  BY <1>0, RetriesStep DEF SessionsInOrder
<1>3. ConnsTyped' /\ RequestsTyped' /\ ReceiptsTyped' /\ LoopTyped'
  BY <1>0, ConnsStep, RequestsStep, ReceiptsStep, LoopStep
<1>4. Counted'
  BY <1>0, InFlightStep, ServedStep DEF Counted
<1>5. DaemonTypeOK'
  BY <1>1, <1>3, <1>4
     DEF DaemonTypeOK, ConnsTyped, RequestsTyped, SessionsTyped, ReceiptsTyped, LoopTyped, Counted, Served,
         InFlight, Stages
<1> QED
  BY <1>1, <1>2, <1>5 DEF DaemonInv

\* The invariant holds when the daemon starts to serve.
LEMMA DaemonStart == Init => DaemonInv
<1> SUFFICES ASSUME Init PROVE DaemonInv
  OBVIOUS
<1> USE DaemonAssumption
<1>1. ConnsTyped /\ RequestsTyped /\ SessionsTyped /\ LoopTyped
  BY DEF Init, ConnsTyped, RequestsTyped, SessionsTyped, LoopTyped, Stages
<1>2. ReceiptsTyped
  BY DEF Init, ReceiptsTyped
<1>3. Counted
  <2>1. Served = {} /\ InFlight = {}
    BY DEF Init, Served, InFlight
  <2> QED
    BY <2>1, FS_EmptySet DEF Init, Counted
<1>4. RetriesInOrder
  BY DEF Init, RetriesInOrder, Requests
<1>5. SessionsInOrder
  BY DEF Init, SessionsInOrder, InHand, Alive, Requests
<1> QED
  BY <1>1, <1>2, <1>3, <1>4, <1>5, TypingSplit DEF DaemonInv

-----------------------------------------------------------------------------
\* The theorems.

\* The invariant holds whatever the clients do.
THEOREM DaemonInvariance == Spec => []DaemonInv
BY DaemonStart, DaemonStep, PTL DEF Spec

\* A retry does no work a second time, unless its original was still running or
\* its receipt had made room.
THEOREM DaemonRetries == Spec => []RetryRunsOnce
<1>1. DaemonInv => RetryRunsOnce
  BY DaemonAssumption DEF DaemonInv, RetriesInOrder, RetryRunsOnce, Requests
<1> QED
  BY <1>1, DaemonInvariance, PTL

\* The counters count the clients and the verbs in flight, and no session's tree
\* outlives the daemon but of one that was put in the table after the snapshot.
THEOREM DaemonHolds == Spec => []SessionsAreHeld
<1>1. DaemonInv => NothingOutlivesShutdown
  <2> SUFFICES ASSUME DaemonInv, ~Up, NEW h \in Creates, Alive(h) PROVE h \in late
    BY DEF NothingOutlivesShutdown, Alive
  <2>1. /\ daemon = "exited" /\ victims = {} /\ table \subseteq late
        /\ \A r \in Requests : ~Blocking(r)
        /\ InHand(h) \/ h \in late
    BY DEF DaemonInv, SessionsInOrder, Up
  <2> QED
    BY <2>1 DEF InHand, Blocking, Requests
<1>2. DaemonInv => SessionsAreHeld
  BY <1>1 DEF DaemonInv, SessionsAreHeld
<1> QED
  BY <1>2, DaemonInvariance, PTL
==============================================================================
