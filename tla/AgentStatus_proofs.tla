------------------------- MODULE AgentStatus_proofs -------------------------
(***************************************************************************)
(* Proofs about AgentStatus, for every number of hooks, agents and daemons *)
(* and every bound.                                                        *)
(*                                                                         *)
(* The invariant, StatusInv, follows a report from the hook's clock to the *)
(* rows of the table: a hook's reading is never changed once it has fired, *)
(* a task stamps its row with a later one, and what is spooled is of hooks *)
(* that are done.  Then restored rows keep the hook's clock and live rows  *)
(* are no older than it, which is what keeps a report from being restored  *)
(* above itself.  SpoolInv follows a spooled row the other way: it is in   *)
(* one file, in one hand, or settled, and never in two of these.           *)
(***************************************************************************)
EXTENDS AgentStatus, SequenceTheorems, TLAPS

HookPcs == {"idle", "sending", "spooling", "appending", "delivered", "spooled",
            "refused", "unmapped"}
HandlerPcs == {"none", "queued", "stamped", "recorded", "read", "done", "failed",
               "dropped"}
Statuses == UNION {[B -> Row] : B \in SUBSET Agent}
HookState == [pc : HookPcs, at : 1..MaxClock, of : Agent \cup {NoState}, file : Nat]
TaskState == [pc : HandlerPcs, at : 1..MaxClock, life : Nat, status : Statuses]
File == [name : {"spooled", "draining", "gone"}, rows : Seq(Hook)]

-----------------------------------------------------------------------------
(* The inductive invariant, in parts.                                      *)

\* The types, stronger than StatusTypeOK where a step needs it.
HooksTyped ==
  /\ clock \in 1..MaxClock
  /\ hook \in [Hook -> HookState]
  /\ \A h \in Hook : hook[h].file \in 0..Len(spool)

HandlersTyped ==
  /\ life \in 0..MaxLives
  /\ phase \in {"down", "bound", "draining", "serving"}
  /\ handler \in [Hook -> TaskState]
  /\ \A h \in Hook : handler[h].life <= life

SpoolTyped ==
  /\ spool \in Seq(File)
  /\ leftovers \cup claimed \subseteq 1..Len(spool)
  /\ page = NoPage \/ page \in [file : 1..Len(spool), rows : Seq(Hook)]
  /\ hand \in Seq(Hook)
  /\ settled \in [Hook -> Nat] /\ forfeited \subseteq Hook /\ prompt \subseteq Hook

HistoryTyped ==
  /\ history \in [Agent -> Seq(Row)]
  /\ \A a \in Agent : Len(history[a]) <= HistoryCap

Typed == HooksTyped /\ HandlersTyped /\ SpoolTyped /\ HistoryTyped

\* Where a hook and the task for it have come: a clock read later is not smaller,
\* and a report that reaches the spool or the table is one of an agent.
Staged ==
  \A h \in Hook :
    /\ hook[h].at <= clock
    /\ hook[h].pc \in {"spooling", "appending", "spooled"} => AgentOf(h) \in Agent
    /\ handler[h].pc # "none" => hook[h].pc # "idle"
    /\ handler[h].pc = "stamped" =>
         AgentOf(h) \in Agent /\ handler[h].at >= hook[h].at

\* The spool and what was drained of it hold reports of hooks that have spooled.
Spoolers == {h \in Hook : hook[h].pc = "spooled"}

SpoolStaged ==
  /\ \A f \in DOMAIN spool : spool[f].rows \in Seq(Spoolers)
  /\ page.rows \in Seq(Spoolers) /\ hand \in Seq(Spoolers)

\* A row is of a hook that fired.  A restored one has the clock of the hook, a
\* live one that of the daemon, which read it later.
RowStaged(row) ==
  /\ hook[row.hook].pc # "idle"
  /\ IF row.restored THEN row.at = hook[row.hook].at ELSE row.at >= hook[row.hook].at

HistoryStaged ==
  \A a \in Agent : \A i \in DOMAIN history[a] : RowStaged(history[a][i])

\* What a task has recorded is in the table, or the agent's history is full of
\* newer rows; a hook is told so only when the task is done.
InTable(h) ==
  \/ \E i \in DOMAIN history[AgentOf(h)] : history[AgentOf(h)][i].hook = h
  \/ Len(history[AgentOf(h)]) = HistoryCap

Kept ==
  \A h \in Hook :
    /\ handler[h].pc \in {"recorded", "read", "done"} /\ AgentOf(h) \in Agent => InTable(h)
    /\ hook[h].pc = "delivered" => handler[h].pc = "done"

StatusInv ==
  Typed /\ Staged /\ SpoolStaged /\ HistoryStaged /\ RestoredYieldsToLive /\ Kept

-----------------------------------------------------------------------------
LEMMA InitTyped ==
  ASSUME Init
  PROVE  HooksTyped /\ HandlersTyped /\ SpoolTyped /\ HistoryTyped
<1> USE DEF Init
<1>1. HooksTyped
  BY StatusAssumption DEF HooksTyped, HookState, HookPcs, NoFile
<1>2. HandlersTyped
  <2>1. NoStatus \in Statuses
    BY DEF NoStatus, Statuses
  <2> QED BY <2>1, StatusAssumption DEF HandlersTyped, TaskState, HandlerPcs
<1>3. SpoolTyped
  BY DEF SpoolTyped, NoPage, NoFile
<1>4. HistoryTyped
  BY StatusAssumption DEF HistoryTyped
<1> QED BY <1>1, <1>2, <1>3, <1>4

\* `record_status` and `restore_status` put one row at the end of one history and
\* keep what was there, but for the oldest row when the history is full.
LEMMA AppendedEffect ==
  ASSUME HooksTyped, HistoryTyped, NEW h \in Hook, AgentOf(h) \in Agent,
         NEW at \in 1..MaxClock, NEW restored \in BOOLEAN
  PROVE  LET a == AgentOf(h)
             new == Appended(h, at, restored)
             lost == IF Len(history[a]) = HistoryCap THEN 1 ELSE 0
         IN /\ new \in [Agent -> Seq(Row)]
            /\ \A b \in Agent : b # a => new[b] = history[b]
            /\ Len(new[a]) = Len(history[a]) + 1 - lost
            /\ \A i \in 1..Len(history[a]) - lost : new[a][i] = history[a][i + lost]
            /\ new[a][Len(new[a])] = [hook |-> h, at |-> at, restored |-> restored]
<1> DEFINE a == AgentOf(h)
           row == [hook |-> h, at |-> at, restored |-> restored]
           old == history[a]
           longer == Append(old, row)
           over == Len(longer) - HistoryCap
           kept == IF over > 0 THEN SubSeq(longer, over + 1, Len(longer)) ELSE longer
           lost == IF Len(old) = HistoryCap THEN 1 ELSE 0
<1>1. Appended(h, at, restored) = [history EXCEPT ![a] = kept]
  BY DEF Appended
<1>2. /\ old \in Seq(Row) /\ Len(old) <= HistoryCap /\ HistoryCap \in Nat \ {0}
      /\ row \in Row
  BY StatusAssumption DEF HistoryTyped, Row
<1>3. /\ longer \in Seq(Row) /\ Len(longer) = Len(old) + 1
      /\ \A i \in 1..Len(old) : longer[i] = old[i]
      /\ longer[Len(old) + 1] = row
  BY <1>2
<1> HIDE DEF longer, row, old
<1> DEFINE Trimmed == /\ kept \in Seq(Row) /\ Len(kept) = Len(old) + 1 - lost
                      /\ \A i \in 1..Len(old) - lost : kept[i] = old[i + lost]
                      /\ kept[Len(kept)] = row
<1>4. ASSUME Len(old) = HistoryCap PROVE Trimmed
  <2>1. kept = SubSeq(longer, 2, Len(longer))
    BY <1>2, <1>3, <1>4
  <2>2. /\ kept \in Seq(Row) /\ Len(kept) = Len(old)
        /\ \A i \in 1..Len(old) : kept[i] = longer[i + 1]
    <3>1. 2 \in 1..Len(longer) + 1 /\ Len(longer) \in 1..Len(longer)
      BY <1>2, <1>3, <1>4
    <3> HIDE DEF kept
    <3>2. /\ kept \in Seq(Row)
          /\ Len(kept) = IF 2 <= Len(longer) THEN Len(longer) - 2 + 1 ELSE 0
          /\ \A i \in 1..Len(longer) - 2 + 1 : kept[i] = longer[2 + i - 1]
      BY <1>3, <2>1, <3>1, SubSeqProperties
    <3> QED BY <1>2, <1>3, <1>4, <3>2
  <2> HIDE DEF kept
  <2> QED BY <1>2, <1>3, <1>4, <2>2
<1>5. ASSUME Len(old) # HistoryCap PROVE Trimmed
  <2>1. kept = longer
    BY <1>2, <1>3, <1>5
  <2> HIDE DEF kept
  <2> QED BY <1>2, <1>3, <1>5, <2>1
<1>6. Trimmed
  BY <1>4, <1>5
<1> HIDE DEF kept
<1> QED
  BY <1>1, <1>6 DEF HistoryTyped, old, row

\* A file is a name and rows.
LEMMA FileTyped ==
  ASSUME SpoolTyped, NEW f \in DOMAIN spool
  PROVE  spool[f] \in File /\ spool[f].rows \in Seq(Hook)
<1>1. spool[f] \in File
  BY DEF SpoolTyped
<1> QED BY <1>1 DEF File

\* Renaming keeps every file's rows and their number.
LEMMA RenamedEffect ==
  ASSUME SpoolTyped, NEW files
  PROVE  /\ Renamed(files) \in Seq(File) /\ Len(Renamed(files)) = Len(spool)
         /\ \A f \in DOMAIN spool : Renamed(files)[f].rows = spool[f].rows
<1>1. DOMAIN spool = 1..Len(spool) /\ Len(spool) \in Nat
  BY DEF SpoolTyped
<1>2. \A f \in DOMAIN spool : [name |-> "draining", rows |-> spool[f].rows] \in File
  BY FileTyped DEF File
<1>3. Renamed(files) \in [1..Len(spool) -> File]
  BY <1>1, <1>2, FileTyped DEF Renamed
<1>4. Renamed(files) \in Seq(File) /\ Len(Renamed(files)) = Len(spool)
  BY <1>1, <1>3
<1>5. \A f \in DOMAIN spool : Renamed(files)[f].rows = spool[f].rows
  BY <1>1 DEF Renamed
<1> QED BY <1>4, <1>5

LEMMA StatusTyped ==
  ASSUME HistoryTyped
  PROVE  Status \in Statuses /\ NoStatus \in Statuses
<1>1. NoStatus \in Statuses
  BY DEF NoStatus, Statuses
<1>2. \A a \in Agent : history[a] # <<>> => Last(history[a]) \in Row
  BY DEF HistoryTyped, Last
<1>3. [a \in {b \in Agent : history[b] # <<>>} |-> Last(history[a])] \in Statuses
  <2> DEFINE B == {b \in Agent : history[b] # <<>>}
  <2>1. [a \in B |-> Last(history[a])] \in [B -> Row]
    BY <1>2
  <2>2. [B -> Row] \in {[C -> Row] : C \in SUBSET Agent}
    OBVIOUS
  <2> QED BY <2>1, <2>2 DEF Statuses
<1> QED BY <1>1, <1>3 DEF Status

-----------------------------------------------------------------------------
(* Every step keeps the types.                                             *)

\* A hook that goes on, in the file it had or another.
Moves(h, pc, file) ==
  hook' = [hook EXCEPT ![h] = [hook[h] EXCEPT !.pc = pc, !.file = file]]

LEMMA HookMoves ==
  ASSUME HooksTyped, clock' = clock, NEW h \in Hook, NEW pc \in HookPcs, NEW file \in Nat,
         Len(spool) \in Nat, Len(spool') \in Nat, Len(spool) <= Len(spool'),
         file <= Len(spool'), Moves(h, pc, file)
  PROVE  HooksTyped'
<1> USE DEF Moves
<1>1. hook' \in [Hook -> HookState]
  BY DEF HooksTyped, HookState
<1>2. \A g \in Hook : hook'[g].file \in {hook[g].file, file} /\ hook[g].file \in Nat
  BY DEF HooksTyped, HookState
<1>3. \A g \in Hook : hook'[g].file \in 0..Len(spool')
  BY <1>2 DEF HooksTyped
<1> QED BY <1>1, <1>3 DEF HooksTyped

\* The same, where only the stage of the hook changes.
LEMMA HookTurns ==
  ASSUME HooksTyped, clock' = clock, NEW h \in Hook, NEW pc \in HookPcs,
         Len(spool') = Len(spool), hook' = [hook EXCEPT ![h].pc = pc]
  PROVE  HooksTyped'
<1>1. hook' \in [Hook -> HookState] /\ \A g \in Hook : hook'[g].file = hook[g].file
  BY DEF HooksTyped, HookState
<1> QED BY <1>1 DEF HooksTyped

LEMMA HooksStayTyped ==
  ASSUME Typed, Next
  PROVE  HooksTyped'
<1>0. HooksTyped /\ SpoolTyped /\ Len(spool) \in Nat
  BY DEF Typed, SpoolTyped
<1>1. ASSUME NEW h \in Hook, Fire(h) PROVE HooksTyped'
  <2> PICK of \in Agent \cup {NoState} :
        hook' = [hook EXCEPT ![h] = [hook[h] EXCEPT !.pc = "sending", !.at = clock, !.of = of]]
    BY <1>1 DEF Fire
  <2>0. "sending" \in HookPcs /\ clock \in 1..MaxClock
    BY <1>0 DEF HookPcs, HooksTyped
  <2>1. hook' \in [Hook -> HookState] /\ \A g \in Hook : hook'[g].file = hook[g].file
    BY <1>0, <2>0 DEF HooksTyped, HookState
  <2>2. UNCHANGED <<clock, spool>>
    BY <1>1 DEF Fire
  <2> QED BY <1>0, <2>1, <2>2 DEF HooksTyped
<1>2. ASSUME NEW h \in Hook, Answered(h) \/ GiveUp(h) PROVE HooksTyped'
  <2>1. PICK pc \in HookPcs : hook' = [hook EXCEPT ![h].pc = pc]
    BY <1>2 DEF Answered, GiveUp, NotTaken, HookPcs
  <2>2. UNCHANGED <<clock, spool>>
    BY <1>2 DEF Answered, GiveUp
  <2> QED BY <1>0, <2>1, <2>2, HookTurns
<1>3. ASSUME NEW h \in Hook, OpenSpool(h) PROVE HooksTyped'
  <2>1. Spooled \subseteq 1..Len(spool) /\ {"refused", "appending"} \subseteq HookPcs
    BY <1>0 DEF Spooled, SpoolTyped, HookPcs
  <2>2. clock' = clock
    BY <1>3 DEF OpenSpool
  <2>3. CASE UNCHANGED spool /\ hook' = [hook EXCEPT ![h].pc = "refused"]
    BY <1>0, <2>1, <2>2, <2>3, HookTurns
  <2>4. ASSUME NEW f \in Spooled, spool' = spool, Moves(h, "appending", f)
        PROVE  HooksTyped'
    <3>1. f \in Nat /\ f <= Len(spool') /\ Len(spool') = Len(spool)
      BY <1>0, <2>1, <2>4
    <3> QED BY <1>0, <3>1, <2>1, <2>2, <2>4, HookMoves
  <2>5. CASE /\ spool' = Append(spool, [name |-> "spooled", rows |-> <<>>])
             /\ Moves(h, "appending", Len(spool) + 1)
    <3>1. Len(spool') = Len(spool) + 1
      BY <1>0, <2>5 DEF SpoolTyped
    <3> QED BY <1>0, <2>5, <3>1, <2>1, <2>2, HookMoves
  <2> QED BY <1>3, <2>3, <2>4, <2>5 DEF OpenSpool, Moves
<1>4. ASSUME NEW h \in Hook, WriteSpool(h) PROVE HooksTyped'
  <2>1. hook' = [hook EXCEPT ![h].pc = "spooled"] /\ clock' = clock /\ "spooled" \in HookPcs
    BY <1>4 DEF WriteSpool, HookPcs
  <2>2. Len(spool') = Len(spool)
    BY <1>0, <1>4 DEF WriteSpool, SpoolTyped
  <2> QED BY <1>0, <2>1, <2>2, HookTurns
<1>5. ASSUME Len(spool') = Len(spool), UNCHANGED hookVars PROVE HooksTyped'
  BY <1>0, <1>5 DEF HooksTyped, hookVars
<1>6. ASSUME Claim PROVE HooksTyped'
  <2>1. PICK files : spool' = Renamed(files)
    BY <1>6 DEF Claim
  <2>2. UNCHANGED hookVars
    BY <1>6 DEF Claim
  <2> QED BY <1>0, <1>5, <2>1, <2>2, RenamedEffect
<1>7. ASSUME RemoveFile PROVE HooksTyped'
  <2>1. Len(spool') = Len(spool) /\ UNCHANGED hookVars
    BY <1>0, <1>7 DEF RemoveFile, SpoolTyped
  <2> QED BY <1>5, <2>1
<1>8. ASSUME Tick PROVE HooksTyped'
  BY <1>0, <1>8, StatusAssumption DEF Tick, HooksTyped
<1>9. ASSUME UNCHANGED <<hookVars, spool>> PROVE HooksTyped'
  BY <1>5, <1>9
<1> QED
  BY <1>1, <1>2, <1>3, <1>4, <1>6, <1>7, <1>8, <1>9 DEF Next, HookStep, TaskStep,
     WindowStep, DaemonStep, Deliver, Stamp, Record, ReadBack, Broadcast, Subscribe,
     Leave, ReadFrame, Start, ReadFile, SkipFile, RestoreRow, Serve, Stop, Crash

\* A task that goes on: at another stage, and perhaps with what it found there.
TaskMoves(h, pc, at, l, status) ==
  handler' = [handler EXCEPT ![h] = [handler[h] EXCEPT !.pc = pc, !.at = at, !.life = l,
                                                       !.status = status]]

LEMMA TaskMovesEffect ==
  ASSUME HandlersTyped, life' = life, phase' = phase, NEW h \in Hook,
         NEW pc \in HandlerPcs, NEW at \in 1..MaxClock, NEW l \in Nat, l <= life,
         NEW status \in Statuses, TaskMoves(h, pc, at, l, status)
  PROVE  HandlersTyped'
<1> USE DEF TaskMoves
<1>1. handler' \in [Hook -> TaskState]
  BY DEF HandlersTyped, TaskState
<1>2. \A g \in Hook : handler'[g].life <= life'
  BY DEF HandlersTyped, TaskState
<1> QED BY <1>1, <1>2 DEF HandlersTyped

\* The steps of a task and of the process that asked, in that form.
LEMMA TaskStepsMove ==
  ASSUME Typed, NEW h \in Hook,
         Deliver(h) \/ Stamp(h) \/ Record(h) \/ ReadBack(h) \/ Broadcast(h)
  PROVE  \E pc \in HandlerPcs, at \in 1..MaxClock, l \in Nat, status \in Statuses :
           l <= life /\ TaskMoves(h, pc, at, l, status)
<1>1. handler[h] \in TaskState /\ handler[h].life <= life /\ clock \in 1..MaxClock
      /\ life \in Nat /\ handler \in [Hook -> TaskState]
  BY DEF Typed, HandlersTyped, HooksTyped
<1>2. /\ handler[h].pc \in HandlerPcs /\ handler[h].at \in 1..MaxClock
      /\ handler[h].life \in Nat /\ handler[h].status \in Statuses
  BY <1>1 DEF TaskState
<1>3. NoStatus \in Statuses /\ Status \in Statuses
  BY StatusTyped DEF Typed
<1>4. ASSUME NEW pc \in HandlerPcs, handler' = [handler EXCEPT ![h].pc = pc]
      PROVE  TaskMoves(h, pc, handler[h].at, handler[h].life, handler[h].status)
  BY <1>1, <1>4 DEF TaskMoves, TaskState
<1>5. CASE Deliver(h)
  <2>1. TaskMoves(h, "queued", handler[h].at, life, handler[h].status)
    BY <1>1, <1>5 DEF Deliver, TaskMoves, TaskState
  <2> QED BY <1>1, <1>2, <2>1 DEF HandlerPcs
<1>6. CASE Stamp(h)
  <2>1. CASE handler' = [handler EXCEPT ![h].pc = "failed"]
             \/ handler' = [handler EXCEPT ![h].pc = "done"]
    BY <1>1, <1>2, <1>4, <2>1 DEF HandlerPcs
  <2>2. CASE handler' = [handler EXCEPT ![h] = [handler[h] EXCEPT !.pc = "stamped",
                                                                  !.at = clock]]
    <3>1. TaskMoves(h, "stamped", clock, handler[h].life, handler[h].status)
      BY <1>1, <2>2 DEF TaskMoves, TaskState
    <3> QED BY <1>1, <1>2, <3>1 DEF HandlerPcs
  <2> QED BY <1>6, <2>1, <2>2 DEF Stamp
<1>7. CASE Record(h)
  BY <1>1, <1>2, <1>4, <1>7 DEF Record, HandlerPcs
<1>8. CASE ReadBack(h)
  <2> PICK pc \in {"failed", "done", "read"} :
        handler' = [handler EXCEPT ![h] =
                      [handler[h] EXCEPT !.pc = pc,
                                         !.status = IF pc = "read" THEN Status ELSE NoStatus]]
    BY <1>8 DEF ReadBack
  <2>1. \E status \in Statuses :
          TaskMoves(h, pc, handler[h].at, handler[h].life, status)
    BY <1>1, <1>3 DEF TaskMoves, TaskState
  <2> QED BY <1>1, <1>2, <2>1 DEF HandlerPcs
<1>9. CASE Broadcast(h)
  <2>1. TaskMoves(h, "done", handler[h].at, handler[h].life, NoStatus)
    BY <1>1, <1>9 DEF Broadcast, TaskMoves, TaskState
  <2> QED BY <1>1, <1>2, <1>3, <2>1 DEF HandlerPcs
<1> QED BY <1>5, <1>6, <1>7, <1>8, <1>9

LEMMA HandlersStayTyped ==
  ASSUME Typed, Next
  PROVE  HandlersTyped'
<1>0. HandlersTyped /\ life \in Nat
  BY DEF Typed, HandlersTyped
<1>1. ASSUME NEW h \in Hook,
             Deliver(h) \/ Stamp(h) \/ Record(h) \/ ReadBack(h) \/ Broadcast(h)
      PROVE  HandlersTyped'
  <2>1. life' = life /\ phase' = phase
    BY <1>1 DEF Deliver, Stamp, Record, ReadBack, Broadcast
  <2> QED BY <1>0, <1>1, <2>1, TaskStepsMove, TaskMovesEffect
<1>2. ASSUME handler' = handler, life \in 0..life',
             life' \in 0..MaxLives, phase' \in {"down", "bound", "draining", "serving"}
      PROVE  HandlersTyped'
  BY <1>0, <1>2 DEF HandlersTyped, TaskState
<1>3. CASE Start
  <2>1. handler' = handler /\ life' = life + 1 /\ life < MaxLives /\ phase' = "bound"
    BY <1>3 DEF Start
  <2>2. life \in 0..life' /\ life' \in 0..MaxLives
    BY <1>0, <2>1, StatusAssumption
  <2> QED BY <1>2, <2>1, <2>2
<1>4. CASE Claim \/ Serve
  BY <1>0, <1>2, <1>4 DEF Claim, Serve, HandlersTyped
<1>5. ASSUME NEW pcs, handler' = Ended(pcs), life' = life, phase' = "down"
      PROVE  HandlersTyped'
  <2>1. \A g \in Hook : /\ handler[g] \in TaskState
                        /\ [handler[g] EXCEPT !.pc = "dropped", !.status = NoStatus] \in TaskState
                        /\ handler'[g].life = handler[g].life
    BY <1>0, <1>5, StatusTyped DEF Typed, HandlersTyped, TaskState, HandlerPcs, Ended
  <2>2. handler' \in [Hook -> TaskState]
    BY <1>5, <2>1 DEF Ended
  <2> QED BY <1>0, <1>5, <2>1, <2>2 DEF HandlersTyped
<1>6. CASE Stop \/ Crash
  BY <1>5, <1>6 DEF Stop, Crash
<1>7. ASSUME UNCHANGED <<handler, life, phase>> PROVE HandlersTyped'
  BY <1>0, <1>7 DEF HandlersTyped
<1> QED
  BY <1>1, <1>3, <1>4, <1>6, <1>7 DEF Next, HookStep, TaskStep, WindowStep, DaemonStep,
     Fire, Answered, GiveUp, OpenSpool, WriteSpool, Subscribe, Leave, ReadFrame,
     ReadFile, RemoveFile, SkipFile, RestoreRow, Tick

\* The files a drain still has to read are files.
LEMMA DueTyped ==
  ASSUME SpoolTyped, NEW f \in Due
  PROVE  f \in 1..Len(spool) /\ f \in DOMAIN spool
BY DEF SpoolTyped, Due

LEMMA SpoolStaysTyped ==
  ASSUME Typed, Next
  PROVE  SpoolTyped'
<1> USE DEF SpoolTyped
<1>0. SpoolTyped /\ Len(spool) \in Nat /\ DOMAIN spool = 1..Len(spool)
  BY DEF Typed
<1>1. ASSUME NEW h \in Hook, OpenSpool(h) PROVE SpoolTyped'
  <2>0. UNCHANGED <<drainVars, ghostVars>>
    BY <1>1 DEF OpenSpool
  <2>1. CASE UNCHANGED spool
    BY <1>0, <2>0, <2>1 DEF drainVars, ghostVars
  <2>2. CASE spool' = Append(spool, [name |-> "spooled", rows |-> <<>>])
    <3>1. [name |-> "spooled", rows |-> <<>>] \in File
      BY DEF File
    <3>2. spool' \in Seq(File) /\ Len(spool') = Len(spool) + 1
      BY <1>0, <2>2, <3>1
    <3>3. 1..Len(spool) \subseteq 1..Len(spool') /\ 0..Len(spool) \subseteq 0..Len(spool')
      BY <1>0, <3>2
    <3> QED BY <1>0, <2>0, <3>2, <3>3 DEF drainVars, ghostVars
  <2> QED BY <1>1, <2>1, <2>2 DEF OpenSpool
<1>2. ASSUME NEW h \in Hook, WriteSpool(h) PROVE SpoolTyped'
  <2>0. UNCHANGED <<drainVars, settled, forfeited>>
    BY <1>2 DEF WriteSpool
  <2>1. prompt' \subseteq Hook
    BY <1>0, <1>2 DEF WriteSpool
  <2>2. spool' \in Seq(File) /\ Len(spool') = Len(spool)
    <3> DEFINE f == hook[h].file
    <3>1. CASE spool' = spool
      BY <1>0, <3>1
    <3>2. CASE f \in DOMAIN spool /\ spool' = [spool EXCEPT ![f].rows = Append(spool[f].rows, h)]
      <4>1. spool[f] \in File /\ Append(spool[f].rows, h) \in Seq(Hook)
        BY <1>0, <3>2, FileTyped
      <4>2. [spool[f] EXCEPT !.rows = Append(spool[f].rows, h)] \in File
        BY <4>1 DEF File
      <4>3. spool' = [spool EXCEPT ![f] = [spool[f] EXCEPT !.rows = Append(spool[f].rows, h)]]
        BY <3>2
      <4> QED BY <1>0, <3>2, <4>2, <4>3
    <3>3. CASE f \notin DOMAIN spool /\ spool' = [spool EXCEPT ![f].rows = Append(spool[f].rows, h)]
      <4>1. spool' = [g \in DOMAIN spool |-> spool[g]]
        BY <1>0, <3>3
      <4>2. spool' \in [1..Len(spool) -> File]
        BY <1>0, <4>1, FileTyped
      <4> QED BY <1>0, <4>2
    <3> QED BY <1>2, <3>1, <3>2, <3>3 DEF WriteSpool
  <2> QED BY <1>0, <2>0, <2>1, <2>2 DEF drainVars
<1>3. ASSUME Claim PROVE SpoolTyped'
  <2>1. PICK files \in {Spooled, {}} : claimed' = files /\ spool' = Renamed(files)
    BY <1>3 DEF Claim
  <2>2. spool' \in Seq(File) /\ Len(spool') = Len(spool)
    <3> HIDE DEF SpoolTyped
    <3>1. Renamed(files) \in Seq(File) /\ Len(Renamed(files)) = Len(spool)
      BY <1>0, RenamedEffect
    <3> QED BY <2>1, <3>1
  <2>3. leftovers' \cup claimed' \subseteq 1..Len(spool)
    BY <1>0, <1>3, <2>1 DEF Claim, Draining, Spooled
  <2> QED BY <1>0, <1>3, <2>2, <2>3 DEF Claim, ghostVars
<1>4. ASSUME ReadFile PROVE SpoolTyped'
  <2> PICK f \in Due : page' = [file |-> f, rows |-> spool[f].rows]
    BY <1>4 DEF ReadFile
  <2>1. f \in 1..Len(spool) /\ spool[f].rows \in Seq(Hook)
    BY <1>0, DueTyped, FileTyped
  <2>2. page' \in [file : 1..Len(spool), rows : Seq(Hook)]
    BY <2>1
  <2>3. UNCHANGED <<leftovers, claimed, hand, spool, ghostVars>>
    BY <1>4 DEF ReadFile
  <2> QED BY <1>0, <2>2, <2>3 DEF ghostVars
<1>5. ASSUME RemoveFile PROVE SpoolTyped'
  <2>1. page.file \in 1..Len(spool) /\ page.rows \in Seq(Hook)
    BY <1>0, <1>5 DEF RemoveFile
  <2>2. [name |-> "gone", rows |-> <<>>] \in File
    BY DEF File
  <2>3. spool' = [spool EXCEPT ![page.file] = [name |-> "gone", rows |-> <<>>]]
    BY <1>5 DEF RemoveFile
  <2>4. spool' \in Seq(File) /\ Len(spool') = Len(spool)
    BY <1>0, <2>1, <2>2, <2>3
  <2>5. hand' \in Seq(Hook)
    BY <1>0, <1>5, <2>1 DEF RemoveFile
  <2>6. page' = NoPage /\ leftovers' \subseteq leftovers /\ claimed' \subseteq claimed
        /\ UNCHANGED <<settled, forfeited, prompt>>
    BY <1>5 DEF RemoveFile, DoneWith, ghostVars
  <2> QED BY <1>0, <2>4, <2>5, <2>6
<1>6. ASSUME SkipFile PROVE SpoolTyped'
  BY <1>0, <1>6 DEF SkipFile, DoneWith, ghostVars
<1>7. ASSUME RestoreRow PROVE SpoolTyped'
  <2>1. hand' \in Seq(Hook)
    BY <1>0, <1>7 DEF RestoreRow
  <2>2. settled' \in [Hook -> Nat]
    BY <1>0, <1>7 DEF RestoreRow
  <2> QED BY <1>0, <1>7, <2>1, <2>2 DEF RestoreRow
<1>8. ASSUME Crash PROVE SpoolTyped'
  <2>1. forfeited' \subseteq Hook
    BY <1>0, <1>8 DEF Crash, ToSet
  <2> QED BY <1>0, <1>8, <2>1 DEF Crash
<1>9. ASSUME UNCHANGED <<spool, drainVars, ghostVars>> PROVE SpoolTyped'
  BY <1>0, <1>9 DEF drainVars, ghostVars
<1> HIDE DEF SpoolTyped
<1> QED
  BY <1>1, <1>2, <1>3, <1>4, <1>5, <1>6, <1>7, <1>8, <1>9 DEF Next, HookStep, TaskStep,
     WindowStep, DaemonStep, Fire, Deliver, Answered, GiveUp, Stamp, Record, ReadBack,
     Broadcast, Subscribe, Leave, ReadFrame, Start, Serve, Stop, Tick

-----------------------------------------------------------------------------
(* Hooks and tasks only go forward.                                        *)

\* A hook that fired keeps its clock reading and its agent; one that has spooled
\* is done.
Onward ==
  \A h \in Hook : hook[h].pc # "idle" =>
    /\ hook'[h].pc # "idle" /\ hook'[h].at = hook[h].at /\ hook'[h].of = hook[h].of
    /\ hook[h].pc \in {"spooled", "delivered"} => hook'[h].pc = hook[h].pc

LEMMA HooksGoOnward ==
  ASSUME Typed, Next
  PROVE  Onward
<1>0. hook \in [Hook -> HookState]
  BY DEF Typed, HooksTyped
<1> USE DEF Onward
<1>1. ASSUME NEW h \in Hook, Fire(h) PROVE Onward
  BY <1>0, <1>1 DEF Fire
<1>2. ASSUME NEW h \in Hook, NEW pc, hook[h].pc \in {"sending", "spooling", "appending"},
             pc # "idle", hook' = [hook EXCEPT ![h].pc = pc]
      PROVE  Onward
  BY <1>0, <1>2 DEF HookState
<1>3. ASSUME NEW h \in Hook, Answered(h) \/ GiveUp(h) PROVE Onward
  BY <1>2, <1>3 DEF Answered, GiveUp, NotTaken
<1>4. ASSUME NEW h \in Hook, OpenSpool(h) PROVE Onward
  <2>1. ASSUME NEW f, Moves(h, "appending", f) PROVE Onward
    <3>1. hook[h].pc = "spooling"
      BY <1>4 DEF OpenSpool
    <3>2. /\ hook'[h].pc = "appending" /\ hook'[h].at = hook[h].at /\ hook'[h].of = hook[h].of
          /\ \A g \in Hook \ {h} : hook'[g] = hook[g]
      BY <1>0, <2>1 DEF Moves, HookState
    <3> QED BY <3>1, <3>2
  <2>2. hook' = [hook EXCEPT ![h].pc = "refused"] \/ \E f : Moves(h, "appending", f)
    BY <1>4 DEF OpenSpool, Moves
  <2>3. hook[h].pc = "spooling"
    BY <1>4 DEF OpenSpool
  <2> HIDE DEF Onward
  <2> QED BY <1>2, <2>1, <2>2, <2>3
<1>5. ASSUME NEW h \in Hook, WriteSpool(h) PROVE Onward
  BY <1>2, <1>5 DEF WriteSpool
<1>6. ASSUME hook' = hook PROVE Onward
  BY <1>6
<1> HIDE DEF Onward
<1> QED
  BY <1>1, <1>3, <1>4, <1>5, <1>6 DEF Next, HookStep, TaskStep, WindowStep, DaemonStep,
     Deliver, Stamp, Record, ReadBack, Broadcast, Subscribe, Leave, ReadFrame, Start,
     Claim, ReadFile, RemoveFile, SkipFile, RestoreRow, Serve, Stop, Crash, Tick,
     hookVars

\* A clock reading is never ahead of the clock, and only an agent's report is
\* spooled or stamped.
LEMMA StagesKept ==
  ASSUME Typed, Staged, Next
  PROVE  Staged'
<1>0. /\ hook \in [Hook -> HookState] /\ handler \in [Hook -> TaskState]
      /\ clock \in Nat /\ \A h \in Hook : hook[h].at \in Nat
      /\ \A h \in Hook : AgentOf(h) \in Agent \cup {NoState}
  BY DEF Typed, HooksTyped, HandlersTyped, HookState, AgentOf
<1> USE DEF Staged, AgentOf
<1>1. ASSUME NEW h \in Hook, Fire(h) PROVE Staged'
  <2> PICK of \in Agent \cup {NoState} :
        hook' = [hook EXCEPT ![h] = [hook[h] EXCEPT !.pc = "sending", !.at = clock, !.of = of]]
    BY <1>1 DEF Fire
  <2>1. hook[h].pc = "idle" /\ handler' = handler /\ clock' = clock
    BY <1>1 DEF Fire
  <2>2. hook'[h].pc = "sending" /\ hook'[h].at = clock
        /\ \A g \in Hook : g # h => hook'[g] = hook[g]
    BY <1>0 DEF HookState
  <2> QED BY <1>0, <2>1, <2>2
<1>2. ASSUME NEW h \in Hook, NEW pc, hook[h].pc \in {"sending", "spooling", "appending"},
             pc # "idle", pc \in {"spooling", "appending", "spooled"} => AgentOf(h) \in Agent,
             hook' = [hook EXCEPT ![h].pc = pc], UNCHANGED <<clock, handler>>
      PROVE  Staged'
  <2>1. hook'[h].pc = pc /\ hook'[h].at = hook[h].at /\ hook'[h].of = hook[h].of
        /\ \A g \in Hook : g # h => hook'[g] = hook[g]
    BY <1>0, <1>2 DEF HookState
  <2> QED BY <1>0, <1>2, <2>1
<1>3. ASSUME NEW h \in Hook, Answered(h) \/ GiveUp(h) PROVE Staged'
  <2>1. CASE hook' = [hook EXCEPT ![h].pc = "delivered"]
    BY <1>2, <1>3, <2>1 DEF Answered, GiveUp
  <2>2. CASE NotTaken(h)
    BY <1>0, <1>2, <1>3, <2>2 DEF Answered, GiveUp, NotTaken
  <2> QED BY <1>3, <2>1, <2>2 DEF Answered, GiveUp
<1>4. ASSUME NEW h \in Hook, OpenSpool(h) PROVE Staged'
  <2>0. hook[h].pc = "spooling" /\ UNCHANGED <<clock, handler>>
    BY <1>4 DEF OpenSpool
  <2>1. ASSUME NEW f, Moves(h, "appending", f) PROVE Staged'
    <3>1. hook'[h].pc = "appending" /\ hook'[h].at = hook[h].at /\ hook'[h].of = hook[h].of
          /\ \A g \in Hook : g # h => hook'[g] = hook[g]
      BY <1>0, <2>1 DEF Moves, HookState
    <3> QED BY <1>0, <2>0, <3>1
  <2>2. hook' = [hook EXCEPT ![h].pc = "refused"] \/ \E f : Moves(h, "appending", f)
    BY <1>4 DEF OpenSpool, Moves
  <2> HIDE DEF Staged
  <2> QED BY <1>2, <2>0, <2>1, <2>2
<1>5. ASSUME NEW h \in Hook, WriteSpool(h) PROVE Staged'
  BY <1>2, <1>5 DEF WriteSpool
<1>6. ASSUME NEW h \in Hook, UNCHANGED hookVars,
             NEW pc, NEW at, NEW l, NEW status, TaskMoves(h, pc, at, l, status),
             pc # "none" => hook[h].pc # "idle",
             pc = "stamped" => AgentOf(h) \in Agent /\ at >= hook[h].at
      PROVE  Staged'
  <2>1. handler'[h].pc = pc /\ handler'[h].at = at
        /\ \A g \in Hook : g # h => handler'[g] = handler[g]
    BY <1>0, <1>6 DEF TaskMoves, TaskState
  <2> QED BY <1>0, <1>6, <2>1 DEF hookVars
<1>7. ASSUME UNCHANGED <<hookVars, handler>> PROVE Staged'
  BY <1>7 DEF hookVars
<1>8. CASE Tick
  BY <1>0, <1>8 DEF Tick
<1>9. ASSUME NEW pcs, handler' = Ended(pcs), "none" \notin pcs, UNCHANGED hookVars
      PROVE  Staged'
  <2>1. \A g \in Hook : \/ handler'[g] = handler[g]
                        \/ handler'[g].pc = "dropped" /\ handler[g].pc \in pcs
    BY <1>0, <1>9 DEF Ended, TaskState
  <2> QED BY <1>0, <1>9, <2>1 DEF hookVars
<1>10. CASE Stop \/ Crash
  <2> HIDE DEF Staged
  <2> QED BY <1>9, <1>10 DEF Stop, Crash
<1>11. ASSUME NEW h \in Hook, Deliver(h) PROVE Staged'
  <2>1. TaskMoves(h, "queued", handler[h].at, life, handler[h].status)
    BY <1>0, <1>11 DEF Deliver, TaskMoves, TaskState
  <2> QED BY <1>6, <1>11, <2>1 DEF Deliver
<1>12. ASSUME NEW h \in Hook, NEW pc, pc \notin {"none", "stamped"}, handler[h].pc # "none",
              UNCHANGED hookVars, handler' = [handler EXCEPT ![h].pc = pc]
       PROVE  Staged'
  <2>1. TaskMoves(h, pc, handler[h].at, handler[h].life, handler[h].status)
    BY <1>0, <1>12 DEF TaskMoves, TaskState
  <2> QED BY <1>6, <1>12, <2>1
<1>13. ASSUME NEW h \in Hook, Stamp(h) PROVE Staged'
  <2>1. handler[h].pc = "queued" /\ UNCHANGED hookVars
    BY <1>13 DEF Stamp
  <2>2. CASE handler' = [handler EXCEPT ![h].pc = "failed"]
             \/ handler' = [handler EXCEPT ![h].pc = "done"]
    BY <1>12, <2>1, <2>2
  <2>3. CASE AgentOf(h) # NoState
             /\ handler' = [handler EXCEPT ![h] = [handler[h] EXCEPT !.pc = "stamped",
                                                                     !.at = clock]]
    <3>1. TaskMoves(h, "stamped", clock, handler[h].life, handler[h].status)
      BY <1>0, <2>3 DEF TaskMoves, TaskState
    <3>2. AgentOf(h) \in Agent /\ clock >= hook[h].at /\ hook[h].pc # "idle"
      BY <1>0, <2>1, <2>3
    <3> QED BY <1>6, <2>1, <3>1, <3>2
  <2> QED BY <1>13, <2>2, <2>3 DEF Stamp
<1>14. ASSUME NEW h \in Hook, Record(h) PROVE Staged'
  <2>1. /\ handler[h].pc = "stamped" /\ UNCHANGED hookVars
        /\ \/ handler' = [handler EXCEPT ![h].pc = "recorded"]
           \/ handler' = [handler EXCEPT ![h].pc = "failed"]
    BY <1>14 DEF Record
  <2>2. handler[h].pc # "none"
    BY <2>1
  <2> HIDE DEF Staged
  <2> QED BY <1>12, <2>1, <2>2
<1>15. ASSUME NEW h \in Hook, ReadBack(h) \/ Broadcast(h) PROVE Staged'
  <2>1. handler[h].pc # "none" /\ UNCHANGED hookVars
    BY <1>15 DEF ReadBack, Broadcast
  <2>2. \E pc \in {"failed", "done", "read"} : \E status :
          TaskMoves(h, pc, handler[h].at, handler[h].life, status)
    <3>1. CASE Broadcast(h)
      <4>1. TaskMoves(h, "done", handler[h].at, handler[h].life, NoStatus)
        BY <1>0, <3>1 DEF Broadcast, TaskMoves, TaskState
      <4> QED BY <4>1
    <3>2. CASE ReadBack(h)
      <4> PICK pc \in {"failed", "done", "read"} :
            handler' = [handler EXCEPT ![h] =
                          [handler[h] EXCEPT !.pc = pc,
                                             !.status = IF pc = "read" THEN Status ELSE NoStatus]]
        BY <3>2 DEF ReadBack
      <4>1. TaskMoves(h, pc, handler[h].at, handler[h].life,
                      IF pc = "read" THEN Status ELSE NoStatus)
        BY <1>0 DEF TaskMoves, TaskState
      <4> QED BY <4>1
    <3> QED BY <1>15, <3>1, <3>2
  <2> QED BY <1>6, <2>1, <2>2
<1> HIDE DEF Staged
<1> QED
  BY <1>1, <1>3, <1>4, <1>5, <1>7, <1>8, <1>10, <1>11, <1>13, <1>14, <1>15 DEF Next,
     HookStep, TaskStep, WindowStep, DaemonStep, Subscribe, Leave, ReadFrame, Start,
     Claim, ReadFile, RemoveFile, SkipFile, RestoreRow, Serve

LEMMA SequenceGrows ==
  ASSUME NEW S, NEW T, S \subseteq T, NEW s \in Seq(S)
  PROVE  s \in Seq(T)
OBVIOUS

LEMMA SpoolStagesKept ==
  ASSUME Typed, SpoolStaged, Next
  PROVE  SpoolStaged'
<1>0. /\ SpoolTyped /\ Len(spool) \in Nat /\ DOMAIN spool = 1..Len(spool)
      /\ hook \in [Hook -> HookState] /\ spool \in Seq(File)
  BY DEF Typed, SpoolTyped, HooksTyped
<1>1. Spoolers \subseteq Spoolers'
  BY HooksGoOnward DEF Onward, Spoolers
<1> DEFINE Rows == Seq(Spoolers')
<1>2. /\ \A f \in DOMAIN spool : spool[f].rows \in Rows
      /\ page.rows \in Rows /\ hand \in Rows
  BY <1>1, SequenceGrows DEF SpoolStaged
<1>3. <<>> \in Rows
  OBVIOUS
<1> HIDE DEF Rows
<1>4. ASSUME /\ \A f \in DOMAIN spool' : spool'[f].rows \in Rows
             /\ page'.rows \in Rows /\ hand' \in Rows
      PROVE  SpoolStaged'
  BY <1>4 DEF SpoolStaged, Rows
<1>5. ASSUME NEW h \in Hook, OpenSpool(h) PROVE SpoolStaged'
  <2>1. page' = page /\ hand' = hand
    BY <1>5 DEF OpenSpool, drainVars
  <2>2. CASE spool' = spool
    BY <1>2, <1>4, <2>1, <2>2
  <2>3. CASE spool' = Append(spool, [name |-> "spooled", rows |-> <<>>])
    <3>1. \A f \in DOMAIN spool' : \/ f \in DOMAIN spool /\ spool'[f] = spool[f]
                                  \/ spool'[f] = [name |-> "spooled", rows |-> <<>>]
      BY <1>0, <2>3
    <3> QED BY <1>2, <1>3, <1>4, <2>1, <3>1
  <2> QED BY <1>5, <2>2, <2>3 DEF OpenSpool
<1>6. ASSUME NEW h \in Hook, WriteSpool(h) PROVE SpoolStaged'
  <2>1. page' = page /\ hand' = hand
    BY <1>6 DEF WriteSpool, drainVars
  <2>2. h \in Spoolers'
    BY <1>0, <1>6 DEF WriteSpool, Spoolers, HookState
  <2>3. \A f \in DOMAIN spool : Append(spool[f].rows, h) \in Rows
    BY <1>2, <2>2 DEF Rows
  <2>4. \A f \in DOMAIN spool' :
          f \in DOMAIN spool /\ spool'[f].rows \in {spool[f].rows, Append(spool[f].rows, h)}
    <3>1. CASE spool' = spool
      BY <3>1
    <3>2. CASE spool' = [spool EXCEPT ![hook[h].file].rows = Append(spool[hook[h].file].rows, h)]
      <4>1. \A f \in DOMAIN spool : spool[f] \in File
        BY <1>0, FileTyped
      <4> QED BY <3>2, <4>1 DEF File
    <3> QED BY <1>6, <3>1, <3>2 DEF WriteSpool
  <2> QED BY <1>2, <1>4, <2>1, <2>3, <2>4
<1>7. ASSUME Claim PROVE SpoolStaged'
  <2>1. PICK files \in {Spooled, {}} : spool' = Renamed(files)
    BY <1>7 DEF Claim
  <2>2. Len(Renamed(files)) = Len(spool) /\ Renamed(files) \in Seq(File)
        /\ \A f \in DOMAIN spool : Renamed(files)[f].rows = spool[f].rows
    BY <1>0, RenamedEffect
  <2>3. \A f \in DOMAIN spool' : f \in DOMAIN spool /\ spool'[f].rows = spool[f].rows
    BY <1>0, <2>1, <2>2
  <2> QED BY <1>2, <1>4, <1>7, <2>3 DEF Claim
<1>8. ASSUME ReadFile PROVE SpoolStaged'
  <2>1. PICK f \in Due : page' = [file |-> f, rows |-> spool[f].rows]
    BY <1>8 DEF ReadFile
  <2>2. page'.rows \in Rows
    BY <1>0, <1>2, <2>1, DueTyped
  <2> QED BY <1>2, <1>4, <1>8, <2>2 DEF ReadFile
<1>9. NoPage.rows \in Rows
  BY <1>3 DEF NoPage
<1>10. ASSUME RemoveFile PROVE SpoolStaged'
  <2>1. \A f \in DOMAIN spool' : f \in DOMAIN spool /\ spool'[f].rows \in {spool[f].rows, <<>>}
    BY <1>0, <1>10 DEF RemoveFile
  <2>2. hand' = hand \o page.rows /\ page' = NoPage
    BY <1>10 DEF RemoveFile, DoneWith
  <2>3. hand' \in Rows
    BY <1>2, <2>2 DEF Rows
  <2> QED BY <1>2, <1>3, <1>4, <1>9, <2>1, <2>2, <2>3
<1>11. ASSUME SkipFile PROVE SpoolStaged'
  BY <1>2, <1>4, <1>9, <1>11 DEF SkipFile, DoneWith
<1>12. ASSUME RestoreRow PROVE SpoolStaged'
  <2>1. hand' = Tail(hand) /\ hand # <<>> /\ spool' = spool /\ page' = page
    BY <1>12 DEF RestoreRow
  <2>2. hand' \in Rows
    BY <1>2, <2>1 DEF Rows
  <2> QED BY <1>2, <1>4, <2>1, <2>2
<1>13. ASSUME Crash PROVE SpoolStaged'
  BY <1>2, <1>3, <1>4, <1>9, <1>13 DEF Crash
<1>14. ASSUME UNCHANGED <<spool, drainVars>> PROVE SpoolStaged'
  BY <1>2, <1>4, <1>14 DEF drainVars
<1> QED
  BY <1>5, <1>6, <1>7, <1>8, <1>10, <1>11, <1>12, <1>13, <1>14 DEF Next, HookStep,
     TaskStep, WindowStep, DaemonStep, Fire, Deliver, Answered, GiveUp, Stamp, Record,
     ReadBack, Broadcast, Subscribe, Leave, ReadFrame, Start, Serve, Stop, Tick

-----------------------------------------------------------------------------
(* The table.                                                              *)

\* A row that a step may append: of a hook that fired, live and no older than it,
\* or restored, as old as it, and newer than every live row there is.
Appends(h, at, restored) ==
  /\ history' = Appended(h, at, restored) /\ hook' = hook
  /\ hook[h].pc # "idle" /\ AgentOf(h) \in Agent /\ at \in 1..MaxClock
  /\ IF restored THEN at = hook[h].at /\ ~Superseded(h, at) ELSE at >= hook[h].at

LEMMA HistorySteps ==
  ASSUME Typed, Staged, SpoolStaged, Next
  PROVE  \/ history' = history
         \/ \E h \in Hook, at \in 1..MaxClock, restored \in BOOLEAN : Appends(h, at, restored)
<1>0. \A h \in Hook : hook[h].at \in 1..MaxClock /\ handler[h].at \in 1..MaxClock
  BY DEF Typed, HooksTyped, HandlersTyped, HookState, TaskState
<1>1. ASSUME NEW h \in Hook, Record(h), history' # history
      PROVE  Appends(h, handler[h].at, FALSE)
  <2>1. handler[h].pc = "stamped" /\ hook' = hook
        /\ history' = Appended(h, handler[h].at, FALSE)
    BY <1>1 DEF Record, hookVars
  <2> QED BY <1>0, <2>1 DEF Appends, Staged
<1>2. ASSUME RestoreRow, history' # history
      PROVE  \E h \in Hook : Appends(h, hook[h].at, TRUE)
  <2> DEFINE h == Head(hand)
  <2>1. h \in Spoolers
    BY <1>2 DEF RestoreRow, SpoolStaged
  <2>2. h \in Hook /\ hook[h].pc = "spooled" /\ AgentOf(h) \in Agent
    BY <2>1 DEF Spoolers, Staged
  <2>3. ~Superseded(h, hook[h].at) /\ history' = Appended(h, hook[h].at, TRUE) /\ hook' = hook
    BY <1>2 DEF RestoreRow, RestoredAt, hookVars
  <2> QED BY <1>0, <2>2, <2>3 DEF Appends
<1>3. CASE RestoreRow
  BY <1>0, <1>2, <1>3
<1>4. ASSUME NEW h \in Hook, Record(h) PROVE history' = history \/ Appends(h, handler[h].at, FALSE)
  BY <1>1, <1>4
<1> QED
  BY <1>0, <1>3, <1>4 DEF Next, HookStep, TaskStep, WindowStep, DaemonStep, Fire, Deliver,
     Answered, GiveUp, OpenSpool, WriteSpool, Stamp, ReadBack, Broadcast, Subscribe, Leave,
     ReadFrame, Start, Claim, ReadFile, RemoveFile, SkipFile, Serve, Stop, Crash, Tick

\* What such a step leaves of each history.
Lost(a) == IF Len(history[a]) = HistoryCap THEN 1 ELSE 0

Extended(a, row) ==
  /\ history' \in [Agent -> Seq(Row)] /\ a \in Agent
  /\ \A b \in Agent : b # a => history'[b] = history[b]
  /\ Len(history'[a]) = Len(history[a]) + 1 - Lost(a)
  /\ \A i \in 1..Len(history[a]) - Lost(a) : history'[a][i] = history[a][i + Lost(a)]
  /\ history'[a][Len(history'[a])] = row

LEMMA AppendsEffect ==
  ASSUME Typed, NEW h \in Hook, NEW at \in 1..MaxClock, NEW restored \in BOOLEAN,
         Appends(h, at, restored)
  PROVE  Extended(AgentOf(h), [hook |-> h, at |-> at, restored |-> restored])
BY AppendedEffect DEF Appends, Typed, Extended, Lost

LEMMA HistoryStaysTyped ==
  ASSUME Typed, Staged, SpoolStaged, Next
  PROVE  HistoryTyped'
<1>0. HistoryTyped /\ HistoryCap \in Nat \ {0}
  BY StatusAssumption DEF Typed
<1>1. CASE history' = history
  BY <1>0, <1>1 DEF HistoryTyped
<1>2. ASSUME NEW h \in Hook, NEW at \in 1..MaxClock, NEW restored \in BOOLEAN,
             Appends(h, at, restored)
      PROVE  HistoryTyped'
  <2> DEFINE a == AgentOf(h)
  <2>1. a \in Agent /\ Len(history[a]) \in Nat /\ Len(history[a]) <= HistoryCap
    BY <1>0, <1>2 DEF HistoryTyped, Appends
  <2>2. Extended(a, [hook |-> h, at |-> at, restored |-> restored])
    BY <1>2, AppendsEffect
  <2>3. Len(history'[a]) <= HistoryCap
    BY <1>0, <2>1, <2>2 DEF Extended, Lost
  <2> QED BY <1>0, <2>2, <2>3 DEF HistoryTyped, Extended
<1> QED BY <1>1, <1>2, HistorySteps

\* Every row keeps to its hook, and a restored one to the live ones before it.
LEMMA HistoryStagesKept ==
  ASSUME Typed, Staged, SpoolStaged, HistoryStaged, RestoredYieldsToLive, Next
  PROVE  HistoryStaged' /\ RestoredYieldsToLive'
<1>0. \A b \in Agent : /\ history[b] \in Seq(Row) /\ Len(history[b]) \in Nat
                       /\ DOMAIN history[b] = 1..Len(history[b])
                       /\ \A i \in DOMAIN history[b] : history[b][i] \in Row
  BY DEF Typed, HistoryTyped
<1>1. ASSUME NEW row \in Row, RowStaged(row)
      PROVE  RowStaged(row)'
  BY <1>1, HooksGoOnward DEF RowStaged, Onward, Row
<1>2. CASE history' = history
  BY <1>0, <1>1, <1>2 DEF HistoryStaged, RestoredYieldsToLive
<1>3. ASSUME NEW h \in Hook, NEW at \in 1..MaxClock, NEW restored \in BOOLEAN,
             Appends(h, at, restored)
      PROVE  HistoryStaged' /\ RestoredYieldsToLive'
  <2> DEFINE a == AgentOf(h)
             lost == Lost(a)
             row == [hook |-> h, at |-> at, restored |-> restored]
             last == Len(history'[a])
  <2>0. Extended(a, row)
    BY <1>3, AppendsEffect
  <2>1. /\ a \in Agent /\ \A b \in Agent : b # a => history'[b] = history[b]
        /\ last = Len(history[a]) + 1 - lost
        /\ \A i \in 1..Len(history[a]) - lost : history'[a][i] = history[a][i + lost]
        /\ history'[a][last] = row
        /\ DOMAIN history'[a] = 1..last
    BY <2>0 DEF Extended
  <2>2. lost \in {0, 1} /\ Len(history[a]) \in Nat
    BY <1>0, <2>1 DEF Lost
  <2>3. row \in Row /\ RowStaged(row)
    BY <1>3 DEF Appends, RowStaged, Row
  <2> HIDE DEF lost, last, row
  <2>4. \A i \in 1..last : \/ i = last /\ history'[a][i] = row
                           \/ /\ i # last /\ i + lost \in DOMAIN history[a]
                              /\ history'[a][i] = history[a][i + lost]
    BY <1>0, <2>1, <2>2
  <2>5. HistoryStaged'
    <3> SUFFICES ASSUME NEW b \in Agent, NEW i \in DOMAIN history'[b]
                 PROVE  RowStaged(history[b][i])'
      BY DEF HistoryStaged
    <3>0. \A r : RowStaged(r)' /\ r = history'[b][i] => RowStaged(history[b][i])'
      BY DEF RowStaged
    <3>1. CASE b # a
      <4>1. history'[b][i] = history[b][i] /\ i \in DOMAIN history[b]
        BY <2>1, <3>1
      <4> QED BY <1>0, <1>1, <3>0, <4>1 DEF HistoryStaged
    <3>2. CASE b = a /\ history'[b][i] = row
      BY <1>1, <2>3, <3>0, <3>2
    <3>3. CASE b = a /\ i + lost \in DOMAIN history[a] /\ history'[a][i] = history[a][i + lost]
      BY <1>0, <1>1, <2>1, <3>0, <3>3 DEF HistoryStaged
    <3> QED BY <2>1, <2>4, <3>1, <3>2, <3>3
  <2>6. RestoredYieldsToLive'
    <3> SUFFICES ASSUME NEW b \in Agent, NEW i \in DOMAIN history'[b],
                        NEW j \in DOMAIN history'[b], i < j,
                        history'[b][j].restored, ~history'[b][i].restored
                 PROVE  history'[b][j].at > history'[b][i].at
      BY DEF RestoredYieldsToLive
    <3>1. CASE b # a
      BY <2>1, <3>1 DEF RestoredYieldsToLive
    <3>2. CASE b = a /\ j # last
      <4>0. i \in 1..last /\ j \in 1..last /\ i # last /\ last \in Int
        BY <2>1, <2>2, <3>2
      <4>1. /\ i + lost \in DOMAIN history[a] /\ history'[a][i] = history[a][i + lost]
            /\ j + lost \in DOMAIN history[a] /\ history'[a][j] = history[a][j + lost]
        BY <2>4, <3>2, <4>0
      <4>2. i + lost < j + lost
        BY <2>2, <4>0
      <4> QED BY <2>1, <3>2, <4>1, <4>2 DEF RestoredYieldsToLive
    <3>3. CASE b = a /\ j = last
      <4>1. /\ i + lost \in DOMAIN history[a] /\ history'[a][i] = history[a][i + lost]
            /\ history'[a][j] = row
        BY <2>1, <2>2, <2>4, <3>3
      <4>2. restored /\ ~Superseded(h, at)
        BY <1>3, <3>3, <4>1 DEF row, Appends
      <4>3. ~(history[a][i + lost].at >= at)
        BY <3>3, <4>1, <4>2 DEF Superseded
      <4>4. history[a][i + lost] \in Row /\ history[a][i + lost].at \in 1..MaxClock
        BY <1>0, <2>1, <4>1 DEF Row
      <4> QED BY <3>3, <4>1, <4>3, <4>4, StatusAssumption DEF row
    <3> QED BY <3>1, <3>2, <3>3
  <2> QED BY <2>5, <2>6
<1> QED BY <1>2, <1>3, HistorySteps

\* What is in the table stays there, or has been pushed out by newer rows.
LEMMA InTableStays ==
  ASSUME Typed, Staged, SpoolStaged, Next, NEW h \in Hook, hook[h].pc # "idle",
         AgentOf(h) \in Agent, InTable(h)
  PROVE  InTable(h)'
<1> DEFINE b == AgentOf(h)
<1>0. /\ b \in Agent /\ AgentOf(h)' = b /\ Len(history[b]) \in Nat
      /\ DOMAIN history[b] = 1..Len(history[b]) /\ Len(history[b]) <= HistoryCap
      /\ HistoryCap \in Nat \ {0}
  BY HooksGoOnward, StatusAssumption DEF Onward, AgentOf, Typed, HistoryTyped
<1> HIDE DEF b
<1>1. ASSUME \/ \E i \in DOMAIN history'[b] : history'[b][i].hook = h
             \/ Len(history'[b]) = HistoryCap
      PROVE  InTable(h)'
  BY <1>0, <1>1 DEF InTable
<1>2. \/ \E i \in DOMAIN history[b] : history[b][i].hook = h
      \/ Len(history[b]) = HistoryCap
  BY DEF InTable, b
<1>3. CASE history' = history
  BY <1>1, <1>2, <1>3
<1>4. ASSUME NEW a, NEW row, Extended(a, row) PROVE InTable(h)'
  <2>1. CASE a # b
    <3>1. history'[b] = history[b]
      BY <1>0, <1>4, <2>1 DEF Extended
    <3> QED BY <1>1, <1>2, <3>1
  <2>2. CASE a = b /\ Lost(b) = 1
    <3>1. Len(history'[b]) = HistoryCap
      BY <1>0, <1>4, <2>2 DEF Extended, Lost
    <3> QED BY <1>1, <3>1
  <2>3. CASE a = b /\ Lost(b) = 0
    <3>1. PICK i \in DOMAIN history[b] : history[b][i].hook = h
      BY <1>2, <2>3 DEF Lost
    <3>2. history'[b][i] = history[b][i] /\ i \in DOMAIN history'[b]
      BY <1>0, <1>4, <2>3 DEF Extended
    <3> QED BY <1>1, <3>1, <3>2
  <2> QED BY <2>1, <2>2, <2>3 DEF Lost
<1> QED BY <1>3, <1>4, HistorySteps, AppendsEffect

\* A task that has recorded its row has put it at the end of its agent's history.
LEMMA RecordedIsInTable ==
  ASSUME Typed, Staged, NEW h \in Hook, Record(h), handler'[h].pc # "failed"
  PROVE  InTable(h)'
<1>1. /\ handler[h].pc = "stamped" /\ hook' = hook
      /\ history' = Appended(h, handler[h].at, FALSE)
  BY DEF Record, hookVars, Typed, HandlersTyped, TaskState
<1>2. handler[h].at \in 1..MaxClock
  BY DEF Typed, HandlersTyped, TaskState
<1>3. Appends(h, handler[h].at, FALSE)
  BY <1>1, <1>2 DEF Appends, Staged
<1>4. Extended(AgentOf(h), [hook |-> h, at |-> handler[h].at, restored |-> FALSE])
  BY <1>2, <1>3, AppendsEffect
<1>5. Len(history[AgentOf(h)]) \in Nat
  BY <1>4 DEF Extended, Typed, HistoryTyped
<1>6. Len(history'[AgentOf(h)]) \in DOMAIN history'[AgentOf(h)]
  <2>1. history'[AgentOf(h)] \in Seq(Row)
    BY <1>4 DEF Extended
  <2>2. Len(history'[AgentOf(h)]) >= 1
    BY <1>4, <1>5, StatusAssumption DEF Extended, Lost
  <2> QED BY <2>1, <2>2
<1>7. AgentOf(h)' = AgentOf(h)
  BY <1>1 DEF AgentOf
<1> QED BY <1>4, <1>6, <1>7 DEF InTable, Extended

\* A task that has its row in the table either had it, has just put it there, or
\* is done with a report of no agent.
LEMMA TasksRecord ==
  ASSUME Typed, Staged, Next, NEW h \in Hook, handler'[h].pc \in {"recorded", "read", "done"}
  PROVE  \/ handler[h].pc \in {"recorded", "read", "done"}
         \/ handler[h].pc = "queued" /\ AgentOf(h) = NoState /\ hook' = hook
         \/ Record(h)
<1>0. handler \in [Hook -> TaskState] /\ hook \in [Hook -> HookState]
  BY DEF Typed, HandlersTyped, HooksTyped
<1>1. ASSUME NEW g \in Hook, g # h, TaskStep(g) \/ Deliver(g)
      PROVE  handler'[h] = handler[h]
  BY <1>0, <1>1 DEF TaskStep, Deliver, Stamp, Record, ReadBack, Broadcast
<1>2. CASE Deliver(h)
  BY <1>0, <1>2 DEF Deliver, TaskState
<1>3. CASE Stamp(h)
  BY <1>0, <1>3 DEF Stamp, TaskState, hookVars
<1>4. CASE ReadBack(h) \/ Broadcast(h)
  BY <1>4 DEF ReadBack, Broadcast
<1>5. CASE Stop \/ Crash
  BY <1>0, <1>5 DEF Stop, Crash, Ended, TaskState
<1>6. CASE handler' = handler
  BY <1>6
<1> QED
  BY <1>1, <1>2, <1>3, <1>4, <1>5, <1>6 DEF Next, HookStep, TaskStep, WindowStep,
     DaemonStep, Fire, Answered, GiveUp, OpenSpool, WriteSpool, Subscribe, Leave,
     ReadFrame, Start, Claim, ReadFile, RemoveFile, SkipFile, RestoreRow, Serve, Tick

LEMMA KeptStays ==
  ASSUME Typed, Staged, SpoolStaged, Kept, Next
  PROVE  Kept'
<1>0. /\ handler \in [Hook -> TaskState] /\ hook \in [Hook -> HookState]
      /\ NoState \notin Agent
  BY StatusAssumption DEF Typed, HandlersTyped, HooksTyped
<1>1. ASSUME NEW h \in Hook, handler'[h].pc \in {"recorded", "read", "done"},
             AgentOf(h)' \in Agent
      PROVE  InTable(h)'
  <2>1. CASE handler[h].pc \in {"recorded", "read", "done"}
    <3>1. hook[h].pc # "idle"
      BY <2>1 DEF Staged
    <3>2. AgentOf(h) \in Agent
      BY <1>1, <3>1, HooksGoOnward DEF Onward, AgentOf
    <3> QED BY <2>1, <3>1, <3>2, InTableStays DEF Kept
  <2>2. CASE handler[h].pc = "queued" /\ AgentOf(h) = NoState /\ hook' = hook
    BY <1>0, <1>1, <2>2 DEF AgentOf
  <2>3. CASE Record(h)
    BY <1>1, <2>3, RecordedIsInTable
  <2> QED BY <1>1, <2>1, <2>2, <2>3, TasksRecord
<1>2. ASSUME NEW h \in Hook, hook'[h].pc = "delivered", hook[h].pc # "delivered"
      PROVE  handler[h].pc = "done" /\ handler' = handler
  <2>1. ASSUME NEW g \in Hook, Answered(g) PROVE handler[h].pc = "done" /\ handler' = handler
    BY <1>0, <1>2, <2>1 DEF Answered, NotTaken, HookState
  <2>2. ASSUME NEW g \in Hook, Fire(g) \/ GiveUp(g) \/ OpenSpool(g) \/ WriteSpool(g)
        PROVE  FALSE
    BY <1>0, <1>2, <2>2 DEF Fire, GiveUp, NotTaken, OpenSpool, WriteSpool, HookState
  <2>3. CASE hook' = hook
    BY <1>2, <2>3
  <2> QED
    BY <2>1, <2>2, <2>3 DEF Next, HookStep, TaskStep, WindowStep, DaemonStep, Deliver,
       Stamp, Record, ReadBack, Broadcast, Subscribe, Leave, ReadFrame, Start, Claim,
       ReadFile, RemoveFile, SkipFile, RestoreRow, Serve, Stop, Crash, Tick, hookVars
<1>3. ASSUME NEW h \in Hook, handler[h].pc = "done" PROVE handler'[h].pc = "done"
  <2>1. ASSUME NEW g \in Hook, TaskStep(g) \/ Deliver(g) PROVE handler'[h].pc = "done"
    BY <1>0, <1>3, <2>1 DEF TaskStep, Deliver, Stamp, Record, ReadBack, Broadcast
  <2>2. CASE Stop \/ Crash
    BY <1>0, <1>3, <2>2 DEF Stop, Crash, Ended
  <2>3. CASE handler' = handler
    BY <1>3, <2>3
  <2> QED
    BY <2>1, <2>2, <2>3 DEF Next, HookStep, WindowStep, DaemonStep, Fire, Answered,
       GiveUp, OpenSpool, WriteSpool, Subscribe, Leave, ReadFrame, Start, Claim,
       ReadFile, RemoveFile, SkipFile, RestoreRow, Serve, Tick
<1>4. ASSUME NEW h \in Hook, hook'[h].pc = "delivered" PROVE handler'[h].pc = "done"
  BY <1>2, <1>3, <1>4 DEF Kept
<1> QED BY <1>1, <1>4 DEF Kept

-----------------------------------------------------------------------------
(* The invariant holds, and with it what it was made for.                  *)

LEMMA InitInv ==
  ASSUME Init
  PROVE  StatusInv
<1>1. Typed
  BY InitTyped DEF Typed
<1>2. Staged /\ Kept
  BY DEF Init, Staged, Kept
<1>3. SpoolStaged
  BY DEF Init, SpoolStaged, NoPage
<1>4. HistoryStaged /\ RestoredYieldsToLive
  BY DEF Init, HistoryStaged, RestoredYieldsToLive
<1> QED BY <1>1, <1>2, <1>3, <1>4 DEF StatusInv

LEMMA StutterInv ==
  ASSUME StatusInv, UNCHANGED vars
  PROVE  StatusInv'
<1> USE DEF vars, hookVars, drainVars, windowVars, ghostVars
<1>1. Typed'
  BY DEF StatusInv, Typed, HooksTyped, HandlersTyped, SpoolTyped, HistoryTyped
<1>2. Staged' /\ Kept'
  BY DEF StatusInv, Staged, Kept, InTable, AgentOf
<1>3. SpoolStaged'
  BY DEF StatusInv, SpoolStaged, Spoolers
<1>4. HistoryStaged' /\ RestoredYieldsToLive'
  BY DEF StatusInv, HistoryStaged, RestoredYieldsToLive, RowStaged
<1> QED BY <1>1, <1>2, <1>3, <1>4 DEF StatusInv

LEMMA StatusInvariance == Spec => []StatusInv
<1>1. ASSUME StatusInv, Next PROVE StatusInv'
  <2>1. Typed'
    BY <1>1, HooksStayTyped, HandlersStayTyped, SpoolStaysTyped, HistoryStaysTyped
       DEF StatusInv, Typed
  <2> QED BY <1>1, <2>1, StagesKept, SpoolStagesKept, HistoryStagesKept, KeptStays
             DEF StatusInv
<1>2. StatusInv /\ [Next]_vars => StatusInv'
  BY <1>1, StutterInv
<1> QED BY InitInv, <1>2, PTL DEF Spec

\* Every variable keeps its type, and no agent's history outgrows its cap, whatever
\* hooks and daemons do.
LEMMA StatusTyping == Spec => []StatusTypeOK
<1>1. StatusInv => StatusTypeOK
  <2> SUFFICES ASSUME StatusInv PROVE StatusTypeOK
    OBVIOUS
  <2>1. HooksTyped /\ HandlersTyped /\ SpoolTyped /\ HistoryTyped
    BY DEF StatusInv, Typed
  <2>2. \A h \in Hook :
          /\ hook[h].pc \in HookPcs /\ hook[h].at \in 1..MaxClock
          /\ AgentOf(h) \in Agent \cup {NoState} /\ hook[h].file \in 0..Len(spool)
          /\ handler[h].pc \in HandlerPcs /\ handler[h].at \in 1..MaxClock
          /\ handler[h].life \in 0..life
    BY <2>1 DEF HooksTyped, HandlersTyped, HookState, TaskState, AgentOf
  <2>3. leftovers \cup claimed \subseteq DOMAIN spool /\ page.file \in 0..Len(spool)
        /\ page.rows \in Seq(Hook)
    <3>1. DOMAIN spool = 1..Len(spool) /\ Len(spool) \in Nat
      BY <2>1 DEF SpoolTyped
    <3>2. CASE page = NoPage
      BY <2>1, <3>1, <3>2 DEF SpoolTyped, NoPage, NoFile
    <3>3. CASE page \in [file : 1..Len(spool), rows : Seq(Hook)]
      BY <2>1, <3>1, <3>3 DEF SpoolTyped
    <3> QED BY <2>1, <3>2, <3>3 DEF SpoolTyped
  <2> QED BY <2>1, <2>2, <2>3 DEF StatusTypeOK, HooksTyped, HandlersTyped, SpoolTyped,
             HistoryTyped, HookPcs, HandlerPcs, File
<1> QED BY <1>1, StatusInvariance, PTL

\* `restore_status` never puts a spooled status above a live one at least as recent,
\* for any number of hooks, agents, daemons and rows kept.
LEMMA StatusYields == Spec => []RestoredYieldsToLive
<1>1. StatusInv => RestoredYieldsToLive
  BY DEF StatusInv
<1> QED BY <1>1, StatusInvariance, PTL

\* The spooled copy of a report the daemon recorded after all is never restored
\* above it: the copy has the clock of the hook, which read it before the daemon did.
LEMMA StatusNoEcho == Spec => []NoEcho
<1>1. StatusInv => NoEcho
  <2> SUFFICES ASSUME StatusInv, NEW a \in Agent, NEW i \in DOMAIN history[a],
                      NEW j \in DOMAIN history[a], i < j, history[a][j].restored,
                      ~history[a][i].restored, history[a][j].hook = history[a][i].hook
               PROVE  FALSE
    BY DEF NoEcho
  <2>1. history[a][i] \in Row /\ history[a][j] \in Row
    BY DEF StatusInv, Typed, HistoryTyped
  <2>2. history[a][i].at \in Nat /\ history[a][j].at \in Nat
    BY <2>1 DEF Row
  <2>3. history[a][j].at > history[a][i].at
    BY DEF StatusInv, RestoredYieldsToLive
  <2>4. /\ history[a][j].at = hook[history[a][j].hook].at
        /\ history[a][i].at >= hook[history[a][i].hook].at
    BY DEF StatusInv, HistoryStaged, RowStaged
  <2> QED BY <2>2, <2>3, <2>4
<1> QED BY <1>1, StatusInvariance, PTL

\* The table keeps its types and caps, and a restored status never stands above a
\* live one at least as recent, nor above the report it is a copy of, for any number
\* of hooks, agents and daemons.
THEOREM StatusHistory == Spec => []HistorySound
<1>1. StatusTypeOK /\ RestoredYieldsToLive /\ NoEcho => HistorySound
  BY DEF HistorySound
<1> QED BY <1>1, StatusTyping, StatusYields, StatusNoEcho, PTL

\* A report a hook was told the daemon has is in the table, through every stop and
\* crash, until newer ones have filled the agent's history.
THEOREM StatusDelivered == Spec => []DeliveredIsKept
<1>1. StatusInv => DeliveredIsKept
  <2> SUFFICES ASSUME StatusInv, NEW h \in Hook, hook[h].pc = "delivered",
                      AgentOf(h) # NoState
               PROVE  InTable(h)
    BY DEF DeliveredIsKept, InTable
  <2>1. AgentOf(h) \in Agent
    BY DEF StatusInv, Typed, HooksTyped, HookState, AgentOf
  <2> QED BY <2>1 DEF StatusInv, Kept
<1> QED BY <1>1, StatusInvariance, PTL

-----------------------------------------------------------------------------
(* The way of a spooled row: one file, one hand, one settlement.           *)

Filed(f) == ToSet(spool[f].rows)

\* A row is in one file or in hand or settled, never in two of them, and never
\* twice in one; what was read of a file is in it until the file is removed.
Once ==
  /\ \A h \in Hook : hook[h].pc = "appending" => hook[h].file \in DOMAIN spool
  /\ \A h \in Hook : settled[h] > 0 => hook[h].pc = "spooled" /\ settled[h] = 1
  /\ \A f \in DOMAIN spool : IsInjective(spool[f].rows)
  /\ \A f, g \in DOMAIN spool : f # g => Filed(f) \cap Filed(g) = {}
  /\ IsInjective(page.rows) /\ (page # NoPage => ToSet(page.rows) \subseteq Filed(page.file))
  /\ IsInjective(hand)
  /\ \A f \in DOMAIN spool : Filed(f) \cap ToSet(hand) = {}
  /\ \A f \in DOMAIN spool : \A h \in Filed(f) : settled[h] = 0
  /\ \A h \in ToSet(hand) : settled[h] = 0

\* What a drain still has to read has lost the pane's own name, and of the file it
\* has read it holds every row that was written under that name.
PageHolds ==
  page # NoPage => /\ spool[page.file].name # "spooled"
                   /\ Filed(page.file) \cap prompt \subseteq ToSet(page.rows)

ReadTo ==
  /\ prompt \subseteq Spoolers
  /\ \A f \in leftovers \cup claimed : spool[f].name # "spooled"
  /\ PageHolds

RowsInv == Once /\ PromptIsKept

SpoolInv == RowsInv /\ ReadTo

LEMMA ToSetTyped ==
  ASSUME NEW S, NEW s \in Seq(S)
  PROVE  ToSet(s) \subseteq S
BY DEF ToSet

LEMMA AppendOnce ==
  ASSUME NEW S, NEW s \in Seq(S), NEW e \in S
  PROVE  /\ ToSet(Append(s, e)) = ToSet(s) \cup {e}
         /\ IsInjective(s) /\ e \notin ToSet(s) => IsInjective(Append(s, e))
<1> DEFINE t == Append(s, e)
<1>1. /\ Len(s) \in Nat /\ DOMAIN s = 1..Len(s) /\ DOMAIN t = 1..(Len(s) + 1)
      /\ t[Len(s) + 1] = e /\ \A i \in 1..Len(s) : t[i] = s[i]
  OBVIOUS
<1> HIDE DEF t
<1>2. ToSet(t) = ToSet(s) \cup {e}
  BY <1>1 DEF ToSet
<1>3. IsInjective(s) /\ e \notin ToSet(s) => IsInjective(t)
  BY <1>1 DEF ToSet, IsInjective
<1> QED
  BY <1>2, <1>3 DEF t

LEMMA ConcatOnce ==
  ASSUME NEW S, NEW s \in Seq(S), NEW t \in Seq(S)
  PROVE  /\ ToSet(s \o t) = ToSet(s) \cup ToSet(t)
         /\ IsInjective(s) /\ IsInjective(t) /\ ToSet(s) \cap ToSet(t) = {} => IsInjective(s \o t)
<1> DEFINE u == s \o t
<1>1. /\ Len(s) \in Nat /\ Len(t) \in Nat
      /\ DOMAIN s = 1..Len(s) /\ DOMAIN t = 1..Len(t) /\ DOMAIN u = 1..(Len(s) + Len(t))
      /\ \A i \in 1..(Len(s) + Len(t)) : u[i] = IF i <= Len(s) THEN s[i] ELSE t[i - Len(s)]
  OBVIOUS
<1> HIDE DEF u
<1>2. ToSet(u) = ToSet(s) \cup ToSet(t)
  <2>1. ToSet(u) \subseteq ToSet(s) \cup ToSet(t)
    <3> SUFFICES ASSUME NEW i \in DOMAIN u
                 PROVE  u[i] \in ToSet(s) \cup ToSet(t)
      BY DEF ToSet
    <3>1. CASE i <= Len(s)
      BY <1>1, <3>1 DEF ToSet
    <3>2. CASE i > Len(s)
      <4>1. i - Len(s) \in DOMAIN t /\ u[i] = t[i - Len(s)]
        BY <1>1, <3>2
      <4> QED
        BY <4>1 DEF ToSet
    <3> QED
      BY <1>1, <3>1, <3>2
  <2>2. ToSet(s) \subseteq ToSet(u)
    BY <1>1 DEF ToSet
  <2>3. ToSet(t) \subseteq ToSet(u)
    <3> SUFFICES ASSUME NEW i \in DOMAIN t
                 PROVE  t[i] \in ToSet(u)
      BY DEF ToSet
    <3>1. i + Len(s) \in DOMAIN u /\ u[i + Len(s)] = t[i]
      BY <1>1
    <3> QED
      BY <3>1 DEF ToSet
  <2> QED
    BY <2>1, <2>2, <2>3
<1>3. ASSUME IsInjective(s), IsInjective(t), ToSet(s) \cap ToSet(t) = {}
      PROVE  IsInjective(u)
  <2> SUFFICES ASSUME NEW i \in DOMAIN u, NEW j \in DOMAIN u, u[i] = u[j]
               PROVE  i = j
    BY DEF IsInjective
  <2>1. \A k \in DOMAIN u :
          IF k <= Len(s) THEN k \in DOMAIN s /\ u[k] = s[k] /\ u[k] \in ToSet(s)
                         ELSE k - Len(s) \in DOMAIN t /\ u[k] = t[k - Len(s)] /\ u[k] \in ToSet(t)
    BY <1>1 DEF ToSet
  <2>2. (i <= Len(s)) = (j <= Len(s))
    BY <1>3, <2>1
  <2>3. CASE i <= Len(s)
    BY <1>3, <2>1, <2>2, <2>3 DEF IsInjective
  <2>4. CASE ~(i <= Len(s))
    <3>1. i - Len(s) = j - Len(s)
      BY <1>3, <2>1, <2>2, <2>4 DEF IsInjective
    <3> QED
      BY <1>1, <3>1
  <2> QED
    BY <2>3, <2>4
<1> QED
  BY <1>2, <1>3 DEF u

LEMMA TailOnce ==
  ASSUME NEW S, NEW s \in Seq(S), s # <<>>
  PROVE  /\ Head(s) \in S /\ ToSet(s) = ToSet(Tail(s)) \cup {Head(s)}
         /\ IsInjective(s) => IsInjective(Tail(s)) /\ Head(s) \notin ToSet(Tail(s))
<1> DEFINE t == Tail(s)
<1>1. /\ Len(s) \in Nat /\ Len(s) >= 1 /\ DOMAIN s = 1..Len(s) /\ DOMAIN t = 1..(Len(s) - 1)
      /\ Head(s) = s[1] /\ Head(s) \in S /\ \A i \in 1..(Len(s) - 1) : t[i] = s[i + 1]
  BY HeadTailProperties, EmptySeq
<1> HIDE DEF t
<1>2. ToSet(s) \subseteq ToSet(t) \cup {Head(s)}
  <2> SUFFICES ASSUME NEW i \in DOMAIN s, i # 1
               PROVE  s[i] \in ToSet(t)
    BY <1>1 DEF ToSet
  <2>1. i - 1 \in DOMAIN t /\ t[i - 1] = s[i]
    BY <1>1
  <2> QED
    BY <2>1 DEF ToSet
<1>3. ToSet(t) \cup {Head(s)} \subseteq ToSet(s)
  <2>1. \A i \in DOMAIN t : i + 1 \in DOMAIN s /\ s[i + 1] = t[i]
    BY <1>1
  <2>2. 1 \in DOMAIN s
    BY <1>1
  <2> QED
    BY <1>1, <2>1, <2>2 DEF ToSet
<1>4. ASSUME IsInjective(s) PROVE IsInjective(t) /\ Head(s) \notin ToSet(t)
  <2>1. \A i \in DOMAIN t : i + 1 \in DOMAIN s /\ 1 \in DOMAIN s /\ i \in Nat \ {0} /\ t[i] = s[i + 1]
    BY <1>1
  <2>2. \A i, j \in DOMAIN s : s[i] = s[j] => i = j
    BY <1>4 DEF IsInjective
  <2>3. IsInjective(t)
    <3> SUFFICES ASSUME NEW i \in DOMAIN t, NEW j \in DOMAIN t, t[i] = t[j]
                 PROVE  i = j
      BY DEF IsInjective
    <3>1. i + 1 = j + 1
      BY <2>1, <2>2
    <3> QED
      BY <2>1, <3>1
  <2>4. \A i \in DOMAIN t : t[i] # Head(s)
    <3> SUFFICES ASSUME NEW i \in DOMAIN t, t[i] = Head(s)
                 PROVE  FALSE
      OBVIOUS
    <3>1. i + 1 = 1
      BY <1>1, <2>1, <2>2
    <3> QED
      BY <2>1, <3>1
  <2> QED
    BY <2>3, <2>4 DEF ToSet
<1> QED
  BY <1>1, <1>2, <1>3, <1>4 DEF t

\* Steps that write no row and hand none on.
LEMMA RowsStay ==
  ASSUME StatusInv, SpoolInv, DOMAIN spool' = DOMAIN spool,
         \A f \in DOMAIN spool : spool'[f].rows = spool[f].rows,
         page' \in {page, NoPage}, UNCHANGED <<hand, settled, forfeited, prompt>>,
         \A h \in Hook : hook'[h].pc = "spooled" <=> hook[h].pc = "spooled",
         \A h \in Hook : hook'[h].pc = "appending" => hook'[h].file \in DOMAIN spool
  PROVE  RowsInv'
<1>1. \A f \in DOMAIN spool : Filed(f)' = Filed(f)
  BY DEF Filed
<1>2. IsInjective(NoPage.rows)
  BY DEF NoPage, IsInjective
<1>3. page' # NoPage => ToSet(page'.rows) \subseteq Filed(page.file)'
  <2> SUFFICES ASSUME page' # NoPage
               PROVE  ToSet(page'.rows) \subseteq Filed(page.file)'
    OBVIOUS
  <2>1. page' = page /\ ToSet(page.rows) \subseteq Filed(page.file)
    BY DEF SpoolInv, RowsInv, Once
  <2>2. page.file \in DOMAIN spool
    BY <2>1 DEF StatusInv, Typed, SpoolTyped
  <2> QED
    BY <1>1, <2>1, <2>2
<1>4. Once'
  BY <1>1, <1>2, <1>3 DEF SpoolInv, RowsInv, Once
<1>5. PromptIsKept'
  BY DEF SpoolInv, RowsInv, PromptIsKept, RowKept
<1> QED
  BY <1>4, <1>5 DEF RowsInv

\* A hook that writes its row: nobody has seen it before.
LEMMA WriteKeeps ==
  ASSUME StatusInv, SpoolInv, NEW h \in Hook, WriteSpool(h)
  PROVE  RowsInv'
<1> PICK f : f = hook[h].file
  OBVIOUS
<1>1. /\ spool \in Seq(File) /\ DOMAIN spool = 1..Len(spool) /\ hook \in [Hook -> HookState]
      /\ hand \in Seq(Hook) /\ (page = NoPage \/ page \in [file : DOMAIN spool, rows : Seq(Hook)])
  BY DEF StatusInv, Typed, SpoolTyped, HooksTyped
<1>2. /\ hook[h].pc = "appending" /\ f \in DOMAIN spool
      /\ spool[f] \in File /\ spool[f].rows \in Seq(Hook)
  BY FileTyped DEF WriteSpool, SpoolInv, RowsInv, Once, StatusInv, Typed
<1>3. /\ UNCHANGED <<page, hand, settled, forfeited>>
      /\ hook' = [hook EXCEPT ![h].pc = "spooled"]
  BY DEF WriteSpool, drainVars
<1>4. /\ hook'[h].pc = "spooled"
      /\ \A g \in Hook \ {h} : hook'[g] = hook[g]
  BY <1>1, <1>3 DEF HookState
\* Its row is nowhere yet.
<1>5. /\ h \notin ToSet(hand) /\ \A g \in DOMAIN spool : h \notin Filed(g)
  <2>1. h \notin Spoolers
    BY <1>2 DEF Spoolers
  <2>2. hand \in Seq(Spoolers) /\ \A g \in DOMAIN spool : spool[g].rows \in Seq(Spoolers)
    BY DEF StatusInv, SpoolStaged
  <2> QED
    BY <2>1, <2>2, ToSetTyped DEF Filed
<1>6. settled[h] = 0
  <2>1. ~ (settled[h] > 0) /\ settled[h] \in Nat
    BY <1>2 DEF SpoolInv, RowsInv, Once, StatusInv, Typed, SpoolTyped
  <2> QED
    BY <2>1
<1>7. CASE spool[f].name = "gone"
  <2>1. prompt' = prompt /\ spool' = spool
    BY <1>7 DEF WriteSpool
  <2>2. \A g \in DOMAIN spool : Filed(g)' = Filed(g)
    BY <2>1 DEF Filed
  <2>3. Once'
    BY <1>1, <1>3, <1>4, <1>6, <2>1, <2>2 DEF SpoolInv, RowsInv, Once
  <2>4. PromptIsKept'
    BY <1>3, <1>4, <2>1 DEF SpoolInv, RowsInv, PromptIsKept, RowKept
  <2> QED
    BY <2>3, <2>4 DEF RowsInv
<1>8. CASE spool[f].name # "gone"
  <2>1. prompt' \subseteq prompt \cup {h} /\ spool' = [spool EXCEPT ![f].rows = Append(spool[f].rows, h)]
    BY <1>8 DEF WriteSpool
  <2>2. /\ DOMAIN spool' = DOMAIN spool /\ spool'[f].rows = Append(spool[f].rows, h)
        /\ \A g \in DOMAIN spool \ {f} : spool'[g] = spool[g]
    BY <1>1, <1>2, <2>1 DEF File
  <2>3. /\ Filed(f)' = Filed(f) \cup {h} /\ IsInjective(spool'[f].rows)
        /\ \A g \in DOMAIN spool \ {f} : Filed(g)' = Filed(g)
    <3>1. IsInjective(spool[f].rows) /\ h \notin Filed(f)
      BY <1>2, <1>5 DEF SpoolInv, RowsInv, Once
    <3> QED
      BY <1>2, <2>2, <3>1, AppendOnce DEF Filed
  <2>4. \A g \in DOMAIN spool' : Filed(g)' \subseteq Filed(g) \cup {h} /\ Filed(g) \subseteq Filed(g)'
    BY <1>2, <2>2, <2>3
  <2>5. \A d, g \in DOMAIN spool' : d # g => Filed(d)' \cap Filed(g)' = {}
    <3>1. \A d, g \in DOMAIN spool : d # g => Filed(d) \cap Filed(g) = {}
      BY DEF SpoolInv, RowsInv, Once
    <3> QED
      BY <1>2, <1>5, <2>2, <2>3, <3>1
  <2>6. /\ \A g \in Hook : hook'[g].pc = "appending" => hook'[g].file \in DOMAIN spool'
        /\ \A g \in Hook : settled'[g] > 0 => hook'[g].pc = "spooled" /\ settled'[g] = 1
    BY <1>3, <1>4, <2>2 DEF SpoolInv, RowsInv, Once
  <2>7. \A g \in DOMAIN spool' : IsInjective(spool'[g].rows)
    BY <2>2, <2>3 DEF SpoolInv, RowsInv, Once
  <2>8. IsInjective(page'.rows) /\ (page' # NoPage => ToSet(page'.rows) \subseteq Filed(page.file)')
    <3>1. IsInjective(page.rows) /\ (page # NoPage => ToSet(page.rows) \subseteq Filed(page.file))
      BY DEF SpoolInv, RowsInv, Once
    <3>2. page # NoPage => page.file \in DOMAIN spool'
      BY <1>1, <2>2
    <3> QED
      BY <1>3, <2>4, <3>1, <3>2
  <2>9. /\ IsInjective(hand') /\ \A g \in DOMAIN spool' : Filed(g)' \cap ToSet(hand') = {}
        /\ \A g \in ToSet(hand') : settled'[g] = 0
    BY <1>3, <1>5, <2>2, <2>4 DEF SpoolInv, RowsInv, Once
  <2>10. \A d \in DOMAIN spool' : \A g \in Filed(d)' : settled'[g] = 0
    BY <1>3, <1>6, <2>2, <2>4 DEF SpoolInv, RowsInv, Once
  <2>11. Once'
    BY <1>3, <2>5, <2>6, <2>7, <2>8, <2>9, <2>10 DEF Once
  <2>12. PromptIsKept'
    <3> SUFFICES ASSUME NEW g \in prompt'
                 PROVE  \/ \E d \in DOMAIN spool' : g \in Filed(d)'
                        \/ g \in ToSet(hand) \/ settled[g] > 0 \/ g \in forfeited
      BY <1>3, <2>1 DEF PromptIsKept, RowKept, Filed
    <3>1. CASE g = h
      BY <1>2, <2>2, <2>3, <3>1
    <3>2. CASE g # h
      <4>1. g \in prompt
        BY <2>1, <3>2
      <4>2. \/ \E d \in DOMAIN spool : g \in Filed(d)
            \/ g \in ToSet(hand) \/ settled[g] > 0 \/ g \in forfeited
        BY <4>1 DEF SpoolInv, RowsInv, PromptIsKept, RowKept, Filed
      <4> QED
        BY <2>2, <2>4, <4>2
    <3> QED
      BY <3>1, <3>2
  <2> QED
    BY <2>11, <2>12 DEF RowsInv
<1> QED
  BY <1>7, <1>8

\* A drain that takes a file in hand.
LEMMA RemoveKeeps ==
  ASSUME StatusInv, SpoolInv, RemoveFile
  PROVE  RowsInv'
<1> PICK f : f = page.file
  OBVIOUS
<1>1. /\ spool \in Seq(File) /\ DOMAIN spool = 1..Len(spool) /\ hand \in Seq(Hook)
      /\ page # NoPage /\ f \in DOMAIN spool /\ page.rows \in Seq(Hook)
  BY DEF RemoveFile, StatusInv, Typed, SpoolTyped
<1>2. /\ UNCHANGED <<hook, settled, forfeited>> /\ page' = NoPage /\ hand' = hand \o page.rows
      /\ spool' = [spool EXCEPT ![f] = [name |-> "gone", rows |-> <<>>]]
      /\ UNCHANGED prompt
  BY DEF RemoveFile, DoneWith, hookVars, ghostVars
<1>3. /\ DOMAIN spool' = DOMAIN spool /\ spool'[f].rows = <<>>
      /\ \A g \in DOMAIN spool \ {f} : spool'[g] = spool[g]
  BY <1>1, <1>2
<1>4. Filed(f)' = {} /\ \A g \in DOMAIN spool \ {f} : Filed(g)' = Filed(g)
  BY <1>3 DEF Filed, ToSet
<1>5. /\ IsInjective(hand) /\ IsInjective(page.rows) /\ ToSet(page.rows) \subseteq Filed(f)
      /\ \A g \in DOMAIN spool : Filed(g) \cap ToSet(hand) = {}
      /\ \A d, g \in DOMAIN spool : d # g => Filed(d) \cap Filed(g) = {}
      /\ \A d \in DOMAIN spool : \A g \in Filed(d) : settled[g] = 0
      /\ \A g \in ToSet(hand) : settled[g] = 0
      /\ \A d \in DOMAIN spool : IsInjective(spool[d].rows)
  BY <1>1 DEF SpoolInv, RowsInv, Once
<1>6. IsInjective(hand') /\ ToSet(hand') = ToSet(hand) \cup ToSet(page.rows)
  <2>1. ToSet(hand) \cap ToSet(page.rows) = {}
    BY <1>1, <1>5
  <2> QED
    BY <1>1, <1>2, <1>5, <2>1, ConcatOnce
<1>7. /\ IsInjective(page'.rows) /\ IsInjective(<<>>)
  BY <1>2 DEF NoPage, IsInjective
<1>8. Once'
  <2>1. /\ \A h \in Hook : hook'[h].pc = "appending" => hook'[h].file \in DOMAIN spool'
        /\ \A h \in Hook : settled'[h] > 0 => hook'[h].pc = "spooled" /\ settled'[h] = 1
    BY <1>2, <1>3 DEF SpoolInv, RowsInv, Once
  <2>2. \A g \in DOMAIN spool' : IsInjective(spool'[g].rows)
    BY <1>3, <1>5, <1>7
  <2>3. \A d, g \in DOMAIN spool' : d # g => Filed(d)' \cap Filed(g)' = {}
    BY <1>3, <1>4, <1>5
  <2>4. \A g \in DOMAIN spool' : Filed(g)' \cap ToSet(hand') = {}
    <3> SUFFICES ASSUME NEW g \in DOMAIN spool, g # f
                 PROVE  Filed(g) \cap (ToSet(hand) \cup ToSet(page.rows)) = {}
      BY <1>3, <1>4, <1>6
    <3>1. Filed(g) \cap ToSet(hand) = {} /\ Filed(g) \cap Filed(f) = {}
      BY <1>1, <1>5
    <3> QED
      BY <1>5, <3>1
  <2>5. \A d \in DOMAIN spool' : \A g \in Filed(d)' : settled'[g] = 0
    BY <1>2, <1>3, <1>4, <1>5
  <2>6. \A g \in ToSet(hand') : settled'[g] = 0
    BY <1>1, <1>2, <1>5, <1>6
  <2> QED
    BY <1>2, <1>6, <1>7, <2>1, <2>2, <2>3, <2>4, <2>5, <2>6 DEF Once
<1>9. PromptIsKept'
  <2> SUFFICES ASSUME NEW g \in prompt'
               PROVE  \/ \E d \in DOMAIN spool' : g \in Filed(d)'
                      \/ g \in ToSet(hand') \/ settled[g] > 0 \/ g \in forfeited
    BY <1>2 DEF PromptIsKept, RowKept, Filed
  <2>1. \/ \E d \in DOMAIN spool : g \in Filed(d)
        \/ g \in ToSet(hand) \/ settled[g] > 0 \/ g \in forfeited
    BY <1>2 DEF SpoolInv, RowsInv, PromptIsKept, RowKept, Filed
  <2>2. CASE g \in Filed(f)
    BY <1>1, <1>2, <1>6, <2>2 DEF SpoolInv, ReadTo, PageHolds
  <2>3. CASE g \notin Filed(f)
    BY <1>2, <1>3, <1>4, <1>6, <2>1, <2>3
  <2> QED
    BY <2>2, <2>3
<1> QED
  BY <1>8, <1>9 DEF RowsInv

\* A row handed to the table.
LEMMA RestoreKeeps ==
  ASSUME StatusInv, SpoolInv, RestoreRow
  PROVE  RowsInv'
<1> DEFINE h == Head(hand)
<1>1. /\ hand \in Seq(Hook) /\ hand # <<>> /\ hand' = Tail(hand)
      /\ settled \in [Hook -> Nat] /\ settled' = [settled EXCEPT ![h] = settled[h] + 1]
      /\ UNCHANGED <<hook, page, spool, forfeited, prompt>>
  BY DEF RestoreRow, StatusInv, Typed, SpoolTyped, hookVars
<1>2. /\ h \in Hook /\ ToSet(hand) = ToSet(hand') \cup {h}
      /\ IsInjective(hand') /\ h \notin ToSet(hand')
  BY <1>1, TailOnce DEF SpoolInv, RowsInv, Once
<1>3. /\ settled[h] = 0 /\ settled'[h] = 1
      /\ \A g \in Hook \ {h} : settled'[g] = settled[g]
  <2>1. settled[h] = 0
    BY <1>2 DEF SpoolInv, RowsInv, Once
  <2> QED
    BY <1>1, <1>2, <2>1
<1>4. hook[h].pc = "spooled"
  <2>1. h \in Spoolers
    BY <1>1, HeadTailProperties DEF StatusInv, SpoolStaged
  <2> QED
    BY <2>1 DEF Spoolers
<1>5. \A f \in DOMAIN spool : Filed(f)' = Filed(f) /\ h \notin Filed(f) /\ Filed(f) \subseteq Hook
  <2> TAKE f \in DOMAIN spool
  <2>1. Filed(f) \cap ToSet(hand) = {}
    BY DEF SpoolInv, RowsInv, Once
  <2>2. spool[f].rows \in Seq(Hook)
    BY FileTyped DEF StatusInv, Typed
  <2> QED
    BY <1>1, <1>2, <2>1, <2>2, ToSetTyped DEF Filed
<1>6. ToSet(hand') \subseteq Hook
  BY <1>1, <1>2, ToSetTyped
<1>7. Once'
  <2>1. \A g \in Hook : settled'[g] > 0 => hook'[g].pc = "spooled" /\ settled'[g] = 1
    BY <1>1, <1>3, <1>4 DEF SpoolInv, RowsInv, Once
  <2>2. \A d \in DOMAIN spool' : \A g \in Filed(d)' : settled'[g] = 0
    BY <1>1, <1>3, <1>5 DEF SpoolInv, RowsInv, Once
  <2>3. \A g \in ToSet(hand') : settled'[g] = 0
    BY <1>2, <1>3, <1>6 DEF SpoolInv, RowsInv, Once
  <2>4. \A d \in DOMAIN spool' : Filed(d)' \cap ToSet(hand') = {}
    BY <1>1, <1>2, <1>5 DEF SpoolInv, RowsInv, Once
  <2>5. IsInjective(page'.rows) /\ (page' # NoPage => ToSet(page'.rows) \subseteq Filed(page.file)')
    BY <1>1 DEF SpoolInv, RowsInv, Once, Filed
  <2>6. /\ \A g \in Hook : hook'[g].pc = "appending" => hook'[g].file \in DOMAIN spool'
        /\ \A d \in DOMAIN spool' : IsInjective(spool'[d].rows)
        /\ \A d, g \in DOMAIN spool' : d # g => Filed(d)' \cap Filed(g)' = {}
    BY <1>1, <1>5 DEF SpoolInv, RowsInv, Once
  <2> QED
    BY <1>1, <1>2, <2>1, <2>2, <2>3, <2>4, <2>5, <2>6 DEF Once
<1>8. PromptIsKept'
  <2> SUFFICES ASSUME NEW g \in prompt'
               PROVE  \/ \E d \in DOMAIN spool : g \in Filed(d)
                      \/ g \in ToSet(hand') \/ settled'[g] > 0 \/ g \in forfeited
    BY <1>1 DEF PromptIsKept, RowKept, Filed
  <2>1. \/ \E d \in DOMAIN spool : g \in Filed(d)
        \/ g \in ToSet(hand) \/ settled[g] > 0 \/ g \in forfeited
    BY <1>1 DEF SpoolInv, RowsInv, PromptIsKept, RowKept, Filed
  <2>2. g \in Hook
    BY <1>1 DEF StatusInv, Typed, SpoolTyped
  <2> QED
    BY <1>1, <1>2, <1>3, <2>1, <2>2
<1> QED
  BY <1>7, <1>8 DEF RowsInv

\* A hook that opens its pane's file, which may be a new one, without rows.
LEMMA OpenKeeps ==
  ASSUME StatusInv, SpoolInv, NEW h \in Hook, OpenSpool(h)
  PROVE  RowsInv'
<1>1. /\ spool \in Seq(File) /\ DOMAIN spool = 1..Len(spool) /\ Len(spool) \in Nat
      /\ hook \in [Hook -> HookState] /\ (page # NoPage => page.file \in DOMAIN spool)
  BY DEF StatusInv, Typed, SpoolTyped, HooksTyped
<1>2. hook[h].pc = "spooling" /\ UNCHANGED <<page, hand, settled, forfeited, prompt>>
  BY DEF OpenSpool, drainVars, ghostVars
<1>3. CASE UNCHANGED spool /\ hook' = [hook EXCEPT ![h].pc = "refused"]
  <2>1. hook'[h].pc = "refused" /\ \A g \in Hook \ {h} : hook'[g] = hook[g]
    BY <1>1, <1>3 DEF HookState
  <2>2. \A g \in Hook : hook'[g].pc = "spooled" <=> hook[g].pc = "spooled"
    BY <1>2, <2>1
  <2>3. \A g \in Hook : hook'[g].pc = "appending" => hook'[g].file \in DOMAIN spool
    BY <2>1 DEF SpoolInv, RowsInv, Once
  <2> QED
    BY <1>2, <1>3, <2>2, <2>3, RowsStay
<1>4. ASSUME NEW f \in Spooled, UNCHANGED spool,
             hook' = [hook EXCEPT ![h] = [hook[h] EXCEPT !.pc = "appending", !.file = f]]
      PROVE  RowsInv'
  <2>1. /\ hook'[h].pc = "appending" /\ hook'[h].file = f /\ f \in DOMAIN spool
        /\ \A g \in Hook \ {h} : hook'[g] = hook[g]
    BY <1>1, <1>4 DEF HookState, Spooled
  <2>2. \A g \in Hook : hook'[g].pc = "spooled" <=> hook[g].pc = "spooled"
    BY <1>2, <2>1
  <2>3. \A g \in Hook : hook'[g].pc = "appending" => hook'[g].file \in DOMAIN spool
    BY <2>1 DEF SpoolInv, RowsInv, Once
  <2> QED
    BY <1>2, <1>4, <2>2, <2>3, RowsStay
<1>5. ASSUME spool' = Append(spool, [name |-> "spooled", rows |-> <<>>]),
             hook' = [hook EXCEPT ![h] = [hook[h] EXCEPT !.pc = "appending",
                                                         !.file = Len(spool) + 1]]
      PROVE  RowsInv'
  <2> PICK n : n = Len(spool) + 1
    OBVIOUS
  <2>1. /\ hook'[h].pc = "appending" /\ hook'[h].file = n
        /\ \A g \in Hook \ {h} : hook'[g] = hook[g]
    BY <1>1, <1>5 DEF HookState
  <2>2. /\ DOMAIN spool' = DOMAIN spool \cup {n} /\ n \notin DOMAIN spool
        /\ spool'[n].rows = <<>> /\ \A f \in DOMAIN spool : spool'[f] = spool[f]
    BY <1>1, <1>5
  <2>3. Filed(n)' = {} /\ \A f \in DOMAIN spool : Filed(f)' = Filed(f)
    BY <2>2 DEF Filed, ToSet
  <2>4. /\ \A g \in Hook : hook'[g].pc = "appending" => hook'[g].file \in DOMAIN spool'
        /\ \A g \in Hook : settled'[g] > 0 => hook'[g].pc = "spooled" /\ settled'[g] = 1
    BY <1>2, <2>1, <2>2 DEF SpoolInv, RowsInv, Once
  <2>5. \A f \in DOMAIN spool' : IsInjective(spool'[f].rows)
    <3>1. IsInjective(<<>>)
      BY DEF IsInjective
    <3> QED
      BY <2>2, <3>1 DEF SpoolInv, RowsInv, Once
  <2>6. \A f, g \in DOMAIN spool' : f # g => Filed(f)' \cap Filed(g)' = {}
    BY <2>2, <2>3 DEF SpoolInv, RowsInv, Once
  <2>7. IsInjective(page'.rows) /\ (page' # NoPage => ToSet(page'.rows) \subseteq Filed(page.file)')
    BY <1>1, <1>2, <2>3 DEF SpoolInv, RowsInv, Once
  <2>8. /\ IsInjective(hand') /\ \A f \in DOMAIN spool' : Filed(f)' \cap ToSet(hand') = {}
        /\ \A f \in DOMAIN spool' : \A g \in Filed(f)' : settled'[g] = 0
        /\ \A g \in ToSet(hand') : settled'[g] = 0
    BY <1>2, <2>2, <2>3 DEF SpoolInv, RowsInv, Once
  <2>9. Once'
    BY <2>4, <2>5, <2>6, <2>7, <2>8 DEF Once
  <2>10. PromptIsKept'
    <3> SUFFICES ASSUME NEW g \in prompt'
                 PROVE  \/ \E f \in DOMAIN spool' : g \in Filed(f)'
                        \/ g \in ToSet(hand) \/ settled[g] > 0 \/ g \in forfeited
      BY <1>2 DEF PromptIsKept, RowKept, Filed
    <3>1. g \in prompt
      BY <1>2
    <3>2. \/ \E f \in DOMAIN spool : g \in Filed(f)
          \/ g \in ToSet(hand) \/ settled[g] > 0 \/ g \in forfeited
      BY <3>1 DEF SpoolInv, RowsInv, PromptIsKept, RowKept, Filed
    <3> QED
      BY <2>2, <2>3, <3>2
  <2> QED
    BY <2>9, <2>10 DEF RowsInv
<1> QED
  BY <1>3, <1>4, <1>5 DEF OpenSpool

\* A drain that reads a file has what is in it, until somebody appends.
LEMMA ReadKeeps ==
  ASSUME StatusInv, SpoolInv, ReadFile
  PROVE  RowsInv'
<1>1. PICK f \in Due : page' = [file |-> f, rows |-> spool[f].rows]
  BY DEF ReadFile
<1>2. f \in DOMAIN spool /\ UNCHANGED <<hook, hand, spool, settled, forfeited, prompt>>
  BY <1>1 DEF ReadFile, Due, StatusInv, Typed, SpoolTyped, hookVars, ghostVars
<1>3. page'.file = f /\ page'.rows = spool[f].rows
  BY <1>1
<1>4. IsInjective(page'.rows) /\ ToSet(page'.rows) \subseteq Filed(page.file)'
  BY <1>2, <1>3 DEF SpoolInv, RowsInv, Once, Filed
<1>5. Once'
  BY <1>2, <1>4 DEF SpoolInv, RowsInv, Once, Filed
<1>6. PromptIsKept'
  BY <1>2 DEF SpoolInv, RowsInv, PromptIsKept, RowKept
<1> QED
  BY <1>5, <1>6 DEF RowsInv

\* A crash forfeits what is in hand; what is only read is still in its file.
LEMMA CrashKeeps ==
  ASSUME StatusInv, SpoolInv, Crash
  PROVE  RowsInv'
<1>1. /\ page' = NoPage /\ hand' = <<>> /\ forfeited' = forfeited \cup ToSet(hand)
      /\ UNCHANGED <<hook, spool, settled, prompt>>
  BY DEF Crash, hookVars
<1>2. IsInjective(NoPage.rows) /\ IsInjective(hand') /\ ToSet(hand') = {}
  BY <1>1 DEF NoPage, IsInjective, ToSet
<1>3. Once'
  BY <1>1, <1>2 DEF SpoolInv, RowsInv, Once, Filed
<1>4. PromptIsKept'
  BY <1>1 DEF SpoolInv, RowsInv, PromptIsKept, RowKept
<1> QED
  BY <1>3, <1>4 DEF RowsInv

\* The steps of hooks that are not at the spool.
LEMMA HookQuiet ==
  ASSUME StatusInv, SpoolInv, NEW h \in Hook, Fire(h) \/ Answered(h) \/ GiveUp(h)
  PROVE  RowsInv'
<1>1. hook \in [Hook -> HookState]
  BY DEF StatusInv, Typed, HooksTyped
<1>2. UNCHANGED <<spool, page, hand, settled, forfeited, prompt>>
  BY DEF Fire, Answered, GiveUp, drainVars, ghostVars
<1>3. /\ hook[h].pc \in {"idle", "sending"}
      /\ hook'[h].pc \notin {"spooled", "appending"}
      /\ \A g \in Hook \ {h} : hook'[g] = hook[g]
  BY <1>1 DEF Fire, Answered, GiveUp, NotTaken, HookState
<1>4. \A g \in Hook : hook'[g].pc = "spooled" <=> hook[g].pc = "spooled"
  BY <1>3
<1>5. \A g \in Hook : hook'[g].pc = "appending" => hook'[g].file \in DOMAIN spool
  BY <1>3 DEF SpoolInv, RowsInv, Once
<1> QED
  BY <1>2, <1>4, <1>5, RowsStay

\* Steps of others.
LEMMA OthersQuiet ==
  ASSUME StatusInv, SpoolInv, UNCHANGED <<hook, hand, settled, forfeited, prompt>>,
         page' \in {page, NoPage}, UNCHANGED spool \/ \E files : spool' = Renamed(files)
  PROVE  RowsInv'
<1>1. DOMAIN spool' = DOMAIN spool /\ \A f \in DOMAIN spool : spool'[f].rows = spool[f].rows
  BY RenamedEffect DEF StatusInv, Typed, SpoolTyped
<1>2. /\ \A h \in Hook : hook'[h].pc = "spooled" <=> hook[h].pc = "spooled"
      /\ \A h \in Hook : hook'[h].pc = "appending" => hook'[h].file \in DOMAIN spool
  BY DEF SpoolInv, RowsInv, Once
<1> QED
  BY <1>1, <1>2, RowsStay

LEMMA RowsSteps ==
  ASSUME StatusInv, SpoolInv, Next
  PROVE  RowsInv'
<1>1. ASSUME NEW h \in Hook, HookStep(h) PROVE RowsInv'
  <2>1. CASE Deliver(h)
    BY <2>1, OthersQuiet DEF Deliver, hookVars, drainVars, ghostVars
  <2> QED
    BY <1>1, <2>1, HookQuiet, OpenKeeps, WriteKeeps DEF HookStep
<1>2. ASSUME NEW h \in Hook, TaskStep(h) PROVE RowsInv'
  BY <1>2, OthersQuiet DEF TaskStep, Stamp, Record, ReadBack, Broadcast, hookVars, drainVars,
     ghostVars
<1>3. CASE WindowStep \/ Tick
  BY <1>3, OthersQuiet DEF WindowStep, Subscribe, Leave, ReadFrame, Tick, hookVars, drainVars,
     ghostVars
<1>4. CASE Start \/ Claim \/ SkipFile \/ Serve \/ Stop
  BY <1>4, OthersQuiet DEF Start, Claim, SkipFile, DoneWith, Serve, Stop, hookVars, drainVars,
     ghostVars
<1> QED
  BY <1>1, <1>2, <1>3, <1>4, ReadKeeps, RemoveKeeps, RestoreKeeps, CrashKeeps
     DEF Next, DaemonStep

\* Steps that give no file a name back and make the drain read nothing more: the
\* file it has read, if it still has it, is not written to.
LEMMA NamesStay ==
  ASSUME StatusInv, ReadTo, UNCHANGED prompt,
         DOMAIN spool \subseteq DOMAIN spool',
         \A f \in DOMAIN spool : spool[f].name # "spooled" => spool'[f].name # "spooled",
         leftovers' \cup claimed' \subseteq leftovers \cup claimed,
         page' = NoPage \/ (page' = page /\ \A f \in DOMAIN spool : Filed(f)' = Filed(f)),
         \A h \in Hook : hook[h].pc = "spooled" => hook'[h].pc = "spooled"
  PROVE  ReadTo'
<1>1. leftovers \cup claimed \subseteq DOMAIN spool /\ (page # NoPage => page.file \in DOMAIN spool)
  BY DEF StatusInv, Typed, SpoolTyped
<1>2. prompt' \subseteq Spoolers'
  BY DEF ReadTo, Spoolers
<1>3. \A f \in leftovers' \cup claimed' : spool'[f].name # "spooled"
  BY <1>1 DEF ReadTo
<1>4. PageHolds'
  <2>1. CASE page' = NoPage
    BY <2>1 DEF PageHolds, NoPage
  <2>2. CASE page' = page /\ \A f \in DOMAIN spool : Filed(f)' = Filed(f)
    <3> SUFFICES ASSUME page # NoPage
                 PROVE  /\ spool'[page.file].name # "spooled"
                        /\ ToSet(spool'[page.file].rows) \cap prompt \subseteq ToSet(page.rows)
      BY <2>2 DEF PageHolds, Filed
    <3>1. page.file \in DOMAIN spool /\ spool[page.file].name # "spooled"
          /\ ToSet(spool[page.file].rows) \cap prompt \subseteq ToSet(page.rows)
      BY <1>1 DEF ReadTo, PageHolds, Filed
    <3> QED
      BY <2>2, <3>1 DEF Filed
  <2> QED
    BY <2>1, <2>2
<1> QED
  BY <1>2, <1>3, <1>4 DEF ReadTo

\* A row written to a file that was read is not one written under the pane's name.
LEMMA WriteReadTo ==
  ASSUME StatusInv, ReadTo, NEW h \in Hook, WriteSpool(h)
  PROVE  ReadTo'
<1> PICK f : f = hook[h].file
  OBVIOUS
<1>1. /\ spool \in Seq(File) /\ DOMAIN spool = 1..Len(spool) /\ hook \in [Hook -> HookState]
      /\ leftovers \cup claimed \subseteq DOMAIN spool /\ (page # NoPage => page.file \in DOMAIN spool)
  BY DEF StatusInv, Typed, SpoolTyped, HooksTyped
<1>2. /\ UNCHANGED <<page, leftovers, claimed>> /\ hook[h].pc = "appending"
      /\ hook' = [hook EXCEPT ![h].pc = "spooled"]
      /\ prompt' = IF spool[f].name = "spooled" THEN prompt \cup {h} ELSE prompt
      /\ spool' = spool \/ spool' = [spool EXCEPT ![f].rows = Append(spool[f].rows, h)]
  BY DEF WriteSpool, drainVars
<1>3. /\ \A g \in Hook \ {h} : hook'[g] = hook[g]
      /\ hook'[h].pc = "spooled"
  BY <1>1, <1>2 DEF HookState
<1>4. prompt' \subseteq Spoolers'
  BY <1>2, <1>3 DEF ReadTo, Spoolers
<1>5. DOMAIN spool' = DOMAIN spool /\ \A g \in DOMAIN spool : spool'[g].name = spool[g].name
  <2>1. CASE spool' = spool
    BY <2>1
  <2>2. CASE spool' = [spool EXCEPT ![f].rows = Append(spool[f].rows, h)]
    BY <1>1, <2>2 DEF File
  <2> QED
    BY <1>2, <2>1, <2>2
<1>6. \A g \in leftovers' \cup claimed' : spool'[g].name # "spooled"
  BY <1>1, <1>2, <1>5 DEF ReadTo
<1>7. PageHolds'
  <2> SUFFICES ASSUME page # NoPage
               PROVE  /\ spool'[page.file].name # "spooled"
                      /\ ToSet(spool'[page.file].rows) \cap prompt' \subseteq ToSet(page.rows)
    BY <1>2 DEF PageHolds, Filed
  <2> PICK d : d = page.file
    OBVIOUS
  <2>1. /\ d \in DOMAIN spool /\ spool[d].name # "spooled" /\ spool[d].rows \in Seq(Spoolers)
        /\ ToSet(spool[d].rows) \cap prompt \subseteq ToSet(page.rows)
    BY <1>1 DEF ReadTo, PageHolds, Filed, StatusInv, SpoolStaged
  <2>2. h \notin prompt /\ h \notin ToSet(spool[d].rows)
    <3>1. h \notin Spoolers
      BY <1>2 DEF Spoolers
    <3> QED
      BY <2>1, <3>1, ToSetTyped DEF ReadTo
  <2>3. CASE d # f
    <3>1. spool'[d] = spool[d]
      BY <1>1, <1>2, <2>1, <2>3
    <3> QED
      BY <1>2, <2>1, <2>2, <3>1
  <2>4. CASE d = f
    <3>1. prompt' = prompt
      BY <1>2, <2>1, <2>4
    <3>2. ToSet(spool'[d].rows) \subseteq ToSet(spool[d].rows) \cup {h}
      <4>1. spool[d].rows \in Seq(Hook)
        BY <2>1, FileTyped DEF StatusInv, Typed
      <4>2. spool'[d].rows = spool[d].rows \/ spool'[d].rows = Append(spool[d].rows, h)
        <5>1. CASE spool' = spool
          BY <5>1
        <5>2. CASE spool' = [spool EXCEPT ![f].rows = Append(spool[f].rows, h)]
          <6>1. spool[f] \in File
            BY <2>1, <2>4, FileTyped DEF StatusInv, Typed
          <6>2. spool'[f] = [spool[f] EXCEPT !.rows = Append(spool[f].rows, h)]
            BY <1>1, <2>1, <2>4, <5>2
          <6> QED
            BY <2>4, <6>1, <6>2 DEF File
        <5> QED
          BY <1>2, <5>1, <5>2
      <4>3. ToSet(Append(spool[d].rows, h)) = ToSet(spool[d].rows) \cup {h}
        BY <4>1, AppendOnce
      <4> QED
        BY <4>2, <4>3
    <3> QED
      BY <1>5, <2>1, <2>2, <3>1, <3>2
  <2> QED
    BY <2>3, <2>4
<1> QED
  BY <1>4, <1>6, <1>7 DEF ReadTo

\* A claim takes the pane's name from every file it will read.
LEMMA ClaimReadTo ==
  ASSUME StatusInv, ReadTo, Claim
  PROVE  ReadTo'
<1>1. PICK files \in {Spooled, {}} :
        claimed' = files /\ spool' = Renamed(files) /\ leftovers' = Draining
  BY DEF Claim
<1>2. UNCHANGED <<hook, page, prompt>>
  BY DEF Claim, hookVars, ghostVars
<1>3. /\ files \subseteq DOMAIN spool /\ Draining \subseteq DOMAIN spool
      /\ page # NoPage => page.file \in DOMAIN spool
  BY DEF Spooled, Draining, StatusInv, Typed, SpoolTyped
<1>4. \A f \in DOMAIN spool : /\ spool'[f].rows = spool[f].rows
                              /\ f \in files => spool'[f].name = "draining"
                              /\ f \notin files => spool'[f].name = spool[f].name
  BY <1>1, <1>3 DEF Renamed
<1>5. \A f \in leftovers' \cup claimed' : spool'[f].name # "spooled"
  BY <1>1, <1>3, <1>4 DEF Draining
<1>6. PageHolds'
  <2> SUFFICES ASSUME page # NoPage
               PROVE  /\ spool'[page.file].name # "spooled"
                      /\ ToSet(spool'[page.file].rows) \cap prompt \subseteq ToSet(page.rows)
    BY <1>2 DEF PageHolds, Filed
  <2>1. /\ page.file \in DOMAIN spool /\ spool[page.file].name # "spooled"
        /\ ToSet(spool[page.file].rows) \cap prompt \subseteq ToSet(page.rows)
    BY <1>3 DEF ReadTo, PageHolds, Filed
  <2> QED
    BY <1>4, <2>1
<1>7. prompt' \subseteq Spoolers'
  BY <1>2 DEF ReadTo, Spoolers
<1> QED
  BY <1>5, <1>6, <1>7 DEF ReadTo

LEMMA ReadToSteps ==
  ASSUME StatusInv, SpoolInv, Next
  PROVE  ReadTo'
<1>0. /\ ReadTo /\ spool \in Seq(File) /\ DOMAIN spool = 1..Len(spool) /\ hook \in [Hook -> HookState]
      /\ leftovers \cup claimed \subseteq DOMAIN spool /\ (page # NoPage => page.file \in DOMAIN spool)
  BY DEF SpoolInv, StatusInv, Typed, SpoolTyped, HooksTyped
<1>1. ASSUME UNCHANGED <<spool, prompt>>,
             leftovers' \cup claimed' \subseteq leftovers \cup claimed, page' \in {page, NoPage},
             \A h \in Hook : hook[h].pc = "spooled" => hook'[h].pc = "spooled"
      PROVE  ReadTo'
  BY <1>0, <1>1, NamesStay DEF Filed
<1>2. ASSUME NEW h \in Hook, Fire(h) \/ Answered(h) \/ GiveUp(h)
      PROVE  ReadTo'
  <2>1. /\ hook[h].pc \in {"idle", "sending"} /\ \A g \in Hook \ {h} : hook'[g] = hook[g]
        /\ UNCHANGED <<spool, prompt, leftovers, claimed, page>>
    BY <1>0, <1>2 DEF Fire, Answered, GiveUp, NotTaken, HookState, drainVars, ghostVars
  <2> QED
    BY <1>1, <2>1
<1>3. ASSUME NEW h \in Hook, OpenSpool(h)
      PROVE  ReadTo'
  <2>1. /\ hook[h].pc = "spooling" /\ UNCHANGED <<prompt, leftovers, claimed, page>>
        /\ \A g \in Hook \ {h} : hook'[g] = hook[g]
    BY <1>0, <1>3 DEF OpenSpool, HookState, drainVars, ghostVars
  <2>2. DOMAIN spool \subseteq DOMAIN spool' /\ \A f \in DOMAIN spool : spool'[f] = spool[f]
    <3>1. CASE spool' = spool
      BY <3>1
    <3>2. CASE spool' = Append(spool, [name |-> "spooled", rows |-> <<>>])
      BY <1>0, <3>2
    <3> QED
      BY <1>3, <3>1, <3>2 DEF OpenSpool
  <2> QED
    BY <1>0, <2>1, <2>2, NamesStay DEF Filed
<1>4. ASSUME NEW h \in Hook, HookStep(h)
      PROVE  ReadTo'
  <2>1. CASE Deliver(h)
    BY <1>1, <2>1 DEF Deliver, hookVars, drainVars, ghostVars
  <2> QED
    BY <1>0, <1>2, <1>3, <1>4, <2>1, WriteReadTo DEF HookStep
<1>5. ASSUME NEW h \in Hook, TaskStep(h)
      PROVE  ReadTo'
  BY <1>1, <1>5 DEF TaskStep, Stamp, Record, ReadBack, Broadcast, hookVars, drainVars, ghostVars
<1>6. CASE WindowStep \/ Tick
  BY <1>1, <1>6 DEF WindowStep, Subscribe, Leave, ReadFrame, Tick, hookVars, drainVars, ghostVars
<1>7. CASE Start \/ SkipFile \/ RestoreRow \/ Serve \/ Stop \/ Crash
  BY <1>1, <1>7 DEF Start, SkipFile, DoneWith, RestoreRow, Serve, Stop, Crash, hookVars, drainVars,
     ghostVars
<1>8. CASE ReadFile
  <2>1. PICK f \in Due : page' = [file |-> f, rows |-> spool[f].rows]
    BY <1>8 DEF ReadFile
  <2>2. /\ f \in leftovers \cup claimed /\ page'.file = f /\ page'.rows = spool[f].rows
        /\ UNCHANGED <<hook, spool, prompt, leftovers, claimed>>
    BY <1>8, <2>1 DEF ReadFile, Due, hookVars, ghostVars
  <2>3. spool[f].name # "spooled"
    BY <1>0, <2>2 DEF ReadTo
  <2> QED
    BY <1>0, <2>2, <2>3 DEF ReadTo, PageHolds, Filed, Spoolers
<1>9. CASE RemoveFile
  <2>1. /\ page # NoPage /\ page' = NoPage /\ UNCHANGED <<hook, prompt>>
        /\ leftovers' \cup claimed' \subseteq leftovers \cup claimed
        /\ spool' = [spool EXCEPT ![page.file] = [name |-> "gone", rows |-> <<>>]]
    BY <1>9 DEF RemoveFile, DoneWith, hookVars, ghostVars
  <2>2. /\ DOMAIN spool' = DOMAIN spool
        /\ \A f \in DOMAIN spool : spool[f].name # "spooled" => spool'[f].name # "spooled"
    BY <1>0, <2>1
  <2> QED
    BY <1>0, <2>1, <2>2, NamesStay
<1> QED
  BY <1>0, <1>4, <1>5, <1>6, <1>7, <1>8, <1>9, ClaimReadTo DEF Next, DaemonStep

LEMMA SpoolSteps ==
  ASSUME StatusInv, SpoolInv, Next
  PROVE  SpoolInv'
BY RowsSteps, ReadToSteps DEF SpoolInv

LEMMA SpoolInvariance == Spec => [](StatusInv /\ SpoolInv)
<1>1. Init => SpoolInv
  BY DEF Init, SpoolInv, RowsInv, Once, PromptIsKept, ReadTo, PageHolds, NoPage, IsInjective,
     ToSet
<1>2. StatusInv /\ SpoolInv /\ [Next]_vars => SpoolInv'
  <2>1. ASSUME StatusInv, SpoolInv, UNCHANGED vars PROVE SpoolInv'
    BY <2>1, OthersQuiet, NamesStay DEF vars, hookVars, drainVars, ghostVars, SpoolInv, Filed
  <2> QED
    BY <2>1, SpoolSteps
<1> QED
  BY <1>1, <1>2, StatusInvariance, PTL DEF Spec

\* A spooled row is handed to the table at most once, over any number of hooks,
\* files, starts and crashes: it is gone from its file before it is handed on.
THEOREM StatusOnce == Spec => []HandedOverOnce
<1>1. StatusInv /\ SpoolInv => HandedOverOnce
  <2> SUFFICES ASSUME StatusInv, SpoolInv, NEW h \in Hook
               PROVE  settled[h] <= 1
    BY DEF HandedOverOnce
  <2>1. settled[h] \in Nat /\ (settled[h] > 0 => settled[h] = 1)
    BY DEF SpoolInv, RowsInv, Once, StatusInv, Typed, SpoolTyped
  <2> QED
    BY <2>1
<1> QED
  BY <1>1, SpoolInvariance, PTL

\* A row written while its file had the pane's own name is in a file, in the hands
\* of a drain, or dealt with, over any number of hooks, failed renames, leftovers,
\* starts and crashes: only a crash with the row in hand loses it.
THEOREM StatusPrompt == Spec => []PromptIsKept
<1>1. SpoolInv => PromptIsKept
  BY DEF SpoolInv, RowsInv
<1> QED
  BY <1>1, SpoolInvariance, PTL
=============================================================================
