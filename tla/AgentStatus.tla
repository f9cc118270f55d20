---------------------------- MODULE AgentStatus ----------------------------
(***************************************************************************)
(* The status of the agents in one pane, from the hook process that        *)
(* reports it (crates/nysia/src/hook.rs) to the daemon's table             *)
(* (store/status.rs), the windows that watch it (rpc/agent_status.rs), and *)
(* the spool a hook falls back to when no daemon takes its report          *)
(* (rpc/spool.rs).                                                         *)
(*                                                                         *)
(* A hook is a short-lived process: it hands its event over, or gives up   *)
(* and appends a row to the pane's spool file.  The daemon serves hooks    *)
(* concurrently, may be killed or stopped at any moment, and drains the    *)
(* spool whenever it starts.  The closures a stopped daemon has on its     *)
(* blocking pool are finished before its process ends, which may be after  *)
(* the next daemon has started; the table is shared and survives all.      *)
(***************************************************************************)
EXTENDS Integers, Sequences, SequencesExt

CONSTANTS
  Hook,         \* hook processes, each reporting one event
  Agent,        \* the pane's agents
  Lead,         \* the one whose row a pane's status cannot be without
  HistoryCap,   \* AGENT_STATUS_HISTORY_CAP
  FileCap,      \* FILE_CAP_BYTES, in rows
  OutboxFrames, \* what a subscriber's outbox holds
  MaxClock,     \* bound: ticks of the machine's clock
  MaxLives      \* bound: daemons started, one after the other

NoState == "no state"   \* an event HookEvent::state maps to nothing

ASSUME StatusAssumption ==
  /\ Lead \in Agent /\ NoState \notin Agent
  /\ {HistoryCap, FileCap, OutboxFrames, MaxClock, MaxLives} \subseteq Nat \ {0}

VARIABLES
  clock,      \* what now() answers, in the hooks and in the daemon
  hook,       \* each hook process: where it is, its clock reading, whose event it
              \* reports (HookEvent::subagent), and the spool file it opened
  handler,    \* the daemon's task for its request: the row it stamped, the status it read
  life,       \* number of the last daemon started
  phase,      \* what that daemon is doing
  leftovers,  \* spool files its drain has still to read: those an earlier drain left,
  claimed,    \* and then the one it renamed itself
  page,       \* the file it has read and not yet removed, and what it read there
  hand,       \* rows it has read, removed from the spool and not yet restored
  spool,      \* every spool file ever made, by number: its name and its rows
  history,    \* the table: rows of each agent, oldest first
  outbox,     \* frames a subscribed window has not read
  subscribed,
  seen,       \* the status in the last frame that window read
  settled,    \* history variable: how often the drain dealt with each spooled row
  forfeited,  \* history variable: drained rows a crash took with it
  prompt      \* history variable: hooks that wrote while the file had the pane's own name

hookVars == <<clock, hook>>
drainVars == <<leftovers, claimed, page, hand>>
windowVars == <<outbox, subscribed, seen>>
ghostVars == <<settled, forfeited, prompt>>
vars == <<hookVars, handler, life, phase, drainVars, spool, history,
          windowVars, ghostVars>>

NoFile == 0
NoPage == [file |-> NoFile, rows |-> <<>>]
Row == [hook : Hook, at : 1..MaxClock, restored : BOOLEAN]
NoStatus == [a \in {} |-> <<>>]

AgentOf(h) == hook[h].of

-----------------------------------------------------------------------------
(* The table: Store::record_status, ::restore_status and ::status.  Each   *)
(* is one transaction.                                                     *)

Appended_ShortByOne(h, at, restored) ==
  LET a == AgentOf(h)
      longer == Append(history[a], [hook |-> h, at |-> at, restored |-> restored])
      over == Len(longer) - HistoryCap
  IN [history EXCEPT ![a] = IF over >= 0 THEN SubSeq(longer, over + 2, Len(longer))
                                         ELSE longer]

\* `insert` and `trim`: append to the agent's history and keep the newest rows.
Appended(h, at, restored) ==
  LET a == AgentOf(h)
      longer == Append(history[a], [hook |-> h, at |-> at, restored |-> restored])
      over == Len(longer) - HistoryCap
  IN [history EXCEPT ![a] = IF over > 0 THEN SubSeq(longer, over + 1, Len(longer))
                                        ELSE longer]

Superseded_IfNewer(h, at) ==
  \E i \in DOMAIN history[AgentOf(h)] :
    LET row == history[AgentOf(h)][i] IN ~row.restored /\ row.at > at

\* `live_row_at_least_as_recent`
Superseded(h, at) ==
  \E i \in DOMAIN history[AgentOf(h)] :
    LET row == history[AgentOf(h)][i] IN ~row.restored /\ row.at >= at

\* `Store::status`: the newest row of each agent, nothing before the lead's first.
Status ==
  IF history[Lead] = <<>> THEN NoStatus
  ELSE [a \in {b \in Agent : history[b] # <<>>} |-> Last(history[a])]

-----------------------------------------------------------------------------
(* The hook process: `nysia hook`.                                         *)

\* `run`: the empty decision is out; the clock is read before the hand-off.
Fire(h) ==
  /\ hook[h].pc = "idle"
  /\ \E of \in Agent \cup {NoState} :
       hook' = [hook EXCEPT ![h] = [hook[h] EXCEPT !.pc = "sending", !.at = clock, !.of = of]]
  /\ UNCHANGED <<clock, handler, life, phase, drainVars, spool, history,
                 windowVars, ghostVars>>

\* `deliver`: the request reaches a serving daemon, which spawns a task for it.
Deliver(h) ==
  /\ hook[h].pc = "sending" /\ handler[h].pc = "none" /\ phase = "serving"
  /\ handler' = [handler EXCEPT ![h] = [handler[h] EXCEPT !.pc = "queued", !.life = life]]
  /\ UNCHANGED <<hookVars, life, phase, drainVars, spool, history, windowVars,
                 ghostVars>>

\* No daemon took the event: `spool_it` refuses a hook without a pane in its
\* environment and drops an event that maps to no state.
NotTaken(h) ==
  \E pc \in {"refused", IF AgentOf(h) = NoState THEN "unmapped" ELSE "spooling"} :
    hook' = [hook EXCEPT ![h].pc = pc]

\* The daemon's answer.  An error is as good as no daemon.
Answered(h) ==
  /\ hook[h].pc = "sending" /\ handler[h].life = life /\ phase = "serving"
  /\ \/ handler[h].pc = "done" /\ hook' = [hook EXCEPT ![h].pc = "delivered"]
     \/ handler[h].pc = "failed" /\ NotTaken(h)
  /\ UNCHANGED <<clock, handler, life, phase, drainVars, spool, history,
                 windowVars, ghostVars>>

\* No connection, a broken one, or HAND_OFF_TIMEOUT: at any moment, whatever the
\* daemon goes on to do with the request.
GiveUp(h) ==
  /\ hook[h].pc = "sending" /\ NotTaken(h)
  /\ UNCHANGED <<clock, handler, life, phase, drainVars, spool, history,
                 windowVars, ghostVars>>

Spooled == {f \in DOMAIN spool : spool[f].name = "spooled"}

\* `append`, up to opening the pane's file: at its cap it is refused, and absent
\* it is created.
OpenSpool(h) ==
  /\ hook[h].pc = "spooling"
  /\ \/ /\ \E f \in Spooled : Len(spool[f].rows) >= FileCap
        /\ hook' = [hook EXCEPT ![h].pc = "refused"]
        /\ UNCHANGED spool
     \/ \E f \in Spooled :
          /\ Len(spool[f].rows) < FileCap
          /\ hook' = [hook EXCEPT ![h] = [hook[h] EXCEPT !.pc = "appending", !.file = f]]
          /\ UNCHANGED spool
     \/ /\ Spooled = {}
        /\ spool' = Append(spool, [name |-> "spooled", rows |-> <<>>])
        /\ hook' = [hook EXCEPT ![h] = [hook[h] EXCEPT !.pc = "appending",
                                                       !.file = Len(spool) + 1]]
  /\ UNCHANGED <<clock, handler, life, phase, drainVars, history, windowVars,
                 ghostVars>>

\* `append`, the one write, to the file that was opened whatever has become of it.
WriteSpool(h) ==
  /\ hook[h].pc = "appending"
  /\ LET f == hook[h].file IN
     /\ spool' = IF spool[f].name = "gone" THEN spool
                 ELSE [spool EXCEPT ![f].rows = Append(spool[f].rows, h)]
     /\ prompt' = IF spool[f].name = "spooled" THEN prompt \cup {h} ELSE prompt
  /\ hook' = [hook EXCEPT ![h].pc = "spooled"]
  /\ UNCHANGED <<clock, handler, life, phase, drainVars, history, windowVars,
                 settled, forfeited>>

-----------------------------------------------------------------------------
(* The daemon's task for a hook: the AgentHook arm of `run`.               *)

\* `ingest_pane` refuses a caller outside the daemon's sessions; `record` stamps
\* the row with the daemon's clock, or finds there is none to make.
Stamp(h) ==
  /\ handler[h].pc = "queued" /\ handler[h].life = life /\ phase = "serving"
  /\ \/ handler' = [handler EXCEPT ![h].pc = "failed"]
     \/ AgentOf(h) = NoState /\ handler' = [handler EXCEPT ![h].pc = "done"]
     \/ /\ AgentOf(h) # NoState
        /\ handler' = [handler EXCEPT ![h] = [handler[h] EXCEPT !.pc = "stamped", !.at = clock]]
  /\ UNCHANGED <<hookVars, life, phase, drainVars, spool, history, windowVars,
                 ghostVars>>

\* `Store::record_status`, which may fail and then has written nothing.
Record(h) ==
  /\ handler[h].pc = "stamped"
  /\ \/ /\ history' = Appended(h, handler[h].at, FALSE)
        /\ handler' = [handler EXCEPT ![h].pc = "recorded"]
     \/ handler' = [handler EXCEPT ![h].pc = "failed"] /\ UNCHANGED history
  /\ UNCHANGED <<hookVars, life, phase, drainVars, spool, windowVars, ghostVars>>

\* `change`: the pane's status is read back in a transaction of its own, which
\* may fail after the row was written.
ReadBack(h) ==
  /\ handler[h].pc = "recorded"
  /\ \E pc \in {"failed", IF Status = NoStatus THEN "done" ELSE "read"} :
       handler' = [handler EXCEPT ![h] =
         [handler[h] EXCEPT !.pc = pc,
                            !.status = IF pc = "read" THEN Status ELSE NoStatus]]
  /\ UNCHANGED <<hookVars, life, phase, drainVars, spool, history, windowVars,
                 ghostVars>>

\* `broadcast`: what the outbox of this daemon's subscriber cannot take is dropped.
Broadcast(h) ==
  /\ handler[h].pc = "read"
  /\ handler' = [handler EXCEPT ![h] = [handler[h] EXCEPT !.pc = "done", !.status = NoStatus]]
  /\ outbox' = IF handler[h].life = life /\ subscribed /\ Len(outbox) < OutboxFrames
               THEN Append(outbox, handler[h].status) ELSE outbox
  /\ UNCHANGED <<hookVars, life, phase, drainVars, spool, history, subscribed,
                 seen, ghostVars>>

\* A window subscribes, leaves (`unsubscribe`, `forget_connection`), or reads.
Subscribe ==
  /\ phase = "serving" /\ ~subscribed /\ subscribed' = TRUE
  /\ seen' = NoStatus
  /\ UNCHANGED <<hookVars, handler, life, phase, drainVars, spool, history,
                 outbox, ghostVars>>

Leave ==
  /\ subscribed /\ subscribed' = FALSE /\ outbox' = <<>>
  /\ UNCHANGED <<hookVars, handler, life, phase, drainVars, spool, history,
                 seen, ghostVars>>

ReadFrame ==
  /\ outbox # <<>> /\ outbox' = Tail(outbox) /\ seen' = Head(outbox)
  /\ UNCHANGED <<hookVars, handler, life, phase, drainVars, spool, history,
                 subscribed, ghostVars>>

-----------------------------------------------------------------------------
(* The daemon starting: Daemon::bind and drain_spool.                      *)

Start ==
  /\ phase = "down" /\ life < MaxLives
  /\ life' = life + 1 /\ phase' = "bound"
  /\ UNCHANGED <<hookVars, handler, drainVars, spool, history, windowVars,
                 ghostVars>>

Draining == {f \in DOMAIN spool : spool[f].name = "draining"}

Renamed(files) ==
  [f \in DOMAIN spool |-> IF f \in files
                         THEN [name |-> "draining", rows |-> spool[f].rows]
                         ELSE spool[f]]

Claim_FixedName ==
  /\ phase = "bound" /\ phase' = "draining"
  /\ leftovers' = IF Spooled = {} THEN Draining ELSE {}
  /\ claimed' = Spooled
  /\ spool' = [f \in DOMAIN spool |->
                IF Spooled # {} /\ f \in Draining THEN [name |-> "gone", rows |-> <<>>]
                ELSE Renamed(Spooled)[f]]
  /\ UNCHANGED <<hookVars, handler, life, page, hand, history, windowVars,
                 ghostVars>>

\* The first loop of `drain`: what an earlier drain left behind, and the pane's
\* file, renamed to a name of its own unless the rename fails.
Claim ==
  /\ phase = "bound" /\ phase' = "draining"
  /\ leftovers' = Draining
  /\ claimed' \in {Spooled, {}}
  /\ spool' = Renamed(claimed')
  /\ UNCHANGED <<hookVars, handler, life, page, hand, history, windowVars,
                 ghostVars>>

\* The second loop: each file is read, then removed, and only then are its rows
\* taken.  One that cannot be read or removed is left for the next start.
Due == IF leftovers # {} THEN leftovers ELSE claimed

DoneWith(f) ==
  /\ page' = NoPage
  /\ leftovers' = leftovers \ {f} /\ claimed' = claimed \ {f}

ReadFile ==
  /\ page = NoPage
  /\ \E f \in Due : page' = [file |-> f, rows |-> spool[f].rows]
  /\ UNCHANGED <<hookVars, handler, life, phase, leftovers, claimed, hand, spool,
                 history, windowVars, ghostVars>>

\* A drain that removes a file only once its rows are applied.
RemoveFile_Later ==
  /\ page # NoPage /\ DoneWith(page.file)
  /\ hand' = hand \o page.rows
  /\ UNCHANGED <<hookVars, handler, life, phase, spool, history, windowVars,
                 ghostVars>>

RemoveFile ==
  /\ page # NoPage /\ DoneWith(page.file)
  /\ spool' = [spool EXCEPT ![page.file] = [name |-> "gone", rows |-> <<>>]]
  /\ hand' = hand \o page.rows
  /\ UNCHANGED <<hookVars, handler, life, phase, history, windowVars, ghostVars>>

SkipFile ==
  /\ \E f \in Due : (page # NoPage => f = page.file) /\ DoneWith(f)
  /\ UNCHANGED <<hookVars, handler, life, phase, hand, spool, history,
                 windowVars, ghostVars>>

\* The clock reading a restored row carries: the hook's own.
RestoredAt(h) == hook[h].at

\* `restore`: each row is superseded, appended, or refused by the table.
RestoreRow ==
  /\ phase = "draining" /\ Due = {} /\ hand # <<>>
  /\ LET h == Head(hand) IN
     /\ \/ UNCHANGED history
        \/ ~Superseded(h, RestoredAt(h)) /\ history' = Appended(h, RestoredAt(h), TRUE)
     /\ settled' = [settled EXCEPT ![h] = @ + 1]
  /\ hand' = Tail(hand)
  /\ UNCHANGED <<hookVars, handler, life, phase, leftovers, claimed, page, spool,
                 windowVars, forfeited, prompt>>

\* The lease is written and the accept loop starts.
Serve ==
  /\ phase = "draining" /\ Due = {} /\ hand = <<>>
  /\ phase' = "serving"
  /\ UNCHANGED <<hookVars, handler, life, drainVars, spool, history, windowVars,
                 ghostVars>>

-----------------------------------------------------------------------------
(* The daemon ending.                                                      *)

\* The tasks of this daemon that stop with it.
Ended(pcs) ==
  [h \in Hook |-> IF handler[h].life = life /\ handler[h].pc \in pcs
                  THEN [handler[h] EXCEPT !.pc = "dropped", !.status = NoStatus]
                  ELSE handler[h]]

EndWindow == subscribed' = FALSE /\ outbox' = <<>> /\ UNCHANGED seen

\* Interrupted or retired: the runtime finishes what its blocking pool is running
\* and drops what it is not.
Stop ==
  /\ phase = "serving" /\ phase' = "down"
  /\ handler' = Ended({"queued"}) /\ EndWindow
  /\ UNCHANGED <<hookVars, life, drainVars, spool, history, ghostVars>>

Crash ==
  /\ phase # "down" /\ phase' = "down"
  /\ handler' = Ended({"queued", "stamped", "recorded", "read"}) /\ EndWindow
  /\ leftovers' = {} /\ claimed' = {} /\ page' = NoPage /\ hand' = <<>>
  /\ forfeited' = forfeited \cup ToSet(hand)
  /\ UNCHANGED <<hookVars, life, spool, history, settled, prompt>>

\* Time, for every process on the machine.
Tick ==
  /\ clock < MaxClock /\ clock' = clock + 1
  /\ UNCHANGED <<hook, handler, life, phase, drainVars, spool, history,
                 windowVars, ghostVars>>

-----------------------------------------------------------------------------
Init ==
  /\ clock = 1
  /\ hook = [h \in Hook |-> [pc |-> "idle", at |-> 1, of |-> NoState, file |-> NoFile]]
  /\ handler = [h \in Hook |-> [pc |-> "none", at |-> 1, life |-> 0, status |-> NoStatus]]
  /\ life = 0 /\ phase = "down"
  /\ leftovers = {} /\ claimed = {} /\ page = NoPage /\ hand = <<>>
  /\ spool = <<>> /\ history = [a \in Agent |-> <<>>]
  /\ outbox = <<>> /\ subscribed = FALSE /\ seen = NoStatus
  /\ settled = [h \in Hook |-> 0] /\ forfeited = {} /\ prompt = {}

HookStep(h) == Fire(h) \/ Deliver(h) \/ Answered(h) \/ GiveUp(h) \/ OpenSpool(h) \/ WriteSpool(h)
TaskStep(h) == Stamp(h) \/ Record(h) \/ ReadBack(h) \/ Broadcast(h)
WindowStep == Subscribe \/ Leave \/ ReadFrame
DaemonStep == Start \/ Claim \/ ReadFile \/ RemoveFile \/ SkipFile \/ RestoreRow
              \/ Serve \/ Stop \/ Crash

Next ==
  \/ \E h \in Hook : HookStep(h) \/ TaskStep(h)
  \/ WindowStep \/ DaemonStep \/ Tick

Spec == Init /\ [][Next]_vars

-----------------------------------------------------------------------------
\* Every variable stays in its type, and no agent's history outgrows its cap.
StatusTypeOK ==
  /\ clock \in 1..MaxClock
  /\ \A h \in Hook :
       /\ hook[h].pc \in {"idle", "sending", "spooling", "appending", "delivered",
                          "spooled", "refused", "unmapped"}
       /\ hook[h].at \in 1..MaxClock /\ AgentOf(h) \in Agent \cup {NoState}
       /\ hook[h].file \in 0..Len(spool)
       /\ handler[h].pc \in {"none", "queued", "stamped", "recorded", "read", "done",
                             "failed", "dropped"}
       /\ handler[h].at \in 1..MaxClock /\ handler[h].life \in 0..life
  /\ life \in 0..MaxLives /\ phase \in {"down", "bound", "draining", "serving"}
  /\ leftovers \cup claimed \subseteq DOMAIN spool /\ page.file \in 0..Len(spool)
  /\ page.rows \in Seq(Hook) /\ hand \in Seq(Hook)
  /\ spool \in Seq([name : {"spooled", "draining", "gone"}, rows : Seq(Hook)])
  /\ history \in [Agent -> Seq(Row)]
  /\ \A a \in Agent : Len(history[a]) <= HistoryCap
  /\ settled \in [Hook -> Nat] /\ forfeited \subseteq Hook /\ prompt \subseteq Hook

\* A status restored from the spool never stands above a live one that is at
\* least as recent, whatever was recorded, restored or trimmed in between
\* (`restore_status`; section 2.3's "never counts as fresh").
RestoredYieldsToLive ==
  \A a \in Agent : \A i, j \in DOMAIN history[a] :
    i < j /\ history[a][j].restored /\ ~history[a][i].restored
      => history[a][j].at > history[a][i].at

\* A hook that gave up on a report the daemon recorded after all has spooled it
\* too.  The next daemon recognises it: it never restores a status above the very
\* row it is a copy of, because a spooled row keeps the clock of the hook.
NoEcho ==
  \A a \in Agent : \A i, j \in DOMAIN history[a] :
    i < j /\ history[a][j].restored /\ ~history[a][i].restored
      => history[a][j].hook # history[a][i].hook

\* The table as `restore_status` and `record` leave it, and everything around it.
HistorySound == StatusTypeOK /\ RestoredYieldsToLive /\ NoEcho

\* A spooled row is handed to the table at most once, over any number of starts
\* and crashes: restoring is not idempotent (spool.rs, "deletes before it applies").
HandedOverOnce == \A h \in Hook : settled[h] <= 1

\* What a hook was told the daemon has is in the table, whatever became of the
\* daemon since, until newer reports of the same agent have filled its history.
DeliveredIsKept ==
  \A h \in Hook : hook[h].pc = "delivered" /\ AgentOf(h) # NoState =>
    \/ \E i \in DOMAIN history[AgentOf(h)] : history[AgentOf(h)][i].hook = h
    \/ Len(history[AgentOf(h)]) = HistoryCap

\* The row of a hook is in a file, in the hands of a drain or dealt with, or a crash
\* took it from the drain that held it.
RowKept(h) ==
  \/ \E f \in DOMAIN spool : h \in ToSet(spool[f].rows)
  \/ h \in ToSet(hand) \/ settled[h] > 0 \/ h \in forfeited

\* A row written while the file still had the pane's own name is not lost: by no
\* rename that fails, leftover of an earlier drain, file read and not removed, or
\* restart, and by a crash only out of the hands of a drain (`drain`, "Claimed
\* first, read second").
PromptIsKept == \A h \in prompt : RowKept(h)

\* spool.rs: "no line can arrive after its file was read and before it was
\* unlinked", so that none is lost there.
NothingVanishes == \A h \in Hook : hook[h].pc = "spooled" => RowKept(h)

\* agent_status.rs: "a subscriber that missed one is correct again at the next
\* one".  With nothing under way and its outbox empty, a window that has been sent
\* a status shows the pane's.
WindowCatchesUp ==
  (/\ subscribed /\ outbox = <<>> /\ seen # NoStatus
   /\ \A h \in Hook : handler[h].pc \in {"none", "done"})
    => seen = Status
=============================================================================
