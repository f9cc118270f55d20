------------------------- MODULE PtySession_proofs -------------------------
(***************************************************************************)
(* Proofs about PtySession, for any number of processes and chunks.        *)
(*                                                                         *)
(* What outlives the kill was forked after the tree was last collected, or *)
(* could not be traced then: every live process of which that is not so is *)
(* in the sets still to be killed (KillInOrder), because a collection has  *)
(* every process whose way up to the session is whole (CollectionIsWhole). *)
(* And the three buffers hand the chunks on as one conduit does.           *)
(***************************************************************************)
EXTENDS PtySession, FiniteSetTheorems, SequenceTheorems, TLAPS

ProcsTyped ==
  /\ os \in Platforms
  /\ proc \in [Procs -> {"none", "live", "zombie", "gone"}]
  /\ parent \in [Procs -> Procs \cup {Nobody}]
  /\ {group, member, foreign, escaped, fresh, refused, tree, late} \subseteq SUBSET Procs

ThreadsTyped ==
  /\ reader \in {"reading", "sending", "done"}
  /\ consumer \in {"none", "takes", "replies", "gone"}
  /\ client \in {"idle", "writes"}
  /\ lock \in {"free", "consumer", "client"}
  /\ waiter \in {"none", "waiting", "done"}
  /\ closer \in Closers
  /\ master \in {"open", "closing", "closed"}
  /\ {discarding, heard, exit, closing, writer} \subseteq BOOLEAN

ChunksTyped ==
  /\ written \in 0..MaxChunks /\ read \in 0..written
  /\ queue \in Seq(1..read) /\ Len(queue) <= QueueMax
  /\ got \in 0..read
  /\ master = "open" => written < MaxChunks

\* A process' parent in the table is alive.
ParentsLive == \A p \in Procs : parent[p] \in Live \cup {Nobody}

\* The reader's chunk is the last one read; at the end of the output nothing can
\* be written any more, and the end is heard when everything has been taken.
ChunksInOrder ==
  /\ hand = IF reader = "sending" THEN {read} ELSE {}
  /\ reader = "sending" => read > 0
  /\ discarding => consumer = "gone" /\ reader # "sending"
  /\ reader = "done" => read = written /\ IF os = "unix" THEN Live = {} ELSE master = "closed"
  /\ heard => reader = "done" /\ queue = <<>>

\* It is the consumer that is writing who holds the lock for it.
ConsumerInOrder ==
  /\ lock = "consumer" => consumer = "replies"
  /\ closer = "spawning" => consumer = "none"

Killing == closer \in Closers \ {"spawning", "open", "master", "failed"}
           \/ (closer = "master" /\ waiter # "none")

Escaping == fresh \cup escaped \cup refused

\* Every live process is in a set that is still to be killed, or has escaped.
KillInOrder ==
  /\ Killing => closing
  /\ waiter = "none" => closer \in {"spawning", "master", "failed"}
  /\ closer = "spawning" => waiter = "none"
  /\ os = "unix" /\ Killing =>
       /\ closer \in {"term", "grace"} => Live \subseteq tree \cup Escaping
       /\ closer = "killtree" => Live \subseteq tree \cup late \cup Escaping
       /\ closer = "killlate" => Live \subseteq late \cup Escaping
       /\ closer \in {"exit", "writer", "master", "reader", "waiter", "done"} =>
            Live \subseteq Escaping

PtyInv ==
  /\ ProcsTyped /\ ThreadsTyped /\ ChunksTyped
  /\ ParentsLive /\ ChunksInOrder /\ ConsumerInOrder /\ KillInOrder

-----------------------------------------------------------------------------
\* The process table.

\* `collect_tree` finds every live process but the untraceable ones.
LEMMA CollectionIsWhole ==
  ASSUME ProcsTyped, ParentsLive
  PROVE  CollectTree \subseteq Procs /\ Live \subseteq CollectTree \cup Untraceable
<1> DEFINE table == {p \in Procs : proc[p] \in {"live", "zombie"}}
<1> DEFINE Grown(found) == /\ {Leader} \cup (table \cap member) \subseteq found
                           /\ \A p \in table : parent[p] \in found => p \in found
<1> DEFINE Climbs(line, p) == p \in line /\ \A q \in line : parent[q] \in line \cup {Nobody}
<1>1. CollectTree = {p \in Procs : \A found \in SUBSET Procs : Grown(found) => p \in found}
  BY Zenon DEF CollectTree
<1>2. SUFFICES ASSUME NEW p \in Live, p \notin CollectTree
               PROVE  Lineage(p) \cap member = {}
  BY <1>1, Zenon DEF Untraceable
<1>3. PICK found \in SUBSET Procs : Grown(found) /\ p \notin found
  BY <1>1, <1>2 DEF Live
<1> DEFINE line == table \ found
<1>4. line \in SUBSET Procs
  OBVIOUS
<1>5. p \in line
  BY <1>2, <1>3 DEF Live
<1>6. ASSUME NEW q \in line PROVE parent[q] \in line \cup {Nobody}
  <2>1. parent[q] \in table \cup {Nobody}
    BY DEF ParentsLive, Live
  <2> QED BY <1>3, <2>1
<1>7. Climbs(line, p)
  BY <1>5, <1>6
<1>8. Lineage(p) \subseteq line
  <2>1. Lineage(p) = {q \in Procs : \A l \in SUBSET Procs : Climbs(l, p) => q \in l}
    BY Zenon DEF Lineage
  <2> HIDE DEF Climbs, line
  <2> QED BY <1>4, <1>7, <2>1
<1> QED BY <1>3, <1>8

\* The dead are no longer live, and no parent is left dead.
LEMMA DiesEffect ==
  ASSUME ProcsTyped, ParentsLive, NEW dead, Dies(dead)
  PROVE  /\ proc' \in [Procs -> {"none", "live", "zombie", "gone"}]
         /\ parent' \in [Procs -> Procs \cup {Nobody}]
         /\ Live' = Live \ dead
         /\ ParentsLive'
         /\ UNCHANGED <<os, group, member, foreign>>
<1>1. /\ proc' \in [Procs -> {"none", "live", "zombie", "gone"}]
      /\ parent' \in [Procs -> Procs \cup {Nobody}]
  BY DEF Dies, ProcsTyped
<1>2. Live' = Live \ dead
  BY DEF Dies, ProcsTyped, Live
<1>3. ASSUME NEW p \in Procs PROVE parent'[p] \in Live' \cup {Nobody}
  <2>1. parent'[p] = IF parent[p] \in dead THEN Nobody ELSE parent[p]
    BY DEF Dies
  <2> QED BY <1>2, <2>1 DEF ParentsLive
<1> QED BY <1>1, <1>2, <1>3 DEF Dies, ParentsLive

\* Only those who refuse live on.
LEMMA KilledEffect ==
  ASSUME ProcsTyped, ParentsLive, NEW sent, Killed(sent)
  PROVE  /\ proc' \in [Procs -> {"none", "live", "zombie", "gone"}]
         /\ parent' \in [Procs -> Procs \cup {Nobody}]
         /\ Live' \subseteq Live /\ Live' \cap sent \subseteq foreign
         /\ ParentsLive'
         /\ UNCHANGED <<os, group, member, foreign>>
<1>1. Dies(sent \ foreign)
  BY DEF Killed
<1>2. Live' = Live \ (sent \ foreign)
  BY <1>1, DiesEffect
<1> QED BY <1>1, <1>2, DiesEffect

-----------------------------------------------------------------------------
\* Every step keeps the invariant.

\* The leader's waiter takes nothing from the picture of who is alive.
LEMMA SameLive ==
  ASSUME UNCHANGED proc
  PROVE  Live' = Live
BY DEF Live

LEMMA Initially == Init => PtyInv
<1> SUFFICES ASSUME Init PROVE PtyInv
  OBVIOUS
<1> USE PtyAssumption
<1>1. ProcsTyped
  BY DEF Init, ProcsTyped
<1>2. ThreadsTyped
  BY DEF Init, ThreadsTyped, Closers
<1>3. ChunksTyped
  BY DEF Init, ChunksTyped
<1>4. ParentsLive
  BY DEF Init, ParentsLive
<1>5. ChunksInOrder
  BY DEF Init, ChunksInOrder
<1>6. KillInOrder
  BY DEF Init, KillInOrder, Killing, Closers
<1>7. ConsumerInOrder
  BY DEF Init, ConsumerInOrder
<1> QED BY <1>1, <1>2, <1>3, <1>4, <1>5, <1>6, <1>7 DEF PtyInv

\* The processes: those that are new were forked since the last collection.
LEMMA ProcessKeeps ==
  ASSUME PtyInv, NEW p \in Procs, Fork(p) \/ Setsid(p) \/ ChangesUser(p) \/ Exits(p) \/ Reap(p) \/ Waits
  PROVE  PtyInv'
<1> USE DEF PtyInv
<1>1. /\ UNCHANGED <<written, queue, readVars, takeVars, inputVars, closeVars, os, escaped, refused>>
      /\ waiter' = "none" <=> waiter = "none"
      /\ waiter' \in {"none", "waiting", "done"} /\ exit' \in BOOLEAN
  BY DEF Fork, Setsid, ChangesUser, Exits, Reap, Waits, Dies, histVars, waitVars, ThreadsTyped
<1>2. /\ proc' \in [Procs -> {"none", "live", "zombie", "gone"}]
      /\ parent' \in [Procs -> Procs \cup {Nobody}]
      /\ {group', member', foreign', fresh'} \subseteq SUBSET Procs
      /\ Live = {} => Live' = {}
      /\ closing => Live' \cup fresh' \subseteq Live \cup fresh' /\ fresh \subseteq fresh'
      /\ ParentsLive'
  <2>1. CASE Fork(p)
    <3>1. PICK q \in Procs, own \in BOOLEAN :
            /\ proc[p] = "live" /\ proc[q] = "none"
            /\ proc' = [proc EXCEPT ![q] = "live"]
            /\ parent' = [parent EXCEPT ![q] = p]
            /\ group' = IF p \in group /\ ~own THEN group \cup {q} ELSE group
            /\ member' = IF p \in member THEN member \cup {q} ELSE member
            /\ foreign' = IF p \in foreign THEN foreign \cup {q} ELSE foreign
            /\ fresh' = IF closing THEN fresh \cup {q} ELSE fresh
      BY <2>1 DEF Fork
    <3>2. Live' = Live \cup {q} /\ p \in Live
      BY <3>1 DEF Live, ProcsTyped
    <3>3. ParentsLive'
      BY <3>1, <3>2 DEF ParentsLive, ProcsTyped
    <3> QED BY <3>1, <3>2, <3>3 DEF ProcsTyped
  <2>2. CASE Setsid(p)
    <3>1. Live' = Live
      BY <2>2, SameLive DEF Setsid
    <3> QED BY <2>2, <3>1 DEF Setsid, ProcsTyped, ParentsLive, histVars
  <2>3. CASE Exits(p)
    BY <2>3, DiesEffect DEF Exits, ProcsTyped, histVars
  <2>4. CASE Reap(p)
    <3>1. Live' = Live
      BY <2>4 DEF Reap, Live, ProcsTyped
    <3> QED BY <2>4, <3>1 DEF Reap, ProcsTyped, ParentsLive, histVars
  <2>5. CASE Waits
    <3>1. Live' = Live
      BY <2>5, PtyAssumption DEF Waits, Live, ProcsTyped
    <3> QED BY <2>5, <3>1, PtyAssumption DEF Waits, ProcsTyped, ParentsLive, histVars
  <2>6. CASE ChangesUser(p)
    <3>1. Live' = Live
      BY <2>6, SameLive DEF ChangesUser
    <3> QED BY <2>6, <3>1 DEF ChangesUser, ProcsTyped, ParentsLive, histVars
  <2> QED BY <2>1, <2>2, <2>3, <2>4, <2>5, <2>6
<1>3. ProcsTyped'
  BY <1>1, <1>2 DEF ProcsTyped, closeVars
<1>4. ThreadsTyped'
  BY <1>1 DEF ThreadsTyped, readVars, takeVars, inputVars, closeVars
<1>5. ChunksTyped'
  BY <1>1 DEF ChunksTyped, readVars, takeVars, closeVars
<1>6. ChunksInOrder'
  BY <1>1, <1>2 DEF ChunksInOrder, readVars, takeVars, closeVars
<1>7. KillInOrder'
  <2>1. Killing' = Killing
    BY <1>1 DEF Killing, closeVars
  <2>2. closing => Live' \subseteq Live \cup fresh' /\ Escaping \subseteq Escaping' /\ fresh' \subseteq Escaping'
    BY <1>1, <1>2 DEF Escaping
  <2> QED BY <1>1, <2>1, <2>2 DEF KillInOrder, closeVars
<1>8. ConsumerInOrder'
  BY <1>1 DEF ConsumerInOrder, takeVars, inputVars, closeVars
<1> QED BY <1>2, <1>3, <1>4, <1>5, <1>6, <1>7, <1>8

\* The writers of the pty.
LEMMA WriterKeeps ==
  ASSUME PtyInv, NEW who \in {"consumer", "client"},
         Reply \/ ClientWrites \/ Locks(who) \/ Unlocks
  PROVE  PtyInv'
<1> USE DEF PtyInv
<1>1. /\ UNCHANGED <<procVars, histVars, written, queue, readVars, got, heard, waitVars, closeVars>>
      /\ consumer' \in {"none", "takes", "replies", "gone"}
      /\ client' \in {"idle", "writes"} /\ lock' \in {"free", "consumer", "client"}
      /\ consumer = "gone" <=> consumer' = "gone"
      /\ ConsumerInOrder'
  BY DEF Reply, ClientWrites, Locks, Unlocks, ThreadsTyped, ConsumerInOrder, takeVars, inputVars, closeVars
<1>2. Live' = Live
  BY <1>1, SameLive DEF procVars
<1>3. ProcsTyped' /\ ParentsLive'
  BY <1>1, <1>2 DEF ProcsTyped, ParentsLive, procVars, histVars, closeVars
<1>4. ThreadsTyped'
  BY <1>1 DEF ThreadsTyped, readVars, waitVars, closeVars
<1>5. ChunksTyped'
  BY <1>1 DEF ChunksTyped, readVars, closeVars
<1>6. ChunksInOrder'
  BY <1>1, <1>2 DEF ChunksInOrder, readVars, closeVars, procVars
<1>7. KillInOrder'
  BY <1>1, <1>2 DEF KillInOrder, Killing, Escaping, waitVars, closeVars, procVars, histVars
<1> QED BY <1>1, <1>3, <1>4, <1>5, <1>6, <1>7

\* The chunks on their way.
LEMMA ChunkKeeps ==
  ASSUME PtyInv, Write \/ Reader \/ Take \/ HearEof \/ Leave \/ CloseConsole
  PROVE  PtyInv'
<1> USE DEF PtyInv
<1>1. /\ UNCHANGED <<procVars, histVars, inputVars, waitVars, closing, closer, tree, late, writer>>
      /\ consumer = "gone" => consumer' = "gone"
      /\ ConsumerInOrder'
  BY DEF Write, Reader, Read, ReadEof, SendChunk, Take, HearEof, Leave, CloseConsole,
         ConsumerInOrder, closeVars, takeVars, inputVars
<1>2. Live' = Live
  BY <1>1, SameLive DEF procVars
<1>3. ProcsTyped' /\ ParentsLive'
  BY <1>1, <1>2 DEF ProcsTyped, ParentsLive, procVars, histVars
<1>4. ThreadsTyped'
  BY <1>1 DEF ThreadsTyped, Write, Reader, Read, ReadEof, SendChunk, Take, HearEof, Leave,
              CloseConsole, closeVars, takeVars, readVars, waitVars, inputVars
<1>5. KillInOrder'
  BY <1>1, <1>2 DEF KillInOrder, Killing, Escaping, waitVars, procVars, histVars
<1>6. ChunksTyped' /\ ChunksInOrder'
  <2> USE PtyAssumption DEF ChunksTyped, ChunksInOrder
  <2>0. queue \in Seq(1..read) /\ Len(queue) \in Nat /\ written \in Nat /\ read \in Nat
    BY LenProperties
  <2>1. CASE Write
    BY <1>2, <2>0, <2>1 DEF Write, procVars, readVars, takeVars, closeVars
  <2>2. CASE Read
    <3>1. read' = read + 1 /\ read < written /\ written' = written
      BY <2>2 DEF Read
    <3>2. queue' \in Seq(1..read')
      BY <2>0, <2>2, <3>1, SeqMonotonic, 1..read \subseteq 1..read' DEF Read
    <3> QED BY <1>2, <2>0, <2>2, <3>1, <3>2 DEF Read, procVars, takeVars, closeVars
  <2>3. CASE ReadEof
    BY <1>2, <2>0, <2>3 DEF ReadEof, procVars, takeVars, closeVars
  <2>4. CASE SendChunk
    <3>1. Append(queue, read) \in Seq(1..read) /\ Len(Append(queue, read)) = Len(queue) + 1
      BY <2>0, <2>4, AppendProperties, read \in 1..read DEF SendChunk
    <3>2. /\ read' = read
          /\ queue' = queue \/ (queue' = Append(queue, read) /\ Len(queue) < QueueMax)
      BY <2>4 DEF SendChunk
    <3>3. queue' \in Seq(1..read') /\ Len(queue') <= QueueMax
      <4>1. CASE queue' = queue
        BY <2>0, <3>2, <4>1
      <4>2. CASE queue' = Append(queue, read) /\ Len(queue) < QueueMax
        <5>1. Len(queue') = Len(queue) + 1 /\ QueueMax \in Nat
          BY <3>1, <4>2
        <5> QED BY <2>0, <3>1, <3>2, <4>2, <5>1
      <4> QED BY <3>2, <4>1, <4>2
    <3>4. ~heard
      BY <2>4 DEF SendChunk
    <3> QED BY <1>2, <2>0, <2>4, <3>3, <3>4 DEF SendChunk, procVars, takeVars, closeVars
  <2>5. CASE Take
    <3>1. Head(queue) \in 1..read /\ Tail(queue) \in Seq(1..read) /\ Len(Tail(queue)) = Len(queue) - 1
      BY <2>0, <2>5, HeadTailProperties DEF Take
    <3>2. ~heard
      BY <2>5 DEF Take
    <3> QED BY <1>2, <2>0, <2>5, <3>1, <3>2 DEF Take, procVars, readVars, closeVars
  <2>6. CASE HearEof
    BY <1>2, <2>0, <2>6 DEF HearEof, procVars, readVars, closeVars
  <2>7. CASE Leave
    <3>1. <<>> \in Seq(1..read) /\ Len(<<>>) = 0
      BY EmptySeq
    <3> QED BY <1>2, <2>0, <2>7, <3>1 DEF Leave, procVars, readVars, closeVars
  <2>8. CASE CloseConsole
    BY <1>2, <2>0, <2>8 DEF CloseConsole, procVars, readVars, takeVars
  <2> QED BY <2>1, <2>2, <2>3, <2>4, <2>5, <2>6, <2>7, <2>8 DEF Reader
<1> QED BY <1>1, <1>3, <1>4, <1>5, <1>6

\* `spawn` that completes, or fails, and the beginning of `shutdown`.
LEMMA SpawnKeeps ==
  ASSUME PtyInv, SpawnCompletes \/ SpawnFails \/ Begin
  PROVE  PtyInv'
<1> USE DEF PtyInv
<1>1. CASE SpawnCompletes
  <2>1. Live' = Live
    BY <1>1, SameLive DEF SpawnCompletes, procVars
  <2>2. ProcsTyped' /\ ParentsLive'
    BY <1>1, <2>1 DEF SpawnCompletes, ProcsTyped, ParentsLive, procVars, histVars
  <2>3. ThreadsTyped' /\ ConsumerInOrder'
    BY <1>1 DEF SpawnCompletes, Goes, ThreadsTyped, ConsumerInOrder, Closers, readVars, inputVars
  <2>4. ChunksTyped' /\ ChunksInOrder'
    BY <1>1, <2>1 DEF SpawnCompletes, ChunksTyped, ChunksInOrder, ConsumerInOrder, Goes, readVars, procVars
  <2>5. KillInOrder'
    BY <1>1 DEF SpawnCompletes, Goes, KillInOrder, Killing
  <2> QED BY <2>2, <2>3, <2>4, <2>5
<1>2. CASE SpawnFails
  <2>2. /\ proc' \in [Procs -> {"none", "live", "zombie", "gone"}]
        /\ parent' \in [Procs -> Procs \cup {Nobody}]
        /\ Live' \subseteq Live
        /\ ParentsLive'
        /\ UNCHANGED <<os, group, member, foreign>>
    BY <1>2, KilledEffect DEF SpawnFails
  <2>3. ProcsTyped'
    BY <1>2, <2>2 DEF SpawnFails, ProcsTyped, histVars
  <2>4. ThreadsTyped' /\ ConsumerInOrder'
    BY <1>2 DEF SpawnFails, Goes, ThreadsTyped, ConsumerInOrder, Closers, readVars, inputVars, waitVars
  <2>5. ChunksTyped' /\ ChunksInOrder'
    <3>1. <<>> \in Seq(1..read) /\ Len(<<>>) = 0
      BY EmptySeq
    <3> QED BY <1>2, <2>2, <3>1, PtyAssumption
            DEF SpawnFails, ChunksTyped, ChunksInOrder, readVars
  <2>6. KillInOrder'
    BY <1>2 DEF SpawnFails, Goes, KillInOrder, Killing, waitVars
  <2> QED BY <2>2, <2>3, <2>4, <2>5, <2>6
<1>3. CASE Begin
  <2>1. Live' = Live
    BY <1>3, SameLive DEF Begin, procVars
  <2>2. ProcsTyped' /\ ParentsLive'
    BY <1>3, <2>1 DEF Begin, ProcsTyped, ParentsLive, procVars, histVars
  <2>3. ThreadsTyped' /\ ConsumerInOrder'
    BY <1>3 DEF Begin, Goes, ThreadsTyped, ConsumerInOrder, Closers, readVars, inputVars, takeVars, waitVars
  <2>4. ChunksTyped' /\ ChunksInOrder'
    BY <1>3, <2>1 DEF Begin, ChunksTyped, ChunksInOrder, readVars, procVars, takeVars
  <2>5. KillInOrder'
    BY <1>3 DEF Begin, Goes, KillInOrder, Killing, waitVars
  <2> QED BY <2>2, <2>3, <2>4, <2>5
<1> QED BY <1>1, <1>2, <1>3

\* What a step of `shutdown` leaves alone, the kill apart.
Aside == UNCHANGED <<os, written, queue, readVars, takeVars, inputVars, waitVars, closing>>

\* The steps of the kill.
LEMMA KillKeeps ==
  ASSUME PtyInv,
         TerminateJob \/ Collect \/ Term \/ Grace \/ KillGroup \/ Recollect \/ KillTree \/ KillLate
  PROVE  PtyInv'
<1> USE DEF PtyInv
<1>1. Aside /\ master' = master /\ writer' = writer
  BY DEF TerminateJob, Collect, Term, Grace, KillGroup, Recollect, KillTree, KillLate, KillLeaves,
         Killed, Dies, procVars, Aside
<1>2. /\ closer \in {"collect", "term", "grace", "killgroup", "recollect", "killtree", "killlate"}
      /\ closer' \in {"term", "grace", "killgroup", "recollect", "killtree", "killlate", "exit"}
  BY DEF TerminateJob, Collect, Term, Grace, KillGroup, Recollect, KillTree, KillLate, Goes
<1>3. ThreadsTyped' /\ ConsumerInOrder'
  BY <1>1, <1>2 DEF ThreadsTyped, ConsumerInOrder, Closers, Aside, readVars, takeVars, inputVars, waitVars
<1>4. waiter' # "none" /\ closing'
  BY <1>1, <1>2 DEF KillInOrder, Killing, Aside, waitVars, Closers
<1>5. CollectTree \subseteq Procs /\ Live \subseteq CollectTree \cup Untraceable
  BY CollectionIsWhole
<1>6. Untraceable \subseteq Procs
  BY DEF Untraceable, Live
<1>7. /\ ProcsTyped' /\ ParentsLive' /\ Live' \subseteq Live
      /\ os = "unix" => KillInOrder'
  <2>0. UNCHANGED procVars => Live' = Live /\ (ParentsLive <=> ParentsLive')
    BY SameLive DEF procVars, ParentsLive
  <2>1. CASE TerminateJob
    <3>1. PICK dead \in {Procs, {Leader}} : Killed(dead)
      BY <2>1 DEF TerminateJob
    <3> QED BY <2>1, <3>1, KilledEffect DEF TerminateJob, KillLeaves, ProcsTyped, histVars
  <2>2. CASE Collect
    BY <1>4, <1>5, <1>6, <2>0, <2>2 DEF Collect, Goes, ProcsTyped, KillInOrder, Escaping, procVars
  <2>3. CASE Term
    BY <1>2, <1>4, <2>0, <2>3 DEF Term, Goes, ProcsTyped, KillInOrder, Killing, Escaping, Closers, procVars, histVars
  <2>4. CASE Grace
    <3>1. AllGone => Live \cap tree \subseteq foreign
      BY DEF AllGone, Live, ProcsTyped
    <3>2. refused \subseteq refused' /\ refused' \subseteq Procs /\ (AllGone => Live \cap tree \subseteq refused')
      BY <2>4, <3>1 DEF Grace, Refuse, ProcsTyped
    <3> QED BY <1>2, <1>4, <2>0, <2>4, <3>2
            DEF Grace, Goes, ProcsTyped, KillInOrder, Killing, Escaping, Closers, procVars, histVars
  <2>5. CASE KillGroup
    <3>1. Killed(group)
      BY <2>5 DEF KillGroup
    <3> QED BY <1>4, <2>5, <3>1, KilledEffect
            DEF KillGroup, KillLeaves, Goes, ProcsTyped, KillInOrder, histVars
  <2>6. CASE Recollect
    BY <1>4, <1>5, <1>6, <2>0, <2>6 DEF Recollect, Goes, ProcsTyped, KillInOrder, Escaping, procVars
  <2>7. CASE KillTree
    <3>1. Killed(tree) /\ Refuse(tree)
      BY <2>7 DEF KillTree
    <3>2. /\ refused \subseteq refused' /\ refused' \subseteq Procs
          /\ Live' \subseteq Live /\ Live' \cap tree \subseteq refused'
      BY <3>1, KilledEffect DEF Refuse, ProcsTyped
    <3> QED BY <1>2, <1>4, <2>7, <3>1, <3>2, KilledEffect
            DEF KillTree, KillLeaves, Goes, ProcsTyped, KillInOrder, Killing, Escaping, Closers, histVars
  <2>8. CASE KillLate
    <3>1. Killed(late) /\ Refuse(late)
      BY <2>8 DEF KillLate
    <3>2. /\ refused \subseteq refused' /\ refused' \subseteq Procs
          /\ Live' \subseteq Live /\ Live' \cap late \subseteq refused'
      BY <3>1, KilledEffect DEF Refuse, ProcsTyped
    <3> QED BY <1>2, <1>4, <2>8, <3>1, <3>2, KilledEffect
            DEF KillLate, KillLeaves, Goes, ProcsTyped, KillInOrder, Killing, Escaping, Closers, histVars
  <2> QED BY <2>1, <2>2, <2>3, <2>4, <2>5, <2>6, <2>7, <2>8
<1>8. KillInOrder'
  <2>1. CASE os = "unix"
    BY <1>7, <2>1
  <2>2. CASE os # "unix"
    BY <1>1, <1>2, <1>4, <2>2 DEF KillInOrder, Aside
  <2> QED BY <2>1, <2>2
<1>9. ChunksTyped' /\ ChunksInOrder'
  BY <1>1, <1>7 DEF ChunksTyped, ChunksInOrder, Aside, readVars, takeVars
<1> QED BY <1>3, <1>7, <1>8, <1>9

\* The rest of `shutdown`: nobody is killed or forgotten any more.
LEMMA RestKeeps ==
  ASSUME PtyInv, WaitExit \/ DropWriter \/ DropMaster \/ ConsoleCloses \/ JoinThreads
  PROVE  PtyInv'
<1> USE DEF PtyInv
<1>1. /\ Aside /\ UNCHANGED <<procVars, histVars, tree, late>>
      /\ writer' \in BOOLEAN
      /\ master' \in {master, "closed"}
      /\ closer \in {"exit", "writer", "master", "reader", "waiter"}
      /\ closer' \in {"writer", "master", AfterMaster, "waiter", "done"}
      /\ closer' = "master" => closer = "writer"
  BY DEF WaitExit, DropWriter, DropMaster, ConsoleCloses, JoinThreads, Goes, Aside, procVars,
         ThreadsTyped, AfterMaster
<1>2. Live' = Live
  BY <1>1, SameLive DEF procVars
<1>3. ProcsTyped' /\ ParentsLive'
  BY <1>1, <1>2 DEF ProcsTyped, ParentsLive, procVars, histVars
<1>4. ThreadsTyped' /\ ConsumerInOrder'
  BY <1>1 DEF ThreadsTyped, ConsumerInOrder, Closers, AfterMaster, Aside, readVars, takeVars, inputVars, waitVars
<1>5. ChunksTyped' /\ ChunksInOrder'
  BY <1>1, <1>2 DEF ChunksTyped, ChunksInOrder, Aside, readVars, takeVars, procVars
<1>6. KillInOrder'
  <2>1. closer = "master" /\ waiter = "none" => closer' = "failed"
    BY DEF WaitExit, DropWriter, DropMaster, ConsoleCloses, JoinThreads, Goes, AfterMaster
  <2> QED BY <1>1, <1>2, <2>1
          DEF KillInOrder, Killing, Escaping, Aside, Closers, AfterMaster, waitVars, procVars, histVars
<1> QED BY <1>3, <1>4, <1>5, <1>6

LEMMA NextKeeps == PtyInv /\ [Next]_vars => PtyInv'
<1> SUFFICES ASSUME PtyInv, [Next]_vars PROVE PtyInv'
  OBVIOUS
<1>1. ASSUME NEW p \in Procs, Fork(p) \/ Setsid(p) \/ ChangesUser(p) \/ Exits(p) \/ Reap(p)
      PROVE  PtyInv'
  BY <1>1, ProcessKeeps
<1>2. ASSUME Waits PROVE PtyInv'
  BY <1>2, ProcessKeeps, PtyAssumption
<1>3. ASSUME NEW who \in {"consumer", "client"}, Reply \/ ClientWrites \/ Locks(who) \/ Unlocks
      PROVE  PtyInv'
  BY <1>3, WriterKeeps
<1>4. ASSUME Write \/ Reader \/ Take \/ HearEof \/ Leave PROVE PtyInv'
  BY <1>4, ChunkKeeps
<1>5. ASSUME SpawnCompletes \/ SpawnFails \/ Begin PROVE PtyInv'
  BY <1>5, SpawnKeeps
<1>6. ASSUME Shutdown PROVE PtyInv'
  BY <1>6, KillKeeps, ChunkKeeps, RestKeeps DEF Shutdown
<1>7. ASSUME UNCHANGED vars PROVE PtyInv'
  <2>1. Live' = Live
    BY <1>7, SameLive DEF vars, procVars
  <2> QED
    BY <1>7, <2>1
    DEF PtyInv, ProcsTyped, ThreadsTyped, ChunksTyped, ParentsLive, ChunksInOrder, ConsumerInOrder,
        KillInOrder, Killing, Escaping, vars, procVars, histVars, readVars, takeVars, inputVars,
        waitVars, closeVars
<1> QED BY <1>1, <1>2, <1>3, <1>4, <1>5, <1>6, <1>7 DEF Next

\* The processes, the chunks and the threads are where these say in every state.
THEOREM PtyInvariance == Spec => []PtyInv
BY Initially, NextKeeps, PTL DEF Spec

\* A session whose shutdown is over, whatever was forked, reparented or moved to
\* another session while the kill went on, has left alive only what could not be
\* traced or came after the last look.
THEOREM SessionReaped == Spec => []SessionIsReaped
<1>1. PtyInv => PtyTypeOK
  <2> SUFFICES ASSUME PtyInv PROVE PtyTypeOK
    OBVIOUS
  <2> USE DEF PtyInv
  <2>1. hand \subseteq 1..read /\ Cardinality(hand) <= 1
    <3>1. Cardinality({}) = 0 /\ Cardinality({read}) = 1
      BY FS_EmptySet, FS_Singleton
    <3>2. hand \subseteq 1..read
      BY PtyAssumption DEF ChunksInOrder, ChunksTyped
    <3> QED BY <3>1, <3>2 DEF ChunksInOrder
  <2> QED BY <2>1 DEF PtyTypeOK, ProcsTyped, ThreadsTyped, ChunksTyped
<1>2. PtyInv => SurvivorsAreLate
  BY DEF PtyInv, KillInOrder, Killing, Escaping, Closers, SurvivorsAreLate
<1> QED BY <1>1, <1>2, PtyInvariance, PTL DEF SessionIsReaped

-----------------------------------------------------------------------------
\* The three buffers as one.

\* The chunks r+1..w, which the kernel holds for the reader.
Behind(r, w) == [i \in 1..(w - r) |-> r + i]

LEMMA BehindIsSeq ==
  ASSUME NEW r \in Nat, NEW w \in Nat, r <= w
  PROVE  /\ Behind(r, w) \in Seq(Nat) /\ Len(Behind(r, w)) = w - r
         /\ \A i \in 1..(w - r) : Behind(r, w)[i] = r + i
<1>1. w - r \in Nat /\ \A i \in 1..(w - r) : r + i \in Nat
  OBVIOUS
<1>2. Behind(r, w) \in [1..(w - r) -> Nat]
  BY <1>1 DEF Behind
<1>3. Behind(r, w) \in Seq(Nat)
  BY <1>1, <1>2
<1> QED BY <1>1, <1>3 DEF Behind

\* What is written comes last.
LEMMA BehindGrows ==
  ASSUME NEW r \in Nat, NEW w \in Nat, r <= w
  PROVE  Behind(r, w + 1) = Append(Behind(r, w), w + 1)
<1> DEFINE b == Behind(r, w)
           c == Behind(r, w + 1)
<1>1. /\ b \in Seq(Nat) /\ Len(b) = w - r
      /\ \A i \in 1..(w - r) : b[i] = r + i
  BY BehindIsSeq
<1>2. /\ c \in Seq(Nat) /\ Len(c) = (w + 1) - r
      /\ \A i \in 1..((w + 1) - r) : c[i] = r + i
  <2>1. w + 1 \in Nat /\ r <= w + 1
    OBVIOUS
  <2> QED BY <2>1, BehindIsSeq
<1> HIDE DEF b, c
<1>3. /\ Append(b, w + 1) \in Seq(Nat) /\ Len(Append(b, w + 1)) = Len(b) + 1
      /\ \A i \in 1..Len(b) : Append(b, w + 1)[i] = b[i]
      /\ Append(b, w + 1)[Len(b) + 1] = w + 1
  <2>1. w + 1 \in Nat
    OBVIOUS
  <2> QED BY <1>1, <2>1, AppendProperties
<1>4. ASSUME NEW i \in 1..Len(c) PROVE c[i] = Append(b, w + 1)[i]
  <2>1. c[i] = r + i /\ i \in 1..(w + 1 - r)
    BY <1>2
  <2>2. CASE i <= w - r
    BY <1>1, <1>3, <2>1, <2>2
  <2>3. CASE i = w - r + 1
    BY <1>1, <1>3, <2>1, <2>3, i = Len(b) + 1, r + i = w + 1
  <2> QED
    <3>1. i <= w - r \/ i = w - r + 1
      BY <2>1
    <3> QED BY <2>2, <2>3, <3>1
<1>5. Len(c) = Len(Append(b, w + 1))
  BY <1>1, <1>2, <1>3
<1>6. c = Append(b, w + 1)
  BY <1>2, <1>3, <1>4, <1>5, SeqEqual
<1> QED BY <1>6 DEF b, c

\* What is read comes first.
LEMMA BehindShrinks ==
  ASSUME NEW r \in Nat, NEW w \in Nat, r < w
  PROVE  Behind(r, w) = <<r + 1>> \o Behind(r + 1, w)
<1> DEFINE b == Behind(r, w)
           c == Behind(r + 1, w)
           e == <<r + 1>>
<1>1. /\ b \in Seq(Nat) /\ Len(b) = w - r
      /\ \A i \in 1..(w - r) : b[i] = r + i
  BY BehindIsSeq
<1>2. /\ c \in Seq(Nat) /\ Len(c) = w - (r + 1)
      /\ \A i \in 1..(w - (r + 1)) : c[i] = (r + 1) + i
  <2>1. r + 1 \in Nat /\ r + 1 <= w
    OBVIOUS
  <2> QED BY <2>1, BehindIsSeq
<1>3. e \in Seq(Nat) /\ Len(e) = 1 /\ e[1] = r + 1
  OBVIOUS
<1> HIDE DEF b, c, e
<1>4. /\ e \o c \in Seq(Nat) /\ Len(e \o c) = Len(e) + Len(c)
      /\ \A i \in 1..(Len(e) + Len(c)) :
           (e \o c)[i] = IF i <= Len(e) THEN e[i] ELSE c[i - Len(e)]
  <2>1. e \in Seq(Nat) /\ c \in Seq(Nat)
    BY <1>2, <1>3
  <2> QED BY ONLY <2>1, ConcatProperties
<1>5. ASSUME NEW i \in 1..Len(b) PROVE b[i] = (e \o c)[i]
  <2>0. Len(b) = Len(e) + Len(c)
    BY <1>1, <1>2, <1>3
  <2>1. b[i] = r + i /\ i \in 1..(w - r) /\ i \in 1..(Len(e) + Len(c))
    BY <1>1, <2>0
  <2>2. CASE i = 1
    BY <1>3, <1>4, <2>1, <2>2
  <2>3. CASE i # 1
    <3>1. i - 1 \in 1..(w - (r + 1))
      BY <2>1, <2>3
    <3>2. (e \o c)[i] = c[i - 1]
      BY <1>3, <1>4, <2>1, <2>3
    <3> QED BY <1>2, <2>1, <3>1, <3>2
  <2> QED BY <2>2, <2>3
<1>6. Len(b) = Len(e \o c)
  BY <1>1, <1>2, <1>3, <1>4
<1>7. b = e \o c
  BY <1>1, <1>4, <1>5, <1>6, SeqEqual
<1> QED BY <1>7 DEF b, c, e

\* What the reader holds, as a sequence.
LEMMA HeldIsSeq ==
  ASSUME NEW x
  PROVE  SetToSeq({}) = <<>> /\ SetToSeq({x}) = <<x>>
<1>1. Cardinality({}) = 0 /\ Cardinality({x}) = 1
  BY FS_EmptySet, FS_Singleton
<1>2. SetToSeq({}) = <<>>
  <2>1. <<>> \in [1..0 -> {}] /\ IsInjective(<<>>)
    BY DEF IsInjective
  <2>2. SetToSeq({}) \in [1..0 -> {}]
    BY <1>1, <2>1 DEF SetToSeq
  <2> QED BY <2>2
<1>3. SetToSeq({x}) = <<x>>
  <2>1. <<x>> \in [1..1 -> {x}] /\ IsInjective(<<x>>)
    BY DEF IsInjective
  <2>2. SetToSeq({x}) \in [1..1 -> {x}]
    BY <1>1, <2>1 DEF SetToSeq
  <2> QED BY <2>2
<1> QED BY <1>2, <1>3

\* What becomes of a queue, what the reader holds and the rest, one after another.
LEMMA Joined ==
  ASSUME NEW q \in Seq(Nat), NEW s \in Seq(Nat)
  PROVE  /\ q \o s \in Seq(Nat) /\ Len(q \o s) = Len(q) + Len(s)
         /\ \A i \in 1..Len(q) : (q \o s)[i] = q[i]
         /\ \A i \in 1..Len(s) : (q \o s)[Len(q) + i] = s[i]
<1>1. /\ q \o s \in Seq(Nat) /\ Len(q \o s) = Len(q) + Len(s)
      /\ \A i \in 1..(Len(q) + Len(s)) : (q \o s)[i] = IF i <= Len(q) THEN q[i] ELSE s[i - Len(q)]
  BY ConcatProperties
<1>2. Len(q) \in Nat /\ Len(s) \in Nat
  BY LenProperties
<1>3. ASSUME NEW i \in 1..Len(s) PROVE (q \o s)[Len(q) + i] = s[i]
  <2>1. Len(q) + i \in 1..(Len(q) + Len(s)) /\ ~(Len(q) + i <= Len(q)) /\ (Len(q) + i) - Len(q) = i
    BY <1>2
  <2> QED BY <1>1, <2>1
<1>4. ASSUME NEW i \in 1..Len(q) PROVE (q \o s)[i] = q[i]
  <2>1. i \in 1..(Len(q) + Len(s)) /\ i <= Len(q)
    BY <1>2
  <2> QED BY <1>1, <2>1
<1> QED BY <1>1, <1>3, <1>4

\* The oldest chunk is the queue's, if it has any.
LEMMA JoinedHead ==
  ASSUME NEW q \in Seq(Nat), NEW s \in Seq(Nat), q # <<>>
  PROVE  /\ q \o s # <<>>
         /\ Head(q \o s) = Head(q)
         /\ Tail(q \o s) = Tail(q) \o s
<1> DEFINE j == q \o s
           t == Tail(q)
<1>1. /\ j \in Seq(Nat) /\ Len(j) = Len(q) + Len(s)
      /\ \A i \in 1..Len(q) : j[i] = q[i]
      /\ \A i \in 1..Len(s) : j[Len(q) + i] = s[i]
  BY Joined
<1>2. Len(q) \in Nat \ {0} /\ Len(s) \in Nat
  BY EmptySeq, LenProperties
<1>3. /\ t \in Seq(Nat) /\ Len(t) = Len(q) - 1 /\ \A i \in 1..Len(t) : t[i] = q[i + 1]
      /\ Head(q) = q[1]
  BY HeadTailProperties
<1>4. /\ t \o s \in Seq(Nat) /\ Len(t \o s) = Len(t) + Len(s)
      /\ \A i \in 1..Len(t) : (t \o s)[i] = t[i]
      /\ \A i \in 1..Len(s) : (t \o s)[Len(t) + i] = s[i]
  BY <1>3, Joined
<1> HIDE DEF j, t
<1>5. j # <<>>
  BY <1>1, <1>2
<1>6. /\ Tail(j) \in Seq(Nat) /\ Len(Tail(j)) = Len(j) - 1
      /\ \A i \in 1..Len(Tail(j)) : Tail(j)[i] = j[i + 1]
      /\ Head(j) = j[1]
  BY <1>1, <1>5, HeadTailProperties
<1>7. ASSUME NEW i \in 1..Len(Tail(j)) PROVE Tail(j)[i] = (t \o s)[i]
  <2>1. Tail(j)[i] = j[i + 1] /\ i \in 1..(Len(q) + Len(s) - 1)
    BY <1>1, <1>6
  <2>2. CASE i <= Len(q) - 1
    <3>1. i + 1 \in 1..Len(q) /\ i \in 1..Len(t)
      BY <1>2, <1>3, <2>1, <2>2
    <3> QED BY <1>1, <1>3, <1>4, <2>1, <3>1
  <2>3. CASE i > Len(q) - 1
    <3> DEFINE k == i - (Len(q) - 1)
    <3>1. k \in 1..Len(s) /\ i + 1 = Len(q) + k /\ i = Len(t) + k
      BY <1>2, <1>3, <2>1, <2>3
    <3> HIDE DEF k
    <3>2. j[i + 1] = s[k] /\ (t \o s)[i] = s[k]
      BY <1>1, <1>4, <3>1
    <3> QED BY <2>1, <3>2
  <2> QED BY <2>2, <2>3, i \in Int, Len(q) \in Int, <1>2, i <= Len(q) - 1 \/ i > Len(q) - 1
<1>8. Len(Tail(j)) = Len(t \o s)
  BY <1>1, <1>2, <1>3, <1>4, <1>6
<1>9. Tail(j) = t \o s
  BY <1>4, <1>6, <1>7, <1>8, SeqEqual
<1>10. Head(j) = Head(q)
  BY <1>1, <1>2, <1>3, <1>6
<1> QED BY <1>5, <1>9, <1>10 DEF j, t

\* Without the queue the rest is left, ..
LEMMA JoinedRest ==
  ASSUME NEW q \in Seq(Nat), NEW s \in Seq(Nat)
  PROVE  SubSeq(q \o s, Len(q) + 1, Len(q \o s)) = s
<1> DEFINE j == q \o s
           b == SubSeq(j, Len(q) + 1, Len(j))
<1>1. /\ j \in Seq(Nat) /\ Len(j) = Len(q) + Len(s)
      /\ \A i \in 1..Len(s) : j[Len(q) + i] = s[i]
  BY Joined
<1>2. Len(q) \in Nat /\ Len(s) \in Nat
  BY LenProperties
<1> HIDE DEF j
<1>3. /\ b \in Seq(Nat) /\ Len(b) = Len(s)
      /\ \A i \in 1..Len(s) : b[i] = j[Len(q) + i]
  <2>1. Len(q) + 1 \in Int /\ Len(j) \in Int /\ Len(j) - (Len(q) + 1) + 1 = Len(s)
    BY <1>1, <1>2
  <2>2. \A i \in (Len(q) + 1)..Len(j) : j[i] \in Nat
    BY <1>1, <1>2, LenProperties
  <2>3. /\ b \in Seq(Nat)
        /\ Len(b) = IF Len(q) + 1 <= Len(j) THEN Len(j) - (Len(q) + 1) + 1 ELSE 0
        /\ \A i \in 1..(Len(j) - (Len(q) + 1) + 1) : b[i] = j[(Len(q) + 1) + i - 1]
    BY <2>1, <2>2, SubSeqProperties
  <2> HIDE DEF b
  <2>4. Len(b) = Len(s)
    BY <1>1, <1>2, <2>1, <2>3
  <2>5. ASSUME NEW i \in 1..Len(s) PROVE b[i] = j[Len(q) + i]
    <3>1. (Len(q) + 1) + i - 1 = Len(q) + i
      BY <1>2
    <3> QED BY <2>1, <2>3, <3>1
  <2> QED BY <2>3, <2>4, <2>5
<1> HIDE DEF b
<1>4. b = s
  BY <1>1, <1>3, SeqEqual
<1> QED BY <1>4 DEF b, j

\* .. and without the chunk between them the queue and the rest.
LEMMA JoinedWithout ==
  ASSUME NEW q \in Seq(Nat), NEW x \in Nat, NEW s \in Seq(Nat)
  PROVE  LET j == q \o <<x>> \o s IN
         /\ Len(q) + 1 \in DOMAIN j
         /\ SubSeq(j, 1, Len(q)) = q
         /\ SubSeq(j, Len(q) + 2, Len(j)) = s
<1> DEFINE p == q \o <<x>>
           j == p \o s
           b == SubSeq(j, 1, Len(q))
<1>1. <<x>> \in Seq(Nat) /\ Len(<<x>>) = 1
  OBVIOUS
<1>2. /\ p \in Seq(Nat) /\ Len(p) = Len(q) + 1
      /\ \A i \in 1..Len(q) : p[i] = q[i]
  BY <1>1, Joined
<1>3. Len(q) \in Nat /\ Len(s) \in Nat
  BY LenProperties
<1> HIDE DEF p
<1>4. /\ j \in Seq(Nat) /\ Len(j) = Len(p) + Len(s)
      /\ \A i \in 1..Len(p) : j[i] = p[i]
  BY <1>2, Joined
<1>5. SubSeq(j, Len(p) + 1, Len(j)) = s
  BY <1>2, JoinedRest
<1> HIDE DEF j
<1>6. /\ b \in Seq(Nat) /\ Len(b) = Len(q)
      /\ \A i \in 1..Len(q) : b[i] = j[i]
  <2>1. \A i \in 1..Len(q) : j[i] \in Nat
    <3>1. ASSUME NEW i \in 1..Len(q) PROVE j[i] \in Nat
      <4>1. j[i] = p[i] /\ p[i] = q[i]
        BY <1>2, <1>3, <1>4
      <4> QED BY <4>1, ElementOfSeq
    <3> QED BY <3>1
  <2>2. /\ b \in Seq(Nat) /\ Len(b) = IF 1 <= Len(q) THEN Len(q) - 1 + 1 ELSE 0
        /\ \A i \in 1..(Len(q) - 1 + 1) : b[i] = j[1 + i - 1]
    BY <1>3, <2>1, SubSeqProperties
  <2> HIDE DEF b
  <2>3. Len(b) = Len(q) /\ Len(q) - 1 + 1 = Len(q)
    BY <1>3, <2>2
  <2>4. ASSUME NEW i \in 1..Len(q) PROVE b[i] = j[i]
    <3>1. 1 + i - 1 = i
      OBVIOUS
    <3> QED BY <2>2, <2>3, <3>1
  <2> QED BY <2>2, <2>3, <2>4
<1> HIDE DEF b
<1>7. \A i \in 1..Len(q) : b[i] = q[i]
  BY <1>2, <1>3, <1>4, <1>6
<1>8. b = q
  BY <1>6, <1>7, SeqEqual
<1>9. Len(q) + 1 \in DOMAIN j /\ Len(q) + 2 = Len(p) + 1
  BY <1>2, <1>3, <1>4
<1> QED BY <1>5, <1>8, <1>9 DEF b, j, p

-----------------------------------------------------------------------------
\* The refinement.

\* What is under way is the queue and what comes after it.
LEMMA Regrouped ==
  ASSUME NEW q \in Seq(Nat), NEW h \in Seq(Nat), NEW b \in Seq(Nat)
  PROVE  /\ (q \o h) \o b = q \o (h \o b)
         /\ h \o b \in Seq(Nat)
<1>1. (q \o h) \o b = q \o (h \o b)
  BY ConcatAssociative, SMTT(30)
<1>2. h \o b \in Seq(Nat)
  BY ConcatProperties
<1> QED BY <1>1, <1>2

\* What is under way, in the invariant's terms.
LEMMA TransitIs ==
  ASSUME PtyInv
  PROVE  /\ queue \in Seq(Nat) /\ read \in Nat /\ written \in Nat /\ read <= written
         /\ Behind(read, written) \in Seq(Nat)
         /\ Transit = queue \o (IF reader = "sending" THEN <<read>> ELSE <<>>) \o Behind(read, written)
         /\ reader # "sending" => Transit = queue \o Behind(read, written)
         /\ Transit \in Seq(Nat)
<1>1. read \in Nat /\ written \in Nat /\ read <= written
  BY PtyAssumption DEF PtyInv, ChunksTyped
<1>2. queue \in Seq(Nat)
  <2>1. queue \in Seq(1..read) /\ 1..read \subseteq Nat
    BY <1>1 DEF PtyInv, ChunksTyped
  <2> QED BY <2>1, SeqMonotonic
<1>3. Behind(read, written) \in Seq(Nat)
  BY <1>1, BehindIsSeq
<1>4. SetToSeq(hand) = IF reader = "sending" THEN <<read>> ELSE <<>>
  <2>1. SetToSeq({}) = <<>> /\ SetToSeq({read}) = <<read>>
    BY HeldIsSeq
  <2> QED BY <2>1 DEF PtyInv, ChunksInOrder
<1>5. Transit = queue \o (IF reader = "sending" THEN <<read>> ELSE <<>>) \o Behind(read, written)
  BY <1>4 DEF Transit, Behind
<1>6. queue \o <<>> = queue
  BY <1>2, ConcatEmptySeq
<1>7. <<read>> \in Seq(Nat)
  BY <1>1
<1>8. queue \o <<read>> \in Seq(Nat)
  BY <1>2, <1>7, ConcatProperties
<1>9. Transit \in Seq(Nat)
  <2>1. CASE reader = "sending"
    BY <1>3, <1>5, <1>8, <2>1, ConcatProperties
  <2>2. CASE reader # "sending"
    BY <1>2, <1>3, <1>5, <1>6, <2>2, ConcatProperties
  <2> QED BY <2>1, <2>2
<1> QED BY <1>1, <1>2, <1>3, <1>5, <1>6, <1>9

\* The buffers of the conduit and what it promises are untouched by most steps.
LEMMA AsideMaps ==
  ASSUME UNCHANGED <<written, read, hand, queue, got, heard, closing>>,
         consumer' = "gone" <=> consumer = "gone"
  PROVE  UNCHANGED Conduit!vars
BY DEF Conduit!vars, Transit, MayLose

\* A chunk more is written.
LEMMA GrowthMaps ==
  ASSUME PtyInv, ~heard, written < MaxChunks, written' = written + 1,
         UNCHANGED <<read, hand, queue, got, heard, closing, consumer>>
  PROVE  Conduit!Write
<1>1. /\ queue \in Seq(Nat) /\ read \in Nat /\ written \in Nat /\ read <= written
      /\ Behind(read, written) \in Seq(Nat)
  BY TransitIs
<1> DEFINE p == queue \o SetToSeq(hand)
           b == Behind(read, written)
<1>2. p \in Seq(Nat)
  <2>1. hand \in {{}, {read}} /\ <<read>> \in Seq(Nat) /\ <<>> \in Seq(Nat)
    BY <1>1, EmptySeq DEF PtyInv, ChunksInOrder
  <2>2. SetToSeq(hand) \in Seq(Nat)
    BY <2>1, HeldIsSeq
  <2> QED BY <1>1, <2>2, ConcatProperties
<1>3. Transit = p \o b /\ Transit' = p \o Behind(read, written + 1)
  BY DEF Transit, Behind
<1>4. Behind(read, written + 1) = b \o <<written + 1>>
  <2>1. Behind(read, written + 1) = Append(b, written + 1)
    BY <1>1, BehindGrows
  <2>2. written + 1 \in Nat
    BY <1>1
  <2> QED BY <1>1, <2>1, <2>2, AppendIsConcat
<1>5. written + 1 \in Nat /\ <<written + 1>> \in Seq(Nat)
  BY <1>1
<1>6. b \in Seq(Nat)
  BY <1>1
<1> HIDE DEF p, b
<1>7. p \o b \in Seq(Nat) /\ p \o (b \o <<written + 1>>) = (p \o b) \o <<written + 1>>
  BY <1>2, <1>5, <1>6, ConcatProperties, ConcatAssociative
<1>8. Append(p \o b, written + 1) = (p \o b) \o <<written + 1>>
  BY <1>5, <1>7, AppendIsConcat
<1>9. Transit' = Append(Transit, written + 1)
  BY <1>3, <1>4, <1>7, <1>8
<1> QED BY <1>9 DEF Conduit!Write, MayLose

\* The reader moves a chunk on, or loses it when it may.
LEMMA ReadMaps ==
  ASSUME PtyInv, PtyInv', Read
  PROVE  [Conduit!Next]_(Conduit!vars)
<1>1. /\ queue \in Seq(Nat) /\ read \in Nat /\ written \in Nat
      /\ reader # "sending" => Transit = queue \o Behind(read, written)
  BY TransitIs
<1>2. /\ reader = "reading" /\ read < written /\ read' = read + 1
      /\ UNCHANGED <<written, queue, got, heard, closing, consumer>>
  BY DEF Read, takeVars, closeVars
<1>3. Behind(read, written) = <<read + 1>> \o Behind(read + 1, written)
  BY <1>1, <1>2, BehindShrinks
<1> DEFINE e == <<read + 1>>
           b == Behind(read + 1, written)
<1>4. read + 1 \in Nat /\ e \in Seq(Nat) /\ b \in Seq(Nat)
  <2>1. read + 1 \in Nat /\ read + 1 <= written
    BY <1>1, <1>2
  <2> QED BY <1>1, <2>1, BehindIsSeq
<1>5. Transit = queue \o e \o b
  <2>1. Transit = queue \o (e \o b)
    BY <1>1, <1>2, <1>3
  <2> HIDE DEF e, b
  <2>2. queue \o (e \o b) = (queue \o e) \o b
    BY <1>1, <1>4, ConcatAssociative, SMTT(30)
  <2> QED BY <2>1, <2>2
<1>6. CASE ~discarding
  <2>1. hand' = {read + 1}
    BY <1>2, <1>6 DEF Read
  <2>2. Transit' = queue \o e \o b
    BY <1>2, <2>1, HeldIsSeq DEF Transit, Behind
  <2> QED BY <1>2, <1>5, <2>2 DEF Conduit!vars, MayLose
<1>7. CASE discarding
  <2>1. hand' = {} /\ MayLose /\ MayLose'
    BY <1>2, <1>7 DEF Read, PtyInv, ChunksInOrder, MayLose
  <2>2. Transit' = queue \o b
    <3>1. Transit' = queue \o <<>> \o b
      BY <1>2, <2>1, HeldIsSeq DEF Transit, Behind
    <3> QED BY <1>1, <3>1, ConcatEmptySeq
  <2>3. Len(queue) + 1 \in DOMAIN Transit /\ Transit' = Conduit!RemoveAt(Transit, Len(queue) + 1)
    <3>1. /\ Len(queue) + 1 \in DOMAIN Transit
          /\ SubSeq(Transit, 1, Len(queue)) = queue
          /\ SubSeq(Transit, Len(queue) + 2, Len(Transit)) = b
      BY <1>1, <1>4, <1>5, JoinedWithout
    <3>2. (Len(queue) + 1) - 1 = Len(queue) /\ (Len(queue) + 1) + 1 = Len(queue) + 2
      BY <1>1, LenProperties
    <3> QED BY <2>2, <3>1, <3>2 DEF Conduit!RemoveAt
  <2>4. Conduit!Lose
    BY <1>2, <2>1, <2>3 DEF Conduit!Lose
  <2> QED BY <2>4 DEF Conduit!Next
<1> QED BY <1>6, <1>7

LEMMA SendMaps ==
  ASSUME PtyInv, PtyInv', SendChunk
  PROVE  [Conduit!Next]_(Conduit!vars)
<1>1. /\ queue \in Seq(Nat) /\ read \in Nat /\ written \in Nat
      /\ Behind(read, written) \in Seq(Nat)
      /\ reader = "sending" => Transit = queue \o <<read>> \o Behind(read, written)
  BY TransitIs
<1> DEFINE b == Behind(read, written)
<1>2. /\ reader = "sending" /\ hand' = {}
      /\ UNCHANGED <<written, read, got, heard, closing, consumer>>
  BY DEF SendChunk, takeVars, closeVars
<1>3. Transit' = queue' \o b
  <2>1. Transit' = queue' \o <<>> \o b
    BY <1>2, HeldIsSeq DEF Transit, Behind
  <2>2. queue' \in Seq(Nat)
    <3>1. queue' \in Seq(1..read') /\ 1..read' \subseteq Nat
      BY <1>1, <1>2 DEF PtyInv, ChunksTyped
    <3> QED BY <3>1, SeqMonotonic
  <2> QED BY <2>1, <2>2, ConcatEmptySeq
<1>4. CASE queue' = Append(queue, read)
  <2>1. queue' = queue \o <<read>>
    BY <1>1, <1>4, AppendIsConcat
  <2> QED BY <1>1, <1>2, <1>3, <2>1 DEF Conduit!vars, MayLose
<1>5. CASE queue' = queue /\ (consumer = "gone" \/ closing)
  <2>1. MayLose /\ MayLose'
    BY <1>2, <1>5 DEF MayLose
  <2>2. Transit = queue \o <<read>> \o b /\ Transit' = queue \o b
    BY <1>1, <1>2, <1>3, <1>5
  <2>3. Len(queue) + 1 \in DOMAIN Transit /\ Transit' = Conduit!RemoveAt(Transit, Len(queue) + 1)
    <3>1. /\ Len(queue) + 1 \in DOMAIN Transit
          /\ SubSeq(Transit, 1, Len(queue)) = queue
          /\ SubSeq(Transit, Len(queue) + 2, Len(Transit)) = b
      BY <1>1, <2>2, JoinedWithout
    <3>2. (Len(queue) + 1) - 1 = Len(queue) /\ (Len(queue) + 1) + 1 = Len(queue) + 2
      BY <1>1, LenProperties
    <3> QED BY <2>2, <3>1, <3>2 DEF Conduit!RemoveAt
  <2>4. Conduit!Lose
    BY <1>2, <2>1, <2>3 DEF Conduit!Lose
  <2> QED BY <2>4 DEF Conduit!Next
<1>6. queue' = Append(queue, read) \/ (queue' = queue /\ (consumer = "gone" \/ closing))
  BY DEF SendChunk, Dropped
<1> QED BY <1>4, <1>5, <1>6

\* The consumer takes the oldest chunk, which is the queue's.
LEMMA TakeMaps ==
  ASSUME PtyInv, Take
  PROVE  Conduit!Deliver
<1>1. queue \in Seq(Nat) /\ Behind(read, written) \in Seq(Nat) /\ read \in Nat
  BY TransitIs
<1> DEFINE s == SetToSeq(hand) \o Behind(read, written)
<1>2. SetToSeq(hand) \in Seq(Nat)
  <2>1. hand \in {{}, {read}} /\ <<read>> \in Seq(Nat) /\ <<>> \in Seq(Nat)
    BY <1>1, EmptySeq DEF PtyInv, ChunksInOrder
  <2> QED BY <2>1, HeldIsSeq
<1>3. s \in Seq(Nat)
  BY <1>1, <1>2, Regrouped
<1>4. Transit = queue \o s
  <2>1. Transit = (queue \o SetToSeq(hand)) \o Behind(read, written)
    BY DEF Transit, Behind
  <2>2. (queue \o SetToSeq(hand)) \o Behind(read, written) = queue \o s
    BY <1>1, <1>2, Regrouped, SMTT(30)
  <2> QED BY <2>1, <2>2
<1>5. /\ queue # <<>> /\ got' = Head(queue) /\ queue' = Tail(queue)
      /\ UNCHANGED <<written, read, hand, heard, closing, consumer>>
  BY DEF Take, readVars, closeVars
<1>6. Tail(queue) \in Seq(Nat)
  BY <1>1, <1>5, HeadTailProperties
<1>7. Transit' = Tail(queue) \o s
  <2>1. Transit' = (Tail(queue) \o SetToSeq(hand)) \o Behind(read, written)
    BY <1>5 DEF Transit, Behind
  <2>2. (Tail(queue) \o SetToSeq(hand)) \o Behind(read, written) = Tail(queue) \o s
    BY <1>1, <1>2, <1>6, Regrouped, SMTT(30)
  <2> QED BY <2>1, <2>2
<1> HIDE DEF s
<1>8. Transit # <<>> /\ Head(Transit) = Head(queue) /\ Tail(Transit) = Tail(queue) \o s
  BY <1>1, <1>3, <1>4, <1>5, JoinedHead
<1> QED BY <1>5, <1>7, <1>8 DEF Conduit!Deliver, MayLose

\* The session is being closed, or the consumer goes with its queue.
LEMMA GiveUpMaps ==
  ASSUME PtyInv, MayLose', UNCHANGED <<written, read, hand, got, heard>>, queue' \in {queue, <<>>}
  PROVE  Conduit!GiveUp
<1>1. queue \in Seq(Nat) /\ Behind(read, written) \in Seq(Nat) /\ read \in Nat /\ Transit \in Seq(Nat)
  BY TransitIs
<1> DEFINE s == SetToSeq(hand) \o Behind(read, written)
<1>2. SetToSeq(hand) \in Seq(Nat)
  <2>1. hand \in {{}, {read}} /\ <<read>> \in Seq(Nat) /\ <<>> \in Seq(Nat)
    BY <1>1, EmptySeq DEF PtyInv, ChunksInOrder
  <2> QED BY <2>1, HeldIsSeq
<1>3. s \in Seq(Nat)
  BY <1>1, <1>2, Regrouped
<1>4. Transit = queue \o s
  <2>1. Transit = (queue \o SetToSeq(hand)) \o Behind(read, written)
    BY DEF Transit, Behind
  <2>2. (queue \o SetToSeq(hand)) \o Behind(read, written) = queue \o s
    BY <1>1, <1>2, Regrouped, SMTT(30)
  <2> QED BY <2>1, <2>2
<1>5. \E n \in 0..Len(Transit) : Transit' = SubSeq(Transit, n + 1, Len(Transit))
  <2>1. CASE queue' = queue
    <3>1. Transit' = Transit
      BY <2>1 DEF Transit
    <3>2. 0 \in 0..Len(Transit) /\ 0 + 1 = 1
      BY <1>1, LenProperties
    <3>3. Transit = SubSeq(Transit, 1, Len(Transit))
      BY <1>1, SubSeqFull
    <3> QED BY <3>1, <3>2, <3>3
  <2>2. CASE queue' = <<>>
    <3>1. Transit' = (<<>> \o SetToSeq(hand)) \o Behind(read, written)
      BY <2>2 DEF Transit, Behind
    <3>2. Transit' = s
      BY <1>2, <3>1, ConcatEmptySeq
    <3> HIDE DEF s
    <3>3. SubSeq(Transit, Len(queue) + 1, Len(Transit)) = s
      BY <1>1, <1>3, <1>4, JoinedRest
    <3>4. Len(queue) \in 0..Len(Transit)
      BY <1>1, <1>3, <1>4, Joined, LenProperties
    <3> QED BY <3>2, <3>3, <3>4
  <2> QED BY <2>1, <2>2
<1> QED BY <1>5 DEF Conduit!GiveUp

\* A step of the threads and the processes is a step of the conduit, or none.
LEMMA NextMaps == PtyInv /\ PtyInv' /\ [Next]_vars => [Conduit!Next]_(Conduit!vars)
<1> SUFFICES ASSUME PtyInv, PtyInv', [Next]_vars PROVE [Conduit!Next]_(Conduit!vars)
  OBVIOUS
<1> USE PtyAssumption
<1>1. ASSUME NEW p \in Procs, Fork(p) \/ Setsid(p) \/ ChangesUser(p) \/ Exits(p) \/ Reap(p) \/ Waits
      PROVE  UNCHANGED Conduit!vars
  BY <1>1, AsideMaps DEF Fork, Setsid, ChangesUser, Exits, Reap, Waits, readVars, takeVars, closeVars
<1>2. ASSUME NEW who \in {"consumer", "client"}, Reply \/ ClientWrites \/ Locks(who) \/ Unlocks
      PROVE  UNCHANGED Conduit!vars
  BY <1>2, AsideMaps
     DEF Reply, ClientWrites, Locks, Unlocks, PtyInv, ConsumerInOrder, readVars, takeVars, closeVars
<1>3. CASE Write \/ CloseConsole
  <2>1. ~heard
    BY <1>3 DEF Write, CloseConsole, PtyInv, ChunksInOrder
  <2>2. written < MaxChunks /\ written' = written + 1
    BY <1>3 DEF Write, CloseConsole, PtyInv, ChunksTyped
  <2>3. UNCHANGED <<read, hand, queue, got, heard, closing, consumer>>
    BY <1>3 DEF Write, CloseConsole, readVars, takeVars, closeVars
  <2> QED BY <2>1, <2>2, <2>3, GrowthMaps DEF Conduit!Next
<1>4. CASE Reader
  <2>1. CASE ReadEof
    BY <2>1, AsideMaps DEF ReadEof, takeVars, closeVars
  <2> QED BY <1>4, <2>1, ReadMaps, SendMaps DEF Reader
<1>5. CASE Take
  BY <1>5, TakeMaps DEF Conduit!Next
<1>6. CASE HearEof
  <2>1. Transit = <<>>
    <3>1. queue = <<>> /\ reader = "done" /\ read = written
      BY <1>6 DEF HearEof, PtyInv, ChunksInOrder
    <3>2. read \in Nat /\ written \in Nat /\ Transit = queue \o Behind(read, written)
      BY <3>1, TransitIs
    <3>3. Behind(read, written) \in Seq(Nat) /\ Len(Behind(read, written)) = 0
      BY <3>1, <3>2, BehindIsSeq
    <3>4. Behind(read, written) = <<>>
      BY <3>3, EmptySeq
    <3> QED BY <3>1, <3>2, <3>4, ConcatEmptySeq
  <2>2. Transit' = Transit /\ MayLose' = MayLose
    BY <1>6 DEF HearEof, Transit, MayLose, readVars, closeVars
  <2>3. Conduit!Hear
    BY <1>6, <2>1, <2>2 DEF Conduit!Hear, HearEof
  <2> QED BY <2>3 DEF Conduit!Next
<1>7. CASE Leave \/ SpawnFails \/ Begin
  <2>1. MayLose' /\ UNCHANGED <<written, read, hand, got, heard>> /\ queue' \in {queue, <<>>}
    BY <1>7 DEF Leave, SpawnFails, Begin, MayLose, readVars, takeVars
  <2> QED BY <2>1, GiveUpMaps DEF Conduit!Next
<1>8. CASE SpawnCompletes
  BY <1>8, AsideMaps DEF SpawnCompletes, PtyInv, ConsumerInOrder, Goes, readVars
<1>9. CASE Shutdown
  <2>1. CASE CloseConsole
    BY <1>3, <2>1
  <2>2. CASE ~CloseConsole
    BY <1>9, <2>2, AsideMaps
       DEF Shutdown, TerminateJob, Collect, Term, Grace, KillGroup, Recollect, KillTree, KillLate,
           KillLeaves, WaitExit, DropWriter, DropMaster, ConsoleCloses, JoinThreads, readVars, takeVars
  <2> QED BY <2>1, <2>2
<1>10. CASE UNCHANGED vars
  BY <1>10, AsideMaps DEF vars, readVars, takeVars, closeVars
<1> QED BY <1>1, <1>2, <1>3, <1>4, <1>5, <1>6, <1>7, <1>8, <1>9, <1>10 DEF Next

\* However the threads interleave and whatever is dropped while the session closes,
\* the consumer is handed the chunks in the order they were written, misses none
\* before that, and hears the end only after the last.
THEOREM SessionIsAConduit == Spec => ConduitSpec
<1>1. Init => Conduit!Init
  <2> SUFFICES ASSUME Init PROVE Conduit!Init
    OBVIOUS
  <2>1. Transit = <<>>
    <3>1. PtyInv /\ reader = "reading" /\ queue = <<>> /\ read = 0 /\ written = 0
      BY Initially DEF Init
    <3>2. Behind(0, 0) \in Seq(Nat) /\ Len(Behind(0, 0)) = 0
      BY BehindIsSeq
    <3>3. Behind(0, 0) = <<>>
      BY <3>2, EmptySeq
    <3>4. Transit = queue \o Behind(read, written)
      BY <3>1, TransitIs
    <3> QED BY <3>1, <3>3, <3>4, ConcatEmptySeq
  <2> QED BY <2>1 DEF Init, Conduit!Init, MayLose
<1> QED BY <1>1, NextMaps, PtyInvariance, PTL DEF Spec, ConduitSpec, Conduit!Spec
=============================================================================
