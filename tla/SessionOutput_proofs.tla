------------------------ MODULE SessionOutput_proofs ------------------------
(***************************************************************************)
(* Theorems about SessionOutput, for any sinks and any sizes: what a sink  *)
(* is sent is its replay, one end of it, and then the live output without  *)
(* a gap or a repetition; the pump's buffer is bounded; and what a client  *)
(* has not acked is what its credit lacks of the window.                   *)
(*                                                                         *)
(* The sizes are those of OutputAssumption.  The order of the output needs *)
(* only that they are positive; the types also that a search for a newline *)
(* ends within the ring, and the account of a sink that its window does    *)
(* not open wider than the most it may.                                    *)
(***************************************************************************)
EXTENDS SessionOutput, SequenceTheorems, WellFoundedInduction, TLAPS

\* What the outbox of one sink looks like.

Frames == [kind : Kinds, from : Int, to : Int]

\* Nothing of it tells the client that its replay is over.
Replaying(fs) == \A i \in DOMAIN fs : fs[i].kind \notin {"ReplayEnd", "Output"}

\* There is no live output in it.
Silent(fs) == \A i \in DOMAIN fs : fs[i].kind # "Output"

\* ReplayThenLive, of one outbox.
Sorted(fs) ==
  \A i, j \in DOMAIN fs :
    i < j /\ fs[i].kind \in {"ReplayEnd", "Output"} => fs[j].kind \notin {"Replay", "ReplayEnd"}

\* LiveOutputInOrder, of one outbox.
Gapless(fs) == \A i, j \in DOMAIN fs : NextLive(fs, i, j) => fs[i].to = fs[j].from

\* Its live output ends with byte n, if it has any.
EndsAt(fs, n) ==
  \A i \in DOMAIN fs :
    fs[i].kind = "Output" /\ (\A k \in (i + 1)..Len(fs) : fs[k].kind # "Output")
      => fs[i].to = n

\* A run of output frames that carries the bytes from a to b.
Carries(cs, a, b) ==
  /\ \A i \in DOMAIN cs : cs[i].kind = "Output"
  /\ \A i \in DOMAIN cs : i + 1 \in DOMAIN cs => cs[i].to = cs[i + 1].from
  /\ cs # <<>> => cs[1].from = a /\ cs[Len(cs)].to = b
  /\ cs = <<>> => a = b

\* The state of every part.
OutputShaped ==
  /\ {fed, base, tip} \subseteq Nat /\ base <= tip /\ tip <= fed /\ lost \in Int
  /\ feeding \subseteq Sinks
  /\ attacher \in [Sinks -> {"none", "replay", "check", "join", "done"}]
  /\ todo \in [Sinks -> Int \X Int]
  /\ credit \in [Sinks -> Int] /\ unacked \in [Sinks -> Int]
  /\ delivered \in [Sinks -> Nat]
  /\ closed \in [Sinks -> BOOLEAN]
  /\ frames \in [Sinks -> Seq(Frames)]
  /\ taken \in [Sinks -> Nat]

\* An outbox takes no frame it has no room for.
OutboxesHold ==
  \A s \in Sinks : taken[s] <= Len(frames[s]) /\ Len(frames[s]) - taken[s] <= OutboxFrames

\* What the terminal state was fed is in the buffer, except for one chunk while
\* the pump answers its queries and carries it over; it reads only below the ceiling.
PumpInOrder ==
  /\ pump \notin {"reply", "append"} => tip = fed
  /\ pump = "read" => Pending < FlushCeiling
  /\ pump \in {"reply", "append"} => fed - base < FlushCeiling + ReadMax
  /\ PendingBounded

\* A sink is in the list only once its attach is through, and has nothing live
\* before; from then on the buffer resumes where its output ends.
SinkInOrder(s) ==
  /\ s \in feeding => attacher[s] = "done"
  /\ attacher[s] \in {"none", "replay"} => Replaying(frames[s])
  /\ attacher[s] # "done" => Silent(frames[s]) /\ delivered[s] = 0
  /\ s \in Listening => delivered[s] <= Pending /\ EndsAt(frames[s], base + delivered[s])
  /\ Sorted(frames[s]) /\ Gapless(frames[s])

SinksInOrder == \A s \in Sinks : SinkInOrder(s)

OutputInv == OutputShaped /\ OutboxesHold /\ PumpInOrder /\ SinksInOrder

-----------------------------------------------------------------------------
\* Numbers.

\* A set of naturals that has a member has a least one.
LEMMA Least ==
  ASSUME NEW T, T \subseteq Nat, T # {}
  PROVE  Min(T) \in T /\ \A y \in T : Min(T) <= y
<1> DEFINE R == OpToRel(<, Nat)
<1>1. IsWellFoundedOn(R, Nat)
  BY NatLessThanWellFounded
<1>2. \A x, y \in Nat : <<y, x>> \in R <=> y < x
  BY Zenon DEF OpToRel
<1> HIDE DEF R
<1>3. PICK x \in T : \A y \in T : ~ (<<y, x>> \in R)
  BY <1>1, WFMin
<1>4. \A y \in T : x <= y
  <2> TAKE y \in T
  <2>1. ~ (y < x)
    BY <1>2, <1>3
  <2> QED
    BY <2>1
<1> QED
  BY <1>4 DEF Min

LEMMA MinOfTwo ==
  ASSUME NEW a \in Int, NEW b \in Int
  PROVE  Min({a, b}) = IF a <= b THEN a ELSE b
<1>1. \E x \in {a, b} : \A y \in {a, b} : x <= y
  OBVIOUS
<1>2. Min({a, b}) \in {a, b} /\ \A y \in {a, b} : Min({a, b}) <= y
  BY <1>1 DEF Min
<1> QED
  BY <1>2

\* All chunks but the last of those that hold p bytes are full.
LEMMA ChunksFill ==
  ASSUME NEW p \in Nat, NEW c \in Nat \ {0}, NEW n \in Nat \ {0}, n <= (p + c - 1) \div c
  PROVE  (n - 1) * c < p
<1> DEFINE q == (p + c - 1) \div c
<1>1. q \in Nat /\ q * c <= p + c - 1 /\ n <= q
  OBVIOUS
<1> HIDE DEF q
<1>2. n * c <= q * c
  BY <1>1
<1>3. (n - 1) * c = n * c - c
  OBVIOUS
<1> QED
  BY <1>1, <1>2, <1>3

-----------------------------------------------------------------------------
\* Outboxes.

\* What one more frame without live output does to an outbox.
LEMMA SendMark ==
  ASSUME NEW fs \in Seq(Frames), NEW f \in Frames, f.kind # "Output"
  PROVE  LET gs == Append(fs, f) IN
         /\ gs \in Seq(Frames) /\ Len(gs) = Len(fs) + 1
         /\ Replaying(fs) /\ f.kind # "ReplayEnd" => Replaying(gs)
         /\ Silent(fs) => Silent(gs)
         /\ Sorted(fs) /\ (Replaying(fs) \/ f.kind \notin {"Replay", "ReplayEnd"}) => Sorted(gs)
         /\ Gapless(fs) => Gapless(gs)
         /\ \A n : EndsAt(fs, n) => EndsAt(gs, n)
<1> DEFINE gs == Append(fs, f)
<1>1. /\ gs \in Seq(Frames) /\ Len(gs) = Len(fs) + 1
      /\ \A i \in 1..Len(fs) : gs[i] = fs[i]
      /\ gs[Len(fs) + 1] = f
  BY AppendProperties
<1>2. Len(fs) \in Nat /\ DOMAIN fs = 1..Len(fs) /\ DOMAIN gs = 1..(Len(fs) + 1)
  BY <1>1, LenProperties
<1> HIDE DEF gs
<1>3. Replaying(fs) /\ f.kind # "ReplayEnd" => Replaying(gs)
  BY <1>1, <1>2 DEF Replaying
<1>4. Silent(fs) => Silent(gs)
  BY <1>1, <1>2 DEF Silent
<1>5. Sorted(fs) /\ (Replaying(fs) \/ f.kind \notin {"Replay", "ReplayEnd"}) => Sorted(gs)
  BY <1>1, <1>2 DEF Replaying, Sorted
<1>6. Gapless(fs) => Gapless(gs)
  <2> SUFFICES ASSUME Gapless(fs), NEW i \in DOMAIN gs, NEW j \in DOMAIN gs, NextLive(gs, i, j)
               PROVE  gs[i].to = gs[j].from
    BY DEF Gapless
  <2>1. i \in 1..Len(fs) /\ j \in 1..Len(fs)
    BY <1>1, <1>2 DEF NextLive
  <2>2. NextLive(fs, i, j)
    BY <1>1, <1>2, <2>1 DEF NextLive
  <2> QED
    BY <1>1, <1>2, <2>1, <2>2 DEF Gapless
<1>7. ASSUME NEW n, EndsAt(fs, n) PROVE EndsAt(gs, n)
  <2> SUFFICES ASSUME NEW i \in DOMAIN gs, gs[i].kind = "Output",
                      \A k \in (i + 1)..Len(gs) : gs[k].kind # "Output"
               PROVE  gs[i].to = n
    BY DEF EndsAt
  <2>1. i \in 1..Len(fs)
    BY <1>1, <1>2
  <2>2. \A k \in (i + 1)..Len(fs) : fs[k].kind # "Output"
    BY <1>1, <1>2, <2>1
  <2> QED
    BY <1>1, <1>2, <1>7, <2>1, <2>2 DEF EndsAt
<1> QED
  BY <1>1, <1>3, <1>4, <1>5, <1>6, <1>7 DEF gs

\* What a run of output frames does to one.
LEMMA SendRun ==
  ASSUME NEW fs \in Seq(Frames), NEW cs \in Seq(Frames), NEW a, NEW b, Carries(cs, a, b),
         EndsAt(fs, a), Gapless(fs), Sorted(fs)
  PROVE  LET gs == fs \o cs IN
         /\ gs \in Seq(Frames) /\ Len(gs) = Len(fs) + Len(cs)
         /\ EndsAt(gs, b) /\ Gapless(gs) /\ Sorted(gs)
<1> DEFINE gs == fs \o cs
<1>1. /\ gs \in Seq(Frames) /\ Len(gs) = Len(fs) + Len(cs)
      /\ \A i \in 1..(Len(fs) + Len(cs)) : gs[i] = IF i <= Len(fs) THEN fs[i] ELSE cs[i - Len(fs)]
  BY ConcatProperties
<1>2. /\ Len(fs) \in Nat /\ Len(cs) \in Nat
      /\ DOMAIN fs = 1..Len(fs) /\ DOMAIN cs = 1..Len(cs)
      /\ DOMAIN gs = 1..(Len(fs) + Len(cs))
  BY <1>1, LenProperties
<1>3. CASE cs = <<>>
  <2>1. gs = fs /\ a = b
    BY <1>3, ConcatEmptySeq DEF Carries
  <2> QED
    BY <1>1, <2>1
<1>4. CASE cs # <<>>
  <2>1. Len(cs) >= 1
    BY <1>2, <1>4, EmptySeq
  <2> HIDE DEF gs
  <2>2. \A i \in (Len(fs) + 1)..(Len(fs) + Len(cs)) : gs[i].kind = "Output"
    <3> TAKE i \in (Len(fs) + 1)..(Len(fs) + Len(cs))
    <3>1. i - Len(fs) \in DOMAIN cs /\ gs[i] = cs[i - Len(fs)]
      BY <1>1, <1>2
    <3> QED
      BY <3>1 DEF Carries
  <2>3. EndsAt(gs, b)
    <3> SUFFICES ASSUME NEW i \in DOMAIN gs, gs[i].kind = "Output",
                        \A k \in (i + 1)..Len(gs) : gs[k].kind # "Output"
                 PROVE  gs[i].to = b
      BY DEF EndsAt
    <3>1. i = Len(fs) + Len(cs)
      BY <1>1, <1>2, <2>1, <2>2
    <3>2. gs[i] = cs[Len(cs)]
      BY <1>1, <1>2, <2>1, <3>1
    <3> QED
      BY <1>4, <3>2 DEF Carries
  <2>4. Gapless(gs)
    <3> SUFFICES ASSUME NEW i \in DOMAIN gs, NEW j \in DOMAIN gs, NextLive(gs, i, j)
                 PROVE  gs[i].to = gs[j].from
      BY DEF Gapless
    <3>1. CASE j <= Len(fs)
      <4>1. i \in DOMAIN fs /\ j \in DOMAIN fs /\ gs[i] = fs[i] /\ gs[j] = fs[j]
        BY <1>1, <1>2, <3>1 DEF NextLive
      <4>2. NextLive(fs, i, j)
        BY <1>1, <1>2, <3>1, <4>1 DEF NextLive
      <4> QED
        BY <4>1, <4>2 DEF Gapless
    <3>2. CASE i <= Len(fs) /\ j > Len(fs)
      <4>1. j = Len(fs) + 1
        BY <1>2, <2>1, <2>2, <3>2 DEF NextLive
      <4>2. i \in DOMAIN fs /\ gs[i] = fs[i] /\ gs[j] = cs[1]
        BY <1>1, <1>2, <2>1, <3>2, <4>1
      <4>3. \A k \in (i + 1)..Len(fs) : fs[k].kind # "Output"
        BY <1>1, <1>2, <4>1, <4>2 DEF NextLive
      <4>4. fs[i].to = a
        BY <4>2, <4>3 DEF EndsAt, NextLive
      <4> QED
        BY <1>4, <4>2, <4>4 DEF Carries
    <3>3. CASE i > Len(fs)
      <4>1. j = i + 1
        <5>1. i \in Nat /\ j \in Nat /\ i < j /\ j <= Len(fs) + Len(cs)
          BY <1>2 DEF NextLive
        <5>2. i + 1 \notin (i + 1)..(j - 1)
          BY <1>2, <2>2, <3>3, <5>1 DEF NextLive
        <5> QED
          BY <5>1, <5>2
      <4>2. /\ i - Len(fs) \in DOMAIN cs /\ (i - Len(fs)) + 1 \in DOMAIN cs
            /\ gs[i] = cs[i - Len(fs)] /\ gs[j] = cs[(i - Len(fs)) + 1]
        BY <1>1, <1>2, <3>3, <4>1
      <4> QED
        BY <4>2 DEF Carries
    <3> QED
      BY <1>2, <3>1, <3>2, <3>3
  <2>5. Sorted(gs)
    BY <1>1, <1>2, <2>2 DEF Sorted
  <2> QED
    BY <1>1, <2>3, <2>4, <2>5 DEF gs
<1> QED
  BY <1>3, <1>4
-----------------------------------------------------------------------------
\* What flush_all does.

\* The chunks of a stretch of bytes carry it.
LEMMA ChunkedCarries ==
  ASSUME NEW a \in Int, NEW b \in Int, NEW n \in Nat, a <= b, b <= a + n * Chunk,
         n # 0 => (n - 1) * Chunk < b - a
  PROVE  LET cs == Chunked("Output", a, b, n) IN
         /\ cs \in Seq(Frames) /\ Len(cs) = n
         /\ Carries(cs, a, b)
<1> DEFINE cs == Chunked("Output", a, b, n)
<1>1. Chunk \in Nat \ {0}
  BY OutputAssumption
<1>2. \A i \in 1..n :
        /\ cs[i].kind = "Output" /\ cs[i].from = a + (i - 1) * Chunk
        /\ cs[i].to = IF b <= a + i * Chunk THEN b ELSE a + i * Chunk
        /\ cs[i] \in Frames
  <2> TAKE i \in 1..n
  <2>1. a + (i - 1) * Chunk \in Int /\ a + i * Chunk \in Int
    BY <1>1
  <2>2. Min({b, a + i * Chunk}) = IF b <= a + i * Chunk THEN b ELSE a + i * Chunk
    BY <2>1, MinOfTwo
  <2> QED
    BY <2>1, <2>2 DEF Chunked, Frames, Kinds
<1>3. DOMAIN cs = 1..n /\ cs \in [1..n -> Frames]
  BY <1>2 DEF Chunked
<1> HIDE DEF cs
<1>4. cs \in Seq(Frames) /\ Len(cs) = n
  BY <1>3
<1>5. \A i \in 1..n : i + 1 \in 1..n => cs[i].to = cs[i + 1].from
  <2> SUFFICES ASSUME NEW i \in 1..n, i + 1 \in 1..n
               PROVE  cs[i].to = cs[i + 1].from
    OBVIOUS
  <2>1. i * Chunk <= (n - 1) * Chunk
    BY <1>1
  <2>2. a + i * Chunk < b
    BY <1>1, <2>1
  <2>3. (i + 1) - 1 = i
    OBVIOUS
  <2> QED
    BY <1>1, <1>2, <2>2, <2>3
<1>6. n # 0 => cs[1].from = a /\ cs[n].to = b
  BY <1>1, <1>2
<1>7. cs = <<>> <=> n = 0
  BY <1>3, <1>4, EmptySeq
<1>8. n = 0 => a = b
  BY <1>1
<1>9. Carries(cs, a, b)
  BY <1>2, <1>3, <1>4, <1>5, <1>6, <1>7, <1>8 DEF Carries
<1> QED
  BY <1>4, <1>9 DEF cs

\* A sink is never sent more chunks than its outbox has room for.
LEMMA AffordableFits ==
  ASSUME OutputShaped, OutboxesHold, NEW s \in Sinks
  PROVE  Room(s) \in Nat /\ Affordable(s) \in Nat /\ Affordable(s) <= Room(s)
<1>1. Chunk \in Nat \ {0} /\ OutboxFrames \in Nat
  BY OutputAssumption
<1>2. credit[s] \in Int
  BY DEF OutputShaped
<1>3. Room(s) \in Nat
  <2>1. Len(frames[s]) \in Nat /\ taken[s] \in Nat
    BY LenProperties DEF OutputShaped
  <2> QED
    BY <1>1, <2>1 DEF OutboxesHold, Room
<1>4. Affordable(s) \in Nat /\ Affordable(s) <= Room(s)
  <2>1. CASE Blocked(s)
    BY <1>3, <2>1 DEF Affordable
  <2>2. CASE ~Blocked(s)
    <3>1. credit[s] + Chunk - 1 \in Nat
      BY <1>1, <1>2, <2>2 DEF Blocked
    <3>2. (credit[s] + Chunk - 1) \div Chunk \in Nat
      BY <1>1, <3>1
    <3>3. Affordable(s) = Min({Room(s), (credit[s] + Chunk - 1) \div Chunk})
      BY <2>2 DEF Affordable
    <3> QED
      BY <1>3, <3>2, <3>3, MinOfTwo
  <2> QED
    BY <2>1, <2>2
<1> QED
  BY <1>3, <1>4

\* How far it gets with one sink.
LEMMA Offer ==
  ASSUME OutputShaped, OutboxesHold, NEW s \in Sinks, delivered[s] <= Pending
  PROVE  /\ Resume(s) = delivered[s]
         /\ Chunks(s) \in Nat /\ Chunks(s) <= Room(s)
         /\ Done(s) \in Nat /\ Resume(s) <= Done(s) /\ Done(s) <= Pending
         /\ Done(s) <= Resume(s) + Chunks(s) * Chunk
         /\ Chunks(s) # 0 => (Chunks(s) - 1) * Chunk < Done(s) - Resume(s)
<1>1. Chunk \in Nat \ {0} /\ OutboxFrames \in Nat
  BY OutputAssumption
<1>2. Pending \in Nat /\ delivered[s] \in Nat /\ credit[s] \in Int
  BY DEF OutputShaped, Pending
<1>3. Room(s) \in Nat /\ Affordable(s) \in Nat /\ Affordable(s) <= Room(s)
  BY AffordableFits
<1>4. Resume(s) = delivered[s]
  BY <1>2, MinOfTwo DEF Resume
<1> DEFINE p == Pending - Resume(s)
           q == (p + Chunk - 1) \div Chunk
<1>6. p \in Nat /\ q \in Nat
  BY <1>1, <1>2, <1>4
<1>7. Chunks(s) \in Nat /\ Chunks(s) <= Affordable(s) /\ Chunks(s) <= q
  <2>1. Chunks(s) = Min({Affordable(s), q})
    BY DEF Chunks
  <2> QED
    BY <1>3, <1>6, <2>1, MinOfTwo
<1>8. Chunks(s) # 0 => (Chunks(s) - 1) * Chunk < p
  BY <1>1, <1>6, <1>7, ChunksFill
<1> HIDE DEF p, q
<1>9. Chunks(s) * Chunk \in Nat /\ (Chunks(s) # 0 => (Chunks(s) - 1) * Chunk = Chunks(s) * Chunk - Chunk)
  BY <1>1, <1>7
<1>10. Done(s) = IF Pending <= Resume(s) + Chunks(s) * Chunk THEN Pending ELSE Resume(s) + Chunks(s) * Chunk
  BY <1>2, <1>4, <1>9, MinOfTwo DEF Done
<1>11. Done(s) \in Nat /\ Resume(s) <= Done(s) /\ Done(s) <= Pending
       /\ Done(s) <= Resume(s) + Chunks(s) * Chunk
  BY <1>2, <1>4, <1>9, <1>10
<1>12. Chunks(s) # 0 => (Chunks(s) - 1) * Chunk < Done(s) - Resume(s)
  <2> SUFFICES ASSUME Chunks(s) # 0
               PROVE  (Chunks(s) - 1) * Chunk < Done(s) - Resume(s)
    OBVIOUS
  <2> DEFINE c == Chunks(s) * Chunk
  <2>1. c \in Nat /\ c - Chunk < p /\ (Chunks(s) - 1) * Chunk = c - Chunk
    BY <1>8, <1>9
  <2>2. Done(s) = IF Pending <= Resume(s) + c THEN Pending ELSE Resume(s) + c
    BY <1>10
  <2> HIDE DEF c
  <2> QED
    BY <1>1, <1>2, <1>4, <2>1, <2>2 DEF p
<1> QED
  BY <1>3, <1>4, <1>7, <1>11, <1>12

\* What it leaves behind: every sink that still listens has its run of output
\* appended, and the buffer begins where the slowest of them stopped.
LEMMA FlushAllEffect ==
  ASSUME OutputShaped, OutboxesHold, SinksInOrder, FlushAll
  PROVE  /\ base' \in Nat /\ base <= base' /\ base' <= tip /\ tip' = tip
         /\ feeding' \subseteq feeding
         /\ credit' \in [Sinks -> Int] /\ delivered' \in [Sinks -> Nat]
         /\ frames' \in [Sinks -> Seq(Frames)]
         /\ \A s \in Sinks \ Listening : frames'[s] = frames[s] /\ delivered'[s] = delivered[s]
         /\ \A s \in Listening :
              /\ delivered'[s] <= tip - base'
              /\ Len(frames'[s]) >= Len(frames[s]) /\ Len(frames'[s]) - Len(frames[s]) <= Room(s)
              /\ EndsAt(frames'[s], base' + delivered'[s])
              /\ Gapless(frames'[s]) /\ Sorted(frames'[s])
<1>1. /\ base \in Nat /\ tip \in Nat /\ base <= tip /\ Pending \in Nat
      /\ feeding \subseteq Sinks /\ Listening \subseteq feeding
      /\ credit \in [Sinks -> Int] /\ delivered \in [Sinks -> Nat]
      /\ frames \in [Sinks -> Seq(Frames)] /\ taken \in [Sinks -> Nat]
  BY DEF OutputShaped, Pending, Listening
<1>2. \A s \in Listening :
        /\ s \in Sinks /\ delivered[s] <= Pending /\ EndsAt(frames[s], base + delivered[s])
        /\ Gapless(frames[s]) /\ Sorted(frames[s])
  BY <1>1 DEF SinksInOrder, SinkInOrder
<1>3. \A s \in Sinks : Len(frames[s]) \in Nat /\ Room(s) \in Nat
  <2> TAKE s \in Sinks
  <2>1. Len(frames[s]) \in Nat
    BY <1>1, LenProperties
  <2> QED
    BY <1>1, <2>1, OutputAssumption DEF OutboxesHold, Room
<1>4. CASE UNCHANGED bufferVars
  BY <1>1, <1>2, <1>3, <1>4 DEF bufferVars, Pending
<1>5. CASE /\ Pending > 0 /\ Listening = {}
           /\ feeding' = {} /\ base' = tip
           /\ UNCHANGED <<tip, delivered, credit, frames>>
  BY <1>1, <1>5
<1>6. CASE /\ Pending > 0 /\ Listening # {}
           /\ feeding' = Listening
           /\ base' = base + Common
           /\ frames' = [s \in Sinks |->
                IF s \in Listening
                  THEN frames[s] \o Chunked("Output", base + Resume(s), base + Done(s), Chunks(s))
                  ELSE frames[s]]
           /\ credit' = [s \in Sinks |->
                IF s \in Listening THEN credit[s] - (Done(s) - Resume(s)) ELSE credit[s]]
           /\ delivered' = [s \in Sinks |->
                IF s \in Listening THEN Done(s) - Common ELSE delivered[s]]
           /\ UNCHANGED tip
  <2>1. \A s \in Listening :
          /\ Resume(s) = delivered[s]
          /\ Chunks(s) \in Nat /\ Chunks(s) <= Room(s)
          /\ Done(s) \in Nat /\ Resume(s) <= Done(s) /\ Done(s) <= Pending
          /\ Done(s) <= Resume(s) + Chunks(s) * Chunk
          /\ Chunks(s) # 0 => (Chunks(s) - 1) * Chunk < Done(s) - Resume(s)
    BY <1>2, Offer
  <2>2. Common \in Nat /\ Common <= Pending /\ \A s \in Listening : Common <= Done(s)
    <3> DEFINE T == {Done(s) : s \in Listening}
    <3>1. T \subseteq Nat /\ T # {} /\ Common = Min(T)
      BY <1>6, <2>1 DEF Common
    <3>2. \A y \in T : y <= Pending
      BY <2>1
    <3> HIDE DEF T
    <3>3. Min(T) \in T /\ \A y \in T : Min(T) <= y
      BY <3>1, Least
    <3>4. \A s \in Listening : Done(s) \in T
      BY DEF T
    <3> QED
      BY <3>1, <3>2, <3>3, <3>4
  <2>3. /\ base' = base + Common /\ base' \in Nat /\ base <= base' /\ base' <= tip /\ tip' = tip
    BY <1>1, <1>6, <2>2 DEF Pending
  <2>4. ASSUME NEW s \in Listening
        PROVE  LET cs == Chunked("Output", base + Resume(s), base + Done(s), Chunks(s)) IN
               /\ cs \in Seq(Frames) /\ Len(cs) = Chunks(s)
               /\ Carries(cs, base + Resume(s), base + Done(s))
    <3>1. /\ base + Resume(s) \in Int /\ base + Done(s) \in Int
          /\ base + Resume(s) <= base + Done(s)
          /\ (base + Done(s)) - (base + Resume(s)) = Done(s) - Resume(s)
      BY <1>1, <1>2, <2>1
    <3>2. Chunks(s) * Chunk \in Nat
      BY <2>1, OutputAssumption
    <3>3. base + Done(s) <= (base + Resume(s)) + Chunks(s) * Chunk
      BY <1>1, <1>2, <2>1, <3>2
    <3> QED
      BY <2>1, <3>1, <3>3, ChunkedCarries
  <2>5. ASSUME NEW s \in Listening
        PROVE  /\ delivered'[s] \in Nat /\ delivered'[s] = Done(s) - Common
               /\ delivered'[s] <= tip - base' /\ base' + delivered'[s] = base + Done(s)
    <3>1. delivered'[s] = Done(s) - Common
      BY <1>2, <1>6
    <3>2. Done(s) \in Nat /\ Common \in Nat /\ Common <= Done(s) /\ Done(s) <= Pending
      BY <2>1, <2>2
    <3> QED
      BY <1>1, <2>3, <3>1, <3>2 DEF Pending
  <2>6. ASSUME NEW s \in Listening
        PROVE  /\ frames'[s] \in Seq(Frames) /\ Len(frames'[s]) = Len(frames[s]) + Chunks(s)
               /\ EndsAt(frames'[s], base' + delivered'[s])
               /\ Gapless(frames'[s]) /\ Sorted(frames'[s])
    <3> DEFINE cs == Chunked("Output", base + Resume(s), base + Done(s), Chunks(s))
    <3>1. frames'[s] = frames[s] \o cs /\ frames[s] \in Seq(Frames)
      BY <1>1, <1>2, <1>6
    <3>2. cs \in Seq(Frames) /\ Len(cs) = Chunks(s) /\ Carries(cs, base + Resume(s), base + Done(s))
      BY <2>4
    <3> HIDE DEF cs
    <3>3. EndsAt(frames[s], base + Resume(s)) /\ Gapless(frames[s]) /\ Sorted(frames[s])
      BY <1>2, <2>1
    <3> QED
      BY <2>5, <3>1, <3>2, <3>3, SendRun
  <2>7. \A s \in Sinks \ Listening : frames'[s] = frames[s] /\ delivered'[s] = delivered[s]
    BY <1>6
  <2>8. frames' \in [Sinks -> Seq(Frames)]
    <3>1. \A s \in Sinks : frames'[s] \in Seq(Frames)
      BY <1>1, <2>6, <2>7
    <3> QED
      BY <1>6, <3>1
  <2>9. delivered' \in [Sinks -> Nat]
    <3>1. \A s \in Sinks : delivered'[s] \in Nat
      BY <1>1, <2>5, <2>7
    <3> QED
      BY <1>6, <3>1
  <2>10. credit' \in [Sinks -> Int]
    <3>1. \A s \in Listening : credit[s] - (Done(s) - Resume(s)) \in Int
      BY <1>1, <1>2, <2>1
    <3> QED
      BY <1>1, <1>6, <3>1
  <2>11. \A s \in Listening :
           Len(frames'[s]) >= Len(frames[s]) /\ Len(frames'[s]) - Len(frames[s]) <= Room(s)
    <3> TAKE s \in Listening
    <3>1. Len(frames[s]) \in Nat /\ Chunks(s) \in Nat /\ Chunks(s) <= Room(s) /\ Room(s) \in Nat
      BY <1>2, <1>3, <2>1
    <3>2. Len(frames'[s]) = Len(frames[s]) + Chunks(s)
      BY <2>6
    <3> QED
      BY <3>1, <3>2
  <2> QED
    BY <1>1, <1>6, <2>3, <2>5, <2>6, <2>7, <2>8, <2>9, <2>10, <2>11
<1> QED
  BY <1>4, <1>5, <1>6 DEF FlushAll
-----------------------------------------------------------------------------
\* Every step keeps the invariant.

LEMMA Initially == Init => OutputInv
<1> SUFFICES ASSUME Init
             PROVE  OutputInv
  OBVIOUS
<1>1. /\ {MaxBytes, ReadMax, FlushCeiling, Initial, OutboxFrames} \subseteq Nat \ {0}
  BY OutputAssumption
<1>2. <<>> \in Seq(Frames) /\ Len(<<>>) = 0 /\ DOMAIN <<>> = {}
  OBVIOUS
<1>3. OutputShaped
  BY <1>1, <1>2 DEF Init, OutputShaped
<1>4. OutboxesHold
  BY <1>1, <1>2 DEF Init, OutboxesHold
<1>5. PumpInOrder
  BY <1>1 DEF Init, PumpInOrder, PendingBounded, Pending
<1>6. SinksInOrder
  BY <1>2 DEF Init, SinksInOrder, SinkInOrder, Replaying, Silent, Sorted, Gapless, Listening
<1> QED
  BY <1>3, <1>4, <1>5, <1>6 DEF OutputInv

\* What `send` leaves in the outbox when it is given a mark.
LEMMA SendingEffect ==
  ASSUME OutputShaped, OutboxesHold, NEW s \in Sinks, NEW kind \in Kinds
  PROVE  /\ Sending(s, kind) \in {frames[s], Append(frames[s], Mark(kind))}
         /\ Sending(s, kind) \in Seq(Frames) /\ Mark(kind) \in Frames
         /\ taken[s] <= Len(Sending(s, kind))
         /\ Len(Sending(s, kind)) - taken[s] <= OutboxFrames
<1>1. frames[s] \in Seq(Frames) /\ taken[s] \in Nat /\ OutboxFrames \in Nat
  BY OutputAssumption DEF OutputShaped
<1>2. Len(frames[s]) \in Nat /\ taken[s] <= Len(frames[s]) /\ Len(frames[s]) - taken[s] <= OutboxFrames
  BY <1>1, LenProperties DEF OutboxesHold
<1>3. Mark(kind) \in Frames
  BY DEF Mark, Frames
<1>4. Append(frames[s], Mark(kind)) \in Seq(Frames) /\ Len(Append(frames[s], Mark(kind))) = Len(frames[s]) + 1
  BY <1>1, <1>3, AppendProperties
<1>5. CASE closed[s] \/ Room(s) = 0
  BY <1>1, <1>2, <1>3, <1>5 DEF Sending
<1>6. CASE ~(closed[s] \/ Room(s) = 0)
  BY <1>1, <1>2, <1>3, <1>4, <1>6 DEF Sending, Room
<1> QED
  BY <1>5, <1>6

\* A step that takes no bytes from the buffer, lets no sink into the list, and
\* sends at most the news of an exit.
LEMMA NewsKeepsOrder ==
  ASSUME OutputInv, UNCHANGED <<base, attacher, delivered>>, tip' \in Nat, tip <= tip',
         feeding' \subseteq feeding, \A s \in Sinks : closed[s] => closed'[s],
         \A s \in Sinks : frames'[s] \in {frames[s], Append(frames[s], Mark("Exit"))}
  PROVE  SinksInOrder'
<1> SUFFICES ASSUME NEW s \in Sinks
             PROVE  SinkInOrder(s)'
  BY DEF SinksInOrder
<1>1. SinkInOrder(s) /\ base \in Nat /\ tip \in Nat /\ delivered[s] \in Nat /\ frames[s] \in Seq(Frames)
  BY DEF OutputInv, SinksInOrder, OutputShaped
<1>2. s \in Listening' => s \in Listening
  BY DEF Listening
<1>3. /\ Replaying(frames[s]) => Replaying(frames'[s])
      /\ Silent(frames[s]) => Silent(frames'[s])
      /\ Sorted(frames'[s]) /\ Gapless(frames'[s])
      /\ EndsAt(frames[s], base + delivered[s]) => EndsAt(frames'[s], base + delivered[s])
  <2>1. CASE frames'[s] = frames[s]
    BY <1>1, <2>1 DEF SinkInOrder
  <2>2. CASE frames'[s] = Append(frames[s], Mark("Exit"))
    <3>1. Mark("Exit") \in Frames /\ Mark("Exit").kind = "Exit"
      BY DEF Mark, Frames, Kinds
    <3> QED
      BY <1>1, <2>2, <3>1, SendMark DEF SinkInOrder
  <2> QED
    BY <2>1, <2>2
<1>4. s \in Listening' => delivered[s] <= tip' - base
  BY <1>1, <1>2 DEF SinkInOrder, Pending
<1> QED
  BY <1>1, <1>2, <1>3, <1>4 DEF SinkInOrder, Pending

\* Where the ring begins is a byte, aligned or not.
LEMMA TrimmedIsNumber ==
  ASSUME OutputShaped, NEW n \in 1..ReadMax
  PROVE  Trimmed(n) \in Int
<1> DEFINE cut  == fed + n - Ring
           near == {b \in Newlines : cut < b /\ b <= cut + AlignScan}
<1>1. cut \in Int /\ lost \in Int /\ near \subseteq Nat
  <2>1. fed \in Nat /\ lost \in Int /\ Ring \in Nat /\ ReadMax \in Nat
    BY OutputAssumption DEF OutputShaped
  <2>2. Newlines \subseteq Nat
    BY OutputAssumption
  <2>3. n \in Nat /\ near \subseteq Newlines
    BY <2>1
  <2>4. cut \in Int
    BY <2>1, <2>3
  <2> HIDE DEF near, cut
  <2> QED
    BY <2>1, <2>2, <2>3, <2>4
<1>2. Trimmed(n) = IF cut <= lost THEN lost ELSE IF near = {} THEN cut ELSE Min(near)
  BY DEF Trimmed
<1> HIDE DEF cut, near
<1>3. near # {} => Min(near) \in Int
  <2> SUFFICES ASSUME near # {}
               PROVE  Min(near) \in Int
    OBVIOUS
  <2>1. Min(near) \in near
    BY <1>1, Least
  <2>2. Min(near) \in Nat
    BY Zenon, <1>1, <2>1
  <2> QED
    BY <2>2
<1> QED
  BY <1>1, <1>2, <1>3

\* Steps that send nothing.
LEMMA QuietKeeps ==
  ASSUME OutputInv,
         \/ PumpStops \/ PumpGates \/ PumpFeeds \/ PumpReplies \/ PumpAppends \/ PumpTimesOut \/ Ages
         \/ CloseStops \/ CloseShutsDown \/ CloseJoins \/ Exits \/ PipeEnds
         \/ \E s \in Sinks : Release(s)
  PROVE  OutputInv'
<1>1. /\ UNCHANGED <<base, attacher, todo, delivered, credit, frames, taken, unacked>>
      /\ feeding' \subseteq feeding
      /\ closed' \in [Sinks -> BOOLEAN] /\ \A s \in Sinks : closed[s] => closed'[s]
  <2>1. closed \in [Sinks -> BOOLEAN]
    BY DEF OutputInv, OutputShaped
  <2>2. CASE \E s \in Sinks : Release(s)
    BY <2>1, <2>2 DEF Release, bufferVars, attachVars
  <2>3. CASE ~ \E s \in Sinks : Release(s)
    BY <2>1, <2>3 DEF PumpStops, PumpGates, PumpFeeds, PumpReplies, PumpAppends, PumpTimesOut, Ages, CloseStops,
       CloseShutsDown, CloseJoins, Exits, PipeEnds, Listening, bufferVars, attachVars, clientVars
  <2> QED
    BY <2>2, <2>3
<1>2. /\ tip' \in Nat /\ fed' \in Nat /\ tip <= tip' /\ tip' <= fed'
      /\ PumpInOrder'
  <2>1. /\ fed \in Nat /\ base \in Nat /\ tip \in Nat /\ base <= tip /\ tip <= fed /\ PumpInOrder
        /\ ReadMax \in Nat /\ FlushCeiling \in Nat
    BY OutputAssumption DEF OutputInv, OutputShaped
  <2>2. CASE PumpFeeds
    BY <1>1, <2>1, <2>2 DEF PumpFeeds, PumpGoes, PumpInOrder, PendingBounded, Pending, bufferVars
  <2>3. CASE PumpAppends
    BY <1>1, <2>1, <2>3 DEF PumpAppends, PumpGoes, PumpInOrder, PendingBounded, Pending
  <2>4. CASE PumpGates
    BY <1>1, <2>1, <2>4 DEF PumpGates, PumpGoes, PumpInOrder, PendingBounded, Pending, Holds
  <2>5. CASE PumpStops \/ PumpReplies \/ PumpTimesOut
    BY <1>1, <2>1, <2>5 DEF PumpStops, PumpReplies, PumpTimesOut, PumpGoes, PumpInOrder, PendingBounded, Pending,
       bufferVars
  <2>6. CASE \/ Ages \/ CloseStops \/ CloseShutsDown \/ CloseJoins \/ Exits \/ PipeEnds
             \/ \E s \in Sinks : Release(s)
    <3>1. UNCHANGED <<fed, base, tip, pump>>
      BY <2>6 DEF Ages, CloseStops, CloseShutsDown, CloseJoins, Exits, PipeEnds, Release, bufferVars, pumpVars
    <3> QED
      BY <2>1, <3>1 DEF PumpInOrder, PendingBounded, Pending
  <2> QED
    BY <2>2, <2>3, <2>4, <2>5, <2>6
<1>3. lost' \in Int
  <2>1. CASE PumpFeeds
    <3>1. PICK n \in 1..ReadMax : lost' = Trimmed(n)
      BY <2>1 DEF PumpFeeds
    <3> QED
      BY <3>1, TrimmedIsNumber DEF OutputInv
  <2>2. CASE ~PumpFeeds
    <3>1. lost' = lost
      BY <2>2 DEF PumpStops, PumpGates, PumpReplies, PumpAppends, PumpTimesOut, Ages, CloseStops, CloseShutsDown,
         CloseJoins, Exits, PipeEnds, Release, pumpVars
    <3> QED
      BY <3>1 DEF OutputInv, OutputShaped
  <2> QED
    BY <2>1, <2>2
<1>4. OutputShaped'
  <2>1. OutputShaped
    BY DEF OutputInv
  <2>2. {fed', base', tip'} \subseteq Nat /\ base' <= tip' /\ tip' <= fed' /\ lost' \in Int
    BY <1>1, <1>2, <1>3, <2>1 DEF OutputShaped
  <2> QED
    BY <1>1, <2>1, <2>2 DEF OutputShaped
<1>5. OutboxesHold'
  BY <1>1 DEF OutputInv, OutboxesHold
<1>6. SinksInOrder'
  BY <1>1, <1>2, NewsKeepsOrder
<1> QED
  BY <1>2, <1>4, <1>5, <1>6 DEF OutputInv

\* The client's side.
LEMMA ClientKeeps ==
  ASSUME OutputInv, NEW s \in Sinks, Deliver(s) \/ Ack(s)
  PROVE  OutputInv'
<1>1. /\ UNCHANGED <<fed, lost, base, tip, pump, feeding, attacher, todo, delivered, closed, frames>>
  BY DEF Deliver, Ack, bufferVars, pumpVars, attachVars
<1>2. OutputShaped /\ OutboxesHold /\ frames[s] \in Seq(Frames) /\ taken[s] \in Nat /\ Len(frames[s]) \in Nat
  BY LenProperties DEF OutputInv, OutputShaped
<1>3. /\ taken' \in [Sinks -> Nat] /\ unacked' \in [Sinks -> Int] /\ credit' \in [Sinks -> Int]
      /\ \A t \in Sinks : taken'[t] # taken[t] => taken[t] < Len(frames[t]) /\ taken'[t] = taken[t] + 1
  <2>1. CASE Deliver(s)
    <3>1. frames[s][taken[s] + 1] \in Frames
      BY <1>2, <2>1, ElementOfSeq DEF Deliver
    <3>2. frames[s][taken[s] + 1].to - frames[s][taken[s] + 1].from \in Int
      BY <3>1 DEF Frames
    <3>3. unacked' \in [Sinks -> Int]
      BY <1>2, <2>1, <3>2 DEF Deliver, OutputShaped
    <3> QED
      <4>1. taken' = [taken EXCEPT ![s] = taken[s] + 1] /\ credit' = credit /\ taken[s] < Len(frames[s])
        BY <2>1 DEF Deliver, bufferVars
      <4>2. taken \in [Sinks -> Nat] /\ credit \in [Sinks -> Int]
        BY <1>2 DEF OutputShaped
      <4> QED
        BY <3>3, <4>1, <4>2
  <2>2. CASE Ack(s)
    <3>1. unacked[s] \in Int /\ credit[s] \in Int /\ Maximum \in Nat
      BY <1>2, OutputAssumption DEF OutputShaped
    <3>2. Replenished(s, unacked[s]) \in Int
      BY <3>1, MinOfTwo DEF Replenished
    <3> QED
      <4>1. /\ unacked' = [unacked EXCEPT ![s] = 0] /\ taken' = taken
            /\ credit' = [credit EXCEPT ![s] = Replenished(s, unacked[s])]
        BY <2>2 DEF Ack
      <4>2. /\ taken \in [Sinks -> Nat] /\ credit \in [Sinks -> Int] /\ unacked \in [Sinks -> Int]
        BY <1>2 DEF OutputShaped
      <4>3. credit' \in [Sinks -> Int]
        BY <3>2, <4>1, <4>2
      <4>4. unacked' \in [Sinks -> Int]
        BY <4>1, <4>2
      <4> QED
        BY <4>1, <4>2, <4>3, <4>4
  <2> QED
    BY <2>1, <2>2
<1>4. OutputShaped'
  BY <1>1, <1>2, <1>3 DEF OutputShaped
<1>5. OutboxesHold'
  <2>1. \A t \in Sinks : Len(frames[t]) \in Nat /\ taken[t] \in Nat
    BY <1>2, LenProperties DEF OutputShaped
  <2> QED
    <3>1. OutboxFrames \in Nat
      BY OutputAssumption
    <3> SUFFICES ASSUME NEW t \in Sinks
                 PROVE  taken'[t] <= Len(frames[t]) /\ Len(frames[t]) - taken'[t] <= OutboxFrames
      BY <1>1 DEF OutboxesHold
    <3>2. taken[t] <= Len(frames[t]) /\ Len(frames[t]) - taken[t] <= OutboxFrames
      BY <1>2 DEF OutboxesHold
    <3>3. taken'[t] \in Nat /\ (taken'[t] # taken[t] => taken[t] < Len(frames[t]) /\ taken'[t] = taken[t] + 1)
      BY <1>3
    <3> QED
      BY <2>1, <3>1, <3>2, <3>3
<1>6. PumpInOrder'
  BY <1>1 DEF OutputInv, PumpInOrder, PendingBounded, Pending
<1>7. SinksInOrder'
  BY <1>1, <1>2, NewsKeepsOrder DEF OutputShaped
<1> QED
  BY <1>4, <1>5, <1>6, <1>7 DEF OutputInv

\* The two steps that tell every sink in the list of the exit.
LEMMA NewsKeeps ==
  ASSUME OutputInv, PumpAnnounces \/ CloseDrains
  PROVE  OutputInv'
<1>1. /\ UNCHANGED <<fed, lost, base, tip, attacher, todo, delivered, credit, taken, unacked>>
      /\ feeding' \subseteq feeding
      /\ closed' \in [Sinks -> BOOLEAN] /\ \A s \in Sinks : closed[s] => closed'[s]
      /\ \E T \in SUBSET Sinks :
           frames' = [s \in Sinks |-> IF s \in T THEN Sending(s, "Exit") ELSE frames[s]]
  <2>1. feeding \subseteq Sinks /\ closed \in [Sinks -> BOOLEAN]
    BY DEF OutputInv, OutputShaped
  <2>2. CASE PumpAnnounces
    BY <2>1, <2>2 DEF PumpAnnounces, attachVars, clientVars
  <2>3. CASE CloseDrains
    <3>1. frames' = [s \in Sinks |-> IF s \in {t \in feeding : status} THEN Sending(s, "Exit") ELSE frames[s]]
      BY <2>3 DEF CloseDrains
    <3>2. {t \in feeding : status} \in SUBSET Sinks
      BY <2>1
    <3> QED
      BY <2>1, <2>3, <3>1, <3>2 DEF CloseDrains, pumpVars, attachVars
  <2> QED
    BY <2>2, <2>3
<1>2. PICK T \in SUBSET Sinks :
        frames' = [s \in Sinks |-> IF s \in T THEN Sending(s, "Exit") ELSE frames[s]]
  BY <1>1
<1>3. \A s \in Sinks :
        /\ frames'[s] \in {frames[s], Append(frames[s], Mark("Exit"))}
        /\ frames'[s] \in Seq(Frames)
        /\ taken[s] <= Len(frames'[s]) /\ Len(frames'[s]) - taken[s] <= OutboxFrames
  <2> TAKE s \in Sinks
  <2>1. OutputShaped /\ OutboxesHold /\ "Exit" \in Kinds
    BY DEF OutputInv, Kinds
  <2>2. CASE s \in T
    BY <1>2, <2>1, <2>2, SendingEffect
  <2>3. CASE s \notin T
    BY <1>2, <2>1, <2>3 DEF OutputShaped, OutboxesHold
  <2> QED
    BY <2>2, <2>3
<1>4. OutputShaped'
  <2>1. frames' \in [Sinks -> Seq(Frames)]
    BY <1>2, <1>3
  <2> QED
    BY <1>1, <2>1 DEF OutputInv, OutputShaped
<1>5. OutboxesHold'
  BY <1>1, <1>3 DEF OutboxesHold
<1>6. PumpInOrder'
  BY <1>1 DEF OutputInv, PumpInOrder, PendingBounded, Pending, PumpAnnounces, CloseDrains, PumpGoes, pumpVars
<1>7. SinksInOrder'
  BY <1>1, <1>3, NewsKeepsOrder DEF OutputInv, OutputShaped
<1> QED
  BY <1>4, <1>5, <1>6, <1>7 DEF OutputInv

\* The steps of the pump that flush.
LEMMA FlushKeeps ==
  ASSUME OutputInv, PumpFlushes \/ PumpSeesEof \/ PumpChecksExit \/ PumpEnds
  PROVE  OutputInv'
<1>1. /\ UNCHANGED <<fed, lost, attacher, todo, closed, taken, unacked>>
      /\ pump \notin {"reply", "append"} /\ pump' \notin {"reply", "append", "read"}
      /\ FlushAll \/ UNCHANGED bufferVars
  BY DEF PumpFlushes, PumpSeesEof, PumpChecksExit, PumpEnds, PumpGoes, attachVars, clientVars
<1>2. CASE UNCHANGED bufferVars
  <2>1. UNCHANGED <<base, tip, feeding, delivered, credit, frames>>
    BY <1>2 DEF bufferVars
  <2>2. OutputShaped'
    BY <1>1, <2>1 DEF OutputInv, OutputShaped
  <2>3. OutboxesHold'
    BY <1>1, <2>1 DEF OutputInv, OutboxesHold
  <2>4. PumpInOrder'
    BY <1>1, <2>1 DEF OutputInv, PumpInOrder, PendingBounded, Pending
  <2>5. SinksInOrder'
    BY <1>1, <2>1, NewsKeepsOrder DEF OutputInv, OutputShaped
  <2> QED
    BY <2>2, <2>3, <2>4, <2>5 DEF OutputInv
<1>3. CASE FlushAll
  <2> DEFINE Fed == /\ base' \in Nat /\ base <= base' /\ base' <= tip /\ tip' = tip
                    /\ feeding' \subseteq feeding
                    /\ credit' \in [Sinks -> Int] /\ delivered' \in [Sinks -> Nat]
                    /\ frames' \in [Sinks -> Seq(Frames)]
  <2>1. /\ Fed
        /\ \A s \in Sinks \ Listening : frames'[s] = frames[s] /\ delivered'[s] = delivered[s]
        /\ \A s \in Listening :
             /\ delivered'[s] <= tip - base'
             /\ Len(frames'[s]) >= Len(frames[s]) /\ Len(frames'[s]) - Len(frames[s]) <= Room(s)
             /\ EndsAt(frames'[s], base' + delivered'[s])
             /\ Gapless(frames'[s]) /\ Sorted(frames'[s])
    BY <1>3, FlushAllEffect DEF OutputInv
  <2>2. OutputShaped /\ base \in Nat /\ tip \in Nat
    BY DEF OutputInv, OutputShaped
  <2>3. OutputShaped'
    BY <1>1, <2>1, <2>2 DEF OutputShaped
  <2>4. OutboxesHold'
    <3> SUFFICES ASSUME NEW s \in Sinks
                 PROVE  taken[s] <= Len(frames'[s]) /\ Len(frames'[s]) - taken[s] <= OutboxFrames
      BY <1>1 DEF OutboxesHold
    <3>1. /\ taken[s] \in Nat /\ Len(frames[s]) \in Nat /\ Len(frames'[s]) \in Nat /\ OutboxFrames \in Nat
      BY <2>1, <2>2, LenProperties, OutputAssumption DEF OutputShaped
    <3>2. taken[s] <= Len(frames[s]) /\ Len(frames[s]) - taken[s] <= OutboxFrames
      BY DEF OutputInv, OutboxesHold
    <3>3. CASE s \in Listening
      <4>1. Len(frames'[s]) >= Len(frames[s]) /\ Len(frames'[s]) - Len(frames[s]) <= Room(s)
        BY <2>1, <3>3
      <4>2. Room(s) = OutboxFrames - (Len(frames[s]) - taken[s])
        BY DEF Room
      <4> DEFINE n == Len(frames[s])
                 m == Len(frames'[s])
      <4>3. n \in Nat /\ m \in Nat /\ m >= n /\ m - n <= OutboxFrames - (n - taken[s]) /\ taken[s] <= n
        BY <3>1, <3>2, <4>1, <4>2
      <4> HIDE DEF n, m
      <4>4. taken[s] <= m /\ m - taken[s] <= OutboxFrames
        BY <3>1, <4>3
      <4> QED
        BY <4>4 DEF m
    <3>4. CASE s \notin Listening
      BY <2>1, <3>2, <3>4
    <3> QED
      BY <3>3, <3>4
  <2>5. PumpInOrder'
    <3>1. PumpInOrder /\ FlushCeiling \in Nat /\ ReadMax \in Nat
      BY OutputAssumption DEF OutputInv
    <3>2. Pending < FlushCeiling + ReadMax
      BY <3>1 DEF PumpInOrder, PendingBounded
    <3> QED
      BY <1>1, <2>1, <2>2, <3>1, <3>2 DEF PumpInOrder, PendingBounded, Pending
  <2>6. SinksInOrder'
    <3> SUFFICES ASSUME NEW s \in Sinks
                 PROVE  SinkInOrder(s)'
      BY DEF SinksInOrder
    <3>1. SinkInOrder(s)
      BY DEF OutputInv, SinksInOrder
    <3>2. s \in Listening' => s \in Listening
      BY <1>1, <2>1 DEF Listening
    <3>3. CASE s \in Listening
      <4>1. attacher[s] = "done"
        BY <3>1, <3>3 DEF SinkInOrder, Listening
      <4>2. attacher'[s] = "done"
        BY <1>1, <4>1
      <4>3. /\ delivered'[s] <= (tip - base)' /\ EndsAt(frames'[s], base' + delivered'[s])
            /\ Gapless(frames'[s]) /\ Sorted(frames'[s])
        BY <2>1, <3>3
      <4> QED
        BY <4>2, <4>3 DEF SinkInOrder, Pending
    <3>4. CASE s \notin Listening
      BY <1>1, <2>1, <3>1, <3>2, <3>4 DEF SinkInOrder
    <3> QED
      BY <3>3, <3>4
  <2> QED
    BY <2>3, <2>4, <2>5, <2>6 DEF OutputInv
<1> QED
  BY <1>1, <1>2, <1>3

\* A step of an attach sends at most one frame, to its own sink.
LEMMA AttachKeeps ==
  ASSUME OutputInv, NEW s \in Sinks, Attach(s)
  PROVE  OutputInv'
<1>1. /\ OutputShaped /\ OutboxesHold /\ SinkInOrder(s)
      /\ {"Grant", "ReplayEnd", "Exit"} \subseteq Kinds
  BY DEF OutputInv, SinksInOrder, Kinds
<1>2. /\ base \in Nat /\ tip \in Nat /\ base <= tip /\ fed \in Nat /\ lost \in Int
      /\ attacher \in [Sinks -> {"none", "replay", "check", "join", "done"}]
      /\ todo \in [Sinks -> Int \X Int] /\ credit \in [Sinks -> Int]
      /\ frames \in [Sinks -> Seq(Frames)] /\ frames[s] \in Seq(Frames) /\ taken[s] \in Nat
      /\ Chunk \in Nat \ {0}
  BY <1>1, OutputAssumption DEF OutputShaped
<1>3. /\ UNCHANGED <<fed, lost, base, tip, pump, delivered, closed, taken, unacked>>
      /\ feeding \subseteq feeding' /\ feeding' \subseteq feeding \cup {s}
      /\ \A t \in Sinks \ {s} : attacher'[t] = attacher[t] /\ frames'[t] = frames[t]
  BY <1>2 DEF Attach, TakeReplay, SendReplay, MarkReplay, CheckExit, Join, AttachGoes,
     pumpVars, clientVars
<1> DEFINE Kept == /\ attacher' \in [Sinks -> {"none", "replay", "check", "join", "done"}]
                   /\ todo' \in [Sinks -> Int \X Int]
                   /\ credit' \in [Sinks -> Int]
                   /\ frames' \in [Sinks -> Seq(Frames)]
                   /\ taken[s] <= Len(frames'[s]) /\ Len(frames'[s]) - taken[s] <= OutboxFrames
                   /\ SinkInOrder(s)'
\* What a mark does to the sink's own outbox.
<1>4. \A kind \in {"Grant", "ReplayEnd", "Exit"} :
        LET gs == Sending(s, kind) IN
        /\ gs \in Seq(Frames) /\ taken[s] <= Len(gs) /\ Len(gs) - taken[s] <= OutboxFrames
        /\ Replaying(frames[s]) /\ kind # "ReplayEnd" => Replaying(gs)
        /\ Silent(frames[s]) => Silent(gs)
        /\ Replaying(frames[s]) \/ kind # "ReplayEnd" => Sorted(gs)
        /\ Gapless(gs)
  <2> TAKE kind \in {"Grant", "ReplayEnd", "Exit"}
  <2> DEFINE gs == Sending(s, kind)
  <2>1. /\ gs \in {frames[s], Append(frames[s], Mark(kind))} /\ Mark(kind) \in Frames
        /\ gs \in Seq(Frames) /\ taken[s] <= Len(gs) /\ Len(gs) - taken[s] <= OutboxFrames
    BY <1>1, SendingEffect
  <2>2. Sorted(frames[s]) /\ Gapless(frames[s]) /\ Mark(kind).kind = kind
    BY <1>1 DEF SinkInOrder, Mark
  <2> HIDE DEF gs
  <2>3. CASE gs = frames[s]
    BY <2>1, <2>2, <2>3 DEF gs
  <2>4. CASE gs = Append(frames[s], Mark(kind))
    BY <1>2, <2>1, <2>2, <2>4, SendMark DEF gs
  <2> QED
    BY <2>1, <2>3, <2>4
<1>5. ASSUME TakeReplay(s) PROVE Kept
  <2>1. /\ attacher[s] = "none" /\ attacher' = [attacher EXCEPT ![s] = "replay"]
        /\ frames' = [frames EXCEPT ![s] = Sending(s, "Grant")]
        /\ todo' = [todo EXCEPT ![s] = <<lost, fed>>]
        /\ UNCHANGED <<feeding, credit, delivered, closed>>
    BY <1>3, <1>5 DEF TakeReplay, AttachGoes
  <2>2. frames'[s] = Sending(s, "Grant") /\ attacher'[s] = "replay"
    BY <1>2, <2>1
  <2>3. Replaying(frames[s]) /\ Silent(frames[s]) /\ delivered[s] = 0 /\ s \notin feeding
    BY <1>1, <2>1 DEF SinkInOrder
  <2>4. SinkInOrder(s)'
    BY <1>4, <2>1, <2>2, <2>3 DEF SinkInOrder, Listening
  <2>5. attacher' \in [Sinks -> {"none", "replay", "check", "join", "done"}]
    BY <1>2, <2>1
  <2>6. todo' \in [Sinks -> Int \X Int] /\ credit' \in [Sinks -> Int]
    BY <1>2, <2>1
  <2>7. frames' \in [Sinks -> Seq(Frames)]
    BY <1>2, <1>4, <2>1
  <2> QED
    BY <1>4, <2>2, <2>4, <2>5, <2>6, <2>7
<1>6. ASSUME SendReplay(s) PROVE Kept
  <2> DEFINE from == todo[s][1]
             to   == todo[s][2]
             end  == Min({to, from + Chunk})
             f    == [kind |-> "Replay", from |-> from, to |-> Min({end, from + Chunk})]
  <2>1. attacher[s] = "replay" /\ UNCHANGED <<attacher, feeding, delivered, closed>>
    BY <1>3, <1>6 DEF SendReplay
  <2>2. from \in Int /\ to \in Int /\ end \in Int /\ Min({end, from + Chunk}) \in Int
    <3>1. from \in Int /\ to \in Int /\ from + Chunk \in Int
      BY <1>2
    <3>2. end \in Int
      BY <3>1, MinOfTwo
    <3> QED
      BY <3>1, <3>2, MinOfTwo
  <2>3. Replaying(frames[s]) /\ Silent(frames[s]) /\ delivered[s] = 0 /\ s \notin feeding
        /\ Sorted(frames[s]) /\ Gapless(frames[s])
    BY <1>1, <2>1 DEF SinkInOrder
  <2>4. CASE closed[s] \/ Affordable(s) = 0
    <3>1. todo' = [todo EXCEPT ![s] = <<to, to>>] /\ UNCHANGED <<frames, credit>>
      BY <1>6, <2>4 DEF SendReplay
    <3>2. SinkInOrder(s)'
      BY <1>1, <1>3, <2>1, <3>1 DEF SinkInOrder, Listening, Pending
    <3>3. taken[s] <= Len(frames[s]) /\ Len(frames[s]) - taken[s] <= OutboxFrames
      BY <1>1 DEF OutboxesHold
    <3> QED
      BY <1>2, <2>1, <2>2, <3>1, <3>2, <3>3
  <2>5. CASE ~(closed[s] \/ Affordable(s) = 0)
    <3>1. /\ todo' = [todo EXCEPT ![s] = <<end, to>>]
          /\ frames' = [frames EXCEPT ![s] = frames[s] \o Chunked("Replay", from, end, 1)]
          /\ credit' = [credit EXCEPT ![s] = credit[s] - (end - from)]
      BY <1>6, <2>5 DEF SendReplay
    <3>2. f \in Frames /\ f.kind = "Replay"
      BY <2>2 DEF Frames, Kinds
    <3>3. Chunked("Replay", from, end, 1) = <<f>>
      <4>1. \A i \in 1..1 : from + (i - 1) * Chunk = from /\ from + i * Chunk = from + Chunk
        BY <1>2, <2>2
      <4> QED
        BY <4>1 DEF Chunked
    <3> HIDE DEF f, from, to, end
    <3>4. frames'[s] = Append(frames[s], f)
      <4>1. frames'[s] = frames[s] \o <<f>> /\ frames[s] \in Seq(Frames)
        BY <1>2, <3>1, <3>3
      <4> QED
        BY <3>2, <4>1, AppendIsConcat
    <3>5. /\ frames'[s] \in Seq(Frames) /\ Len(frames'[s]) = Len(frames[s]) + 1
          /\ Replaying(frames'[s]) /\ Silent(frames'[s]) /\ Sorted(frames'[s]) /\ Gapless(frames'[s])
      BY <1>2, <2>3, <3>2, <3>4, SendMark
    <3>6. taken[s] <= Len(frames'[s]) /\ Len(frames'[s]) - taken[s] <= OutboxFrames
      <4>1. Room(s) \in Nat /\ Room(s) # 0 /\ Room(s) = OutboxFrames - (Len(frames[s]) - taken[s])
        <5>1. Room(s) \in Nat /\ Affordable(s) \in Nat /\ Affordable(s) <= Room(s)
          BY <1>1, AffordableFits
        <5> QED
          BY <2>5, <5>1 DEF Room
      <4>2. Len(frames[s]) \in Nat /\ taken[s] <= Len(frames[s]) /\ OutboxFrames \in Nat
        BY <1>1, <1>2, LenProperties, OutputAssumption DEF OutboxesHold
      <4> QED
        BY <1>2, <3>5, <4>1, <4>2
    <3>7. SinkInOrder(s)'
      BY <2>1, <2>3, <3>5 DEF SinkInOrder, Listening
    <3>8. attacher' \in [Sinks -> {"none", "replay", "check", "join", "done"}]
      BY <1>2, <2>1
    <3>9. todo' \in [Sinks -> Int \X Int]
      BY <1>2, <2>2, <3>1
    <3>10. credit' \in [Sinks -> Int]
      <4>1. credit[s] - (end - from) \in Int
        BY <1>2, <2>2
      <4> QED
        BY <1>2, <3>1, <4>1
    <3>11. frames' \in [Sinks -> Seq(Frames)]
      <4>1. frames[s] \o Chunked("Replay", from, end, 1) \in Seq(Frames)
        BY <1>2, <3>1, <3>5
      <4> QED
        BY <1>2, <3>1, <4>1
    <3> QED
      BY <3>5, <3>6, <3>7, <3>8, <3>9, <3>10, <3>11
  <2> QED
    BY <2>4, <2>5
<1>7. ASSUME MarkReplay(s) PROVE Kept
  <2>1. /\ attacher[s] = "replay" /\ attacher' = [attacher EXCEPT ![s] = "check"]
        /\ frames' = [frames EXCEPT ![s] = Sending(s, "ReplayEnd")]
        /\ UNCHANGED <<feeding, credit, delivered, closed, todo>>
    BY <1>3, <1>7 DEF MarkReplay, AttachGoes
  <2>2. frames'[s] = Sending(s, "ReplayEnd") /\ attacher'[s] = "check"
    BY <1>2, <2>1
  <2>3. Replaying(frames[s]) /\ Silent(frames[s]) /\ delivered[s] = 0 /\ s \notin feeding
    BY <1>1, <2>1 DEF SinkInOrder
  <2>4. SinkInOrder(s)'
    BY <1>4, <2>1, <2>2, <2>3 DEF SinkInOrder, Listening
  <2> QED
    BY <1>2, <1>4, <2>1, <2>2, <2>4
<1>8. ASSUME CheckExit(s) PROVE Kept
  <2>1. /\ attacher[s] = "check" /\ attacher' = [attacher EXCEPT ![s] = "join"]
        /\ frames' = [frames EXCEPT ![s] = IF exited THEN Sending(s, "Exit") ELSE frames[s]]
        /\ UNCHANGED <<feeding, credit, delivered, closed, todo>>
    BY <1>3, <1>8 DEF CheckExit, AttachGoes
  <2>2. frames'[s] \in {Sending(s, "Exit"), frames[s]} /\ attacher'[s] = "join"
    BY <1>2, <2>1
  <2>3. Silent(frames[s]) /\ delivered[s] = 0 /\ s \notin feeding /\ Sorted(frames[s]) /\ Gapless(frames[s])
    BY <1>1, <2>1 DEF SinkInOrder
  <2>4. /\ frames'[s] \in Seq(Frames) /\ Silent(frames'[s]) /\ Sorted(frames'[s]) /\ Gapless(frames'[s])
        /\ taken[s] <= Len(frames'[s]) /\ Len(frames'[s]) - taken[s] <= OutboxFrames
    <3>1. taken[s] <= Len(frames[s]) /\ Len(frames[s]) - taken[s] <= OutboxFrames
      BY <1>1 DEF OutboxesHold
    <3> QED
      BY <1>2, <1>4, <2>2, <2>3, <3>1
  <2>5. SinkInOrder(s)'
    BY <2>1, <2>2, <2>3, <2>4 DEF SinkInOrder, Listening
  <2> QED
    BY <1>2, <2>1, <2>4, <2>5
<1>9. ASSUME Join(s) PROVE Kept
  <2>1. /\ attacher[s] = "join" /\ attacher' = [attacher EXCEPT ![s] = "done"]
        /\ UNCHANGED <<credit, delivered, closed, todo, frames, base, tip>>
    BY <1>3, <1>9 DEF Join, AttachGoes
  <2>2. Silent(frames[s]) /\ delivered[s] = 0 /\ Sorted(frames[s]) /\ Gapless(frames[s])
    BY <1>1, <2>1 DEF SinkInOrder
  <2>3. EndsAt(frames[s], base + delivered[s]) /\ delivered[s] <= Pending
    BY <1>2, <2>2 DEF EndsAt, Silent, Pending
  <2>4. attacher'[s] = "done"
    BY <1>2, <2>1
  <2>5. SinkInOrder(s)'
    BY <2>1, <2>2, <2>3, <2>4 DEF SinkInOrder, Pending
  <2>6. taken[s] <= Len(frames[s]) /\ Len(frames[s]) - taken[s] <= OutboxFrames
    BY <1>1 DEF OutboxesHold
  <2> QED
    BY <1>2, <2>1, <2>5, <2>6
<1>10. Kept
  BY <1>5, <1>6, <1>7, <1>8, <1>9 DEF Attach
<1> HIDE DEF Kept
<1>11. OutputShaped'
  BY <1>1, <1>3, <1>10 DEF OutputShaped, Kept
<1>12. OutboxesHold'
  <2> SUFFICES ASSUME NEW t \in Sinks
               PROVE  taken[t] <= Len(frames'[t]) /\ Len(frames'[t]) - taken[t] <= OutboxFrames
    BY <1>3 DEF OutboxesHold
  <2> QED
    BY <1>1, <1>3, <1>10 DEF OutboxesHold, Kept
<1>13. PumpInOrder'
  BY <1>3 DEF OutputInv, PumpInOrder, PendingBounded, Pending
<1>14. SinksInOrder'
  <2> SUFFICES ASSUME NEW t \in Sinks
               PROVE  SinkInOrder(t)'
    BY DEF SinksInOrder
  <2>1. CASE t = s
    BY <1>10, <2>1 DEF Kept
  <2>2. CASE t # s
    <3>1. SinkInOrder(t) /\ attacher'[t] = attacher[t] /\ frames'[t] = frames[t]
      BY <1>3, <2>2 DEF OutputInv, SinksInOrder
    <3>2. (t \in feeding <=> t \in feeding') /\ UNCHANGED <<base, tip, delivered, closed>>
      BY <1>3, <2>2
    <3> QED
      BY <3>1, <3>2 DEF SinkInOrder, Listening, Pending
  <2> QED
    BY <2>1, <2>2
<1> QED
  BY <1>11, <1>12, <1>13, <1>14 DEF OutputInv

LEMMA NextKeeps == OutputInv /\ [Next]_vars => OutputInv'
<1> SUFFICES ASSUME OutputInv, [Next]_vars
             PROVE  OutputInv'
  OBVIOUS
<1>1. CASE \/ PumpStops \/ PumpGates \/ PumpFeeds \/ PumpReplies \/ PumpAppends \/ PumpTimesOut \/ Ages
           \/ CloseStops \/ CloseShutsDown \/ CloseJoins \/ Exits \/ PipeEnds
           \/ \E s \in Sinks : Release(s)
  BY <1>1, QuietKeeps
<1>2. CASE PumpAnnounces \/ CloseDrains
  BY <1>2, NewsKeeps
<1>3. CASE PumpFlushes \/ PumpSeesEof \/ PumpChecksExit \/ PumpEnds
  BY <1>3, FlushKeeps
<1>4. CASE \E s \in Sinks : Attach(s)
  BY <1>4, AttachKeeps
<1>5. CASE \E s \in Sinks : Deliver(s) \/ Ack(s)
  BY <1>5, ClientKeeps
<1>6. CASE UNCHANGED vars
  BY <1>6 DEF vars, pumpVars, bufferVars, attachVars, closeVars, ptyVars, clientVars, OutputInv,
     OutputShaped, OutboxesHold, PumpInOrder, PendingBounded, Pending, SinksInOrder, SinkInOrder, Listening
<1> QED
  BY <1>1, <1>2, <1>3, <1>4, <1>5, <1>6 DEF Next, Pump, Close

-----------------------------------------------------------------------------
\* Credit.

\* What one frame carries, and the sum over the first m of an outbox.
Width(f) == f.to - f.from
Sums(sum, fs, m) == sum = [n \in 0..m |-> IF n = 0 THEN 0 ELSE sum[n - 1] + Width(fs[n])]

\* There is such a sum, whatever m is.
LEMMA SumExists ==
  ASSUME NEW fs, NEW m \in Nat
  PROVE  \E sum : Sums(sum, fs, m)
<1> DEFINE T == {n \in Nat : ~ \E sum : Sums(sum, fs, n)}
<1>1. T = {}
  <2> SUFFICES ASSUME T # {} PROVE FALSE
    OBVIOUS
  <2>1. PICK k \in T : \A n \in T : k <= n
    <3>1. T \subseteq Nat
      OBVIOUS
    <3> HIDE DEF T
    <3> QED
      BY <3>1, Least
  <2>2. k \in Nat /\ ~ \E sum : Sums(sum, fs, k)
    BY <2>1
  <2>3. CASE k = 0
    <3> DEFINE sum == [n \in 0..0 |-> 0]
    <3>1. Sums(sum, fs, 0)
      BY DEF Sums
    <3> QED
      BY <2>2, <2>3, <3>1
  <2>4. CASE k # 0
    <3>1. k - 1 \in Nat /\ k - 1 \notin T
      <4> HIDE DEF T
      <4> QED
        BY <2>1, <2>2, <2>4
    <3>2. PICK rest : Sums(rest, fs, k - 1)
      BY <3>1
    <3> DEFINE sum == [n \in 0..k |-> IF n = 0 THEN 0 ELSE rest[n - 1] + Width(fs[n])]
    <3>3. \A n \in 0..(k - 1) : sum[n] = rest[n]
      BY <2>2, <3>1, <3>2 DEF Sums
    <3>4. \A n \in 0..k : sum[n] = IF n = 0 THEN 0 ELSE sum[n - 1] + Width(fs[n])
      <4> TAKE n \in 0..k
      <4>1. n # 0 => n - 1 \in 0..(k - 1)
        BY <2>2
      <4> QED
        BY <3>3, <4>1
    <3>5. sum = [n \in 0..k |-> sum[n]]
      OBVIOUS
    <3> HIDE DEF sum
    <3>6. Sums(sum, fs, k)
      BY <3>4, <3>5 DEF Sums
    <3> QED
      BY <2>2, <3>6
  <2> QED
    BY <2>3, <2>4
<1> QED
  BY <1>1

\* The sums of an outbox begin at nothing and go on frame by frame.
LEMMA CarriedSteps ==
  ASSUME NEW fs, Len(fs) \in Nat
  PROVE  /\ Carried(fs)[0] = 0
         /\ \A n \in 1..Len(fs) : Carried(fs)[n] = Carried(fs)[n - 1] + Width(fs[n])
<1> DEFINE c == Carried(fs)
<1>1. c = CHOOSE sum : Sums(sum, fs, Len(fs))
  BY Zenon DEF Carried, Sums, Width
<1> HIDE DEF c
<1>2. Sums(c, fs, Len(fs))
  <2>1. \E sum : Sums(sum, fs, Len(fs))
    BY SumExists
  <2> QED
    BY <1>1, <2>1
<1>3. \A n \in 0..Len(fs) : c[n] = IF n = 0 THEN 0 ELSE c[n - 1] + Width(fs[n])
  BY <1>2 DEF Sums
<1>4. c[0] = 0 /\ \A n \in 1..Len(fs) : c[n] = c[n - 1] + Width(fs[n])
  BY <1>3
<1> QED
  BY <1>4 DEF c

\* Frames that carry something rather than less than nothing.
Forward(fs) == \A i \in DOMAIN fs : fs[i].from <= fs[i].to

\* The sums never fall.
LEMMA CarriedGrows ==
  ASSUME NEW fs \in Seq(Frames), Forward(fs), NEW n \in 0..Len(fs)
  PROVE  \A m \in 0..n : /\ Carried(fs)[m] \in Nat /\ Carried(fs)[n] \in Nat
                         /\ Carried(fs)[m] <= Carried(fs)[n]
<1> DEFINE c == Carried(fs)
           Bad(k) == c[k] \notin Nat \/ \E m \in 0..k : ~(c[m] <= c[k])
           T == {k \in 0..Len(fs) : Bad(k)}
<1>1. Len(fs) \in Nat /\ DOMAIN fs = 1..Len(fs)
  BY LenProperties
<1>2. \A k \in 1..Len(fs) : c[k] = c[k - 1] + Width(fs[k])
  BY <1>1, CarriedSteps
<1>3. c[0] = 0
  BY <1>1, CarriedSteps
<1>4. \A k \in 1..Len(fs) : Width(fs[k]) \in Nat
  <2> TAKE k \in 1..Len(fs)
  <2>1. fs[k] \in Frames /\ fs[k].from <= fs[k].to
    BY <1>1, ElementOfSeq DEF Forward
  <2>2. fs[k].from \in Int /\ fs[k].to \in Int
    BY <2>1 DEF Frames
  <2> QED
    BY <2>1, <2>2 DEF Width
<1> HIDE DEF c
<1>5. T = {}
  <2> SUFFICES ASSUME T # {} PROVE FALSE
    OBVIOUS
  <2>1. PICK k \in T : \A j \in T : k <= j
    <3>1. T \subseteq Nat
      BY <1>1
    <3> HIDE DEF T
    <3> QED
      BY <3>1, Least
  <2>2. k \in 0..Len(fs) /\ Bad(k) /\ k # 0
    BY <1>1, <1>3, <2>1
  <2>3. k - 1 \in 0..Len(fs) /\ ~ Bad(k - 1)
    <3>1. k - 1 \in 0..Len(fs) /\ k - 1 \notin T
      <4>1. k - 1 \in 0..Len(fs) /\ ~(k <= k - 1)
        BY <1>1, <2>2
      <4> HIDE DEF T
      <4> QED
        BY <2>1, <4>1
    <3> QED
      BY <3>1
  <2>4. c[k] = c[k - 1] + Width(fs[k]) /\ Width(fs[k]) \in Nat /\ c[k - 1] \in Nat
    BY <1>1, <1>2, <1>4, <2>2, <2>3
  <2>5. \A m \in 0..k : m = k \/ c[m] <= c[k - 1]
    BY <1>1, <2>2, <2>3
  <2>6. \A m \in 0..(k - 1) : c[m] \in Nat
    <3> TAKE m \in 0..(k - 1)
    <3>1. m \in 0..Len(fs) /\ ~(k <= m)
      BY <1>1, <2>2
    <3>2. m \notin T
      <4> HIDE DEF T
      <4> QED
        BY <2>1, <3>1
    <3> QED
      BY <3>1, <3>2
  <2>7. ASSUME NEW m \in 0..k
        PROVE  c[m] <= c[k]
    <3>1. c[k - 1] <= c[k] /\ c[k] \in Nat
      BY <2>4
    <3>2. CASE m = k
      BY <3>1, <3>2
    <3>3. CASE m # k
      <4>1. m \in 0..(k - 1)
        BY <1>1, <2>2, <3>3
      <4>2. c[m] <= c[k - 1] /\ c[m] \in Nat
        BY <2>5, <2>6, <3>3, <4>1
      <4> QED
        BY <2>4, <3>1, <4>2
    <3> QED
      BY <3>2, <3>3
  <2> QED
    BY <2>2, <2>4, <2>7
<1>6. \A k \in 0..Len(fs) : ~ Bad(k)
  BY <1>5
<1>7. ~ Bad(n) /\ \A m \in 0..n : ~ Bad(m)
  BY <1>1, <1>6
<1>8. \A m \in 0..n : c[m] \in Nat /\ c[n] \in Nat /\ c[m] <= c[n]
  BY <1>1, <1>7
<1> QED
  BY <1>8 DEF c

\* What follows changes no sum that is there.
LEMMA CarriedKeeps ==
  ASSUME NEW fs \in Seq(Frames), NEW gs \in Seq(Frames), Len(fs) <= Len(gs),
         \A i \in 1..Len(fs) : gs[i] = fs[i]
  PROVE  \A n \in 0..Len(fs) : Carried(gs)[n] = Carried(fs)[n]
<1> DEFINE c == Carried(fs)
           d == Carried(gs)
           T == {k \in 0..Len(fs) : d[k] # c[k]}
<1>1. Len(fs) \in Nat /\ Len(gs) \in Nat
  BY LenProperties
<1>2. /\ c[0] = 0 /\ \A k \in 1..Len(fs) : c[k] = c[k - 1] + Width(fs[k])
      /\ d[0] = 0 /\ \A k \in 1..Len(gs) : d[k] = d[k - 1] + Width(gs[k])
  BY <1>1, CarriedSteps
<1> HIDE DEF c, d
<1>3. T = {}
  <2> SUFFICES ASSUME T # {} PROVE FALSE
    OBVIOUS
  <2>1. PICK k \in T : \A j \in T : k <= j
    <3>1. T \subseteq Nat
      BY <1>1
    <3> HIDE DEF T
    <3> QED
      BY <3>1, Least
  <2>2. k \in 1..Len(fs) /\ d[k] # c[k]
    BY <1>1, <1>2, <2>1
  <2>3. k - 1 \in 0..Len(fs) /\ k - 1 \notin T
    <3>1. k - 1 \in 0..Len(fs) /\ ~(k <= k - 1)
      BY <1>1, <2>2
    <3> HIDE DEF T
    <3> QED
      BY <2>1, <3>1
  <2>4. d[k - 1] = c[k - 1]
    BY <2>3
  <2>5. gs[k] = fs[k] /\ k \in 1..Len(gs)
    BY <1>1, <2>2
  <2> QED
    BY <1>2, <2>2, <2>4, <2>5
<1>4. \A n \in 0..Len(fs) : d[n] = c[n]
  BY <1>3
<1> QED
  BY <1>4 DEF c, d

\* A run that carries the bytes from a to b adds them to what was there.
LEMMA CarriedRun ==
  ASSUME NEW fs \in Seq(Frames), NEW cs \in Seq(Frames), NEW a \in Int, NEW b \in Int,
         Carries(cs, a, b), Forward(fs)
  PROVE  /\ \A n \in 0..Len(fs) : Carried(fs \o cs)[n] = Carried(fs)[n]
         /\ Carried(fs \o cs)[Len(fs \o cs)] = Carried(fs)[Len(fs)] + (b - a)
<1> DEFINE gs == fs \o cs
           d == Carried(gs)
           T == {k \in 1..Len(cs) : d[Len(fs) + k] # d[Len(fs)] + (cs[k].to - a)}
<1>1. /\ gs \in Seq(Frames) /\ Len(gs) = Len(fs) + Len(cs)
      /\ \A i \in 1..(Len(fs) + Len(cs)) : gs[i] = IF i <= Len(fs) THEN fs[i] ELSE cs[i - Len(fs)]
  BY ConcatProperties
<1>2. Len(fs) \in Nat /\ Len(cs) \in Nat /\ DOMAIN cs = 1..Len(cs)
  BY LenProperties
<1>3. (\A n \in 0..Len(fs) : d[n] = Carried(fs)[n])
  <2>1. Len(fs) <= Len(gs) /\ \A i \in 1..Len(fs) : gs[i] = fs[i]
    BY <1>1, <1>2
  <2> HIDE DEF gs
  <2> QED
    BY <1>1, <2>1, CarriedKeeps
<1>4. \A k \in 1..Len(gs) : d[k] = d[k - 1] + Width(gs[k])
  <2>1. Len(gs) \in Nat
    BY <1>1, <1>2
  <2> HIDE DEF gs
  <2> QED
    BY <2>1, CarriedSteps
<1>5. \A k \in 1..Len(cs) : /\ d[Len(fs) + k] = d[(Len(fs) + k) - 1] + (cs[k].to - cs[k].from)
                            /\ cs[k].to \in Int /\ cs[k].from \in Int
  <2> TAKE k \in 1..Len(cs)
  <2>1. Len(fs) + k \in 1..Len(gs) /\ gs[Len(fs) + k] = cs[k] /\ cs[k] \in Frames
    BY <1>1, <1>2
  <2> QED
    BY <1>4, <2>1 DEF Width, Frames
<1>6. d[Len(fs)] \in Nat
  BY <1>2, <1>3, CarriedGrows
<1> HIDE DEF gs, d
<1>7. T = {}
  <2> SUFFICES ASSUME T # {} PROVE FALSE
    OBVIOUS
  <2>1. PICK k \in T : \A j \in T : k <= j
    <3>1. T \subseteq Nat
      BY <1>2
    <3> HIDE DEF T
    <3> QED
      BY <3>1, Least
  <2>2. k \in 1..Len(cs) /\ d[Len(fs) + k] # d[Len(fs)] + (cs[k].to - a)
    BY <2>1
  <2>3. CASE k = 1
    <3>1. cs # <<>> /\ cs[1].from = a
      BY <1>2, <2>2, EmptySeq DEF Carries
    <3>2. d[Len(fs) + 1] = d[Len(fs)] + (cs[1].to - cs[1].from) /\ cs[1].to \in Int
      BY <1>2, <1>5, <2>2, <2>3
    <3> QED
      BY <2>2, <2>3, <3>1, <3>2
  <2>4. CASE k # 1
    <3>1. k - 1 \in 1..Len(cs) /\ k - 1 \notin T /\ (k - 1) + 1 = k
      <4>1. k - 1 \in 1..Len(cs) /\ ~(k <= k - 1) /\ (k - 1) + 1 = k
        BY <1>2, <2>2, <2>4
      <4> HIDE DEF T
      <4> QED
        BY <2>1, <4>1
    <3>2. d[Len(fs) + (k - 1)] = d[Len(fs)] + (cs[k - 1].to - a)
      BY <3>1
    <3>3. cs[k - 1].to = cs[k].from
      BY <1>2, <2>2, <3>1 DEF Carries
    <3>4. (Len(fs) + k) - 1 = Len(fs) + (k - 1)
      BY <1>2, <2>2
    <3> DEFINE x == cs[k - 1].to
               y == cs[k].to
               z == d[Len(fs)]
    <3>5. d[Len(fs) + k] = (z + (x - a)) + (y - x) /\ x \in Int /\ y \in Int /\ z \in Nat
      BY <1>5, <1>6, <2>2, <3>1, <3>2, <3>3, <3>4
    <3>6. d[Len(fs) + k] # z + (y - a)
      BY <2>2
    <3> HIDE DEF x, y, z
    <3> QED
      BY <3>5, <3>6
  <2> QED
    BY <2>3, <2>4
<1>8. d[Len(gs)] = Carried(fs)[Len(fs)] + (b - a)
  <2>1. d[Len(fs)] = Carried(fs)[Len(fs)]
    BY <1>2, <1>3
  <2>2. CASE Len(cs) = 0
    <3>1. a = b /\ Len(gs) = Len(fs)
      BY <1>1, <1>2, <2>2, EmptySeq DEF Carries
    <3> QED
      BY <1>6, <2>1, <3>1
  <2>3. CASE Len(cs) # 0
    <3>1. Len(cs) \in 1..Len(cs) /\ Len(gs) = Len(fs) + Len(cs)
      BY <1>1, <1>2, <2>3
    <3>2. d[Len(gs)] = d[Len(fs)] + (cs[Len(cs)].to - a)
      BY <1>7, <3>1
    <3>3. cs[Len(cs)].to = b
      BY <1>2, <2>3, EmptySeq DEF Carries
    <3> QED
      BY <2>1, <3>2, <3>3
  <2> QED
    BY <2>2, <2>3
<1> QED
  BY <1>3, <1>8 DEF gs, d

\* A frame adds what it carries.
LEMMA CarriedAppend ==
  ASSUME NEW fs \in Seq(Frames), NEW f \in Frames
  PROVE  /\ \A n \in 0..Len(fs) : Carried(Append(fs, f))[n] = Carried(fs)[n]
         /\ Carried(Append(fs, f))[Len(Append(fs, f))] = Carried(fs)[Len(fs)] + Width(f)
<1> DEFINE gs == Append(fs, f)
<1>1. /\ gs \in Seq(Frames) /\ Len(gs) = Len(fs) + 1 /\ Len(fs) \in Nat
      /\ \A i \in 1..Len(fs) : gs[i] = fs[i]
      /\ gs[Len(fs) + 1] = f
  BY AppendProperties, LenProperties
<1> HIDE DEF gs
<1>2. \A n \in 0..Len(fs) : Carried(gs)[n] = Carried(fs)[n]
  BY <1>1, CarriedKeeps
<1>3. Carried(gs)[Len(gs)] = Carried(gs)[Len(gs) - 1] + Width(gs[Len(gs)])
  BY <1>1, CarriedSteps
<1>4. Len(gs) - 1 = Len(fs) /\ Len(fs) \in 0..Len(fs) /\ gs[Len(gs)] = f
  BY <1>1
<1> QED
  BY <1>2, <1>3, <1>4 DEF gs
-----------------------------------------------------------------------------
\* The rest of the types, and the account of every sink: what its client has been
\* sent and has not acked is what its credit lacks of the window.
ControlTyped ==
  /\ play \in Plays
  /\ {exited, eof, aged, announced, stop, status} \subseteq BOOLEAN
  /\ pump \in {"top", "gate", "read", "reply", "append", "check", "announce", "tail", "done"}
  /\ closer \in {"open", "stopped", "shut", "drained", "closed"}

SinksTyped ==
  /\ fed \in 0..MaxBytes /\ lost \in 0..fed
  /\ todo \in [Sinks -> (0..MaxBytes) \X (0..MaxBytes)]
  /\ credit \in [Sinks -> (1 - Chunk)..Maximum]
  /\ delivered \in [Sinks -> 0..MaxBytes]
  /\ frames \in [Sinks -> Seq(Frame)]
  /\ unacked \in [Sinks -> Nat]

Balanced(s) ==
  /\ todo[s][1] <= todo[s][2]
  /\ Forward(frames[s])
  /\ Outstanding(s) = Initial - credit[s]

CreditInv == ControlTyped /\ SinksTyped /\ \A s \in Sinks : Balanced(s)

\* From fs to gs an outbox takes frames that carry n bytes in all.
Takes(fs, gs, n) ==
  /\ gs \in Seq(Frame) /\ Forward(gs) /\ Len(fs) <= Len(gs) /\ n \in Nat
  /\ \A m \in 0..Len(fs) : Carried(gs)[m] = Carried(fs)[m]
  /\ Carried(gs)[Len(gs)] = Carried(fs)[Len(fs)] + n

LEMMA FrameIsFrames ==
  /\ Frame \subseteq Frames /\ Seq(Frame) \subseteq Seq(Frames)
  /\ \A kind \in Kinds : Mark(kind) \in Frame /\ Width(Mark(kind)) = 0
<1>1. MaxBytes \in Nat
  BY OutputAssumption
<1>2. Frame \subseteq Frames
  BY <1>1 DEF Frame, Frames
<1>3. \A kind \in Kinds : Mark(kind) \in Frame /\ Width(Mark(kind)) = 0
  BY <1>1 DEF Frame, Mark, Width
<1>4. ASSUME NEW fs \in Seq(Frame)
      PROVE  fs \in Seq(Frames)
  <2>1. fs \in [1..Len(fs) -> Frame] /\ Len(fs) \in Nat
    BY LenProperties
  <2>2. fs \in [1..Len(fs) -> Frames]
    BY <1>2, <2>1
  <2> HIDE DEF Frames
  <2> QED
    BY <2>1, <2>2
<1> QED
  BY <1>2, <1>3, <1>4

\* Nothing taken, a mark taken, a frame taken, a run taken.
LEMMA TakesNothing ==
  ASSUME NEW fs \in Seq(Frame), Forward(fs)
  PROVE  Takes(fs, fs, 0)
<1>1. fs \in Seq(Frames) /\ Len(fs) \in Nat /\ Len(fs) \in 0..Len(fs)
  BY FrameIsFrames, LenProperties
<1>2. Carried(fs)[Len(fs)] \in Nat
  BY <1>1, CarriedGrows
<1> QED
  BY <1>1, <1>2 DEF Takes

LEMMA TakesFrame ==
  ASSUME NEW fs \in Seq(Frame), Forward(fs), NEW f \in Frame, Width(f) \in Nat
  PROVE  Takes(fs, Append(fs, f), Width(f))
<1> DEFINE gs == Append(fs, f)
<1>1. /\ gs \in Seq(Frame) /\ Len(gs) = Len(fs) + 1 /\ Len(fs) \in Nat
      /\ \A i \in 1..Len(fs) : gs[i] = fs[i]
      /\ gs[Len(fs) + 1] = f
      /\ DOMAIN gs = 1..Len(gs) /\ DOMAIN fs = 1..Len(fs)
  BY AppendProperties, LenProperties
<1>2. fs \in Seq(Frames) /\ f \in Frames
  BY FrameIsFrames
<1>3. /\ \A n \in 0..Len(fs) : Carried(gs)[n] = Carried(fs)[n]
      /\ Carried(gs)[Len(gs)] = Carried(fs)[Len(fs)] + Width(f)
  BY <1>2, CarriedAppend
<1>4. f.from <= f.to
  <2>1. f.from \in Int /\ f.to \in Int
    BY <1>2 DEF Frames
  <2> QED
    BY <2>1 DEF Width
<1> HIDE DEF gs
<1>5. Forward(gs)
  <2> SUFFICES ASSUME NEW i \in 1..Len(gs)
               PROVE  gs[i].from <= gs[i].to
    BY <1>1 DEF Forward
  <2>1. i \in 1..Len(fs) \/ i = Len(fs) + 1
    BY <1>1
  <2> QED
    BY <1>1, <1>4, <2>1 DEF Forward
<1>6. Takes(fs, gs, Width(f))
  BY <1>1, <1>3, <1>5 DEF Takes
<1> QED
  BY <1>6 DEF gs

\* A mark spends nothing.
LEMMA TakesMark ==
  ASSUME NEW fs \in Seq(Frame), Forward(fs), NEW kind \in Kinds
  PROVE  Takes(fs, Append(fs, Mark(kind)), 0)
BY TakesFrame, FrameIsFrames

\* A stretch of bytes spends its length.
LEMMA TakesRun ==
  ASSUME NEW fs \in Seq(Frame), Forward(fs), NEW a \in 0..MaxBytes, NEW b \in 0..MaxBytes, NEW n \in Nat,
         a <= b, b <= a + n * Chunk, n # 0 => (n - 1) * Chunk < b - a
  PROVE  Takes(fs, fs \o Chunked("Output", a, b, n), b - a)
<1> DEFINE cs == Chunked("Output", a, b, n)
           gs == fs \o cs
<1>1. Chunk \in Nat \ {0} /\ MaxBytes \in Nat
  BY OutputAssumption
<1>2. cs \in Seq(Frames) /\ Len(cs) = n /\ Carries(cs, a, b) /\ a \in Int /\ b \in Int
  BY <1>1, ChunkedCarries
<1>3. \A i \in 1..n : cs[i] \in Frame /\ cs[i].from <= cs[i].to
  <2> TAKE i \in 1..n
  <2> DEFINE x == (i - 1) * Chunk
             y == (n - 1) * Chunk
  <2>1. x \in Nat /\ i * Chunk = x + Chunk /\ x <= y /\ y < b - a
    BY <1>1
  <2>2. /\ cs[i] = [kind |-> "Output", from |-> a + x, to |-> Min({b, a + i * Chunk})]
    BY DEF Chunked
  <2> HIDE DEF x, y
  <2>3. Min({b, a + i * Chunk}) = IF b <= a + (x + Chunk) THEN b ELSE a + (x + Chunk)
    BY <1>1, <1>2, <2>1, MinOfTwo
  <2> DEFINE t == Min({b, a + i * Chunk})
  <2>4. a + x \in 0..MaxBytes /\ t \in 0..MaxBytes /\ a + x <= t
    BY <1>1, <1>2, <2>1, <2>3
  <2> HIDE DEF t
  <2>5. cs[i] = [kind |-> "Output", from |-> a + x, to |-> t]
    BY <2>2 DEF t
  <2> HIDE DEF cs
  <2> QED
    BY <2>4, <2>5 DEF Frame, Kinds
<1> HIDE DEF cs
<1>4. cs \in Seq(Frame)
  <2>1. cs \in [1..n -> Frames]
    BY <1>2, LenProperties
  <2>2. cs \in [1..n -> Frame]
    BY <1>3, <2>1
  <2> QED
    BY <2>2
<1>5. fs \in Seq(Frames)
  BY FrameIsFrames
<1>6. /\ \A m \in 0..Len(fs) : Carried(gs)[m] = Carried(fs)[m]
      /\ Carried(gs)[Len(gs)] = Carried(fs)[Len(fs)] + (b - a)
  BY <1>2, <1>5, CarriedRun
<1>7. /\ gs \in Seq(Frame) /\ Len(gs) = Len(fs) + Len(cs) /\ Len(fs) \in Nat /\ Len(cs) \in Nat
      /\ \A i \in 1..(Len(fs) + Len(cs)) : gs[i] = IF i <= Len(fs) THEN fs[i] ELSE cs[i - Len(fs)]
      /\ DOMAIN gs = 1..Len(gs) /\ DOMAIN fs = 1..Len(fs)
  BY <1>4, ConcatProperties, LenProperties
<1> HIDE DEF gs
<1>8. Forward(gs)
  <2> SUFFICES ASSUME NEW i \in 1..Len(gs)
               PROVE  gs[i].from <= gs[i].to
    BY <1>7 DEF Forward
  <2>1. CASE i <= Len(fs)
    <3>1. i \in 1..Len(fs) /\ gs[i] = fs[i]
      BY <1>7, <2>1
    <3> QED
      BY <1>7, <3>1 DEF Forward
  <2>2. CASE ~(i <= Len(fs))
    <3>1. i - Len(fs) \in 1..n /\ gs[i] = cs[i - Len(fs)]
      BY <1>2, <1>7, <2>2
    <3> QED
      BY <1>3, <3>1
  <2> QED
    BY <2>1, <2>2
<1>9. Takes(fs, gs, b - a)
  <2>1. Len(fs) <= Len(gs) /\ b - a \in Nat
    BY <1>2, <1>7
  <2> QED
    BY <1>6, <1>7, <1>8, <2>1 DEF Takes
<1> QED
  BY <1>9 DEF gs, cs

\* A sink whose outbox takes n bytes and whose credit falls by n stays balanced.
LEMMA TakenIsSpent ==
  ASSUME OutputInv, CreditInv, NEW s \in Sinks, NEW n, Takes(frames[s], frames'[s], n),
         credit'[s] = credit[s] - n, unacked'[s] = unacked[s], taken'[s] = taken[s],
         todo'[s][1] <= todo'[s][2]
  PROVE  Balanced(s)'
<1>1. /\ Balanced(s) /\ unacked[s] \in Nat /\ credit[s] \in Int /\ Initial \in Nat
      /\ frames[s] \in Seq(Frames) /\ taken[s] \in Nat /\ taken[s] <= Len(frames[s])
  <2>1. credit[s] \in Int /\ frames[s] \in Seq(Frames) /\ taken[s] \in Nat
    BY DEF OutputInv, OutputShaped
  <2>2. Balanced(s) /\ unacked[s] \in Nat
    BY DEF CreditInv, SinksTyped
  <2> QED
    BY <2>1, <2>2, OutputAssumption DEF OutputInv, OutboxesHold
<1>2. Len(frames[s]) \in Nat /\ taken[s] \in 0..Len(frames[s]) /\ Len(frames[s]) \in 0..Len(frames[s])
  BY <1>1, LenProperties
<1> DEFINE x == Carried(frames[s])[taken[s]]
           y == Carried(frames[s])[Len(frames[s])]
<1>3. x \in Nat /\ y \in Nat
  BY <1>1, <1>2, CarriedGrows DEF Balanced
<1>4. /\ Carried(frames'[s])[taken[s]] = x
      /\ Carried(frames'[s])[Len(frames'[s])] = y + n
      /\ n \in Nat /\ Forward(frames'[s])
  BY <1>2 DEF Takes
<1>5. unacked[s] + (y - x) = Initial - credit[s]
  BY <1>1 DEF Balanced, Outstanding
<1>6. Outstanding(s)' = unacked[s] + ((y + n) - x)
  BY <1>4 DEF Outstanding
<1> HIDE DEF x, y
<1>7. unacked[s] + ((y + n) - x) = Initial - (credit[s] - n)
  <2> DEFINE u == unacked[s]
             c == credit[s]
  <2>1. u \in Nat /\ c \in Int /\ Initial \in Nat /\ n \in Nat
    BY <1>1, <1>4
  <2>2. u + (y - x) = Initial - c
    BY <1>5
  <2> HIDE DEF u, c
  <2>3. u + ((y + n) - x) = Initial - (c - n)
    BY <1>3, <2>1, <2>2
  <2> QED
    BY <2>3 DEF u, c
<1> QED
  BY <1>4, <1>6, <1>7 DEF Balanced

\* Flags and program counters.
LEMMA ControlKeeps == ControlTyped /\ [Next]_vars => ControlTyped'
<1> SUFFICES ASSUME ControlTyped, [Next]_vars
             PROVE  ControlTyped'
  OBVIOUS
<1>1. CASE PumpStops \/ PumpFlushes \/ PumpGates \/ PumpFeeds \/ PumpReplies \/ PumpAppends
  <2>1. /\ UNCHANGED <<play, exited, eof, announced, stop, status, closer>>
        /\ aged' = aged \/ aged' \in BOOLEAN
    BY <1>1 DEF PumpStops, PumpFlushes, PumpGates, PumpFeeds, PumpReplies, PumpAppends, FlushAll, bufferVars,
       closeVars, ptyVars
  <2>2. pump' \in {"top", "gate", "read", "reply", "append", "check", "announce", "tail", "done"}
    BY <1>1 DEF PumpStops, PumpFlushes, PumpGates, PumpFeeds, PumpReplies, PumpAppends, PumpGoes
  <2> QED
    BY <2>1, <2>2 DEF ControlTyped
<1>2. CASE PumpTimesOut \/ PumpSeesEof \/ PumpChecksExit \/ PumpAnnounces \/ PumpEnds
  <2>1. /\ UNCHANGED <<play, exited, eof, stop, status, closer>>
        /\ aged' = aged \/ aged' \in BOOLEAN
        /\ announced' = announced \/ announced' = TRUE
    BY <1>2 DEF PumpTimesOut, PumpSeesEof, PumpChecksExit, PumpAnnounces, PumpEnds, FlushAll, bufferVars,
       closeVars, ptyVars
  <2>2. pump' \in {"top", "gate", "read", "reply", "append", "check", "announce", "tail", "done"}
    BY <1>2 DEF PumpTimesOut, PumpSeesEof, PumpChecksExit, PumpAnnounces, PumpEnds, PumpGoes
  <2> QED
    BY <2>1, <2>2 DEF ControlTyped
<1>3. CASE Ages \/ CloseStops \/ Close \/ Exits \/ PipeEnds
  BY <1>3 DEF Ages, CloseStops, Close, CloseShutsDown, CloseDrains, CloseJoins, CloseGoes, Exits, PipeEnds,
     bufferVars, pumpVars, closeVars, ptyVars, ControlTyped
<1>4. CASE \E s \in Sinks : Attach(s) \/ Deliver(s) \/ Ack(s) \/ Release(s)
  <2>1. UNCHANGED <<play, exited, eof, aged, announced, stop, status, pump, closer>>
    BY <1>4 DEF Attach, TakeReplay, SendReplay, MarkReplay, CheckExit, Join, Deliver, Ack, Release,
       bufferVars, pumpVars, closeVars, ptyVars
  <2> QED
    BY <2>1 DEF ControlTyped
<1>5. CASE UNCHANGED vars
  BY <1>5 DEF vars, bufferVars, pumpVars, closeVars, ptyVars, ControlTyped
<1> QED
  BY <1>1, <1>2, <1>3, <1>4, <1>5 DEF Next, Pump

\* Nothing in flight, nothing sent.
LEMMA SpentNothing ==
  ASSUME OutputInv, CreditInv,
         \A s \in Sinks : frames'[s] = frames[s] \/ \E kind \in Kinds : frames'[s] = Append(frames[s], Mark(kind)),
         UNCHANGED <<credit, taken, unacked, todo>>
  PROVE  \A s \in Sinks : frames'[s] \in Seq(Frame) /\ Balanced(s)'
<1> TAKE s \in Sinks
<1>1. /\ frames[s] \in Seq(Frame) /\ Forward(frames[s]) /\ todo[s][1] <= todo[s][2]
  BY DEF CreditInv, SinksTyped, Balanced
<1>2. Takes(frames[s], frames'[s], 0)
  <2>1. CASE frames'[s] = frames[s]
    BY <1>1, <2>1, TakesNothing
  <2>2. CASE \E kind \in Kinds : frames'[s] = Append(frames[s], Mark(kind))
    BY <1>1, <2>2, TakesMark
  <2> QED
    BY <2>1, <2>2
<1>3. credit[s] \in Int
  BY DEF OutputInv, OutputShaped
<1>4. /\ credit'[s] = credit[s] - 0 /\ unacked'[s] = unacked[s] /\ taken'[s] = taken[s]
      /\ todo'[s][1] <= todo'[s][2]
  BY <1>1, <1>3
<1>5. Balanced(s)'
  BY <1>2, <1>4, TakenIsSpent
<1> QED
  BY <1>2, <1>5 DEF Takes

\* The ring keeps bytes that it was fed.
LEMMA TrimmedInRing ==
  ASSUME fed \in 0..MaxBytes, lost \in 0..fed, NEW n \in 1..ReadMax, fed + n <= MaxBytes
  PROVE  Trimmed(n) \in 0..(fed + n)
<1> DEFINE cut  == fed + n - Ring
           near == {b \in Newlines : cut < b /\ b <= cut + AlignScan}
<1>1. /\ fed \in Nat /\ lost \in Nat /\ lost <= fed /\ n \in Nat
      /\ Ring \in Nat \ {0} /\ AlignScan \in Nat /\ AlignScan < Ring /\ Newlines \subseteq Nat
  BY OutputAssumption
<1>2. cut \in Int /\ cut <= fed + n /\ cut + AlignScan <= fed + n
  BY <1>1
<1>3. near \subseteq Newlines /\ \A b \in near : b <= cut + AlignScan
  OBVIOUS
<1>4. Trimmed(n) = IF cut <= lost THEN lost ELSE IF near = {} THEN cut ELSE Min(near)
  BY DEF Trimmed
<1> HIDE DEF cut, near
<1>5. near # {} => Min(near) \in Nat /\ Min(near) <= fed + n
  <2> SUFFICES ASSUME near # {}
               PROVE  Min(near) \in Nat /\ Min(near) <= fed + n
    OBVIOUS
  <2>1. near \subseteq Nat
    BY <1>1, <1>3
  <2>2. Min(near) \in near
    BY <2>1, Least
  <2>3. Min(near) \in Nat /\ Min(near) <= cut + AlignScan
    BY <1>3, <2>1, <2>2
  <2> QED
    BY <1>1, <1>2, <2>3
<1> QED
  BY <1>1, <1>2, <1>4, <1>5

\* Steps that send nothing, and those that send the news of an exit.
LEMMA QuietBalances ==
  ASSUME OutputInv, CreditInv, ControlTyped',
         \/ PumpStops \/ PumpGates \/ PumpFeeds \/ PumpReplies \/ PumpAppends \/ PumpTimesOut \/ Ages
         \/ CloseStops \/ CloseShutsDown \/ CloseJoins \/ Exits \/ PipeEnds
         \/ PumpAnnounces \/ CloseDrains \/ UNCHANGED vars
         \/ \E s \in Sinks : Release(s)
  PROVE  CreditInv'
<1>1. UNCHANGED <<todo, delivered, credit, taken, unacked>>
  BY DEF PumpStops, PumpGates, PumpFeeds, PumpReplies, PumpAppends, PumpTimesOut, Ages, CloseStops, CloseShutsDown,
     CloseJoins, Exits, PipeEnds, PumpAnnounces, CloseDrains, Release, vars, bufferVars, attachVars, clientVars
<1>2. /\ frames \in [Sinks -> Seq(Frame)] /\ fed \in 0..MaxBytes /\ lost \in 0..fed
  BY DEF CreditInv, SinksTyped
<1>3. frames' = frames \/ \E T : frames' = [s \in Sinks |-> IF s \in T THEN Sending(s, "Exit") ELSE frames[s]]
  <2>1. CASE PumpAnnounces
    BY <2>1 DEF PumpAnnounces
  <2>2. CASE CloseDrains
    <3>1. frames' = [s \in Sinks |-> IF s \in {t \in feeding : status} THEN Sending(s, "Exit") ELSE frames[s]]
      BY <2>2 DEF CloseDrains
    <3> QED
      BY <3>1
  <2>3. CASE ~(PumpAnnounces \/ CloseDrains)
    BY <2>3 DEF PumpStops, PumpGates, PumpFeeds, PumpReplies, PumpAppends, PumpTimesOut, Ages, CloseStops, CloseShutsDown,
       CloseJoins, Exits, PipeEnds, Release, vars, bufferVars
  <2> QED
    BY <2>1, <2>2, <2>3
<1>4. \A s \in Sinks : frames'[s] = frames[s] \/ \E kind \in Kinds : frames'[s] = Append(frames[s], Mark(kind))
  BY <1>3 DEF Sending, Kinds
<1>5. \A s \in Sinks : frames'[s] \in Seq(Frame) /\ Balanced(s)'
  BY <1>1, <1>4, SpentNothing
<1>6. frames' \in [Sinks -> Seq(Frame)]
  <2>1. DOMAIN frames' = Sinks /\ frames' = [s \in Sinks |-> frames'[s]]
    BY <1>2, <1>3
  <2> HIDE DEF Frame
  <2> QED
    BY <1>5, <2>1
<1>7. fed' \in 0..MaxBytes /\ lost' \in 0..fed'
  <2>1. CASE PumpFeeds
    <3> DEFINE most == play.bytes
    <3>0. most \in 0..MaxBytes
      <4>1. play \in Plays
        BY DEF CreditInv, ControlTyped
      <4> QED
        BY <4>1, OutputAssumption
    <3>1. PICK n \in 1..ReadMax : fed + n <= MaxBytes /\ fed' = fed + n /\ lost' = Trimmed(n)
      <4>1. PICK n \in 1..ReadMax : fed + n <= most /\ fed' = fed + n /\ lost' = Trimmed(n)
        BY <2>1 DEF PumpFeeds
      <4> HIDE DEF most
      <4> QED
        BY <1>2, <3>0, <4>1, OutputAssumption
    <3>2. MaxBytes \in Nat /\ ReadMax \in Nat
      BY OutputAssumption
    <3>3. Trimmed(n) \in 0..(fed + n)
      BY <1>2, <3>1, TrimmedInRing
    <3> QED
      BY <1>2, <3>1, <3>2, <3>3
  <2>2. CASE ~PumpFeeds
    <3>1. fed' = fed /\ lost' = lost
      BY <2>2 DEF PumpStops, PumpGates, PumpReplies, PumpAppends, PumpTimesOut, Ages, CloseStops, CloseShutsDown,
         CloseJoins, Exits, PipeEnds, PumpAnnounces, CloseDrains, Release, vars, pumpVars
    <3> QED
      BY <1>2, <3>1
  <2> QED
    BY <2>1, <2>2
<1> QED
  BY <1>1, <1>5, <1>6, <1>7 DEF CreditInv, SinksTyped

\* What a client renders it has not acked, and what it acks it had rendered.
LEMMA ClientBalances ==
  ASSUME OutputInv, CreditInv, ControlTyped', NEW s \in Sinks, Deliver(s) \/ Ack(s)
  PROVE  CreditInv'
<1>1. UNCHANGED <<fed, lost, todo, delivered, frames>>
  BY DEF Deliver, Ack, bufferVars, pumpVars, attachVars
<1>2. /\ fed \in 0..MaxBytes /\ lost \in 0..fed
      /\ frames \in [Sinks -> Seq(Frame)] /\ unacked \in [Sinks -> Nat]
      /\ credit \in [Sinks -> (1 - Chunk)..Maximum]
      /\ Balanced(s) /\ Forward(frames[s])
      /\ {Initial, Maximum, Chunk} \subseteq Nat \ {0} /\ Initial <= Maximum
  BY OutputAssumption DEF CreditInv, SinksTyped, Balanced
<1>3. /\ frames[s] \in Seq(Frames) /\ taken \in [Sinks -> Nat] /\ taken[s] <= Len(frames[s])
      /\ Len(frames[s]) \in Nat /\ DOMAIN frames[s] = 1..Len(frames[s])
  BY LenProperties DEF OutputInv, OutputShaped, OutboxesHold
<1> DEFINE c == Carried(frames[s])
           n == taken[s]
           m == Len(frames[s])
           u == unacked[s]
           k == credit[s]
<1>4. /\ u \in Nat /\ k \in Int /\ n \in 0..m /\ m \in 0..m /\ m \in Nat
      /\ u + (c[m] - c[n]) = Initial - k
  BY <1>2, <1>3 DEF Balanced, Outstanding
<1>5. \A i \in 0..m : c[i] \in Nat /\ c[i] <= c[m]
  BY <1>2, <1>3, <1>4, CarriedGrows
<1>6. \A t \in Sinks \ {s} : /\ taken'[t] = taken[t] /\ unacked'[t] = unacked[t] /\ credit'[t] = credit[t]
                             /\ Balanced(t) /\ credit[t] \in Int
  BY <1>2, <1>3 DEF Deliver, Ack, bufferVars, CreditInv
<1>7. \A t \in Sinks \ {s} : Balanced(t)'
  BY <1>1, <1>6 DEF Balanced, Outstanding
<1>8. CASE Deliver(s)
  <2>1. /\ n < m /\ taken' = [taken EXCEPT ![s] = n + 1] /\ credit' = credit
        /\ unacked' = [unacked EXCEPT ![s] = u + Width(frames[s][n + 1])]
    BY <1>8 DEF Deliver, Width, bufferVars
  <2>2. c[n + 1] = c[n] + Width(frames[s][n + 1])
    <3>1. n + 1 \in 1..m /\ (n + 1) - 1 = n
      BY <1>4, <2>1
    <3>2. \A i \in 1..m : c[i] = c[i - 1] + Width(frames[s][i])
      BY <1>4, CarriedSteps
    <3> QED
      BY <3>1, <3>2
  <2>3. Width(frames[s][n + 1]) \in Nat
    <3>1. n + 1 \in 1..m
      BY <1>4, <2>1
    <3>2. frames[s][n + 1] \in Frames /\ frames[s][n + 1].from <= frames[s][n + 1].to
      BY <1>2, <1>3, <3>1, ElementOfSeq DEF Forward
    <3>3. frames[s][n + 1].from \in Int /\ frames[s][n + 1].to \in Int
      BY <3>2 DEF Frames
    <3> QED
      BY <3>2, <3>3 DEF Width
  <2> DEFINE w == Width(frames[s][n + 1])
  <2>4. /\ taken'[s] = n + 1 /\ unacked'[s] = u + w /\ credit'[s] = k
        /\ unacked' \in [Sinks -> Nat] /\ credit' = credit
    BY <1>2, <1>3, <2>1, <2>3
  <2>5. (u + w) + (c[m] - c[n + 1]) = Initial - k
    <3>1. c[m] \in Nat /\ c[n] \in Nat
      BY <1>4, <1>5
    <3>2. c[n + 1] = c[n] + w /\ w \in Nat
      BY <2>2, <2>3
    <3>3. u \in Nat /\ k \in Int /\ Initial \in Nat /\ u + (c[m] - c[n]) = Initial - k
      BY <1>2, <1>4
    <3> HIDE DEF u, w, k, c, m, n
    <3> QED
      BY <3>1, <3>2, <3>3
  <2>6. Balanced(s)'
    BY <1>1, <1>2, <2>4, <2>5 DEF Balanced, Outstanding
  <2>7. \A t \in Sinks : Balanced(t)'
    BY <1>7, <2>6
  <2> QED
    BY <1>1, <2>4, <2>7 DEF CreditInv, SinksTyped
<1>9. CASE Ack(s)
  <2>1. /\ unacked' = [unacked EXCEPT ![s] = 0] /\ taken' = taken
        /\ credit' = [credit EXCEPT ![s] = Replenished(s, u)]
    BY <1>9 DEF Ack
  <2>2. k + u <= Initial /\ 1 - Chunk <= k + u
    <3>1. c[m] \in Nat /\ c[n] \in Nat /\ c[n] <= c[m]
      BY <1>4, <1>5
    <3>2. u \in Nat /\ k \in (1 - Chunk)..Maximum /\ u + (c[m] - c[n]) = Initial - k
      BY <1>2, <1>4
    <3>3. Initial \in Nat /\ Maximum \in Nat /\ Chunk \in Nat
      BY <1>2
    <3> HIDE DEF u, k, c, m, n
    <3>4. k \in Int /\ 1 - Chunk <= k
      BY <3>2, <3>3
    <3>5. k + u <= Initial
      BY <3>1, <3>2, <3>3, <3>4
    <3> QED
      BY <3>2, <3>3, <3>4, <3>5
  <2>3. Replenished(s, u) = k + u
    <3>1. Maximum \in Int /\ k + u \in Int /\ k + u <= Maximum
      BY <1>2, <1>4, <2>2
    <3>2. Replenished(s, u) = Min({Maximum, k + u})
      BY DEF Replenished
    <3> QED
      BY <3>1, <3>2, MinOfTwo
  <2>4. /\ taken'[s] = n /\ unacked'[s] = 0 /\ credit'[s] = k + u
        /\ unacked' \in [Sinks -> Nat]
        /\ credit' \in [Sinks -> (1 - Chunk)..Maximum]
    <3>1. k + u \in (1 - Chunk)..Maximum
      BY <1>2, <1>4, <2>2
    <3> QED
      BY <1>2, <2>1, <2>3, <3>1
  <2>5. 0 + (c[m] - c[n]) = Initial - (k + u)
    <3>1. c[m] \in Nat /\ c[n] \in Nat
      BY <1>4, <1>5
    <3>2. u \in Nat /\ k \in Int /\ Initial \in Nat /\ u + (c[m] - c[n]) = Initial - k
      BY <1>2, <1>4
    <3> HIDE DEF u, k, c, m, n
    <3> QED
      BY <3>1, <3>2
  <2>6. Balanced(s)'
    BY <1>1, <1>2, <2>1, <2>4, <2>5 DEF Balanced, Outstanding
  <2>7. \A t \in Sinks : Balanced(t)'
    BY <1>7, <2>6
  <2> QED
    BY <1>1, <2>4, <2>7 DEF CreditInv, SinksTyped
<1> QED
  BY <1>8, <1>9

\* What chunks spend is less than a chunk more than the credit they were sent on.
LEMMA AffordableSpends ==
  ASSUME OutputShaped, OutboxesHold, NEW s \in Sinks
  PROVE  /\ Affordable(s) \in Nat
         /\ Affordable(s) # 0 => Affordable(s) * Chunk <= credit[s] + Chunk - 1 /\ credit[s] > 0
<1> DEFINE q == (credit[s] + Chunk - 1) \div Chunk
<1>1. Chunk \in Nat \ {0} /\ credit[s] \in Int
  BY OutputAssumption DEF OutputShaped
<1>2. Affordable(s) \in Nat /\ Room(s) \in Nat
  BY AffordableFits
<1>3. ASSUME Affordable(s) # 0
      PROVE  Affordable(s) * Chunk <= credit[s] + Chunk - 1 /\ credit[s] > 0
  <2>1. ~Blocked(s) /\ Affordable(s) = Min({Room(s), q})
    BY <1>3 DEF Affordable
  <2>2. credit[s] > 0 /\ credit[s] + Chunk - 1 \in Nat
    BY <1>1, <2>1 DEF Blocked
  <2>3. q \in Nat /\ q * Chunk <= credit[s] + Chunk - 1
    BY <1>1, <2>2
  <2> HIDE DEF q
  <2>4. Affordable(s) <= q
    BY <1>2, <2>1, <2>3, MinOfTwo
  <2>5. Affordable(s) * Chunk <= q * Chunk
    BY <1>1, <1>2, <2>3, <2>4
  <2>6. Affordable(s) * Chunk \in Nat /\ q * Chunk \in Nat
    BY <1>1, <1>2, <2>3
  <2> QED
    BY <1>1, <2>2, <2>3, <2>5, <2>6
<1> QED
  BY <1>2, <1>3

\* A flush spends of every sink's credit what it sends it.
LEMMA FlushBalances ==
  ASSUME OutputInv, CreditInv, FlushAll, UNCHANGED <<taken, unacked, todo>>
  PROVE  /\ credit' \in [Sinks -> (1 - Chunk)..Maximum]
         /\ delivered' \in [Sinks -> 0..MaxBytes]
         /\ frames' \in [Sinks -> Seq(Frame)]
         /\ \A s \in Sinks : Balanced(s)'
<1>1. /\ credit \in [Sinks -> (1 - Chunk)..Maximum] /\ delivered \in [Sinks -> 0..MaxBytes]
      /\ frames \in [Sinks -> Seq(Frame)] /\ fed \in 0..MaxBytes
      /\ \A s \in Sinks : Balanced(s)
      /\ {MaxBytes, Maximum, Chunk} \subseteq Nat \ {0}
  BY OutputAssumption DEF CreditInv, SinksTyped
<1>2. /\ OutputShaped /\ OutboxesHold /\ SinksInOrder
      /\ base \in Nat /\ tip \in Nat /\ base <= tip /\ tip <= fed
      /\ Listening \subseteq Sinks
  BY DEF OutputInv, OutputShaped, Listening
<1>3. CASE UNCHANGED <<delivered, credit, frames>>
  <2>1. \A s \in Sinks : Balanced(s)'
    BY <1>1, <1>3 DEF Balanced, Outstanding
  <2> QED
    BY <1>1, <1>3, <2>1
<1>4. CASE /\ Pending > 0 /\ Listening # {}
           /\ frames' = [s \in Sinks |->
                IF s \in Listening
                  THEN frames[s] \o Chunked("Output", base + Resume(s), base + Done(s), Chunks(s))
                  ELSE frames[s]]
           /\ credit' = [s \in Sinks |->
                IF s \in Listening THEN credit[s] - (Done(s) - Resume(s)) ELSE credit[s]]
           /\ delivered' = [s \in Sinks |->
                IF s \in Listening THEN Done(s) - Common ELSE delivered[s]]
  <2>1. \A s \in Listening :
          /\ Resume(s) = delivered[s] /\ delivered[s] \in Nat
          /\ Chunks(s) \in Nat
          /\ Done(s) \in Nat /\ Resume(s) <= Done(s) /\ Done(s) <= Pending
          /\ Done(s) <= Resume(s) + Chunks(s) * Chunk
          /\ Chunks(s) # 0 => (Chunks(s) - 1) * Chunk < Done(s) - Resume(s)
    <3> TAKE s \in Listening
    <3>1. delivered[s] <= Pending
      BY <1>2 DEF SinksInOrder, SinkInOrder
    <3>2. delivered[s] \in Nat
      BY <1>1, <1>2
    <3> QED
      BY <1>2, <3>1, <3>2, Offer
  <2>2. Common \in Nat /\ \A s \in Listening : Common <= Done(s)
    <3> DEFINE T == {Done(s) : s \in Listening}
    <3>1. T \subseteq Nat /\ T # {} /\ Common = Min(T)
      BY <1>4, <2>1 DEF Common
    <3>2. \A s \in Listening : Done(s) \in T
      OBVIOUS
    <3> HIDE DEF T
    <3>3. Min(T) \in T /\ \A y \in T : Min(T) <= y
      BY <3>1, Least
    <3> QED
      BY <3>1, <3>2, <3>3
  <2>3. ASSUME NEW s \in Listening
        PROVE  /\ Done(s) - Resume(s) \in Nat
               /\ credit[s] - (Done(s) - Resume(s)) \in (1 - Chunk)..Maximum
               /\ Done(s) - Common \in 0..MaxBytes
               /\ Takes(frames[s], frames'[s], Done(s) - Resume(s))
    <3> DEFINE n == Done(s) - Resume(s)
    <3>1. n \in Nat /\ n <= Chunks(s) * Chunk /\ Chunks(s) \in Nat /\ Chunks(s) * Chunk \in Nat
      <4>1. Chunks(s) * Chunk \in Nat
        BY <1>1, <2>1
      <4>2. Resume(s) \in Nat /\ Done(s) \in Nat /\ Resume(s) <= Done(s)
            /\ Done(s) <= Resume(s) + Chunks(s) * Chunk
        BY <2>1
      <4> QED
        BY <2>1, <4>1, <4>2
    <3>2. Chunks(s) <= Affordable(s)
      <4>1. Pending - Resume(s) \in Nat /\ Chunk \in Nat \ {0}
        BY <1>1, <1>2, <2>1 DEF Pending
      <4>2. (Pending - Resume(s) + Chunk - 1) \div Chunk \in Int
        BY <4>1
      <4>3. Affordable(s) \in Int
        BY <1>2, AffordableSpends
      <4> QED
        BY <4>2, <4>3, MinOfTwo DEF Chunks
    <3>3. credit[s] \in (1 - Chunk)..Maximum /\ credit[s] \in Int
      BY <1>1, <1>2
    <3> HIDE DEF n
    <3>4. credit[s] - n \in (1 - Chunk)..Maximum
      <4>1. CASE Chunks(s) = 0
        <5>1. n = 0
          BY <1>1, <3>1, <4>1
        <5> QED
          BY <1>1, <3>3, <5>1
      <4>2. CASE Chunks(s) # 0
        <5>1. Affordable(s) \in Nat /\ Affordable(s) # 0
          BY <1>2, <3>1, <3>2, <4>2, AffordableSpends
        <5>2. Affordable(s) * Chunk <= credit[s] + Chunk - 1 /\ Affordable(s) * Chunk \in Nat
          BY <1>1, <1>2, <5>1, AffordableSpends
        <5>3. Chunks(s) * Chunk <= Affordable(s) * Chunk
          BY <1>1, <3>1, <3>2, <5>1
        <5>4. n <= credit[s] + Chunk - 1
          BY <1>1, <3>1, <3>3, <5>2, <5>3
        <5> DEFINE k == credit[s]
        <5>5. k \in Int /\ k <= Maximum /\ n \in Nat /\ n <= k + Chunk - 1 /\ Chunk \in Nat /\ Maximum \in Nat
          BY <1>1, <3>1, <3>3, <5>4
        <5> HIDE DEF k
        <5>6. k - n \in (1 - Chunk)..Maximum
          BY <5>5
        <5> QED
          BY <5>6 DEF k
      <4> QED
        BY <4>1, <4>2
    <3>5. Done(s) - Common \in 0..MaxBytes
      <4>1. Done(s) \in Nat /\ Done(s) <= Pending /\ Common \in Nat /\ Common <= Done(s)
        BY <2>1, <2>2
      <4>2. MaxBytes \in Nat /\ Pending \in Nat /\ Pending <= MaxBytes
        BY <1>1, <1>2 DEF Pending
      <4> QED
        BY <4>1, <4>2
    <3>6. Takes(frames[s], frames'[s], n)
      <4> DEFINE a == base + Resume(s)
                 b == base + Done(s)
                 k == Chunks(s)
      <4>1. /\ a \in 0..MaxBytes /\ b \in 0..MaxBytes /\ k \in Nat /\ a <= b /\ b - a = n
        <5>1. /\ Resume(s) \in Nat /\ Done(s) \in Nat /\ Resume(s) <= Done(s) /\ Done(s) <= tip - base
              /\ n = Done(s) - Resume(s)
          BY <2>1 DEF Pending, n
        <5>2. base + Done(s) <= MaxBytes /\ MaxBytes \in Nat
          BY <1>1, <1>2, <5>1
        <5> QED
          BY <1>2, <3>1, <5>1, <5>2
      <4>2. b <= a + k * Chunk
        <5>1. Resume(s) \in Nat /\ Done(s) \in Nat /\ Done(s) = Resume(s) + n
          BY <2>1 DEF n
        <5> QED
          BY <1>2, <3>1, <5>1
      <4>3. k # 0 => (k - 1) * Chunk < b - a
        BY <2>1, <4>1 DEF n
      <4>4. frames'[s] = frames[s] \o Chunked("Output", a, b, k)
        BY <1>2, <1>4
      <4>5. frames[s] \in Seq(Frame) /\ Forward(frames[s])
        BY <1>1, <1>2 DEF Balanced
      <4> HIDE DEF a, b, k
      <4> QED
        BY <4>1, <4>2, <4>3, <4>4, <4>5, TakesRun
    <3> QED
      BY <3>1, <3>4, <3>5, <3>6 DEF n
  <2>4. \A s \in Sinks : frames'[s] \in Seq(Frame) /\ Balanced(s)'
    <3> TAKE s \in Sinks
    <3>1. CASE s \in Listening
      <4>1. Takes(frames[s], frames'[s], Done(s) - Resume(s))
        BY <2>3, <3>1
      <4>2. credit'[s] = credit[s] - (Done(s) - Resume(s))
        BY <1>4, <3>1
      <4>3. unacked'[s] = unacked[s] /\ taken'[s] = taken[s] /\ todo'[s][1] <= todo'[s][2]
        BY <1>1 DEF Balanced
      <4>4. Balanced(s)'
        BY <4>1, <4>2, <4>3, TakenIsSpent
      <4> QED
        BY <4>1, <4>4 DEF Takes
    <3>2. CASE s \notin Listening
      <4>1. frames'[s] = frames[s] /\ credit'[s] = credit[s]
        BY <1>4, <3>2
      <4> QED
        BY <1>1, <4>1 DEF Balanced, Outstanding
    <3> QED
      BY <3>1, <3>2
  <2>5. credit' \in [Sinks -> (1 - Chunk)..Maximum]
    <3>1. \A s \in Sinks : credit'[s] \in (1 - Chunk)..Maximum
      BY <1>1, <1>4, <2>3
    <3> QED
      BY <1>4, <3>1
  <2>6. delivered' \in [Sinks -> 0..MaxBytes]
    <3>1. \A s \in Sinks : delivered'[s] \in 0..MaxBytes
      BY <1>1, <1>4, <2>3
    <3> QED
      BY <1>4, <3>1
  <2>7. frames' \in [Sinks -> Seq(Frame)]
    <3>1. frames' = [s \in Sinks |-> frames'[s]]
      BY <1>4
    <3> HIDE DEF Frame
    <3> QED
      BY <2>4, <3>1
  <2> QED
    BY <2>4, <2>5, <2>6, <2>7
<1> QED
  BY <1>3, <1>4 DEF FlushAll, bufferVars

LEMMA PumpBalances ==
  ASSUME OutputInv, CreditInv, ControlTyped', PumpFlushes \/ PumpSeesEof \/ PumpChecksExit \/ PumpEnds
  PROVE  CreditInv'
<1>1. /\ UNCHANGED <<fed, lost, todo, taken, unacked>>
      /\ FlushAll \/ UNCHANGED bufferVars
  BY DEF PumpFlushes, PumpSeesEof, PumpChecksExit, PumpEnds, attachVars, clientVars
<1>2. /\ credit' \in [Sinks -> (1 - Chunk)..Maximum]
      /\ delivered' \in [Sinks -> 0..MaxBytes]
      /\ frames' \in [Sinks -> Seq(Frame)]
      /\ \A s \in Sinks : Balanced(s)'
  <2>1. CASE FlushAll
    BY <1>1, <2>1, FlushBalances
  <2>2. CASE UNCHANGED bufferVars
    <3>1. UNCHANGED <<credit, delivered, frames>>
      BY <2>2 DEF bufferVars
    <3> QED
      BY <1>1, <3>1 DEF CreditInv, SinksTyped, Balanced, Outstanding
  <2> QED
    BY <1>1, <2>1, <2>2
<1> QED
  BY <1>1, <1>2 DEF CreditInv, SinksTyped

\* A step of an attach spends what it replays, and nothing on its marks.
LEMMA AttachBalances ==
  ASSUME OutputInv, CreditInv, ControlTyped', NEW s \in Sinks, Attach(s)
  PROVE  CreditInv'
<1>1. /\ UNCHANGED <<fed, lost, delivered, taken, unacked>>
  BY DEF Attach, TakeReplay, SendReplay, MarkReplay, CheckExit, Join, pumpVars, clientVars
<1>2. /\ todo \in [Sinks -> (0..MaxBytes) \X (0..MaxBytes)]
      /\ credit \in [Sinks -> (1 - Chunk)..Maximum] /\ credit[s] \in Int
      /\ fed \in 0..MaxBytes /\ lost \in 0..fed
      /\ {MaxBytes, Maximum, Chunk} \subseteq Nat \ {0}
  <2>1. credit[s] \in Int
    BY DEF OutputInv, OutputShaped
  <2> QED
    BY <2>1, OutputAssumption DEF CreditInv, SinksTyped
<1>3. frames \in [Sinks -> Seq(Frame)] /\ frames[s] \in Seq(Frame) /\ Forward(frames[s]) /\ Balanced(s)
  BY DEF CreditInv, SinksTyped, Balanced
<1>4. ASSUME ~ SendReplay(s)
      PROVE  /\ credit' = credit /\ todo' \in [Sinks -> (0..MaxBytes) \X (0..MaxBytes)]
             /\ frames' \in [Sinks -> Seq(Frame)] /\ \A t \in Sinks : Balanced(t)'
  <2>1. \A t \in Sinks : frames'[t] = frames[t] \/ \E kind \in Kinds : frames'[t] = Append(frames[t], Mark(kind))
    <3>1. CASE Join(s)
      BY <3>1 DEF Join
    <3>2. CASE TakeReplay(s) \/ MarkReplay(s) \/ CheckExit(s)
      <4>1. PICK kind \in Kinds :
              frames' = [frames EXCEPT ![s] = Sending(s, kind)] \/ frames' = [frames EXCEPT ![s] = frames[s]]
        BY <3>2 DEF TakeReplay, MarkReplay, CheckExit, Kinds
      <4> HIDE DEF Frame, Kinds
      <4>2. \A t \in Sinks : frames'[t] = frames[t] \/ (t = s /\ frames'[t] = Sending(s, kind))
        BY <1>3, <4>1
      <4>3. Sending(s, kind) = frames[s] \/ Sending(s, kind) = Append(frames[s], Mark(kind))
        BY DEF Sending
      <4> QED
        BY <4>2, <4>3
    <3> QED
      BY <1>4, <3>1, <3>2 DEF Attach
  <2>2. credit' = credit /\ DOMAIN frames' = Sinks /\ frames' = [t \in Sinks |-> frames'[t]]
    <3>1. credit' = credit
      BY <1>4 DEF Attach, TakeReplay, MarkReplay, CheckExit, Join
    <3>2. \/ frames' = frames \/ \E gs : frames' = [frames EXCEPT ![s] = gs]
      BY <1>4 DEF Attach, TakeReplay, MarkReplay, CheckExit, Join
    <3> HIDE DEF Frame
    <3> QED
      BY <1>3, <3>1, <3>2
  <2>3. CASE TakeReplay(s)
    <3>1. todo' = [todo EXCEPT ![s] = <<lost, fed>>]
      BY <2>3 DEF TakeReplay
    <3>2. <<lost, fed>> \in (0..MaxBytes) \X (0..MaxBytes) /\ lost <= fed
      BY <1>2
    <3>3. todo' \in [Sinks -> (0..MaxBytes) \X (0..MaxBytes)]
      BY <1>2, <3>1, <3>2
    <3>4. \A t \in Sinks : todo'[t][1] <= todo'[t][2]
      <4>1. \A t \in Sinks : todo[t][1] <= todo[t][2]
        BY DEF CreditInv, Balanced
      <4> QED
        BY <1>2, <3>1, <3>2, <4>1
    <3>5. ASSUME NEW t \in Sinks
          PROVE  frames'[t] \in Seq(Frame) /\ Balanced(t)'
      <4>1. frames[t] \in Seq(Frame) /\ Forward(frames[t]) /\ credit[t] \in Int
        BY DEF CreditInv, SinksTyped, Balanced, OutputInv, OutputShaped
      <4>2. Takes(frames[t], frames'[t], 0)
        <5>1. CASE frames'[t] = frames[t]
          BY <4>1, <5>1, TakesNothing
        <5>2. CASE \E kind \in Kinds : frames'[t] = Append(frames[t], Mark(kind))
          BY <4>1, <5>2, TakesMark
        <5> QED
          BY <2>1, <5>1, <5>2
      <4>3. /\ credit'[t] = credit[t] - 0 /\ unacked'[t] = unacked[t] /\ taken'[t] = taken[t]
            /\ todo'[t][1] <= todo'[t][2]
        BY <1>1, <2>2, <3>4, <4>1
      <4>4. Balanced(t)'
        BY <4>2, <4>3, TakenIsSpent
      <4> QED
        BY <4>2, <4>4 DEF Takes
    <3>6. frames' \in [Sinks -> Seq(Frame)]
      <4> HIDE DEF Frame
      <4> QED
        BY <2>2, <3>5
    <3> QED
      BY <2>2, <3>3, <3>5, <3>6
  <2>4. CASE ~ TakeReplay(s)
    <3>1. UNCHANGED <<credit, taken, unacked, todo>>
      BY <1>1, <1>4, <2>2, <2>4 DEF Attach, MarkReplay, CheckExit, Join
    <3>2. \A t \in Sinks : frames'[t] \in Seq(Frame) /\ Balanced(t)'
      BY <2>1, <3>1, SpentNothing
    <3>3. frames' \in [Sinks -> Seq(Frame)]
      <4> HIDE DEF Frame
      <4> QED
        BY <2>2, <3>2
    <3> QED
      BY <1>2, <2>2, <3>1, <3>2, <3>3
  <2> QED
    BY <2>3, <2>4
<1>5. ASSUME SendReplay(s)
      PROVE  /\ credit' \in [Sinks -> (1 - Chunk)..Maximum]
             /\ todo' \in [Sinks -> (0..MaxBytes) \X (0..MaxBytes)]
             /\ frames' \in [Sinks -> Seq(Frame)] /\ \A t \in Sinks : Balanced(t)'
  <2> DEFINE from == todo[s][1]
             to   == todo[s][2]
             end  == Min({to, from + Chunk})
             f    == [kind |-> "Replay", from |-> from, to |-> Min({end, from + Chunk})]
  <2>1. from \in 0..MaxBytes /\ to \in 0..MaxBytes /\ from < to
    BY <1>2, <1>5 DEF SendReplay
  <2>2. end \in 0..MaxBytes /\ from < end /\ end <= to /\ end <= from + Chunk /\ Min({end, from + Chunk}) = end
    <3>1. from \in Int /\ to \in Int /\ from + Chunk \in Int
      BY <1>2, <2>1
    <3>2. end = IF to <= from + Chunk THEN to ELSE from + Chunk
      BY <3>1, MinOfTwo
    <3> HIDE DEF end, from, to
    <3>3. end \in Int /\ end \in 0..MaxBytes /\ from < end /\ end <= to /\ end <= from + Chunk
      BY <1>2, <2>1, <3>1, <3>2
    <3>4. Min({end, from + Chunk}) = end
      BY <3>1, <3>3, MinOfTwo
    <3> QED
      BY <3>3, <3>4
  <2>3. ASSUME NEW t \in Sinks \ {s}
        PROVE  /\ frames'[t] = frames[t] /\ credit'[t] = credit[t] /\ todo'[t] = todo[t]
               /\ Balanced(t) /\ Balanced(t)'
    <3>1. /\ frames'[t] = frames[t] /\ credit'[t] = credit[t] /\ todo'[t] = todo[t]
      BY <1>2, <1>3, <1>5 DEF SendReplay
    <3>2. Balanced(t)
      BY DEF CreditInv
    <3> QED
      BY <1>1, <3>1, <3>2 DEF Balanced, Outstanding
  <2>4. CASE closed[s] \/ Affordable(s) = 0
    <3>1. todo' = [todo EXCEPT ![s] = <<to, to>>] /\ UNCHANGED <<frames, credit>>
      BY <1>5, <2>4 DEF SendReplay
    <3>2. todo' \in [Sinks -> (0..MaxBytes) \X (0..MaxBytes)] /\ todo'[s] = <<to, to>>
      BY <1>2, <2>1, <3>1
    <3>3. Balanced(s)'
      <4>1. todo'[s][1] <= todo'[s][2]
        BY <2>1, <3>2
      <4> QED
        BY <1>1, <1>3, <3>1, <4>1 DEF Balanced, Outstanding
    <3> QED
      BY <1>2, <1>3, <2>3, <3>1, <3>2, <3>3
  <2>5. CASE ~(closed[s] \/ Affordable(s) = 0)
    <3>1. /\ todo' = [todo EXCEPT ![s] = <<end, to>>]
          /\ frames' = [frames EXCEPT ![s] = frames[s] \o Chunked("Replay", from, end, 1)]
          /\ credit' = [credit EXCEPT ![s] = credit[s] - (end - from)]
      BY <1>5, <2>5 DEF SendReplay
    <3>2. f \in Frame /\ Width(f) = end - from /\ end - from \in Nat /\ end - from <= Chunk
      BY <1>2, <2>1, <2>2 DEF Frame, Kinds, Width
    <3>3. Chunked("Replay", from, end, 1) = <<f>>
      <4>1. \A i \in 1..1 : from + (i - 1) * Chunk = from /\ from + i * Chunk = from + Chunk
        BY <1>2, <2>1
      <4> QED
        BY <4>1 DEF Chunked
    <3>4. credit[s] > 0
      <4>1. OutputShaped /\ OutboxesHold
        BY DEF OutputInv
      <4> QED
        BY <2>5, <4>1, AffordableSpends
    <3> HIDE DEF f, from, to, end
    <3>5. frames'[s] = Append(frames[s], f)
      <4>1. frames'[s] = frames[s] \o <<f>>
        BY <1>3, <3>1, <3>3
      <4> QED
        BY <1>3, <3>2, <4>1, AppendIsConcat
    <3>6. Takes(frames[s], frames'[s], end - from)
      BY <1>3, <3>2, <3>5, TakesFrame
    <3>7. /\ todo' \in [Sinks -> (0..MaxBytes) \X (0..MaxBytes)] /\ todo'[s] = <<end, to>>
      BY <1>2, <2>1, <2>2, <3>1
    <3>8. credit' \in [Sinks -> (1 - Chunk)..Maximum] /\ credit'[s] = credit[s] - (end - from)
      <4>1. credit[s] - (end - from) \in (1 - Chunk)..Maximum
        BY <1>2, <3>2, <3>4
      <4> QED
        BY <1>2, <3>1, <4>1
    <3>9. Balanced(s)'
      <4>1. todo'[s][1] <= todo'[s][2] /\ unacked'[s] = unacked[s] /\ taken'[s] = taken[s]
        BY <1>1, <2>2, <3>7
      <4> QED
        BY <3>6, <3>8, <4>1, TakenIsSpent
    <3>10. frames' \in [Sinks -> Seq(Frame)]
      <4>1. frames'[s] \in Seq(Frame)
        BY <3>6 DEF Takes
      <4>2. frames' = [t \in Sinks |-> frames'[t]]
        BY <1>3, <3>1
      <4> HIDE DEF Frame
      <4> QED
        BY <1>3, <2>3, <4>1, <4>2
    <3> QED
      BY <2>3, <3>7, <3>8, <3>9, <3>10
  <2> QED
    BY <2>4, <2>5
<1>6. /\ credit' \in [Sinks -> (1 - Chunk)..Maximum]
      /\ todo' \in [Sinks -> (0..MaxBytes) \X (0..MaxBytes)]
      /\ frames' \in [Sinks -> Seq(Frame)] /\ \A t \in Sinks : Balanced(t)'
  BY <1>2, <1>4, <1>5
<1> QED
  BY <1>1, <1>6 DEF CreditInv, SinksTyped

LEMMA CreditStart == Init => CreditInv
<1> SUFFICES ASSUME Init
             PROVE  CreditInv
  OBVIOUS
<1>1. {MaxBytes, Initial, Maximum, Chunk} \subseteq Nat \ {0} /\ Initial <= Maximum
  BY OutputAssumption
<1>2. <<>> \in Seq(Frame) /\ Len(<<>>) = 0 /\ DOMAIN <<>> = {}
  OBVIOUS
<1>3. ControlTyped
  BY DEF Init, ControlTyped
<1>4. SinksTyped
  BY <1>1, <1>2 DEF Init, SinksTyped
<1>5. Carried(<<>>)[0] = 0
  BY <1>2, CarriedSteps
<1>6. ASSUME NEW s \in Sinks
      PROVE  Balanced(s)
  <2>1. /\ frames[s] = <<>> /\ taken[s] = 0 /\ unacked[s] = 0 /\ credit[s] = Initial /\ todo[s] = <<0, 0>>
    BY DEF Init
  <2> QED
    BY <1>1, <1>2, <1>5, <2>1 DEF Balanced, Forward, Outstanding
<1> QED
  BY <1>3, <1>4, <1>6 DEF CreditInv

LEMMA CreditStep == OutputInv /\ CreditInv /\ [Next]_vars => CreditInv'
<1> SUFFICES ASSUME OutputInv, CreditInv, [Next]_vars
             PROVE  CreditInv'
  OBVIOUS
<1>1. ControlTyped'
  BY ControlKeeps DEF CreditInv
<1>2. CASE \/ PumpStops \/ PumpGates \/ PumpFeeds \/ PumpReplies \/ PumpAppends \/ PumpTimesOut \/ Ages
           \/ CloseStops \/ CloseShutsDown \/ CloseJoins \/ Exits \/ PipeEnds
           \/ PumpAnnounces \/ CloseDrains \/ UNCHANGED vars
           \/ \E s \in Sinks : Release(s)
  BY <1>1, <1>2, QuietBalances
<1>3. CASE PumpFlushes \/ PumpSeesEof \/ PumpChecksExit \/ PumpEnds
  BY <1>1, <1>3, PumpBalances
<1>4. CASE \E s \in Sinks : Attach(s)
  BY <1>1, <1>4, AttachBalances
<1>5. CASE \E s \in Sinks : Deliver(s) \/ Ack(s)
  BY <1>1, <1>5, ClientBalances
<1> QED
  BY <1>2, <1>3, <1>4, <1>5 DEF Next, Pump, Close

\* What the two invariants say of the buffers.
LEMMA CreditHolds == OutputInv /\ CreditInv => BuffersBounded
<1> SUFFICES ASSUME OutputInv, CreditInv
             PROVE  BuffersBounded
  OBVIOUS
<1>1. SessionTypeOK
  <2>1. ControlTyped /\ SinksTyped
    BY DEF CreditInv
  <2>2. /\ fed \in Nat /\ base \in Nat /\ tip \in Nat /\ base <= tip /\ tip <= fed /\ feeding \subseteq Sinks
        /\ attacher \in [Sinks -> {"none", "replay", "check", "join", "done"}]
        /\ closed \in [Sinks -> BOOLEAN] /\ taken \in [Sinks -> Nat]
    BY DEF OutputInv, OutputShaped
  <2>3. tip \in 0..fed /\ base \in 0..tip
    BY <2>2
  <2> QED
    BY <2>1, <2>2, <2>3 DEF SessionTypeOK, ControlTyped, SinksTyped
<1>2. ASSUME NEW s \in Sinks
      PROVE  Outstanding(s) = Initial - credit[s] /\ Outstanding(s) < Initial + Chunk
  <2>1. Outstanding(s) = Initial - credit[s] /\ credit[s] \in (1 - Chunk)..Maximum
    BY DEF CreditInv, Balanced, SinksTyped
  <2>2. Initial \in Nat /\ Chunk \in Nat /\ Maximum \in Nat
    BY OutputAssumption
  <2> QED
    BY <2>1, <2>2
<1>3. PendingBounded
  BY DEF OutputInv, PumpInOrder
<1> QED
  BY <1>1, <1>2, <1>3 DEF BuffersBounded, WindowHonoured

-----------------------------------------------------------------------------

\* The state of every session is in order.
THEOREM OutputInvariance == Spec => []OutputInv
<1>1. Init => OutputInv
  BY Initially
<1>2. OutputInv /\ [Next]_vars => OutputInv'
  BY NextKeeps
<1> QED
  BY <1>1, <1>2, PTL DEF Spec

\* Whatever the sinks take of what they are offered, and whenever they join,
\* leave, ack or close: live output reaches each in order, with no byte twice
\* and none left out.
THEOREM OutputInOrder == Spec => []LiveOutputInOrder
<1>1. OutputInv => LiveOutputInOrder
  BY DEF OutputInv, SinksInOrder, SinkInOrder, Gapless, LiveOutputInOrder
<1> QED
  BY <1>1, OutputInvariance, PTL

\* A client is told once that its replay is over, after the last of it and
\* before anything live, with the pump and the attach on threads of their own.
THEOREM OutputReplays == Spec => []ReplayThenLive
<1>1. OutputInv => ReplayThenLive
  BY DEF OutputInv, SinksInOrder, SinkInOrder, Sorted, ReplayThenLive
<1> QED
  BY <1>1, OutputInvariance, PTL

\* Neither end is overrun: what a client was sent and has not acked is what its
\* credit lacks of the window, less than a chunk over it at the most, and the pump
\* holds at most one read above the ceiling, whatever the sinks take, join and ack.
THEOREM OutputBounded == Spec => []BuffersBounded
<1>1. OutputInv /\ CreditInv /\ [Next]_vars => CreditInv'
  BY CreditStep
<1>2. Spec => []CreditInv
  BY <1>1, CreditStart, OutputInvariance, PTL DEF Spec
<1>3. OutputInv /\ CreditInv => BuffersBounded
  BY CreditHolds
<1> QED
  BY <1>2, <1>3, OutputInvariance, PTL
=============================================================================
