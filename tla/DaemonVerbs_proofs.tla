------------------------- MODULE DaemonVerbs_proofs -------------------------
(***************************************************************************)
(* Theorems about what the control connections of a daemon reach: its      *)
(* streams (StreamRegistry and StreamServer, for any clients, sockets and  *)
(* control connections, and any bounds) and its projects (ProjectService,  *)
(* for any requests, branches and folders, and any person beside it).  The *)
(* two share no state, and each part rests on its own assumption alone.    *)
(*                                                                         *)
(* The four invariants of the registry are inductive together: `bind`      *)
(* keeps names and connections in agreement only because the key it mints  *)
(* is above every key in use, and a sink is never opened twice only        *)
(* because every id handed out is below its connection's watermark.        *)
(*                                                                         *)
(* The server's steps are steps of the registry, so the table keeps its    *)
(* invariant.  What the tasks add falls in two: which socket serves which  *)
(* connection (SocketsInOrder), where only stream tasks act, and which ids *)
(* were announced (AnswersInOrder), where stream tasks only close sinks.   *)
(*                                                                         *)
(* Of the projects, the types and four parts are inductive together: where *)
(* the worktrees and the requests are, that a start keeps its branch, what *)
(* a listing attributes, and which folders may have a row.                 *)
(***************************************************************************)
EXTENDS StreamServer, ProjectService, SequenceTheorems, WellFoundedInduction, TLAPS

-----------------------------------------------------------------------------
\* The registry.

RegistryInv ==
  /\ RegistryTypeOK
  /\ NamesAndConnectionsAgree
  /\ OpenSinkIsRouted
  /\ IdsBelowWatermark

-----------------------------------------------------------------------------
\* Maps.

\* A map restricted: its domain and its values.
LEMMA RestrictLemma ==
  ASSUME NEW f, NEW S
  PROVE  /\ DOMAIN Restrict(f, S) = S
         /\ \A x \in S : Restrict(f, S)[x] = f[x]
BY DEF Restrict

\* Closing sinks neither adds a sink nor opens one.
LEMMA ClosingLemma ==
  ASSUME NEW S
  PROVE  /\ DOMAIN Closing(S) = DOMAIN sink
         /\ \A s \in DOMAIN sink :
              Closing(S)[s] = "open" => sink[s] = "open" /\ s \notin S
         /\ \A s \in DOMAIN sink : sink[s] = "closed" => Closing(S)[s] = "closed"
BY DEF Closing

-----------------------------------------------------------------------------
\* What each method leaves behind.

\* `bind` takes a key that nothing uses, and replaces the client's connection.
Bound(c) ==
  /\ next_connection \in Key /\ next_connection \notin Registered
  /\ next_connection' = next_connection + 1
  /\ DOMAIN current' = DOMAIN current \cup {c}
  /\ current'[c] = next_connection
  /\ \A d \in DOMAIN current : d # c => current'[d] = current[d]
  /\ Registered' = (Registered \ Previous(c)) \cup {next_connection}
  /\ connections'[next_connection] = [client |-> c, next_id |-> FIRST, sinks |-> {}]
  /\ \A k \in Registered \ Previous(c) : connections'[k] = connections[k]
  /\ sink' = Closing(UNION {Routed(p) : p \in Previous(c)})

\* So it does, from any state of the invariant.
LEMMA BindEffect ==
  ASSUME RegistryInv, NEW c \in Clients, Bind(c)
  PROVE  Bound(c)
<1> DEFINE entry == [client |-> c, next_id |-> FIRST, sinks |-> {}]
           kept  == Restrict(connections, Registered \ Previous(c))
<1>1. /\ current' = Put(current, c, next_connection)
      /\ connections' = Put(kept, next_connection, entry)
      /\ next_connection <= MaxKey
      /\ next_connection' = next_connection + 1
      /\ sink' = Closing(UNION {Routed(p) : p \in Previous(c)})
  BY DEF Bind
<1>2. /\ next_connection \in Key /\ next_connection \notin Registered
  BY <1>1, RegistryAssumption DEF RegistryInv, RegistryTypeOK, IdsBelowWatermark, Key
<1>3. /\ DOMAIN kept = Registered \ Previous(c)
      /\ \A k \in Registered \ Previous(c) : kept[k] = connections[k]
  BY RestrictLemma
<1>4. /\ Registered' = (Registered \ Previous(c)) \cup {next_connection}
      /\ connections'[next_connection] = entry
      /\ \A k \in Registered \ Previous(c) : connections'[k] = connections[k]
  <2> HIDE DEF kept, entry
  <2> QED
    BY <1>1, <1>2, <1>3 DEF Registered, Put
<1>5. /\ DOMAIN current' = DOMAIN current \cup {c}
      /\ current'[c] = next_connection
      /\ \A d \in DOMAIN current : d # c => current'[d] = current[d]
  BY <1>1 DEF Put
<1> QED
  BY <1>1, <1>2, <1>4, <1>5 DEF Bound

\* `attach` spends the watermark of the client's connection on a new sink.
AttachedTo(c) ==
  /\ c \in DOMAIN current /\ current[c] \in Registered
  /\ AttachedSink(c) \in Sink \ DOMAIN sink
  /\ DOMAIN sink' = DOMAIN sink \cup {AttachedSink(c)}
  /\ sink'[AttachedSink(c)] = "open"
  /\ \A s \in DOMAIN sink : sink'[s] = sink[s]
  /\ Registered' = Registered
  /\ \A k \in Registered : k # current[c] => connections'[k] = connections[k]
  /\ connections'[current[c]] =
       [client  |-> connections[current[c]].client,
        next_id |-> connections[current[c]].next_id + 1,
        sinks   |-> connections[current[c]].sinks \cup {connections[current[c]].next_id}]
  /\ connections[current[c]].next_id + 1 \in StreamId
  /\ UNCHANGED <<current, next_connection, superseded>>

\* So it does, from any state of the invariant.
LEMMA AttachEffect ==
  ASSUME RegistryInv, NEW c \in Clients, Attach(c)
  PROVE  AttachedTo(c)
<1> DEFINE k == current[c]
           i == connections[k].next_id
<1>1. /\ c \in DOMAIN current /\ k \in Registered /\ i < Ceiling
      /\ sink' = Put(sink, AttachedSink(c), "open")
      /\ UNCHANGED <<current, next_connection, superseded>>
  BY DEF Attach, CanAttach
<1>2. /\ connections[k] \in StreamConnection /\ k \in Key
  BY <1>1 DEF RegistryInv, RegistryTypeOK, Registered
<1>3. /\ i \in StreamId /\ i + 1 \in StreamId
  BY <1>1, <1>2, RegistryAssumption DEF StreamConnection, StreamId, FIRST
<1>4. AttachedSink(c) = [key |-> k, id |-> i]
  BY DEF AttachedSink
<1>5. AttachedSink(c) \in Sink \ DOMAIN sink
  <2>1. AttachedSink(c) \in Sink
    BY <1>2, <1>3, <1>4 DEF Sink
  <2>2. ASSUME AttachedSink(c) \in DOMAIN sink PROVE FALSE
    <3>1. i < i
      BY <1>1, <1>4, <2>2 DEF RegistryInv, IdsBelowWatermark
    <3> QED
      BY <3>1, <1>3 DEF StreamId, FIRST
  <2> QED
    BY <2>1, <2>2
<1>6. /\ DOMAIN sink' = DOMAIN sink \cup {AttachedSink(c)}
      /\ sink'[AttachedSink(c)] = "open"
      /\ \A s \in DOMAIN sink : sink'[s] = sink[s]
  BY <1>1, <1>5 DEF Put
<1>7. connections' = [connections EXCEPT ![k] = Assigned(connections[k])]
  BY DEF Attach
<1>8. /\ Registered' = Registered
      /\ \A j \in Registered : j # k => connections'[j] = connections[j]
      /\ connections'[k] = [client  |-> connections[k].client, next_id |-> i + 1,
                            sinks   |-> connections[k].sinks \cup {i}]
  BY <1>1, <1>7 DEF Assigned, Registered, RegistryInv, RegistryTypeOK
<1> QED
  BY <1>1, <1>3, <1>5, <1>6, <1>8 DEF AttachedTo

\* `unbind` removes a connection, its name if it still has it, and its sinks.
Unbound(k) ==
  /\ Registered' = Registered \ {k}
  /\ \A j \in Registered \ {k} : connections'[j] = connections[j]
  /\ DOMAIN current' = DOMAIN current \ {connections[k].client}
  /\ \A c \in DOMAIN current' : current'[c] = current[c]
  /\ sink' = Closing(Routed(k))
  /\ UNCHANGED next_connection

\* So it does, from any state of the invariant.
LEMMA UnbindEffect ==
  ASSUME RegistryInv, NEW k \in Registered, Unbind(k)
  PROVE  Unbound(k)
<1>1. /\ connections' = Restrict(connections, Registered \ {k})
      /\ current' = Restrict(current, {c \in DOMAIN current :
                                         ~(c = connections[k].client /\ current[c] = k)})
      /\ sink' = Closing(Routed(k))
      /\ UNCHANGED next_connection
  BY DEF Unbind
<1>2. current[connections[k].client] = k
  BY DEF RegistryInv, NamesAndConnectionsAgree
<1> QED
  BY <1>1, <1>2 DEF Restrict, Registered, Unbound

-----------------------------------------------------------------------------
\* Every method keeps the invariant.

\* The type invariant, method by method.
LEMMA TypingStep ==
  ASSUME RegistryInv, [RegistryNext]_registryVars
  PROVE  RegistryTypeOK'
<1> USE RegistryAssumption
<1>0. RegistryTypeOK
  BY DEF RegistryInv
<1>1. ASSUME NEW c \in Clients, Bind(c) PROVE RegistryTypeOK'
  BY <1>0, <1>1 DEF Bind, RegistryTypeOK, Put, Restrict, Previous, Registered, Closing,
                    StreamConnection, Key, FIRST, StreamId
<1>2. ASSUME NEW c \in Clients, Attach(c) PROVE RegistryTypeOK'
  <2>0. AttachedTo(c)
    BY <1>2, AttachEffect
  <2>1. connections'[current[c]] \in StreamConnection
    BY <1>0, <2>0 DEF AttachedTo, RegistryTypeOK, StreamConnection, Registered
  <2>2. /\ DOMAIN connections' = DOMAIN connections
        /\ \A k \in DOMAIN connections' : connections'[k] \in StreamConnection
    BY <1>0, <2>0, <2>1 DEF AttachedTo, RegistryTypeOK, Registered
  <2>3. connections' = [k \in DOMAIN connections' |-> connections'[k]]
    BY <1>0, <1>2 DEF Attach, RegistryTypeOK
  <2>4. sink' = [s \in DOMAIN sink' |-> sink'[s]]
    BY <1>2 DEF Attach, Put
  <2> QED
    BY <1>0, <2>0, <2>2, <2>3, <2>4 DEF AttachedTo, RegistryTypeOK
<1>3. ASSUME NEW k \in Key, Unbind(k) PROVE RegistryTypeOK'
  BY <1>0, <1>3 DEF Unbind, RegistryTypeOK, Restrict, Registered, Closing, Routed, registryVars
<1>4. ASSUME NEW k \in Key, TakeWake(k) PROVE RegistryTypeOK'
  BY <1>0, <1>4 DEF TakeWake, RegistryTypeOK
<1>5. ASSUME NEW s \in Sink, DetachOn(s) PROVE RegistryTypeOK'
  BY <1>0, <1>5 DEF DetachOn, RegistryTypeOK, Registered, Closing, Routed, registryVars, StreamConnection
<1>6. ASSUME NEW S, CloseSinks(S) PROVE RegistryTypeOK'
  BY <1>0, <1>6 DEF CloseSinks, RegistryTypeOK, Closing
<1>7. CASE UNCHANGED registryVars
  BY <1>0, <1>7 DEF registryVars, RegistryTypeOK
<1> QED
  BY <1>1, <1>2, <1>3, <1>4, <1>5, <1>6, <1>7 DEF RegistryNext

\* `bind` and the three other promises.
LEMMA BindStep ==
  ASSUME RegistryInv, NEW c \in Clients, Bind(c)
  PROVE  NamesAndConnectionsAgree' /\ OpenSinkIsRouted' /\ IdsBelowWatermark'
<1>0. Bound(c)
  BY BindEffect
<1>1. NamesAndConnectionsAgree'
  <2>1. Previous(c) = IF c \in DOMAIN current THEN {current[c]} ELSE {}
    BY DEF Previous, RegistryInv, NamesAndConnectionsAgree
  <2>2. ASSUME NEW d \in DOMAIN current'
        PROVE  current'[d] \in Registered' /\ connections'[current'[d]].client = d
    <3>1. CASE d = c
      BY <1>0, <3>1 DEF Bound
    <3>2. CASE d # c
      <4>1. d \in DOMAIN current /\ current'[d] = current[d]
        BY <1>0, <2>2, <3>2 DEF Bound
      <4>2. current[d] \in Registered /\ connections[current[d]].client = d
        BY <4>1 DEF RegistryInv, NamesAndConnectionsAgree
      <4>3. current[d] \notin Previous(c)
        BY <2>1, <3>2, <4>2 DEF RegistryInv, NamesAndConnectionsAgree
      <4> QED
        BY <1>0, <4>1, <4>2, <4>3 DEF Bound
    <3> QED
      BY <3>1, <3>2
  <2>3. ASSUME NEW k \in Registered'
        PROVE  connections'[k].client \in DOMAIN current' /\ current'[connections'[k].client] = k
    <3>1. CASE k = next_connection
      BY <1>0, <3>1 DEF Bound
    <3>2. CASE k # next_connection
      <4>1. k \in Registered \ Previous(c) /\ connections'[k] = connections[k]
        BY <1>0, <2>3, <3>2 DEF Bound
      <4>2. connections[k].client \in DOMAIN current /\ current[connections[k].client] = k
        BY <4>1 DEF RegistryInv, NamesAndConnectionsAgree
      <4>3. connections[k].client # c
        BY <2>1, <4>1, <4>2
      <4> QED
        BY <1>0, <4>1, <4>2, <4>3 DEF Bound
    <3> QED
      BY <3>1, <3>2
  <2> QED
    BY <2>2, <2>3 DEF NamesAndConnectionsAgree
<1>2. OpenSinkIsRouted'
  <2> SUFFICES ASSUME NEW s \in Open' PROVE (s \in Routed(s.key))'
    BY DEF OpenSinkIsRouted
  <2>1. s \in Open /\ s \notin UNION {Routed(p) : p \in Previous(c)}
    BY <1>0, ClosingLemma DEF Bound, Open
  <2>2. s \in Routed(s.key) /\ s.key \in Registered
    BY <2>1 DEF RegistryInv, OpenSinkIsRouted, Routed
  <2>3. s.key \in Registered \ Previous(c)
    BY <2>1, <2>2
  <2> QED
    BY <1>0, <2>2, <2>3 DEF Bound, Routed
<1>3. IdsBelowWatermark'
  <2>1. DOMAIN sink' = DOMAIN sink
    BY <1>0, ClosingLemma DEF Bound
  <2>2. next_connection \in Nat
    BY <1>0, RegistryAssumption DEF Bound, Key
  <2>3. Registered \subseteq Key
    BY DEF RegistryInv, RegistryTypeOK, Registered
  <2>4. \A s \in DOMAIN sink : s.key \in Key
    BY DEF RegistryInv, RegistryTypeOK, Sink
  <2>5. ASSUME NEW s \in DOMAIN sink
        PROVE  /\ s.key < next_connection'
               /\ s.key \in Registered' => s.id < connections'[s.key].next_id
    <3>1. s.key < next_connection /\ s.key \in Nat
      BY <2>4, RegistryAssumption DEF RegistryInv, IdsBelowWatermark, Key
    <3>2. s.key # next_connection /\ s.key < next_connection'
      BY <1>0, <2>2, <3>1 DEF Bound
    <3>3. s.key \in Registered => s.id < connections[s.key].next_id
      BY DEF RegistryInv, IdsBelowWatermark
    <3> QED
      BY <1>0, <3>2, <3>3 DEF Bound
  <2>6. ASSUME NEW k \in Registered' PROVE k < next_connection'
    <3>1. CASE k = next_connection
      BY <1>0, <2>2, <3>1 DEF Bound
    <3>2. CASE k \in Registered
      <4>1. k < next_connection
        BY <3>2 DEF RegistryInv, IdsBelowWatermark
      <4>2. k \in Nat
        BY <2>3, <3>2, RegistryAssumption DEF Key
      <4> QED
        BY <1>0, <2>2, <4>1, <4>2 DEF Bound
    <3> QED
      BY <1>0, <3>1, <3>2 DEF Bound
  <2> QED
    BY <2>1, <2>5, <2>6 DEF IdsBelowWatermark
<1> QED
  BY <1>1, <1>2, <1>3

\* `attach` and the three other promises.
LEMMA AttachStep ==
  ASSUME RegistryInv, NEW c \in Clients, Attach(c)
  PROVE  NamesAndConnectionsAgree' /\ OpenSinkIsRouted' /\ IdsBelowWatermark'
<1> DEFINE k == current[c]
           new == AttachedSink(c)
<1>0. AttachedTo(c)
  BY AttachEffect
<1>1. /\ k \in Registered /\ Registered' = Registered
      /\ \A j \in Registered : connections'[j].client = connections[j].client
      /\ \A j \in Registered : connections[j].sinks \subseteq connections'[j].sinks
      /\ UNCHANGED <<current, next_connection>>
  BY <1>0 DEF AttachedTo
<1>2. NamesAndConnectionsAgree'
  BY <1>1 DEF RegistryInv, NamesAndConnectionsAgree
<1>3. /\ new = [key |-> k, id |-> connections[k].next_id]
      /\ new.key \in Registered' /\ new.id \in connections'[new.key].sinks
  BY <1>0, <1>1 DEF AttachedTo, AttachedSink
<1>4. OpenSinkIsRouted'
  <2> SUFFICES ASSUME NEW s \in Open' PROVE (s \in Routed(s.key))'
    BY DEF OpenSinkIsRouted
  <2>1. CASE s = new
    BY <1>3, <2>1 DEF Routed
  <2>2. CASE s # new
    <3>1. s \in Open
      BY <2>2, <1>0 DEF AttachedTo, Open
    <3> QED
      BY <1>1, <3>1 DEF RegistryInv, OpenSinkIsRouted, Routed
  <2> QED
    BY <2>1, <2>2
<1>5. IdsBelowWatermark'
  <2>1. \A j \in Registered : connections[j].next_id \in Nat
    BY RegistryAssumption DEF RegistryInv, RegistryTypeOK, StreamConnection, StreamId, FIRST, Registered
  <2>2. \A s \in DOMAIN sink : s.id \in Nat
    BY RegistryAssumption DEF RegistryInv, RegistryTypeOK, Sink, StreamId, FIRST
  <2>3. \A j \in Registered : connections[j].next_id <= connections'[j].next_id
    BY <2>1, <1>0 DEF AttachedTo
  <2>4. \A j \in Registered' : connections'[j].next_id \in Nat
    BY <1>1, <2>1, <1>0 DEF AttachedTo
  <2>5. ASSUME NEW s \in DOMAIN sink, s.key \in Registered PROVE s.id < connections'[s.key].next_id
    BY <1>1, <2>1, <2>2, <2>3, <2>4, <2>5 DEF RegistryInv, IdsBelowWatermark
  <2>6. new.key < next_connection /\ new.id < connections'[new.key].next_id
    BY <1>1, <1>3, <2>1, <1>0 DEF AttachedTo, RegistryInv, IdsBelowWatermark
  <2> QED
    BY <1>1, <2>5, <2>6, <1>0 DEF AttachedTo, RegistryInv, IdsBelowWatermark
<1> QED
  BY <1>2, <1>4, <1>5

\* `unbind` and the three other promises.
LEMMA UnbindStep ==
  ASSUME RegistryInv, NEW k \in Registered, Unbind(k)
  PROVE  NamesAndConnectionsAgree' /\ OpenSinkIsRouted' /\ IdsBelowWatermark'
<1>0. Unbound(k)
  BY UnbindEffect
<1>1. NamesAndConnectionsAgree'
  BY <1>0 DEF Unbound, RegistryInv, NamesAndConnectionsAgree
<1>2. OpenSinkIsRouted'
  <2> SUFFICES ASSUME NEW s \in Open' PROVE (s \in Routed(s.key))'
    BY DEF OpenSinkIsRouted
  <2>1. s \in Open /\ s \notin Routed(k)
    BY <1>0, ClosingLemma DEF Unbound, Open
  <2> QED
    BY <1>0, <2>1 DEF Unbound, RegistryInv, OpenSinkIsRouted, Routed
<1>3. IdsBelowWatermark'
  BY <1>0, ClosingLemma DEF Unbound, RegistryInv, IdsBelowWatermark
<1> QED
  BY <1>1, <1>2, <1>3

\* `detach_on` of a routed sink and the three other promises.
LEMMA DetachOnStep ==
  ASSUME RegistryInv, NEW s \in Sink, s \in Routed(s.key), DetachOn(s)
  PROVE  NamesAndConnectionsAgree' /\ OpenSinkIsRouted' /\ IdsBelowWatermark'
<1>1. /\ s.key \in Registered /\ Registered' = Registered
      /\ sink' = Closing({s})
      /\ \A j \in Registered : /\ connections'[j].client = connections[j].client
                               /\ connections'[j].next_id = connections[j].next_id
                               /\ j # s.key => connections'[j].sinks = connections[j].sinks
      /\ connections'[s.key].sinks = connections[s.key].sinks \ {s.id}
      /\ UNCHANGED <<current, next_connection>>
  BY DEF DetachOn, Routed, Registered, RegistryInv, RegistryTypeOK, StreamConnection
<1>2. NamesAndConnectionsAgree'
  BY <1>1 DEF RegistryInv, NamesAndConnectionsAgree
<1>3. OpenSinkIsRouted'
  <2> SUFFICES ASSUME NEW o \in Open' PROVE (o \in Routed(o.key))'
    BY DEF OpenSinkIsRouted
  <2>1. o \in Open /\ o # s
    BY <1>1, ClosingLemma DEF Open
  <2>2. o \in Routed(o.key) /\ o.key \in Registered
    BY <2>1 DEF RegistryInv, OpenSinkIsRouted, Routed
  <2>3. o.key = s.key => o.id # s.id
    BY <2>1, <2>2 DEF Routed
  <2> QED
    BY <1>1, <2>2, <2>3 DEF Routed
<1>4. IdsBelowWatermark'
  BY <1>1, ClosingLemma DEF RegistryInv, IdsBelowWatermark
<1> QED
  BY <1>2, <1>3, <1>4

\* Every step of the registry keeps the invariant.
LEMMA RegistryStep == RegistryInv /\ [RegistryNext]_registryVars => RegistryInv'
<1> SUFFICES ASSUME RegistryInv, [RegistryNext]_registryVars PROVE RegistryInv'
  OBVIOUS
<1> DEFINE Promises == NamesAndConnectionsAgree /\ OpenSinkIsRouted /\ IdsBelowWatermark
<1>1. ASSUME NEW c \in Clients, Bind(c) PROVE Promises'
  BY <1>1, BindStep
<1>2. ASSUME NEW c \in Clients, Attach(c) PROVE Promises'
  BY <1>2, AttachStep
<1>3. ASSUME UNCHANGED registryVars PROVE Promises'
  BY <1>3 DEF registryVars, RegistryInv, NamesAndConnectionsAgree, OpenSinkIsRouted, IdsBelowWatermark,
              Registered, Open, Routed
<1>4. ASSUME NEW k \in Key, Unbind(k) PROVE Promises'
  <2>1. CASE k \in Registered
    BY <1>4, <2>1, UnbindStep
  <2>2. CASE k \notin Registered
    BY <1>3, <1>4, <2>2 DEF Unbind
  <2> QED
    BY <2>1, <2>2
<1>5. ASSUME NEW k \in Key, TakeWake(k) PROVE Promises'
  BY <1>5 DEF TakeWake, RegistryInv, NamesAndConnectionsAgree, OpenSinkIsRouted, IdsBelowWatermark,
              Registered, Open, Routed
<1>6. ASSUME NEW s \in Sink, DetachOn(s) PROVE Promises'
  <2>1. CASE s \in Routed(s.key)
    BY <1>6, <2>1, DetachOnStep
  <2>2. CASE s \notin Routed(s.key)
    BY <1>3, <1>6, <2>2 DEF DetachOn
  <2> QED
    BY <2>1, <2>2
<1>7. ASSUME NEW s \in Sink, CloseSinks({s}) PROVE Promises'
  <2>1. /\ UNCHANGED <<connections, current, next_connection>>
        /\ DOMAIN sink' = DOMAIN sink /\ Open' \subseteq Open
    BY <1>7, ClosingLemma DEF CloseSinks, Open
  <2> QED
    BY <2>1 DEF RegistryInv, NamesAndConnectionsAgree, OpenSinkIsRouted, IdsBelowWatermark,
                Registered, Routed
<1>8. Promises'
  BY <1>1, <1>2, <1>3, <1>4, <1>5, <1>6, <1>7 DEF RegistryNext
<1> QED
  BY <1>8, TypingStep DEF RegistryInv

-----------------------------------------------------------------------------
\* The theorems.

\* The four invariants hold together, from the empty table on.
THEOREM RegistryInvariance == RegistrySpec => []RegistryInv
<1>1. RegistryInit => RegistryInv
  BY RegistryAssumption
     DEF RegistryInit, RegistryInv, RegistryTypeOK, NamesAndConnectionsAgree, OpenSinkIsRouted,
         IdsBelowWatermark, EmptyMap, Registered, Open, Key
<1> QED
  BY <1>1, RegistryStep, PTL DEF RegistrySpec

\* Every field of the table keeps its type: no id reaches the ceiling, and no
\* key passes the counter.
THEOREM RegistryTyping == RegistrySpec => []RegistryTypeOK
<1>1. RegistryInv => RegistryTypeOK
  BY DEF RegistryInv
<1> QED
  BY <1>1, RegistryInvariance, PTL

\* Client ids and connections name each other, no sink is open that the client
\* could neither ack nor detach, and `classify_unattached` decides "was assigned"
\* rightly for every id.
THEOREM RegistryTable == RegistrySpec => []TableConsistent
<1>1. RegistryInv => TableConsistent
  BY DEF RegistryInv, TableConsistent
<1> QED
  BY <1>1, RegistryInvariance, PTL

\* A closed sink stays closed under every method: no stream id and no
\* connection key is ever used twice.
THEOREM RegistryClosedForGood == RegistrySpec => ClosedForGood
<1> DEFINE Keeps == \A s \in DOMAIN sink :
                      s \in DOMAIN sink' /\ (sink[s] = "closed" => sink'[s] = "closed")
<1>1. RegistryInv /\ [RegistryNext]_registryVars => [Keeps]_registryVars
  <2> SUFFICES ASSUME RegistryInv, RegistryNext PROVE Keeps
    OBVIOUS
  <2>1. ASSUME NEW c \in Clients, Bind(c) PROVE Keeps
    BY <2>1, ClosingLemma DEF Bind
  <2>2. ASSUME NEW c \in Clients, Attach(c) PROVE Keeps
    BY <2>2, AttachEffect DEF AttachedTo
  <2>3. ASSUME NEW k \in Key, Unbind(k) PROVE Keeps
    BY <2>3, ClosingLemma DEF Unbind, registryVars
  <2>4. ASSUME NEW k \in Key, TakeWake(k) PROVE Keeps
    BY <2>4 DEF TakeWake
  <2>5. ASSUME NEW s \in Sink, DetachOn(s) PROVE Keeps
    BY <2>5, ClosingLemma DEF DetachOn, registryVars
  <2>6. ASSUME NEW s \in Sink, CloseSinks({s}) PROVE Keeps
    BY <2>6, ClosingLemma DEF CloseSinks
  <2> QED
    BY <2>1, <2>2, <2>3, <2>4, <2>5, <2>6 DEF RegistryNext
<1> QED
  BY <1>1, RegistryInvariance, PTL DEF RegistrySpec, ClosedForGood

-----------------------------------------------------------------------------
\* The server.

Job == [at : Steps, verb : Verbs, request : 0..MaxRequests,
        sink : Sink \cup {NoSink}, seen : Key \cup {0}]

SocketsTyped ==
  /\ phase \in [Sockets -> Phases]
  /\ key \in [Sockets -> Key \cup {0}]
  /\ latest \in [Clients -> Sockets \cup {NoSocket}]

ControlsTyped == ctl \in [Controls -> Job]

AnswersTyped ==
  /\ requests \in 0..MaxRequests
  /\ releases \in 0..MaxReleases
  /\ DOMAIN receipts \subseteq 1..MaxRequests
  /\ receipts \in [DOMAIN receipts -> Sink]
  /\ told \subseteq Clients \X Sink
  /\ subscribers \subseteq Sink
  /\ started \subseteq Sink

\* The type invariant by its parts: table, sockets, control connections, answers.
LEMMA TypingSplit == ServerTypeOK <=> RegistryTypeOK /\ SocketsTyped /\ ControlsTyped /\ AnswersTyped
BY DEF ServerTypeOK, SocketsTyped, ControlsTyped, AnswersTyped, Job

\* Every step of the server is a step of the registry, or leaves it alone.
LEMMA ServerRefines ==
  ASSUME ServerTypeOK, [Next]_vars
  PROVE  [RegistryNext]_registryVars
<1>1. /\ Registered \subseteq Key /\ superseded \subseteq Key /\ DOMAIN sink \subseteq Sink
      /\ \A k \in Registered : connections[k].sinks \subseteq StreamId
      /\ sink = [s \in DOMAIN sink |-> sink[s]]
  BY DEF ServerTypeOK, RegistryTypeOK, Registered, StreamConnection
<1>2. ASSUME NEW c \in Clients, Bind(c) \/ Attach(c) PROVE RegistryNext
  BY <1>2 DEF RegistryNext
<1>3. ASSUME NEW k, Unbind(k) PROVE [RegistryNext]_registryVars
  BY <1>1, <1>3 DEF RegistryNext, Unbind
<1>4. ASSUME NEW k, TakeWake(k) PROVE RegistryNext
  BY <1>1, <1>4 DEF RegistryNext, TakeWake
<1>5. ASSUME NEW s, DetachOn(s) PROVE [RegistryNext]_registryVars
  <2>1. CASE s \in Routed(s.key)
    <3>1. s \in Sink
      BY <1>1, <2>1 DEF Routed, Sink
    <3> QED
      BY <1>5, <3>1 DEF RegistryNext
  <2>2. CASE s \notin Routed(s.key)
    BY <1>5, <2>2 DEF DetachOn
  <2> QED
    BY <2>1, <2>2
<1>6. ASSUME NEW s \in Sink, CloseSinks({s}) PROVE RegistryNext
  BY <1>6 DEF RegistryNext
<1>7. ASSUME CloseSinks({}) PROVE UNCHANGED registryVars
  BY <1>1, <1>7 DEF CloseSinks, Closing, registryVars
<1>8. ASSUME NEW s \in Sockets, StreamTask(s) PROVE [RegistryNext]_registryVars
  BY <1>2, <1>3, <1>4, <1>8, ServerAssumption
     DEF StreamTask, OpenStream, BindStream, AcceptStream, AcceptLost, CreditEnds, ReadCredit, LetGo,
         UnbindStream, ForgetConnection
<1>9. ASSUME NEW t \in Controls, ControlTask(t) PROVE [RegistryNext]_registryVars
  <2>1. Client(t) \in Clients
    BY ServerAssumption DEF Client
  <2>2. ASSUME Unsubscribe(t) PROVE [RegistryNext]_registryVars
    <3> DEFINE x == [key |-> ctl[t].seen, id |-> ctl[t].sink.id]
    <3>1. CASE x \in subscribers
      <4>1. {y \in subscribers : y = x} = {x} /\ x \in Sink
        BY <3>1 DEF ServerTypeOK
      <4> QED
        BY <1>6, <2>2, <4>1 DEF Unsubscribe
    <3>2. CASE x \notin subscribers
      <4>1. {y \in subscribers : y = x} = {}
        BY <3>2
      <4> QED
        BY <1>7, <2>2, <4>1 DEF Unsubscribe
    <3> QED
      BY <3>1, <3>2
  <2>3. CASE Reserve(t)
    BY <1>2, <2>1, <2>3 DEF Reserve
  <2>4. CASE Abandon(t) \/ Detach(t)
    BY <1>5, <2>4 DEF Abandon, Detach
  <2>5. CASE ~(Reserve(t) \/ Abandon(t) \/ Detach(t) \/ Unsubscribe(t))
    BY <1>9, <2>5
       DEF ControlTask, SendReserve, SendRelease, Refuse, WriteAnswer, StartReplay, Subscribe, ForgetReceipt,
           Retry, ResolveDetach, ResolveUnsubscribe, UnsubscribeUnbound, CloseControl
  <2> QED
    BY <2>2, <2>3, <2>4, <2>5
<1>10. ASSUME NEW s \in DOMAIN sink, SessionCloses(s) PROVE RegistryNext
  BY <1>1, <1>6, <1>10 DEF SessionCloses
<1>11. ASSUME Broadcast \/ UNCHANGED vars PROVE UNCHANGED registryVars
  BY <1>11 DEF Broadcast, vars
<1> QED
  BY <1>8, <1>9, <1>10, <1>11 DEF Next

-----------------------------------------------------------------------------
\* Sockets and connections.

\* A socket whose connection is bound and not yet given up.
Serves(s) == phase[s] \in {"bound", "serving", "leaving"}

\* Every socket has a key of its own once it is bound, the registry's counter is
\* above all of them, and a socket past its hello is the latest of its client
\* and, if it is bound, the one its client id names.
SocketsInOrder ==
  /\ \A s \in Sockets : key[s] = 0 <=> phase[s] \in {"closed", "vetted"}
  /\ \A s \in Sockets : key[s] < next_connection
  /\ \A r, s \in Sockets : key[r] = key[s] /\ key[s] # 0 => r = s
  /\ \A k \in Registered : \E s \in Sockets : key[s] = k /\ Serves(s)
  /\ \A c \in Clients : latest[c] # NoSocket => SocketClient[latest[c]] = c
  /\ \A s \in Sockets : phase[s] \in {"vetted", "bound"} => latest[SocketClient[s]] = s
  /\ \A s \in Sockets :
       phase[s] \in {"bound", "serving"} /\ latest[SocketClient[s]] = s
         => SocketClient[s] \in DOMAIN current /\ current[SocketClient[s]] = key[s]
  /\ SupersededIsWoken

\* The steps of control connections and sessions touch nothing of this.
LEMMA SocketsUntouched ==
  ASSUME SocketsTyped, SocketsInOrder,
         UNCHANGED <<phase, key, latest, current, next_connection>>,
         Registered' = Registered, superseded' = superseded
  PROVE  SocketsTyped' /\ SocketsInOrder'
BY DEF SocketsTyped, SocketsInOrder, SupersededIsWoken, Serves

\* A client opens a stream socket: it becomes the latest, and no other is on its way.
LEMMA OpenStreamSockets ==
  ASSUME ServerTypeOK, SocketsInOrder, NEW s \in Sockets, OpenStream(s)
  PROVE  SocketsTyped' /\ SocketsInOrder'
<1> DEFINE c == SocketClient[s]
<1>1. /\ phase' = [phase EXCEPT ![s] = "vetted"] /\ phase[s] = "closed"
      /\ latest' = [latest EXCEPT ![c] = s]
      /\ \A r \in Sockets : SocketClient[r] = c => phase[r] \notin {"vetted", "bound"}
      /\ UNCHANGED <<registryVars, key>>
  BY DEF OpenStream, Become
<1>2. c \in Clients
  BY ServerAssumption
<1>3. SocketsTyped /\ Registered' = Registered
  BY <1>1, TypingSplit DEF registryVars, Registered
<1>4. SocketsTyped'
  BY <1>1, <1>2, <1>3 DEF SocketsTyped, Phases
<1>5. /\ phase'[s] = "vetted" /\ \A r \in Sockets : r # s => phase'[r] = phase[r]
      /\ latest'[c] = s /\ \A d \in Clients : d # c => latest'[d] = latest[d]
  BY <1>1, <1>2, <1>3 DEF SocketsTyped
<1>6. \A r \in Sockets : SocketClient[r] \in Clients
  BY ServerAssumption
<1>7. \A r \in Sockets : r # s /\ phase[r] \in {"vetted", "bound"} => latest'[SocketClient[r]] = r
  BY <1>1, <1>5, <1>6 DEF SocketsInOrder
<1>8. \A r \in Sockets : r # s /\ latest'[SocketClient[r]] = r => latest[SocketClient[r]] = r
  BY <1>2, <1>5, <1>6
<1>9. \A k \in Registered : \E r \in Sockets : key[r] = k /\ Serves(r) /\ r # s
  BY <1>1 DEF SocketsInOrder, Serves
<1> QED
  BY <1>1, <1>3, <1>4, <1>5, <1>7, <1>8, <1>9
     DEF SocketsInOrder, SupersededIsWoken, Serves, registryVars

\* A bind takes a key above all others, and the name of a client whose latest
\* socket it is.
LEMMA BindStreamSockets ==
  ASSUME ServerTypeOK, RegistryInv, SocketsInOrder, NEW s \in Sockets, BindStream(s)
  PROVE  SocketsTyped' /\ SocketsInOrder'
<1> DEFINE c == SocketClient[s]
           k == next_connection
<1>0. c \in Clients /\ SocketsTyped
  BY ServerAssumption, TypingSplit
<1>1. /\ phase' = [phase EXCEPT ![s] = "bound"] /\ phase[s] = "vetted"
      /\ key' = [key EXCEPT ![s] = k] /\ latest' = latest
      /\ Bind(c)
  BY DEF BindStream, Become
<1>2. Bound(c)
  BY <1>0, <1>1, BindEffect
<1>3. SocketsTyped'
  BY <1>0, <1>1, <1>2 DEF SocketsTyped, Phases, Bound
<1>4. /\ phase'[s] = "bound" /\ \A r \in Sockets : r # s => phase'[r] = phase[r]
      /\ key'[s] = k /\ \A r \in Sockets : r # s => key'[r] = key[r]
  BY <1>0, <1>1 DEF SocketsTyped
<1>5. /\ k \in Nat /\ k # 0 /\ next_connection' = k + 1
      /\ \A r \in Sockets : key[r] \in Nat /\ key[r] < k
  BY <1>0, <1>2, RegistryAssumption DEF Bound, Key, SocketsTyped, SocketsInOrder
<1>6. \A r \in Sockets : key'[r] < next_connection' /\ (r # s => key'[r] # k)
  BY <1>4, <1>5
<1>7. latest[c] = s
  BY <1>1 DEF SocketsInOrder
<1>8. \A j \in Registered' : \E r \in Sockets : key'[r] = j /\ Serves(r)'
  <2> SUFFICES ASSUME NEW j \in Registered', j # k PROVE \E r \in Sockets : key'[r] = j /\ Serves(r)'
    BY <1>4 DEF Serves
  <2>1. j \in Registered
    BY <1>2 DEF Bound
  <2>2. PICK r \in Sockets : key[r] = j /\ Serves(r)
    BY <2>1 DEF SocketsInOrder
  <2>3. r # s
    BY <1>1, <2>2 DEF Serves
  <2> QED
    BY <1>4, <2>2, <2>3 DEF Serves
<1>9. /\ c \in DOMAIN current' /\ current'[c] = k
      /\ \A d \in DOMAIN current : d # c => d \in DOMAIN current' /\ current'[d] = current[d]
  BY <1>2 DEF Bound
<1>10. SupersededIsWoken'
  <2>1. superseded' = superseded \cup Previous(c) /\ Registered' = (Registered \ Previous(c)) \cup {k}
    BY <1>1, <1>2 DEF Bind, Bound
  <2> QED
    BY <1>4, <2>1 DEF SocketsInOrder, SupersededIsWoken
<1>11. \A r \in Sockets :
         phase'[r] \in {"bound", "serving"} /\ latest'[SocketClient[r]] = r
           => SocketClient[r] \in DOMAIN current' /\ current'[SocketClient[r]] = key'[r]
  BY <1>1, <1>4, <1>7, <1>9 DEF SocketsInOrder
<1>12. \A r, q \in Sockets : key'[r] = key'[q] /\ key'[q] # 0 => r = q
  BY <1>4, <1>6 DEF SocketsInOrder
<1>13. \A r \in Sockets : key'[r] = 0 <=> phase'[r] \in {"closed", "vetted"}
  BY <1>4, <1>5 DEF SocketsInOrder
<1>14. \A r \in Sockets : phase'[r] \in {"vetted", "bound"} => latest'[SocketClient[r]] = r
  BY <1>1, <1>4, <1>7 DEF SocketsInOrder
<1> QED
  BY <1>1, <1>3, <1>6, <1>8, <1>10, <1>11, <1>12, <1>13, <1>14 DEF SocketsInOrder

\* A socket that gives its connection up, before or after it was accepted.
LEMMA UnbindSockets ==
  ASSUME ServerTypeOK, RegistryInv, SocketsInOrder, NEW s \in Sockets, NEW to \in {"unbound", "done"},
         phase[s] \in {"bound", "leaving"}, phase' = [phase EXCEPT ![s] = to], Unbind(key[s]),
         UNCHANGED <<key, latest>>
  PROVE  SocketsTyped' /\ SocketsInOrder'
<1> DEFINE k == key[s]
<1>0. SocketsTyped
  BY TypingSplit
<1>1. phase'[s] = to /\ \A r \in Sockets : r # s => phase'[r] = phase[r]
  BY <1>0 DEF SocketsTyped
<1>2. /\ Registered' = Registered \ {k}
      /\ UNCHANGED <<next_connection, superseded>>
      /\ \A c \in DOMAIN current : current[c] # k => c \in DOMAIN current' /\ current'[c] = current[c]
  BY DEF Unbind, Restrict, Registered, registryVars
<1>3. SocketsTyped'
  BY <1>0 DEF SocketsTyped, Phases
<1>4. \A r \in Sockets : r # s => key[r] # k
  BY DEF SocketsInOrder
<1>5. \A j \in Registered' : \E r \in Sockets : key'[r] = j /\ Serves(r)'
  BY <1>1, <1>2 DEF SocketsInOrder, Serves
<1> QED
  BY <1>1, <1>2, <1>3, <1>4, <1>5 DEF SocketsInOrder, SupersededIsWoken

\* The stream tasks keep the order of the sockets.
LEMMA StreamTaskSockets ==
  ASSUME ServerTypeOK, RegistryInv, SocketsInOrder, NEW s \in Sockets, StreamTask(s)
  PROVE  SocketsTyped' /\ SocketsInOrder'
<1>0. SocketsTyped
  BY TypingSplit
<1>1. CASE OpenStream(s)
  BY <1>1, OpenStreamSockets
<1>2. CASE BindStream(s)
  BY <1>2, BindStreamSockets
<1>3. CASE AcceptLost(s)
  BY <1>3, UnbindSockets DEF AcceptLost, Become
<1>4. CASE UnbindStream(s)
  BY <1>4, UnbindSockets DEF UnbindStream, Become
\* What is left moves one task on, and may take its wake.
<1>5. ASSUME NEW from \in {"bound", "serving", "unbound"}, NEW to \in {"serving", "leaving", "done"},
             <<from, to>> \in {<<"bound", "serving">>, <<"serving", "leaving">>, <<"unbound", "done">>},
             Become(s, from, to), UNCHANGED <<connections, current, next_connection, key, latest>>,
             superseded' = superseded \/ (to = "leaving" /\ superseded' = superseded \ {key[s]})
      PROVE  SocketsTyped' /\ SocketsInOrder'
  <2>1. /\ phase[s] = from /\ phase'[s] = to /\ \A r \in Sockets : r # s => phase'[r] = phase[r]
        /\ SocketsTyped' /\ Registered' = Registered
    BY <1>0, <1>5 DEF Become, SocketsTyped, Phases, Registered
  <2>2. SupersededIsWoken'
    BY <1>5, <2>1 DEF SocketsInOrder, SupersededIsWoken
  <2>3. \A j \in Registered' : \E r \in Sockets : key'[r] = j /\ Serves(r)'
    BY <1>5, <2>1 DEF SocketsInOrder, Serves
  <2> QED
    BY <1>5, <2>1, <2>2, <2>3 DEF SocketsInOrder
<1>6. CASE AcceptStream(s)
  BY <1>5, <1>6 DEF AcceptStream, registryVars, Become
<1>7. CASE CreditEnds(s) \/ \E i \in StreamId : ReadCredit(s, i)
  BY <1>5, <1>7 DEF CreditEnds, ReadCredit, registryVars, Become
<1>8. CASE LetGo(s)
  BY <1>5, <1>8 DEF LetGo, TakeWake, Become
<1>9. CASE ForgetConnection(s)
  BY <1>5, <1>9 DEF ForgetConnection, registryVars, Become
<1> QED
  BY <1>1, <1>2, <1>3, <1>4, <1>6, <1>7, <1>8, <1>9 DEF StreamTask

-----------------------------------------------------------------------------
\* Ids and answers.

\* A client was told of the id, or an answer naming it is about to be written.
Announced(x) ==
  \/ \E c \in Clients : <<c, x>> \in told
  \/ \E t \in Controls : ctl[t].at = "answer" /\ ctl[t].sink = x

\* Whatever is named was handed out, what is about to start was told, and what
\* can be written to was announced.
AnswersInOrder ==
  /\ \A p \in told : p[2] \in DOMAIN sink
  /\ \A r \in DOMAIN receipts : receipts[r] \in DOMAIN sink
  /\ \A t \in Controls :
       /\ ctl[t].at = "sent" /\ ctl[t].verb \in {"attach", "subscribe"} => ctl[t].request \in 1..MaxRequests
       /\ ctl[t].at = "answer" => ctl[t].sink \in DOMAIN sink
       /\ ctl[t].at = "start" => <<Client(t), ctl[t].sink>> \in told
  /\ FramesFollowAnswer
  /\ \A x \in Open : Announced(x)

\* Only sinks are closed, and only subscriptions and receipts forgotten.
OnlyForgets ==
  /\ DOMAIN sink' = DOMAIN sink /\ Open' \subseteq Open
  /\ DOMAIN receipts' \subseteq DOMAIN receipts
  /\ \A r \in DOMAIN receipts' : receipts'[r] = receipts[r]
  /\ receipts' = [r \in DOMAIN receipts' |-> receipts'[r]]
  /\ subscribers' \subseteq subscribers
  /\ UNCHANGED <<told, started>>

\* Steps that leave the control connections alone and announce nothing.
LEMMA ForgettingAnswers ==
  ASSUME ServerTypeOK, AnswersInOrder, OnlyForgets, UNCHANGED <<ctl, requests, releases>>
  PROVE  ControlsTyped' /\ AnswersTyped' /\ AnswersInOrder'
<1>1. ControlsTyped /\ AnswersTyped
  BY TypingSplit
<1>2. ControlsTyped' /\ AnswersTyped'
  BY <1>1 DEF OnlyForgets, ControlsTyped, AnswersTyped
<1> QED
  BY <1>2 DEF OnlyForgets, AnswersInOrder, FramesFollowAnswer, Announced

\* Stream tasks close sinks and forget subscribers.
LEMMA StreamTaskAnswers ==
  ASSUME ServerTypeOK, RegistryInv, AnswersInOrder, NEW s \in Sockets, StreamTask(s)
  PROVE  ControlsTyped' /\ AnswersTyped' /\ AnswersInOrder'
<1>1. /\ subscribers' \subseteq subscribers
      /\ UNCHANGED <<ctl, requests, releases, receipts, told, started>>
  BY DEF StreamTask, OpenStream, BindStream, AcceptStream, AcceptLost, CreditEnds, ReadCredit, LetGo,
         UnbindStream, ForgetConnection
<1>2. AnswersTyped
  BY TypingSplit
<1>3. DOMAIN sink' = DOMAIN sink /\ Open' \subseteq Open
  <2>1. CASE UNCHANGED sink
    BY <2>1 DEF Open
  <2>2. ASSUME NEW S, sink' = Closing(S) PROVE DOMAIN sink' = DOMAIN sink /\ Open' \subseteq Open
    BY <2>2, ClosingLemma DEF Open
  <2>3. CASE BindStream(s)
    BY <2>2, <2>3 DEF BindStream, Bind
  <2>4. CASE AcceptLost(s) \/ UnbindStream(s)
    BY <2>1, <2>2, <2>4 DEF AcceptLost, UnbindStream, Unbind, registryVars
  <2> QED
    BY <2>1, <2>3, <2>4
       DEF StreamTask, OpenStream, AcceptStream, CreditEnds, ReadCredit, LetGo, TakeWake, ForgetConnection,
           registryVars
<1> QED
  BY <1>1, <1>2, <1>3, ForgettingAnswers DEF OnlyForgets, AnswersTyped

\* A session that ends closes a sink it feeds.
LEMMA SessionClosesAnswers ==
  ASSUME ServerTypeOK, AnswersInOrder, NEW s \in DOMAIN sink, SessionCloses(s)
  PROVE  ControlsTyped' /\ AnswersTyped' /\ AnswersInOrder'
<1>1. /\ sink' = Closing({s})
      /\ UNCHANGED <<ctl, requests, releases, receipts, told, subscribers, started>>
  BY DEF SessionCloses, CloseSinks, serverVars
<1>2. AnswersTyped
  BY TypingSplit
<1>3. DOMAIN sink' = DOMAIN sink /\ Open' \subseteq Open
  BY <1>1, ClosingLemma DEF Open
<1> QED
  BY <1>1, <1>2, <1>3, ForgettingAnswers DEF OnlyForgets, AnswersTyped

\* A broadcast writes to subscribers, who were told.
LEMMA BroadcastAnswers ==
  ASSUME ServerTypeOK, AnswersInOrder, Broadcast
  PROVE  ControlsTyped' /\ AnswersTyped' /\ AnswersInOrder'
<1>1. /\ subscribers' \subseteq subscribers /\ started' \subseteq started \cup subscribers
      /\ UNCHANGED <<sink, ctl, requests, releases, receipts, told>>
  BY DEF Broadcast, registryVars
<1>2. ControlsTyped /\ AnswersTyped
  BY TypingSplit
<1>3. ControlsTyped' /\ AnswersTyped'
  BY <1>1, <1>2 DEF ControlsTyped, AnswersTyped
<1>4. FramesFollowAnswer'
  BY <1>1 DEF AnswersInOrder, FramesFollowAnswer
<1> QED
  BY <1>1, <1>3, <1>4 DEF AnswersInOrder, Announced, Open

\* A control connection that takes up a job, others staying where they are.
LEMMA JobTaken ==
  ASSUME ControlsTyped, NEW t \in Controls, NEW j, ctl' = [ctl EXCEPT ![t] = j]
  PROVE  /\ ctl'[t] = j /\ \A u \in Controls : u # t => ctl'[u] = ctl[u]
         /\ j \in Job => ControlsTyped'
BY DEF ControlsTyped

\* Jobs that announce nothing: the connection had no answer to write, or its
\* answer names a sink that is open no more.
Quiet(t, j) ==
  /\ ctl[t].at = "answer" => ctl[t].sink \notin Open'
  /\ j \in Job /\ j.at \notin {"answer", "start"}
  /\ j.at = "sent" /\ j.verb \in {"attach", "subscribe"} => j.request \in 1..MaxRequests
  /\ ctl' = [ctl EXCEPT ![t] = j]
  /\ OnlyForgets
  /\ requests' \in 0..MaxRequests /\ releases' \in 0..MaxReleases

\* Quiet jobs keep what was announced in order.
LEMMA QuietAnswers ==
  ASSUME ServerTypeOK, AnswersInOrder, NEW t \in Controls, NEW j, Quiet(t, j)
  PROVE  ControlsTyped' /\ AnswersTyped' /\ AnswersInOrder'
<1>1. ControlsTyped /\ AnswersTyped
  BY TypingSplit
<1>2. ControlsTyped' /\ AnswersTyped'
  BY <1>1, JobTaken DEF Quiet, OnlyForgets, AnswersTyped
<1>3. ctl'[t] = j /\ \A u \in Controls : u # t => ctl'[u] = ctl[u]
  BY <1>1, JobTaken DEF Quiet
<1>4. FramesFollowAnswer'
  BY DEF Quiet, OnlyForgets, AnswersInOrder, FramesFollowAnswer
<1>5. \A x \in Open' : Announced(x)'
  <2> SUFFICES ASSUME NEW x \in Open' PROVE Announced(x)'
    OBVIOUS
  <2>1. Announced(x)
    BY DEF Quiet, OnlyForgets, AnswersInOrder
  <2> QED
    BY <1>3, <2>1 DEF Quiet, OnlyForgets, Announced
<1>6. \A u \in Controls :
        /\ ctl'[u].at = "sent" /\ ctl'[u].verb \in {"attach", "subscribe"} => ctl'[u].request \in 1..MaxRequests
        /\ ctl'[u].at = "answer" => ctl'[u].sink \in DOMAIN sink'
        /\ ctl'[u].at = "start" => <<Client(u), ctl'[u].sink>> \in told'
  BY <1>3 DEF Quiet, OnlyForgets, AnswersInOrder
<1> QED
  BY <1>2, <1>4, <1>5, <1>6 DEF Quiet, OnlyForgets, AnswersInOrder

\* The jobs of one connection, built from the one before.
LEMMA JobLemma ==
  ASSUME NEW j \in Job
  PROVE  /\ \A at \in Steps : /\ [j EXCEPT !.at = at] \in Job
                              /\ [j EXCEPT !.at = at].at = at
                              /\ [j EXCEPT !.at = at].sink = j.sink
                              /\ [j EXCEPT !.at = at].verb = j.verb
         /\ \A k \in Key \cup {0} : /\ [j EXCEPT !.seen = k] \in Job
                                    /\ [j EXCEPT !.seen = k].at = j.at
                                    /\ [j EXCEPT !.seen = k].verb = j.verb
BY DEF Job

\* The idle job.
LEMMA IdleLemma == /\ Idle \in Job /\ Idle.at = "idle"
                   /\ [Idle EXCEPT !.at = "ended"] \in Job /\ [Idle EXCEPT !.at = "ended"].at = "ended"
<1>1. Idle \in Job
  BY ServerAssumption DEF Idle, Job, Steps, Verbs
<1> QED
  BY <1>1, JobLemma DEF Idle, Steps

\* The jobs of a connection that sends a verb, reserves nothing, or is done.
LEMMA QuietJobs ==
  ASSUME ServerTypeOK, RegistryInv, AnswersInOrder, NEW t \in Controls,
         ControlTask(t),
         ~(Reserve(t) \/ WriteAnswer(t) \/ StartReplay(t) \/ Subscribe(t) \/ \E u \in Controls : Retry(t, u))
  PROVE  \E j : Quiet(t, j)
<1>0. /\ ControlsTyped /\ AnswersTyped /\ ctl[t] \in Job /\ Client(t) \in Clients
      /\ MaxRequests \in Nat /\ MaxReleases \in Nat
  BY TypingSplit, ServerAssumption DEF ControlsTyped, Client
<1>1. receipts = [r \in DOMAIN receipts |-> receipts[r]]
  BY <1>0 DEF AnswersTyped
<1>2. ASSUME UNCHANGED <<sink, receipts, subscribers, told, started>> PROVE OnlyForgets
  BY <1>1, <1>2 DEF OnlyForgets, Open
<1>3. ASSUME NEW s, DetachOn(s), UNCHANGED <<receipts, subscribers, told, started>>
      PROVE  OnlyForgets /\ s \notin Open'
  <2>1. CASE s \in Routed(s.key)
    <3>1. sink' = Closing({s})
      BY <1>3, <2>1 DEF DetachOn
    <3> QED
      BY <1>1, <1>3, <3>1, ClosingLemma DEF OnlyForgets, Open
  <2>2. CASE s \notin Routed(s.key)
    <3>1. UNCHANGED sink /\ s \notin Open
      BY <1>3, <2>2 DEF DetachOn, registryVars, RegistryInv, OpenSinkIsRouted
    <3> QED
      BY <1>2, <1>3, <3>1 DEF Open
  <2> QED
    BY <2>1, <2>2
<1>4. CASE \E verb \in {"attach", "subscribe"} : SendReserve(t, verb)
  <2>1. PICK verb \in {"attach", "subscribe"} : SendReserve(t, verb)
    BY <1>4
  <2> DEFINE j == Sent(verb, requests', NoSink)
  <2>2. requests' \in 1..MaxRequests /\ requests' \in 0..MaxRequests /\ releases' \in 0..MaxReleases
    BY <1>0, <2>1 DEF SendReserve, AnswersTyped
  <2>4. j \in Job /\ j.at = "sent" /\ j.request = requests'
    BY <2>2 DEF Sent, Job, Steps, Verbs
  <2>5. OnlyForgets
    BY <1>2, <2>1 DEF SendReserve, registryVars
  <2>6. ctl' = [ctl EXCEPT ![t] = j] /\ ctl[t].at = "idle"
    BY <2>1 DEF SendReserve
  <2> HIDE DEF j
  <2> QED
    BY <2>2, <2>4, <2>5, <2>6 DEF Quiet
<1>5. CASE \E verb \in {"detach", "unsubscribe"}, i \in StreamId : SendRelease(t, verb, i)
  <2>1. PICK verb \in {"detach", "unsubscribe"}, i \in StreamId : SendRelease(t, verb, i)
    BY <1>5
  <2> DEFINE s == [key |-> Believed(Client(t)), id |-> i]
             j == Sent(verb, 0, s)
  <2>2. requests' \in 0..MaxRequests /\ releases' \in 0..MaxReleases /\ s \in Sink
    BY <1>0, <2>1 DEF SendRelease, AnswersTyped
  <2>4. j \in Job /\ j.at = "sent" /\ j.verb = verb
    BY <1>0, <2>2 DEF Sent, Job, Steps, Verbs
  <2>5. OnlyForgets
    BY <1>2, <2>1 DEF SendRelease, registryVars
  <2>6. ctl' = [ctl EXCEPT ![t] = j] /\ ctl[t].at = "idle"
    BY <2>1 DEF SendRelease
  <2> HIDE DEF j
  <2> QED
    BY <2>2, <2>4, <2>5, <2>6 DEF Quiet
<1>6. CASE Refuse(t)
  <2>1. OnlyForgets
    BY <1>2, <1>6 DEF Refuse, registryVars
  <2>2. Quiet(t, Idle)
    BY <1>0, <1>6, <2>1, IdleLemma DEF Refuse, Advance, Quiet, AnswersTyped
  <2> QED
    BY <2>2
<1>7. CASE Abandon(t)
  <2>1. OnlyForgets /\ ctl[t].sink \notin Open'
    BY <1>3, <1>7 DEF Abandon
  <2>2. Quiet(t, [ctl[t] EXCEPT !.at = "abandoned"])
    BY <1>0, <1>7, <2>1, JobLemma DEF Abandon, Advance, Quiet, AnswersTyped, Steps
  <2> QED
    BY <2>2
<1>8. CASE ForgetReceipt(t)
  <2>1. OnlyForgets
    BY <1>8 DEF ForgetReceipt, registryVars, OnlyForgets, Restrict, Open
  <2>2. Quiet(t, [Idle EXCEPT !.at = "ended"])
    BY <1>0, <1>8, <2>1, IdleLemma DEF ForgetReceipt, Advance, Quiet, AnswersTyped
  <2> QED
    BY <2>2
<1>9. CASE ResolveDetach(t)
  <2> DEFINE c == Client(t)
             seen == IF c \in DOMAIN current THEN current[c] ELSE 0
             j == [ctl[t] EXCEPT !.at = "resolved", !.seen = seen]
  <2>1. OnlyForgets
    BY <1>2, <1>9 DEF ResolveDetach, registryVars
  <2>2. ctl' = [ctl EXCEPT ![t] = j] /\ ctl[t].at \in {"sent", "released"}
    BY <1>9 DEF ResolveDetach, Advance
  <2>3. seen \in Key \cup {0}
    BY DEF ServerTypeOK, RegistryTypeOK
  <2>4. j \in Job /\ j.at = "resolved"
    <3> HIDE DEF seen
    <3> QED
      BY <1>0, <2>3 DEF Job, Steps
  <2>5. Quiet(t, j)
    <3> HIDE DEF j
    <3> QED
      BY <1>0, <1>9, <2>1, <2>2, <2>4 DEF ResolveDetach, Quiet, AnswersTyped
  <2> QED
    BY <2>5
<1>10. CASE Detach(t)
  <2>1. OnlyForgets
    BY <1>3, <1>10 DEF Detach
  <2>2. PICK j \in {Idle, [Idle EXCEPT !.at = "ended"]} : Advance(t, {"detach", "unsubscribe"}, "resolved", j)
    BY <1>10 DEF Detach
  <2>3. Quiet(t, j)
    BY <1>0, <1>10, <2>1, <2>2, IdleLemma DEF Detach, Advance, Quiet, AnswersTyped
  <2> QED
    BY <2>3
<1>11. CASE ResolveUnsubscribe(t)
  <2> DEFINE k == current[Client(t)]
  <2>1. OnlyForgets
    BY <1>2, <1>11 DEF ResolveUnsubscribe, registryVars
  <2>2. k \in Key \cup {0}
    BY <1>11 DEF ResolveUnsubscribe, ServerTypeOK, RegistryTypeOK
  <2>3. Quiet(t, [ctl[t] EXCEPT !.seen = k])
    BY <1>0, <1>11, <2>1, <2>2, JobLemma DEF ResolveUnsubscribe, Advance, Quiet, AnswersTyped
  <2> QED
    BY <2>3
<1>12. CASE Unsubscribe(t)
  <2>1. PICK S : sink' = Closing(S)
    BY <1>12 DEF Unsubscribe, CloseSinks
  <2>2. OnlyForgets
    BY <1>1, <1>12, <2>1, ClosingLemma DEF Unsubscribe, OnlyForgets, Open
  <2>3. Quiet(t, [ctl[t] EXCEPT !.at = "released"])
    BY <1>0, <1>12, <2>2, JobLemma DEF Unsubscribe, Advance, Quiet, AnswersTyped, Steps
  <2> QED
    BY <2>3
<1>13. CASE UnsubscribeUnbound(t)
  <2>1. OnlyForgets
    BY <1>2, <1>13 DEF UnsubscribeUnbound, registryVars
  <2>2. Quiet(t, [ctl[t] EXCEPT !.at = "released"])
    BY <1>0, <1>13, <2>1, JobLemma DEF UnsubscribeUnbound, Advance, Quiet, AnswersTyped, Steps
  <2> QED
    BY <2>2
<1>14. CASE CloseControl(t)
  <2>1. OnlyForgets
    BY <1>2, <1>14 DEF CloseControl, registryVars
  <2>2. Quiet(t, [Idle EXCEPT !.at = "ended"])
    BY <1>0, <1>14, <2>1, IdleLemma DEF CloseControl, Advance, Quiet, AnswersTyped
  <2> QED
    BY <2>2
<1> QED
  BY <1>4, <1>5, <1>6, <1>7, <1>8, <1>9, <1>10, <1>11, <1>12, <1>13, <1>14 DEF ControlTask

\* The registry hands out an id: it is new, and its answer is about to be written.
LEMMA ReserveAnswers ==
  ASSUME ServerTypeOK, RegistryInv, AnswersInOrder, NEW t \in Controls, Reserve(t)
  PROVE  ControlsTyped' /\ AnswersTyped' /\ AnswersInOrder'
<1> DEFINE c == Client(t)
           x == AttachedSink(c)
           j == [ctl[t] EXCEPT !.at = "answer", !.sink = x]
<1>0. /\ ControlsTyped /\ AnswersTyped /\ ctl[t] \in Job /\ c \in Clients
  BY TypingSplit, ServerAssumption DEF ControlsTyped, Client
<1>1. /\ ctl' = [ctl EXCEPT ![t] = j]
      /\ ctl[t].at = "sent" /\ ctl[t].verb \in {"attach", "subscribe"}
      /\ receipts' = Put(receipts, ctl[t].request, x)
      /\ UNCHANGED <<requests, releases, told, subscribers, started>>
      /\ Attach(c)
  BY DEF Reserve, Advance
<1>2. AttachedTo(c)
  BY <1>0, <1>1, AttachEffect
<1>3. x \in Sink /\ DOMAIN sink' = DOMAIN sink \cup {x} /\ Open' = Open \cup {x}
  BY <1>2 DEF AttachedTo, Open
<1>4. j \in Job /\ j.at = "answer" /\ j.sink = x
  <2> HIDE DEF x
  <2> QED
    BY <1>0, <1>3 DEF Job, Steps
<1>5. /\ ctl'[t] = j /\ \A u \in Controls : u # t => ctl'[u] = ctl[u]
      /\ ControlsTyped'
  <2> HIDE DEF j
  <2> QED
    BY <1>0, <1>1, <1>4, JobTaken
<1>6. ctl[t].request \in 1..MaxRequests
  BY <1>1 DEF AnswersInOrder
<1>7. /\ DOMAIN receipts' = DOMAIN receipts \cup {ctl[t].request}
      /\ \A r \in DOMAIN receipts' : receipts'[r] = x \/ (r \in DOMAIN receipts /\ receipts'[r] = receipts[r])
      /\ receipts' = [r \in DOMAIN receipts' |-> receipts'[r]]
  BY <1>1 DEF Put
<1>8. AnswersTyped'
  <2>1. \A r \in DOMAIN receipts' : receipts'[r] \in Sink
    BY <1>0, <1>3, <1>7 DEF AnswersTyped
  <2> QED
    BY <1>0, <1>1, <1>6, <1>7, <2>1 DEF AnswersTyped
<1>9. FramesFollowAnswer'
  BY <1>1 DEF AnswersInOrder, FramesFollowAnswer
<1>10. \A y \in Open' : Announced(y)'
  <2> SUFFICES ASSUME NEW y \in Open' PROVE Announced(y)'
    OBVIOUS
  <2>1. CASE y = x
    BY <1>4, <1>5, <2>1 DEF Announced
  <2>2. CASE y # x
    <3>1. Announced(y)
      BY <1>3, <2>2 DEF AnswersInOrder
    <3> HIDE DEF j
    <3> QED
      BY <1>1, <1>5, <3>1 DEF Announced
  <2> QED
    BY <2>1, <2>2
<1>11. \A u \in Controls :
         /\ ctl'[u].at = "sent" /\ ctl'[u].verb \in {"attach", "subscribe"} => ctl'[u].request \in 1..MaxRequests
         /\ ctl'[u].at = "answer" => ctl'[u].sink \in DOMAIN sink'
         /\ ctl'[u].at = "start" => <<Client(u), ctl'[u].sink>> \in told'
  <2> HIDE DEF j, x
  <2> QED
    BY <1>1, <1>3, <1>4, <1>5 DEF AnswersInOrder
<1>12. /\ \A p \in told' : p[2] \in DOMAIN sink'
       /\ \A r \in DOMAIN receipts' : receipts'[r] \in DOMAIN sink'
  BY <1>1, <1>3, <1>7 DEF AnswersInOrder
<1> QED
  BY <1>5, <1>8, <1>9, <1>10, <1>11, <1>12 DEF AnswersInOrder

\* An answer is written, by its own connection or for a retry of its request: a
\* client is told of an id that was handed out.
LEMMA ToldAnswers ==
  ASSUME ServerTypeOK, AnswersInOrder, NEW t \in Controls,
         WriteAnswer(t) \/ \E u \in Controls : Retry(t, u)
  PROVE  ControlsTyped' /\ AnswersTyped' /\ AnswersInOrder'
<1>0. /\ ControlsTyped /\ AnswersTyped /\ ctl[t] \in Job /\ Client(t) \in Clients
  BY TypingSplit, ServerAssumption DEF ControlsTyped, Client
<1>1. CASE WriteAnswer(t)
  <2> DEFINE j == [ctl[t] EXCEPT !.at = "start"]
  <2>1. /\ ctl' = [ctl EXCEPT ![t] = j] /\ ctl[t].at = "answer"
        /\ told' = told \cup {<<Client(t), ctl[t].sink>>}
        /\ UNCHANGED <<sink, requests, releases, receipts, subscribers, started>>
    BY <1>1 DEF WriteAnswer, Advance, registryVars
  <2>2. j \in Job /\ j.at = "start" /\ j.sink = ctl[t].sink
    BY <1>0, JobLemma DEF Steps
  <2> HIDE DEF j
  <2>3. /\ ctl'[t] = j /\ \A u \in Controls : u # t => ctl'[u] = ctl[u]
        /\ ControlsTyped'
    BY <1>0, <2>1, <2>2, JobTaken
  <2>4. ctl[t].sink \in DOMAIN sink /\ DOMAIN sink \subseteq Sink
    BY <2>1 DEF AnswersInOrder, ServerTypeOK, RegistryTypeOK
  <2>5. AnswersTyped'
    BY <1>0, <2>1, <2>4 DEF AnswersTyped
  <2>6. FramesFollowAnswer'
    BY <2>1 DEF AnswersInOrder, FramesFollowAnswer
  <2>7. \A x \in Open' : Announced(x)'
    <3> SUFFICES ASSUME NEW x \in Open' PROVE Announced(x)'
      OBVIOUS
    <3>1. Announced(x)
      BY <2>1 DEF AnswersInOrder, Open
    <3>2. CASE x = ctl[t].sink
      BY <1>0, <2>1, <3>2 DEF Announced
    <3>3. CASE x # ctl[t].sink
      BY <2>1, <2>3, <3>1, <3>3 DEF Announced
    <3> QED
      BY <3>2, <3>3
  <2>8. \A u \in Controls :
          /\ ctl'[u].at = "sent" /\ ctl'[u].verb \in {"attach", "subscribe"} => ctl'[u].request \in 1..MaxRequests
          /\ ctl'[u].at = "answer" => ctl'[u].sink \in DOMAIN sink'
          /\ ctl'[u].at = "start" => <<Client(u), ctl'[u].sink>> \in told'
    BY <2>1, <2>2, <2>3 DEF AnswersInOrder
  <2>9. \A p \in told' : p[2] \in DOMAIN sink'
    BY <2>1, <2>4 DEF AnswersInOrder
  <2> QED
    BY <2>1, <2>3, <2>5, <2>6, <2>7, <2>8, <2>9 DEF AnswersInOrder
<1>2. ASSUME NEW u \in Controls, Retry(t, u) PROVE ControlsTyped' /\ AnswersTyped' /\ AnswersInOrder'
  <2> DEFINE r == ctl[u].request
  <2>1. /\ r \in DOMAIN receipts /\ told' = told \cup {<<Client(t), receipts[r]>>}
        /\ UNCHANGED <<sink, ctl, requests, releases, receipts, subscribers, started>>
    BY <1>2 DEF Retry, registryVars
  <2>2. receipts[r] \in DOMAIN sink /\ receipts[r] \in Sink
    BY <1>0, <2>1 DEF AnswersInOrder, AnswersTyped
  <2>3. ControlsTyped' /\ AnswersTyped'
    BY <1>0, <2>1, <2>2 DEF ControlsTyped, AnswersTyped
  <2>4. \A p \in told' : p[2] \in DOMAIN sink'
    BY <2>1, <2>2 DEF AnswersInOrder
  <2>5. FramesFollowAnswer'
    BY <2>1 DEF AnswersInOrder, FramesFollowAnswer
  <2>6. \A x \in Open' : Announced(x)'
    BY <2>1 DEF AnswersInOrder, Announced, Open
  <2>7. \A v \in Controls :
          /\ ctl'[v].at = "sent" /\ ctl'[v].verb \in {"attach", "subscribe"} => ctl'[v].request \in 1..MaxRequests
          /\ ctl'[v].at = "answer" => ctl'[v].sink \in DOMAIN sink'
          /\ ctl'[v].at = "start" => <<Client(v), ctl'[v].sink>> \in told'
    BY <2>1 DEF AnswersInOrder
  <2> QED
    BY <2>1, <2>3, <2>4, <2>5, <2>6, <2>7 DEF AnswersInOrder
<1> QED
  BY <1>1, <1>2

\* What was deferred starts: the id it writes to was told.
LEMMA StartedAnswers ==
  ASSUME ServerTypeOK, AnswersInOrder, NEW t \in Controls, StartReplay(t) \/ Subscribe(t)
  PROVE  ControlsTyped' /\ AnswersTyped' /\ AnswersInOrder'
<1>0. /\ ControlsTyped /\ AnswersTyped /\ ctl[t] \in Job /\ Client(t) \in Clients
  BY TypingSplit, ServerAssumption DEF ControlsTyped, Client
<1>1. /\ ctl' = [ctl EXCEPT ![t] = Idle] /\ ctl[t].at = "start"
      /\ started' \subseteq started \cup {ctl[t].sink}
      /\ subscribers' \subseteq subscribers \cup {ctl[t].sink}
      /\ UNCHANGED <<sink, requests, releases, receipts, told>>
  BY DEF StartReplay, Subscribe, Advance, registryVars
<1>2. /\ ctl'[t] = Idle /\ \A u \in Controls : u # t => ctl'[u] = ctl[u]
      /\ ControlsTyped'
  BY <1>0, <1>1, JobTaken, IdleLemma
<1>3. <<Client(t), ctl[t].sink>> \in told
  BY <1>1 DEF AnswersInOrder
<1>4. AnswersTyped'
  BY <1>0, <1>1, <1>3 DEF AnswersTyped
<1>5. FramesFollowAnswer'
  BY <1>0, <1>1, <1>3 DEF AnswersInOrder, FramesFollowAnswer
<1>6. \A x \in Open' : Announced(x)'
  <2> SUFFICES ASSUME NEW x \in Open' PROVE Announced(x)'
    OBVIOUS
  <2>1. Announced(x)
    BY <1>1 DEF AnswersInOrder, Open
  <2> QED
    BY <1>1, <1>2, <2>1 DEF Announced
<1>7. \A u \in Controls :
        /\ ctl'[u].at = "sent" /\ ctl'[u].verb \in {"attach", "subscribe"} => ctl'[u].request \in 1..MaxRequests
        /\ ctl'[u].at = "answer" => ctl'[u].sink \in DOMAIN sink'
        /\ ctl'[u].at = "start" => <<Client(u), ctl'[u].sink>> \in told'
  BY <1>1, <1>2, IdleLemma DEF AnswersInOrder
<1> QED
  BY <1>1, <1>2, <1>4, <1>5, <1>6, <1>7 DEF AnswersInOrder

-----------------------------------------------------------------------------
\* The server's invariant.

ServerInv ==
  /\ RegistryInv
  /\ SocketsTyped /\ ControlsTyped /\ AnswersTyped
  /\ SocketsInOrder
  /\ AnswersInOrder

\* Control connections leave the sockets, the names and the keys alone.
LEMMA ControlTaskSockets ==
  ASSUME ServerTypeOK, SocketsInOrder, NEW t \in Controls, ControlTask(t)
  PROVE  SocketsTyped' /\ SocketsInOrder'
<1>1. connections \in [DOMAIN connections -> StreamConnection]
  BY DEF ServerTypeOK, RegistryTypeOK
<1>2. ASSUME NEW c, Attach(c)
      PROVE  Registered' = Registered /\ UNCHANGED <<current, next_connection, superseded>>
  BY <1>1, <1>2 DEF Attach, Registered
<1>3. ASSUME NEW s, DetachOn(s)
      PROVE  Registered' = Registered /\ UNCHANGED <<current, next_connection, superseded>>
  BY <1>1, <1>3 DEF DetachOn, Registered, registryVars
<1>4. ASSUME UNCHANGED <<connections, current, next_connection, superseded>>
      PROVE  Registered' = Registered /\ UNCHANGED <<current, next_connection, superseded>>
  BY <1>4 DEF Registered
<1>5. Registered' = Registered /\ UNCHANGED <<current, next_connection, superseded>>
  <2>1. CASE Reserve(t)
    BY <1>2, <2>1 DEF Reserve
  <2>2. CASE Abandon(t) \/ Detach(t)
    BY <1>3, <2>2 DEF Abandon, Detach
  <2>3. CASE ~(Reserve(t) \/ Abandon(t) \/ Detach(t))
    BY <1>4, <2>3
       DEF ControlTask, SendReserve, SendRelease, Refuse, WriteAnswer, StartReplay, Subscribe, ForgetReceipt,
           Retry, ResolveDetach, ResolveUnsubscribe, Unsubscribe, CloseSinks, UnsubscribeUnbound, CloseControl,
           registryVars
  <2> QED
    BY <2>1, <2>2, <2>3
<1>6. UNCHANGED <<phase, key, latest>>
  BY DEF ControlTask, SendReserve, SendRelease, Refuse, WriteAnswer, StartReplay, Subscribe, ForgetReceipt,
         Retry, ResolveDetach, ResolveUnsubscribe, Unsubscribe, UnsubscribeUnbound, CloseControl, Reserve,
         Abandon, Detach
<1> QED
  BY <1>5, <1>6, TypingSplit, SocketsUntouched

\* Every step of the server keeps the invariant.
LEMMA ServerStep == ServerInv /\ [Next]_vars => ServerInv'
<1> SUFFICES ASSUME ServerInv, [Next]_vars PROVE ServerInv'
  OBVIOUS
<1>0. ServerTypeOK /\ RegistryInv /\ SocketsInOrder /\ AnswersInOrder /\ SocketsTyped
  BY TypingSplit DEF ServerInv, RegistryInv
<1>1. RegistryInv'
  BY <1>0, ServerRefines, RegistryStep
<1> DEFINE Kept == SocketsTyped /\ SocketsInOrder /\ ControlsTyped /\ AnswersTyped /\ AnswersInOrder
<1>2. ASSUME NEW s \in Sockets, StreamTask(s) PROVE Kept'
  BY <1>0, <1>2, StreamTaskSockets, StreamTaskAnswers
<1>3. ASSUME NEW t \in Controls, ControlTask(t) PROVE Kept'
  <2>1. ControlsTyped' /\ AnswersTyped' /\ AnswersInOrder'
    BY <1>0, <1>3, ReserveAnswers, ToldAnswers, StartedAnswers, QuietJobs, QuietAnswers
  <2> QED
    BY <1>0, <1>3, <2>1, ControlTaskSockets
<1>4. ASSUME NEW s \in DOMAIN sink, SessionCloses(s) PROVE Kept'
  <2>1. SocketsTyped' /\ SocketsInOrder'
    BY <1>0, <1>4, SocketsUntouched DEF SessionCloses, CloseSinks, serverVars, Registered
  <2> QED
    BY <1>0, <1>4, <2>1, SessionClosesAnswers
<1>5. ASSUME Broadcast PROVE Kept'
  <2>1. SocketsTyped' /\ SocketsInOrder'
    BY <1>0, <1>5, SocketsUntouched DEF Broadcast, registryVars, Registered
  <2> QED
    BY <1>0, <1>5, <2>1, BroadcastAnswers
<1>6. ASSUME UNCHANGED vars PROVE Kept'
  <2>1. SocketsTyped' /\ SocketsInOrder'
    BY <1>0, <1>6, SocketsUntouched DEF vars, serverVars, registryVars, Registered
  <2>2. OnlyForgets /\ UNCHANGED <<ctl, requests, releases>>
    BY <1>6 DEF vars, serverVars, registryVars, OnlyForgets, Open, ServerInv, AnswersTyped
  <2> QED
    BY <1>0, <2>1, <2>2, ForgettingAnswers
<1>7. Kept'
  BY <1>2, <1>3, <1>4, <1>5, <1>6 DEF Next
<1> QED
  BY <1>1, <1>7 DEF ServerInv

\* The invariant holds when the daemon starts.
LEMMA ServerStart == Init => ServerInv
<1> SUFFICES ASSUME Init PROVE ServerInv
  OBVIOUS
<1>1. RegistryInv
  BY RegistryAssumption
     DEF Init, RegistryInit, RegistryInv, RegistryTypeOK, NamesAndConnectionsAgree, OpenSinkIsRouted,
         IdsBelowWatermark, EmptyMap, Registered, Open, Key
<1>2. SocketsTyped /\ ControlsTyped /\ AnswersTyped
  BY IdleLemma, ServerAssumption DEF Init, SocketsTyped, ControlsTyped, AnswersTyped, Phases, EmptyMap
<1>3. SocketsInOrder
  BY ServerAssumption
     DEF Init, RegistryInit, EmptyMap, SocketsInOrder, SupersededIsWoken, Registered
<1>4. AnswersInOrder
  BY IdleLemma DEF Init, RegistryInit, EmptyMap, AnswersInOrder, FramesFollowAnswer, Open
<1> QED
  BY <1>1, <1>2, <1>3, <1>4 DEF ServerInv

-----------------------------------------------------------------------------
\* The theorems.

\* The invariant holds of the server, whatever its clients do.
THEOREM ServerInvariance == Spec => []ServerInv
BY ServerStart, ServerStep, PTL DEF Spec

\* Every part of the server keeps its type.
THEOREM ServerTyping == Spec => []ServerTypeOK
<1>1. ServerInv => ServerTypeOK
  BY TypingSplit DEF ServerInv, RegistryInv
<1> QED
  BY <1>1, ServerInvariance, PTL

\* Every step of the server that touches the table is one of the registry's actions, as
\* its definitions show, so what is proved of the registry under any caller holds of
\* the server.
LEMMA ServerImplementsRegistry == Spec => RegistrySpec
<1>1. Init => RegistryInit
  BY DEF Init
<1>2. ServerTypeOK /\ [Next]_vars => [RegistryNext]_registryVars
  BY ServerRefines
<1> QED
  BY <1>1, <1>2, ServerTyping, PTL DEF Spec, RegistrySpec

\* Names and connections agree, open sinks are routed and ids are below the
\* watermark in every state of the server.
THEOREM ServerTable == Spec => []TableConsistent
BY ServerImplementsRegistry, RegistryTable, PTL

\* An attach after the acceptance of a window's latest stream connection is routed
\* to it, however late the old one is torn down.
THEOREM ServerAccepts == Spec => []AcceptedConnectionIsCurrent
<1>1. ServerInv => AcceptedConnectionIsCurrent
  BY DEF ServerInv, SocketsTyped, SocketsInOrder, AcceptedConnectionIsCurrent
<1> QED
  BY <1>1, ServerInvariance, PTL

\* No sink is left open with nobody to spend its allowance for.
THEOREM ServerReaders == Spec => []OpenSinkHasReader
<1>1. ServerInv => OpenSinkHasReader
  <2> SUFFICES ASSUME ServerInv, NEW x \in Open
               PROVE  /\ Announced(x)
                      /\ \E s \in Sockets : key[s] = x.key /\ Serves(s)
    BY DEF OpenSinkHasReader, Announced, Serves
  <2>1. x.key \in Registered
    BY DEF ServerInv, RegistryInv, OpenSinkIsRouted, Routed
  <2> QED
    BY <2>1 DEF ServerInv, AnswersInOrder, SocketsInOrder
<1> QED
  BY <1>1, ServerInvariance, PTL

\* No frame precedes the answer that names its stream.
THEOREM ServerAnswersFirst == Spec => []FramesFollowAnswer
<1>1. ServerInv => FramesFollowAnswer
  BY DEF ServerInv, AnswersInOrder
<1> QED
  BY <1>1, ServerInvariance, PTL

\* Credit for an id a client was told of never costs it the connection.
THEOREM ServerForgives == Spec => []AckKeepsConnection
<1>1. ServerInv => AckKeepsConnection
  BY DEF ServerInv, AnswersInOrder, RegistryInv, IdsBelowWatermark, AckKeepsConnection, CreditOutcome, Classify
<1> QED
  BY <1>1, ServerInvariance, PTL

\* A superseded connection's task has a wake waiting for it until it takes it.
THEOREM ServerWakes == Spec => []SupersededIsWoken
<1>1. ServerInv => SupersededIsWoken
  BY DEF ServerInv, SocketsInOrder
<1> QED
  BY <1>1, ServerInvariance, PTL
-----------------------------------------------------------------------------
\* Projects.

\* What `free_directory` chooses is made directly in `Base`.
IsMade(p) == IsPath(p) /\ Len(p) = Len(Main) + 3 /\ IsPrefix(Main \o Base, p)

\* What git lists is the main worktree, the person's or one a start made; what a
\* request is at work on is a path; a start adds the branch first.
PlacesInOrder ==
  /\ DOMAIN answer = Listings /\ DOMAIN view = Listings
  /\ \A p \in DOMAIN trees : p = Main \/ p = Aside \/ IsMade(p)
  /\ \A r \in Starts : step[r] \in {"branch", "conceal", "add", "checkout"} => IsMade(place[r])
  /\ \A r \in Starts : step[r] = "checkout" => BranchOf[r] \in branches
  /\ \A q \in Sessions : step[q] = "create" => IsPath(place[q])
  /\ \A q \in Sessions : cwd[q] # Nowhere => IsPath(cwd[q])

\* A start that has found or made its worktree, or opened a session in it, has
\* one of its branch, until the person changes it; only they take a directory away.
BranchKept ==
  /\ DOMAIN trees \ dirs \subseteq touched
  /\ \A s \in Starts : \A p \in {place[s], cwd[s]} \ touched :
       (p = place[s] /\ step[s] = "create") \/ (p = cwd[s] /\ p # Nowhere)
         => p \in DOMAIN trees /\ trees[p] = BranchOf[s]

\* A session keeps its folder; a listing attributes one by the view it took, and
\* nothing before it took one.
Attributed ==
  /\ \A q \in Sessions : cwd[q] # Nowhere => step[q] = "over"
  /\ \A r \in Listings : step[r] \notin {"compose", "over"} => DOMAIN answer[r] = {}
  /\ \A r \in Listings : \A p \in DOMAIN view[r] : IsPath(p)
  /\ \A r \in Listings : \A p \in DOMAIN answer[r] : \A q \in answer[r][p] :
       q \in Sessions /\ cwd[q] # Nowhere /\ Deepest(DOMAIN view[r], cwd[q]) = p

Registrable == {Main} \cup IF IsPrefix(Main \o Base, Aside) THEN {} ELSE {Aside}

RowsInOrder ==
  /\ store \in Seq(Registrable)
  /\ \A i, j \in DOMAIN store : i # j => store[i] # store[j]
  /\ \A r \in Registers : step[r] = "record" => place[r] \in Registrable

ProjectInv == ProjectTypeOK /\ PlacesInOrder /\ BranchKept /\ Attributed /\ RowsInOrder

-----------------------------------------------------------------------------
\* Paths.

\* A path is a sequence.
LEMMA PathIsSeq ==
  ASSUME NEW p, IsPath(p)
  PROVE  p \in Seq({p[i] : i \in DOMAIN p}) /\ Len(p) \in Nat /\ DOMAIN p = 1 .. Len(p)
<1>1. p \in Seq({p[i] : i \in DOMAIN p})
  BY DEF IsPath
<1> DEFINE S == {p[i] : i \in DOMAIN p}
<1>2. p \in Seq(S)
  BY <1>1
<1> HIDE DEF S
<1>3. Len(p) \in Nat /\ DOMAIN p = 1 .. Len(p)
  BY <1>2, LenProperties
<1> QED
  BY <1>1, <1>3

\* A prefix, component by component.
LEMMA PrefixIsPointwise ==
  ASSUME NEW S, NEW T, NEW p \in Seq(S), NEW q \in Seq(T)
  PROVE  IsPrefix(p, q) <=> Len(p) <= Len(q) /\ \A i \in 1 .. Len(p) : p[i] = q[i]
<1>1. CASE ~ (Len(p) <= Len(q))
  BY <1>1 DEF IsPrefix
<1>2. CASE Len(p) <= Len(q)
  <2> DEFINE a == SubSeq(p, 1, Len(p))
             b == SubSeq(q, 1, Len(p))
  <2>1. Len(p) \in Nat /\ Len(q) \in Nat
    BY LenProperties
  <2>2. a \in Seq(S) /\ Len(a) = Len(p) /\ \A i \in 1 .. Len(p) : a[i] = p[i]
    BY <2>1, SubSeqProperties
  <2>3. b \in Seq(T) /\ Len(b) = Len(p) /\ \A i \in 1 .. Len(p) : b[i] = q[i]
    BY <2>1, <1>2, SubSeqProperties
  <2> HIDE DEF a, b
  <2>4. a = b <=> \A i \in 1 .. Len(p) : a[i] = b[i]
    <3>1. a \in Seq(S \cup T) /\ b \in Seq(S \cup T)
      BY <2>2, <2>3, SeqMonotonic
    <3> QED
      BY <3>1, <2>2, <2>3, SeqEqual
  <2>5. IsPrefix(p, q) <=> a = b
    BY <1>2 DEF IsPrefix, a, b
  <2> QED
    BY <1>2, <2>2, <2>3, <2>4, <2>5
<1> QED
  BY <1>1, <1>2

\* Of paths that cover another, one as long as that is the same.
LEMMA AsLongIsSame ==
  ASSUME NEW p, IsPath(p), NEW q, IsPath(q), Covers(p, q), Len(q) <= Len(p)
  PROVE  p = q
<1>1. /\ p \in Seq({p[i] : i \in DOMAIN p}) /\ q \in Seq({q[i] : i \in DOMAIN q})
      /\ Len(p) \in Nat /\ Len(q) \in Nat
  BY PathIsSeq
<1> DEFINE S == {p[i] : i \in DOMAIN p}
           T == {q[i] : i \in DOMAIN q}
<1>2. p \in Seq(S) /\ q \in Seq(T)
  BY <1>1
<1> HIDE DEF S, T
<1>3. Len(p) <= Len(q) /\ \A i \in 1 .. Len(p) : p[i] = q[i]
  BY <1>2, PrefixIsPointwise DEF Covers
<1>4. p \in Seq(S \cup T) /\ q \in Seq(S \cup T)
  BY <1>2, SeqMonotonic
<1> QED
  BY <1>1, <1>3, <1>4, SeqEqual

LEMMA CoversItself ==
  ASSUME NEW p, IsPath(p)
  PROVE  Covers(p, p)
BY PathIsSeq DEF Covers, IsPrefix

LEMMA BelowBase ==
  ASSUME NEW S, NEW p \in Seq(S)
  PROVE  /\ p \o Base \in Seq(S \cup {Base[1], Base[2]})
         /\ Len(p \o Base) = Len(p) + 2
         /\ \A i \in 1 .. Len(p) : (p \o Base)[i] = p[i]
<1> DEFINE U == S \cup {Base[1], Base[2]}
           b == Base
<1>1. Base = <<Base[1], Base[2]>> /\ Base[1] \in U /\ Base[2] \in U
  BY DEF Base
<1>2. S \subseteq U
  OBVIOUS
<1> HIDE DEF U
<1>3. <<Base[1], Base[2]>> \in Seq(U) /\ Len(<<Base[1], Base[2]>>) = 2
  BY <1>1
<1>4. b \in Seq(U) /\ Len(b) = 2
  BY <1>1, <1>3
<1>5. p \in Seq(U)
  BY <1>2, SeqMonotonic
<1>6. Len(p) \in Nat
  BY LenProperties
<1> HIDE DEF b
<1>7. /\ p \o b \in Seq(U) /\ Len(p \o b) = Len(p) + Len(b)
      /\ \A i \in 1 .. Len(p) + Len(b) :
           (p \o b)[i] = IF i <= Len(p) THEN p[i] ELSE b[i - Len(p)]
  BY <1>4, <1>5, ConcatProperties
<1> DEFINE c == p \o b
<1> HIDE DEF c
<1>8. c \in Seq(U) /\ Len(c) = Len(p) + 2 /\ \A i \in 1 .. Len(p) : c[i] = p[i]
  BY <1>4, <1>6, <1>7 DEF c
<1> QED
  BY <1>8 DEF U, b, c

\* Who lies in the base of a path lies in the path, and is longer by two.
LEMMA InBaseIsIn ==
  ASSUME NEW p, IsPath(p), NEW q, IsPath(q), IsPrefix(p \o Base, q)
  PROVE  Covers(p, q) /\ Len(p) + 2 <= Len(q)
<1> DEFINE S == {p[i] : i \in DOMAIN p}
           T == {q[i] : i \in DOMAIN q}
           U == S \cup {Base[1], Base[2]}
           b == p \o Base
<1>1. p \in Seq(S) /\ q \in Seq(T) /\ Len(p) \in Nat /\ Len(q) \in Nat
  BY PathIsSeq
<1>3. IsPrefix(b, q)
  OBVIOUS
<1> HIDE DEF S, T
<1>2. b \in Seq(U) /\ Len(b) = Len(p) + 2 /\ \A i \in 1 .. Len(p) : b[i] = p[i]
  BY <1>1, BelowBase
<1> HIDE DEF U, b
<1>4. Len(b) <= Len(q) /\ \A i \in 1 .. Len(b) : b[i] = q[i]
  BY <1>1, <1>2, <1>3, PrefixIsPointwise
<1>5. Len(p) <= Len(q) /\ \A i \in 1 .. Len(p) : p[i] = q[i]
  BY <1>1, <1>2, <1>4
<1> QED
  BY <1>1, <1>2, <1>4, <1>5, PrefixIsPointwise DEF Covers

\* Bases nest: who lies in the base of something in a base lies in that.
LEMMA BasesNest ==
  ASSUME NEW p, IsPath(p), NEW q, IsPath(q), NEW o, IsPath(o),
         IsPrefix(p \o Base, q), IsPrefix(q \o Base, o)
  PROVE  IsPrefix(p \o Base, o)
<1> DEFINE T == {q[i] : i \in DOMAIN q}
           O == {o[i] : i \in DOMAIN o}
           S == {p[i] : i \in DOMAIN p}
           U == S \cup {Base[1], Base[2]}
           b == p \o Base
<1>1. q \in Seq(T) /\ o \in Seq(O) /\ Len(q) \in Nat /\ Len(o) \in Nat
  BY PathIsSeq
<1>2. b \in Seq(U)
  <2>1. p \in Seq(S)
    BY PathIsSeq
  <2> HIDE DEF S
  <2> QED
    BY <2>1, BelowBase
<1>3. IsPrefix(b, q)
  OBVIOUS
<1>4. IsPrefix(q, o)
  BY InBaseIsIn DEF Covers
<1> SUFFICES IsPrefix(b, o)
  OBVIOUS
<1> HIDE DEF T, O, S, U, b
<1>5. Len(b) <= Len(q) /\ \A i \in 1 .. Len(b) : b[i] = q[i]
  BY <1>1, <1>2, <1>3, PrefixIsPointwise
<1>6. Len(q) <= Len(o) /\ \A i \in 1 .. Len(q) : q[i] = o[i]
  BY <1>1, <1>4, PrefixIsPointwise
<1>7. Len(b) \in Nat
  BY <1>2, LenProperties
<1>8. Len(b) <= Len(o) /\ \A i \in 1 .. Len(b) : b[i] = o[i]
  BY <1>1, <1>5, <1>6, <1>7
<1> QED
  BY <1>1, <1>2, <1>8, PrefixIsPointwise

\* What `free_directory` looks at lies directly in the base of the main worktree.
LEMMA CandidateIsMade ==
  ASSUME NEW branch, NEW i
  PROVE  IsMade(Candidate(branch, i))
<1> DEFINE b == Main \o Base
<1>1. IsPath(Main)
  BY ProjectAssumption
<1>2. PICK x : Candidate(branch, i) = b \o <<x>>
  BY DEF Candidate
<1> DEFINE S == {Main[j] : j \in DOMAIN Main}
           U == S \cup {Base[1], Base[2]}
<1>3. b \in Seq(U) /\ Len(b) = Len(Main) + 2 /\ Len(Main) \in Nat
  <2>1. Main \in Seq(S) /\ Len(Main) \in Nat
    BY <1>1, PathIsSeq
  <2> HIDE DEF S
  <2> QED
    BY <2>1, BelowBase
<1> HIDE DEF b, U
<1> DEFINE c == b \o <<x>>
           V == U \cup {x}
<1>4. b \in Seq(V) /\ <<x>> \in Seq(V) /\ Len(<<x>>) = 1
  <2>1. x \in V /\ U \subseteq V
    OBVIOUS
  <2> HIDE DEF V
  <2> QED
    BY <1>3, <2>1, SeqMonotonic
<1> HIDE DEF V
<1>5. c \in Seq(V) /\ Len(c) = Len(Main) + 3 /\ \A j \in 1 .. Len(b) : c[j] = b[j]
  BY <1>3, <1>4, ConcatProperties
<1> HIDE DEF c
<1>6. IsPrefix(b, c)
  BY <1>3, <1>5, PrefixIsPointwise
<1>7. c \in Seq({c[j] : j \in DOMAIN c})
  BY <1>5, SeqOfRange DEF Range
<1>8. c # Nowhere
  BY <1>3, <1>5 DEF Nowhere
<1>9. c = Candidate(branch, i)
  BY <1>2 DEF c
<1> QED
  BY <1>5, <1>6, <1>7, <1>8, <1>9 DEF IsMade, IsPath, b

\* Of the folders that cover a path there is a deepest.
LEMMA DeepestCovers ==
  ASSUME NEW F, \A p \in F : IsPath(p), NEW q, IsPath(q), \E p \in F : Covers(p, q)
  PROVE  Deepest(F, q) \in F /\ Covers(Deepest(F, q), q)
<1> DEFINE holding == {p \in F : Covers(p, q)}
           gaps == {Len(q) - Len(p) : p \in holding}
           R == OpToRel(<, Nat)
<1>1. \A p \in holding : Len(p) \in Nat /\ Len(p) <= Len(q)
  BY PathIsSeq DEF Covers, IsPrefix
<1>2. Len(q) \in Nat
  BY PathIsSeq
<1>3. gaps \subseteq Nat /\ gaps # {}
  BY <1>1, <1>2
<1>4. IsWellFoundedOn(R, Nat)
  BY NatLessThanWellFounded
<1>5. \A x, y \in Nat : <<y, x>> \in R <=> y < x
  BY Zenon DEF OpToRel
<1> HIDE DEF R
<1>6. PICK x \in gaps : \A y \in gaps : ~ (<<y, x>> \in R)
  <2> HIDE DEF gaps
  <2> QED
    BY <1>3, <1>4, WFMin
<1>7. PICK p \in holding : x = Len(q) - Len(p)
  BY <1>6
<1>8. \A o \in holding : Len(o) <= Len(p)
  <2> TAKE o \in holding
  <2>1. Len(q) - Len(o) \in gaps
    OBVIOUS
  <2> HIDE DEF gaps
  <2>2. ~ (Len(q) - Len(o) < x)
    BY <2>1, <1>3, <1>5, <1>6
  <2> QED
    BY <1>1, <1>2, <1>7, <2>2
<1>9. Deepest(F, q) = CHOOSE d \in holding : \A o \in holding : Len(o) <= Len(d)
  BY <1>7 DEF Deepest
<1> QED
  BY <1>7, <1>8, <1>9

\* A folder that covers itself is the deepest that does.
LEMMA DeepestOfItself ==
  ASSUME NEW F, \A p \in F : IsPath(p), NEW q \in F
  PROVE  Deepest(F, q) = q
<1> DEFINE holding == {p \in F : Covers(p, q)}
<1>1. q \in holding
  BY CoversItself
<1>2. \A p \in holding : Len(p) \in Nat /\ Len(p) <= Len(q)
  BY PathIsSeq DEF Covers, IsPrefix
<1>3. Deepest(F, q) = CHOOSE d \in holding : \A o \in holding : Len(o) <= Len(d)
  BY <1>1 DEF Deepest
<1>4. Deepest(F, q) \in holding /\ \A o \in holding : Len(o) <= Len(Deepest(F, q))
  BY <1>1, <1>2, <1>3
<1> QED
  BY <1>1, <1>4, AsLongIsSame

\* Where the worktrees are where they should be, none of a start is registered.
LEMMA RootIsRegistrable ==
  ASSUME Main \in dirs, \A p \in dirs : p = Main \/ p = Aside \/ IsMade(p),
         NEW folder \in dirs \cup Inside
  PROVE  RegistrationRoot(folder) \in Registrable
<1> DEFINE primary == Deepest(dirs, folder)
<1>1. /\ IsPath(Main) /\ IsPath(Aside) /\ ~ IsPrefix(Aside \o Base, Main)
      /\ \A p \in dirs : IsPath(p)
  BY ProjectAssumption DEF IsMade
<1>2. IsPath(folder) /\ \E p \in dirs : Covers(p, folder)
  BY <1>1, CoversItself, ProjectAssumption
<1>3. primary \in dirs
  BY <1>1, <1>2, DeepestCovers
<1> HIDE DEF primary
<1>4. RegistrationRoot(folder) = IF Holders(primary) = {} THEN primary
                                 ELSE IF Main \in Holders(primary) THEN Main
                                 ELSE CHOOSE p \in Holders(primary) : TRUE
  BY DEF RegistrationRoot, primary
<1>5. CASE primary = Main
  <2>1. ASSUME NEW p \in Holders(primary), IsMade(p)
        PROVE  FALSE
    BY <1>1, <1>5, <2>1, InBaseIsIn, PathIsSeq DEF Holders, IsMade
  <2>2. Holders(primary) = {}
    BY <1>1, <1>5, <2>1 DEF Holders
  <2> QED
    BY <1>4, <1>5, <2>2 DEF Registrable
<1>6. CASE primary # Main /\ IsPrefix(Main \o Base, primary)
  <2>1. Covers(Main, primary)
    BY <1>1, <1>3, <1>6, InBaseIsIn
  <2>2. Main \in Holders(primary)
    BY <1>6, <2>1 DEF Holders
  <2> QED
    BY <1>4, <2>2 DEF Registrable
<1>7. CASE primary # Main /\ ~ IsPrefix(Main \o Base, primary)
  <2>1. primary = Aside
    BY <1>3, <1>7 DEF IsMade
  <2>2. ASSUME NEW p \in Holders(primary), IsMade(p)
        PROVE  FALSE
    BY <1>1, <1>7, <2>1, <2>2, BasesNest DEF Holders, IsMade
  <2>3. Holders(primary) = {}
    BY <1>7, <2>1, <2>2 DEF Holders
  <2> QED
    BY <1>4, <1>7, <2>1, <2>3 DEF Registrable
<1> QED
  BY <1>5, <1>6, <1>7

-----------------------------------------------------------------------------
\* What git and the disk show.

GitTyped ==
  LET paths == DOMAIN trees IN
  /\ Main \in dirs /\ dirs \subseteq paths
  /\ \A p \in paths : trees[p] = Detached \/ trees[p] \in branches
  /\ \A p, q \in paths : p # q /\ trees[p] = trees[q] => trees[p] = Detached
  /\ branches \subseteq Branches /\ concealed \in BOOLEAN
  /\ \A p \in paths \ {Main, Aside} : Len(p) = Len(Main) + 3

\* All but a few steps leave it alone, or make the branch of a start.
LEMMA GitKept ==
  ASSUME ProjectInv, [ProjectNext]_projectVars
  PROVE  GitTyped'
<1> USE DEF ProjectInv
<1>1. GitTyped
  BY DEF ProjectTypeOK, GitTyped
<1>2. CASE UNCHANGED <<gitVars, diskVars>>
  BY <1>1, <1>2 DEF GitTyped, gitVars, diskVars
<1>3. ASSUME NEW s \in Starts, Conceal(s)
      PROVE  GitTyped'
  BY <1>1, <1>3 DEF GitTyped, Conceal, gitVars
<1>4. ASSUME NEW s \in Starts, AddBranch(s)
      PROVE  GitTyped'
  BY <1>1, <1>4, ProjectAssumption DEF GitTyped, AddBranch, diskVars
<1>5. ASSUME NEW s \in Starts, AddTree(s)
      PROVE  GitTyped'
  <2>1. step[s] = "checkout" /\ IsMade(place[s]) /\ BranchOf[s] \in branches
    BY <1>5 DEF AddTree, StepTo, PlacesInOrder
  <2>2. Len(place[s]) = Len(Main) + 3
    BY <2>1 DEF IsMade
  <2> QED
    BY <1>1, <1>5, <2>1, <2>2 DEF GitTyped, AddTree, OnBranch
<1>6. ASSUME NEW b \in Branches, MakesTree(b)
      PROVE  GitTyped'
  BY <1>1, <1>6 DEF GitTyped, MakesTree, OnBranch
<1>7. ASSUME NEW p \in DOMAIN trees, DeletesDirectory(p)
      PROVE  GitTyped'
  BY <1>1, <1>7 DEF GitTyped, DeletesDirectory, gitVars
<1>8. ASSUME NEW p \in DOMAIN trees, Prunes(p)
      PROVE  GitTyped'
  BY <1>1, <1>8 DEF GitTyped, Prunes, diskVars
<1>9. ASSUME NEW p \in DOMAIN trees, NEW h, Switches(p, h)
      PROVE  GitTyped'
  BY <1>1, <1>9 DEF GitTyped, Switches, diskVars, OnBranch
<1>10. ASSUME ProjectNext,
              ~ \E s \in Starts : Conceal(s) \/ AddBranch(s) \/ AddTree(s),
              ~ Meddling
       PROVE  UNCHANGED <<gitVars, diskVars>>
  BY <1>10 DEF ProjectNext, Ensures, FindFolder, Precheck, Adopt, FindNone, FreeDirectory,
               BranchExists, Relist, Create, Offer, Inspect, Record, Forget, ReadStore, Reached,
               Unreachable, Attribute, Answer, Fails, Reads
<1> QED
  BY <1>2, <1>3, <1>4, <1>5, <1>6, <1>7, <1>8, <1>9, <1>10 DEF Meddling, projectVars

\* What the requests hold is typed.
RequestsTyped ==
  /\ step \in [Requests -> {"unsent", "precheck", "name", "list", "free", "branch", "conceal",
                            "add", "checkout", "relist", "create", "inspect", "record",
                            "reach", "compose", "over", "refused"}]
  /\ known \in [Starts -> BOOLEAN]
  /\ DOMAIN cwd = Sessions /\ DOMAIN place = Requests
  /\ DOMAIN answer = Listings /\ DOMAIN view = Listings
  /\ \A r \in Listings : DOMAIN answer[r] \subseteq DOMAIN view[r]
  /\ meddling \in 0 .. MaxMeddling

LEMMA RequestsKept ==
  ASSUME ProjectInv, [ProjectNext]_projectVars
  PROVE  RequestsTyped'
<1> USE DEF ProjectInv
<1>1. RequestsTyped /\ MaxMeddling \in Nat
  BY ProjectAssumption DEF ProjectTypeOK, PlacesInOrder, RequestsTyped
<1>2. CASE UNCHANGED projectVars
  BY <1>1, <1>2 DEF RequestsTyped, projectVars, listingVars, personVars
<1> USE DEF StepTo, Requests, Sessions, Listings
<1>3. ASSUME NEW s \in Starts, FindFolder(s, "precheck") \/ Precheck(s)
      PROVE  RequestsTyped'
  BY <1>1, <1>3 DEF RequestsTyped, FindFolder, Precheck, Reads, listingVars, personVars
<1>4. ASSUME NEW s \in Starts, Ensures(s)
      PROVE  RequestsTyped'
  <2>1. CASE FindNone(s)
    BY <1>1, <2>1 DEF RequestsTyped, FindNone, Reads, listingVars, personVars
  <2>6. CASE BranchExists(s)
    <3>1. (BranchOf[s] \in branches) \in BOOLEAN
      OBVIOUS
    <3> QED
      BY <1>1, <2>6, <3>1 DEF RequestsTyped, BranchExists, Reads, listingVars, personVars
  <2>5. CASE FreeDirectory(s)
    BY <1>1, <2>5 DEF RequestsTyped, FreeDirectory, Reads, listingVars, personVars
  <2>4. CASE Adopt(s)
    BY <1>1, <2>4 DEF RequestsTyped, Adopt, Reads, listingVars, personVars
  <2>2. CASE Conceal(s) \/ AddBranch(s) \/ AddTree(s)
    BY <1>1, <2>2 DEF RequestsTyped, Conceal, AddBranch, AddTree, listingVars, personVars
  <2>3. CASE Relist(s)
    BY <1>1, <2>3 DEF RequestsTyped, Relist, Reads, listingVars, personVars
  <2> QED
    BY <1>4, <2>1, <2>2, <2>3, <2>4, <2>5, <2>6 DEF Ensures
<1>5. ASSUME NEW o \in Opens, FindFolder(o, "create")
      PROVE  RequestsTyped'
  BY <1>1, <1>5 DEF RequestsTyped, FindFolder, Reads, listingVars, personVars
<1>6. ASSUME NEW q \in Sessions, Create(q)
      PROVE  RequestsTyped'
  BY <1>1, <1>6 DEF RequestsTyped, Create, listingVars, personVars
<1>7. ASSUME NEW r \in Registers, Offer(r) \/ Record(r)
      PROVE  RequestsTyped'
  BY <1>1, <1>7 DEF RequestsTyped, Offer, Record, Reads, listingVars, personVars
<1>8. ASSUME NEW r \in Registers, Inspect(r)
      PROVE  RequestsTyped'
  <2>1. DOMAIN answer[r] = {}
    BY <1>8 DEF Inspect, Attributed
  <2> QED
    BY <1>1, <1>8, <2>1 DEF RequestsTyped, Inspect, personVars
<1>9. ASSUME NEW f \in Forgets, Forget(f)
      PROVE  RequestsTyped'
  BY <1>1, <1>9 DEF RequestsTyped, Forget, listingVars, personVars
<1>10. ASSUME NEW l \in Lists, ReadStore(l)
       PROVE  RequestsTyped'
  BY <1>1, <1>10 DEF RequestsTyped, ReadStore, Reads, listingVars, personVars
<1>11. ASSUME NEW l \in Lists, Reached(l)
       PROVE  RequestsTyped'
  <2>1. DOMAIN answer[l] = {}
    BY <1>11 DEF Reached, Attributed
  <2> QED
    BY <1>1, <1>11, <2>1 DEF RequestsTyped, Reached, personVars
<1>12. ASSUME NEW l \in Lists, Unreachable(l)
       PROVE  RequestsTyped'
  BY <1>1, <1>12 DEF RequestsTyped, Unreachable, personVars
<1>13. ASSUME NEW r \in Listings, Attribute(r)
       PROVE  RequestsTyped'
  BY <1>1, <1>13 DEF RequestsTyped, Attribute, Listed, personVars
<1>14. ASSUME NEW r \in Listings, Answer(r)
       PROVE  RequestsTyped'
  BY <1>1, <1>14 DEF RequestsTyped, Answer, Reads, listingVars, personVars
<1>15. ASSUME NEW r \in Requests, Fails(r)
       PROVE  RequestsTyped'
  BY <1>1, <1>15 DEF RequestsTyped, Fails, Reads, listingVars, personVars
<1>16. ASSUME Meddling
       PROVE  RequestsTyped'
  <2>1. CASE \E b \in Branches : MakesTree(b)
    BY <1>1, <2>1 DEF RequestsTyped, MakesTree, Meddles, listingVars
  <2>2. CASE \E p \in DOMAIN trees : DeletesDirectory(p)
    BY <1>1, <2>2 DEF RequestsTyped, DeletesDirectory, Meddles, listingVars
  <2>3. CASE \E p \in DOMAIN trees : Prunes(p)
    BY <1>1, <2>3 DEF RequestsTyped, Prunes, listingVars, personVars
  <2>4. CASE \E p \in DOMAIN trees : \E h \in Branches \cup {Detached} : Switches(p, h)
    BY <1>1, <2>4 DEF RequestsTyped, Switches, Meddles, listingVars
  <2> QED
    BY <1>16, <2>1, <2>2, <2>3, <2>4 DEF Meddling
<1> QED
  BY <1>2, <1>3, <1>4, <1>5, <1>6, <1>7, <1>8, <1>9, <1>10, <1>11, <1>12, <1>13, <1>14,
     <1>15, <1>16 DEF ProjectNext

LEMMA TypesKept ==
  ASSUME ProjectInv, [ProjectNext]_projectVars
  PROVE  ProjectTypeOK'
BY GitKept, RequestsKept DEF GitTyped, RequestsTyped, ProjectTypeOK

-----------------------------------------------------------------------------
\* Where the worktrees and the requests are.

\* Requests of two verbs are two requests.
LEMMA VerbsApart ==
  /\ \A s \in Starts : s \notin Opens /\ s \notin Registers /\ s \notin Forgets /\ s \notin Lists
  /\ \A o \in Opens : o \notin Registers /\ o \notin Forgets /\ o \notin Lists
  /\ \A r \in Registers : r \notin Forgets /\ r \notin Lists
  /\ \A f \in Forgets : f \notin Lists
BY ProjectAssumption

LEMMA PlacesKept ==
  ASSUME ProjectInv, [ProjectNext]_projectVars
  PROVE  PlacesInOrder'
<1> USE DEF ProjectInv
<1>1. PlacesInOrder /\ RequestsTyped
  BY DEF ProjectTypeOK, PlacesInOrder, RequestsTyped
<1>2. DOMAIN answer' = Listings /\ DOMAIN view' = Listings
  BY RequestsKept DEF RequestsTyped
<1>3. CASE UNCHANGED projectVars
  BY <1>1, <1>3 DEF PlacesInOrder, projectVars, listingVars, gitVars, diskVars
<1> USE DEF StepTo, Requests, Sessions, Listings, RequestsTyped
<1>4. ASSUME NEW s \in Starts, FindFolder(s, "precheck") \/ Precheck(s)
      PROVE  PlacesInOrder'
  BY <1>1, <1>2, <1>4 DEF PlacesInOrder, FindFolder, Precheck, Reads, gitVars, diskVars
<1>5. ASSUME NEW s \in Starts, Adopt(s)
      PROVE  PlacesInOrder'
  <2>1. \A p \in DOMAIN trees : IsPath(p)
    BY <1>1, ProjectAssumption DEF PlacesInOrder, IsMade
  <2> QED
    BY <1>1, <1>2, <1>5, <2>1 DEF PlacesInOrder, Adopt, OnBranch, Reads, gitVars, diskVars
<1>6. ASSUME NEW s \in Starts, FindNone(s) \/ BranchExists(s)
      PROVE  PlacesInOrder'
  BY <1>1, <1>2, <1>6 DEF PlacesInOrder, FindNone, BranchExists, Reads, gitVars, diskVars
<1>7. ASSUME NEW s \in Starts, FreeDirectory(s)
      PROVE  PlacesInOrder'
  BY <1>1, <1>2, <1>7, CandidateIsMade DEF PlacesInOrder, FreeDirectory, Reads, gitVars, diskVars
<1>8. ASSUME NEW s \in Starts, Conceal(s)
      PROVE  PlacesInOrder'
  BY <1>1, <1>2, <1>8 DEF PlacesInOrder, Conceal, gitVars
<1>9. ASSUME NEW s \in Starts, AddBranch(s)
      PROVE  PlacesInOrder'
  BY <1>1, <1>2, <1>9 DEF PlacesInOrder, AddBranch, diskVars
<1>10. ASSUME NEW s \in Starts, AddTree(s)
       PROVE  PlacesInOrder'
  BY <1>1, <1>2, <1>10 DEF PlacesInOrder, AddTree
<1>11. ASSUME NEW s \in Starts, Relist(s)
       PROVE  PlacesInOrder'
  <2>1. \A p \in dirs : IsPath(p)
    BY <1>1, ProjectAssumption DEF PlacesInOrder, IsMade, ProjectTypeOK
  <2> QED
    BY <1>1, <1>2, <1>11, <2>1 DEF PlacesInOrder, Relist, Reads, gitVars, diskVars
<1>12. ASSUME NEW o \in Opens, FindFolder(o, "create")
       PROVE  PlacesInOrder'
  BY <1>1, <1>2, <1>12, VerbsApart, ProjectAssumption
     DEF PlacesInOrder, FindFolder, Reads, gitVars, diskVars
<1>13. ASSUME NEW q \in Sessions, Create(q)
       PROVE  PlacesInOrder'
  BY <1>1, <1>2, <1>13 DEF PlacesInOrder, Create, gitVars, diskVars
<1>14. ASSUME NEW r \in Registers, Offer(r) \/ Inspect(r) \/ Record(r)
       PROVE  PlacesInOrder'
  BY <1>1, <1>2, <1>14, VerbsApart
     DEF PlacesInOrder, Offer, Inspect, Record, Reads, gitVars, diskVars
<1>15. ASSUME NEW r \in Forgets \cup Lists,
              Forget(r) \/ ReadStore(r) \/ Reached(r) \/ Unreachable(r)
       PROVE  PlacesInOrder'
  BY <1>1, <1>2, <1>15, VerbsApart
     DEF PlacesInOrder, Forget, ReadStore, Reached, Unreachable, Reads, gitVars, diskVars
<1>16. ASSUME NEW r \in Listings, Attribute(r) \/ Answer(r)
       PROVE  PlacesInOrder'
  BY <1>1, <1>2, <1>16, VerbsApart DEF PlacesInOrder, Attribute, Answer, Reads, gitVars, diskVars
<1>17. ASSUME NEW r \in Requests, Fails(r)
       PROVE  PlacesInOrder'
  BY <1>1, <1>2, <1>17 DEF PlacesInOrder, Fails, Reads, gitVars, diskVars
<1>18. ASSUME Meddling
       PROVE  PlacesInOrder'
  <2>1. CASE \E b \in Branches : MakesTree(b)
    BY <1>1, <1>2, <2>1 DEF PlacesInOrder, MakesTree
  <2>2. CASE \E p \in DOMAIN trees : DeletesDirectory(p)
    BY <1>1, <1>2, <2>2 DEF PlacesInOrder, DeletesDirectory, gitVars
  <2>3. CASE \E p \in DOMAIN trees : Prunes(p)
    BY <1>1, <1>2, <2>3 DEF PlacesInOrder, Prunes, diskVars
  <2>4. CASE \E p \in DOMAIN trees : \E h \in Branches \cup {Detached} : Switches(p, h)
    BY <1>1, <1>2, <2>4 DEF PlacesInOrder, Switches, diskVars
  <2> QED
    BY <1>18, <2>1, <2>2, <2>3, <2>4 DEF Meddling
<1> QED
  BY <1>3, <1>4, <1>5, <1>6, <1>7, <1>8, <1>9, <1>10, <1>11, <1>12, <1>13, <1>14, <1>15,
     <1>16, <1>17, <1>18 DEF ProjectNext, Ensures

-----------------------------------------------------------------------------
\* The branch of a start.

\* Where a step touches neither git nor a folder of a start, a start keeps its branch.
LEMMA BranchStays ==
  ASSUME ProjectInv, UNCHANGED <<trees, dirs, touched>>,
         \A s \in Starts : cwd'[s] = cwd[s],
         \A s \in Starts : step'[s] = "create" => step[s] = "create" /\ place'[s] = place[s]
  PROVE  BranchKept'
BY DEF ProjectInv, BranchKept

LEMMA BranchKeptOn ==
  ASSUME ProjectInv, [ProjectNext]_projectVars
  PROVE  BranchKept'
<1> USE DEF ProjectInv
<1>1. BranchKept /\ GitTyped /\ RequestsTyped
  BY DEF ProjectTypeOK, GitTyped, PlacesInOrder, RequestsTyped
<1>2. \A s \in Starts : BranchOf[s] # Detached
  BY ProjectAssumption
<1>3. \A p \in DOMAIN trees : p # Nowhere
  BY ProjectAssumption DEF PlacesInOrder, IsMade, IsPath
<1>4. CASE UNCHANGED projectVars
  BY <1>4, BranchStays DEF projectVars, gitVars, diskVars, personVars
<1> USE DEF StepTo, Requests, Sessions, Listings, RequestsTyped
<1>5. ASSUME NEW s \in Starts,
             \/ FindFolder(s, "precheck") \/ Precheck(s) \/ FindNone(s)
             \/ FreeDirectory(s) \/ BranchExists(s)
      PROVE  BranchKept'
  BY <1>1, <1>5, BranchStays
     DEF FindFolder, Precheck, FindNone, FreeDirectory, BranchExists, Reads, gitVars, diskVars,
         personVars
<1>6. ASSUME NEW s \in Starts, Conceal(s) \/ AddBranch(s)
      PROVE  BranchKept'
  BY <1>1, <1>6, BranchStays DEF Conceal, AddBranch, gitVars, diskVars, personVars
<1>7. ASSUME NEW s \in Starts, Adopt(s)
      PROVE  BranchKept'
  BY <1>1, <1>7 DEF BranchKept, Adopt, OnBranch, Reads, gitVars, diskVars, personVars
<1>8. ASSUME NEW s \in Starts, Relist(s)
      PROVE  BranchKept'
  BY <1>1, <1>3, <1>8 DEF BranchKept, GitTyped, Relist, OnBranch, Reads, gitVars, diskVars, personVars
<1>9. ASSUME NEW s \in Starts, AddTree(s)
      PROVE  BranchKept'
  BY <1>1, <1>9 DEF BranchKept, AddTree, OnBranch, personVars
<1>10. ASSUME NEW q \in Sessions, Create(q)
       PROVE  BranchKept'
  BY <1>1, <1>10, VerbsApart DEF BranchKept, Create, gitVars, diskVars, personVars
<1>11. ASSUME NEW r \in Opens \cup Registers \cup Forgets \cup Lists,
              \/ FindFolder(r, "create") \/ Offer(r) \/ Inspect(r) \/ Record(r) \/ Forget(r)
              \/ ReadStore(r) \/ Reached(r) \/ Unreachable(r)
       PROVE  BranchKept'
  <2>1. r \in Requests /\ r \notin Starts
    BY VerbsApart
  <2> QED
    BY <1>1, <1>11, <2>1, BranchStays
       DEF FindFolder, Offer, Inspect, Record, Forget, ReadStore, Reached, Unreachable, Reads,
           gitVars, diskVars, personVars
<1>12. ASSUME NEW r \in Requests, Attribute(r) \/ Answer(r) \/ Fails(r)
       PROVE  BranchKept'
  BY <1>1, <1>12, BranchStays
     DEF Attribute, Answer, Fails, Reads, gitVars, diskVars, personVars
<1>13. ASSUME Meddling
       PROVE  BranchKept'
  <2>1. CASE \E b \in Branches : MakesTree(b)
    BY <1>1, <2>1 DEF BranchKept, MakesTree, Meddles
  <2>2. CASE \E p \in DOMAIN trees : DeletesDirectory(p)
    BY <1>1, <2>2 DEF BranchKept, DeletesDirectory, Meddles, gitVars
  <2>3. CASE \E p \in DOMAIN trees : Prunes(p)
    BY <1>1, <2>3 DEF BranchKept, Prunes, diskVars, personVars
  <2>4. CASE \E p \in DOMAIN trees : \E h \in Branches \cup {Detached} : Switches(p, h)
    BY <1>1, <2>4 DEF BranchKept, Switches, Meddles, diskVars
  <2> QED
    BY <1>13, <2>1, <2>2, <2>3, <2>4 DEF Meddling
<1> QED
  BY <1>4, <1>5, <1>6, <1>7, <1>8, <1>9, <1>10, <1>11, <1>12, <1>13 DEF ProjectNext, Ensures

-----------------------------------------------------------------------------
\* What a listing shows.

\* Where sessions and answers stay, so does what was attributed.
LEMMA AttributedStays ==
  ASSUME ProjectInv, UNCHANGED <<cwd, view, answer>>,
         \A r \in Requests : step'[r] = step[r] \/ step[r] \notin {"compose", "over"}
                             \/ step'[r] = "over"
  PROVE  Attributed'
BY DEF ProjectInv, Attributed, Requests, Sessions, Listings

LEMMA AttributedOn ==
  ASSUME ProjectInv, [ProjectNext]_projectVars
  PROVE  Attributed'
<1> USE DEF ProjectInv
<1>1. Attributed /\ RequestsTyped
  BY DEF ProjectTypeOK, PlacesInOrder, RequestsTyped
<1>2. \A p \in dirs : IsPath(p)
  BY ProjectAssumption DEF PlacesInOrder, ProjectTypeOK, IsMade
<1>3. CASE UNCHANGED projectVars
  BY <1>3, AttributedStays DEF projectVars, listingVars
<1> USE DEF StepTo, Requests, Sessions, Listings, RequestsTyped
<1>4. ASSUME NEW s \in Starts,
             \/ FindFolder(s, "precheck") \/ Precheck(s) \/ Adopt(s) \/ FindNone(s)
             \/ FreeDirectory(s) \/ BranchExists(s) \/ Relist(s)
      PROVE  Attributed'
  BY <1>1, <1>4, AttributedStays
     DEF FindFolder, Precheck, Adopt, FindNone, FreeDirectory, BranchExists, Relist, Reads,
         listingVars
<1>5. ASSUME NEW s \in Starts, Conceal(s) \/ AddBranch(s) \/ AddTree(s)
      PROVE  Attributed'
  BY <1>1, <1>5, AttributedStays DEF Conceal, AddBranch, AddTree, listingVars
<1>6. ASSUME NEW q \in Sessions, Create(q)
      PROVE  Attributed'
  BY <1>1, <1>6, VerbsApart DEF Attributed, Create, listingVars
<1>7. ASSUME NEW r \in Requests,
              \/ FindFolder(r, "create") \/ Offer(r) \/ Record(r) \/ Forget(r)
              \/ ReadStore(r) \/ Answer(r) \/ Fails(r)
      PROVE  Attributed'
  BY <1>1, <1>7, AttributedStays
     DEF FindFolder, Offer, Record, Forget, ReadStore, Answer, Fails, Reads, listingVars
<1>8. ASSUME NEW r \in Listings, Inspect(r) \/ Reached(r)
      PROVE  Attributed'
  <2>1. r \notin Sessions /\ DOMAIN answer[r] = {}
    BY <1>1, <1>8, VerbsApart DEF Attributed, Inspect, Reached
  <2>2. DOMAIN Described = dirs
    BY DEF Described
  <2>3. UNCHANGED <<cwd, answer>> /\ view' = [view EXCEPT ![r] = Described]
    BY <1>8 DEF Inspect, Reached
  <2>4. /\ step' = [step EXCEPT ![r] = step'[r]]
        /\ step[r] \in {"inspect", "reach"}
    BY <1>1, <1>8 DEF Inspect, Reached
  <2> QED
    BY <1>1, <1>2, <2>1, <2>2, <2>3, <2>4 DEF Attributed
<1>9. ASSUME NEW l \in Lists, Unreachable(l)
      PROVE  Attributed'
  BY <1>1, <1>9, VerbsApart DEF Attributed, Unreachable
<1>10. ASSUME NEW r \in Listings, Attribute(r)
       PROVE  Attributed'
  <2>1. PICK p \in Listed(r) \ DOMAIN answer[r] :
          answer' = [answer EXCEPT ![r] = [w \in DOMAIN @ \cup {p} |->
            IF w \in DOMAIN @ THEN @[w]
            ELSE {q \in Sessions : cwd[q] # Nowhere /\ Deepest(Considered(r), cwd[q]) = p}]]
    BY <1>10 DEF Attribute
  <2>2. step[r] = "compose" /\ UNCHANGED <<step, cwd, view>>
    BY <1>10 DEF Attribute
  <2> QED
    BY <1>1, <2>1, <2>2 DEF Attributed, Considered
<1>11. ASSUME Meddling
       PROVE  Attributed'
  BY <1>1, <1>11, AttributedStays
     DEF Meddling, MakesTree, DeletesDirectory, Prunes, Switches, listingVars
<1> QED
  BY <1>3, <1>4, <1>5, <1>6, <1>7, <1>8, <1>9, <1>10, <1>11 DEF ProjectNext, Ensures

-----------------------------------------------------------------------------
\* The rows of the projects table.

\* A sequence without one of its elements.
LEMMA RowRemoved ==
  ASSUME NEW S, NEW s \in Seq(S), NEW i \in 1 .. Len(s)
  PROVE  /\ RemoveAt(s, i) \in Seq(S) /\ Len(RemoveAt(s, i)) = Len(s) - 1
         /\ \A k \in 1 .. Len(s) - 1 :
              RemoveAt(s, i)[k] = IF k < i THEN s[k] ELSE s[k + 1]
<1> DEFINE a == SubSeq(s, 1, i - 1)
           z == SubSeq(s, i + 1, Len(s))
           n == Len(s)
           c == a \o z
<1>1. n \in Nat /\ i \in 1 .. n
  BY LenProperties
<1>2. a \in Seq(S) /\ Len(a) = i - 1 /\ \A k \in 1 .. i - 1 : a[k] = s[k]
  BY <1>1, SubSeqProperties
<1>3. z \in Seq(S) /\ Len(z) = n - i /\ \A k \in 1 .. n - i : z[k] = s[i + k]
  BY <1>1, SubSeqProperties
<1> HIDE DEF a, z
<1>4. /\ c \in Seq(S) /\ Len(c) = Len(a) + Len(z)
      /\ \A k \in 1 .. Len(a) + Len(z) : c[k] = IF k <= Len(a) THEN a[k] ELSE z[k - Len(a)]
  BY <1>2, <1>3, ConcatProperties
<1>5. RemoveAt(s, i) = c
  BY DEF RemoveAt, a, z
<1> HIDE DEF c, n
<1>6. c \in Seq(S) /\ Len(c) = n - 1
  BY <1>1, <1>2, <1>3, <1>4
<1>7. ASSUME NEW k \in 1 .. n - 1
      PROVE  c[k] = IF k < i THEN s[k] ELSE s[k + 1]
  <2>1. CASE k < i
    <3>1. k \in 1 .. i - 1 /\ k \in 1 .. (i - 1) + (n - i)
      BY <1>1, <2>1
    <3> QED
      BY <1>2, <1>3, <1>4, <2>1, <3>1
  <2>2. CASE ~ (k < i)
    <3>1. /\ k \in 1 .. (i - 1) + (n - i) /\ ~ (k <= i - 1)
          /\ k - (i - 1) \in 1 .. n - i /\ i + (k - (i - 1)) = k + 1
      BY <1>1, <2>2
    <3>2. c[k] = z[k - (i - 1)]
      BY <1>2, <1>3, <1>4, <3>1
    <3> QED
      BY <1>3, <2>2, <3>1, <3>2
  <2> QED
    BY <2>1, <2>2
<1> QED
  BY <1>5, <1>6, <1>7 DEF n

\* Where the table stays, so does the order in it.
LEMMA RowsStay ==
  ASSUME ProjectInv, UNCHANGED store,
         \A r \in Registers : step'[r] = "record" => step[r] = "record" /\ place'[r] = place[r]
  PROVE  RowsInOrder'
BY DEF ProjectInv, RowsInOrder, Registrable

LEMMA RowsKept ==
  ASSUME ProjectInv, [ProjectNext]_projectVars
  PROVE  RowsInOrder'
<1> USE DEF ProjectInv
<1>1. RowsInOrder /\ RequestsTyped /\ Len(store) \in Nat /\ DOMAIN store = 1 .. Len(store)
  BY LenProperties DEF ProjectTypeOK, PlacesInOrder, RequestsTyped, RowsInOrder
<1>2. CASE UNCHANGED projectVars
  BY <1>2, RowsStay DEF projectVars
<1> USE DEF StepTo, Requests, Sessions, Listings, RequestsTyped
<1>3. ASSUME NEW s \in Starts,
             \/ FindFolder(s, "precheck") \/ Precheck(s) \/ Adopt(s) \/ FindNone(s)
             \/ FreeDirectory(s) \/ BranchExists(s) \/ Relist(s)
      PROVE  RowsInOrder'
  BY <1>1, <1>3, VerbsApart, RowsStay
     DEF FindFolder, Precheck, Adopt, FindNone, FreeDirectory, BranchExists, Relist, Reads
<1>4. ASSUME NEW s \in Starts, Conceal(s) \/ AddBranch(s) \/ AddTree(s)
      PROVE  RowsInOrder'
  BY <1>1, <1>4, RowsStay DEF Conceal, AddBranch, AddTree
<1>5. ASSUME NEW r \in Requests,
             \/ FindFolder(r, "create") \/ Create(r) \/ Offer(r)
             \/ Reached(r) \/ Unreachable(r) \/ Attribute(r) \/ Answer(r) \/ Fails(r)
      PROVE  RowsInOrder'
  BY <1>1, <1>5, RowsStay
     DEF FindFolder, Create, Offer, Reached, Unreachable, Attribute, Answer, Fails, Reads
<1>6. ASSUME NEW l \in Lists, ReadStore(l)
      PROVE  RowsInOrder'
  BY <1>1, <1>6, VerbsApart, RowsStay DEF ReadStore, Reads
<1>7. ASSUME NEW r \in Registers, Inspect(r)
      PROVE  RowsInOrder'
  <2>1. ASSUME Exists(Folder[r])
        PROVE  RegistrationRoot(Folder[r]) \in Registrable
    <3>1. Main \in dirs /\ \A p \in dirs : p = Main \/ p = Aside \/ IsMade(p)
      BY DEF ProjectTypeOK, PlacesInOrder
    <3> QED
      BY <2>1, <3>1, RootIsRegistrable DEF Exists
  <2> QED
    BY <1>1, <1>7, <2>1 DEF Inspect, RowsInOrder, Registrable
<1>8. ASSUME NEW r \in Registers, Record(r)
      PROVE  RowsInOrder'
  <2>1. step[r] = "record" /\ place[r] \in Registrable /\ UNCHANGED place
    BY <1>1, <1>8 DEF Record, RowsInOrder
  <2>2. /\ store' \in Seq(Registrable)
        /\ \A i, j \in DOMAIN store' : i # j => store'[i] # store'[j]
    <3>1. CASE Stored(place[r])
      BY <1>1, <1>8, <3>1 DEF Record, RowsInOrder
    <3>2. CASE ~ Stored(place[r])
      <4>1. store' = Append(store, place[r])
        BY <1>8, <3>2 DEF Record
      <4>2. /\ store' \in Seq(Registrable)
            /\ Len(store') = Len(store) + 1 /\ DOMAIN store' = 1 .. Len(store')
            /\ \A i \in 1 .. Len(store) : store'[i] = store[i]
            /\ store'[Len(store) + 1] = place[r]
        <5> DEFINE S == Registrable
        <5>1. store \in Seq(S) /\ place[r] \in S
          BY <1>1, <2>1 DEF RowsInOrder
        <5> HIDE DEF S
        <5>2. Append(store, place[r]) \in Seq(S)
          BY <5>1, AppendProperties
        <5> QED
          BY <1>1, <4>1, <5>1, <5>2, AppendProperties, LenProperties DEF S
      <4>3. \A i \in 1 .. Len(store) : store[i] # place[r]
        BY <1>1, <3>2 DEF Stored
      <4> QED
        BY <1>1, <4>2, <4>3 DEF RowsInOrder
    <3> QED
      BY <3>1, <3>2
  <2>3. \A o \in Registers : step'[o] = "record" => step[o] = "record"
    BY <1>1, <1>8 DEF Record
  <2> QED
    BY <1>1, <2>1, <2>2, <2>3 DEF RowsInOrder, Registrable
<1>9. ASSUME NEW f \in Forgets, Forget(f)
      PROVE  RowsInOrder'
  <2>1. CASE ~ Stored(Folder[f])
    BY <1>1, <1>9, <2>1, VerbsApart, RowsStay DEF Forget
  <2>2. CASE Stored(Folder[f])
    <3>1. PICK i \in DOMAIN store : store' = RemoveAt(store, i)
      BY <1>9, <2>2 DEF Forget
    <3> DEFINE S == Registrable
    <3>2. store \in Seq(S) /\ i \in 1 .. Len(store)
      BY <1>1 DEF RowsInOrder
    <3> HIDE DEF S
    <3>6. store' \in Seq(S) /\ Len(store') = Len(store) - 1
      BY <3>1, <3>2, RowRemoved
    <3>7. DOMAIN store' = 1 .. Len(store) - 1
      BY <3>6, LenProperties
    <3>8. \A k \in 1 .. Len(store) - 1 : store'[k] = IF k < i THEN store[k] ELSE store[k + 1]
      BY <3>1, <3>2, RowRemoved
    <3>9. ASSUME NEW k \in DOMAIN store', NEW l \in DOMAIN store', k # l
          PROVE  store'[k] # store'[l]
      <4> DEFINE n == Len(store)
                 At(m) == IF m < i THEN m ELSE m + 1
      <4>1. n \in Nat /\ i \in 1 .. n /\ k \in 1 .. n - 1 /\ l \in 1 .. n - 1 /\ k # l
        BY <1>1, <3>2, <3>7, <3>9
      <4>2. store'[k] = store[At(k)] /\ store'[l] = store[At(l)]
        BY <3>8, <4>1
      <4>3. \A x, y \in 1 .. n : x # y => store[x] # store[y]
        BY <1>1 DEF RowsInOrder
      <4> HIDE DEF n
      <4>4. At(k) \in 1 .. n /\ At(l) \in 1 .. n /\ At(k) # At(l)
        BY <4>1
      <4> QED
        BY <4>2, <4>3, <4>4
    <3>10. \A r \in Registers : step'[r] = "record" => step[r] = "record" /\ place'[r] = place[r]
      BY <1>1, <1>9, VerbsApart DEF Forget
    <3> QED
      BY <1>1, <3>6, <3>9, <3>10 DEF RowsInOrder, Registrable, S
  <2> QED
    BY <2>1, <2>2
<1>10. ASSUME Meddling
       PROVE  RowsInOrder'
  BY <1>1, <1>10, RowsStay DEF Meddling, MakesTree, DeletesDirectory, Prunes, Switches
<1> QED
  BY <1>2, <1>3, <1>4, <1>5, <1>6, <1>7, <1>8, <1>9, <1>10 DEF ProjectNext, Ensures

-----------------------------------------------------------------------------
\* The invariant, and what follows from it.

LEMMA ProjectStart ==
  ASSUME ProjectInit
  PROVE  ProjectInv
<1>1. MaxMeddling \in Nat /\ IsPath(Main) /\ Unused \cup {Trunk} \subseteq Branches
  BY ProjectAssumption
<1>2. ProjectTypeOK
  <2>1. /\ DOMAIN trees = {Main} /\ trees[Main] = Trunk /\ dirs = {Main}
        /\ branches = Unused \cup {Trunk} /\ concealed = FALSE
    BY DEF ProjectInit
  <2>2. GitTyped
    BY <1>1, <2>1 DEF GitTyped
  <2>3. RequestsTyped
    BY <1>1 DEF ProjectInit, RequestsTyped
  <2> QED
    BY <2>2, <2>3 DEF GitTyped, RequestsTyped, ProjectTypeOK
<1>3. PlacesInOrder /\ BranchKept /\ Attributed
  BY <1>1 DEF ProjectInit, PlacesInOrder, BranchKept, Attributed, Requests, Sessions, Listings
<1>4. RowsInOrder
  BY DEF ProjectInit, RowsInOrder, Registrable, Requests
<1> QED
  BY <1>2, <1>3, <1>4 DEF ProjectInv

LEMMA ProjectHolds == ProjectSpec => []ProjectInv
<1>1. ProjectInit => ProjectInv
  BY ProjectStart
<1>2. ProjectInv /\ [ProjectNext]_projectVars => ProjectInv'
  BY TypesKept, PlacesKept, BranchKeptOn, AttributedOn, RowsKept DEF ProjectInv
<1> QED
  BY <1>1, <1>2, PTL DEF ProjectSpec

\* A session that was started on a branch is in the worktree of that branch, and
\* sessions started on one branch are in one worktree, until the person changes it:
\* what a start found or made keeps the branch, because git checks no branch out
\* twice and prunes nothing but what the person took away.
THEOREM ProjectBranches == ProjectSpec => []BranchHonoured
<1>1. ProjectInv => BranchHonoured
  <2> SUFFICES ASSUME ProjectInv, NEW s \in Starts, NEW t \in Starts,
                      cwd[s] # Nowhere, cwd[t] # Nowhere, {cwd[s], cwd[t]} \cap touched = {}
               PROVE  trees[cwd[s]] = BranchOf[s]
                      /\ (BranchOf[s] = BranchOf[t] <=> cwd[s] = cwd[t])
    BY DEF BranchHonoured
  <2>1. /\ cwd[s] \in DOMAIN trees /\ trees[cwd[s]] = BranchOf[s]
        /\ cwd[t] \in DOMAIN trees /\ trees[cwd[t]] = BranchOf[t]
    BY DEF ProjectInv, BranchKept
  <2>2. BranchOf[s] # Detached /\ BranchOf[t] # Detached
    BY ProjectAssumption
  <2> QED
    BY <2>1, <2>2 DEF ProjectInv, ProjectTypeOK
<1> QED
  BY <1>1, ProjectHolds, PTL

\* A listing shows a session under one worktree at most, and never under another
\* than the one it runs in while that is a worktree: every worktree is considered,
\* and the deepest of those that cover a worktree is that worktree.
THEOREM ProjectListings == ProjectSpec => []ListedWhereItRuns
<1>1. ProjectInv => ListedWhereItRuns
  <2> SUFFICES ASSUME ProjectInv, NEW r \in Listings, NEW p \in DOMAIN answer[r],
                      NEW q \in answer[r][p]
               PROVE  /\ cwd[q] \in DOMAIN view[r] => p = cwd[q]
                      /\ \A o \in DOMAIN answer[r] \ {p} : q \notin answer[r][o]
    BY DEF ListedWhereItRuns
  <2>1. \A o \in DOMAIN view[r] : IsPath(o)
    BY DEF ProjectInv, Attributed
  <2>2. \A o \in DOMAIN answer[r] : q \in answer[r][o] => Deepest(DOMAIN view[r], cwd[q]) = o
    BY DEF ProjectInv, Attributed
  <2> QED
    BY <2>1, <2>2, DeepestOfItself
<1> QED
  BY <1>1, ProjectHolds, PTL

\* No repository folder is two projects: none is stored twice, and none is a
\* worktree that a start made in the base of another, because registration folds
\* such a one into the main worktree.
THEOREM ProjectRows == ProjectSpec => []StoreIsSound
<1>1. ProjectInv => StoreIsSound
  <2> SUFFICES ASSUME ProjectInv, NEW i \in DOMAIN store, NEW j \in DOMAIN store, i # j
               PROVE  store[i] # store[j] /\ ~ IsPrefix(store[i] \o Base, store[j])
    BY DEF StoreIsSound, NoTwins, ProjectInv
  <2>1. store[i] \in Registrable /\ store[j] \in Registrable /\ store[i] # store[j]
    <3> DEFINE S == Registrable
    <3>1. store \in Seq(S) /\ store[i] # store[j]
      BY DEF ProjectInv, RowsInOrder
    <3> HIDE DEF S
    <3>2. store[i] \in S /\ store[j] \in S
      BY <3>1, ElementOfSeq, LenProperties
    <3> QED
      BY <3>1, <3>2 DEF S
  <2> QED
    BY <2>1, ProjectAssumption DEF Registrable
<1> QED
  BY <1>1, ProjectHolds, PTL

=============================================================================
