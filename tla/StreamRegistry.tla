--------------------------- MODULE StreamRegistry ---------------------------
(***************************************************************************)
(* The daemon's table of stream connections:                               *)
(* crates/nysia-core/src/rpc/stream.rs, `StreamRegistry`.                  *)
(*                                                                         *)
(* A client has two connections: verbs travel on the control connection,   *)
(* terminal output on the stream connection.  The registry says which      *)
(* stream connection a client id currently names, counts the stream ids of *)
(* each connection, and holds the sink (`Arc<StreamSink>`) behind every id *)
(* that is routed.  One mutex guards the whole of it, so every method is   *)
(* one step here; `detach`, which takes the lock twice, is two steps, made *)
(* by its caller in module StreamServer.                                   *)
(*                                                                         *)
(* Left out: how many bytes a sink may spend (module SessionOutput) and    *)
(* the outbox a frame is put into.                                         *)
(***************************************************************************)
EXTENDS Naturals, Functions

CONSTANTS
  Clients,  \* client ids, as a hello names them
  MaxKey,   \* bound: how many stream connections one daemon ever binds
  Ceiling   \* the largest stream id (u32::MAX in the code); never assigned

ASSUME RegistryAssumption == MaxKey \in Nat \ {0} /\ Ceiling \in Nat \ {0}

FIRST    == 1
Key      == 1..MaxKey
StreamId == FIRST..Ceiling
Sink     == [key : Key, id : StreamId]

VARIABLES
  connections,     \* registered connections: key -> [client, next_id, sinks]
  current,         \* the connection a client id names: client -> key
  next_connection, \* the counter ConnectionKeys come from
  sink,            \* every sink ever handed out -> "open" or "closed"
  superseded       \* keys whose `superseded` Notify holds a permit

registryVars == <<connections, current, next_connection, sink, superseded>>

StreamConnection == [client : Clients, next_id : StreamId, sinks : SUBSET StreamId]

RegistryTypeOK ==
  /\ DOMAIN connections \subseteq Key
  /\ connections \in [DOMAIN connections -> StreamConnection]
  /\ DOMAIN current \subseteq Clients
  /\ current \in [DOMAIN current -> Key]
  /\ next_connection \in 1..(MaxKey + 1)
  /\ DOMAIN sink \subseteq Sink
  /\ sink \in [DOMAIN sink -> {"open", "closed"}]
  /\ superseded \subseteq Key

EmptyMap == [x \in {} |-> x]

\* HashMap::insert.
Put(map, x, value) == [y \in DOMAIN map \cup {x} |-> IF y = x THEN value ELSE map[y]]

RegistryInit ==
  /\ connections = EmptyMap
  /\ current = EmptyMap
  /\ next_connection = 1
  /\ sink = EmptyMap
  /\ superseded = {}

-----------------------------------------------------------------------------
\* What the table answers.

Registered == DOMAIN connections

Open == {s \in DOMAIN sink : sink[s] = "open"}

\* `get_mut(&key)?.sinks`: the sinks a connection routes.
Routed(k) == IF k \in Registered
               THEN {[key |-> k, id |-> i] : i \in connections[k].sinks}
               ELSE {}

\* `StreamSink::close` on each of a set of sinks.
Closing(S) == [s \in DOMAIN sink |-> IF s \in S THEN "closed" ELSE sink[s]]

\* Mutant: an off-by-one in `was_assigned`.
Classify_OffByOne(i, next) == IF i + 1 < next THEN "DiscardFrame" ELSE "DropConnection"

\* `StreamId::classify_unattached` against a watermark.
Classify(i, next) == IF i < next THEN "DiscardFrame" ELSE "DropConnection"

\* `apply_credit`: what becomes of a credit frame for id i on connection k.
CreditOutcome(k, i) ==
  IF k \notin Registered THEN "DropConnection"
  ELSE IF i \in connections[k].sinks THEN "Routed"
  ELSE Classify(i, connections[k].next_id)

-----------------------------------------------------------------------------
\* The methods that change the table.

\* Mutant: a superseded connection stays in the table.
Previous_Lingers(c) == {}

\* The previous connection of the client, which `bind` takes out of the table.
Previous(c) == IF c \in DOMAIN current THEN {current[c]} \cap Registered ELSE {}

\* Mutant: the superseded reader is not woken.
Bind_Silent(c) ==
  LET k == next_connection
      entry == [client |-> c, next_id |-> FIRST, sinks |-> {}]
  IN /\ k <= MaxKey
     /\ next_connection' = k + 1
     /\ current' = Put(current, c, k)
     /\ connections' = Put(Restrict(connections, Registered \ Previous(c)), k, entry)
     /\ sink' = Closing(UNION {Routed(p) : p \in Previous(c)})
     /\ UNCHANGED superseded

Bind(c) ==
  LET k == next_connection
      entry == [client |-> c, next_id |-> FIRST, sinks |-> {}]
  IN /\ k <= MaxKey
     /\ next_connection' = k + 1
     /\ current' = Put(current, c, k)
     /\ connections' = Put(Restrict(connections, Registered \ Previous(c)), k, entry)
     /\ sink' = Closing(UNION {Routed(p) : p \in Previous(c)})
     /\ superseded' = superseded \cup Previous(c)

Unbind(k) ==
  IF k \in Registered
    THEN /\ connections' = Restrict(connections, Registered \ {k})
         /\ current' = Restrict(current, {c \in DOMAIN current :
                                            ~(c = connections[k].client /\ current[c] = k)})
         /\ sink' = Closing(Routed(k))
         /\ UNCHANGED <<next_connection, superseded>>
    ELSE UNCHANGED registryVars

\* `attach` succeeds for client c; the id below the ceiling is spent for good.
CanAttach(c) ==
  /\ c \in DOMAIN current
  /\ current[c] \in Registered
  /\ connections[current[c]].next_id < Ceiling

AttachedSink(c) == [key |-> current[c], id |-> connections[current[c]].next_id]

\* One more id assigned on a connection, and its sink in the table.
Assigned(entry) ==
  [client |-> entry.client, next_id |-> entry.next_id + 1, sinks |-> entry.sinks \cup {entry.next_id}]

\* Mutant: the watermark is not advanced, so an id is handed out twice.
Attach_Recycles(c) ==
  /\ CanAttach(c)
  /\ connections' = [connections EXCEPT ![current[c]].sinks = @ \cup {AttachedSink(c).id}]
  /\ sink' = Put(sink, AttachedSink(c), "open")
  /\ UNCHANGED <<current, next_connection, superseded>>

Attach(c) ==
  /\ CanAttach(c)
  /\ connections' = [connections EXCEPT ![current[c]] = Assigned(connections[current[c]])]
  /\ sink' = Put(sink, AttachedSink(c), "open")
  /\ UNCHANGED <<current, next_connection, superseded>>

DetachOn(s) ==
  IF s \in Routed(s.key)
    THEN /\ connections' = [connections EXCEPT ![s.key].sinks = @ \ {s.id}]
         /\ sink' = Closing({s})
         /\ UNCHANGED <<current, next_connection, superseded>>
    ELSE UNCHANGED registryVars

\* `StreamSink::close` from outside the registry: the session behind it ended,
\* or a subscription was released.  The table keeps its entry.
CloseSinks(S) ==
  /\ sink' = Closing(S)
  /\ UNCHANGED <<connections, current, next_connection, superseded>>

\* A reader woken by `superseded.notified()` takes the permit.
TakeWake(k) ==
  /\ k \in superseded
  /\ superseded' = superseded \ {k}
  /\ UNCHANGED <<connections, current, next_connection, sink>>

-----------------------------------------------------------------------------
\* The registry under callers that may do anything, in any order.

RegistryNext ==
  \/ \E c \in Clients : Bind(c) \/ Attach(c)
  \/ \E k \in Key : Unbind(k) \/ TakeWake(k)
  \/ \E s \in Sink : DetachOn(s) \/ CloseSinks({s})

RegistrySpec == RegistryInit /\ [][RegistryNext]_registryVars

-----------------------------------------------------------------------------
\* What the table promises.

\* A client id names a registered connection of its own, and every registered
\* connection is the one its client id names: `bind` takes the connection it
\* supersedes out of the table, and a late `unbind` of an old connection never
\* takes the name away from the one that replaced it.
NamesAndConnectionsAgree ==
  /\ \A c \in DOMAIN current :
       /\ current[c] \in Registered
       /\ connections[current[c]].client = c
  /\ \A k \in Registered :
       /\ connections[k].client \in DOMAIN current
       /\ current[connections[k].client] = k

\* An open sink is always one its connection can still find: a client can ack
\* it and detach it.  An open sink outside the table spends its allowance once
\* and stalls the session feeding it.
OpenSinkIsRouted == \A s \in Open : s \in Routed(s.key)

\* Every id behind a sink is below its connection's watermark, and no key is
\* in use that the counter has not passed: the comparison
\* `classify_unattached` makes means "was assigned".
IdsBelowWatermark ==
  /\ \A s \in DOMAIN sink :
       /\ s.key < next_connection
       /\ s.key \in Registered => s.id < connections[s.key].next_id
  /\ \A k \in Registered : k < next_connection

\* The three hold together, between any two calls of the registry.
TableConsistent == NamesAndConnectionsAgree /\ OpenSinkIsRouted /\ IdsBelowWatermark

\* A sink that has been closed is never open again: no stream id is handed
\* out twice on a connection and no connection key is bound twice.
ClosedForGood ==
  [][\A s \in DOMAIN sink :
        s \in DOMAIN sink' /\ (sink[s] = "closed" => sink'[s] = "closed")]_registryVars
=============================================================================
