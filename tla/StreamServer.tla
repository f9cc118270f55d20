---------------------------- MODULE StreamServer ----------------------------
(***************************************************************************)
(* How the daemon serves the two connections of a client:                  *)
(* crates/nysia-core/src/rpc/server.rs over the table of StreamRegistry.   *)
(*                                                                         *)
(* A stream connection is bound to its client id after its hello is vetted *)
(* and before the hello is answered; its task then reads credit until the  *)
(* client goes away or a newer connection supersedes it, and tears down    *)
(* what it owns.  A control connection serves one verb at a time: an       *)
(* attach or a subscribe reserves a stream id, the answer naming the id is *)
(* written, and only then does anything start that writes to that id.      *)
(* Nothing orders the control socket against the stream socket.            *)
(*                                                                         *)
(* The client modelled is the window (apps/desktop): it finishes one       *)
(* stream handshake before the next, sends a verb on a control connection  *)
(* after the answer to the one before, and detaches ids it was told on     *)
(* its latest stream connection.  On those of Retrying it also re-sends a  *)
(* request of another whose answer it did not see.                         *)
(***************************************************************************)
EXTENDS StreamRegistry, FiniteSets

CONSTANTS
  Sockets,      \* stream sockets a client may open, at most once each
  SocketClient, \* whose they are
  Controls,     \* control connections
  ControlClient,\* whose they are
  MaxRequests,  \* bound: attaches and subscribes sent in a behaviour
  MaxReleases,  \* bound: detaches and unsubscribes sent
  Retrying      \* control connections on which clients use `retryRequest`

ASSUME ServerAssumption ==
  /\ SocketClient \in [Sockets -> Clients]
  /\ ControlClient \in [Controls -> Clients]
  /\ MaxRequests \in Nat
  /\ MaxReleases \in Nat
  /\ Retrying \subseteq Controls

VARIABLES
  phase,     \* where the task of each stream socket is
  key,       \* the ConnectionKey its bind returned; 0 before
  latest,    \* the stream socket a client opened last
  ctl,       \* what each control connection is doing
  requests,  \* request ids minted so far
  releases,  \* detaches and unsubscribes sent so far
  receipts,  \* stored answers: request id -> the sink the answer names
  told,      \* ids the clients have been told, as <<client, sink>>
  subscribers, \* AgentStatusService: the sinks changes are broadcast to
  started    \* sinks a replay or a change frame may have been written to

serverVars == <<phase, key, latest, ctl, requests, releases, receipts, told, subscribers, started>>
vars == <<registryVars, serverVars>>

NoSocket == 0
NoSink   == [key |-> 0, id |-> 0]
Idle     == [at |-> "idle", verb |-> "none", request |-> 0, sink |-> NoSink, seen |-> 0]

\* A verb on its way, with the request id it is retried under or the id it names.
Sent(verb, request, s) ==
  [at |-> "sent", verb |-> verb, request |-> request, sink |-> s, seen |-> 0]

Phases == {"closed", "vetted", "bound", "serving", "leaving", "unbound", "done"}
Verbs  == {"none", "attach", "subscribe", "detach", "unsubscribe"}
Steps  == {"idle", "sent", "answer", "start", "abandoned", "released", "resolved", "ended"}

ServerTypeOK ==
  /\ RegistryTypeOK
  /\ phase \in [Sockets -> Phases]
  /\ key \in [Sockets -> Key \cup {0}]
  /\ latest \in [Clients -> Sockets \cup {NoSocket}]
  /\ ctl \in [Controls -> [at : Steps, verb : Verbs, request : 0..MaxRequests,
                           sink : Sink \cup {NoSink}, seen : Key \cup {0}]]
  /\ requests \in 0..MaxRequests
  /\ releases \in 0..MaxReleases
  /\ DOMAIN receipts \subseteq 1..MaxRequests
  /\ receipts \in [DOMAIN receipts -> Sink]
  /\ told \subseteq Clients \X Sink
  /\ subscribers \subseteq Sink
  /\ started \subseteq Sink

Init ==
  /\ RegistryInit
  /\ phase = [s \in Sockets |-> "closed"]
  /\ key = [s \in Sockets |-> 0]
  /\ latest = [c \in Clients |-> NoSocket]
  /\ ctl = [t \in Controls |-> Idle]
  /\ requests = 0 /\ releases = 0
  /\ receipts = EmptyMap
  /\ told = {} /\ subscribers = {} /\ started = {}

-----------------------------------------------------------------------------
\* The stream connection: serve_io, serve_stream, read_credit.

Become(s, from, to) == phase[s] = from /\ phase' = [phase EXCEPT ![s] = to]

\* The client opens a stream socket and its hello passes `vet`; a hello that
\* is refused binds nothing and changes nothing.
OpenStream(s) ==
  LET c == SocketClient[s] IN
  /\ Become(s, "closed", "vetted")
  /\ \A r \in Sockets : SocketClient[r] = c => phase[r] \notin {"vetted", "bound"}
  /\ latest' = [latest EXCEPT ![c] = s]
  /\ UNCHANGED <<registryVars, key, ctl, requests, releases, receipts, told, subscribers, started>>

\* `self.streams.bind(&hello.client_id)`, before a word of the answer.
BindStream(s) ==
  /\ Become(s, "vetted", "bound")
  /\ Bind(SocketClient[s])
  /\ key' = [key EXCEPT ![s] = next_connection]
  /\ UNCHANGED <<latest, ctl, requests, releases, receipts, told, subscribers, started>>

\* Mutant: the acceptance may be written before the bind.
AcceptStream_Unbound(s) ==
  /\ Become(s, "vetted", "serving") \/ Become(s, "bound", "serving")
  /\ UNCHANGED <<registryVars, key, latest, ctl, requests, releases, receipts, told, subscribers, started>>

\* The acceptance is written, and the connection is served.
AcceptStream(s) ==
  /\ Become(s, "bound", "serving")
  /\ UNCHANGED <<registryVars, key, latest, ctl, requests, releases, receipts, told, subscribers, started>>

\* The acceptance cannot be written: the bind is undone.
AcceptLost(s) ==
  /\ Become(s, "bound", "done")
  /\ Unbind(key[s])
  /\ UNCHANGED <<key, latest, ctl, requests, releases, receipts, told, subscribers, started>>

\* read_credit returns: the client closed the socket, framing was lost, or a
\* credit frame for id i earned a DropConnection.
CreditEnds(s) ==
  /\ Become(s, "serving", "leaving")
  /\ UNCHANGED <<registryVars, key, latest, ctl, requests, releases, receipts, told, subscribers, started>>

ReadCredit(s, i) ==
  /\ CreditOutcome(key[s], i) = "DropConnection"
  /\ CreditEnds(s)

\* The other arm of the select: a newer connection superseded this one.
LetGo(s) ==
  /\ Become(s, "serving", "leaving")
  /\ TakeWake(key[s])
  /\ UNCHANGED <<key, latest, ctl, requests, releases, receipts, told, subscribers, started>>

\* `pumping.abort(); self.streams.unbind(key)`
UnbindStream(s) ==
  /\ Become(s, "leaving", "unbound")
  /\ Unbind(key[s])
  /\ UNCHANGED <<key, latest, ctl, requests, releases, receipts, told, subscribers, started>>

\* `self.status.forget_connection(key)`
ForgetConnection(s) ==
  /\ Become(s, "unbound", "done")
  /\ subscribers' = {x \in subscribers : x.key # key[s]}
  /\ UNCHANGED <<registryVars, key, latest, ctl, requests, releases, receipts, told, started>>

-----------------------------------------------------------------------------
\* The control connection: serve_control, dispatch, run, and Deferred.

Client(t) == ControlClient[t]

\* The connection the client believes its ids belong to.
Believed(c) == IF latest[c] = NoSocket THEN 0 ELSE key[latest[c]]

\* The window sends one verb and waits for its answer.
SendReserve(t, verb) ==
  /\ ctl[t].at = "idle" /\ requests < MaxRequests
  /\ requests' = requests + 1
  /\ ctl' = [ctl EXCEPT ![t] = Sent(verb, requests', NoSink)]
  /\ UNCHANGED <<registryVars, phase, key, latest, releases, receipts, told, subscribers, started>>

SendRelease(t, verb, i) ==
  LET s == [key |-> Believed(Client(t)), id |-> i] IN
  /\ ctl[t].at = "idle" /\ releases < MaxReleases
  /\ <<Client(t), s>> \in told
  /\ releases' = releases + 1
  /\ ctl' = [ctl EXCEPT ![t] = Sent(verb, 0, s)]
  /\ UNCHANGED <<registryVars, phase, key, latest, requests, receipts, told, subscribers, started>>

Advance(t, verbs, from, next) ==
  /\ ctl[t].at = from /\ ctl[t].verb \in verbs
  /\ ctl' = [ctl EXCEPT ![t] = next]

\* Mutant: a subscriber joins the broadcast list before its answer is written.
Reserve_Eager(t) ==
  /\ Attach(Client(t))
  /\ Advance(t, {"attach", "subscribe"}, "sent",
             [ctl[t] EXCEPT !.at = "answer", !.sink = AttachedSink(Client(t))])
  /\ receipts' = Put(receipts, ctl[t].request, AttachedSink(Client(t)))
  /\ subscribers' = IF ctl[t].verb = "subscribe" THEN subscribers \cup {AttachedSink(Client(t))}
                                                ELSE subscribers
  /\ UNCHANGED <<phase, key, latest, requests, releases, told, started>>

\* Mutant: the receipt is stored under the request after this one.
Reserve_WrongReceipt(t) ==
  /\ Attach(Client(t))
  /\ Advance(t, {"attach", "subscribe"}, "sent",
             [ctl[t] EXCEPT !.at = "answer", !.sink = AttachedSink(Client(t))])
  /\ receipts' = Put(receipts, ctl[t].request + 1, AttachedSink(Client(t)))
  /\ UNCHANGED <<phase, key, latest, requests, releases, told, subscribers, started>>

\* `attach` and `subscribe`: reserve an id, store the receipt (dispatch does,
\* before the answer is written), and leave the rest to Deferred.
Reserve(t) ==
  /\ Attach(Client(t))
  /\ Advance(t, {"attach", "subscribe"}, "sent",
             [ctl[t] EXCEPT !.at = "answer", !.sink = AttachedSink(Client(t))])
  /\ receipts' = Put(receipts, ctl[t].request, AttachedSink(Client(t)))
  /\ UNCHANGED <<phase, key, latest, requests, releases, told, subscribers, started>>

\* No stream connection is bound for the client, or its ids are spent: the
\* answer is an error, and stores no receipt.
Refuse(t) ==
  /\ ~CanAttach(Client(t))
  /\ Advance(t, {"attach", "subscribe"}, "sent", Idle)
  /\ UNCHANGED <<registryVars, phase, key, latest, requests, releases, receipts, told, subscribers, started>>

WriteAnswer(t) ==
  /\ Advance(t, {"attach", "subscribe"}, "answer", [ctl[t] EXCEPT !.at = "start"])
  /\ told' = told \cup {<<Client(t), ctl[t].sink>>}
  /\ UNCHANGED <<registryVars, phase, key, latest, requests, releases, receipts, subscribers, started>>

\* `Deferred::start`: the replay, or the entry in the broadcast list.
StartReplay(t) ==
  /\ Advance(t, {"attach"}, "start", Idle)
  /\ started' = IF ctl[t].sink \in Open THEN started \cup {ctl[t].sink} ELSE started
  /\ UNCHANGED <<registryVars, phase, key, latest, requests, releases, receipts, told, subscribers>>

Subscribe(t) ==
  /\ Advance(t, {"subscribe"}, "start", Idle)
  /\ subscribers' = subscribers \cup {ctl[t].sink}
  /\ UNCHANGED <<registryVars, phase, key, latest, requests, releases, receipts, told, started>>

\* Mutant: the id is not given back.
Abandon_KeepsSink(t) ==
  /\ Advance(t, {"attach", "subscribe"}, "answer", [ctl[t] EXCEPT !.at = "abandoned"])
  /\ UNCHANGED <<registryVars, phase, key, latest, requests, releases, receipts, told, subscribers, started>>

\* The answer cannot be written: `Deferred::abandon`, then the receipt, then
\* the connection is closed.
Abandon(t) ==
  /\ Advance(t, {"attach", "subscribe"}, "answer", [ctl[t] EXCEPT !.at = "abandoned"])
  /\ DetachOn(ctl[t].sink)
  /\ UNCHANGED <<phase, key, latest, requests, releases, receipts, told, subscribers, started>>

ForgetReceipt(t) ==
  /\ Advance(t, {"attach", "subscribe"}, "abandoned", [Idle EXCEPT !.at = "ended"])
  /\ receipts' = Restrict(receipts, DOMAIN receipts \ {ctl[t].request})
  /\ UNCHANGED <<registryVars, phase, key, latest, requests, releases, told, subscribers, started>>

\* A retry that finds a receipt replays the stored answer; nothing runs.  The
\* client names a request another control connection has not answered.
Retry(t, u) ==
  LET r == ctl[u].request IN
  /\ t \in Retrying
  /\ t # u /\ Client(t) = Client(u)
  /\ ctl[t].at = "idle" /\ ctl[u].at \in {"answer", "abandoned"}
  /\ r \in DOMAIN receipts
  /\ told' = told \cup {<<Client(t), receipts[r]>>}
  /\ UNCHANGED <<registryVars, phase, key, latest, ctl, requests, releases, receipts, subscribers, started>>

\* `stream_detach`, and the tail of `agent_status_unsubscribe`: the connection
\* the client id names *now* is looked up under one lock, and the sink is
\* closed under another.
ResolveDetach(t) ==
  LET c == Client(t) IN
  /\ \/ Advance(t, {"detach"}, "sent",
                [ctl[t] EXCEPT !.at = "resolved", !.seen = IF c \in DOMAIN current THEN current[c] ELSE 0])
     \/ Advance(t, {"unsubscribe"}, "released",
                [ctl[t] EXCEPT !.at = "resolved", !.seen = IF c \in DOMAIN current THEN current[c] ELSE 0])
  /\ UNCHANGED <<registryVars, phase, key, latest, requests, releases, receipts, told, subscribers, started>>

\* `detach_on`; the answer is written whether or not anything was there, and
\* a connection whose answer fails ends.
Detach(t) ==
  /\ \E next \in {Idle, [Idle EXCEPT !.at = "ended"]} :
       Advance(t, {"detach", "unsubscribe"}, "resolved", next)
  /\ DetachOn([key |-> ctl[t].seen, id |-> ctl[t].sink.id])
  /\ UNCHANGED <<phase, key, latest, requests, releases, receipts, told, subscribers, started>>

\* `streams.current(..)`, then `status.unsubscribe(connection, id)`.
ResolveUnsubscribe(t) ==
  LET c == Client(t) IN
  /\ c \in DOMAIN current /\ ctl[t].seen = 0
  /\ Advance(t, {"unsubscribe"}, "sent", [ctl[t] EXCEPT !.seen = current[c]])
  /\ UNCHANGED <<registryVars, phase, key, latest, requests, releases, receipts, told, subscribers, started>>

Unsubscribe(t) ==
  LET gone == {x \in subscribers : x = [key |-> ctl[t].seen, id |-> ctl[t].sink.id]} IN
  /\ ctl[t].seen # 0
  /\ Advance(t, {"unsubscribe"}, "sent", [ctl[t] EXCEPT !.at = "released"])
  /\ subscribers' = subscribers \ gone
  /\ CloseSinks(gone)
  /\ UNCHANGED <<phase, key, latest, requests, releases, receipts, told, started>>

UnsubscribeUnbound(t) ==
  /\ Client(t) \notin DOMAIN current /\ ctl[t].seen = 0
  /\ Advance(t, {"unsubscribe"}, "sent", [ctl[t] EXCEPT !.at = "released"])
  /\ UNCHANGED <<registryVars, phase, key, latest, requests, releases, receipts, told, subscribers, started>>

\* The client closes a control connection that is waiting for nothing.
CloseControl(t) ==
  /\ Advance(t, {"none"}, "idle", [Idle EXCEPT !.at = "ended"])
  /\ UNCHANGED <<registryVars, phase, key, latest, requests, releases, receipts, told, subscribers, started>>

-----------------------------------------------------------------------------
\* The session side: OwnedSession::close closes the sinks it feeds.
SessionCloses(s) ==
  /\ s \in Open \cap started
  /\ CloseSinks({s})
  /\ UNCHANGED serverVars

\* AgentStatusService::broadcast: a frame to every subscriber whose sink is
\* open, and the others are forgotten.
Broadcast ==
  /\ subscribers # {}
  /\ subscribers' = subscribers \cap Open
  /\ started' = started \cup (subscribers \cap Open)
  /\ UNCHANGED <<registryVars, phase, key, latest, ctl, requests, releases, receipts, told>>

StreamTask(s) ==
  \/ OpenStream(s) \/ BindStream(s) \/ AcceptStream(s) \/ AcceptLost(s)
  \/ CreditEnds(s) \/ (\E i \in StreamId : ReadCredit(s, i))
  \/ LetGo(s) \/ UnbindStream(s) \/ ForgetConnection(s)

ControlTask(t) ==
  \/ \E verb \in {"attach", "subscribe"} : SendReserve(t, verb)
  \/ \E verb \in {"detach", "unsubscribe"}, i \in StreamId : SendRelease(t, verb, i)
  \/ Reserve(t) \/ Refuse(t) \/ WriteAnswer(t) \/ StartReplay(t) \/ Subscribe(t)
  \/ Abandon(t) \/ ForgetReceipt(t) \/ (\E u \in Controls : Retry(t, u))
  \/ ResolveDetach(t) \/ Detach(t)
  \/ ResolveUnsubscribe(t) \/ Unsubscribe(t) \/ UnsubscribeUnbound(t)
  \/ CloseControl(t)

Next ==
  \/ \E s \in Sockets : StreamTask(s)
  \/ \E t \in Controls : ControlTask(t)
  \/ \E s \in DOMAIN sink : SessionCloses(s)
  \/ Broadcast

\* The runtime keeps polling a task whose select has a ready arm.
Fairness == \A s \in Sockets : WF_vars(LetGo(s)) /\ WF_vars(UnbindStream(s))
                               /\ WF_vars(ForgetConnection(s))

Spec == Init /\ [][Next]_vars /\ Fairness

-----------------------------------------------------------------------------
\* Properties.

\* serve_io's "bound before its hello is answered": from the moment the client
\* knows its latest stream connection was accepted until that connection is
\* over, an attach is routed to it and never to the one it replaces.
AcceptedConnectionIsCurrent ==
  \A c \in Clients :
    LET s == latest[c] IN
    s # NoSocket /\ phase[s] = "serving"
      => c \in DOMAIN current /\ current[c] = key[s]

\* A sink that can still spend its allowance has a client that was told its id
\* (or is about to be), and a stream task that has not yet given its
\* connection up: nobody is left to stall a session for ever.
OpenSinkHasReader ==
  \A x \in Open :
    /\ \/ \E c \in Clients : <<c, x>> \in told
       \/ \E t \in Controls : ctl[t].at = "answer" /\ ctl[t].sink = x
    /\ \E s \in Sockets : key[s] = x.key /\ phase[s] \in {"bound", "serving", "leaving"}

\* Decision D of serve_control: nothing is written to a stream id before the
\* answer naming it, whichever of attach, hook broadcast or retry comes first.
FramesFollowAnswer ==
  \A x \in started \cup subscribers : \E c \in Clients : <<c, x>> \in told

\* Credit for an id the daemon told a client never costs the connection: it is
\* routed, or it is the tail of a detach and discarded.
AckKeepsConnection ==
  \A p \in told :
    p[2].key \in Registered => CreditOutcome(p[2].key, p[2].id) # "DropConnection"

\* A connection the registry has let go of does not keep its task: wherever the
\* task was when it was superseded, the permit of `notify_one` waits for it.
SupersededIsWoken ==
  \A s \in Sockets :
    phase[s] \in {"bound", "serving"} => key[s] \in Registered \cup superseded

=============================================================================
