------------------------------ MODULE EventPlane ------------------------------
(***************************************************************************)
(* The event plane: one broker (lib/server/cave-event-broker.ts), one      *)
(* webview's client (lib/cave-event-plane-client.ts) and the surfaces that *)
(* listen to it.  A surface subscribes to a topic; a durable write to the  *)
(* topic's resource publishes an invalidation; a surface told of one loads *)
(* its resource again.  While its topic is ready a surface does not poll,  *)
(* so an invalidation that is lost leaves it showing old data for good.    *)
(*                                                                         *)
(* The broker serves each socket from state of its own, so one client is   *)
(* enough.  Versions, entity ids and byte limits are left out: nothing the *)
(* properties speak of depends on them.                                    *)
(***************************************************************************)
EXTENDS Naturals, Sequences, FiniteSets, Functions

CONSTANTS
    Topics,        \* the resources a surface can listen to
    Modes,         \* the rollout modes the server may advertise
    None,          \* "no cursor yet"
    RingLimit,     \* invalidations the broker keeps for replay
    BufferLimit,   \* frames a client may be behind before it is closed
    MaxWrites,     \* bound: writes in a behaviour
    MaxRestarts,   \* bound: server restarts
    MaxCuts,       \* bound: lost connections
    MaxToggles     \* bound: subscriptions and unsubscriptions

ASSUME RingLimitAssumption == RingLimit \in Nat \ {0}
ASSUME ModesAssumption == Modes \subseteq {"off", "shadow", "primary"}
ASSUME NoneAssumption == None \notin [epoch : Nat, seq : Nat]

VARIABLES
    broker,    \* the server's ring and its state for this client's socket
    client,    \* the webview's manager
    parting,   \* sockets the client has closed, as far as the broker has to read them yet
    stale,     \* topics whose surface shows data older than the resource
    owed,      \* history: topics with an invalidation the plane must still deliver
    covered,   \* history: topics the broker last installed for this client
    spent      \* how much of each bound is used up

vars == <<broker, client, parting, stale, owed, covered, spent>>

States == {"disabled", "idle", "connecting", "ready", "backing-off"}
Timers == {"coalesce", "idle", "backoff", "ack"}

Cursors == [epoch : Nat, seq : Nat]

ToServer ==
         [type : {"hello"}, topics : SUBSET Topics, resume : Cursors \union {None}]
  \union [type : {"subscribe"}, topics : SUBSET Topics]
  \union [type : {"ack"}, epoch : Nat, seq : Nat]

Invalidation == [type : {"invalidate"}, epoch : Nat, seq : Nat, topic : Topics]

ToClient ==
         [type : {"ready", "resync"}, epoch : Nat, seq : Nat, topics : SUBSET Topics]
  \union Invalidation
  \union [type : {"close"}]

Brokers ==
  [epoch : Nat, seq : Nat, ring : Seq(Invalidation), attached : BOOLEAN,
   helloed : BOOLEAN, topics : SUBSET Topics, sent : Seq(ToClient)]

Clients ==
  [listening : SUBSET Topics, capability : Modes \union {"unread", "loading"},
   state : States, socket : {"none", "connecting", "open"},
   ready : SUBSET Topics, cursor : Cursors \union {None},
   barrier : BOOLEAN, dirty : SUBSET Topics, timers : SUBSET Timers,
   acked : Nat, visible : BOOLEAN, sent : Seq(ToServer)]

\* Two sockets that are closed with the same frames unread are told apart by nothing.
Partings == [helloed : BOOLEAN, frames : Seq(ToServer) \ {<<>>}]

NewBroker(epoch) ==
  [epoch |-> epoch, seq |-> 0, ring |-> <<>>,
   attached |-> FALSE, helloed |-> FALSE, topics |-> {}, sent |-> <<>>]

NewClient ==
  [listening |-> {}, capability |-> "unread", state |-> "idle", socket |-> "none",
   ready |-> {}, cursor |-> None, barrier |-> FALSE, dirty |-> {},
   timers |-> {}, acked |-> 0, visible |-> TRUE, sent |-> <<>>]

Init ==
  /\ broker = NewBroker(0)
  /\ client = NewClient
  /\ parting = {}
  /\ stale = {} /\ owed = {} /\ covered = {}
  /\ spent = [writes |-> 0, restarts |-> 0, cuts |-> 0, toggles |-> 0]

Primary(c) == c.capability = "primary"

Spend(what, limit) ==
  /\ spent[what] < limit
  /\ spent' = [spent EXCEPT ![what] = @ + 1]

-----------------------------------------------------------------------------
(* The broker: what it sends, and when it gives a socket up.               *)

Forget(b) == [b EXCEPT !.attached = FALSE, !.helloed = FALSE, !.topics = {}]

Refuse(b) == [Forget(b) EXCEPT !.sent = Append(@, [type |-> "close"])]

\* Every frame goes out, or the broker finds the client too far behind before
\* one of them and closes it there.
Deliver(b, frames) ==
  LET all == b.sent \o frames
  IN  {[b EXCEPT !.sent = all]}
      \union {Refuse([b EXCEPT !.sent = SubSeq(all, 1, n)]) :
                n \in {k \in Len(b.sent) .. Len(all) - 1 : k > BufferLimit}}

Ready(b) ==
  [type |-> "ready", epoch |-> b.epoch, seq |-> b.seq, topics |-> b.topics]

Resync(b) ==
  [type |-> "resync", epoch |-> b.epoch, seq |-> b.seq, topics |-> b.topics]

\* The oldest sequence that can still be replayed.
Oldest(b) == IF b.ring = <<>> THEN b.seq + 1 ELSE Head(b.ring).seq

Replayable_OffByOne(b, resume) ==
  resume.epoch = b.epoch /\ resume.seq + 2 >= Oldest(b)
Replayable(b, resume) ==
  resume.epoch = b.epoch /\ resume.seq + 1 >= Oldest(b)

Impossible(b, resume) == resume.epoch = b.epoch /\ resume.seq > b.seq

\* What the ring holds for the client after its cursor, in the order of the ring.
Replays(b, resume) ==
  LET missed == {r \in Range(b.ring) : r.seq > resume.seq /\ r.topic \in b.topics}
  IN  {f \in [1 .. Cardinality(missed) -> missed] :
         Range(f) = missed /\ \A k, n \in DOMAIN f : k < n => f[k].seq < f[n].seq}

Hello(b, m) ==
  LET h == [b EXCEPT !.helloed = TRUE, !.topics = m.topics]
  IN  CASE m.resume = None            -> Deliver(h, <<Ready(h)>>)
        [] m.resume # None /\ Impossible(h, m.resume) -> {Refuse(h)}
        [] m.resume # None /\ ~Impossible(h, m.resume) ->
             UNION {Deliver(h, Append(frames, Ready(h))) :
                      frames \in IF Replayable(h, m.resume)
                                   THEN Replays(h, m.resume) ELSE {<<Resync(h)>>}}

\* A complete replacement, answered with a new barrier.
Replace(b, m) ==
  LET s == [b EXCEPT !.topics = m.topics] IN Deliver(s, <<Ready(s)>>)

AckValid(b, m) == m.epoch = b.epoch /\ m.seq <= b.seq

Handle(b, m) ==
  CASE m.type = "hello" /\ ~b.helloed -> Hello(b, m)
    [] m.type = "subscribe" /\ b.helloed -> Replace(b, m)
    [] m.type = "ack" /\ b.helloed /\ AckValid(b, m) -> {b}
    [] OTHER -> {Refuse(b)}

\* The broker takes the next message of the socket it serves.
ServerReceive ==
  /\ broker.attached /\ client.sent # <<>>
  /\ LET m == Head(client.sent)
     IN  /\ broker' \in Handle(broker, m)
         /\ covered' = IF m.type = "ack" THEN covered
                        ELSE m.topics \intersect client.listening
         /\ owed' = IF m.type = "hello" /\ m.resume = None THEN {} ELSE owed
  /\ client' = [client EXCEPT !.sent = Tail(@)]
  /\ UNCHANGED <<parting, stale, spent>>

\* Of a socket that was closed in order the broker reads what the client sent
\* before; nobody reads its answers.
PartingReceive ==
  \E p \in parting :
    LET served == [broker EXCEPT !.attached = TRUE, !.helloed = p.helloed,
                                 !.topics = {}, !.sent = <<>>]
    IN  /\ \E b \in Handle(served, Head(p.frames)) :
             parting' = (parting \ {p}) \union
               (IF b.attached /\ Tail(p.frames) # <<>>
                  THEN {[helloed |-> b.helloed, frames |-> Tail(p.frames)]} ELSE {})
        /\ UNCHANGED <<broker, client, stale, owed, covered, spent>>

Kept(ring) ==
  IF Len(ring) > RingLimit THEN Tail(ring) ELSE ring

\* A resource is written and its topic published.
Publish(t) ==
  LET m == [type |-> "invalidate", epoch |-> broker.epoch, seq |-> broker.seq + 1, topic |-> t]
      b == [broker EXCEPT !.seq = @ + 1, !.ring = Kept(Append(@, m))]
  IN  /\ Spend("writes", MaxWrites)
      /\ broker' \in IF b.helloed /\ t \in b.topics THEN Deliver(b, <<m>>) ELSE {b}
      /\ stale' = stale \union ({t} \intersect client.listening)
      /\ owed' = IF Primary(client) THEN owed \union ({t} \intersect covered) ELSE owed
      /\ UNCHANGED <<client, parting, covered>>

\* The connection is lost, or a heartbeat finds the client silent and the
\* broker terminates it: an unknown part of what was sent arrives.
Cut ==
  /\ broker.attached
  /\ Spend("cuts", MaxCuts)
  /\ \E k \in 0 .. Len(broker.sent) :
       broker' = Refuse([broker EXCEPT !.sent = SubSeq(@, 1, k)])
  /\ UNCHANGED <<client, parting, stale, owed, covered>>

\* The server stops and starts again with a new epoch and an empty ring.
Restart ==
  /\ Spend("restarts", MaxRestarts)
  /\ \E k \in 0 .. Len(broker.sent) :
       broker' = [NewBroker(broker.epoch + 1) EXCEPT !.sent =
                    IF client.socket = "open"
                      THEN SubSeq(broker.sent, 1, k) \o <<[type |-> "close"]>> ELSE <<>>]
  /\ parting' = {}
  /\ UNCHANGED <<client, stale, owed, covered>>

-----------------------------------------------------------------------------
(* The client: each function below is a function of the manager's state.   *)

Send(c, m) == IF c.socket = "open" THEN [c EXCEPT !.sent = Append(@, m)] ELSE c

\* Every handler of the old socket is removed with it, so nothing it sent or
\* was sent is seen any more.
Teardown_KeepsAckTimer(c) ==
  [c EXCEPT !.socket = "none", !.ready = {}, !.sent = <<>>]
Teardown(c) ==
  [c EXCEPT !.socket = "none", !.ready = {}, !.sent = <<>>, !.timers = @ \ {"ack"}]

ScheduleReconnect_Silent(c) == [c EXCEPT !.state = "idle"]
ScheduleReconnect(c) ==
  IF c.listening = {}
    THEN [c EXCEPT !.state = "idle"]
    ELSE [c EXCEPT !.state = "backing-off", !.timers = @ \union {"backoff"}]

Connect(c) ==
  [c EXCEPT !.timers = @ \ {"backoff"}, !.barrier = FALSE,
            !.state = "connecting", !.socket = "connecting"]

\* Bring the connection in line with what is listened to.
Reconcile(c) ==
  LET idle   == [c EXCEPT !.timers = (@ \ {"backoff"}) \union
                                       (IF c.socket = "none" THEN {} ELSE {"idle"}),
                          !.state = IF c.socket = "none" THEN "idle" ELSE @]
      wanted == [c EXCEPT !.timers = @ \ {"idle"}]
      told   == Send([wanted EXCEPT !.ready = @ \intersect c.listening],
                     [type |-> "subscribe", topics |-> c.listening])
  IN  CASE c.listening = {}                   -> idle
        [] c.listening # {} /\ c.capability \in {"unread", "loading"} ->
             [wanted EXCEPT !.capability = "loading"]
        [] c.listening # {} /\ c.capability = "off" ->
             [wanted EXCEPT !.state = "disabled"]
        [] c.listening # {} /\ c.capability \in {"shadow", "primary"} ->
             IF c.socket = "open" THEN told
             ELSE IF c.socket = "connecting" \/ "backoff" \in c.timers THEN wanted
             ELSE Connect(wanted)

MayDeliver(c) == Primary(c) /\ c.barrier /\ c.visible

ScheduleDelivery(c) ==
  IF MayDeliver(c) THEN [c EXCEPT !.timers = @ \union {"coalesce"}] ELSE c

MarkDirty(c, topics) ==
  LET marked == IF Primary(c) THEN topics \intersect c.listening ELSE {}
      d      == [c EXCEPT !.dirty = @ \union marked]
  IN  IF marked = {} THEN c ELSE ScheduleDelivery(d)

\* What a delivery notifies, and the state after it.
Notified(c) == IF MayDeliver(c) THEN c.dirty \intersect c.listening ELSE {}
Notify(c) ==
  LET d == [c EXCEPT !.timers = @ \ {"coalesce"}]
  IN  IF MayDeliver(c) THEN [d EXCEPT !.dirty = {}] ELSE d

Behind(c) == c.cursor # None /\ c.cursor.seq > c.acked

FlushAck(c) ==
  LET d == [c EXCEPT !.timers = @ \ {"ack"}]
  IN  IF Behind(c) /\ c.socket = "open"
        THEN [Send(d, [type |-> "ack", epoch |-> c.cursor.epoch, seq |-> c.cursor.seq])
                EXCEPT !.acked = c.cursor.seq]
        ELSE d

\* At most one acknowledgement a second: it goes out now, or when the timer
\* fires.
ScheduleAck(c) ==
  IF "ack" \in c.timers \/ ~Behind(c) THEN {c}
  ELSE {FlushAck(c), [c EXCEPT !.timers = @ \union {"ack"}]}

Cursor(m) == [epoch |-> m.epoch, seq |-> m.seq]

Seen(c, m) == c.cursor # None /\ c.cursor.epoch = m.epoch /\ m.seq <= c.cursor.seq

OnReady_ForgetsHeld(c, m) ==
  [c EXCEPT !.ready = m.topics \intersect c.listening,
            !.cursor = IF Seen(c, m) THEN @ ELSE Cursor(m),
            !.barrier = TRUE, !.state = "ready"]
OnReady(c, m) ==
  LET d == [c EXCEPT !.ready = m.topics \intersect c.listening,
                     !.cursor = IF Seen(c, m) THEN @ ELSE Cursor(m),
                     !.barrier = TRUE, !.state = "ready"]
  IN  IF d.dirty = {} THEN d ELSE ScheduleDelivery(d)

OnInvalidate(c, m) ==
  IF Seen(c, m) THEN {c}
  ELSE ScheduleAck(MarkDirty([c EXCEPT !.cursor = Cursor(m)], {m.topic}))

OnResync_Quiet(c, m) == [c EXCEPT !.cursor = Cursor(m), !.acked = 0]
OnResync(c, m) ==
  MarkDirty([c EXCEPT !.cursor = Cursor(m), !.acked = 0], m.topics)

OnClose(c) == ScheduleReconnect(Teardown(c))

On(c, m) ==
  CASE m.type = "ready"      -> {OnReady(c, m)}
    [] m.type = "invalidate" -> OnInvalidate(c, m)
    [] m.type = "resync"     -> {OnResync(c, m)}
    [] m.type = "close"      -> {OnClose(c)}

-----------------------------------------------------------------------------
(* The client's steps.  When the client gives its socket up the broker     *)
(* forgets it.                                                             *)

HangUp(b, c) == IF c.socket = "open" THEN b ELSE [Forget(b) EXCEPT !.sent = <<>>]

\* A surface that was notified loads its resource again.
Loaded(topics) ==
  /\ stale' = stale \ topics
  /\ owed' = owed \ topics

ClientReceive ==
  /\ client.socket = "open" /\ broker.sent # <<>>
  /\ client' \in On(client, Head(broker.sent))
  /\ broker' = HangUp([broker EXCEPT !.sent = Tail(@)], client')
  /\ UNCHANGED <<parting, stale, owed, covered, spent>>

\* A surface mounts, loads its resource and listens to its topic.
Subscribe(t) ==
  /\ t \notin client.listening
  /\ Spend("toggles", MaxToggles)
  /\ client' = Reconcile([client EXCEPT !.listening = @ \union {t}])
  /\ UNCHANGED <<broker, parting, stale, owed, covered>>

Unsubscribe(t) ==
  /\ t \in client.listening
  /\ Spend("toggles", MaxToggles)
  /\ client' = Reconcile([client EXCEPT !.listening = @ \ {t}, !.dirty = @ \ {t}])
  /\ Loaded({t})
  /\ covered' = covered \ {t}
  /\ UNCHANGED <<broker, parting>>

\* The advertised mode arrives; a failed read counts as off.
LoadCapability ==
  /\ client.capability = "loading"
  /\ \E mode \in Modes : client' = Reconcile([client EXCEPT !.capability = mode])
  /\ UNCHANGED <<broker, parting, stale, owed, covered, spent>>

\* The socket opens and the client says hello with all it listens to.
Open ==
  /\ client.socket = "connecting"
  /\ client' = Send([client EXCEPT !.socket = "open"],
                    [type |-> "hello", topics |-> client.listening, resume |-> client.cursor])
  /\ broker' = [broker EXCEPT !.attached = TRUE]
  /\ UNCHANGED <<parting, stale, owed, covered, spent>>

\* The socket closes before it opens, or does not open in time.
ConnectFails ==
  /\ client.socket = "connecting"
  /\ Spend("cuts", MaxCuts)
  /\ client' = OnClose(client)
  /\ UNCHANGED <<broker, parting, stale, owed, covered>>

CoalesceTimer ==
  /\ "coalesce" \in client.timers
  /\ client' = Notify(client)
  /\ Loaded(Notified(client))
  /\ UNCHANGED <<broker, parting, covered, spent>>

AckTimer ==
  /\ "ack" \in client.timers
  /\ client' = FlushAck(client)
  /\ UNCHANGED <<broker, parting, stale, owed, covered, spent>>

BackoffTimer ==
  /\ "backoff" \in client.timers
  /\ client' = Reconcile([client EXCEPT !.timers = @ \ {"backoff"}])
  /\ UNCHANGED <<broker, parting, stale, owed, covered, spent>>

\* What the broker still reads of a socket that is closed in order.
Unread(b, c) ==
  IF b.attached /\ c.sent # <<>> THEN {[helloed |-> b.helloed, frames |-> c.sent]} ELSE {}

\* The pending acknowledgement and whatever was sent before it go out ahead of the
\* close; the client hears nothing more of them.
IdleTimer ==
  LET c == [client EXCEPT !.timers = @ \ {"idle"}]
      f == FlushAck(c)
  IN  /\ "idle" \in client.timers
      /\ IF c.listening # {}
           THEN client' = c /\ UNCHANGED <<broker, parting>>
           ELSE /\ client' = [Teardown(f) EXCEPT !.state = "idle"]
                /\ broker' = HangUp(broker, client')
                /\ parting' = parting \union Unread(broker, f)
      /\ UNCHANGED <<stale, owed, covered, spent>>

Hide ==
  /\ client.visible
  /\ client' = [client EXCEPT !.visible = FALSE]
  /\ UNCHANGED <<broker, parting, stale, owed, covered, spent>>

\* Back in the foreground: what went stale is delivered at once and a backoff
\* is cut short.
Show ==
  LET c == [client EXCEPT !.visible = TRUE]
      d == IF c.dirty = {} THEN c ELSE Notify(c)
  IN  /\ ~client.visible
      /\ client' = IF "backoff" \in d.timers /\ d.socket = "none"
                     THEN Reconcile([d EXCEPT !.timers = @ \ {"backoff"}]) ELSE d
      /\ Loaded(Notified(c))
      /\ UNCHANGED <<broker, parting, covered, spent>>

TopicReady(t) == client.state = "ready" /\ t \in client.ready

\* A surface polls while its topic is not ready in primary mode.
Poll(t) ==
  /\ t \in client.listening \intersect stale
  /\ client.visible /\ ~(Primary(client) /\ TopicReady(t))
  /\ Loaded({t})
  /\ UNCHANGED <<broker, client, parting, covered, spent>>

-----------------------------------------------------------------------------
Network == ServerReceive \/ PartingReceive \/ Open \/ ClientReceive

Next ==
  \/ Network
  \/ \E t \in Topics : Publish(t) \/ Subscribe(t) \/ Unsubscribe(t) \/ Poll(t)
  \/ Cut \/ Restart \/ LoadCapability \/ ConnectFails
  \/ CoalesceTimer \/ AckTimer \/ BackoffTimer \/ IdleTimer
  \/ Hide \/ Show

\* Messages arrive, sockets open, the capability read answers and timers fire.
\* Nobody need subscribe, poll, write or show a hidden window.
Fairness ==
  /\ WF_vars(ServerReceive) /\ WF_vars(ClientReceive) /\ WF_vars(Open)
  /\ WF_vars(LoadCapability) /\ WF_vars(CoalesceTimer) /\ WF_vars(BackoffTimer)

Spec == Init /\ [][Next]_vars /\ Fairness

-----------------------------------------------------------------------------
\* The state has its types: the broker serves topics only to a socket that said
\* hello, and the client is ready for topics only on an open socket.
TypeOK ==
  /\ broker \in Brokers
  /\ client \in Clients
  /\ parting \subseteq Partings
  /\ stale \subseteq Topics /\ owed \subseteq Topics /\ covered \subseteq Topics
  /\ spent \in [{"writes", "restarts", "cuts", "toggles"} -> Nat]
  /\ broker.topics # {} => broker.helloed
  /\ client.ready # {} => client.socket = "open"

Settled == broker.attached /\ broker.sent = <<>> /\ client.sent = <<>>

\* Once a topic has been installed, no write to it goes unheard, whatever
\* connections, restarts and ring evictions came between: when nothing is in
\* flight the client holds every invalidation it has not delivered (resume,
\* replay, replay gap and restart resync).
NothingLost == Settled => owed \subseteq client.dirty

\* A visible, ready client that holds an invalidation has its delivery timer
\* running: holding it while hidden or before the barrier never strands it.
HeldIsScheduled ==
  client.dirty # {} /\ client.visible /\ client.state = "ready" =>
    "coalesce" \in client.timers

\* What the broker takes from a socket without refusing it.
Accepts(b, m) ==
  CASE m.type = "hello" -> ~b.helloed /\ (m.resume # None => ~Impossible(b, m.resume))
    [] m.type = "subscribe" -> b.helloed
    [] m.type = "ack" -> b.helloed /\ AckValid(b, m)

\* The acknowledgement that goes out as an idle socket is closed, of a server that
\* has stopped since: the client has not heard yet that there is a new one.
LateAck(frames) ==
  Len(frames) = 1 /\ Head(frames).type = "ack" /\ Head(frames).epoch < broker.epoch

\* The broker never refuses a frame of this client, whatever restarted or was cut
\* before it: a resume cursor is possible, an acknowledgement is valid, and nothing
\* comes before the hello.  It refuses one acknowledgement only, the last frame of a
\* socket that the client has already closed (client 409-414, broker 308-312).
NeverRefused ==
  /\ broker.attached /\ client.sent # <<>> => Accepts(broker, Head(client.sent))
  /\ \A p \in parting :
       Accepts([broker EXCEPT !.helloed = p.helloed], Head(p.frames)) \/ LateAck(p.frames)

\* Every invalidation that is owed is delivered, unless the window is hidden or
\* the surface stops listening.
OwedDelivered ==
  \A t \in Topics : t \in owed ~> (t \notin owed \/ ~client.visible)

\* A topic that is listened to becomes ready, unless the plane is off.
ListenedBecomesReady ==
  \A t \in Topics :
    t \in client.listening ~>
      (TopicReady(t) \/ t \notin client.listening \/ client.capability = "off")
=============================================================================
