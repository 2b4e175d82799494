---------------------------- MODULE EventPlane_proofs ----------------------------
(***************************************************************************)
(* Why no invalidation is lost between the broker and a client, why one    *)
(* that is held has its timer, and why the broker never refuses a frame of *)
(* this client: for any topics, limits, writes, restarts and cuts.         *)
(***************************************************************************)
EXTENDS EventPlane, SequenceTheorems, FiniteSetTheorems, TLAPS

Within(b, x) == x.epoch <= b.epoch /\ (x.epoch = b.epoch => x.seq <= b.seq)

(* A client whose cursor is x and that says hello is told of t. *)
Recoverable(b, x, t) ==
    \/ x.epoch # b.epoch
    \/ x.seq + 1 < Oldest(b)
    \/ \E r \in DOMAIN b.ring : b.ring[r].topic = t /\ b.ring[r].seq > x.seq

Carries(m, t) ==
    \/ m.type = "invalidate" /\ m.topic = t
    \/ m.type = "resync" /\ t \in m.topics

(* The broker serves an open socket, and nothing else; until it has the hello  *)
(* it has sent nothing and the hello still says what the client knows.         *)
Wire(b, c, o, v) ==
    /\ b.helloed => b.attached
    /\ b.topics # {} => b.helloed
    /\ c.ready # {} => c.socket = "open"
    /\ b.attached => c.socket = "open"
    /\ c.socket # "open" => b.sent = <<>> /\ c.sent = <<>>
    /\ b.attached /\ ~b.helloed =>
         /\ b.sent = <<>> /\ c.sent # <<>>
         /\ c.sent[1].type = "hello" /\ c.sent[1].resume = c.cursor
         /\ o \union v \subseteq c.sent[1].topics

(* What the client has sent is acceptable when the broker comes to it. *)
Asked(b, c) ==
    /\ \A p \in DOMAIN c.sent : c.sent[p].type = "hello" => p = 1 /\ ~b.helloed
    /\ \A p \in DOMAIN c.sent : b.attached /\ c.sent[p].type = "ack" => AckValid(b, c.sent[p])
    /\ "ack" \in c.timers =>
         /\ c.socket = "open" /\ c.cursor # None
         /\ b.attached => b.helloed /\ c.cursor.epoch = b.epoch

(* The ring is in order, and nobody is ahead of the broker. *)
Rung(b, c) ==
    /\ \A r \in DOMAIN b.ring : b.ring[r].epoch = b.epoch /\ b.ring[r].seq <= b.seq
    /\ \A r, s \in DOMAIN b.ring : r < s => b.ring[r].seq < b.ring[s].seq
    /\ c.cursor # None => Within(b, c.cursor)

(* What the broker has sent arrives in order and is news to the client. *)
Ordered(b, c) ==
    /\ \A p \in DOMAIN b.sent : b.sent[p].type = "close" =>
         ~b.attached /\ \A r \in DOMAIN b.sent : p < r => b.sent[r].type = "close"
    /\ \A p \in DOMAIN b.sent : b.sent[p].type # "close" =>
         Within(b, b.sent[p]) /\ (b.attached => b.sent[p].epoch = b.epoch)
    /\ \A r \in DOMAIN b.sent : b.sent[r].type = "invalidate" =>
         \A p \in DOMAIN b.sent : p < r =>
            b.sent[p].type # "close" /\ b.sent[p].epoch = b.sent[r].epoch /\ b.sent[p].seq < b.sent[r].seq

News(b, c) ==
    /\ \A r \in DOMAIN b.sent : b.sent[r].type = "invalidate" => ~Seen(c, b.sent[r])
    /\ \A r \in DOMAIN b.sent : b.sent[r].type = "resync" =>
         /\ r = 1
         /\ b.attached => c.cursor # None /\ (c.cursor.epoch = b.epoch => c.cursor.seq + 1 < Oldest(b))

(* What was sent on this connection is in the ring, or has been pushed out.    *)
Held(b) ==
    \A r \in DOMAIN b.sent : b.attached /\ b.sent[r].type = "invalidate" =>
      \/ b.sent[r].seq < Oldest(b)
      \/ \E s \in DOMAIN b.ring : b.ring[s].topic = b.sent[r].topic /\ b.ring[s].seq = b.sent[r].seq

(* What is owed is held by the client, is on its way, or will be found out by  *)
(* the next hello, whichever frame is the last to arrive before it.            *)
Safe(b, c, t) ==
    \/ t \in c.dirty
    \/ \E p \in DOMAIN b.sent : Carries(b.sent[p], t)
    \/ /\ ~b.helloed
       /\ c.cursor # None => Recoverable(b, c.cursor, t)
       /\ \A p \in DOMAIN b.sent : b.sent[p].type # "close" => Recoverable(b, b.sent[p], t)

Books(b, c, o, v) ==
    /\ o \subseteq c.listening /\ v \subseteq c.listening /\ c.dirty \subseteq c.listening
    /\ o # {} \/ c.dirty # {} => Primary(c)
    /\ b.helloed => v \subseteq b.topics

Scheduled(c) ==
    /\ c.state = "ready" => c.barrier
    /\ c.dirty # {} /\ c.visible /\ c.state = "ready" => "coalesce" \in c.timers

Plane(b, c, o, v) ==
    /\ b \in Brokers /\ c \in Clients /\ o \subseteq Topics /\ v \subseteq Topics
    /\ Wire(b, c, o, v) /\ Asked(b, c) /\ Rung(b, c) /\ Ordered(b, c) /\ News(b, c) /\ Held(b)
    /\ Books(b, c, o, v) /\ Scheduled(c)
    /\ \A t \in o : Safe(b, c, t)

(* Of a socket closed with the frames f unread: the hello comes first and      *)
(* everything is acceptable, but for a last acknowledgement of a server that   *)
(* has stopped since.                                                          *)
Parted(b, h, f) ==
    /\ \A k \in DOMAIN f : f[k].type = "hello" =>
         k = 1 /\ ~h /\ (f[k].resume # None => Within(b, f[k].resume))
    /\ ~h => f[1].type = "hello"
    /\ \A k \in DOMAIN f : f[k].type = "ack" =>
         AckValid(b, f[k]) \/ (k = Len(f) /\ f[k].epoch < b.epoch)

PartedInv == \A p \in parting : p \in Partings /\ Parted(broker, p.helloed, p.frames)

PlaneInv ==
    /\ Plane(broker, client, owed, covered)
    /\ stale \subseteq Topics
    /\ spent \in [{"writes", "restarts", "cuts", "toggles"} -> Nat]

(* The states the broker and the client reach by their steps. *)
Barrier(b, T) == [type |-> "ready", epoch |-> b.epoch, seq |-> b.seq, topics |-> T]
Taken(c) == [c EXCEPT !.sent = Tail(@)]
Replaced(b, T) == [b EXCEPT !.topics = T, !.sent = Append(@, Barrier(b, T))]
Answered(b, T, f) == [b EXCEPT !.helloed = TRUE, !.topics = T, !.sent = Append(f, Barrier(b, T))]
AllSent(b, frames) == [b EXCEPT !.sent = b.sent \o frames]
CutAt(b, k) == Refuse([b EXCEPT !.sent = SubSeq(@, 1, k)])

(* f tells a client that says hello of every topic of q it does not hold. *)
Answers(b, c, q, f) ==
    /\ \A p \in DOMAIN f :
         /\ f[p].type \in {"invalidate", "resync"}
         /\ f[p].epoch = b.epoch /\ f[p].seq <= b.seq
    /\ \A r \in DOMAIN f : f[r].type = "invalidate" =>
         /\ \A p \in DOMAIN f : p < r => f[p].seq < f[r].seq
         /\ ~Seen(c, f[r])
         /\ \E s \in DOMAIN b.ring : b.ring[s] = f[r]
    /\ \A r \in DOMAIN f : f[r].type = "resync" =>
         /\ r = 1 /\ c.cursor # None
         /\ c.cursor.epoch = b.epoch => c.cursor.seq + 1 < Oldest(b)
    /\ \A t \in q : t \in c.dirty \/ \E p \in DOMAIN f : Carries(f[p], t)

LEMMA Appended ==
  ASSUME NEW X, NEW s \in Seq(X), NEW x \in X
  PROVE  /\ Append(s, x) \in Seq(X) /\ Append(s, x) # <<>>
         /\ Len(Append(s, x)) = Len(s) + 1 /\ Len(s) \in Nat
         /\ DOMAIN Append(s, x) = 1 .. (Len(s) + 1) /\ DOMAIN s = 1 .. Len(s)
         /\ \A n \in 1 .. Len(s) : Append(s, x)[n] = s[n]
         /\ Append(s, x)[Len(s) + 1] = x
  BY AppendProperties

LEMMA Shortened ==
  ASSUME NEW X, NEW s \in Seq(X), s # <<>>
  PROVE  /\ Head(s) = s[1] /\ s[1] \in X /\ 1 \in DOMAIN s
         /\ Tail(s) \in Seq(X) /\ Len(s) \in Nat \ {0} /\ Len(Tail(s)) = Len(s) - 1
         /\ DOMAIN Tail(s) = 1 .. (Len(s) - 1) /\ DOMAIN s = 1 .. Len(s)
         /\ \A n \in 1 .. (Len(s) - 1) : Tail(s)[n] = s[n + 1]
         /\ \A n \in DOMAIN Tail(s) : n + 1 \in DOMAIN s /\ 1 < n + 1
         /\ \A m, n \in DOMAIN Tail(s) : m < n => m + 1 < n + 1
  BY HeadTailProperties

LEMMA PlaneTypes == PlaneInv /\ PartedInv => TypeOK
  BY DEF PlaneInv, PartedInv, Plane, Wire, TypeOK

LEMMA PlaneScheduled == PlaneInv => HeldIsScheduled
  BY DEF PlaneInv, Plane, Scheduled, HeldIsScheduled

LEMMA PlaneAccepts ==
  ASSUME PlaneInv, broker.attached, client.sent # <<>>
  PROVE  LET m == Head(client.sent)
         IN  /\ m.type \in {"hello", "subscribe", "ack"}
             /\ m.type = "hello" => ~broker.helloed /\ (m.resume # None => ~Impossible(broker, m.resume))
             /\ m.type = "subscribe" => broker.helloed
             /\ m.type = "ack" => broker.helloed /\ AckValid(broker, m)
<1>1. /\ Wire(broker, client, owed, covered) /\ Asked(broker, client) /\ Rung(broker, client)
      /\ broker \in Brokers /\ client \in Clients
  BY DEF PlaneInv, Plane
<1>2. client.sent \in Seq(ToServer) /\ broker.epoch \in Nat /\ broker.seq \in Nat
  BY <1>1 DEF Brokers, Clients
<1>3. 1 \in DOMAIN client.sent /\ Head(client.sent) = client.sent[1] /\ client.sent[1] \in ToServer
  BY <1>2
<1>4. client.sent[1].type \in {"hello", "subscribe", "ack"}
  BY <1>3 DEF ToServer
<1>5. client.sent[1].type = "ack" => AckValid(broker, client.sent[1])
  BY <1>1, <1>3 DEF Asked
<1>6. client.sent[1].type = "hello" <=> ~broker.helloed
  BY <1>1, <1>3 DEF Asked, Wire
<1>7. ASSUME client.sent[1].type = "hello", client.sent[1].resume # None
      PROVE  ~Impossible(broker, client.sent[1].resume)
  <2>1. client.sent[1].resume = client.cursor
    BY <1>1, <1>6, <1>7 DEF Wire
  <2>2. client.cursor \in Cursors /\ Within(broker, client.cursor)
    BY <1>1, <1>7, <2>1 DEF Rung, Clients
  <2>3. ~(broker.seq < client.cursor.seq /\ client.cursor.epoch = broker.epoch)
    BY <1>2, <2>2 DEF Within, Cursors
  <2> QED
    BY <2>1, <2>3 DEF Impossible
<1> QED
  BY <1>3, <1>4, <1>5, <1>6, <1>7

LEMMA PartedAccepts ==
  ASSUME PlaneInv, PartedInv, NEW p \in parting
  PROVE  Accepts([broker EXCEPT !.helloed = p.helloed], Head(p.frames)) \/ LateAck(p.frames)
<1>1. /\ p.helloed \in BOOLEAN /\ p.frames \in Seq(ToServer) /\ p.frames # <<>>
      /\ Parted(broker, p.helloed, p.frames) /\ broker \in Brokers
  BY DEF PartedInv, Partings, PlaneInv, Plane
<1>2. PICK f, h, b : f = p.frames /\ h = p.helloed /\ b = [broker EXCEPT !.helloed = h]
  OBVIOUS
<1>3. /\ b.helloed = h /\ b.epoch = broker.epoch /\ b.seq = broker.seq
      /\ b.epoch \in Nat /\ b.seq \in Nat
  BY <1>1, <1>2 DEF Brokers
<1>4. /\ Head(f) = f[1] /\ f[1] \in ToServer /\ 1 \in DOMAIN f
  BY <1>1, <1>2, Shortened
<1>5. f[1].type \in {"hello", "subscribe", "ack"}
  BY <1>4 DEF ToServer
<1>6. CASE f[1].type = "hello"
  <2>1. ~h /\ (f[1].resume # None => Within(broker, f[1].resume))
    BY <1>1, <1>2, <1>4, <1>6 DEF Parted
  <2>2. f[1].resume # None => f[1].resume \in Cursors
    BY <1>4, <1>6 DEF ToServer
  <2>3. f[1].resume # None => ~Impossible(b, f[1].resume)
    BY <1>3, <2>1, <2>2 DEF Within, Impossible, Cursors
  <2>4. Accepts(b, f[1])
    BY <1>3, <1>6, <2>1, <2>3 DEF Accepts
  <2> QED
    BY <1>2, <1>4, <2>4
<1>7. CASE f[1].type = "subscribe"
  <2>1. h
    BY <1>1, <1>2, <1>7 DEF Parted
  <2>2. Accepts(b, f[1])
    BY <1>3, <1>7, <2>1 DEF Accepts
  <2> QED
    BY <1>2, <1>4, <2>2
<1>8. CASE f[1].type = "ack"
  <2>1. h
    BY <1>1, <1>2, <1>8 DEF Parted
  <2>2. CASE AckValid(broker, f[1])
    <3>1. AckValid(b, f[1])
      BY <1>3, <2>2 DEF AckValid
    <3>2. Accepts(b, f[1])
      BY <1>3, <1>8, <2>1, <3>1 DEF Accepts
    <3> QED
      BY <1>2, <1>4, <3>2
  <2>3. CASE 1 = Len(f) /\ f[1].epoch < broker.epoch
    BY <1>2, <1>4, <1>8, <2>3 DEF LateAck
  <2> QED
    BY <1>1, <1>2, <1>4, <1>8, <2>2, <2>3 DEF Parted
<1> QED
  BY <1>5, <1>6, <1>7, <1>8

LEMMA PlaneAccepted == PlaneInv /\ PartedInv => NeverRefused
<1> SUFFICES ASSUME PlaneInv, PartedInv PROVE NeverRefused
  OBVIOUS
<1>1. ASSUME broker.attached, client.sent # <<>>
      PROVE  Accepts(broker, Head(client.sent))
  <2>1. PICK m : m = Head(client.sent)
    OBVIOUS
  <2>2. /\ m.type \in {"hello", "subscribe", "ack"}
        /\ m.type = "hello" => ~broker.helloed /\ (m.resume # None => ~Impossible(broker, m.resume))
        /\ m.type = "subscribe" => broker.helloed
        /\ m.type = "ack" => broker.helloed /\ AckValid(broker, m)
    BY <1>1, <2>1, PlaneAccepts
  <2>3. CASE m.type = "hello"
    BY <2>1, <2>2, <2>3 DEF Accepts
  <2>4. CASE m.type = "subscribe"
    BY <2>1, <2>2, <2>4 DEF Accepts
  <2>5. CASE m.type = "ack"
    BY <2>1, <2>2, <2>5 DEF Accepts
  <2> QED
    BY <2>2, <2>3, <2>4, <2>5
<1> QED
  BY <1>1, PartedAccepts DEF NeverRefused

LEMMA PlaneLosesNothing == PlaneInv => NothingLost
<1> SUFFICES ASSUME PlaneInv, Settled, NEW t \in owed
             PROVE  t \in client.dirty
  BY DEF NothingLost
<1>1. Safe(broker, client, t) /\ Wire(broker, client, owed, covered)
  BY DEF PlaneInv, Plane
<1>2. broker.helloed /\ DOMAIN broker.sent = {}
  BY <1>1 DEF Settled, Wire
<1> QED
  BY <1>1, <1>2 DEF Safe

-----------------------------------------------------------------------------
(* The connection is cut after k of the frames that were sent. *)
LEMMA CutKeeps ==
  ASSUME NEW b, NEW c, NEW o, NEW v, Plane(b, c, o, v), b.attached,
         NEW k \in 0 .. Len(b.sent)
  PROVE  Plane(CutAt(b, k), c, o, v)
<1> DEFINE d == CutAt(b, k)
           close == [type |-> "close"]
<1>1. /\ b \in Brokers /\ c \in Clients /\ o \subseteq Topics /\ v \subseteq Topics
      /\ Wire(b, c, o, v) /\ Asked(b, c) /\ Rung(b, c) /\ Ordered(b, c) /\ News(b, c) /\ Held(b)
      /\ Books(b, c, o, v) /\ Scheduled(c)
      /\ \A t \in o : Safe(b, c, t)
  BY DEF Plane
<1>2. b.sent \in Seq(ToClient) /\ Len(b.sent) \in Nat /\ k \in Nat /\ k <= Len(b.sent)
  BY <1>1 DEF Brokers
<1>3. close \in ToClient /\ close.type = "close"
  BY DEF ToClient
<1> HIDE DEF close
<1>4. /\ SubSeq(b.sent, 1, k) \in Seq(ToClient) /\ Len(SubSeq(b.sent, 1, k)) = k
      /\ \A p \in 1 .. k : SubSeq(b.sent, 1, k)[p] = b.sent[p]
  BY <1>2, SubSeqProperties
<1>5. /\ d.epoch = b.epoch /\ d.seq = b.seq /\ d.ring = b.ring
      /\ d.attached = FALSE /\ d.helloed = FALSE /\ d.topics = {}
      /\ d.sent = Append(SubSeq(b.sent, 1, k), close)
      /\ d \in Brokers
  <2>1. Append(SubSeq(b.sent, 1, k), close) \in Seq(ToClient)
    BY <1>3, <1>4, AppendProperties
  <2> QED
    BY <1>1, <2>1 DEF Brokers, CutAt, Refuse, Forget, close
<1>6. /\ DOMAIN d.sent = 1 .. (k + 1) /\ DOMAIN b.sent = 1 .. Len(b.sent)
      /\ \A p \in 1 .. k : d.sent[p] = b.sent[p]
      /\ d.sent[k + 1] = close
  <2> DEFINE s == SubSeq(b.sent, 1, k)
  <2>1. s \in Seq(ToClient) /\ Len(s) = k /\ \A p \in 1 .. k : s[p] = b.sent[p]
    BY <1>4
  <2>2. d.sent = Append(s, close)
    BY <1>5
  <2> HIDE DEF s, d
  <2>3. /\ DOMAIN d.sent = 1 .. (k + 1)
        /\ \A p \in 1 .. k : d.sent[p] = b.sent[p]
        /\ d.sent[k + 1] = close
    BY <1>3, <2>1, <2>2, Appended
  <2>4. DOMAIN b.sent = 1 .. Len(b.sent)
    BY <1>2
  <2> QED
    BY <2>3, <2>4
<1> HIDE DEF d
<1>7. \A p \in DOMAIN d.sent : \/ p \in 1 .. k /\ p \in DOMAIN b.sent /\ d.sent[p] = b.sent[p] /\ p < k + 1
                               \/ p = k + 1 /\ d.sent[p].type = "close"
  BY <1>2, <1>3, <1>6
<1>8. Oldest(d) = Oldest(b)
  BY <1>5 DEF Oldest
<1>9. \A p \in DOMAIN b.sent : b.sent[p].type # "close"
  BY <1>1 DEF Ordered
<1>10. Wire(d, c, o, v)
  BY <1>1, <1>5 DEF Wire
<1>11. Asked(d, c)
  BY <1>1, <1>5 DEF Asked
<1>12. Rung(d, c)
  BY <1>1, <1>5 DEF Rung, Within
<1>13. Ordered(d, c)
  <2>1. ASSUME NEW p \in DOMAIN d.sent, d.sent[p].type = "close"
        PROVE  ~d.attached /\ \A r \in DOMAIN d.sent : p < r => d.sent[r].type = "close"
    BY <1>2, <1>5, <1>6, <1>7, <1>9, <2>1
  <2>2. ASSUME NEW p \in DOMAIN d.sent, d.sent[p].type # "close"
        PROVE  Within(d, d.sent[p])
    BY <1>1, <1>5, <1>7, <2>2 DEF Ordered, Within
  <2>3. ASSUME NEW r \in DOMAIN d.sent, d.sent[r].type = "invalidate",
               NEW p \in DOMAIN d.sent, p < r
        PROVE  d.sent[p].type # "close" /\ d.sent[p].epoch = d.sent[r].epoch /\ d.sent[p].seq < d.sent[r].seq
    <3>1. r \in DOMAIN b.sent /\ d.sent[r] = b.sent[r] /\ r < k + 1 /\ r \in 1 .. k
      BY <1>7, <2>3
    <3>2. p \in DOMAIN b.sent /\ d.sent[p] = b.sent[p]
      BY <1>2, <1>6, <1>7, <2>3, <3>1
    <3> QED
      BY <1>1, <2>3, <3>1, <3>2 DEF Ordered
  <2> QED
    BY <1>5, <2>1, <2>2, <2>3 DEF Ordered
<1>14. News(d, c)
  BY <1>1, <1>5, <1>7 DEF News
<1>15. Held(d)
  BY <1>5 DEF Held
<1>16. Books(d, c, o, v)
  BY <1>1, <1>5 DEF Books
<1>17. ASSUME NEW t \in o
       PROVE  Safe(d, c, t)
  <2>1. CASE t \in c.dirty
    BY <2>1 DEF Safe
  <2>2. CASE /\ ~b.helloed
             /\ c.cursor # None => Recoverable(b, c.cursor, t)
             /\ \A p \in DOMAIN b.sent : b.sent[p].type # "close" => Recoverable(b, b.sent[p], t)
    BY <1>5, <1>7, <1>8, <2>2 DEF Safe, Recoverable
  <2>3. ASSUME NEW p \in DOMAIN b.sent, Carries(b.sent[p], t)
        PROVE  Safe(d, c, t)
    <3>1. CASE p \in 1 .. k
      BY <1>6, <2>3, <3>1 DEF Safe
    <3>2. CASE ~(p \in 1 .. k) /\ b.sent[p].type = "resync"
      <4>1. p = 1 /\ k = 0 /\ (c.cursor # None => Recoverable(b, c.cursor, t))
        BY <1>1, <1>2, <1>6, <3>2 DEF News, Recoverable
      <4>2. \A r \in DOMAIN d.sent : d.sent[r].type = "close"
        BY <1>7, <4>1
      <4> QED
        BY <1>5, <1>8, <4>1, <4>2 DEF Safe, Recoverable
    <3>3. CASE ~(p \in 1 .. k) /\ b.sent[p].type = "invalidate"
      <4> DEFINE m == b.sent[p]
      <4>1. m.topic = t /\ m \in Invalidation
        <5>1. m \in ToClient
          BY <1>2
        <5> QED
          BY <2>3, <3>3, <5>1 DEF Carries, ToClient
      <4>2. m.seq < Oldest(b) \/ \E s \in DOMAIN b.ring : b.ring[s].topic = t /\ b.ring[s].seq = m.seq
        BY <1>1, <3>3, <4>1 DEF Held
      <4>3. ~Seen(c, m) /\ m.epoch = b.epoch
        BY <1>1, <3>3 DEF News, Ordered
      <4>4. \A q \in 1 .. k : b.sent[q].epoch = m.epoch /\ b.sent[q].seq < m.seq
        <5>1. \A q \in 1 .. k : q \in DOMAIN b.sent /\ q < p
          BY <1>2, <1>6, <3>3
        <5> QED
          BY <1>1, <3>3, <5>1 DEF Ordered
      <4>5. m.seq \in Nat /\ m.epoch \in Nat
        BY <4>1 DEF Invalidation
      <4> HIDE DEF m
      <4>6. ASSUME NEW x, x.seq \in Nat, x.epoch # b.epoch \/ x.seq < m.seq
            PROVE  Recoverable(d, x, t)
        <5>1. Oldest(b) \in Nat
          <6>1. b.seq \in Nat /\ b.ring \in Seq(Invalidation)
            BY <1>1 DEF Brokers
          <6>2. b.ring # <<>> => Head(b.ring) \in Invalidation
            BY <6>1
          <6> QED
            BY <6>1, <6>2 DEF Oldest, Invalidation
        <5>2. CASE x.epoch # b.epoch
          BY <1>5, <5>2 DEF Recoverable
        <5>3. CASE x.seq < m.seq /\ m.seq < Oldest(b)
          BY <1>8, <4>5, <4>6, <5>1, <5>3 DEF Recoverable
        <5>4. CASE x.seq < m.seq /\ \E s \in DOMAIN b.ring : b.ring[s].topic = t /\ b.ring[s].seq = m.seq
          BY <1>5, <4>5, <4>6, <5>4 DEF Recoverable
        <5> QED
          BY <4>2, <4>6, <5>2, <5>3, <5>4
      <4>7. c.cursor # None => Recoverable(d, c.cursor, t)
        <5> SUFFICES ASSUME c.cursor # None PROVE Recoverable(d, c.cursor, t)
          OBVIOUS
        <5>1. c.cursor \in Cursors
          BY <1>1 DEF Clients
        <5>2. c.cursor.seq \in Nat /\ (c.cursor.epoch = m.epoch => c.cursor.seq < m.seq)
          BY <4>3, <4>5, <5>1 DEF Seen, Cursors
        <5> QED
          BY <4>3, <4>6, <5>2
      <4>8. ASSUME NEW q \in DOMAIN d.sent, d.sent[q].type # "close"
            PROVE  Recoverable(d, d.sent[q], t)
        <5>1. q \in 1 .. k /\ d.sent[q] = b.sent[q] /\ b.sent[q] \in ToClient
          BY <1>2, <1>7, <4>8
        <5>2. d.sent[q].seq \in Nat
          BY <4>8, <5>1 DEF ToClient, Invalidation
        <5> QED
          BY <4>4, <4>6, <5>1, <5>2
      <4> QED
        BY <1>5, <4>7, <4>8 DEF Safe
    <3> QED
      BY <2>3, <3>1, <3>2, <3>3 DEF Carries
  <2> QED
    BY <1>1, <2>1, <2>2, <2>3 DEF Safe
<1> QED
  BY <1>1, <1>5, <1>10, <1>11, <1>12, <1>13, <1>14, <1>15, <1>16, <1>17 DEF Plane, d

-----------------------------------------------------------------------------
(* The broker takes a message of a client it has had the hello of. *)
LEMMA TakeKeeps ==
  ASSUME NEW b, NEW c, NEW o, NEW v, Plane(b, c, o, v), b.helloed, c.sent # <<>>
  PROVE  Plane(b, Taken(c), o, v)
<1> DEFINE d == Taken(c)
<1>1. /\ b \in Brokers /\ c \in Clients /\ o \subseteq Topics /\ v \subseteq Topics
      /\ Wire(b, c, o, v) /\ Asked(b, c) /\ Rung(b, c) /\ Ordered(b, c) /\ News(b, c) /\ Held(b)
      /\ Books(b, c, o, v) /\ Scheduled(c)
      /\ \A t \in o : Safe(b, c, t)
  BY DEF Plane
<1>2. c.sent \in Seq(ToServer)
  BY <1>1 DEF Clients
<1>3. /\ d.listening = c.listening /\ d.capability = c.capability /\ d.state = c.state
      /\ d.socket = c.socket /\ d.ready = c.ready /\ d.cursor = c.cursor
      /\ d.barrier = c.barrier /\ d.dirty = c.dirty /\ d.timers = c.timers
      /\ d.visible = c.visible /\ d.sent = Tail(c.sent) /\ d \in Clients
  <2>1. Tail(c.sent) \in Seq(ToServer)
    BY <1>2
  <2> QED
    BY <1>1, <2>1 DEF Clients, Taken
<1> HIDE DEF d
<1>4. \A p \in DOMAIN d.sent : p + 1 \in DOMAIN c.sent /\ p + 1 # 1 /\ d.sent[p] = c.sent[p + 1]
  BY <1>2, <1>3, Shortened
<1>5. Wire(b, d, o, v) /\ Books(b, d, o, v) /\ Scheduled(d)
  BY <1>1, <1>3 DEF Wire, Books, Scheduled, Primary
<1>6. Asked(b, d)
  BY <1>1, <1>3, <1>4 DEF Asked
<1>7. Rung(b, d) /\ Ordered(b, d) /\ News(b, d) /\ \A t \in o : Safe(b, d, t)
  BY <1>1, <1>3 DEF Rung, Ordered, News, Safe, Seen
<1> QED
  BY <1>1, <1>3, <1>5, <1>6, <1>7 DEF Plane, d

(* A complete replacement of the topics, answered with a barrier. *)
LEMMA ReplaceKeeps ==
  ASSUME NEW b, NEW c, NEW o, NEW v, Plane(b, c, o, v), b.helloed,
         NEW T \in SUBSET Topics
  PROVE  Plane(Replaced(b, T), c, o, T \intersect c.listening)
<1> DEFINE m == Barrier(b, T)
           d == Replaced(b, T)
<1>1. /\ b \in Brokers /\ c \in Clients /\ o \subseteq Topics /\ v \subseteq Topics
      /\ Wire(b, c, o, v) /\ Asked(b, c) /\ Rung(b, c) /\ Ordered(b, c) /\ News(b, c) /\ Held(b)
      /\ Books(b, c, o, v) /\ Scheduled(c)
      /\ \A t \in o : Safe(b, c, t)
  BY DEF Plane
<1>2. b.sent \in Seq(ToClient) /\ b.epoch \in Nat /\ b.seq \in Nat /\ b.attached
  BY <1>1 DEF Brokers, Wire
<1>3. m \in ToClient /\ m.type = "ready" /\ m.epoch = b.epoch /\ m.seq = b.seq
  BY <1>2 DEF ToClient, Barrier
<1> HIDE DEF m
<1>4. Append(b.sent, m) \in Seq(ToClient)
  BY <1>2, <1>3, Appended
<1>5. /\ d.epoch = b.epoch /\ d.seq = b.seq /\ d.ring = b.ring
      /\ d.attached = b.attached /\ d.helloed = b.helloed /\ d.topics = T
      /\ d.sent = Append(b.sent, m) /\ d \in Brokers
  BY <1>1, <1>4 DEF Brokers, Replaced, m
<1> HIDE DEF d
<1>6. Oldest(d) = Oldest(b)
  BY <1>5 DEF Oldest
<1>7. /\ \A p \in DOMAIN b.sent : p \in DOMAIN d.sent /\ d.sent[p] = b.sent[p] /\ p < Len(b.sent) + 1
      /\ \A p \in DOMAIN d.sent : p \in DOMAIN b.sent \/ (p = Len(b.sent) + 1 /\ d.sent[p] = m)
      /\ \A p, r \in DOMAIN d.sent : p < r => p \in DOMAIN b.sent
  BY <1>2, <1>3, <1>5, Appended
<1>8. Wire(d, c, o, T \intersect c.listening) /\ Asked(d, c) /\ Rung(d, c)
      /\ Books(d, c, o, T \intersect c.listening)
  BY <1>1, <1>2, <1>5 DEF Wire, Asked, Rung, Books, AckValid, Within
<1>9. Ordered(d, c)
  <2>1. \A p \in DOMAIN d.sent : d.sent[p].type # "close"
    BY <1>1, <1>2, <1>3, <1>7 DEF Ordered
  <2>2. \A p \in DOMAIN d.sent : Within(d, d.sent[p]) /\ d.sent[p].epoch = d.epoch
    BY <1>1, <1>2, <1>3, <1>5, <1>7 DEF Ordered, Within
  <2>3. ASSUME NEW r \in DOMAIN d.sent, d.sent[r].type = "invalidate",
               NEW p \in DOMAIN d.sent, p < r
        PROVE  d.sent[p].seq < d.sent[r].seq
    BY <1>1, <1>3, <1>7, <2>3 DEF Ordered
  <2> QED
    BY <2>1, <2>2, <2>3 DEF Ordered
<1>10. News(d, c)
  BY <1>1, <1>3, <1>5, <1>6, <1>7 DEF News
<1>11. Held(d)
  <2> SUFFICES ASSUME NEW r \in DOMAIN d.sent, d.sent[r].type = "invalidate"
               PROVE  \/ d.sent[r].seq < Oldest(b)
                      \/ \E s \in DOMAIN b.ring : b.ring[s].topic = d.sent[r].topic /\ b.ring[s].seq = d.sent[r].seq
    BY <1>5, <1>6 DEF Held
  <2>1. r \in DOMAIN b.sent /\ d.sent[r] = b.sent[r]
    BY <1>3, <1>7
  <2> QED
    BY <1>1, <1>2, <2>1 DEF Held
<1>12. \A t \in o : Safe(d, c, t)
  BY <1>1, <1>5, <1>7 DEF Safe
<1> QED
  BY <1>1, <1>5, <1>8, <1>9, <1>10, <1>11, <1>12 DEF Plane, d

(* The hello is answered with f, which says what the client has missed, and a  *)
(* barrier.                                                                    *)
LEMMA HelloKeeps ==
  ASSUME NEW b, NEW c, NEW o, NEW v, Plane(b, c, o, v), b.attached, ~b.helloed,
         NEW m, m = c.sent[1],
         NEW q \in SUBSET o, NEW f \in Seq(ToClient), Answers(b, c, q, f)
  PROVE  Plane(Answered(b, m.topics, f), Taken(c), q, m.topics \intersect c.listening)
<1> DEFINE d == Answered(b, m.topics, f)
           e == Taken(c)
           n == Barrier(b, m.topics)
<1>1. /\ b \in Brokers /\ c \in Clients /\ o \subseteq Topics /\ v \subseteq Topics
      /\ Wire(b, c, o, v) /\ Asked(b, c) /\ Rung(b, c) /\ Ordered(b, c) /\ News(b, c) /\ Held(b)
      /\ Books(b, c, o, v) /\ Scheduled(c)
  BY DEF Plane
<1>2. /\ b.epoch \in Nat /\ b.seq \in Nat /\ c.sent \in Seq(ToServer) /\ c.sent # <<>>
      /\ m.type = "hello" /\ c.socket = "open" /\ "ack" \notin c.timers
  BY <1>1 DEF Brokers, Clients, Wire, Asked
<1>3. m.topics \in SUBSET Topics
  <2>1. m \in ToServer
    BY <1>2, Shortened
  <2> QED
    BY <1>2, <2>1 DEF ToServer
<1>4. n \in ToClient /\ n.type = "ready" /\ n.epoch = b.epoch /\ n.seq = b.seq
  BY <1>2, <1>3 DEF ToClient, Barrier
<1> HIDE DEF n
<1>5. Append(f, n) \in Seq(ToClient)
  BY <1>4, Appended
<1>6. /\ d.epoch = b.epoch /\ d.seq = b.seq /\ d.ring = b.ring
      /\ d.attached = TRUE /\ d.helloed = TRUE /\ d.topics = m.topics
      /\ d.sent = Append(f, n) /\ d \in Brokers
  BY <1>1, <1>3, <1>5 DEF Brokers, Answered, n
<1>7. /\ e.listening = c.listening /\ e.capability = c.capability /\ e.state = c.state
      /\ e.socket = c.socket /\ e.ready = c.ready /\ e.cursor = c.cursor
      /\ e.barrier = c.barrier /\ e.dirty = c.dirty /\ e.timers = c.timers
      /\ e.visible = c.visible /\ e.sent = Tail(c.sent) /\ e \in Clients
  <2>1. Tail(c.sent) \in Seq(ToServer)
    BY <1>2
  <2> QED
    BY <1>1, <2>1 DEF Clients, Taken
<1> HIDE DEF d, e
<1>8. Oldest(d) = Oldest(b)
  BY <1>6 DEF Oldest
<1>9. /\ \A p \in DOMAIN f : p \in DOMAIN d.sent /\ d.sent[p] = f[p] /\ p < Len(f) + 1
      /\ \A p \in DOMAIN d.sent : p \in DOMAIN f \/ (p = Len(f) + 1 /\ d.sent[p] = n)
      /\ \A p, r \in DOMAIN d.sent : p < r => p \in DOMAIN f
  BY <1>4, <1>6, Appended
<1>10. \A p \in DOMAIN e.sent : p + 1 \in DOMAIN c.sent /\ p + 1 # 1 /\ e.sent[p] = c.sent[p + 1]
  BY <1>2, <1>7, Shortened
<1>11. Wire(d, e, q, m.topics \intersect c.listening)
  BY <1>1, <1>2, <1>6, <1>7 DEF Wire
<1>12. Books(d, e, q, m.topics \intersect c.listening) /\ Scheduled(e)
  BY <1>1, <1>6, <1>7 DEF Books, Scheduled, Primary
<1>13. Asked(d, e)
  BY <1>1, <1>2, <1>6, <1>7, <1>10 DEF Asked, AckValid
<1>14. Rung(d, e)
  BY <1>1, <1>6, <1>7 DEF Rung, Within
<1>15. Ordered(d, e)
  <2>1. \A p \in DOMAIN d.sent : d.sent[p].type # "close"
    BY <1>4, <1>9 DEF Answers
  <2>2. \A p \in DOMAIN d.sent : Within(d, d.sent[p]) /\ d.sent[p].epoch = d.epoch
    BY <1>2, <1>4, <1>6, <1>9 DEF Within, Answers
  <2>3. ASSUME NEW r \in DOMAIN d.sent, d.sent[r].type = "invalidate",
               NEW p \in DOMAIN d.sent, p < r
        PROVE  d.sent[p].seq < d.sent[r].seq
    BY <1>4, <1>9, <2>3 DEF Answers
  <2> QED
    BY <2>1, <2>2, <2>3 DEF Ordered
<1>16. News(d, e)
  <2>1. ASSUME NEW r \in DOMAIN d.sent, d.sent[r].type = "invalidate"
        PROVE  ~Seen(e, d.sent[r])
    <3>1. r \in DOMAIN f /\ d.sent[r] = f[r]
      BY <1>4, <1>9, <2>1
    <3> QED
      BY <1>7, <2>1, <3>1 DEF Seen, Answers
  <2>2. ASSUME NEW r \in DOMAIN d.sent, d.sent[r].type = "resync"
        PROVE  /\ r = 1
               /\ e.cursor # None /\ (e.cursor.epoch = d.epoch => e.cursor.seq + 1 < Oldest(d))
    BY <1>4, <1>6, <1>7, <1>8, <1>9, <2>2 DEF Answers
  <2> QED
    BY <2>1, <2>2 DEF News
<1>17. Held(d)
  BY <1>4, <1>6, <1>9 DEF Held, Answers
<1>18. \A t \in q : Safe(d, e, t)
  BY <1>7, <1>9 DEF Safe, Answers
<1>19. q \subseteq Topics /\ m.topics \intersect c.listening \subseteq Topics
  BY <1>1, <1>3
<1> QED
  BY <1>6, <1>7, <1>11, <1>12, <1>13, <1>14, <1>15, <1>16, <1>17, <1>18, <1>19 DEF Plane, d, e

-----------------------------------------------------------------------------
(* What holds when every frame goes out holds wherever the broker gives up. *)
LEMMA DeliveredKeeps ==
  ASSUME NEW b \in Brokers, NEW frames \in Seq(ToClient), b.attached, NEW x \in Deliver(b, frames),
         NEW c, NEW o, NEW v, Plane(AllSent(b, frames), c, o, v)
  PROVE  Plane(x, c, o, v)
<1> DEFINE all == b.sent \o frames
<1>1. b.sent \in Seq(ToClient) /\ all \in Seq(ToClient)
  BY DEF Brokers
<1> HIDE DEF all
<1>2. PICK full : full = AllSent(b, frames)
  OBVIOUS
<1>3. full = [b EXCEPT !.sent = all] /\ full.sent = all /\ full.attached
  BY <1>2 DEF all, Brokers, AllSent
<1>4. x = full \/ \E n \in Len(b.sent) .. Len(all) - 1 : x = Refuse([b EXCEPT !.sent = SubSeq(all, 1, n)])
  BY <1>3 DEF Deliver, all
<1>5. ASSUME NEW n \in Len(b.sent) .. Len(all) - 1, x = Refuse([b EXCEPT !.sent = SubSeq(all, 1, n)])
      PROVE  Plane(x, c, o, v)
  <2>1. n \in 0 .. Len(full.sent)
    BY <1>1, <1>3
  <2>2. [full EXCEPT !.sent = SubSeq(@, 1, n)] = [b EXCEPT !.sent = SubSeq(all, 1, n)]
    BY <1>3
  <2>3. Plane(CutAt(full, n), c, o, v)
    BY <1>2, <1>3, <2>1, CutKeeps
  <2> QED
    BY <1>5, <2>2, <2>3 DEF CutAt
<1> QED
  BY <1>2, <1>4, <1>5

LEMMA ReplaysMissed ==
  ASSUME NEW b \in Brokers, NEW x, NEW f \in Replays(b, x)
  PROVE  /\ f \in Seq(Invalidation)
         /\ \A p \in DOMAIN f : /\ \E r \in DOMAIN b.ring : b.ring[r] = f[p]
                                /\ f[p].seq > x.seq
         /\ \A p, r \in DOMAIN f : p < r => f[p].seq < f[r].seq
         /\ \A r \in DOMAIN b.ring : b.ring[r].seq > x.seq /\ b.ring[r].topic \in b.topics =>
              \E p \in DOMAIN f : f[p] = b.ring[r]
<1> DEFINE missed == {r \in Range(b.ring) : r.seq > x.seq /\ r.topic \in b.topics}
<1>1. /\ f \in [1 .. Cardinality(missed) -> missed] /\ Range(f) = missed
      /\ \A k, n \in DOMAIN f : k < n => f[k].seq < f[n].seq
  BY DEF Replays
<1>2. b.ring \in Seq(Invalidation) /\ DOMAIN b.ring = 1 .. Len(b.ring) /\ Len(b.ring) \in Nat
  BY DEF Brokers
<1>3. Range(b.ring) = {b.ring[r] : r \in 1 .. Len(b.ring)}
  BY <1>2 DEF Range
<1>4. IsFiniteSet(Range(b.ring)) /\ Range(b.ring) \subseteq Invalidation
  <2>1. IsFiniteSet(1 .. Len(b.ring))
    BY <1>2, FS_Interval
  <2>2. b.ring \in Surjection(1 .. Len(b.ring), Range(b.ring))
    BY <1>2, <1>3 DEF Surjection
  <2>3. IsFiniteSet(Range(b.ring))
    BY <2>1, <2>2, FS_Surjection
  <2> QED
    BY <1>2, <1>3, <2>3
<1>5. missed \subseteq Invalidation /\ Cardinality(missed) \in Nat
  <2>1. missed \in SUBSET Range(b.ring)
    OBVIOUS
  <2>2. IsFiniteSet(missed)
    BY <1>4, <2>1, FS_Subset
  <2> QED
    BY <1>4, <2>2, FS_CardinalityType
<1>6. \A p \in DOMAIN f : f[p] \in missed
  BY <1>1
<1>7. f \in Seq(Invalidation)
  <2>1. PICK n : n = Cardinality(missed)
    OBVIOUS
  <2> HIDE DEF missed
  <2>2. n \in Nat /\ f \in [1 .. n -> Invalidation]
    BY <1>1, <1>5, <2>1
  <2> QED
    BY <2>2
<1>8. \A p \in DOMAIN f : /\ \E r \in DOMAIN b.ring : b.ring[r] = f[p]
                          /\ f[p].seq > x.seq
  BY <1>6 DEF Range
<1>9. ASSUME NEW r \in DOMAIN b.ring, b.ring[r].seq > x.seq, b.ring[r].topic \in b.topics
      PROVE  \E p \in DOMAIN f : f[p] = b.ring[r]
  <2>1. b.ring[r] \in Range(f)
    BY <1>1, <1>9 DEF Range
  <2> QED
    BY <2>1 DEF Range
<1> QED
  BY <1>1, <1>7, <1>8, <1>9

(* Once the answer is right, every way the broker may send it is. *)
LEMMA HelloSent ==
  ASSUME NEW b, NEW c, NEW o, NEW v, Plane(b, c, o, v), b.attached, ~b.helloed,
         NEW m, m = c.sent[1], m.topics \in SUBSET Topics, NEW h \in Brokers,
         h = [b EXCEPT !.helloed = TRUE, !.topics = m.topics],
         NEW q \in SUBSET o, NEW f \in Seq(ToClient), Answers(b, c, q, f),
         NEW x \in Deliver(h, Append(f, Ready(h)))
  PROVE  Plane(x, Taken(c), q, m.topics \intersect c.listening)
<1>1. b \in Brokers /\ b.sent = <<>> /\ b.epoch \in Nat /\ b.seq \in Nat
  BY DEF Plane, Wire, Brokers
<1>2. PICK n : n = Barrier(b, m.topics)
  OBVIOUS
<1>3. /\ h.attached /\ h.sent = <<>> /\ h.epoch = b.epoch /\ h.seq = b.seq /\ h.topics = m.topics
      /\ Ready(h) = n
  BY <1>1, <1>2 DEF Brokers, Ready, Barrier
<1>4. n \in ToClient
  BY <1>1, <1>2 DEF Barrier, ToClient
<1>5. PICK a : a = Append(f, n)
  OBVIOUS
<1>6. a \in Seq(ToClient)
  BY <1>4, <1>5, Appended
<1>7. h.sent \o a = a
  BY <1>3, <1>6, ConcatEmptySeq
<1>8. AllSent(h, a) = Answered(b, m.topics, f)
  <2>1. AllSent(h, a) = [h EXCEPT !.sent = a]
    BY <1>7 DEF AllSent
  <2>2. [h EXCEPT !.sent = a] = [b EXCEPT !.helloed = TRUE, !.topics = m.topics, !.sent = a]
    BY <1>1 DEF Brokers
  <2> QED
    BY <1>2, <1>5, <2>1, <2>2 DEF Answered
<1>9. Plane(AllSent(h, a), Taken(c), q, m.topics \intersect c.listening)
  <2>1. Plane(Answered(b, m.topics, f), Taken(c), q, m.topics \intersect c.listening)
    BY HelloKeeps
  <2> QED
    BY <1>8, <2>1
<1>10. x \in Deliver(h, a)
  BY <1>3, <1>5
<1> QED
  BY <1>3, <1>6, <1>9, <1>10, DeliveredKeeps

LEMMA HelloAnswered ==
  ASSUME NEW b, NEW c, NEW o, NEW v, Plane(b, c, o, v), b.attached, ~b.helloed,
         NEW m, m = c.sent[1], NEW x \in Hello(b, m),
         m.resume # None => ~Impossible(b, m.resume)
  PROVE  Plane(x, Taken(c), IF m.resume = None THEN {} ELSE o, m.topics \intersect c.listening)
<1>1. /\ b \in Brokers /\ c \in Clients /\ Wire(b, c, o, v) /\ Rung(b, c)
      /\ Asked(b, c) /\ \A t \in o : Safe(b, c, t)
  BY DEF Plane
<1>2. /\ b.sent = <<>> /\ m.type = "hello" /\ m.resume = c.cursor /\ o \subseteq m.topics
      /\ m \in ToServer /\ b.epoch \in Nat /\ b.seq \in Nat /\ b.ring \in Seq(Invalidation)
  <2>1. c.sent \in Seq(ToServer) /\ c.sent # <<>>
    BY <1>1 DEF Clients, Wire
  <2>2. m \in ToServer
    BY <2>1, Shortened
  <2> QED
    BY <1>1, <2>2 DEF Wire, Brokers
<1>3. m.topics \in SUBSET Topics
  BY <1>2 DEF ToServer
<1>4. PICK h : h = [b EXCEPT !.helloed = TRUE, !.topics = m.topics]
  OBVIOUS
<1>5. /\ h \in Brokers /\ h.epoch = b.epoch /\ h.seq = b.seq
      /\ h.ring = b.ring /\ h.topics = m.topics
  BY <1>1, <1>3, <1>4 DEF Brokers
<1>6. Oldest(h) = Oldest(b)
  BY <1>5 DEF Oldest
<1>7. CASE m.resume = None
  <2>1. PICK f : f = <<>>
    OBVIOUS
  <2>2. f \in Seq(ToClient) /\ DOMAIN f = {}
    BY <2>1
  <2>3. {} \in SUBSET o /\ Answers(b, c, {}, f)
    BY <2>2 DEF Answers
  <2>4. x \in Deliver(h, Append(f, Ready(h)))
    <3>1. Append(<<>>, Ready(h)) = <<Ready(h)>>
      OBVIOUS
    <3> QED
      BY <1>4, <1>7, <2>1, <3>1 DEF Hello
  <2>5. Plane(x, Taken(c), {}, m.topics \intersect c.listening)
    BY <1>3, <1>4, <1>5, <2>2, <2>3, <2>4, HelloSent
  <2> QED
    BY <1>7, <2>5
<1>8. CASE m.resume # None
  <2>1. /\ c.cursor # None /\ c.cursor \in Cursors /\ c.cursor.epoch \in Nat /\ c.cursor.seq \in Nat
        /\ m.resume = c.cursor
    BY <1>1, <1>2, <1>8 DEF Clients, Cursors
  <2>2. ~Impossible(h, m.resume)
    BY <1>5, <1>8 DEF Impossible
  <2>3. PICK f \in IF Replayable(h, c.cursor) THEN Replays(h, c.cursor) ELSE {<<Resync(h)>>} :
            x \in Deliver(h, Append(f, Ready(h)))
    BY <1>4, <1>8, <2>1, <2>2 DEF Hello
  <2>4. Oldest(b) \in Nat
    <3>1. b.ring # <<>> => Head(b.ring) \in Invalidation
      BY <1>2
    <3> QED
      BY <1>2, <3>1 DEF Oldest, Invalidation
  <2>5. CASE Replayable(h, c.cursor)
    <3>1. c.cursor.epoch = b.epoch /\ c.cursor.seq + 1 >= Oldest(b)
      BY <1>5, <1>6, <2>1, <2>5 DEF Replayable
    <3>2. f \in Replays(h, c.cursor)
      BY <2>3, <2>5
    <3>3. /\ f \in Seq(Invalidation)
          /\ \A p \in DOMAIN f : /\ \E r \in DOMAIN b.ring : b.ring[r] = f[p]
                                 /\ f[p].seq > c.cursor.seq
          /\ \A p, r \in DOMAIN f : p < r => f[p].seq < f[r].seq
          /\ \A r \in DOMAIN b.ring : b.ring[r].seq > c.cursor.seq /\ b.ring[r].topic \in m.topics =>
               \E p \in DOMAIN f : f[p] = b.ring[r]
      BY <1>5, <3>2, ReplaysMissed
    <3>4. f \in Seq(ToClient) /\ \A p \in DOMAIN f : f[p] \in Invalidation
      BY <3>3 DEF ToClient
    <3>5. \A p \in DOMAIN f : f[p].type = "invalidate" /\ f[p].seq \in Nat /\ f[p].epoch \in Nat
      BY <3>4 DEF Invalidation
    <3>6. \A p \in DOMAIN f : f[p].epoch = b.epoch /\ f[p].seq <= b.seq
      BY <1>1, <3>3 DEF Rung
    <3>7. \A p \in DOMAIN f : ~Seen(c, f[p])
      BY <2>1, <3>3, <3>5 DEF Seen
    <3>8. ASSUME NEW t \in o, t \notin c.dirty
          PROVE  \E p \in DOMAIN f : Carries(f[p], t)
      <4>1. DOMAIN b.sent = {}
        BY <1>2
      <4>2. Recoverable(b, c.cursor, t)
        BY <1>1, <2>1, <3>8, <4>1 DEF Safe
      <4>3. ~(c.cursor.seq + 1 < Oldest(b))
        BY <2>1, <2>4, <3>1
      <4>4. PICK r \in DOMAIN b.ring : b.ring[r].topic = t /\ b.ring[r].seq > c.cursor.seq
        BY <3>1, <4>2, <4>3 DEF Recoverable
      <4>5. PICK p \in DOMAIN f : f[p] = b.ring[r]
        BY <1>2, <3>3, <3>8, <4>4
      <4> QED
        BY <3>5, <4>4, <4>5 DEF Carries
    <3>9. Answers(b, c, o, f)
      BY <3>3, <3>5, <3>6, <3>7, <3>8 DEF Answers
    <3>10. Plane(x, Taken(c), o, m.topics \intersect c.listening)
      BY <1>3, <1>4, <1>5, <2>3, <3>4, <3>9, HelloSent
    <3> QED
      BY <1>8, <3>10
  <2>6. CASE ~Replayable(h, c.cursor)
    <3>1. f = <<Resync(h)>>
      BY <2>3, <2>6
    <3>2. c.cursor.epoch = b.epoch => c.cursor.seq + 1 < Oldest(b)
      BY <1>5, <1>6, <2>1, <2>4, <2>6 DEF Replayable
    <3>3. PICK y : y = Resync(h)
      OBVIOUS
    <3>4. /\ y \in ToClient /\ y.type = "resync" /\ y.epoch = b.epoch /\ y.seq = b.seq
          /\ y.topics = m.topics
      BY <1>2, <1>3, <1>5, <3>3 DEF Resync, ToClient
    <3>5. f \in Seq(ToClient) /\ DOMAIN f = {1} /\ f[1] = y
      BY <3>1, <3>3, <3>4
    <3>6. \A t \in o : \E p \in DOMAIN f : Carries(f[p], t)
      BY <1>2, <3>4, <3>5 DEF Carries
    <3>7. Answers(b, c, o, f)
      BY <1>2, <2>1, <3>2, <3>4, <3>5, <3>6 DEF Answers
    <3>8. Plane(x, Taken(c), o, m.topics \intersect c.listening)
      BY <1>3, <1>4, <1>5, <2>3, <3>5, <3>7, HelloSent
    <3> QED
      BY <1>8, <3>8
  <2> QED
    BY <2>5, <2>6
<1> QED
  BY <1>7, <1>8

LEMMA ServerReceiveStep ==
  ASSUME PlaneInv, ServerReceive
  PROVE  PlaneInv'
<1> DEFINE m == Head(client.sent)
           e == Taken(client)
<1>1. /\ broker.attached /\ client.sent # <<>>
      /\ broker' \in Handle(broker, m)
      /\ covered' = IF m.type = "ack" THEN covered ELSE m.topics \intersect client.listening
      /\ owed' = IF m.type = "hello" /\ m.resume = None THEN {} ELSE owed
      /\ client' = e /\ UNCHANGED <<stale, spent>>
  BY DEF ServerReceive, Taken
<1>2. /\ Plane(broker, client, owed, covered)
      /\ broker \in Brokers /\ client \in Clients /\ Wire(broker, client, owed, covered)
  BY DEF PlaneInv, Plane
<1>3. client.sent \in Seq(ToServer)
  BY <1>2 DEF Clients
<1>4. m = client.sent[1] /\ m \in ToServer /\ m.type \in {"hello", "subscribe", "ack"}
  <2>1. m = client.sent[1] /\ m \in ToServer
    BY <1>1, <1>3, Shortened
  <2> QED
    BY <2>1 DEF ToServer
<1>5. /\ m.type = "hello" => ~broker.helloed /\ (m.resume # None => ~Impossible(broker, m.resume))
      /\ m.type = "subscribe" => broker.helloed
      /\ m.type = "ack" => broker.helloed /\ AckValid(broker, m)
  BY <1>1, PlaneAccepts
<1> HIDE DEF m, e
<1>6. CASE m.type = "hello"
  <2>1. broker' \in Hello(broker, m)
    BY <1>1, <1>5, <1>6 DEF Handle
  <2>2. Plane(broker', e, IF m.resume = None THEN {} ELSE owed, m.topics \intersect client.listening)
    BY <1>1, <1>2, <1>4, <1>5, <1>6, <2>1, HelloAnswered DEF e
  <2>3. Plane(broker', client', owed', covered')
    BY <1>1, <1>6, <2>2
  <2> QED
    BY <1>1, <2>3 DEF PlaneInv
<1>7. CASE m.type = "subscribe"
  <2>1. m.topics \in SUBSET Topics
    BY <1>4, <1>7 DEF ToServer
  <2>2. Plane(broker, e, owed, covered)
    BY <1>1, <1>2, <1>5, <1>7, TakeKeeps DEF e
  <2>3. Plane(Replaced(broker, m.topics), e, owed, m.topics \intersect e.listening)
    BY <1>5, <1>7, <2>1, <2>2, ReplaceKeeps
  <2>4. PICK s : s = [broker EXCEPT !.topics = m.topics]
    OBVIOUS
  <2>5. PICK n : n = Barrier(broker, m.topics)
    OBVIOUS
  <2>6. /\ s \in Brokers /\ s.attached /\ s.sent = broker.sent /\ Ready(s) = n
        /\ n \in ToClient /\ broker.sent \in Seq(ToClient)
    BY <1>1, <1>2, <2>1, <2>4, <2>5 DEF Brokers, Ready, ToClient, Barrier
  <2>7. broker' \in Deliver(s, <<n>>)
    BY <1>1, <1>5, <1>7, <2>4, <2>6 DEF Handle, Replace
  <2>8. AllSent(s, <<n>>) = Replaced(broker, m.topics)
    <3>1. Append(broker.sent, n) = broker.sent \o <<n>>
      BY <2>6, AppendIsConcat
    <3>2. AllSent(s, <<n>>) = [s EXCEPT !.sent = broker.sent \o <<n>>]
      BY <2>6 DEF AllSent
    <3>3. Replaced(broker, m.topics) = [broker EXCEPT !.topics = m.topics, !.sent = broker.sent \o <<n>>]
      BY <2>5, <3>1 DEF Replaced
    <3> QED
      BY <1>2, <2>4, <3>2, <3>3 DEF Brokers
  <2>9. <<n>> \in Seq(ToClient)
    BY <2>6
  <2>10. e.listening = client.listening
    BY <1>2 DEF e, Clients, Taken
  <2>11. Plane(broker', e, owed, m.topics \intersect client.listening)
    BY <2>3, <2>6, <2>7, <2>8, <2>9, <2>10, DeliveredKeeps
  <2>12. Plane(broker', client', owed', covered')
    BY <1>1, <1>7, <2>11
  <2> QED
    BY <1>1, <2>12 DEF PlaneInv
<1>8. CASE m.type = "ack"
  <2>1. broker' = broker
    BY <1>1, <1>5, <1>8 DEF Handle
  <2>2. Plane(broker, e, owed, covered)
    BY <1>1, <1>2, <1>5, <1>8, TakeKeeps DEF e
  <2>3. Plane(broker', client', owed', covered')
    BY <1>1, <1>8, <2>1, <2>2
  <2> QED
    BY <1>1, <2>3 DEF PlaneInv
<1> QED
  BY <1>4, <1>6, <1>7, <1>8

-----------------------------------------------------------------------------
(* A write: the ring takes the invalidation and may push its oldest out. *)
Notice(b, t) == [type |-> "invalidate", epoch |-> b.epoch, seq |-> b.seq + 1, topic |-> t]
Written(b, t) == [b EXCEPT !.seq = @ + 1, !.ring = Kept(Append(@, Notice(b, t)))]

Grown(b, g, m) ==
    /\ g \in Seq(Invalidation)
    /\ \A r \in DOMAIN g : g[r].epoch = b.epoch /\ g[r].seq <= b.seq + 1
    /\ \A r, s \in DOMAIN g : r < s => g[r].seq < g[s].seq
    /\ \E r \in DOMAIN g : g[r] = m
    /\ g # <<>> /\ Head(g).seq \in Nat /\ Oldest(b) \in Nat /\ Oldest(b) <= Head(g).seq
    /\ \A s \in DOMAIN b.ring : \/ \E r \in DOMAIN g : g[r] = b.ring[s]
                                \/ b.ring[s].seq < Head(g).seq

LEMMA RingGrows ==
  ASSUME NEW b \in Brokers, NEW c, Rung(b, c), NEW t \in Topics,
         NEW m, m = Notice(b, t), NEW g, g = Kept(Append(b.ring, m))
  PROVE  Grown(b, g, m)
<1>1. /\ b.ring \in Seq(Invalidation) /\ b.seq \in Nat /\ b.epoch \in Nat
      /\ \A r \in DOMAIN b.ring : b.ring[r].epoch = b.epoch /\ b.ring[r].seq <= b.seq
      /\ \A r, s \in DOMAIN b.ring : r < s => b.ring[r].seq < b.ring[s].seq
  BY DEF Brokers, Rung
<1>2. m \in Invalidation /\ m.epoch = b.epoch /\ m.seq = b.seq + 1
  BY <1>1 DEF Notice, Invalidation
<1>3. \A r \in DOMAIN b.ring : b.ring[r] \in Invalidation /\ b.ring[r].seq \in Nat
  <2>1. \A r \in DOMAIN b.ring : b.ring[r] \in Invalidation
    <3>1. b.ring \in Seq(Invalidation)
      BY <1>1
    <3> QED
      BY <3>1
  <2> QED
    BY <2>1 DEF Invalidation
<1>4. PICK a : a = Append(b.ring, m)
  OBVIOUS
<1>5. /\ a \in Seq(Invalidation) /\ DOMAIN a = 1 .. (Len(b.ring) + 1) /\ Len(a) = Len(b.ring) + 1
      /\ Len(b.ring) \in Nat /\ a # <<>> /\ DOMAIN b.ring = 1 .. Len(b.ring)
      /\ \A n \in 1 .. Len(b.ring) : a[n] = b.ring[n]
      /\ a[Len(b.ring) + 1] = m
  BY <1>1, <1>2, <1>4, Appended
<1>6. \A r \in DOMAIN a : a[r] \in Invalidation /\ a[r].seq \in Nat /\ a[r].epoch = b.epoch /\ a[r].seq <= b.seq + 1
  <2> SUFFICES ASSUME NEW r \in DOMAIN a
               PROVE  a[r] \in Invalidation /\ a[r].seq \in Nat /\ a[r].epoch = b.epoch /\ a[r].seq <= b.seq + 1
    OBVIOUS
  <2>1. CASE r = Len(b.ring) + 1
    BY <1>1, <1>2, <1>5, <2>1
  <2>2. CASE r \in DOMAIN b.ring
    BY <1>1, <1>3, <1>5, <2>2
  <2> QED
    BY <1>5, <2>1, <2>2
<1>7. \A r, s \in DOMAIN a : r < s => a[r].seq < a[s].seq
  <2> SUFFICES ASSUME NEW r \in DOMAIN a, NEW s \in DOMAIN a, r < s
               PROVE  a[r].seq < a[s].seq
    OBVIOUS
  <2>1. r \in DOMAIN b.ring /\ a[r] = b.ring[r]
    BY <1>5
  <2>2. CASE s = Len(b.ring) + 1
    BY <1>1, <1>2, <1>3, <1>5, <2>1, <2>2
  <2>3. CASE s \in DOMAIN b.ring
    BY <1>1, <1>5, <2>1, <2>3
  <2> QED
    BY <1>5, <2>2, <2>3
<1>8. PICK k \in {0, 1} : /\ g \in Seq(Invalidation) /\ g # <<>> /\ Len(g) = Len(a) - k /\ Len(g) \in Nat \ {0}
                          /\ DOMAIN g = 1 .. (Len(a) - k)
                          /\ \A n \in DOMAIN g : n + k \in DOMAIN a /\ g[n] = a[n + k]
  <2>1. g = Kept(a)
    BY <1>4
  <2>2. CASE Len(a) > RingLimit
    <3>1. g = Tail(a)
      BY <2>1, <2>2 DEF Kept
    <3>2. /\ g \in Seq(Invalidation) /\ Len(g) = Len(a) - 1 /\ DOMAIN g = 1 .. (Len(a) - 1)
          /\ \A n \in 1 .. (Len(a) - 1) : g[n] = a[n + 1]
          /\ \A n \in DOMAIN g : n + 1 \in DOMAIN a
      BY <1>5, <3>1, Shortened
    <3>3. Len(a) >= 2
      BY <1>5, <2>2, RingLimitAssumption
    <3>4. Len(g) \in Nat \ {0} /\ g # <<>>
      BY <1>5, <3>2, <3>3
    <3> QED
      BY <3>2, <3>4
  <2>3. CASE ~(Len(a) > RingLimit)
    <3>1. g = a
      BY <2>1, <2>3 DEF Kept
    <3> QED
      BY <1>5, <3>1
  <2> QED
    BY <2>2, <2>3
<1>9. 1 \in DOMAIN g /\ Head(g) = g[1] /\ g[1] = a[1 + k] /\ 1 + k \in DOMAIN a
  BY <1>8
<1>10. \A r \in DOMAIN g : g[r].epoch = b.epoch /\ g[r].seq <= b.seq + 1
  BY <1>6, <1>8
<1>11. \A r, s \in DOMAIN g : r < s => g[r].seq < g[s].seq
  <2> SUFFICES ASSUME NEW r \in DOMAIN g, NEW s \in DOMAIN g, r < s
               PROVE  g[r].seq < g[s].seq
    OBVIOUS
  <2>1. r + k \in DOMAIN a /\ s + k \in DOMAIN a /\ r + k < s + k
    BY <1>8
  <2> QED
    BY <1>7, <1>8, <2>1
<1>12. \E r \in DOMAIN g : g[r] = m
  <2>1. Len(a) - k \in DOMAIN g /\ Len(a) - k + k = Len(b.ring) + 1
    BY <1>5, <1>8
  <2> QED
    BY <1>5, <1>8, <2>1
<1>13. \A s \in DOMAIN b.ring : \/ \E r \in DOMAIN g : g[r] = b.ring[s]
                                \/ b.ring[s].seq < Head(g).seq
  <2> SUFFICES ASSUME NEW s \in DOMAIN b.ring
               PROVE  (\E r \in DOMAIN g : g[r] = b.ring[s]) \/ b.ring[s].seq < Head(g).seq
    OBVIOUS
  <2>1. s \in DOMAIN a /\ a[s] = b.ring[s] /\ s \in Nat /\ s >= 1 /\ s <= Len(a)
    BY <1>5
  <2>2. CASE s > k
    <3>1. s - k \in DOMAIN g /\ s - k + k = s
      BY <1>5, <1>8, <2>1, <2>2
    <3> QED
      BY <1>8, <2>1, <3>1
  <2>3. CASE ~(s > k)
    <3>1. s < 1 + k
      BY <2>1, <2>3
    <3> QED
      BY <1>7, <1>9, <2>1, <3>1
  <2> QED
    BY <2>2, <2>3
<1>14. Head(g).seq \in Nat /\ Oldest(b) \in Nat /\ Oldest(b) <= Head(g).seq
  <2>1. Head(g).seq \in Nat
    BY <1>6, <1>9
  <2>2. CASE b.ring = <<>>
    <3>1. Len(b.ring) = 0 /\ DOMAIN a = {1} /\ a[1] = m
      BY <1>5, <2>2
    <3>2. Head(g) = m
      BY <1>9, <3>1
    <3> QED
      BY <1>1, <1>2, <2>1, <2>2, <3>2 DEF Oldest
  <2>3. CASE b.ring # <<>>
    <3>1. 1 \in DOMAIN b.ring /\ Head(b.ring) = b.ring[1] /\ a[1] = b.ring[1] /\ 1 \in DOMAIN a
      BY <1>1, <1>5, <2>3
    <3>2. Oldest(b) = a[1].seq
      BY <2>3, <3>1 DEF Oldest
    <3>3. a[1].seq <= a[1 + k].seq
      <4>1. CASE k = 0
        BY <1>6, <3>1, <4>1
      <4>2. CASE k = 1
        BY <1>6, <1>7, <1>9, <3>1, <4>2
      <4> QED
        BY <4>1, <4>2
    <3> QED
      BY <1>6, <1>9, <2>1, <3>1, <3>2, <3>3
  <2> QED
    BY <2>2, <2>3
<1> QED
  BY <1>8, <1>10, <1>11, <1>12, <1>13, <1>14 DEF Grown

LEMMA WriteKeeps ==
  ASSUME NEW b, NEW c, NEW o, NEW v, Plane(b, c, o, v), NEW t \in Topics,
         NEW w, w = Written(b, t), NEW m, m = Notice(b, t)
  PROVE  /\ Plane(w, c, o, v)
         /\ w.seq = b.seq + 1 /\ w.epoch = b.epoch /\ w.sent = b.sent
         /\ w.attached = b.attached /\ w.helloed = b.helloed /\ w.topics = b.topics
         /\ \E s \in DOMAIN w.ring : w.ring[s] = m
<1>1. /\ b \in Brokers /\ c \in Clients /\ o \subseteq Topics /\ v \subseteq Topics
      /\ Wire(b, c, o, v) /\ Asked(b, c) /\ Rung(b, c) /\ Ordered(b, c) /\ News(b, c) /\ Held(b)
      /\ Books(b, c, o, v) /\ Scheduled(c)
      /\ \A u \in o : Safe(b, c, u)
  BY DEF Plane
<1>2. b.seq \in Nat /\ b.epoch \in Nat /\ b.sent \in Seq(ToClient)
  BY <1>1 DEF Brokers
<1>3. PICK g : g = Kept(Append(b.ring, m))
  OBVIOUS
<1>4. /\ g \in Seq(Invalidation)
      /\ \A r \in DOMAIN g : g[r].epoch = b.epoch /\ g[r].seq <= b.seq + 1
      /\ \A r, s \in DOMAIN g : r < s => g[r].seq < g[s].seq
      /\ \E r \in DOMAIN g : g[r] = m
      /\ g # <<>> /\ Head(g).seq \in Nat /\ Oldest(b) \in Nat /\ Oldest(b) <= Head(g).seq
      /\ \A s \in DOMAIN b.ring : \/ \E r \in DOMAIN g : g[r] = b.ring[s]
                                  \/ b.ring[s].seq < Head(g).seq
  <2>1. Grown(b, g, m)
    BY <1>1, <1>3, RingGrows
  <2> QED
    BY <2>1 DEF Grown
<1>5. /\ w.seq = b.seq + 1 /\ w.epoch = b.epoch /\ w.sent = b.sent /\ w.ring = g
      /\ w.attached = b.attached /\ w.helloed = b.helloed /\ w.topics = b.topics
      /\ w \in Brokers
  <2>1. w = [b EXCEPT !.seq = b.seq + 1, !.ring = g]
    BY <1>3 DEF Written
  <2>2. g \in Seq(Invalidation)
    BY <1>4
  <2>3. b \in Brokers /\ b.seq + 1 \in Nat
    BY <1>1, <1>2
  <2>4. w \in Brokers
    BY <2>1, <2>2, <2>3 DEF Brokers
  <2> QED
    BY <2>1, <2>3, <2>4 DEF Brokers
<1>6. Oldest(w) = Head(g).seq
  BY <1>4, <1>5 DEF Oldest
<1>7. /\ \A p \in DOMAIN b.sent : b.sent[p].type # "close" => b.sent[p].seq \in Nat /\ b.sent[p].epoch \in Nat
      /\ c.cursor # None => c.cursor.seq \in Nat /\ c.cursor.epoch \in Nat
      /\ \A r \in DOMAIN b.ring : b.ring[r].seq \in Nat
  <2>1. ASSUME NEW p \in DOMAIN b.sent, b.sent[p].type # "close"
        PROVE  b.sent[p].seq \in Nat /\ b.sent[p].epoch \in Nat
    <3>1. b.sent[p] \in ToClient
      BY <1>2
    <3> QED
      BY <2>1, <3>1 DEF ToClient, Invalidation
  <2>2. \A r \in DOMAIN b.ring : b.ring[r] \in Invalidation
    BY <1>1 DEF Brokers
  <2> QED
    BY <1>1, <2>1, <2>2 DEF Clients, Cursors, Invalidation
<1>8. Wire(w, c, o, v) /\ Books(w, c, o, v)
  BY <1>1, <1>5 DEF Wire, Books
<1>9. Asked(w, c)
  <2>1. \A p \in DOMAIN c.sent : c.sent[p].type = "ack" => c.sent[p].seq \in Nat
    <3>1. c.sent \in Seq(ToServer)
      BY <1>1 DEF Clients
    <3>2. \A p \in DOMAIN c.sent : c.sent[p] \in ToServer
      BY <3>1
    <3> QED
      BY <3>2 DEF ToServer
  <2> QED
    BY <1>1, <1>2, <1>5, <2>1 DEF Asked, AckValid
<1>10. Rung(w, c)
  BY <1>1, <1>2, <1>4, <1>5, <1>7 DEF Rung, Within
<1>11. Ordered(w, c)
  BY <1>1, <1>2, <1>5, <1>7 DEF Ordered, Within
<1>12. News(w, c)
  <2>1. \A r \in DOMAIN w.sent : w.sent[r].type = "invalidate" => ~Seen(c, w.sent[r])
    BY <1>1, <1>5 DEF News
  <2>2. ASSUME NEW r \in DOMAIN w.sent, w.sent[r].type = "resync"
        PROVE  /\ r = 1
               /\ w.attached => c.cursor # None /\ (c.cursor.epoch = w.epoch => c.cursor.seq + 1 < Oldest(w))
    BY <1>1, <1>4, <1>5, <1>6, <1>7, <2>2 DEF News
  <2> QED
    BY <2>1, <2>2 DEF News
<1>13. Held(w)
  <2> SUFFICES ASSUME NEW r \in DOMAIN b.sent, b.attached, b.sent[r].type = "invalidate"
               PROVE  \/ b.sent[r].seq < Oldest(w)
                      \/ \E s \in DOMAIN g : g[s].topic = b.sent[r].topic /\ g[s].seq = b.sent[r].seq
    BY <1>5 DEF Held
  <2>1. CASE b.sent[r].seq < Oldest(b)
    BY <1>4, <1>6, <1>7, <2>1
  <2>2. CASE \E s \in DOMAIN b.ring : b.ring[s].topic = b.sent[r].topic /\ b.ring[s].seq = b.sent[r].seq
    BY <1>4, <1>6, <2>2
  <2> QED
    BY <1>1, <2>1, <2>2 DEF Held
<1>14. ASSUME NEW x, NEW u, x.seq \in Nat, Recoverable(b, x, u)
       PROVE  Recoverable(w, x, u)
  <2>1. CASE x.epoch # b.epoch
    BY <1>5, <2>1 DEF Recoverable
  <2>2. CASE x.seq + 1 < Oldest(b)
    BY <1>4, <1>6, <1>14, <2>2 DEF Recoverable
  <2>3. ASSUME NEW r \in DOMAIN b.ring, b.ring[r].topic = u, b.ring[r].seq > x.seq
        PROVE  Recoverable(w, x, u)
    <3>1. CASE \E s \in DOMAIN g : g[s] = b.ring[r]
      BY <1>5, <2>3, <3>1 DEF Recoverable
    <3>2. CASE b.ring[r].seq < Head(g).seq
      BY <1>4, <1>6, <1>7, <1>14, <2>3, <3>2 DEF Recoverable
    <3> QED
      BY <1>4, <3>1, <3>2
  <2> QED
    BY <1>14, <2>1, <2>2, <2>3 DEF Recoverable
<1>15. \A u \in o : Safe(w, c, u)
  BY <1>1, <1>5, <1>7, <1>14 DEF Safe
<1> QED
  BY <1>1, <1>4, <1>5, <1>8, <1>9, <1>10, <1>11, <1>12, <1>13, <1>15 DEF Plane

(* An invalidation that is newer than anything sent goes out. *)
LEMMA NoticeKeeps ==
  ASSUME NEW b, NEW c, NEW o, NEW v, Plane(b, c, o, v), b.helloed,
         NEW m \in Invalidation, m.epoch = b.epoch, m.seq = b.seq,
         \E s \in DOMAIN b.ring : b.ring[s] = m,
         \A p \in DOMAIN b.sent : b.sent[p].seq < m.seq,
         ~Seen(c, m)
  PROVE  /\ Plane(AllSent(b, <<m>>), c, o, v)
         /\ \E p \in DOMAIN AllSent(b, <<m>>).sent : AllSent(b, <<m>>).sent[p] = m
<1> DEFINE d == AllSent(b, <<m>>)
<1>1. /\ b \in Brokers /\ c \in Clients /\ o \subseteq Topics /\ v \subseteq Topics
      /\ Wire(b, c, o, v) /\ Asked(b, c) /\ Rung(b, c) /\ Ordered(b, c) /\ News(b, c) /\ Held(b)
      /\ Books(b, c, o, v) /\ Scheduled(c)
      /\ \A t \in o : Safe(b, c, t)
  BY DEF Plane
<1>2. b.sent \in Seq(ToClient) /\ b.epoch \in Nat /\ b.seq \in Nat /\ b.attached
  BY <1>1 DEF Brokers, Wire
<1>3. m \in ToClient /\ m.type = "invalidate"
  BY DEF ToClient, Invalidation
<1>4. Append(b.sent, m) \in Seq(ToClient) /\ Append(b.sent, m) = b.sent \o <<m>>
  BY <1>2, <1>3, Appended, AppendIsConcat
<1>5. /\ d.epoch = b.epoch /\ d.seq = b.seq /\ d.ring = b.ring
      /\ d.attached = b.attached /\ d.helloed = b.helloed /\ d.topics = b.topics
      /\ d.sent = Append(b.sent, m) /\ d \in Brokers
  BY <1>1, <1>4 DEF Brokers, AllSent
<1> HIDE DEF d
<1>6. Oldest(d) = Oldest(b)
  BY <1>5 DEF Oldest
<1>7. /\ \A p \in DOMAIN b.sent : p \in DOMAIN d.sent /\ d.sent[p] = b.sent[p] /\ p < Len(b.sent) + 1
      /\ \A p \in DOMAIN d.sent : p \in DOMAIN b.sent \/ (p = Len(b.sent) + 1 /\ d.sent[p] = m)
      /\ \A p, r \in DOMAIN d.sent : p < r => p \in DOMAIN b.sent
      /\ Len(b.sent) + 1 \in DOMAIN d.sent /\ d.sent[Len(b.sent) + 1] = m
  BY <1>2, <1>3, <1>5, Appended
<1>8. Wire(d, c, o, v) /\ Asked(d, c) /\ Rung(d, c) /\ Books(d, c, o, v)
  BY <1>1, <1>2, <1>5 DEF Wire, Asked, Rung, Books, AckValid, Within
<1>9. Ordered(d, c)
  <2>1. \A p \in DOMAIN d.sent : d.sent[p].type # "close"
    BY <1>1, <1>2, <1>3, <1>7 DEF Ordered
  <2>2. \A p \in DOMAIN d.sent : Within(d, d.sent[p]) /\ d.sent[p].epoch = d.epoch
    <3>1. \A p \in DOMAIN b.sent : Within(b, b.sent[p]) /\ b.sent[p].epoch = b.epoch
      <4>1. \A p \in DOMAIN b.sent : b.sent[p].type # "close"
        BY <1>1, <1>2 DEF Ordered
      <4> QED
        BY <1>1, <1>2, <4>1 DEF Ordered
    <3>2. Within(b, m) /\ m.epoch = b.epoch
      BY <1>2 DEF Within
    <3>3. \A p \in DOMAIN d.sent : Within(b, d.sent[p]) /\ d.sent[p].epoch = b.epoch
      BY <1>7, <3>1, <3>2
    <3> QED
      BY <1>5, <3>3 DEF Within
  <2>3. ASSUME NEW r \in DOMAIN d.sent, d.sent[r].type = "invalidate",
               NEW p \in DOMAIN d.sent, p < r
        PROVE  d.sent[p].seq < d.sent[r].seq
    <3>1. p \in DOMAIN b.sent /\ d.sent[p] = b.sent[p]
      BY <1>7, <2>3
    <3>2. CASE r \in DOMAIN b.sent
      BY <1>1, <1>7, <2>3, <3>1, <3>2 DEF Ordered
    <3>3. CASE d.sent[r] = m
      BY <3>1, <3>3
    <3> QED
      BY <1>7, <3>2, <3>3
  <2> QED
    BY <2>1, <2>2, <2>3 DEF Ordered
<1>10. News(d, c)
  BY <1>1, <1>3, <1>5, <1>6, <1>7 DEF News
<1>11. Held(d)
  <2> SUFFICES ASSUME NEW r \in DOMAIN d.sent, d.sent[r].type = "invalidate"
               PROVE  \/ d.sent[r].seq < Oldest(b)
                      \/ \E s \in DOMAIN b.ring : b.ring[s].topic = d.sent[r].topic /\ b.ring[s].seq = d.sent[r].seq
    BY <1>5, <1>6 DEF Held
  <2> QED
    BY <1>1, <1>2, <1>7 DEF Held
<1>12. \A t \in o : Safe(d, c, t)
  BY <1>1, <1>5, <1>7 DEF Safe
<1>13. Plane(d, c, o, v)
  BY <1>1, <1>5, <1>8, <1>9, <1>10, <1>11, <1>12 DEF Plane
<1> QED
  BY <1>7, <1>13 DEF d

(* The plane owes a topic more. *)
LEMMA OwedKeeps ==
  ASSUME NEW b, NEW c, NEW o, NEW v, Plane(b, c, o, v), NEW t \in v, Primary(c), Safe(b, c, t)
  PROVE  Plane(b, c, o \union {t}, v)
<1>1. /\ b \in Brokers /\ c \in Clients /\ o \subseteq Topics /\ v \subseteq Topics
      /\ Wire(b, c, o, v) /\ Asked(b, c) /\ Rung(b, c) /\ Ordered(b, c) /\ News(b, c) /\ Held(b)
      /\ Books(b, c, o, v) /\ Scheduled(c)
      /\ \A u \in o : Safe(b, c, u)
  BY DEF Plane
<1>2. Wire(b, c, o \union {t}, v)
  BY <1>1 DEF Wire
<1>3. Books(b, c, o \union {t}, v)
  BY <1>1 DEF Books
<1>4. \A u \in o \union {t} : Safe(b, c, u)
  BY <1>1
<1>5. o \union {t} \subseteq Topics
  BY <1>1
<1> QED
  BY <1>1, <1>2, <1>3, <1>4, <1>5 DEF Plane

LEMMA PublishStep ==
  ASSUME PlaneInv, NEW t \in Topics, Publish(t)
  PROVE  PlaneInv'
<1>1. /\ Plane(broker, client, owed, covered)
      /\ broker \in Brokers /\ client \in Clients /\ Wire(broker, client, owed, covered)
      /\ Rung(broker, client) /\ Ordered(broker, client) /\ Books(broker, client, owed, covered)
  BY DEF PlaneInv, Plane
<1>2. broker.epoch \in Nat /\ broker.seq \in Nat /\ broker.sent \in Seq(ToClient)
  BY <1>1 DEF Brokers
<1>3. PICK m : m = Notice(broker, t)
  OBVIOUS
<1>4. PICK w : w = Written(broker, t)
  OBVIOUS
<1>5. /\ broker' \in IF w.helloed /\ t \in w.topics THEN Deliver(w, <<m>>) ELSE {w}
      /\ owed' = IF Primary(client) THEN owed \union ({t} \intersect covered) ELSE owed
      /\ UNCHANGED <<client, covered>>
  BY <1>3, <1>4 DEF Publish, Notice, Written
<1>6. stale' \subseteq Topics /\ spent' \in [{"writes", "restarts", "cuts", "toggles"} -> Nat]
  <2>1. stale' = stale \union ({t} \intersect client.listening) /\ stale \subseteq Topics
    BY DEF Publish, PlaneInv
  <2>2. /\ spent \in [{"writes", "restarts", "cuts", "toggles"} -> Nat]
        /\ spent' = [spent EXCEPT !["writes"] = @ + 1]
    BY DEF Publish, Spend, PlaneInv
  <2> QED
    BY <2>1, <2>2
<1>7. /\ Plane(w, client, owed, covered)
      /\ w.seq = broker.seq + 1 /\ w.epoch = broker.epoch /\ w.sent = broker.sent
      /\ w.attached = broker.attached /\ w.helloed = broker.helloed /\ w.topics = broker.topics
      /\ \E s \in DOMAIN w.ring : w.ring[s] = m
  BY <1>1, <1>3, <1>4, WriteKeeps
<1>8. /\ m \in Invalidation /\ m.type = "invalidate" /\ m.epoch = w.epoch /\ m.seq = w.seq /\ m.topic = t
  BY <1>2, <1>3, <1>7 DEF Notice, Invalidation
<1>9. ASSUME NEW x, Plane(x, client, owed, covered), t \in covered => Safe(x, client, t)
      PROVE  Plane(x, client', owed', covered')
  <2>1. CASE Primary(client) /\ t \in covered
    <3>1. Plane(x, client, owed \union {t}, covered)
      BY <1>9, <2>1, OwedKeeps
    <3>2. owed' = owed \union {t}
      BY <1>5, <2>1
    <3> QED
      BY <1>5, <3>1, <3>2
  <2>2. CASE ~(Primary(client) /\ t \in covered)
    <3>1. owed' = owed
      BY <1>5, <2>2
    <3> QED
      BY <1>5, <1>9, <3>1
  <2> QED
    BY <2>1, <2>2
<1>10. CASE w.helloed /\ t \in w.topics
  <2>1. broker' \in Deliver(w, <<m>>)
    BY <1>5, <1>10
  <2>2. broker.attached
    BY <1>1, <1>7, <1>10 DEF Wire
  <2>3. ASSUME NEW p \in DOMAIN w.sent
        PROVE  w.sent[p].seq < m.seq
    <3>1. /\ broker.sent[p].type # "close" /\ Within(broker, broker.sent[p])
          /\ broker.sent[p].epoch = broker.epoch /\ broker.sent[p] \in ToClient
      BY <1>1, <1>2, <1>7, <2>2 DEF Ordered
    <3>2. broker.sent[p].seq \in Nat /\ broker.sent[p].seq <= broker.seq
      BY <3>1 DEF Within, ToClient, Invalidation
    <3> QED
      BY <1>2, <1>7, <1>8, <3>2
  <2>4. ~Seen(client, m)
    <3>1. client.cursor # None => client.cursor.seq \in Nat /\ Within(broker, client.cursor)
      BY <1>1 DEF Clients, Cursors, Rung
    <3> QED
      BY <1>2, <1>7, <1>8, <3>1 DEF Seen, Within
  <2>5. PICK y : y = AllSent(w, <<m>>)
    OBVIOUS
  <2>6. Plane(y, client, owed, covered) /\ \E p \in DOMAIN y.sent : y.sent[p] = m
    BY <1>7, <1>8, <1>10, <2>3, <2>4, <2>5, NoticeKeeps
  <2>7. Safe(y, client, t)
    BY <1>8, <2>6 DEF Safe, Carries
  <2>8. Plane(y, client', owed', covered')
    BY <1>9, <2>6, <2>7
  <2>9. w \in Brokers /\ w.attached /\ <<m>> \in Seq(ToClient)
    BY <1>7, <1>8, <2>2 DEF Plane, ToClient
  <2>10. Plane(broker', client', owed', covered')
    BY <2>1, <2>5, <2>8, <2>9, DeliveredKeeps
  <2> QED
    BY <1>6, <2>10 DEF PlaneInv
<1>11. CASE ~(w.helloed /\ t \in w.topics)
  <2>1. broker' = w
    BY <1>5, <1>11
  <2>2. ASSUME t \in covered PROVE Safe(w, client, t)
    <3>1. ~w.helloed
      BY <1>1, <1>7, <1>11, <2>2 DEF Books
    <3>2. ASSUME NEW x, Within(broker, x), x.seq \in Nat
          PROVE  Recoverable(w, x, t)
      BY <1>2, <1>7, <1>8, <3>2 DEF Recoverable, Within
    <3>3. client.cursor # None => Recoverable(w, client.cursor, t)
      BY <1>1, <3>2 DEF Clients, Cursors, Rung
    <3>4. ASSUME NEW p \in DOMAIN w.sent, w.sent[p].type # "close"
          PROVE  Recoverable(w, w.sent[p], t)
      <4>1. Within(broker, w.sent[p]) /\ w.sent[p] \in ToClient
        BY <1>1, <1>2, <1>7, <3>4 DEF Ordered
      <4> QED
        BY <3>2, <3>4, <4>1 DEF ToClient, Invalidation
    <3> QED
      BY <3>1, <3>3, <3>4 DEF Safe
  <2>3. Plane(w, client', owed', covered')
    BY <1>7, <1>9, <2>2
  <2> QED
    BY <1>6, <2>1, <2>3 DEF PlaneInv
<1> QED
  BY <1>10, <1>11

LEMMA CutStep ==
  ASSUME PlaneInv, Cut
  PROVE  PlaneInv'
<1>1. PICK k \in 0 .. Len(broker.sent) : broker' = CutAt(broker, k)
  BY DEF Cut, CutAt
<1>2. broker.attached /\ UNCHANGED <<client, stale, owed, covered>> /\ Plane(broker, client, owed, covered)
  BY DEF Cut, PlaneInv
<1>3. Plane(CutAt(broker, k), client, owed, covered)
  BY <1>1, <1>2, CutKeeps
<1>4. spent' \in [{"writes", "restarts", "cuts", "toggles"} -> Nat]
  <2>1. /\ spent \in [{"writes", "restarts", "cuts", "toggles"} -> Nat]
        /\ spent' = [spent EXCEPT !["cuts"] = @ + 1]
    BY DEF Cut, Spend, PlaneInv
  <2> QED
    BY <2>1
<1>5. Plane(broker', client', owed', covered') /\ stale' \subseteq Topics
  BY <1>1, <1>2, <1>3 DEF PlaneInv
<1> QED
  BY <1>4, <1>5 DEF PlaneInv

(* The server starts again: whatever arrives was of an older epoch, so every   *)
(* cursor is answered with a resync.                                           *)
Arrived(b, c, k) ==
    IF c.socket = "open" THEN SubSeq(b.sent, 1, k) \o <<[type |-> "close"]>> ELSE <<>>
Restarted(b, s) == [NewBroker(b.epoch + 1) EXCEPT !.sent = s]

LEMMA RestartKeeps ==
  ASSUME NEW b, NEW c, NEW o, NEW v, Plane(b, c, o, v),
         NEW k \in 0 .. Len(b.sent), NEW s, s = Arrived(b, c, k), NEW d, d = Restarted(b, s)
  PROVE  Plane(d, c, o, v)
<1>1. /\ b \in Brokers /\ c \in Clients /\ o \subseteq Topics /\ v \subseteq Topics
      /\ Wire(b, c, o, v) /\ Asked(b, c) /\ Rung(b, c) /\ Ordered(b, c) /\ News(b, c)
      /\ Books(b, c, o, v) /\ Scheduled(c)
  BY DEF Plane
<1>2. b.sent \in Seq(ToClient) /\ Len(b.sent) \in Nat /\ k \in Nat /\ k <= Len(b.sent) /\ b.epoch \in Nat
  BY <1>1 DEF Brokers
<1>3. PICK close : close = [type |-> "close"]
  OBVIOUS
<1>4. close \in ToClient /\ close.type = "close"
  BY <1>3 DEF ToClient
<1>5. /\ s \in Seq(ToClient) /\ (c.socket # "open" => s = <<>>)
      /\ \A p \in DOMAIN s : \/ p \in DOMAIN b.sent /\ s[p] = b.sent[p] /\ p < k + 1
                             \/ p = k + 1 /\ s[p].type = "close"
      /\ \A p \in DOMAIN s : \A r \in DOMAIN s : p < r => p \in DOMAIN b.sent /\ s[p] = b.sent[p]
  <2>1. CASE c.socket # "open"
    BY <2>1 DEF Arrived
  <2>2. CASE c.socket = "open"
    <3>1. PICK a : a = SubSeq(b.sent, 1, k)
      OBVIOUS
    <3>2. a \in Seq(ToClient) /\ Len(a) = k /\ \A p \in 1 .. k : a[p] = b.sent[p]
      BY <1>2, <3>1, SubSeqProperties
    <3>3. s = Append(a, close)
      BY <1>3, <1>4, <2>2, <3>1, <3>2, AppendIsConcat DEF Arrived
    <3>4. /\ s \in Seq(ToClient) /\ DOMAIN s = 1 .. (k + 1)
          /\ \A p \in 1 .. k : s[p] = b.sent[p]
          /\ s[k + 1] = close
      BY <1>4, <3>2, <3>3, Appended
    <3>5. DOMAIN b.sent = 1 .. Len(b.sent)
      BY <1>2
    <3>6. \A p \in DOMAIN s : \/ p \in DOMAIN b.sent /\ s[p] = b.sent[p] /\ p < k + 1
                              \/ p = k + 1 /\ s[p].type = "close"
      BY <1>2, <1>4, <3>4, <3>5
    <3>7. \A p \in DOMAIN s : \A r \in DOMAIN s : p < r => p \in DOMAIN b.sent /\ s[p] = b.sent[p]
      BY <1>2, <3>4, <3>5
    <3> QED
      BY <2>2, <3>4, <3>6, <3>7
  <2> QED
    BY <2>1, <2>2
<1>6. /\ d.epoch = b.epoch + 1 /\ d.seq = 0 /\ d.ring = <<>>
      /\ d.attached = FALSE /\ d.helloed = FALSE /\ d.topics = {}
      /\ d.sent = s /\ d \in Brokers
  <2>1. s \in Seq(ToClient) /\ <<>> \in Seq(Invalidation)
    BY <1>5
  <2>2. b.epoch + 1 \in Nat /\ 0 \in Nat
    BY <1>2
  <2>3. d = [epoch |-> b.epoch + 1, seq |-> 0, ring |-> <<>>,
             attached |-> FALSE, helloed |-> FALSE, topics |-> {}, sent |-> s]
    BY DEF Restarted, NewBroker
  <2>4. d \in Brokers
    BY <2>1, <2>2, <2>3 DEF Brokers
  <2> QED
    BY <2>3, <2>4
<1>7. DOMAIN d.ring = {}
  BY <1>6
<1>8. /\ \A p \in DOMAIN s : s[p].type # "close" => s[p].epoch \in Nat /\ s[p].epoch <= b.epoch
      /\ c.cursor # None => c.cursor.epoch \in Nat /\ c.cursor.epoch <= b.epoch
  <2>1. ASSUME NEW p \in DOMAIN s, s[p].type # "close"
        PROVE  s[p].epoch \in Nat /\ s[p].epoch <= b.epoch
    <3>1. s[p] \in ToClient /\ Within(b, s[p])
      BY <1>1, <1>2, <1>5, <2>1 DEF Ordered
    <3> QED
      BY <2>1, <3>1 DEF ToClient, Invalidation, Within
  <2>2. c.cursor # None => c.cursor.epoch \in Nat /\ c.cursor.epoch <= b.epoch
    BY <1>1 DEF Clients, Cursors, Rung, Within
  <2> QED
    BY <2>1, <2>2
<1>9. Wire(d, c, o, v) /\ Asked(d, c) /\ Books(d, c, o, v) /\ Held(d)
  BY <1>1, <1>5, <1>6 DEF Wire, Asked, Books, Held
<1>10. Rung(d, c)
  BY <1>2, <1>6, <1>7, <1>8 DEF Rung, Within
<1>11. Ordered(d, c)
  <2>1. ASSUME NEW p \in DOMAIN s, s[p].type = "close", NEW r \in DOMAIN s, p < r
        PROVE  s[r].type = "close"
    <3>1. p \in DOMAIN b.sent /\ s[p] = b.sent[p]
      BY <1>5, <2>1
    <3>2. CASE r \in DOMAIN b.sent /\ s[r] = b.sent[r]
      BY <1>1, <2>1, <3>1, <3>2 DEF Ordered
    <3> QED
      BY <1>5, <3>2
  <2>2. ASSUME NEW p \in DOMAIN s, s[p].type # "close"
        PROVE  Within(d, s[p])
    BY <1>2, <1>6, <1>8, <2>2 DEF Within
  <2>3. ASSUME NEW r \in DOMAIN s, s[r].type = "invalidate", NEW p \in DOMAIN s, p < r
        PROVE  s[p].type # "close" /\ s[p].epoch = s[r].epoch /\ s[p].seq < s[r].seq
    <3>1. r \in DOMAIN b.sent /\ s[r] = b.sent[r] /\ p \in DOMAIN b.sent /\ s[p] = b.sent[p]
      BY <1>5, <2>3
    <3> QED
      BY <1>1, <2>3, <3>1 DEF Ordered
  <2> QED
    BY <1>6, <2>1, <2>2, <2>3 DEF Ordered
<1>12. News(d, c)
  BY <1>1, <1>5, <1>6 DEF News
<1>13. ASSUME NEW t \in o PROVE Safe(d, c, t)
  BY <1>2, <1>6, <1>8 DEF Safe, Recoverable
<1> QED
  BY <1>1, <1>6, <1>9, <1>10, <1>11, <1>12, <1>13 DEF Plane

LEMMA RestartStep ==
  ASSUME PlaneInv, Restart
  PROVE  PlaneInv'
<1>1. PICK k \in 0 .. Len(broker.sent) :
         broker' = Restarted(broker, Arrived(broker, client, k))
  BY DEF Restart, Restarted, Arrived
<1>2. UNCHANGED <<client, stale, owed, covered>> /\ Plane(broker, client, owed, covered)
  BY DEF Restart, PlaneInv
<1>3. Plane(broker', client, owed, covered)
  BY <1>1, <1>2, RestartKeeps
<1>4. spent' \in [{"writes", "restarts", "cuts", "toggles"} -> Nat]
  <2>1. /\ spent \in [{"writes", "restarts", "cuts", "toggles"} -> Nat]
        /\ spent' = [spent EXCEPT !["restarts"] = @ + 1]
    BY DEF Restart, Spend, PlaneInv
  <2> QED
    BY <2>1
<1>5. Plane(broker', client', owed', covered') /\ stale' \subseteq Topics
  BY <1>2, <1>3 DEF PlaneInv
<1> QED
  BY <1>4, <1>5 DEF PlaneInv

-----------------------------------------------------------------------------
(* The client's own steps: it changes nothing of the socket but what it sends, *)
(* keeps its cursor, and gives up what it owed only with the debt.             *)
MaySend(c, m) ==
    /\ m \in ToServer /\ c.socket = "open"
    /\ \/ m.type = "subscribe"
       \/ /\ m.type = "ack" /\ "ack" \in c.timers
          /\ m.epoch = c.cursor.epoch /\ m.seq = c.cursor.seq

Beside(c, d) ==
    /\ d \in Clients /\ d.cursor = c.cursor
    /\ d.socket = c.socket \/ (d.socket # "open" /\ c.socket # "open")
    /\ d.ready # {} => d.socket = "open"
    /\ d.sent = c.sent \/ \E m \in ToServer : MaySend(c, m) /\ d.sent = Append(c.sent, m)
    /\ "ack" \in d.timers => "ack" \in c.timers
    /\ d.dirty \subseteq d.listening
    /\ Scheduled(d)

LEMMA BesideKeeps ==
  ASSUME NEW b, NEW c, NEW o, NEW v, Plane(b, c, o, v), NEW d, Beside(c, d),
         NEW q \in SUBSET o, NEW w \in SUBSET v, q \subseteq d.listening, w \subseteq d.listening,
         q # {} \/ d.dirty # {} => Primary(d),
         \A t \in q : t \in c.dirty => t \in d.dirty
  PROVE  Plane(b, d, q, w)
<1>1. /\ b \in Brokers /\ c \in Clients /\ o \subseteq Topics /\ v \subseteq Topics
      /\ Wire(b, c, o, v) /\ Asked(b, c) /\ Rung(b, c) /\ Ordered(b, c) /\ News(b, c) /\ Held(b)
      /\ Books(b, c, o, v)
      /\ \A t \in o : Safe(b, c, t)
  BY DEF Plane
<1>2. c.sent \in Seq(ToServer)
  BY <1>1 DEF Clients
<1>3. /\ \A p \in DOMAIN c.sent : p \in DOMAIN d.sent /\ d.sent[p] = c.sent[p]
      /\ \A p \in DOMAIN d.sent : \/ p \in DOMAIN c.sent /\ d.sent[p] = c.sent[p]
                                  \/ MaySend(c, d.sent[p])
      /\ c.socket # "open" => d.sent = c.sent
      /\ c.sent # <<>> => d.sent # <<>> /\ 1 \in DOMAIN c.sent
  <2>1. CASE d.sent = c.sent
    BY <1>2, <2>1
  <2>2. ASSUME NEW m \in ToServer, MaySend(c, m), d.sent = Append(c.sent, m)
        PROVE  /\ \A p \in DOMAIN c.sent : p \in DOMAIN d.sent /\ d.sent[p] = c.sent[p]
               /\ \A p \in DOMAIN d.sent : \/ p \in DOMAIN c.sent /\ d.sent[p] = c.sent[p]
                                           \/ MaySend(c, d.sent[p])
               /\ c.socket = "open" /\ d.sent # <<>> /\ (c.sent # <<>> => 1 \in DOMAIN c.sent)
    <3>1. c.socket = "open" /\ (c.sent # <<>> => 1 \in DOMAIN c.sent)
      BY <1>2, <2>2 DEF MaySend
    <3>2. /\ d.sent # <<>> /\ Len(c.sent) \in Nat
          /\ DOMAIN d.sent = 1 .. (Len(c.sent) + 1) /\ DOMAIN c.sent = 1 .. Len(c.sent)
          /\ \A n \in 1 .. Len(c.sent) : d.sent[n] = c.sent[n]
          /\ d.sent[Len(c.sent) + 1] = m
      BY <1>2, <2>2, Appended
    <3> QED
      BY <2>2, <3>1, <3>2
  <2> QED
    BY <2>1, <2>2 DEF Beside
<1>4. Wire(b, d, q, w)
  BY <1>1, <1>3 DEF Wire, Beside
<1>5. Asked(b, d)
  <2>1. ASSUME NEW p \in DOMAIN d.sent, d.sent[p].type = "hello"
        PROVE  p = 1 /\ ~b.helloed
    BY <1>1, <1>3, <2>1 DEF Asked, MaySend
  <2>2. ASSUME NEW p \in DOMAIN d.sent, b.attached, d.sent[p].type = "ack"
        PROVE  AckValid(b, d.sent[p])
    <3>1. CASE p \in DOMAIN c.sent /\ d.sent[p] = c.sent[p]
      BY <1>1, <2>2, <3>1 DEF Asked
    <3>2. CASE MaySend(c, d.sent[p])
      BY <1>1, <2>2, <3>2 DEF Asked, MaySend, AckValid, Rung, Within
    <3> QED
      BY <1>3, <3>1, <3>2
  <2>3. "ack" \in d.timers =>
          /\ d.socket = "open" /\ d.cursor # None
          /\ b.attached => b.helloed /\ d.cursor.epoch = b.epoch
    BY <1>1 DEF Asked, Beside
  <2> QED
    BY <2>1, <2>2, <2>3 DEF Asked
<1>6. Rung(b, d) /\ Ordered(b, d) /\ News(b, d)
  BY <1>1 DEF Rung, Ordered, News, Seen, Beside
<1>7. Books(b, d, q, w)
  BY <1>1 DEF Books, Beside
<1>8. \A t \in q : Safe(b, d, t)
  BY <1>1 DEF Safe, Beside
<1> QED
  BY <1>1, <1>4, <1>5, <1>6, <1>7, <1>8 DEF Plane, Beside

(* The connection is brought in line with what is listened to: nothing that is *)
(* known or held changes.                                                      *)
LEMMA Reconciled ==
  ASSUME NEW c \in Clients, c.ready # {} => c.socket = "open", Scheduled(c),
         c.dirty \subseteq c.listening,
         NEW d, d = Reconcile(c)
  PROVE  /\ Beside(c, d)
         /\ d.listening = c.listening /\ d.dirty = c.dirty
         /\ Primary(c) => Primary(d)
<1>1. /\ c.sent \in Seq(ToServer) /\ c.listening \in SUBSET Topics /\ c.ready \in SUBSET Topics
      /\ c.timers \in SUBSET Timers
  BY DEF Clients
<1>2. PICK m : m = [type |-> "subscribe", topics |-> c.listening]
  OBVIOUS
<1>3. m \in ToServer /\ m.type = "subscribe"
  BY <1>1, <1>2 DEF ToServer
<1>4. Append(c.sent, m) \in Seq(ToServer)
  BY <1>1, <1>3, Appended
<1>5. PICK x : x = [c EXCEPT !.timers = @ \ {"idle"}]
  OBVIOUS
<1>6. /\ x.listening = c.listening /\ x.capability = c.capability /\ x.state = c.state
      /\ x.socket = c.socket /\ x.ready = c.ready /\ x.cursor = c.cursor /\ x.acked = c.acked
      /\ x.barrier = c.barrier /\ x.dirty = c.dirty /\ x.timers = c.timers \ {"idle"}
      /\ x.visible = c.visible /\ x.sent = c.sent /\ x \in Clients
  BY <1>1, <1>5 DEF Clients
<1>7. CASE c.listening = {}
  <2>1. PICK T : T = (c.timers \ {"backoff"}) \union (IF c.socket = "none" THEN {} ELSE {"idle"})
    OBVIOUS
  <2>2. PICK a : a = IF c.socket = "none" THEN "idle" ELSE c.state
    OBVIOUS
  <2>3. T \in SUBSET Timers /\ a \in States
    BY <1>1, <2>1, <2>2 DEF Timers, States, Clients
  <2>4. d = [c EXCEPT !.timers = T, !.state = a]
    BY <1>7, <2>1, <2>2 DEF Reconcile
  <2>5. /\ d.listening = c.listening /\ d.capability = c.capability /\ d.state = a
        /\ d.socket = c.socket /\ d.ready = c.ready /\ d.cursor = c.cursor
        /\ d.barrier = c.barrier /\ d.dirty = c.dirty /\ d.timers = T
        /\ d.visible = c.visible /\ d.sent = c.sent /\ d \in Clients
    BY <2>3, <2>4 DEF Clients
  <2>6. Scheduled(d)
    BY <1>7, <2>2, <2>5 DEF Scheduled
  <2>7. "ack" \in d.timers => "ack" \in c.timers
    BY <2>1, <2>5
  <2> QED
    BY <2>5, <2>6, <2>7 DEF Beside, Primary
<1>8. CASE c.listening # {} /\ c.capability \in {"unread", "loading"}
  <2>1. d = [x EXCEPT !.capability = "loading"]
    BY <1>5, <1>8 DEF Reconcile
  <2>2. /\ d.listening = c.listening /\ d.capability = "loading" /\ d.state = c.state
        /\ d.socket = c.socket /\ d.ready = c.ready /\ d.cursor = c.cursor
        /\ d.barrier = c.barrier /\ d.dirty = c.dirty /\ d.timers = c.timers \ {"idle"}
        /\ d.visible = c.visible /\ d.sent = c.sent /\ d \in Clients
    BY <1>6, <2>1 DEF Clients
  <2>3. Scheduled(d)
    BY <2>2 DEF Scheduled
  <2> QED
    BY <1>8, <2>2, <2>3 DEF Beside, Primary
<1>9. CASE c.listening # {} /\ c.capability = "off"
  <2>1. d = [x EXCEPT !.state = "disabled"]
    BY <1>5, <1>9 DEF Reconcile
  <2>2. /\ d.listening = c.listening /\ d.capability = c.capability /\ d.state = "disabled"
        /\ d.socket = c.socket /\ d.ready = c.ready /\ d.cursor = c.cursor
        /\ d.barrier = c.barrier /\ d.dirty = c.dirty /\ d.timers = c.timers \ {"idle"}
        /\ d.visible = c.visible /\ d.sent = c.sent /\ d \in Clients
    BY <1>6, <2>1 DEF Clients, States
  <2>3. Scheduled(d)
    BY <2>2 DEF Scheduled
  <2> QED
    BY <2>2, <2>3 DEF Beside, Primary
<1>10. CASE c.listening # {} /\ c.capability \in {"shadow", "primary"} /\ c.socket = "open"
  <2>1. PICK y : y = [x EXCEPT !.ready = c.ready \intersect c.listening]
    OBVIOUS
  <2>2. /\ y.listening = c.listening /\ y.capability = c.capability /\ y.state = c.state
        /\ y.socket = c.socket /\ y.cursor = c.cursor
        /\ y.barrier = c.barrier /\ y.dirty = c.dirty /\ y.timers = c.timers \ {"idle"}
        /\ y.visible = c.visible /\ y.sent = c.sent /\ y \in Clients
    BY <1>1, <1>6, <2>1 DEF Clients
  <2>3. d = [y EXCEPT !.sent = Append(c.sent, m)]
    <3>1. d = Send(y, m)
      BY <1>2, <1>5, <1>6, <1>10, <2>1 DEF Reconcile
    <3> QED
      BY <1>10, <2>2, <3>1 DEF Send
  <2>4. /\ d.listening = c.listening /\ d.capability = c.capability /\ d.state = c.state
        /\ d.socket = c.socket /\ d.cursor = c.cursor
        /\ d.barrier = c.barrier /\ d.dirty = c.dirty /\ d.timers = c.timers \ {"idle"}
        /\ d.visible = c.visible /\ d.sent = Append(c.sent, m) /\ d \in Clients
    BY <1>4, <2>2, <2>3 DEF Clients
  <2>5. Scheduled(d)
    BY <2>4 DEF Scheduled
  <2>6. MaySend(c, m)
    BY <1>3, <1>10 DEF MaySend
  <2> QED
    BY <1>3, <1>10, <2>4, <2>5, <2>6 DEF Beside, Primary
<1>11. CASE /\ c.listening # {} /\ c.capability \in {"shadow", "primary"} /\ c.socket # "open"
            /\ c.socket = "connecting" \/ "backoff" \in c.timers
  <2>1. d = x
    BY <1>5, <1>11 DEF Reconcile
  <2>2. Scheduled(d)
    BY <1>6, <2>1 DEF Scheduled
  <2> QED
    BY <1>6, <2>1, <2>2 DEF Beside, Primary
<1>12. CASE /\ c.listening # {} /\ c.capability \in {"shadow", "primary"} /\ c.socket # "open"
            /\ ~(c.socket = "connecting" \/ "backoff" \in c.timers)
  <2>1. d = Connect(x)
    BY <1>5, <1>12 DEF Reconcile
  <2>2. /\ d.listening = c.listening /\ d.capability = c.capability /\ d.state = "connecting"
        /\ d.socket = "connecting" /\ d.ready = c.ready /\ d.cursor = c.cursor
        /\ d.barrier = FALSE /\ d.dirty = c.dirty /\ d.timers = (c.timers \ {"idle"}) \ {"backoff"}
        /\ d.visible = c.visible /\ d.sent = c.sent /\ d \in Clients
    <3>1. PICK T : T = x.timers \ {"backoff"}
      OBVIOUS
    <3>2. T \in SUBSET Timers /\ T = (c.timers \ {"idle"}) \ {"backoff"}
      BY <1>1, <1>6, <3>1
    <3>3. d = [x EXCEPT !.timers = T, !.barrier = FALSE, !.state = "connecting", !.socket = "connecting"]
      BY <2>1, <3>1 DEF Connect
    <3>4. "connecting" \in States
      BY DEF States
    <3>5. x \in Clients
      BY <1>6
    <3>6. /\ d.listening = x.listening /\ d.capability = x.capability /\ d.state = "connecting"
          /\ d.socket = "connecting" /\ d.ready = x.ready /\ d.cursor = x.cursor
          /\ d.barrier = FALSE /\ d.dirty = x.dirty /\ d.timers = T
          /\ d.visible = x.visible /\ d.sent = x.sent
      BY <3>3, <3>5 DEF Clients
    <3>7. d \in Clients
      BY <3>2, <3>3, <3>4, <3>5 DEF Clients
    <3> QED
      BY <1>6, <3>2, <3>6, <3>7
  <2>3. Scheduled(d)
    BY <2>2 DEF Scheduled
  <2>4. d.ready = {}
    BY <1>12, <2>2
  <2> QED
    BY <1>12, <2>2, <2>3, <2>4 DEF Beside, Primary
<1>13. c.capability \in {"unread", "loading", "off", "shadow", "primary"}
  BY ModesAssumption DEF Clients
<1> QED
  BY <1>7, <1>8, <1>9, <1>10, <1>11, <1>12, <1>13

LEMMA ReconciledFrom ==
  ASSUME NEW c \in Clients, NEW x \in Clients, x.ready # {} => x.socket = "open", Scheduled(x),
         x.dirty \subseteq x.listening,
         x.cursor = c.cursor, x.socket = c.socket, x.sent = c.sent, x.timers \subseteq c.timers,
         NEW d, d = Reconcile(x)
  PROVE  /\ Beside(c, d)
         /\ d.listening = x.listening /\ d.dirty = x.dirty
         /\ Primary(x) => Primary(d)
<1>1. /\ Beside(x, d)
      /\ d.listening = x.listening /\ d.dirty = x.dirty
      /\ Primary(x) => Primary(d)
  BY Reconciled
<1>2. \A m \in ToServer : MaySend(x, m) => MaySend(c, m)
  BY DEF MaySend
<1>3. Beside(c, d)
  BY <1>1, <1>2 DEF Beside
<1> QED
  BY <1>1, <1>3

LEMMA SpendTypes ==
  ASSUME PlaneInv, NEW what \in {"writes", "restarts", "cuts", "toggles"}, NEW limit, Spend(what, limit)
  PROVE  spent' \in [{"writes", "restarts", "cuts", "toggles"} -> Nat]
<1>1. /\ spent \in [{"writes", "restarts", "cuts", "toggles"} -> Nat]
      /\ spent' = [spent EXCEPT ![what] = @ + 1]
  BY DEF PlaneInv, Spend
<1> QED
  BY <1>1

LEMMA BesideStep ==
  ASSUME PlaneInv, broker' = broker, Beside(client, client'),
         owed' \subseteq owed, covered' \subseteq covered,
         owed' \subseteq client'.listening, covered' \subseteq client'.listening,
         owed' # {} \/ client'.dirty # {} => Primary(client'),
         \A t \in owed' : t \in client.dirty => t \in client'.dirty,
         stale' \subseteq Topics,
         spent' \in [{"writes", "restarts", "cuts", "toggles"} -> Nat]
  PROVE  PlaneInv'
<1>1. Plane(broker, client, owed, covered)
  BY DEF PlaneInv
<1>2. Plane(broker, client', owed', covered')
  BY <1>1, BesideKeeps
<1> QED
  BY <1>2 DEF PlaneInv

(* What the state says of the client alone. *)
LEMMA ClientFacts ==
  ASSUME PlaneInv
  PROVE  /\ client \in Clients
         /\ client.ready # {} => client.socket = "open"
         /\ client.socket # "open" => client.sent = <<>>
         /\ owed \subseteq client.listening /\ covered \subseteq client.listening
         /\ client.dirty \subseteq client.listening
         /\ owed # {} \/ client.dirty # {} => Primary(client)
         /\ client.state = "ready" => client.barrier
         /\ Scheduled(client)
         /\ stale \subseteq Topics
         /\ spent \in [{"writes", "restarts", "cuts", "toggles"} -> Nat]
  BY DEF PlaneInv, Plane, Wire, Books, Scheduled

(* The socket is given up and, while anything is listened to, tried again. *)
LEMMA Closed ==
  ASSUME NEW c \in Clients, NEW d, d = OnClose(c)
  PROVE  /\ d \in Clients /\ d.listening = c.listening /\ d.dirty = c.dirty
         /\ d.capability = c.capability /\ d.state \in {"idle", "backing-off"}
         /\ d.ready = {} /\ d.cursor = c.cursor
         /\ d.socket = "none" /\ d.sent = <<>> /\ "ack" \notin d.timers
<1>1. PICK x : x = Teardown(c)
  OBVIOUS
<1>2. /\ x \in Clients /\ x.listening = c.listening /\ x.dirty = c.dirty
      /\ x.capability = c.capability /\ x.ready = {} /\ x.cursor = c.cursor
      /\ x.socket = "none" /\ x.sent = <<>> /\ x.timers = c.timers \ {"ack"}
  <2>1. <<>> \in Seq(ToServer) /\ c.timers \ {"ack"} \in SUBSET Timers
    BY DEF Clients
  <2> QED
    BY <1>1, <2>1 DEF Teardown, Clients
<1>3. d = ScheduleReconnect(x)
  BY <1>1 DEF OnClose
<1>4. CASE x.listening = {}
  <2>1. d = [x EXCEPT !.state = "idle"]
    BY <1>3, <1>4 DEF ScheduleReconnect
  <2> QED
    BY <1>2, <2>1 DEF Clients, States
<1>5. CASE x.listening # {}
  <2>1. PICK T : T = x.timers \union {"backoff"}
    OBVIOUS
  <2>2. T \in SUBSET Timers /\ "ack" \notin T
    BY <1>2, <2>1 DEF Clients, Timers
  <2>3. d = [x EXCEPT !.state = "backing-off", !.timers = T]
    BY <1>3, <1>5, <2>1 DEF ScheduleReconnect
  <2> QED
    BY <1>2, <2>2, <2>3 DEF Clients, States
<1> QED
  BY <1>4, <1>5

(* The acknowledgement says where the client is. *)
LEMMA Flushed ==
  ASSUME NEW c \in Clients, NEW d, d = FlushAck(c)
  PROVE  /\ d \in Clients /\ d.listening = c.listening /\ d.dirty = c.dirty
         /\ d.capability = c.capability /\ d.state = c.state
         /\ d.barrier = c.barrier /\ d.visible = c.visible
         /\ d.ready = c.ready /\ d.cursor = c.cursor
         /\ d.socket = c.socket /\ d.timers = c.timers \ {"ack"}
         /\ \/ d.sent = c.sent
            \/ \E m \in ToServer : /\ m.type = "ack" /\ m.epoch = c.cursor.epoch /\ m.seq = c.cursor.seq
                                   /\ c.cursor # None /\ c.socket = "open"
                                   /\ d.sent = Append(c.sent, m)
<1>1. PICK x : x = [c EXCEPT !.timers = @ \ {"ack"}]
  OBVIOUS
<1>2. /\ x \in Clients /\ x.listening = c.listening /\ x.dirty = c.dirty
      /\ x.capability = c.capability /\ x.state = c.state
      /\ x.barrier = c.barrier /\ x.visible = c.visible
      /\ x.ready = c.ready /\ x.cursor = c.cursor
      /\ x.socket = c.socket /\ x.timers = c.timers \ {"ack"} /\ x.sent = c.sent
  BY <1>1 DEF Clients
<1>3. CASE ~(Behind(c) /\ c.socket = "open")
  <2>1. d = x
    BY <1>1, <1>3 DEF FlushAck
  <2> QED
    BY <1>2, <2>1
<1>4. CASE Behind(c) /\ c.socket = "open"
  <2>1. PICK m : m = [type |-> "ack", epoch |-> c.cursor.epoch, seq |-> c.cursor.seq]
    OBVIOUS
  <2>2. c.cursor # None /\ c.cursor.epoch \in Nat /\ c.cursor.seq \in Nat
    BY <1>4 DEF Behind, Clients, Cursors
  <2>3. m \in ToServer /\ m.type = "ack" /\ m.epoch = c.cursor.epoch /\ m.seq = c.cursor.seq
    BY <2>1, <2>2 DEF ToServer
  <2>4. Append(c.sent, m) \in Seq(ToServer)
    BY <2>3, Appended DEF Clients
  <2>5. Send(x, m) = [x EXCEPT !.sent = Append(c.sent, m)]
    BY <1>2, <1>4 DEF Send
  <2>6. d = [x EXCEPT !.sent = Append(c.sent, m), !.acked = c.cursor.seq]
    <3>1. d = [Send(x, m) EXCEPT !.acked = c.cursor.seq]
      BY <1>1, <1>4, <2>1 DEF FlushAck
    <3> QED
      BY <2>5, <3>1
  <2>7. /\ d \in Clients /\ d.listening = x.listening /\ d.dirty = x.dirty
        /\ d.capability = x.capability /\ d.state = x.state
        /\ d.barrier = x.barrier /\ d.visible = x.visible
        /\ d.ready = x.ready /\ d.cursor = x.cursor
        /\ d.socket = x.socket /\ d.timers = x.timers /\ d.sent = Append(c.sent, m)
    BY <1>2, <2>2, <2>4, <2>6 DEF Clients
  <2> QED
    BY <1>2, <1>4, <2>2, <2>3, <2>7
<1> QED
  BY <1>3, <1>4

(* A delivery takes what it may and leaves nothing without its timer. *)
LEMMA Delivered ==
  ASSUME NEW c \in Clients, c.dirty \subseteq c.listening,
         c.dirty # {} => Primary(c), c.state = "ready" => c.barrier,
         NEW d, d = Notify(c)
  PROVE  /\ d \in Clients /\ d.listening = c.listening
         /\ d.dirty = c.dirty \ Notified(c)
         /\ d.capability = c.capability
         /\ d.ready = c.ready /\ d.cursor = c.cursor
         /\ d.socket = c.socket /\ d.timers = c.timers \ {"coalesce"}
         /\ d.sent = c.sent /\ Scheduled(d)
<1>1. PICK x : x = [c EXCEPT !.timers = @ \ {"coalesce"}]
  OBVIOUS
<1>2. /\ x \in Clients /\ x.listening = c.listening /\ x.dirty = c.dirty
      /\ x.capability = c.capability /\ x.state = c.state
      /\ x.barrier = c.barrier /\ x.visible = c.visible
      /\ x.ready = c.ready /\ x.cursor = c.cursor
      /\ x.socket = c.socket /\ x.timers = c.timers \ {"coalesce"} /\ x.sent = c.sent
  BY <1>1 DEF Clients
<1>3. CASE MayDeliver(c)
  <2>1. d = [x EXCEPT !.dirty = {}]
    BY <1>1, <1>3 DEF Notify
  <2>2. /\ d \in Clients /\ d.listening = x.listening /\ d.dirty = {}
        /\ d.capability = x.capability /\ d.state = x.state
        /\ d.barrier = x.barrier /\ d.visible = x.visible
        /\ d.ready = x.ready /\ d.cursor = x.cursor
        /\ d.socket = x.socket /\ d.timers = x.timers /\ d.sent = x.sent
    BY <1>2, <2>1 DEF Clients
  <2>3. c.dirty \ Notified(c) = {}
    BY <1>3 DEF Notified
  <2>4. Scheduled(d)
    BY <1>2, <2>2 DEF Scheduled
  <2> QED
    BY <1>2, <2>2, <2>3, <2>4
<1>4. CASE ~MayDeliver(c)
  <2>1. d = x /\ Notified(c) = {}
    BY <1>1, <1>4 DEF Notify, Notified
  <2>2. Scheduled(d)
    BY <1>2, <1>4, <2>1 DEF Scheduled, MayDeliver, Primary
  <2> QED
    BY <1>2, <2>1, <2>2
<1> QED
  BY <1>3, <1>4

LEMMA SubscribeStep ==
  ASSUME PlaneInv, NEW t \in Topics, Subscribe(t)
  PROVE  PlaneInv'
<1>1. PICK x : x = [client EXCEPT !.listening = @ \union {t}]
  OBVIOUS
<1>2. client' = Reconcile(x) /\ UNCHANGED <<broker, stale, owed, covered>>
  BY <1>1 DEF Subscribe
<1>3. spent' \in [{"writes", "restarts", "cuts", "toggles"} -> Nat]
  BY SpendTypes DEF Subscribe
<1>4. /\ x \in Clients /\ x.listening = client.listening \union {t} /\ x.dirty = client.dirty
      /\ x.capability = client.capability /\ x.state = client.state /\ x.barrier = client.barrier
      /\ x.visible = client.visible /\ x.ready = client.ready
      /\ x.cursor = client.cursor /\ x.socket = client.socket /\ x.sent = client.sent
      /\ x.timers = client.timers
  BY <1>1, ClientFacts DEF Clients
<1>5. Scheduled(x)
  BY <1>4, ClientFacts DEF Scheduled
<1>6. /\ Beside(client, client')
      /\ client'.listening = x.listening /\ client'.dirty = x.dirty
      /\ Primary(x) => Primary(client')
  BY <1>2, <1>4, <1>5, ClientFacts, ReconciledFrom
<1>7. owed' # {} \/ client'.dirty # {} => Primary(client')
  BY <1>2, <1>4, <1>6, ClientFacts DEF Primary
<1> QED
  BY <1>2, <1>3, <1>4, <1>6, <1>7, ClientFacts, BesideStep

LEMMA UnsubscribeStep ==
  ASSUME PlaneInv, NEW t \in Topics, Unsubscribe(t)
  PROVE  PlaneInv'
<1>1. PICK x : x = [client EXCEPT !.listening = @ \ {t}, !.dirty = @ \ {t}]
  OBVIOUS
<1>2. /\ client' = Reconcile(x) /\ broker' = broker
      /\ stale' = stale \ {t} /\ owed' = owed \ {t} /\ covered' = covered \ {t}
  BY <1>1 DEF Unsubscribe, Loaded
<1>3. spent' \in [{"writes", "restarts", "cuts", "toggles"} -> Nat]
  BY SpendTypes DEF Unsubscribe
<1>4. /\ x \in Clients /\ x.listening = client.listening \ {t} /\ x.dirty = client.dirty \ {t}
      /\ x.capability = client.capability /\ x.state = client.state /\ x.barrier = client.barrier
      /\ x.visible = client.visible /\ x.ready = client.ready
      /\ x.cursor = client.cursor /\ x.socket = client.socket /\ x.sent = client.sent
      /\ x.timers = client.timers
  BY <1>1, ClientFacts DEF Clients
<1>5. Scheduled(x)
  BY <1>4, ClientFacts DEF Scheduled
<1>6. /\ Beside(client, client')
      /\ client'.listening = x.listening /\ client'.dirty = x.dirty
      /\ Primary(x) => Primary(client')
  BY <1>2, <1>4, <1>5, ClientFacts, ReconciledFrom
<1>7. owed' # {} \/ client'.dirty # {} => Primary(client')
  BY <1>2, <1>4, <1>6, ClientFacts DEF Primary
<1>8. /\ owed' \subseteq owed /\ covered' \subseteq covered /\ stale' \subseteq Topics
      /\ owed' \subseteq client'.listening /\ covered' \subseteq client'.listening
      /\ \A u \in owed' : u \in client.dirty => u \in client'.dirty
  BY <1>2, <1>4, <1>6, ClientFacts
<1> QED
  BY <1>2, <1>3, <1>6, <1>7, <1>8, BesideStep

LEMMA LoadCapabilityStep ==
  ASSUME PlaneInv, LoadCapability
  PROVE  PlaneInv'
<1>1. PICK mode \in Modes : client' = Reconcile([client EXCEPT !.capability = mode])
  BY DEF LoadCapability
<1>2. PICK x : x = [client EXCEPT !.capability = mode]
  OBVIOUS
<1>3. client' = Reconcile(x) /\ UNCHANGED <<broker, stale, owed, covered, spent>>
  BY <1>1, <1>2 DEF LoadCapability
<1>4. /\ x \in Clients /\ x.listening = client.listening /\ x.dirty = client.dirty
      /\ x.state = client.state /\ x.barrier = client.barrier
      /\ x.visible = client.visible /\ x.ready = client.ready
      /\ x.cursor = client.cursor /\ x.socket = client.socket /\ x.sent = client.sent
      /\ x.timers = client.timers
  BY <1>2, ClientFacts DEF Clients
<1>5. owed = {} /\ client.dirty = {}
  BY ClientFacts DEF LoadCapability, Primary
<1>6. Scheduled(x)
  BY <1>4, ClientFacts DEF Scheduled
<1>7. Beside(client, client') /\ client'.listening = x.listening /\ client'.dirty = x.dirty
  BY <1>3, <1>4, <1>6, ClientFacts, ReconciledFrom
<1> QED
  BY <1>3, <1>4, <1>5, <1>7, ClientFacts, BesideStep

LEMMA BackoffTimerStep ==
  ASSUME PlaneInv, BackoffTimer
  PROVE  PlaneInv'
<1>1. PICK x : x = [client EXCEPT !.timers = @ \ {"backoff"}]
  OBVIOUS
<1>2. client' = Reconcile(x) /\ UNCHANGED <<broker, stale, owed, covered, spent>>
  BY <1>1 DEF BackoffTimer
<1>3. /\ x \in Clients /\ x.listening = client.listening /\ x.dirty = client.dirty
      /\ x.capability = client.capability /\ x.state = client.state /\ x.barrier = client.barrier
      /\ x.visible = client.visible /\ x.ready = client.ready
      /\ x.cursor = client.cursor /\ x.socket = client.socket /\ x.sent = client.sent
      /\ x.timers = client.timers \ {"backoff"}
  BY <1>1, ClientFacts DEF Clients
<1>4. Scheduled(x)
  BY <1>3, ClientFacts DEF Scheduled
<1>5. /\ Beside(client, client')
      /\ client'.listening = x.listening /\ client'.dirty = x.dirty
      /\ Primary(x) => Primary(client')
  BY <1>2, <1>3, <1>4, ClientFacts, ReconciledFrom
<1>6. owed' # {} \/ client'.dirty # {} => Primary(client')
  BY <1>2, <1>3, <1>5, ClientFacts DEF Primary
<1> QED
  BY <1>2, <1>3, <1>5, <1>6, ClientFacts, BesideStep

LEMMA ConnectFailsStep ==
  ASSUME PlaneInv, ConnectFails
  PROVE  PlaneInv'
<1>1. client.socket = "connecting" /\ client' = OnClose(client) /\ UNCHANGED <<broker, stale, owed, covered>>
  BY DEF ConnectFails
<1>2. spent' \in [{"writes", "restarts", "cuts", "toggles"} -> Nat]
  BY SpendTypes DEF ConnectFails
<1>3. client \in Clients
  BY ClientFacts
<1>4. /\ client' \in Clients /\ client'.listening = client.listening /\ client'.dirty = client.dirty
      /\ client'.capability = client.capability /\ client'.state \in {"idle", "backing-off"}
      /\ client'.ready = {} /\ client'.cursor = client.cursor
      /\ client'.socket = "none" /\ client'.sent = <<>> /\ "ack" \notin client'.timers
  BY <1>1, <1>3, Closed
<1>5. Scheduled(client')
  BY <1>4 DEF Scheduled
<1>6. Beside(client, client')
  BY <1>1, <1>4, <1>5, ClientFacts DEF Beside
<1>7. owed' # {} \/ client'.dirty # {} => Primary(client')
  BY <1>1, <1>4, ClientFacts DEF Primary
<1> QED
  BY <1>1, <1>2, <1>4, <1>6, <1>7, ClientFacts, BesideStep

LEMMA AckTimerStep ==
  ASSUME PlaneInv, AckTimer
  PROVE  PlaneInv'
<1>1. "ack" \in client.timers /\ client' = FlushAck(client) /\ UNCHANGED <<broker, stale, owed, covered, spent>>
  BY DEF AckTimer
<1>2. client \in Clients
  BY ClientFacts
<1>3. client.socket = "open" /\ client.cursor # None
  BY <1>1 DEF PlaneInv, Plane, Asked
<1>4. /\ client' \in Clients /\ client'.listening = client.listening /\ client'.dirty = client.dirty
      /\ client'.capability = client.capability /\ client'.state = client.state
      /\ client'.barrier = client.barrier /\ client'.visible = client.visible
      /\ client'.ready = client.ready /\ client'.cursor = client.cursor
      /\ client'.socket = client.socket /\ client'.timers = client.timers \ {"ack"}
      /\ \/ client'.sent = client.sent
         \/ \E m \in ToServer : /\ m.type = "ack" /\ m.epoch = client.cursor.epoch /\ m.seq = client.cursor.seq
                                /\ client.cursor # None /\ client.socket = "open"
                                /\ client'.sent = Append(client.sent, m)
  BY <1>1, <1>2, Flushed
<1>5. Scheduled(client')
  BY <1>4, ClientFacts DEF Scheduled
<1>6. Beside(client, client')
  BY <1>1, <1>3, <1>4, <1>5, ClientFacts DEF Beside, MaySend
<1>7. owed' # {} \/ client'.dirty # {} => Primary(client')
  BY <1>1, <1>4, ClientFacts DEF Primary
<1> QED
  BY <1>1, <1>4, <1>6, <1>7, ClientFacts, BesideStep

LEMMA CoalesceTimerStep ==
  ASSUME PlaneInv, CoalesceTimer
  PROVE  PlaneInv'
<1>1. /\ client' = Notify(client) /\ UNCHANGED <<broker, covered, spent>>
      /\ stale' = stale \ Notified(client) /\ owed' = owed \ Notified(client)
  BY DEF CoalesceTimer, Loaded
<1>2. /\ client \in Clients /\ client.dirty \subseteq client.listening
      /\ client.dirty # {} => Primary(client)
      /\ client.state = "ready" => client.barrier
  BY ClientFacts
<1>3. /\ client' \in Clients /\ client'.listening = client.listening
      /\ client'.dirty = client.dirty \ Notified(client)
      /\ client'.capability = client.capability
      /\ client'.ready = client.ready /\ client'.cursor = client.cursor
      /\ client'.socket = client.socket /\ client'.timers = client.timers \ {"coalesce"}
      /\ client'.sent = client.sent /\ Scheduled(client')
  BY <1>1, <1>2, Delivered
<1>4. Beside(client, client')
  BY <1>2, <1>3, ClientFacts DEF Beside
<1>5. owed' # {} \/ client'.dirty # {} => Primary(client')
  BY <1>1, <1>3, ClientFacts DEF Primary
<1>6. /\ owed' \subseteq owed /\ stale' \subseteq Topics
      /\ owed' \subseteq client'.listening /\ covered' \subseteq client'.listening
      /\ \A u \in owed' : u \in client.dirty => u \in client'.dirty
  BY <1>1, <1>3, ClientFacts
<1> QED
  BY <1>1, <1>4, <1>5, <1>6, ClientFacts, BesideStep

LEMMA HideStep ==
  ASSUME PlaneInv, Hide
  PROVE  PlaneInv'
<1>1. client' = [client EXCEPT !.visible = FALSE] /\ UNCHANGED <<broker, stale, owed, covered, spent>>
  BY DEF Hide
<1>2. /\ client' \in Clients /\ client'.listening = client.listening /\ client'.dirty = client.dirty
      /\ client'.capability = client.capability /\ client'.state = client.state
      /\ client'.barrier = client.barrier /\ client'.visible = FALSE
      /\ client'.ready = client.ready /\ client'.cursor = client.cursor
      /\ client'.socket = client.socket /\ client'.timers = client.timers
      /\ client'.sent = client.sent
  BY <1>1, ClientFacts DEF Clients
<1>3. Beside(client, client')
  BY <1>2, ClientFacts DEF Beside, Scheduled
<1>4. owed' # {} \/ client'.dirty # {} => Primary(client')
  BY <1>1, <1>2, ClientFacts DEF Primary
<1> QED
  BY <1>1, <1>2, <1>3, <1>4, ClientFacts, BesideStep

LEMMA ShowStep ==
  ASSUME PlaneInv, Show
  PROVE  PlaneInv'
<1>1. PICK c : c = [client EXCEPT !.visible = TRUE]
  OBVIOUS
<1>2. PICK d : d = IF c.dirty = {} THEN c ELSE Notify(c)
  OBVIOUS
<1>3. /\ client' = IF "backoff" \in d.timers /\ d.socket = "none"
                     THEN Reconcile([d EXCEPT !.timers = @ \ {"backoff"}]) ELSE d
      /\ stale' = stale \ Notified(c) /\ owed' = owed \ Notified(c)
      /\ UNCHANGED <<broker, covered, spent>>
  BY <1>1, <1>2 DEF Show, Loaded
<1>4. /\ c \in Clients /\ c.listening = client.listening /\ c.dirty = client.dirty
      /\ c.capability = client.capability /\ c.state = client.state /\ c.barrier = client.barrier
      /\ c.visible = TRUE /\ c.ready = client.ready
      /\ c.cursor = client.cursor /\ c.socket = client.socket /\ c.sent = client.sent
      /\ c.timers = client.timers
  BY <1>1, ClientFacts DEF Clients
<1>5. /\ d \in Clients /\ d.listening = client.listening
      /\ d.dirty = client.dirty \ Notified(c)
      /\ d.capability = client.capability
      /\ d.ready = client.ready /\ d.cursor = client.cursor
      /\ d.socket = client.socket /\ d.timers \subseteq client.timers
      /\ d.sent = client.sent /\ Scheduled(d)
  <2>1. CASE c.dirty = {}
    <3>1. d = c /\ Notified(c) = {}
      BY <1>2, <2>1 DEF Notified
    <3>2. Scheduled(d)
      BY <1>4, <2>1, <3>1, ClientFacts DEF Scheduled
    <3> QED
      BY <1>4, <3>1, <3>2
  <2>2. CASE c.dirty # {}
    <3>1. d = Notify(c)
      BY <1>2, <2>2
    <3>2. /\ c.dirty \subseteq c.listening
          /\ c.dirty # {} => Primary(c)
          /\ c.state = "ready" => c.barrier
      BY <1>4, ClientFacts DEF Primary
    <3>3. /\ d \in Clients /\ d.listening = c.listening
          /\ d.dirty = c.dirty \ Notified(c)
          /\ d.capability = c.capability
          /\ d.ready = c.ready /\ d.cursor = c.cursor
          /\ d.socket = c.socket /\ d.timers = c.timers \ {"coalesce"}
          /\ d.sent = c.sent /\ Scheduled(d)
      BY <1>4, <3>1, <3>2, Delivered
    <3> QED
      BY <1>4, <3>3
  <2> QED
    BY <2>1, <2>2
<1>6. /\ Beside(client, client')
      /\ client'.listening = d.listening /\ client'.dirty = d.dirty
      /\ Primary(d) => Primary(client')
  <2>1. CASE "backoff" \in d.timers /\ d.socket = "none"
    <3>1. PICK x : x = [d EXCEPT !.timers = @ \ {"backoff"}]
      OBVIOUS
    <3>2. client' = Reconcile(x)
      BY <1>3, <2>1, <3>1
    <3>3. /\ x \in Clients /\ x.listening = d.listening /\ x.dirty = d.dirty
          /\ x.capability = d.capability /\ x.state = d.state /\ x.barrier = d.barrier
          /\ x.visible = d.visible /\ x.ready = d.ready
          /\ x.cursor = d.cursor /\ x.socket = d.socket /\ x.sent = d.sent
          /\ x.timers = d.timers \ {"backoff"}
      BY <1>5, <3>1 DEF Clients
    <3>4. Scheduled(x)
      BY <1>5, <3>3 DEF Scheduled
    <3>5. /\ x.timers \subseteq client.timers /\ x.dirty \subseteq x.listening
          /\ x.ready # {} => x.socket = "open"
      BY <1>5, <3>3, ClientFacts
    <3>6. /\ Beside(client, client')
          /\ client'.listening = x.listening /\ client'.dirty = x.dirty
          /\ Primary(x) => Primary(client')
      BY <1>5, <3>2, <3>3, <3>4, <3>5, ClientFacts, ReconciledFrom
    <3> QED
      BY <3>3, <3>6 DEF Primary
  <2>2. CASE ~("backoff" \in d.timers /\ d.socket = "none")
    <3>1. client' = d
      BY <1>3, <2>2
    <3>2. Beside(client, d)
      BY <1>5, ClientFacts DEF Beside
    <3> QED
      BY <3>1, <3>2
  <2> QED
    BY <2>1, <2>2
<1>7. owed' # {} \/ client'.dirty # {} => Primary(client')
  BY <1>3, <1>5, <1>6, ClientFacts DEF Primary
<1>8. /\ owed' \subseteq owed /\ stale' \subseteq Topics
      /\ owed' \subseteq client'.listening /\ covered' \subseteq client'.listening
      /\ \A u \in owed' : u \in client.dirty => u \in client'.dirty
  BY <1>3, <1>5, <1>6, ClientFacts
<1> QED
  BY <1>3, <1>6, <1>7, <1>8, ClientFacts, BesideStep

LEMMA PollStep ==
  ASSUME PlaneInv, NEW t \in Topics, Poll(t)
  PROVE  PlaneInv'
<1>1. /\ UNCHANGED <<broker, client, covered, spent>>
      /\ stale' = stale \ {t} /\ owed' = owed \ {t}
  BY DEF Poll, Loaded
<1>2. Beside(client, client)
  BY ClientFacts DEF Beside
<1> QED
  BY <1>1, <1>2, ClientFacts, BesideStep

-----------------------------------------------------------------------------
(* The client gives its socket up when nothing owed is on its way. *)
LEMMA LeaveKeeps ==
  ASSUME NEW b, NEW c, NEW o, NEW v, Plane(b, c, o, v), NEW d \in Clients,
         d.socket = "none", d.sent = <<>>, d.ready = {}, d.cursor = c.cursor,
         d.listening = c.listening, d.dirty = c.dirty, d.capability = c.capability,
         "ack" \notin d.timers, Scheduled(d),
         \A t \in o : \A p \in DOMAIN b.sent : ~Carries(b.sent[p], t),
         NEW x, x = [Forget(b) EXCEPT !.sent = <<>>]
  PROVE  Plane(x, d, o, v)
<1>1. /\ b \in Brokers /\ c \in Clients /\ o \subseteq Topics /\ v \subseteq Topics
      /\ Wire(b, c, o, v) /\ Asked(b, c) /\ Rung(b, c) /\ Ordered(b, c) /\ News(b, c) /\ Held(b)
      /\ Books(b, c, o, v)
      /\ \A t \in o : Safe(b, c, t)
  BY DEF Plane
<1>2. /\ x.epoch = b.epoch /\ x.seq = b.seq /\ x.ring = b.ring
      /\ x.attached = FALSE /\ x.helloed = FALSE /\ x.topics = {}
      /\ x.sent = <<>> /\ x \in Brokers
  <2>1. x = [b EXCEPT !.attached = FALSE, !.helloed = FALSE, !.topics = {}, !.sent = <<>>]
    BY <1>1 DEF Forget, Brokers
  <2>2. <<>> \in Seq(ToClient)
    OBVIOUS
  <2> QED
    BY <1>1, <2>1, <2>2 DEF Brokers
<1>3. DOMAIN x.sent = {} /\ DOMAIN d.sent = {}
  BY <1>2
<1>4. Oldest(x) = Oldest(b)
  BY <1>2 DEF Oldest
<1>5. Wire(x, d, o, v) /\ Asked(x, d) /\ Books(x, d, o, v)
  BY <1>1, <1>2, <1>3 DEF Wire, Asked, Books, Primary
<1>6. Rung(x, d) /\ Ordered(x, d) /\ News(x, d) /\ Held(x)
  BY <1>1, <1>2, <1>3 DEF Rung, Within, Ordered, News, Held
<1>7. \A t \in o : Safe(x, d, t)
  BY <1>1, <1>2, <1>3, <1>4 DEF Safe, Recoverable
<1> QED
  BY <1>1, <1>2, <1>5, <1>6, <1>7 DEF Plane

(* A broker that serves no socket has nothing to forget. *)
LEMMA NothingToForget ==
  ASSUME NEW b, NEW c, NEW o, NEW v, Plane(b, c, o, v), c.socket # "open"
  PROVE  [Forget(b) EXCEPT !.sent = <<>>] = b
<1>1. b \in Brokers /\ Wire(b, c, o, v)
  BY DEF Plane
<1>2. b.attached = FALSE /\ b.helloed = FALSE /\ b.topics = {} /\ b.sent = <<>>
  BY <1>1 DEF Wire, Brokers
<1>3. [Forget(b) EXCEPT !.sent = <<>>]
        = [b EXCEPT !.attached = FALSE, !.helloed = FALSE, !.topics = {}, !.sent = <<>>]
  BY <1>1 DEF Forget, Brokers
<1>4. [b EXCEPT !.attached = FALSE, !.helloed = FALSE, !.topics = {}, !.sent = <<>>]
        = [b EXCEPT !.attached = b.attached, !.helloed = b.helloed, !.topics = b.topics, !.sent = b.sent]
  BY <1>2
<1>5. [b EXCEPT !.attached = b.attached, !.helloed = b.helloed, !.topics = b.topics, !.sent = b.sent] = b
  BY <1>1 DEF Brokers
<1> QED
  BY <1>3, <1>4, <1>5

LEMMA IdleTimerStep ==
  ASSUME PlaneInv, IdleTimer
  PROVE  PlaneInv'
<1>1. PICK c : c = [client EXCEPT !.timers = @ \ {"idle"}]
  OBVIOUS
<1>2. /\ IF c.listening # {}
           THEN client' = c /\ broker' = broker
           ELSE /\ client' = [Teardown(FlushAck(c)) EXCEPT !.state = "idle"]
                /\ broker' = HangUp(broker, client')
      /\ UNCHANGED <<stale, owed, covered, spent>>
  BY <1>1 DEF IdleTimer
<1>3. /\ c \in Clients /\ c.listening = client.listening /\ c.dirty = client.dirty
      /\ c.capability = client.capability /\ c.state = client.state /\ c.barrier = client.barrier
      /\ c.visible = client.visible /\ c.ready = client.ready
      /\ c.cursor = client.cursor /\ c.socket = client.socket /\ c.sent = client.sent
      /\ c.timers = client.timers \ {"idle"}
  BY <1>1, ClientFacts DEF Clients
<1>4. Plane(broker, client, owed, covered)
  BY DEF PlaneInv
<1>5. CASE c.listening # {}
  <2>1. client' = c /\ broker' = broker
    BY <1>2, <1>5
  <2>2. Beside(client, client')
    BY <1>3, <2>1, ClientFacts DEF Beside, Scheduled
  <2>3. owed' # {} \/ client'.dirty # {} => Primary(client')
    BY <1>2, <1>3, <2>1, ClientFacts DEF Primary
  <2> QED
    BY <1>2, <1>3, <2>1, <2>2, <2>3, ClientFacts, BesideStep
<1>6. CASE c.listening = {}
  <2>1. PICK f : f = FlushAck(c)
    OBVIOUS
  <2>2. /\ f \in Clients /\ f.listening = c.listening /\ f.dirty = c.dirty
        /\ f.capability = c.capability /\ f.cursor = c.cursor
    BY <1>3, <2>1, Flushed
  <2>3. /\ client' \in Clients /\ client'.listening = f.listening /\ client'.dirty = f.dirty
        /\ client'.capability = f.capability /\ client'.ready = {} /\ client'.cursor = f.cursor
        /\ client'.socket = "none" /\ client'.sent = <<>> /\ "ack" \notin client'.timers
        /\ client'.state = "idle"
    <3>1. PICK T : T = f.timers \ {"ack"}
      OBVIOUS
    <3>2. T \in SUBSET Timers /\ "ack" \notin T /\ <<>> \in Seq(ToServer) /\ "idle" \in States
      BY <2>2, <3>1 DEF Clients, States
    <3>3. client' = [f EXCEPT !.socket = "none", !.ready = {}, !.sent = <<>>, !.timers = T, !.state = "idle"]
      BY <1>2, <1>6, <2>1, <2>2, <3>1 DEF Teardown, Clients
    <3> QED
      BY <2>2, <3>2, <3>3 DEF Clients
  <2>4. Scheduled(client')
    BY <2>3 DEF Scheduled
  <2>5. broker' = [Forget(broker) EXCEPT !.sent = <<>>]
    BY <1>2, <1>6, <2>3 DEF HangUp
  <2>6. owed = {}
    BY <1>3, <1>6, ClientFacts
  <2>7. Plane(broker', client', owed, covered)
    BY <1>3, <1>4, <2>2, <2>3, <2>4, <2>5, <2>6, LeaveKeeps
  <2> QED
    BY <1>2, <2>7 DEF PlaneInv
<1> QED
  BY <1>5, <1>6

LEMMA OpenStep ==
  ASSUME PlaneInv, Open
  PROVE  PlaneInv'
<1>1. PICK m : m = [type |-> "hello", topics |-> client.listening, resume |-> client.cursor]
  OBVIOUS
<1>2. /\ client.socket = "connecting"
      /\ client' = Send([client EXCEPT !.socket = "open"], m)
      /\ broker' = [broker EXCEPT !.attached = TRUE]
      /\ UNCHANGED <<stale, owed, covered, spent>>
  BY <1>1 DEF Open
<1>3. /\ broker \in Brokers /\ client \in Clients /\ owed \subseteq Topics /\ covered \subseteq Topics
      /\ Wire(broker, client, owed, covered) /\ Asked(broker, client) /\ Rung(broker, client)
      /\ Ordered(broker, client) /\ News(broker, client) /\ Held(broker)
      /\ Books(broker, client, owed, covered) /\ Scheduled(client)
      /\ \A t \in owed : Safe(broker, client, t)
  BY DEF PlaneInv, Plane
<1>4. m \in ToServer /\ m.type = "hello" /\ m.resume = client.cursor /\ m.topics = client.listening
  BY <1>1, <1>3 DEF ToServer, Clients
<1>5. PICK s : s = Append(client.sent, m)
  OBVIOUS
<1>6. s \in Seq(ToServer) /\ DOMAIN s = {1} /\ s[1] = m /\ s # <<>>
  <2>1. client.sent = <<>> /\ <<>> \in Seq(ToServer)
    BY <1>2, <1>3 DEF Wire
  <2>2. s = <<m>>
    BY <1>5, <2>1
  <2> QED
    BY <1>4, <2>2
<1>7. client' = [client EXCEPT !.socket = "open", !.sent = s]
  <2>1. PICK y : y = [client EXCEPT !.socket = "open"]
    OBVIOUS
  <2>2. y.socket = "open" /\ y.sent = client.sent
    BY <1>3, <2>1 DEF Clients
  <2>3. client' = [y EXCEPT !.sent = s]
    BY <1>2, <1>5, <2>1, <2>2 DEF Send
  <2> QED
    BY <1>3, <2>1, <2>3 DEF Clients
<1>8. /\ client' \in Clients /\ client'.listening = client.listening /\ client'.dirty = client.dirty
      /\ client'.capability = client.capability /\ client'.state = client.state
      /\ client'.barrier = client.barrier /\ client'.visible = client.visible
      /\ client'.ready = client.ready /\ client'.cursor = client.cursor
      /\ client'.socket = "open" /\ client'.timers = client.timers /\ client'.sent = s
  BY <1>3, <1>6, <1>7 DEF Clients
<1>9. /\ broker'.epoch = broker.epoch /\ broker'.seq = broker.seq /\ broker'.ring = broker.ring
      /\ broker'.attached = TRUE /\ broker'.helloed = FALSE /\ broker'.topics = {}
      /\ broker'.sent = <<>> /\ broker' \in Brokers
  BY <1>2, <1>3 DEF Wire, Brokers
<1>10. DOMAIN broker'.sent = {} /\ Oldest(broker') = Oldest(broker)
  BY <1>9 DEF Oldest
<1>11. Wire(broker', client', owed, covered)
  BY <1>3, <1>4, <1>6, <1>8, <1>9 DEF Wire, Books
<1>12. Asked(broker', client')
  BY <1>2, <1>3, <1>4, <1>6, <1>8, <1>9 DEF Asked
<1>13. Rung(broker', client')
  BY <1>3, <1>8, <1>9 DEF Rung, Within
<1>14. Ordered(broker', client') /\ News(broker', client') /\ Held(broker')
  BY <1>10 DEF Ordered, News, Held
<1>15. Books(broker', client', owed, covered) /\ Scheduled(client')
  BY <1>3, <1>8, <1>9 DEF Books, Scheduled, Primary
<1>16. \A t \in owed : Safe(broker', client', t)
  <2>1. DOMAIN broker.sent = {}
    BY <1>2, <1>3 DEF Wire
  <2> QED
    BY <1>3, <1>8, <1>9, <1>10, <2>1 DEF Safe, Recoverable
<1>17. Plane(broker', client', owed, covered)
  BY <1>3, <1>8, <1>9, <1>11, <1>12, <1>13, <1>14, <1>15, <1>16 DEF Plane
<1> QED
  BY <1>2, <1>17 DEF PlaneInv

-----------------------------------------------------------------------------
(* A frame other than a close arrives. *)
Moved(b) == [b EXCEPT !.sent = Tail(@)]

Told(c, d, m) ==
    /\ d \in Clients /\ d.listening = c.listening /\ d.capability = c.capability
    /\ d.socket = "open" /\ c.socket = "open"
    /\ \/ d.cursor = Cursor(m)
       \/ d.cursor = c.cursor /\ Seen(c, m) /\ m.type = "ready"
    /\ \/ d.sent = c.sent
       \/ \E a \in ToServer : /\ a.type = "ack" /\ a.epoch = d.cursor.epoch /\ a.seq = d.cursor.seq
                              /\ d.sent = Append(c.sent, a)
    /\ c.dirty \subseteq d.dirty /\ d.dirty \subseteq d.listening
    /\ d.dirty # {} => Primary(d)
    /\ Scheduled(d)

LEMMA FrameKeeps ==
  ASSUME NEW b, NEW c, NEW o, NEW v, Plane(b, c, o, v), b.sent # <<>>,
         NEW m, m = b.sent[1], m.type # "close", NEW d, Told(c, d, m),
         \A t \in o : Carries(m, t) => t \in d.dirty,
         NEW x, x = Moved(b)
  PROVE  Plane(x, d, o, v)
<1>1. /\ b \in Brokers /\ c \in Clients /\ o \subseteq Topics /\ v \subseteq Topics
      /\ Wire(b, c, o, v) /\ Asked(b, c) /\ Rung(b, c) /\ Ordered(b, c) /\ News(b, c) /\ Held(b)
      /\ Books(b, c, o, v)
      /\ \A t \in o : Safe(b, c, t)
  BY DEF Plane
<1>2. /\ b.sent \in Seq(ToClient) /\ c.sent \in Seq(ToServer) /\ b.epoch \in Nat /\ b.seq \in Nat
  BY <1>1 DEF Brokers, Clients
<1>3. /\ m \in ToClient /\ 1 \in DOMAIN b.sent /\ Tail(b.sent) \in Seq(ToClient)
      /\ \A p \in DOMAIN Tail(b.sent) : p + 1 \in DOMAIN b.sent /\ 1 < p + 1 /\ Tail(b.sent)[p] = b.sent[p + 1]
      /\ \A p, r \in DOMAIN Tail(b.sent) : p < r => p + 1 < r + 1
      /\ \A p \in DOMAIN b.sent : p = 1 \/ (p - 1 \in DOMAIN Tail(b.sent) /\ b.sent[p] = Tail(b.sent)[p - 1])
  <2>1. m \in ToClient /\ 1 \in DOMAIN b.sent /\ Tail(b.sent) \in Seq(ToClient)
    BY <1>2, Shortened
  <2>2. /\ DOMAIN Tail(b.sent) = 1 .. (Len(b.sent) - 1) /\ DOMAIN b.sent = 1 .. Len(b.sent)
        /\ Len(b.sent) \in Nat \ {0}
        /\ \A n \in 1 .. (Len(b.sent) - 1) : Tail(b.sent)[n] = b.sent[n + 1]
    BY <1>2, Shortened
  <2>3. \A p \in DOMAIN Tail(b.sent) : p + 1 \in DOMAIN b.sent /\ 1 < p + 1 /\ Tail(b.sent)[p] = b.sent[p + 1]
    BY <2>2
  <2>4. \A p, r \in DOMAIN Tail(b.sent) : p < r => p + 1 < r + 1
    BY <2>2
  <2>5. ASSUME NEW p \in DOMAIN b.sent, p # 1
        PROVE  p - 1 \in DOMAIN Tail(b.sent) /\ b.sent[p] = Tail(b.sent)[p - 1]
    <3>1. p - 1 \in 1 .. (Len(b.sent) - 1) /\ p - 1 + 1 = p
      BY <2>2, <2>5
    <3> QED
      BY <2>2, <3>1
  <2> QED
    BY <2>1, <2>3, <2>4, <2>5
<1>4. /\ x.epoch = b.epoch /\ x.seq = b.seq /\ x.ring = b.ring
      /\ x.attached = b.attached /\ x.helloed = b.helloed /\ x.topics = b.topics
      /\ x.sent = Tail(b.sent) /\ x \in Brokers
  BY <1>1, <1>3 DEF Moved, Brokers
<1>5. /\ \A p \in DOMAIN x.sent : p + 1 \in DOMAIN b.sent /\ 1 < p + 1 /\ x.sent[p] = b.sent[p + 1]
      /\ \A p, r \in DOMAIN x.sent : p < r => p + 1 < r + 1
      /\ \A p \in DOMAIN b.sent : p = 1 \/ (p - 1 \in DOMAIN x.sent /\ b.sent[p] = x.sent[p - 1])
  BY <1>3, <1>4
<1>6. Oldest(x) = Oldest(b)
  BY <1>4 DEF Oldest
<1>7. /\ m.epoch \in Nat /\ m.seq \in Nat /\ Within(b, m) /\ (b.attached => m.epoch = b.epoch)
      /\ b.attached => b.helloed
  <2>1. m.epoch \in Nat /\ m.seq \in Nat
    BY <1>3 DEF ToClient, Invalidation
  <2>2. Within(b, m) /\ (b.attached => m.epoch = b.epoch)
    BY <1>1, <1>3 DEF Ordered
  <2>3. b.attached => b.helloed
    BY <1>1 DEF Wire
  <2> QED
    BY <2>1, <2>2, <2>3
<1>8. /\ d.cursor # None /\ Within(b, d.cursor) /\ (b.attached => d.cursor.epoch = b.epoch)
      /\ \/ d.cursor = c.cursor
         \/ d.cursor.epoch = m.epoch /\ d.cursor.seq = m.seq
  <2>1. CASE d.cursor = Cursor(m)
    <3>1. d.cursor # None
      BY <1>7, <2>1, NoneAssumption DEF Cursor
    <3>2. d.cursor.epoch = m.epoch /\ d.cursor.seq = m.seq
      BY <2>1 DEF Cursor
    <3> QED
      BY <1>7, <3>1, <3>2 DEF Within
  <2>2. CASE d.cursor = c.cursor /\ Seen(c, m)
    BY <1>1, <1>7, <2>2 DEF Seen, Rung
  <2> QED
    BY <2>1, <2>2 DEF Told
<1>9. /\ \A p \in DOMAIN c.sent : p \in DOMAIN d.sent /\ d.sent[p] = c.sent[p]
      /\ \A p \in DOMAIN d.sent : \/ p \in DOMAIN c.sent /\ d.sent[p] = c.sent[p]
                                  \/ d.sent[p].type = "ack" /\ d.sent[p].epoch = d.cursor.epoch
                                       /\ d.sent[p].seq = d.cursor.seq
  <2>1. CASE d.sent = c.sent
    BY <2>1
  <2>2. ASSUME NEW a \in ToServer, a.type = "ack", a.epoch = d.cursor.epoch, a.seq = d.cursor.seq,
               d.sent = Append(c.sent, a)
        PROVE  /\ \A p \in DOMAIN c.sent : p \in DOMAIN d.sent /\ d.sent[p] = c.sent[p]
               /\ \A p \in DOMAIN d.sent : (p \in DOMAIN c.sent /\ d.sent[p] = c.sent[p]) \/ d.sent[p] = a
    BY <1>2, <2>2, Appended
  <2> QED
    BY <2>1, <2>2 DEF Told
<1>10. Wire(x, d, o, v)
  BY <1>1, <1>4, <1>7 DEF Wire, Told
<1>11. Asked(x, d)
  <2>1. ASSUME NEW p \in DOMAIN d.sent, d.sent[p].type = "hello"
        PROVE  p = 1 /\ ~x.helloed
    BY <1>1, <1>4, <1>9, <2>1 DEF Asked
  <2>2. ASSUME NEW p \in DOMAIN d.sent, x.attached, d.sent[p].type = "ack"
        PROVE  AckValid(x, d.sent[p])
    <3>1. CASE p \in DOMAIN c.sent /\ d.sent[p] = c.sent[p]
      BY <1>1, <1>4, <2>2, <3>1 DEF Asked, AckValid
    <3>2. CASE d.sent[p].epoch = d.cursor.epoch /\ d.sent[p].seq = d.cursor.seq
      BY <1>4, <1>8, <2>2, <3>2 DEF AckValid, Within
    <3> QED
      BY <1>9, <3>1, <3>2
  <2>3. "ack" \in d.timers =>
          /\ d.socket = "open" /\ d.cursor # None
          /\ x.attached => x.helloed /\ d.cursor.epoch = x.epoch
    BY <1>4, <1>7, <1>8 DEF Told
  <2> QED
    BY <2>1, <2>2, <2>3 DEF Asked
<1>12. Rung(x, d)
  BY <1>1, <1>4, <1>8 DEF Rung, Within
<1>13. Ordered(x, d)
  <2>1. ASSUME NEW p \in DOMAIN x.sent, x.sent[p].type = "close"
        PROVE  ~x.attached /\ \A r \in DOMAIN x.sent : p < r => x.sent[r].type = "close"
    BY <1>1, <1>4, <1>5, <2>1 DEF Ordered
  <2>2. ASSUME NEW p \in DOMAIN x.sent, x.sent[p].type # "close"
        PROVE  Within(x, x.sent[p]) /\ (x.attached => x.sent[p].epoch = x.epoch)
    BY <1>1, <1>4, <1>5, <2>2 DEF Ordered, Within
  <2>3. ASSUME NEW r \in DOMAIN x.sent, x.sent[r].type = "invalidate", NEW p \in DOMAIN x.sent, p < r
        PROVE  x.sent[p].type # "close" /\ x.sent[p].epoch = x.sent[r].epoch /\ x.sent[p].seq < x.sent[r].seq
    BY <1>1, <1>5, <2>3 DEF Ordered
  <2> QED
    BY <2>1, <2>2, <2>3 DEF Ordered
<1>14. News(x, d)
  <2>1. ASSUME NEW r \in DOMAIN x.sent, x.sent[r].type = "invalidate"
        PROVE  ~Seen(d, x.sent[r])
    <3>1. PICK f : f = x.sent[r]
      OBVIOUS
    <3>2. ~Seen(c, f) /\ m.epoch = f.epoch /\ m.seq < f.seq /\ f.seq \in Nat
      <4>1. r + 1 \in DOMAIN b.sent /\ 1 < r + 1 /\ f = b.sent[r + 1] /\ f.type = "invalidate"
        BY <1>5, <2>1, <3>1
      <4>2. f \in ToClient
        BY <1>2, <4>1
      <4>3. f.seq \in Nat
        BY <4>1, <4>2 DEF ToClient, Invalidation
      <4>4. ~Seen(c, f)
        BY <1>1, <4>1 DEF News
      <4>5. m.epoch = f.epoch /\ m.seq < f.seq
        BY <1>1, <1>3, <4>1 DEF Ordered
      <4> QED
        BY <4>3, <4>4, <4>5
    <3>3. CASE d.cursor = c.cursor
      BY <3>1, <3>2, <3>3 DEF Seen
    <3>4. CASE d.cursor.epoch = m.epoch /\ d.cursor.seq = m.seq
      BY <1>7, <3>1, <3>2, <3>4 DEF Seen
    <3> QED
      BY <1>8, <3>3, <3>4
  <2>2. ASSUME NEW r \in DOMAIN x.sent
        PROVE  x.sent[r].type # "resync"
    BY <1>1, <1>5 DEF News
  <2> QED
    BY <2>1, <2>2 DEF News
<1>15. Held(x)
  BY <1>1, <1>4, <1>5, <1>6 DEF Held
<1>16. Books(x, d, o, v)
  BY <1>1, <1>4 DEF Books, Told, Primary
<1>17. ASSUME NEW t \in o
       PROVE  Safe(x, d, t)
  <2>1. CASE t \in c.dirty
    BY <2>1 DEF Safe, Told
  <2>2. ASSUME NEW p \in DOMAIN b.sent, Carries(b.sent[p], t)
        PROVE  Safe(x, d, t)
    <3>1. CASE p = 1
      BY <2>2, <3>1 DEF Safe
    <3>2. CASE p # 1
      BY <1>5, <2>2, <3>2 DEF Safe
    <3> QED
      BY <3>1, <3>2
  <2>3. CASE /\ ~b.helloed
             /\ c.cursor # None => Recoverable(b, c.cursor, t)
             /\ \A p \in DOMAIN b.sent : b.sent[p].type # "close" => Recoverable(b, b.sent[p], t)
    <3>1. Recoverable(b, m, t)
      BY <1>3, <2>3
    <3>2. Recoverable(x, d.cursor, t)
      BY <1>4, <1>6, <1>8, <2>3, <3>1 DEF Recoverable
    <3>3. \A p \in DOMAIN x.sent : x.sent[p].type # "close" => Recoverable(x, x.sent[p], t)
      BY <1>4, <1>5, <1>6, <2>3 DEF Recoverable
    <3> QED
      BY <1>4, <2>3, <3>2, <3>3 DEF Safe
  <2> QED
    BY <1>1, <2>1, <2>2, <2>3 DEF Safe
<1>18. d \in Clients /\ Scheduled(d)
  BY DEF Told
<1> QED
  BY <1>1, <1>4, <1>10, <1>11, <1>12, <1>13, <1>14, <1>15, <1>16, <1>17, <1>18 DEF Plane

LEMMA DeliveryScheduled ==
  ASSUME NEW x \in Clients, NEW d, d = ScheduleDelivery(x)
  PROVE  /\ d \in Clients /\ d.listening = x.listening /\ d.capability = x.capability
         /\ d.state = x.state /\ d.barrier = x.barrier /\ d.visible = x.visible
         /\ d.socket = x.socket /\ d.cursor = x.cursor /\ d.sent = x.sent
         /\ d.dirty = x.dirty /\ d.ready = x.ready
         /\ MayDeliver(x) => "coalesce" \in d.timers
<1>1. CASE MayDeliver(x)
  <2>1. PICK T : T = x.timers \union {"coalesce"}
    OBVIOUS
  <2>2. T \in SUBSET Timers /\ "coalesce" \in T
    BY <2>1 DEF Clients, Timers
  <2>3. d = [x EXCEPT !.timers = T]
    BY <1>1, <2>1 DEF ScheduleDelivery
  <2> QED
    BY <2>2, <2>3 DEF Clients
<1>2. CASE ~MayDeliver(x)
  BY <1>2 DEF ScheduleDelivery
<1> QED
  BY <1>1, <1>2

(* What the client is told of is held, with its timer when it may be delivered. *)
LEMMA Marked ==
  ASSUME NEW c \in Clients, Scheduled(c), c.dirty \subseteq c.listening,
         c.dirty # {} => Primary(c),
         NEW T \in SUBSET Topics, NEW d, d = MarkDirty(c, T)
  PROVE  /\ d \in Clients /\ d.listening = c.listening /\ d.capability = c.capability
         /\ d.socket = c.socket /\ d.cursor = c.cursor /\ d.sent = c.sent
         /\ d.dirty = c.dirty \union (IF Primary(c) THEN T \intersect c.listening ELSE {})
         /\ d.dirty # {} => Primary(d)
         /\ Scheduled(d)
<1>1. PICK a : a = IF Primary(c) THEN T \intersect c.listening ELSE {}
  OBVIOUS
<1>2. CASE a = {}
  <2>1. d = c
    BY <1>1, <1>2 DEF MarkDirty
  <2> QED
    BY <1>1, <1>2, <2>1
<1>3. CASE a # {}
  <2>1. PICK x : x = [c EXCEPT !.dirty = @ \union a]
    OBVIOUS
  <2>2. Primary(c) /\ a \subseteq c.listening /\ a \in SUBSET Topics
    BY <1>1, <1>3
  <2>3. /\ x \in Clients /\ x.listening = c.listening /\ x.capability = c.capability
        /\ x.state = c.state /\ x.barrier = c.barrier /\ x.visible = c.visible
        /\ x.socket = c.socket /\ x.cursor = c.cursor /\ x.sent = c.sent
        /\ x.dirty = c.dirty \union a /\ x.timers = c.timers
    BY <2>1, <2>2 DEF Clients
  <2>4. d = ScheduleDelivery(x)
    BY <1>1, <1>3, <2>1 DEF MarkDirty
  <2>5. /\ d \in Clients /\ d.listening = x.listening /\ d.capability = x.capability
        /\ d.state = x.state /\ d.barrier = x.barrier /\ d.visible = x.visible
        /\ d.socket = x.socket /\ d.cursor = x.cursor /\ d.sent = x.sent
        /\ d.dirty = x.dirty
        /\ MayDeliver(x) => "coalesce" \in d.timers
    BY <2>3, <2>4, DeliveryScheduled
  <2>6. Scheduled(d)
    BY <2>2, <2>3, <2>5 DEF Scheduled, MayDeliver, Primary
  <2> QED
    BY <1>1, <2>2, <2>3, <2>5, <2>6 DEF Primary
<1> QED
  BY <1>2, <1>3

(* An acknowledgement goes out, or waits for its timer. *)
LEMMA Acked ==
  ASSUME NEW c \in Clients, Scheduled(c), NEW d \in ScheduleAck(c)
  PROVE  /\ d \in Clients /\ d.listening = c.listening /\ d.capability = c.capability
         /\ d.socket = c.socket /\ d.cursor = c.cursor /\ d.dirty = c.dirty
         /\ \/ d.sent = c.sent
            \/ \E a \in ToServer : /\ a.type = "ack" /\ a.epoch = c.cursor.epoch /\ a.seq = c.cursor.seq
                                   /\ d.sent = Append(c.sent, a)
         /\ Scheduled(d)
<1>1. d = c \/ d = FlushAck(c) \/ d = [c EXCEPT !.timers = @ \union {"ack"}]
  BY DEF ScheduleAck
<1>2. CASE d = c
  BY <1>2
<1>3. CASE d = FlushAck(c)
  <2>1. /\ d \in Clients /\ d.listening = c.listening /\ d.dirty = c.dirty
        /\ d.capability = c.capability /\ d.state = c.state
        /\ d.barrier = c.barrier /\ d.visible = c.visible
        /\ d.ready = c.ready /\ d.cursor = c.cursor
        /\ d.socket = c.socket /\ d.timers = c.timers \ {"ack"}
        /\ \/ d.sent = c.sent
           \/ \E m \in ToServer : /\ m.type = "ack" /\ m.epoch = c.cursor.epoch /\ m.seq = c.cursor.seq
                                  /\ c.cursor # None /\ c.socket = "open"
                                  /\ d.sent = Append(c.sent, m)
    BY <1>3, Flushed
  <2>2. Scheduled(d)
    BY <2>1 DEF Scheduled
  <2> QED
    BY <2>1, <2>2
<1>4. CASE d = [c EXCEPT !.timers = @ \union {"ack"}]
  <2>1. PICK T : T = c.timers \union {"ack"}
    OBVIOUS
  <2>2. T \in SUBSET Timers
    BY <2>1 DEF Clients, Timers
  <2>3. /\ d \in Clients /\ d.listening = c.listening /\ d.capability = c.capability
        /\ d.state = c.state /\ d.barrier = c.barrier /\ d.visible = c.visible
        /\ d.socket = c.socket /\ d.cursor = c.cursor /\ d.dirty = c.dirty
        /\ d.sent = c.sent /\ d.timers = T
    BY <1>4, <2>1, <2>2 DEF Clients
  <2>4. Scheduled(d)
    BY <2>1, <2>3 DEF Scheduled
  <2> QED
    BY <2>3, <2>4
<1> QED
  BY <1>1, <1>2, <1>3, <1>4

LEMMA ReadyTold ==
  ASSUME NEW c \in Clients, c.socket = "open", c.dirty \subseteq c.listening, c.dirty # {} => Primary(c),
         NEW m \in ToClient, m.type = "ready", NEW d, d = OnReady(c, m)
  PROVE  Told(c, d, m) /\ d.dirty = c.dirty
<1>1. m.epoch \in Nat /\ m.seq \in Nat /\ m.topics \in SUBSET Topics
  BY DEF ToClient, Invalidation
<1>2. PICK k : k = IF Seen(c, m) THEN c.cursor ELSE Cursor(m)
  OBVIOUS
<1>3. k \in Cursors \union {None} /\ (k = Cursor(m) \/ (k = c.cursor /\ Seen(c, m)))
  BY <1>1, <1>2 DEF Clients, Cursors, Cursor
<1>4. PICK r : r = m.topics \intersect c.listening
  OBVIOUS
<1>5. PICK x : x = [c EXCEPT !.ready = r, !.cursor = k, !.barrier = TRUE, !.state = "ready"]
  OBVIOUS
<1>6. r \in SUBSET Topics /\ "ready" \in States
  BY <1>1, <1>4 DEF States
<1>7. /\ x.listening = c.listening /\ x.capability = c.capability
      /\ x.state = "ready" /\ x.visible = c.visible
      /\ x.socket = c.socket /\ x.cursor = k /\ x.sent = c.sent
      /\ x.dirty = c.dirty /\ x.barrier = TRUE
  BY <1>5 DEF Clients
<1>8. x \in Clients
  BY <1>3, <1>5, <1>6 DEF Clients
<1>9. d = IF x.dirty = {} THEN x ELSE ScheduleDelivery(x)
  BY <1>2, <1>4, <1>5 DEF OnReady
<1>10. /\ d \in Clients /\ d.listening = x.listening /\ d.capability = x.capability
       /\ d.state = x.state /\ d.barrier = x.barrier /\ d.visible = x.visible
       /\ d.socket = x.socket /\ d.cursor = x.cursor /\ d.sent = x.sent
       /\ d.dirty = x.dirty
       /\ x.dirty # {} /\ MayDeliver(x) => "coalesce" \in d.timers
  <2>1. CASE x.dirty = {}
    BY <1>8, <1>9, <2>1
  <2>2. CASE x.dirty # {}
    BY <1>8, <1>9, <2>2, DeliveryScheduled
  <2> QED
    BY <2>1, <2>2
<1>11. Scheduled(d)
  BY <1>7, <1>10 DEF Scheduled, MayDeliver, Primary
<1> QED
  BY <1>3, <1>7, <1>10, <1>11 DEF Told, Primary

LEMMA InvalidateTold ==
  ASSUME NEW c \in Clients, c.socket = "open", c.dirty \subseteq c.listening, c.dirty # {} => Primary(c),
         Scheduled(c), NEW m \in ToClient, m.type = "invalidate", ~Seen(c, m),
         NEW d \in OnInvalidate(c, m)
  PROVE  /\ Told(c, d, m)
         /\ Primary(c) /\ m.topic \in c.listening => m.topic \in d.dirty
<1>1. m.epoch \in Nat /\ m.seq \in Nat /\ m.topic \in Topics
  BY DEF ToClient, Invalidation
<1>2. Cursor(m) \in Cursors
  BY <1>1 DEF Cursor, Cursors
<1>3. PICK x : x = [c EXCEPT !.cursor = Cursor(m)]
  OBVIOUS
<1>4. /\ x \in Clients /\ x.listening = c.listening /\ x.capability = c.capability
      /\ x.state = c.state /\ x.barrier = c.barrier /\ x.visible = c.visible
      /\ x.socket = c.socket /\ x.cursor = Cursor(m) /\ x.sent = c.sent
      /\ x.dirty = c.dirty /\ x.timers = c.timers
  BY <1>2, <1>3 DEF Clients
<1>5. Scheduled(x) /\ x.dirty \subseteq x.listening /\ (x.dirty # {} => Primary(x))
  BY <1>4 DEF Scheduled, Primary
<1>6. PICK y : y = MarkDirty(x, {m.topic})
  OBVIOUS
<1>7. {m.topic} \in SUBSET Topics
  BY <1>1
<1>8. /\ y \in Clients /\ y.listening = x.listening /\ y.capability = x.capability
      /\ y.socket = x.socket /\ y.cursor = x.cursor /\ y.sent = x.sent
      /\ y.dirty = x.dirty \union (IF Primary(x) THEN {m.topic} \intersect x.listening ELSE {})
      /\ y.dirty # {} => Primary(y)
      /\ Scheduled(y)
  BY <1>4, <1>5, <1>6, <1>7, Marked
<1>9. d \in ScheduleAck(y)
  BY <1>3, <1>6 DEF OnInvalidate
<1>10. /\ d \in Clients /\ d.listening = y.listening /\ d.capability = y.capability
       /\ d.socket = y.socket /\ d.cursor = y.cursor /\ d.dirty = y.dirty
       /\ \/ d.sent = y.sent
          \/ \E a \in ToServer : /\ a.type = "ack" /\ a.epoch = y.cursor.epoch /\ a.seq = y.cursor.seq
                                 /\ d.sent = Append(y.sent, a)
       /\ Scheduled(d)
  BY <1>8, <1>9, Acked
<1>11. c.dirty \subseteq d.dirty /\ d.dirty \subseteq d.listening /\ (d.dirty # {} => Primary(d))
  BY <1>4, <1>5, <1>8, <1>10 DEF Primary
<1>12. Primary(c) /\ m.topic \in c.listening => m.topic \in d.dirty
  BY <1>4, <1>8, <1>10 DEF Primary
<1>13. \/ d.sent = c.sent
       \/ \E a \in ToServer : /\ a.type = "ack" /\ a.epoch = d.cursor.epoch /\ a.seq = d.cursor.seq
                              /\ d.sent = Append(c.sent, a)
  BY <1>4, <1>8, <1>10
<1> QED
  BY <1>4, <1>8, <1>10, <1>11, <1>12, <1>13 DEF Told

LEMMA ResyncTold ==
  ASSUME NEW c \in Clients, c.socket = "open", c.dirty \subseteq c.listening, c.dirty # {} => Primary(c),
         Scheduled(c), NEW m \in ToClient, m.type = "resync",
         NEW d, d = OnResync(c, m)
  PROVE  /\ Told(c, d, m)
         /\ Primary(c) => m.topics \intersect c.listening \subseteq d.dirty
<1>1. m.epoch \in Nat /\ m.seq \in Nat /\ m.topics \in SUBSET Topics
  BY DEF ToClient, Invalidation
<1>2. Cursor(m) \in Cursors /\ 0 \in Nat
  BY <1>1 DEF Cursor, Cursors
<1>3. PICK x : x = [c EXCEPT !.cursor = Cursor(m), !.acked = 0]
  OBVIOUS
<1>4. /\ x \in Clients /\ x.listening = c.listening /\ x.capability = c.capability
      /\ x.state = c.state /\ x.barrier = c.barrier /\ x.visible = c.visible
      /\ x.socket = c.socket /\ x.cursor = Cursor(m) /\ x.sent = c.sent
      /\ x.dirty = c.dirty /\ x.timers = c.timers
  BY <1>2, <1>3 DEF Clients
<1>5. Scheduled(x) /\ x.dirty \subseteq x.listening /\ (x.dirty # {} => Primary(x))
  BY <1>4 DEF Scheduled, Primary
<1>6. d = MarkDirty(x, m.topics)
  BY <1>3 DEF OnResync
<1>7. /\ d \in Clients /\ d.listening = x.listening /\ d.capability = x.capability
      /\ d.socket = x.socket /\ d.cursor = x.cursor /\ d.sent = x.sent
      /\ d.dirty = x.dirty \union (IF Primary(x) THEN m.topics \intersect x.listening ELSE {})
      /\ d.dirty # {} => Primary(d)
      /\ Scheduled(d)
  BY <1>1, <1>4, <1>5, <1>6, Marked
<1>8. c.dirty \subseteq d.dirty /\ d.dirty \subseteq d.listening
  BY <1>4, <1>5, <1>7
<1>9. Primary(c) => m.topics \intersect c.listening \subseteq d.dirty
  BY <1>4, <1>7 DEF Primary
<1> QED
  BY <1>4, <1>7, <1>8, <1>9 DEF Told

LEMMA ClientReceiveStep ==
  ASSUME PlaneInv, ClientReceive
  PROVE  PlaneInv'
<1>1. PICK m : m = Head(broker.sent)
  OBVIOUS
<1>2. PICK y : y = Moved(broker)
  OBVIOUS
<1>3. /\ client.socket = "open" /\ broker.sent # <<>>
      /\ client' \in On(client, m) /\ broker' = HangUp(y, client')
      /\ UNCHANGED <<stale, owed, covered, spent>>
  BY <1>1, <1>2 DEF ClientReceive, Moved
<1>4. /\ Plane(broker, client, owed, covered) /\ broker \in Brokers
      /\ Ordered(broker, client) /\ News(broker, client)
  BY DEF PlaneInv, Plane
<1>5. broker.sent \in Seq(ToClient)
  BY <1>4 DEF Brokers
<1>6. m = broker.sent[1] /\ 1 \in DOMAIN broker.sent /\ m \in ToClient
  BY <1>1, <1>3, <1>5, Shortened
<1>7. /\ client \in Clients /\ client.dirty \subseteq client.listening
      /\ client.dirty # {} => Primary(client)
      /\ owed \subseteq client.listening /\ (owed # {} => Primary(client)) /\ Scheduled(client)
  BY ClientFacts
<1>8. ASSUME Told(client, client', m), \A t \in owed : Carries(m, t) => t \in client'.dirty,
             m.type # "close"
      PROVE  PlaneInv'
  <2>1. broker' = y
    BY <1>3, <1>8 DEF HangUp, Told
  <2>2. Plane(y, client', owed, covered)
    BY <1>2, <1>3, <1>4, <1>6, <1>8, FrameKeeps
  <2> QED
    BY <1>3, <2>1, <2>2 DEF PlaneInv
<1>9. CASE m.type = "ready"
  <2>1. client' = OnReady(client, m)
    BY <1>3, <1>9 DEF On
  <2>2. Told(client, client', m)
    BY <1>3, <1>6, <1>7, <1>9, <2>1, ReadyTold
  <2>3. \A t \in owed : ~Carries(m, t)
    BY <1>9 DEF Carries
  <2> QED
    BY <1>8, <1>9, <2>2, <2>3
<1>10. CASE m.type = "invalidate"
  <2>1. client' \in OnInvalidate(client, m)
    BY <1>3, <1>10 DEF On
  <2>2. ~Seen(client, m)
    BY <1>4, <1>6, <1>10 DEF News
  <2>3. /\ Told(client, client', m)
        /\ Primary(client) /\ m.topic \in client.listening => m.topic \in client'.dirty
    BY <1>3, <1>6, <1>7, <1>10, <2>1, <2>2, InvalidateTold
  <2>4. \A t \in owed : Carries(m, t) => t \in client'.dirty
    BY <1>7, <1>10, <2>3 DEF Carries
  <2> QED
    BY <1>8, <1>10, <2>3, <2>4
<1>11. CASE m.type = "resync"
  <2>1. client' = OnResync(client, m)
    BY <1>3, <1>11 DEF On
  <2>2. /\ Told(client, client', m)
        /\ Primary(client) => m.topics \intersect client.listening \subseteq client'.dirty
    BY <1>3, <1>6, <1>7, <1>11, <2>1, ResyncTold
  <2>3. \A t \in owed : Carries(m, t) => t \in client'.dirty
    BY <1>7, <1>11, <2>2 DEF Carries
  <2> QED
    BY <1>8, <1>11, <2>2, <2>3
<1>12. CASE m.type = "close"
  <2>1. client' = OnClose(client)
    BY <1>3, <1>12 DEF On
  <2>2. /\ client' \in Clients /\ client'.listening = client.listening /\ client'.dirty = client.dirty
        /\ client'.capability = client.capability /\ client'.state \in {"idle", "backing-off"}
        /\ client'.ready = {} /\ client'.cursor = client.cursor
        /\ client'.socket = "none" /\ client'.sent = <<>> /\ "ack" \notin client'.timers
    BY <1>7, <2>1, Closed
  <2>3. Scheduled(client')
    BY <2>2 DEF Scheduled
  <2>4. \A p \in DOMAIN broker.sent : broker.sent[p].type = "close"
    <3>1. \A p \in DOMAIN broker.sent : p = 1 \/ 1 < p
      BY <1>5
    <3> QED
      BY <1>4, <1>6, <1>12, <3>1 DEF Ordered
  <2>5. \A t \in owed : \A p \in DOMAIN broker.sent : ~Carries(broker.sent[p], t)
    BY <2>4 DEF Carries
  <2>6. broker' = [Forget(broker) EXCEPT !.sent = <<>>]
    <3>1. broker' = [Forget(y) EXCEPT !.sent = <<>>]
      BY <1>3, <2>2 DEF HangUp
    <3>2. Forget(y) = [broker EXCEPT !.sent = Tail(broker.sent), !.attached = FALSE, !.helloed = FALSE, !.topics = {}]
      BY <1>2, <1>4 DEF Forget, Moved, Brokers
    <3>3. broker' = [broker EXCEPT !.attached = FALSE, !.helloed = FALSE, !.topics = {}, !.sent = <<>>]
      BY <1>4, <3>1, <3>2 DEF Brokers
    <3>4. [Forget(broker) EXCEPT !.sent = <<>>]
            = [broker EXCEPT !.attached = FALSE, !.helloed = FALSE, !.topics = {}, !.sent = <<>>]
      BY <1>4 DEF Forget, Brokers
    <3> QED
      BY <3>3, <3>4
  <2>7. Plane(broker', client', owed, covered)
    BY <1>4, <2>2, <2>3, <2>5, <2>6, LeaveKeeps
  <2> QED
    BY <1>3, <2>7 DEF PlaneInv
<1>13. m.type \in {"ready", "invalidate", "resync", "close"}
  BY <1>6 DEF ToClient, Invalidation
<1> QED
  BY <1>9, <1>10, <1>11, <1>12, <1>13

-----------------------------------------------------------------------------
LEMMA InitPlane == Init => PlaneInv
<1> SUFFICES ASSUME Init PROVE PlaneInv
  OBVIOUS
<1>1. /\ broker.epoch = 0 /\ broker.seq = 0 /\ broker.ring = <<>> /\ broker.attached = FALSE
      /\ broker.helloed = FALSE /\ broker.topics = {} /\ broker.sent = <<>>
      /\ owed = {} /\ covered = {} /\ stale = {}
  BY DEF Init, NewBroker
<1>2. broker \in Brokers
  <2>1. <<>> \in Seq(ToClient) /\ <<>> \in Seq(Invalidation)
    OBVIOUS
  <2> QED
    BY <2>1 DEF Init, NewBroker, Brokers
<1>3. /\ client.listening = {} /\ client.capability = "unread" /\ client.state = "idle"
      /\ client.socket = "none" /\ client.ready = {} /\ client.cursor = None /\ client.barrier = FALSE
      /\ client.dirty = {} /\ client.timers = {} /\ client.visible = TRUE /\ client.sent = <<>>
  BY DEF Init, NewClient
<1>4. client \in Clients
  <2>1. <<>> \in Seq(ToServer) /\ "idle" \in States
    BY DEF States
  <2> QED
    BY <2>1 DEF Init, NewClient, Clients
<1>5. DOMAIN broker.sent = {} /\ DOMAIN broker.ring = {} /\ DOMAIN client.sent = {}
  BY <1>1, <1>3
<1>6. Wire(broker, client, owed, covered) /\ Asked(broker, client) /\ Books(broker, client, owed, covered)
  BY <1>1, <1>3, <1>5 DEF Wire, Asked, Books
<1>7. Rung(broker, client) /\ Ordered(broker, client) /\ News(broker, client) /\ Held(broker)
  BY <1>3, <1>5 DEF Rung, Ordered, News, Held
<1>8. Scheduled(client)
  BY <1>3 DEF Scheduled
<1>9. Plane(broker, client, owed, covered)
  BY <1>1, <1>2, <1>4, <1>6, <1>7, <1>8 DEF Plane
<1>10. spent \in [{"writes", "restarts", "cuts", "toggles"} -> Nat]
  <2>1. spent = [writes |-> 0, restarts |-> 0, cuts |-> 0, toggles |-> 0]
    BY DEF Init
  <2> QED
    BY <2>1
<1> QED
  BY <1>1, <1>9, <1>10 DEF PlaneInv

LEMMA PlaneStep == PlaneInv /\ [Next]_vars => PlaneInv'
<1> SUFFICES ASSUME PlaneInv, [Next]_vars PROVE PlaneInv'
  OBVIOUS
<1>1. CASE ServerReceive
  BY <1>1, ServerReceiveStep
<1>2. CASE Open
  BY <1>2, OpenStep
<1>3. CASE ClientReceive
  BY <1>3, ClientReceiveStep
<1>4. ASSUME NEW t \in Topics, Publish(t) \/ Subscribe(t) \/ Unsubscribe(t) \/ Poll(t)
      PROVE  PlaneInv'
  BY <1>4, PublishStep, SubscribeStep, UnsubscribeStep, PollStep
<1>5. CASE Cut
  BY <1>5, CutStep
<1>6. CASE Restart
  BY <1>6, RestartStep
<1>7. CASE LoadCapability
  BY <1>7, LoadCapabilityStep
<1>8. CASE ConnectFails
  BY <1>8, ConnectFailsStep
<1>9. CASE CoalesceTimer
  BY <1>9, CoalesceTimerStep
<1>10. CASE AckTimer
  BY <1>10, AckTimerStep
<1>11. CASE BackoffTimer
  BY <1>11, BackoffTimerStep
<1>12. CASE IdleTimer
  BY <1>12, IdleTimerStep
<1>13. CASE Hide
  BY <1>13, HideStep
<1>14. CASE Show
  BY <1>14, ShowStep
<1>15. CASE PartingReceive
  BY <1>15 DEF PartingReceive, PlaneInv
<1>16. CASE UNCHANGED vars
  BY <1>16 DEF vars, PlaneInv
<1> QED
  BY <1>1, <1>2, <1>3, <1>4, <1>5, <1>6, <1>7, <1>8, <1>9, <1>10, <1>11, <1>12, <1>13, <1>14, <1>15, <1>16
  DEF Next, Network

-----------------------------------------------------------------------------
(* The sockets the client has closed: the broker they are read by only grows   *)
(* until it restarts, and then they are gone.                                  *)
LEMMA DeliverAlike ==
  ASSUME NEW b \in Brokers, NEW frames, NEW x \in Deliver(b, frames)
  PROVE  x.epoch = b.epoch /\ x.seq = b.seq /\ (x.attached => x.helloed = b.helloed)
<1>1. PICK all : all = b.sent \o frames
  OBVIOUS
<1>2. CASE x = [b EXCEPT !.sent = all]
  BY <1>2 DEF Brokers
<1>3. ASSUME NEW n \in Len(b.sent) .. Len(all) - 1, x = Refuse([b EXCEPT !.sent = SubSeq(all, 1, n)])
      PROVE  x.epoch = b.epoch /\ x.seq = b.seq /\ ~x.attached
  BY <1>3 DEF Refuse, Forget, Brokers
<1> QED
  BY <1>1, <1>2, <1>3 DEF Deliver

LEMMA HandleAlike ==
  ASSUME NEW b \in Brokers, NEW m \in ToServer, NEW x \in Handle(b, m)
  PROVE  x.epoch = b.epoch /\ x.seq = b.seq /\ (x.attached => x.helloed)
<1>1. ASSUME NEW h \in Brokers, x = Refuse(h)
      PROVE  x.epoch = h.epoch /\ x.seq = h.seq /\ ~x.attached
  BY <1>1 DEF Refuse, Forget, Brokers
<1>2. CASE m.type = "hello" /\ ~b.helloed
  <2>1. PICK h : h = [b EXCEPT !.helloed = TRUE, !.topics = m.topics]
    OBVIOUS
  <2>2. h \in Brokers /\ h.helloed /\ h.epoch = b.epoch /\ h.seq = b.seq
    <3>1. m.topics \in SUBSET Topics
      BY <1>2 DEF ToServer
    <3> QED
      BY <2>1, <3>1 DEF Brokers
  <2>3. x \in Hello(b, m)
    BY <1>2 DEF Handle
  <2>4. x = Refuse(h) \/ \E frames : x \in Deliver(h, frames)
    <3>1. CASE m.resume = None
      BY <2>1, <2>3, <3>1 DEF Hello
    <3>2. CASE m.resume # None /\ Impossible(h, m.resume)
      BY <2>1, <2>3, <3>2 DEF Hello
    <3>3. CASE m.resume # None /\ ~Impossible(h, m.resume)
      BY <2>1, <2>3, <3>3 DEF Hello
    <3> QED
      BY <3>1, <3>2, <3>3
  <2> QED
    BY <1>1, <2>2, <2>4, DeliverAlike
<1>3. CASE m.type = "subscribe" /\ b.helloed
  <2>1. PICK s : s = [b EXCEPT !.topics = m.topics]
    OBVIOUS
  <2>2. s \in Brokers /\ s.helloed /\ s.epoch = b.epoch /\ s.seq = b.seq
    <3>1. m.topics \in SUBSET Topics
      BY <1>3 DEF ToServer
    <3> QED
      BY <1>3, <2>1, <3>1 DEF Brokers
  <2>3. x \in Deliver(s, <<Ready(s)>>)
    BY <1>3, <2>1 DEF Handle, Replace
  <2> QED
    BY <2>2, <2>3, DeliverAlike
<1>4. CASE m.type = "ack" /\ b.helloed /\ AckValid(b, m)
  BY <1>4 DEF Handle
<1>5. CASE /\ ~(m.type = "hello" /\ ~b.helloed)
           /\ ~(m.type = "subscribe" /\ b.helloed)
           /\ ~(m.type = "ack" /\ b.helloed /\ AckValid(b, m))
  <2>1. x = Refuse(b)
    BY <1>5 DEF Handle
  <2> QED
    BY <1>1, <2>1
<1> QED
  BY <1>2, <1>3, <1>4, <1>5

LEMMA HangUpAlike ==
  ASSUME NEW b \in Brokers, NEW s, NEW c
  PROVE  /\ HangUp(b, c).epoch = b.epoch /\ HangUp(b, c).seq = b.seq
         /\ HangUp([b EXCEPT !.sent = s], c).epoch = b.epoch
         /\ HangUp([b EXCEPT !.sent = s], c).seq = b.seq
  BY DEF HangUp, Forget, Brokers

(* No step but a restart takes anything back of what the broker counts. *)
LEMMA BrokerOnward ==
  ASSUME PlaneInv, [Next]_vars, ~Restart
  PROVE  broker'.epoch = broker.epoch /\ broker'.seq \in Nat /\ broker.seq <= broker'.seq
<1>1. broker \in Brokers /\ broker.epoch \in Nat /\ broker.seq \in Nat
  BY DEF PlaneInv, Plane, Brokers
<1>2. broker'.epoch = broker.epoch /\ broker'.seq = broker.seq =>
        broker'.epoch = broker.epoch /\ broker'.seq \in Nat /\ broker.seq <= broker'.seq
  BY <1>1
<1>3. CASE ServerReceive
  <2>1. PICK m : m = Head(client.sent)
    OBVIOUS
  <2>2. m \in ToServer /\ broker' \in Handle(broker, m)
    <3>1. client.sent \in Seq(ToServer) /\ client.sent # <<>>
      BY <1>3 DEF ServerReceive, PlaneInv, Plane, Clients
    <3> QED
      BY <1>3, <2>1, <3>1, Shortened DEF ServerReceive
  <2> QED
    BY <1>1, <1>2, <2>2, HandleAlike
<1>4. CASE Open
  BY <1>1, <1>2, <1>4 DEF Open, Brokers
<1>5. CASE ClientReceive
  <2>1. PICK s : s = Tail(broker.sent)
    OBVIOUS
  <2>2. broker' = HangUp([broker EXCEPT !.sent = s], client')
    BY <1>5, <2>1 DEF ClientReceive
  <2> QED
    BY <1>1, <1>2, <2>2, HangUpAlike
<1>6. ASSUME NEW t \in Topics, Publish(t)
      PROVE  broker'.epoch = broker.epoch /\ broker'.seq \in Nat /\ broker.seq <= broker'.seq
  <2>1. PICK m, w : m = Notice(broker, t) /\ w = Written(broker, t)
    OBVIOUS
  <2>2. w \in Brokers /\ w.seq = broker.seq + 1 /\ w.epoch = broker.epoch
    BY <1>6, <2>1, WriteKeeps DEF PlaneInv, Plane
  <2>3. broker' \in Deliver(w, <<m>>) \/ broker' = w
    BY <1>6, <2>1 DEF Publish, Notice, Written
  <2>4. broker'.epoch = w.epoch /\ broker'.seq = w.seq
    BY <2>2, <2>3, DeliverAlike
  <2> QED
    BY <1>1, <2>2, <2>4
<1>7. CASE Cut
  BY <1>1, <1>2, <1>7 DEF Cut, Refuse, Forget, Brokers
<1>8. CASE IdleTimer
  <2>1. broker' = broker \/ broker' = HangUp(broker, client')
    BY <1>8 DEF IdleTimer
  <2>2. HangUp(broker, client').epoch = broker.epoch /\ HangUp(broker, client').seq = broker.seq
    BY <1>1, HangUpAlike
  <2>3. broker'.epoch = broker.epoch /\ broker'.seq = broker.seq
    BY <2>1, <2>2
  <2> QED
    BY <1>2, <2>3
<1>9. CASE \/ PartingReceive \/ LoadCapability \/ ConnectFails \/ CoalesceTimer \/ AckTimer
           \/ BackoffTimer \/ Hide \/ Show \/ UNCHANGED vars
           \/ \E t \in Topics : Subscribe(t) \/ Unsubscribe(t) \/ Poll(t)
  <2>1. broker' = broker
    BY <1>9 DEF PartingReceive, LoadCapability, ConnectFails, CoalesceTimer, AckTimer,
                BackoffTimer, Hide, Show, vars, Subscribe, Unsubscribe, Poll
  <2> QED
    BY <1>2, <2>1
<1> QED
  BY <1>3, <1>4, <1>5, <1>6, <1>7, <1>8, <1>9 DEF Next, Network

LEMMA PartedStays ==
  ASSUME NEW b, NEW d, b.epoch \in Nat, b.seq \in Nat, d.seq \in Nat,
         d.epoch = b.epoch, b.seq <= d.seq,
         NEW h, NEW f \in Seq(ToServer), Parted(b, h, f)
  PROVE  Parted(d, h, f)
<1>1. ASSUME NEW k \in DOMAIN f, f[k].type = "hello", f[k].resume # None
      PROVE  Within(d, f[k].resume)
  <2>1. f[k] \in ToServer
    OBVIOUS
  <2>2. f[k].resume \in Cursors /\ Within(b, f[k].resume)
    BY <1>1, <2>1 DEF ToServer, Parted
  <2> QED
    BY <2>2 DEF Within, Cursors
<1>2. ASSUME NEW k \in DOMAIN f, f[k].type = "ack", AckValid(b, f[k])
      PROVE  AckValid(d, f[k])
  <2>1. f[k] \in ToServer
    OBVIOUS
  <2>2. f[k].seq \in Nat
    BY <1>2, <2>1 DEF ToServer
  <2> QED
    BY <1>2, <2>2 DEF AckValid
<1> QED
  BY <1>1, <1>2 DEF Parted

(* What is left once the first frame of a closed socket was taken. *)
LEMMA PartedTail ==
  ASSUME NEW b, NEW h, NEW f \in Seq(ToServer), f # <<>>, Parted(b, h, f)
  PROVE  Parted(b, TRUE, Tail(f))
<1>1. /\ Len(f) \in Nat /\ Len(Tail(f)) = Len(f) - 1 /\ DOMAIN Tail(f) = 1 .. (Len(f) - 1)
      /\ \A k \in DOMAIN Tail(f) : k + 1 \in DOMAIN f /\ 1 < k + 1 /\ Tail(f)[k] = f[k + 1]
  BY Shortened
<1>2. ASSUME NEW k \in DOMAIN Tail(f)
      PROVE  Tail(f)[k].type # "hello"
  BY <1>1 DEF Parted
<1>3. ASSUME NEW k \in DOMAIN Tail(f), Tail(f)[k].type = "ack"
      PROVE  AckValid(b, Tail(f)[k]) \/ (k = Len(Tail(f)) /\ Tail(f)[k].epoch < b.epoch)
  <2>1. k + 1 = Len(f) => k = Len(Tail(f))
    BY <1>1
  <2> QED
    BY <1>1, <1>3, <2>1 DEF Parted
<1> QED
  BY <1>2, <1>3 DEF Parted

(* A socket is closed with what the broker takes, and with the acknowledgement *)
(* that is flushed last.                                                       *)
LEMMA UnreadParted ==
  ASSUME PlaneInv, NEW c \in Clients, c.sent = client.sent, c.cursor = client.cursor,
         NEW f, f = FlushAck(c), NEW p \in Unread(broker, f)
  PROVE  p \in Partings /\ Parted(broker, p.helloed, p.frames)
<1>1. /\ broker \in Brokers /\ client \in Clients
      /\ Wire(broker, client, owed, covered) /\ Asked(broker, client) /\ Rung(broker, client)
  BY DEF PlaneInv, Plane
<1>2. f \in Clients /\ (f.sent = c.sent \/ \E m \in ToServer :
        /\ m.type = "ack" /\ m.epoch = c.cursor.epoch /\ m.seq = c.cursor.seq
        /\ c.cursor # None /\ f.sent = Append(c.sent, m))
  BY Flushed
<1>3. /\ broker.attached /\ f.sent # <<>>
      /\ p = [helloed |-> broker.helloed, frames |-> f.sent]
  BY DEF Unread
<1>4. p \in Partings /\ p.helloed = broker.helloed /\ p.frames = f.sent
  BY <1>1, <1>2, <1>3 DEF Partings, Brokers, Clients
<1>5. /\ client.sent \in Seq(ToServer) /\ broker.epoch \in Nat /\ broker.seq \in Nat
      /\ client.cursor # None => client.cursor \in Cursors /\ Within(broker, client.cursor)
  BY <1>1 DEF Clients, Brokers, Rung
<1>6. ~broker.helloed => /\ 1 \in DOMAIN client.sent /\ client.sent[1].type = "hello"
                         /\ client.sent[1].resume = client.cursor
  BY <1>1, <1>3, <1>5, Shortened DEF Wire
<1>7. \A k \in DOMAIN client.sent :
        /\ client.sent[k].type = "hello" => k = 1 /\ ~broker.helloed
        /\ client.sent[k].type = "ack" => AckValid(broker, client.sent[k])
  BY <1>1, <1>3 DEF Asked
<1>8. \A k \in DOMAIN client.sent : client.sent[k].type = "hello" /\ client.sent[k].resume # None =>
        Within(broker, client.sent[k].resume)
  BY <1>5, <1>6, <1>7
<1>9. Parted(broker, broker.helloed, client.sent)
  BY <1>6, <1>7, <1>8 DEF Parted
<1>10. CASE f.sent = client.sent
  BY <1>4, <1>9, <1>10
<1>11. ASSUME NEW m \in ToServer, m.type = "ack", m.epoch = client.cursor.epoch,
              m.seq = client.cursor.seq, client.cursor # None, f.sent = Append(client.sent, m)
       PROVE  Parted(broker, broker.helloed, f.sent)
  <2>1. AckValid(broker, m) \/ m.epoch < broker.epoch
    BY <1>5, <1>11 DEF Within, AckValid, Cursors
  <2>2. PICK n : n = Len(client.sent)
    OBVIOUS
  <2>3. /\ n \in Nat /\ Len(f.sent) = n + 1 /\ DOMAIN f.sent = 1 .. (n + 1)
        /\ DOMAIN client.sent = 1 .. n /\ f.sent[n + 1] = m
        /\ \A k \in 1 .. n : f.sent[k] = client.sent[k]
    BY <1>5, <1>11, <2>2, Appended
  <2>4. \A k \in DOMAIN f.sent : \/ k \in DOMAIN client.sent /\ f.sent[k] = client.sent[k]
                                 \/ k = Len(f.sent) /\ f.sent[k] = m
    BY <2>3
  <2>5. ~broker.helloed => f.sent[1].type = "hello"
    BY <1>6, <2>3
  <2> QED
    BY <1>7, <1>8, <1>11, <2>1, <2>4, <2>5 DEF Parted
<1> QED
  BY <1>2, <1>4, <1>10, <1>11

LEMMA InitParted == Init => PartedInv
  BY DEF Init, PartedInv

LEMMA PartedStep == PlaneInv /\ PartedInv /\ [Next]_vars => PartedInv'
<1> SUFFICES ASSUME PlaneInv, PartedInv, [Next]_vars PROVE PartedInv'
  OBVIOUS
<1>1. broker \in Brokers /\ client \in Clients /\ broker.epoch \in Nat /\ broker.seq \in Nat
  BY DEF PlaneInv, Plane, Brokers
<1>2. CASE Restart
  BY <1>2 DEF Restart, PartedInv
<1>3. ASSUME ~Restart, NEW p, p \in Partings, Parted(broker, p.helloed, p.frames)
      PROVE  Parted(broker', p.helloed, p.frames)
  <2>1. p.frames \in Seq(ToServer)
    BY <1>3 DEF Partings
  <2> QED
    BY <1>1, <1>3, <2>1, BrokerOnward, PartedStays
<1>4. CASE PartingReceive
  <2>1. PICK p \in parting : \E b \in Handle([broker EXCEPT !.attached = TRUE, !.helloed = p.helloed,
                                             !.topics = {}, !.sent = <<>>], Head(p.frames)) :
             /\ broker' = broker
             /\ parting' = (parting \ {p}) \union
               (IF b.attached /\ Tail(p.frames) # <<>>
                  THEN {[helloed |-> b.helloed, frames |-> Tail(p.frames)]} ELSE {})
    BY <1>4 DEF PartingReceive
  <2>2. PICK s : s = [broker EXCEPT !.attached = TRUE, !.helloed = p.helloed, !.topics = {}, !.sent = <<>>]
    OBVIOUS
  <2>3. PICK b \in Handle(s, Head(p.frames)) :
             /\ broker' = broker
             /\ parting' = (parting \ {p}) \union
               (IF b.attached /\ Tail(p.frames) # <<>>
                  THEN {[helloed |-> b.helloed, frames |-> Tail(p.frames)]} ELSE {})
    BY <2>1, <2>2
  <2>4. /\ p.helloed \in BOOLEAN /\ p.frames \in Seq(ToServer) /\ p.frames # <<>>
        /\ Parted(broker, p.helloed, p.frames)
    BY DEF PartedInv, Partings
  <2>5. s \in Brokers
    <3>1. <<>> \in Seq(ToClient) /\ {} \in SUBSET Topics
      OBVIOUS
    <3>2. [broker EXCEPT !.attached = TRUE, !.helloed = p.helloed, !.topics = {}, !.sent = <<>>] \in Brokers
      BY <1>1, <2>4, <3>1 DEF Brokers
    <3> QED
      BY <2>2, <3>2
  <2>6. Head(p.frames) \in ToServer /\ Tail(p.frames) \in Seq(ToServer)
    BY <2>4, Shortened
  <2>7. b.attached => b.helloed
    BY <2>3, <2>5, <2>6, HandleAlike
  <2>8. Parted(broker, TRUE, Tail(p.frames))
    BY <2>4, PartedTail
  <2>9. ASSUME NEW q \in parting'
        PROVE  q \in Partings /\ Parted(broker', q.helloed, q.frames)
    <3>1. CASE q \in parting
      BY <2>3, <3>1 DEF PartedInv
    <3>2. CASE /\ b.attached /\ Tail(p.frames) # <<>>
               /\ q = [helloed |-> b.helloed, frames |-> Tail(p.frames)]
      BY <2>3, <2>6, <2>7, <2>8, <3>2 DEF Partings
    <3> QED
      BY <2>3, <2>9, <3>1, <3>2
  <2> QED
    BY <2>9 DEF PartedInv
<1>5. CASE IdleTimer
  <2>1. PICK c : c = [client EXCEPT !.timers = @ \ {"idle"}]
    OBVIOUS
  <2>2. c \in Clients /\ c.sent = client.sent /\ c.cursor = client.cursor
    BY <1>1, <2>1 DEF Clients
  <2>3. PICK f : f = FlushAck(c)
    OBVIOUS
  <2>4. parting' = parting \/ parting' = parting \union Unread(broker, f)
    BY <1>5, <2>1, <2>3 DEF IdleTimer
  <2>5. ~Restart
    <3>1. ~Restart \/ broker'.epoch = broker.epoch + 1
      BY DEF Restart, NewBroker
    <3>2. broker' = broker \/ broker' = HangUp(broker, client')
      BY <1>5 DEF IdleTimer
    <3>3. broker'.epoch = broker.epoch
      <4>1. HangUp(broker, client').epoch = broker.epoch
        BY <1>1, HangUpAlike
      <4> QED
        BY <3>2, <4>1
    <3> QED
      BY <1>1, <3>1, <3>3
  <2>6. ASSUME NEW q \in parting'
        PROVE  q \in Partings /\ Parted(broker, q.helloed, q.frames)
    <3>1. CASE q \in parting
      BY <3>1 DEF PartedInv
    <3>2. CASE q \in Unread(broker, f)
      BY <2>2, <2>3, <3>2, UnreadParted
    <3> QED
      BY <2>4, <2>6, <3>1, <3>2
  <2> QED
    BY <1>3, <2>5, <2>6 DEF PartedInv
<1>6. CASE ~Restart /\ parting' = parting
  BY <1>3, <1>6 DEF PartedInv
<1>7. CASE \/ ServerReceive \/ Open \/ ClientReceive \/ Cut
           \/ LoadCapability \/ ConnectFails \/ CoalesceTimer \/ AckTimer
           \/ BackoffTimer \/ Hide \/ Show \/ UNCHANGED vars
           \/ \E t \in Topics : Publish(t) \/ Subscribe(t) \/ Unsubscribe(t) \/ Poll(t)
  <2>1. parting' = parting
    BY <1>7 DEF ServerReceive, Open, ClientReceive, Cut, LoadCapability, ConnectFails,
                CoalesceTimer, AckTimer, BackoffTimer, Hide, Show, vars,
                Publish, Subscribe, Unsubscribe, Poll
  <2> QED
    BY <1>2, <1>6, <2>1
<1> QED
  BY <1>2, <1>4, <1>5, <1>7 DEF Next, Network

(* In every behaviour the broker and the client are as the argument above has  *)
(* them: nothing owed is out of reach of the client.                           *)
LEMMA SpecPlane == Spec => []PlaneInv
  BY InitPlane, PlaneStep, PTL DEF Spec

(* In every behaviour the sockets that were closed hold what the broker takes. *)
LEMMA SpecParted == Spec => []PartedInv
  BY InitParted, SpecPlane, PartedStep, PTL DEF Spec

(* The state of the plane always has its types: topics are served only to a    *)
(* socket that said hello, and a client is ready only on an open socket.       *)
THEOREM SpecTypeOK == Spec => []TypeOK
  BY SpecPlane, SpecParted, PlaneTypes, PTL

(* No write to a covered topic goes unheard, for any ring and buffer limit and *)
(* any run of restarts, cuts and reconnections: when nothing is in flight the  *)
(* client holds every invalidation it has not delivered.                       *)
THEOREM SpecNothingLost == Spec => []NothingLost
  BY SpecPlane, PlaneLosesNothing, PTL

(* A visible, ready client that holds an invalidation has its delivery timer   *)
(* running, whatever hid and showed the window or closed the socket before.    *)
THEOREM SpecHeldIsScheduled == Spec => []HeldIsScheduled
  BY SpecPlane, PlaneScheduled, PTL

(* The broker never refuses a frame of this client: no resume cursor and no    *)
(* acknowledgement it sends is ahead of the broker that reads it, on the       *)
(* socket it has and on those it has closed, but for an acknowledgement of a   *)
(* stopped server that goes out as an idle socket is closed.                   *)
THEOREM SpecNeverRefused == Spec => []NeverRefused
  BY SpecPlane, SpecParted, PlaneAccepted, PTL
=============================================================================
