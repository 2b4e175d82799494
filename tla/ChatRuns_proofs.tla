------------------------- MODULE ChatRuns_proofs -------------------------
(***************************************************************************)
(* A live turn is what Stop and a tail find under its keys, and a Stop     *)
(* that was answered reaches the turn's child and its transcript: for      *)
(* every set of runs and conversations and every bound of ChatRuns.        *)
(***************************************************************************)
EXTENDS ChatRuns, FiniteSetTheorems, TLAPS

(* A run's own fields: it is registered from its admission or its binding  *)
(* to its end, under its run id and its conversation and nothing else, and *)
(* a running child is signalled once a Stop is known.                      *)
Shape(x, r) ==
  /\ x.keys \subseteq KeysOf(r, x.conversation)
  /\ x.tagged \subseteq KeysOf(r, x.conversation)
  /\ x.projectionActive => x.registered /\ x.keys = KeysOf(r, x.conversation)
  /\ x.registered => x.phase \in {"setup", "opened", "bound", "settled", "saved"}
  /\ x.registered /\ x.phase \in {"setup", "opened", "bound", "settled"} => x.projectionActive
  /\ x.phase \in {"unsent", "refused"} => ~x.registered /\ x.conversation = None
  /\ x.phase \in {"unsent", "refused", "setup"} => x.buffer = "none"
  /\ x.phase = "unsent" \/ (x.phase = "setup" /\ ~x.registered) => ~x.stopRequested
  /\ x.acceptingStop => x.phase # "unsent" /\ (x.phase = "setup" => x.registered)
  /\ x.phase = "setup" => (x.registered <=> x.conversation # None)
  /\ x.phase \in {"opened", "bound"} => x.registered
  /\ x.child = "running" => x.phase = "bound"
  /\ x.stopRequested /\ x.child = "running" => x.killed
  /\ x.stopRequested /\ x.path = "openclaw" /\ Bound(x) => x.killed

(* What the two maps hold for a run that is live.                          *)
Linked(x, r, map, bufs) ==
  x.projectionActive /\ ~x.stopRequested =>
    /\ \A k \in x.keys : map[k] = r
    /\ x.buffer = "open" => \A k \in x.tagged : bufs[k] = r

(* Where an answered Stop is: in the handle, in the queue until the run    *)
(* registers, or nowhere because there will be no turn.                    *)
Heard(x, r, queue) ==
  \/ x.stopRequested
  \/ x.phase \in {"unsent", "setup"} /\ ~x.registered /\ r \in queue
  \/ x.phase \in {"refused", "failed"}

IInv ==
  /\ TypeOK
  /\ IsFiniteSet(pending)
  /\ \A r \in Runs :
       /\ Shape(run[r], r)
       /\ Linked(run[r], r, active, buffers)
       /\ r \in honoured => Heard(run[r], r, pending)

(* What the steps that do not end, start or stop a turn leave alone.       *)
Alike(x, y) ==
  /\ y.phase = x.phase /\ y.conversation = x.conversation /\ y.path = x.path
  /\ y.registered = x.registered /\ y.keys = x.keys
  /\ y.stopRequested = x.stopRequested /\ y.acceptingStop = x.acceptingStop
  /\ y.projectionActive = x.projectionActive
  /\ y.child = x.child /\ (x.killed => y.killed)
  /\ y.buffer = x.buffer /\ y.tagged = x.tagged

-----------------------------------------------------------------------------
LEMMA PhasesFacts ==
  {"unsent", "refused", "setup", "opened", "failed", "bound", "settled", "saved", "closed"}
    \subseteq Phases
BY DEF Phases

(* A signal, or a change of the detach cap, leaves a run as it was.        *)
LEMMA KillFacts ==
  ASSUME NEW x \in RunType
  PROVE  /\ Kill(x) \in RunType
         /\ Alike(x, Kill(x))
         /\ Bound(x) /\ (x.path = "openclaw" \/ x.child = "running") => Kill(x).killed
<1>1. CASE Bound(x) /\ (x.path = "openclaw" \/ x.child = "running")
  <2>1. Kill(x) = [x EXCEPT !.killed = TRUE]
    BY <1>1 DEF Kill
  <2> QED
    BY <2>1 DEF Alike, RunType
<1>2. CASE ~(Bound(x) /\ (x.path = "openclaw" \/ x.child = "running"))
  <2>1. Kill(x) = x
    BY <1>2 DEF Kill
  <2> QED
    BY <1>2, <2>1 DEF Alike
<1> QED
  BY <1>1, <1>2

LEMMA ArmedFacts ==
  ASSUME NEW x \in RunType
  PROVE  Armed(x) \in RunType /\ Alike(x, Armed(x))
BY DEF Armed, Alike, RunType

LEMMA ArmedIfGoneFacts ==
  ASSUME NEW x \in RunType
  PROVE  ArmedIfGone(x) \in RunType /\ Alike(x, ArmedIfGone(x))
BY ArmedFacts DEF ArmedIfGone, Alike, RunType

LEMMA StoppedFacts ==
  ASSUME NEW x \in RunType, NEW r \in Runs, Shape(x, r), x.acceptingStop
  PROVE  /\ Stopped(x) \in RunType
         /\ Shape(Stopped(x), r)
         /\ Stopped(x).stopRequested
<1> DEFINE s == [x EXCEPT !.stopRequested = TRUE]
<1>1. s \in RunType
  BY DEF RunType
<1>2. /\ s.phase = x.phase /\ s.conversation = x.conversation /\ s.path = x.path
      /\ s.registered = x.registered /\ s.keys = x.keys /\ s.stopRequested
      /\ s.acceptingStop = x.acceptingStop
      /\ s.projectionActive = x.projectionActive /\ s.child = x.child
      /\ s.killed = x.killed /\ s.tagged = x.tagged /\ s.buffer = x.buffer
  BY DEF RunType
<1>3. Stopped(x) = Kill(s)
  BY DEF Stopped
<1> HIDE DEF s
<1>4. Kill(s) \in RunType /\ Alike(s, Kill(s))
      /\ (Bound(s) /\ (s.path = "openclaw" \/ s.child = "running") => Kill(s).killed)
  BY <1>1, KillFacts
<1> DEFINE y == Kill(s)
<1> HIDE DEF y
<1>5. Alike(s, y) /\ y \in RunType
      /\ (Bound(s) /\ (s.path = "openclaw" \/ s.child = "running") => y.killed)
  BY <1>4 DEF y
<1>6. Shape(y, r)
  BY <1>2, <1>5 DEF Shape, Alike, Bound
<1> QED
  BY <1>2, <1>3, <1>5, <1>6 DEF y, Alike

(* A step of one run: what has to be shown of that run, of the maps as     *)
(* the others see them and of the queue.                                   *)
LEMMA OneRun ==
  ASSUME IInv, NEW r \in Runs, NEW y \in RunType,
         run' = [run EXCEPT ![r] = y],
         active' \in [Keys -> Runs \union {None}],
         buffers' \in [Keys -> Runs \union {None}],
         pending' \subseteq Runs, IsFiniteSet(pending'),
         Cardinality(pending') <= MaxPending,
         settled' \in Seq(Runs), Len(settled') <= MaxSettled,
         honoured' \subseteq Runs,
         Shape(y, r),
         Linked(y, r, active', buffers'),
         r \in honoured' => Heard(y, r, pending'),
         \A q \in Runs \ {r} :
           Linked(run[q], q, active, buffers) => Linked(run[q], q, active', buffers'),
         \A q \in Runs \ {r} :
           q \in honoured' => q \in honoured /\ (q \in pending => q \in pending')
  PROVE  IInv'
<1>1. run \in [Runs -> RunType]
  BY DEF IInv, TypeOK
<1>2. TypeOK'
  BY <1>1 DEF TypeOK
<1>3. ASSUME NEW q \in Runs, q # r
      PROVE  /\ Shape(run'[q], q)
             /\ Linked(run'[q], q, active', buffers')
             /\ q \in honoured' => Heard(run'[q], q, pending')
  <2>1. run'[q] = run[q]
    BY <1>1, <1>3
  <2>2. Shape(run[q], q) /\ Linked(run[q], q, active, buffers)
        /\ (q \in honoured => Heard(run[q], q, pending))
    BY DEF IInv
  <2>3. q \in honoured' => Heard(run[q], q, pending')
    BY <1>3, <2>2 DEF Heard
  <2> QED
    BY <1>3, <2>1, <2>2, <2>3
<1>4. run'[r] = y
  BY <1>1
<1>5. ASSUME NEW q \in Runs
      PROVE  /\ Shape(run'[q], q)
             /\ Linked(run'[q], q, active', buffers')
             /\ q \in honoured' => Heard(run'[q], q, pending')
  BY <1>3, <1>4
<1> QED
  BY <1>2, <1>5 DEF IInv

(* The same when only the run moves, and only in what does not matter.     *)
LEMMA Quiet ==
  ASSUME IInv, NEW r \in Runs, NEW y \in RunType,
         run' = [run EXCEPT ![r] = y],
         Alike(run[r], y),
         UNCHANGED <<active, pending, settled, buffers, honoured>>
  PROVE  IInv'
<1>1. Shape(run[r], r) /\ Linked(run[r], r, active, buffers)
      /\ (r \in honoured => Heard(run[r], r, pending))
  BY DEF IInv
<1>2. Shape(y, r)
  BY <1>1 DEF Shape, Alike, Bound
<1>3. Linked(y, r, active, buffers)
  BY <1>1 DEF Linked, Alike
<1>4. r \in honoured => Heard(y, r, pending)
  BY <1>1 DEF Heard, Alike
<1> QED
  BY <1>2, <1>3, <1>4, OneRun DEF IInv, TypeOK

LEMMA UnregisteredFacts ==
  ASSUME NEW x \in RunType
  PROVE  /\ Unregistered(x) \in RunType
         /\ ~Unregistered(x).registered /\ Unregistered(x).keys = {}
         /\ ~Unregistered(x).projectionActive
         /\ Unregistered(x).conversation = x.conversation /\ Unregistered(x).tagged = x.tagged
         /\ Unregistered(x).stopRequested = x.stopRequested
         /\ Unregistered(x).acceptingStop = x.acceptingStop
         /\ Unregistered(x).child = x.child /\ Unregistered(x).killed = x.killed
         /\ Unregistered(x).path = x.path
BY DEF Unregistered, RunType

-----------------------------------------------------------------------------
(* Taking one run off the queue.                                           *)
Dequeued == \E r \in Runs : pending' = pending \ {r}

LEMMA DequeuedFacts ==
  ASSUME IInv, Dequeued
  PROVE  pending' \subseteq Runs /\ IsFiniteSet(pending') /\ Cardinality(pending') <= MaxPending
<1>1. pending' \subseteq pending /\ IsFiniteSet(pending) /\ pending \subseteq Runs
      /\ Cardinality(pending) <= MaxPending
  BY DEF Dequeued, IInv, TypeOK
<1>2. IsFiniteSet(pending') /\ Cardinality(pending') <= Cardinality(pending)
  BY <1>1, FS_Subset
<1>3. Cardinality(pending) \in Nat /\ Cardinality(pending') \in Nat
  BY <1>1, <1>2, FS_CardinalityType
<1> QED
  BY <1>1, <1>2, <1>3, BoundsAssumption

(* A key of one run is not a key of another that does not share its        *)
(* conversation.                                                           *)
LEMMA KeysApart ==
  ASSUME IInv, NEW r \in Runs, NEW q \in Runs \ {r}
  PROVE  /\ r \notin run[q].keys /\ r \notin run[q].tagged
         /\ \A c \in Conversations :
              Fresh(c) => c \notin run[q].keys /\ c \notin run[q].tagged
<1>1. run[q] \in RunType /\ Shape(run[q], q)
  BY DEF IInv, TypeOK
<1>2. run[q].keys \subseteq KeysOf(q, run[q].conversation)
      /\ run[q].tagged \subseteq KeysOf(q, run[q].conversation)
      /\ run[q].conversation \in Conversations \union {None}
  BY <1>1 DEF Shape, RunType
<1>3. ASSUME NEW c \in Conversations, Fresh(c)
      PROVE  c \notin KeysOf(q, run[q].conversation)
  BY <1>3, <1>2, KeysAssumption DEF KeysOf, Fresh, Known
<1>4. r \notin KeysOf(q, run[q].conversation)
  BY <1>2, KeysAssumption DEF KeysOf
<1> QED
  BY <1>2, <1>3, <1>4

(* Pointing keys that no live run holds disturbs no live run.              *)
LEMMA PointedApart ==
  ASSUME IInv, NEW r \in Runs, NEW keys \in SUBSET Keys, NEW owned \in SUBSET Keys,
         active' = Pointed(active, keys, r), buffers' = Pointed(buffers, owned, r),
         \A q \in Runs \ {r} :
           run[q].projectionActive /\ ~run[q].stopRequested =>
             /\ run[q].keys \intersect keys = {}
             /\ run[q].tagged \intersect owned = {}
  PROVE  /\ active' \in [Keys -> Runs \union {None}]
         /\ buffers' \in [Keys -> Runs \union {None}]
         /\ \A q \in Runs \ {r} :
              Linked(run[q], q, active, buffers) => Linked(run[q], q, active', buffers')
<1>1. active' \in [Keys -> Runs \union {None}] /\ buffers' \in [Keys -> Runs \union {None}]
  BY DEF Pointed, IInv, TypeOK
<1>2. ASSUME NEW q \in Runs \ {r}, Linked(run[q], q, active, buffers)
      PROVE  Linked(run[q], q, active', buffers')
  <2>1. run[q].keys \subseteq Keys /\ run[q].tagged \subseteq Keys
    BY DEF IInv, TypeOK, RunType
  <2> QED
    BY <1>2, <2>1 DEF Linked, Pointed
<1> QED
  BY <1>1, <1>2

(* Dropping a run from a map disturbs no other.                            *)
LEMMA DroppedApart ==
  ASSUME NEW map \in [Keys -> Runs \union {None}], NEW keys, NEW r \in Runs
  PROVE  /\ Dropped(map, keys, r) \in [Keys -> Runs \union {None}]
         /\ \A q \in Runs \ {r}, k \in Keys :
              map[k] = q => Dropped(map, keys, r)[k] = q
         /\ \A k \in Keys : k \notin keys => Dropped(map, keys, r)[k] = map[k]
BY DEF Dropped

LEMMA DroppedLinks ==
  ASSUME IInv, NEW r \in Runs, NEW keys, NEW tags,
         active' = active \/ active' = Dropped(active, keys, r),
         buffers' = buffers \/ buffers' = Dropped(buffers, tags, r)
  PROVE  /\ active' \in [Keys -> Runs \union {None}]
         /\ buffers' \in [Keys -> Runs \union {None}]
         /\ \A q \in Runs \ {r} :
              Linked(run[q], q, active, buffers) => Linked(run[q], q, active', buffers')
<1>1. active \in [Keys -> Runs \union {None}] /\ buffers \in [Keys -> Runs \union {None}]
  BY DEF IInv, TypeOK
<1>2. active' \in [Keys -> Runs \union {None}]
      /\ \A q \in Runs \ {r}, k \in Keys : active[k] = q => active'[k] = q
  BY <1>1, DroppedApart
<1>3. buffers' \in [Keys -> Runs \union {None}]
      /\ \A q \in Runs \ {r}, k \in Keys : buffers[k] = q => buffers'[k] = q
  BY <1>1, DroppedApart
<1>4. \A q \in Runs : run[q].keys \subseteq Keys /\ run[q].tagged \subseteq Keys
  BY DEF IInv, TypeOK, RunType
<1> QED
  BY <1>2, <1>3, <1>4 DEF Linked

-----------------------------------------------------------------------------
(* The detach cap and the tails.                                           *)
LEMMA AbortStep ==
  ASSUME IInv, NEW r \in Runs, Abort(r)
  PROVE  IInv'
<1> DEFINE x == [run[r] EXCEPT !.aborted = TRUE]
           y == IF Listens(x) THEN Armed(x) ELSE x
<1>1. run[r] \in RunType
  BY DEF IInv, TypeOK
<1>2. x \in RunType /\ Alike(run[r], x)
  BY <1>1 DEF RunType, Alike
<1>3. y \in RunType /\ Alike(run[r], y)
  <2> HIDE DEF x
  <2> QED
    BY <1>2, ArmedFacts DEF Alike
<1>4. run' = [run EXCEPT ![r] = y] /\ UNCHANGED <<active, pending, settled, buffers, honoured>>
  BY DEF Abort
<1> HIDE DEF y
<1> QED
  BY <1>3, <1>4, Quiet

LEMMA DetachTimerStep ==
  ASSUME IInv, NEW r \in Runs, DetachTimer(r)
  PROVE  IInv'
<1> DEFINE x == [run[r] EXCEPT !.timer = "fired"]
           y == Kill(x)
<1>1. run[r] \in RunType
  BY DEF IInv, TypeOK
<1>2. x \in RunType /\ Alike(run[r], x)
  BY <1>1 DEF RunType, Alike
<1>3. y \in RunType /\ Alike(run[r], y)
  <2> HIDE DEF x
  <2> QED
    BY <1>2, KillFacts DEF Alike
<1>4. run' = [run EXCEPT ![r] = y] /\ UNCHANGED <<active, pending, settled, buffers, honoured>>
  BY DEF DetachTimer
<1> HIDE DEF y
<1> QED
  BY <1>3, <1>4, Quiet

LEMMA AttachStep ==
  ASSUME IInv, NEW k \in Keys, Attach(k)
  PROVE  IInv'
<1> DEFINE r == buffers[k]
           x == [run[r] EXCEPT !.tails = @ + 1]
           y == IF x.tails = 1 /\ Bound(x) THEN [x EXCEPT !.timer = "off"] ELSE x
<1>1. r \in Runs
  BY DEF IInv, TypeOK, Attach
<1>2. run[r] \in RunType
  BY <1>1 DEF IInv, TypeOK
<1>3. run[r].tails < MaxTails
  BY DEF Attach
<1>4. x \in RunType /\ Alike(run[r], x)
  <2> HIDE DEF r
  <2> QED
    BY <1>2, <1>3, BoundsAssumption DEF RunType, Alike
<1>5. y \in RunType /\ Alike(run[r], y)
  <2> HIDE DEF x
  <2> QED
    BY <1>4 DEF Alike, RunType
<1>6. run' = [run EXCEPT ![r] = y] /\ UNCHANGED <<active, pending, settled, buffers, honoured>>
  BY DEF Attach
<1> HIDE DEF y
<1> QED
  BY <1>1, <1>5, <1>6, Quiet

LEMMA DetachStep ==
  ASSUME IInv, NEW r \in Runs, Detach(r)
  PROVE  IInv'
<1> DEFINE x == [run[r] EXCEPT !.tails = @ - 1]
           y == IF x.tails = 0 /\ x.aborted /\ Bound(x) THEN Armed(x) ELSE x
<1>1. run[r] \in RunType /\ run[r].tails > 0
  BY DEF IInv, TypeOK, Detach
<1>2. x \in RunType /\ Alike(run[r], x)
  BY <1>1, BoundsAssumption DEF RunType, Alike
<1>3. y \in RunType /\ Alike(run[r], y)
  <2> HIDE DEF x
  <2> QED
    BY <1>2, ArmedFacts DEF Alike
<1>4. run' = [run EXCEPT ![r] = y] /\ UNCHANGED <<active, pending, settled, buffers, honoured>>
  BY DEF Detach
<1> HIDE DEF y
<1> QED
  BY <1>3, <1>4, Quiet

-----------------------------------------------------------------------------
(* The registry on its own.                                                *)
LEMMA StopRunStep ==
  ASSUME IInv, NEW r \in Runs, StopRun(r)
  PROVE  IInv'
<1>1. run[r] \in RunType /\ Shape(run[r], r) /\ Linked(run[r], r, active, buffers)
      /\ (r \in honoured => Heard(run[r], r, pending))
  BY DEF IInv, TypeOK
<1>2. CASE run[r].registered
  <2> DEFINE y == Stopped(run[r])
  <2>1. /\ run' = [run EXCEPT ![r] = y]
        /\ honoured' = honoured \union {r}
        /\ UNCHANGED <<active, pending, settled, buffers>>
    BY <1>2 DEF StopRun
  <2>2. run[r].acceptingStop
    BY <1>2 DEF StopRun
  <2>3. y \in RunType /\ Shape(y, r) /\ y.stopRequested
    BY <1>1, <2>2, StoppedFacts
  <2> HIDE DEF y
  <2>4. Linked(y, r, active, buffers) /\ Heard(y, r, pending)
    BY <2>3 DEF Linked, Heard
  <2> QED
    BY <2>1, <2>3, <2>4, OneRun DEF IInv, TypeOK
<1>3. CASE ~run[r].registered
  <2>1. /\ r \in pending \/ Cardinality(pending) < MaxPending
        /\ pending' = pending \union {r}
        /\ honoured' = IF run[r].phase \in {"unsent", "setup", "opened"}
                         THEN honoured \union {r} ELSE honoured
        /\ UNCHANGED <<run, active, settled, buffers>>
    BY <1>3 DEF StopRun
  <2>2. IsFiniteSet(pending') /\ Cardinality(pending') <= MaxPending
    <3>1. IsFiniteSet(pending) /\ Cardinality(pending) <= MaxPending
      BY DEF IInv, TypeOK
    <3>2. CASE r \in pending
      <4>1. pending' = pending
        BY <2>1, <3>2
      <4> QED
        BY <3>1, <4>1
    <3>3. CASE r \notin pending
      <4>1. IsFiniteSet(pending \union {r})
            /\ Cardinality(pending \union {r}) = Cardinality(pending) + 1
        BY <3>1, <3>3, FS_AddElement
      <4>2. Cardinality(pending) \in Nat
        BY <3>1, FS_CardinalityType
      <4> QED
        BY <2>1, <3>3, <4>1, <4>2, BoundsAssumption
    <3> QED
      BY <3>2, <3>3
  <2>3. run' = [run EXCEPT ![r] = run[r]]
    BY <2>1 DEF IInv, TypeOK
  <2>4. r \in honoured' => Heard(run[r], r, pending')
    BY <1>1, <1>3, <2>1 DEF Heard, Shape
  <2> QED
    BY <1>1, <2>1, <2>2, <2>3, <2>4, OneRun DEF IInv, TypeOK
<1> QED
  BY <1>2, <1>3

LEMMA StopConversationStep ==
  ASSUME IInv, NEW c \in Conversations, StopConversation(c)
  PROVE  IInv'
<1> DEFINE r == active[c]
           y == Stopped(run[r])
<1>1. r \in Runs
  BY DEF IInv, TypeOK, StopConversation, Keys
<1>2. /\ run' = [run EXCEPT ![r] = y]
      /\ honoured' = honoured \union {r}
      /\ UNCHANGED <<active, pending, settled, buffers>>
  BY DEF StopConversation
<1>3. run[r] \in RunType /\ Shape(run[r], r)
  BY <1>1 DEF IInv, TypeOK
<1>4. run[r].acceptingStop
  BY DEF StopConversation
<1> HIDE DEF r
<1>5. y \in RunType /\ Shape(y, r) /\ y.stopRequested
  BY <1>1, <1>3, <1>4, StoppedFacts
<1> HIDE DEF y
<1>6. Linked(y, r, active, buffers) /\ Heard(y, r, pending)
  BY <1>5 DEF Linked, Heard
<1> QED
  BY <1>1, <1>2, <1>5, <1>6, OneRun DEF IInv, TypeOK

LEMMA ExpirePendingStep ==
  ASSUME IInv, NEW r \in Runs, ExpirePending(r)
  PROVE  IInv'
<1>1. /\ run[r].phase \notin {"unsent", "setup", "opened"}
      /\ r \in pending /\ pending' = pending \ {r}
      /\ UNCHANGED <<run, active, settled, buffers, honoured>>
  BY DEF ExpirePending
<1>2. Dequeued
  BY <1>1 DEF Dequeued
<1>3. run[r] \in RunType /\ Shape(run[r], r) /\ Linked(run[r], r, active, buffers)
      /\ (r \in honoured => Heard(run[r], r, pending))
  BY DEF IInv, TypeOK
<1>4. r \in honoured => Heard(run[r], r, pending')
  BY <1>1, <1>3 DEF Heard
<1>5. run' = [run EXCEPT ![r] = run[r]]
  BY <1>1 DEF IInv, TypeOK
<1> QED
  BY <1>1, <1>2, <1>3, <1>4, <1>5, DequeuedFacts, OneRun DEF IInv, TypeOK

LEMMA ExpireSettledStep ==
  ASSUME IInv, ExpireSettled
  PROVE  IInv'
<1>1. settled' \in Seq(Runs) /\ Len(settled') <= MaxSettled
  BY BoundsAssumption DEF IInv, TypeOK, ExpireSettled
<1>2. UNCHANGED <<run, active, pending, buffers, honoured>>
  BY DEF ExpireSettled
<1> QED
  BY <1>1, <1>2 DEF IInv, TypeOK, Linked, Heard, Shape, Bound

-----------------------------------------------------------------------------
(* The steps that leave the maps alone.                                    *)
LEMMA ChildExitsStep ==
  ASSUME IInv, NEW r \in Runs, ChildExits(r)
  PROVE  IInv'
<1> DEFINE y == [run[r] EXCEPT !.child = "exited"]
<1>1. /\ run' = [run EXCEPT ![r] = y]
      /\ UNCHANGED <<active, pending, settled, buffers, honoured>>
  BY DEF ChildExits
<1>2. run[r] \in RunType /\ Shape(run[r], r) /\ Linked(run[r], r, active, buffers)
      /\ (r \in honoured => Heard(run[r], r, pending))
  BY DEF IInv, TypeOK
<1>3. y \in RunType
  BY <1>2 DEF RunType
<1>4. Shape(y, r) /\ Linked(y, r, active, buffers)
      /\ (r \in honoured => Heard(y, r, pending))
  BY <1>2 DEF RunType, Shape, Linked, Heard, Bound
<1> HIDE DEF y
<1> QED
  BY <1>1, <1>3, <1>4, OneRun DEF IInv, TypeOK

LEMMA LaunchStep ==
  ASSUME IInv, NEW r \in Runs, Launch(r)
  PROVE  IInv'
<1> DEFINE k == run[r].killed /\ run[r].path = "openclaw"
           n == run[r].launches + 1
           x == [run[r] EXCEPT !.child = "running", !.launches = n, !.killed = k]
           y == IF x.path = "http" THEN ArmedIfGone(x) ELSE x
<1>1. /\ run' = [run EXCEPT ![r] = y]
      /\ UNCHANGED <<active, pending, settled, buffers, honoured>>
      /\ run[r].phase = "bound" /\ run[r].launches < MaxLaunches /\ MayLaunch(run[r])
  BY DEF Launch
<1>2. run[r] \in RunType /\ Shape(run[r], r) /\ Linked(run[r], r, active, buffers)
      /\ (r \in honoured => Heard(run[r], r, pending))
  BY DEF IInv, TypeOK
<1>3. n \in 0 .. MaxLaunches
  BY <1>1, <1>2, BoundsAssumption DEF RunType
<1>4. k \in BOOLEAN /\ (k <=> run[r].killed /\ run[r].path = "openclaw")
  BY <1>2 DEF RunType
<1> HIDE DEF n, k
<1>5. x \in RunType
  BY <1>2, <1>3, <1>4 DEF RunType
<1>6. Shape(x, r) /\ Linked(x, r, active, buffers)
      /\ (r \in honoured => Heard(x, r, pending))
  BY <1>1, <1>2, <1>4 DEF RunType, Shape, Linked, Heard, Bound, MayLaunch
<1> HIDE DEF x
<1>7. y \in RunType /\ Alike(x, y)
  BY <1>5, ArmedIfGoneFacts DEF Alike
<1> HIDE DEF y
<1>8. Shape(y, r) /\ Linked(y, r, active, buffers)
      /\ (r \in honoured => Heard(y, r, pending))
  BY <1>6, <1>7 DEF Alike, Shape, Linked, Heard, Bound
<1> QED
  BY <1>1, <1>7, <1>8, OneRun DEF IInv, TypeOK

LEMMA BindOpenClawStep ==
  ASSUME IInv, NEW r \in Runs, BindOpenClaw(r)
  PROVE  IInv'
<1> DEFINE x == [run[r] EXCEPT !.phase = "bound"]
           z == Carried(x)
           y == ArmedIfGone(z)
<1>1. /\ run' = [run EXCEPT ![r] = y]
      /\ UNCHANGED <<active, pending, settled, buffers, honoured>>
      /\ run[r].phase = "opened"
  BY DEF BindOpenClaw
<1>2. run[r] \in RunType /\ Shape(run[r], r) /\ Linked(run[r], r, active, buffers)
      /\ (r \in honoured => Heard(run[r], r, pending))
  BY DEF IInv, TypeOK
<1>3. x \in RunType /\ x.phase = "bound"
  BY <1>2, PhasesFacts DEF RunType
<1>4. x.stopRequested = run[r].stopRequested /\ x.child # "running"
  BY <1>1, <1>2 DEF RunType, Shape
<1>5. /\ Linked(x, r, active, buffers)
      /\ r \in honoured => x.stopRequested
      /\ ~x.stopRequested => Shape(x, r)
      /\ \A k \in BOOLEAN : k => Shape([x EXCEPT !.killed = k], r)
  BY <1>1, <1>2 DEF RunType, Shape, Linked, Heard, Bound
<1> HIDE DEF x
<1>6. z \in RunType /\ Alike(x, z) /\ Shape(z, r)
  <2>1. CASE x.stopRequested
    <3>1. z = Kill(x)
      BY <2>1 DEF Carried
    <3>2. z \in RunType /\ Alike(x, z) /\ (x.path = "openclaw" => z.killed)
      BY <1>3, <3>1, KillFacts DEF Bound
    <3> HIDE DEF z
    <3> QED
      BY <1>3, <1>4, <1>5, <3>2, <2>1 DEF Alike, Shape, Bound, RunType
  <2>2. CASE ~x.stopRequested
    BY <1>3, <1>5, <2>2 DEF Carried, Alike
  <2> QED
    BY <2>1, <2>2
<1> HIDE DEF z
<1>7. y \in RunType /\ Alike(z, y)
  BY <1>6, ArmedIfGoneFacts
<1> HIDE DEF y
<1>8. Shape(y, r) /\ Linked(y, r, active, buffers)
      /\ (r \in honoured => Heard(y, r, pending))
  BY <1>5, <1>6, <1>7 DEF Alike, Shape, Linked, Heard, Bound
<1> QED
  BY <1>1, <1>7, <1>8, OneRun DEF IInv, TypeOK

LEMMA SettleStep ==
  ASSUME IInv, NEW r \in Runs, Settle(r)
  PROVE  IInv'
<1> DEFINE y == [run[r] EXCEPT !.phase = "settled", !.acceptingStop = FALSE,
                   !.timer = IF run[r].path = "openclaw" THEN "off" ELSE @]
<1>1. /\ run' = [run EXCEPT ![r] = y]
      /\ UNCHANGED <<active, buffers, honoured>>
      /\ pending' = pending \ {r} /\ settled' = Remember(r)
      /\ run[r].phase = "bound" /\ run[r].child # "running"
  BY DEF Settle
<1>2. run[r] \in RunType /\ Shape(run[r], r) /\ Linked(run[r], r, active, buffers)
      /\ (r \in honoured => Heard(run[r], r, pending))
  BY DEF IInv, TypeOK
<1>3. y \in RunType
  BY <1>2, PhasesFacts DEF RunType
<1>4. Shape(y, r) /\ Linked(y, r, active, buffers)
      /\ (r \in honoured => Heard(y, r, pending \ {r}))
  BY <1>1, <1>2 DEF RunType, Shape, Linked, Heard, Bound
<1> HIDE DEF y
<1>5. Dequeued
  BY <1>1 DEF Dequeued
<1>6. Remember(r) \in Seq(Runs) /\ Len(Remember(r)) <= MaxSettled
  BY BoundsAssumption DEF Remember, IInv, TypeOK
<1> QED
  BY <1>1, <1>3, <1>4, <1>5, <1>6, DequeuedFacts, OneRun DEF IInv, TypeOK

-----------------------------------------------------------------------------
(* The steps that take the run out of a map.                               *)
LEMMA SetupFailsStep ==
  ASSUME IInv, NEW r \in Runs, SetupFails(r)
  PROVE  IInv'
<1> DEFINE u == Unregistered(run[r])
           b == IF run[r].buffer = "open" THEN "done" ELSE run[r].buffer
           y == [u EXCEPT !.phase = "failed", !.tails = 0, !.buffer = b]
<1>1. /\ run' = [run EXCEPT ![r] = y]
      /\ UNCHANGED <<pending, settled, buffers, honoured>>
      /\ active' = Dropped(active, run[r].keys, r)
      /\ run[r].phase \in {"setup", "opened"}
  BY DEF SetupFails
<1>2. run[r] \in RunType /\ Shape(run[r], r) /\ active \in [Keys -> Runs \union {None}]
  BY DEF IInv, TypeOK
<1>3. y \in RunType
  <2>1. 0 \in 0 .. MaxTails
    BY BoundsAssumption
  <2>2. u \in RunType
    BY <1>2, UnregisteredFacts
  <2>3. b \in {"none", "open", "done"}
    BY <1>2 DEF RunType
  <2> HIDE DEF u, b
  <2> QED
    BY <2>1, <2>2, <2>3, PhasesFacts DEF RunType
<1>4. Shape(y, r) /\ Linked(y, r, active', buffers') /\ Heard(y, r, pending')
  BY <1>1, <1>2 DEF RunType, Shape, Linked, Heard, Bound, Unregistered
<1> HIDE DEF y
<1>5. \A q \in Runs \ {r} :
        Linked(run[q], q, active, buffers) => Linked(run[q], q, active', buffers')
  BY <1>1, DroppedLinks
<1> QED
  BY <1>1, <1>2, <1>3, <1>4, <1>5, DroppedApart, OneRun DEF IInv, TypeOK

LEMMA SaveStep ==
  ASSUME IInv, NEW r \in Runs, Save(r)
  PROVE  IInv'
<1>1. run[r].phase = "settled" /\ UNCHANGED <<pending, settled, buffers, honoured>>
  BY DEF Save
<1>2. run[r] \in RunType /\ Shape(run[r], r) /\ active \in [Keys -> Runs \union {None}]
      /\ (r \in honoured => Heard(run[r], r, pending))
  BY DEF IInv, TypeOK
<1>3. CASE run[r].path = "openclaw"
  <2> DEFINE y == [Unregistered(run[r]) EXCEPT !.phase = "saved"]
  <2>1. run' = [run EXCEPT ![r] = y] /\ active' = Dropped(active, run[r].keys, r)
    BY <1>3 DEF Save
  <2>2. y \in RunType
    BY <1>2, UnregisteredFacts, PhasesFacts DEF RunType
  <2>3. Shape(y, r) /\ Linked(y, r, active', buffers')
        /\ (r \in honoured => Heard(y, r, pending))
    BY <1>1, <1>2 DEF RunType, Shape, Linked, Heard, Bound, Unregistered
  <2> HIDE DEF y
  <2>4. \A q \in Runs \ {r} :
          Linked(run[q], q, active, buffers) => Linked(run[q], q, active', buffers')
    BY <1>1, <2>1, DroppedLinks
  <2> QED
    BY <1>1, <1>2, <2>1, <2>2, <2>3, <2>4, DroppedApart, OneRun DEF IInv, TypeOK
<1>4. CASE run[r].path # "openclaw"
  <2> DEFINE y == [run[r] EXCEPT !.phase = "saved", !.projectionActive = FALSE]
  <2>1. run' = [run EXCEPT ![r] = y] /\ UNCHANGED active
    BY <1>4 DEF Save
  <2>2. y \in RunType
    BY <1>2, PhasesFacts DEF RunType
  <2>3. Shape(y, r) /\ Linked(y, r, active, buffers)
        /\ (r \in honoured => Heard(y, r, pending))
    BY <1>1, <1>2, <1>4 DEF RunType, Shape, Linked, Heard, Bound
  <2> HIDE DEF y
  <2> QED
    BY <1>1, <1>2, <2>1, <2>2, <2>3, OneRun DEF IInv, TypeOK
<1> QED
  BY <1>3, <1>4

LEMMA CloseStep ==
  ASSUME IInv, NEW r \in Runs, Close(r)
  PROVE  IInv'
<1> DEFINE u == Unregistered(run[r])
           t == IF run[r].path = "openclaw" THEN run[r].timer ELSE "off"
           y == [u EXCEPT !.phase = "closed", !.buffer = "done", !.tails = 0, !.timer = t]
<1>1. /\ run' = [run EXCEPT ![r] = y]
      /\ UNCHANGED <<pending, settled, buffers, honoured>>
      /\ active' = Dropped(active, run[r].keys, r)
      /\ run[r].phase = "saved"
  BY DEF Close
<1>2. run[r] \in RunType /\ Shape(run[r], r) /\ active \in [Keys -> Runs \union {None}]
      /\ (r \in honoured => Heard(run[r], r, pending))
  BY DEF IInv, TypeOK
<1>3. y \in RunType
  <2>1. 0 \in 0 .. MaxTails
    BY BoundsAssumption
  <2>2. u \in RunType
    BY <1>2, UnregisteredFacts
  <2>3. t \in {"off", "armed", "fired"}
    BY <1>2 DEF RunType
  <2> HIDE DEF u, t
  <2> QED
    BY <2>1, <2>2, <2>3, PhasesFacts DEF RunType
<1>4. Shape(y, r) /\ Linked(y, r, active', buffers')
      /\ (r \in honoured => Heard(y, r, pending))
  BY <1>1, <1>2 DEF RunType, Shape, Linked, Heard, Bound, Unregistered
<1> HIDE DEF y
<1>5. \A q \in Runs \ {r} :
        Linked(run[q], q, active, buffers) => Linked(run[q], q, active', buffers')
  BY <1>1, DroppedLinks
<1> QED
  BY <1>1, <1>2, <1>3, <1>4, <1>5, DroppedApart, OneRun DEF IInv, TypeOK

LEMMA ReapStep ==
  ASSUME IInv, NEW r \in Runs, Reap(r)
  PROVE  IInv'
<1> DEFINE y == [run[r] EXCEPT !.buffer = "none"]
<1>1. /\ run' = [run EXCEPT ![r] = y]
      /\ UNCHANGED <<active, pending, settled, honoured>>
      /\ buffers' = Dropped(buffers, run[r].tagged, r)
  BY DEF Reap
<1>2. run[r] \in RunType /\ Shape(run[r], r) /\ Linked(run[r], r, active, buffers)
      /\ buffers \in [Keys -> Runs \union {None}]
      /\ (r \in honoured => Heard(run[r], r, pending))
  BY DEF IInv, TypeOK
<1>3. y \in RunType
  BY <1>2 DEF RunType
<1>4. Shape(y, r) /\ Linked(y, r, active', buffers')
      /\ (r \in honoured => Heard(y, r, pending))
  BY <1>1, <1>2 DEF RunType, Shape, Linked, Heard, Bound
<1> HIDE DEF y
<1>5. \A q \in Runs \ {r} :
        Linked(run[q], q, active, buffers) => Linked(run[q], q, active', buffers')
  BY <1>1, DroppedLinks
<1> QED
  BY <1>1, <1>2, <1>3, <1>4, <1>5, DroppedApart, OneRun DEF IInv, TypeOK

-----------------------------------------------------------------------------
(* The steps that put the run into a map.                                  *)
LEMMA HandleFacts ==
  ASSUME NEW x \in RunType, NEW r \in Runs, NEW keys \in SUBSET Keys
  PROVE  /\ Handle(x, r, keys) \in RunType
         /\ Handle(x, r, keys).registered /\ Handle(x, r, keys).keys = keys
         /\ Handle(x, r, keys).projectionActive /\ Handle(x, r, keys).acceptingStop
         /\ Handle(x, r, keys).stopRequested = (r \in pending)
         /\ Handle(x, r, keys).phase = x.phase /\ Handle(x, r, keys).path = x.path
         /\ Handle(x, r, keys).conversation = x.conversation
         /\ Handle(x, r, keys).child = x.child /\ Handle(x, r, keys).killed = x.killed
         /\ Handle(x, r, keys).buffer = x.buffer /\ Handle(x, r, keys).tagged = x.tagged
<1> DEFINE b == r \in pending
<1>1. b \in BOOLEAN /\ b = (r \in pending)
  OBVIOUS
<1>2. Handle(x, r, keys) =
        [x EXCEPT !.registered = TRUE, !.keys = keys, !.stopRequested = b,
                  !.acceptingStop = TRUE, !.projectionActive = TRUE]
  BY DEF Handle
<1> DEFINE y == [x EXCEPT !.registered = TRUE, !.keys = keys, !.stopRequested = b,
                         !.acceptingStop = TRUE, !.projectionActive = TRUE]
<1> HIDE DEF b
<1>3. y \in RunType
  BY <1>1 DEF RunType
<1>4. /\ y.registered /\ y.keys = keys /\ y.projectionActive /\ y.acceptingStop
      /\ y.stopRequested = b
  BY <1>1 DEF RunType
<1>5. /\ y.phase = x.phase /\ y.path = x.path /\ y.conversation = x.conversation
      /\ y.child = x.child /\ y.killed = x.killed
      /\ y.buffer = x.buffer /\ y.tagged = x.tagged
  BY DEF RunType
<1>6. Handle(x, r, keys) = y
  BY <1>2
<1> HIDE DEF y
<1> QED
  BY <1>1, <1>3, <1>4, <1>5, <1>6

LEMMA NotBlocked ==
  ASSUME IInv, NEW k \in Keys, ~BlocksNewTurn(k),
         NEW q \in Runs, run[q].projectionActive, ~run[q].stopRequested
  PROVE  k \notin run[q].keys /\ k \notin run[q].tagged
<1>1. Shape(run[q], q) /\ Linked(run[q], q, active, buffers)
  BY DEF IInv
<1>2. run[q].tagged \subseteq run[q].keys
  BY <1>1 DEF Shape
<1> QED
  BY <1>1, <1>2, KeysAssumption DEF Linked, BlocksNewTurn

(* Binding claims the buffers of the keys the run owns, and no live run    *)
(* loses one.                                                              *)
LEMMA Claims ==
  ASSUME IInv, NEW r \in Runs, NEW keys \in SUBSET Keys, NEW owned \in SUBSET Keys,
         Registers(r, keys), buffers' = Pointed(buffers, owned, r),
         owned = {k \in keys : ~run[r].registered \/ OwnsKey(r, k)},
         IF run[r].registered THEN keys \subseteq run[r].keys
         ELSE \A k \in keys : k = r \/ (k \in Conversations /\ Fresh(k))
  PROVE  /\ active' \in [Keys -> Runs \union {None}]
         /\ buffers' \in [Keys -> Runs \union {None}]
         /\ \A q \in Runs \ {r} :
              Linked(run[q], q, active, buffers) => Linked(run[q], q, active', buffers')
         /\ \A k \in owned : buffers'[k] = r
         /\ IF run[r].registered THEN active' = active /\ pending' = pending
            ELSE (\A k \in keys : active'[k] = r) /\ pending' = pending \ {r}
<1> DEFINE fresh == IF run[r].registered THEN keys \ run[r].keys ELSE keys
<1>1. active' = Pointed(active, fresh, r) /\ fresh \in SUBSET Keys
  BY DEF Registers
<1>2. ASSUME NEW q \in Runs \ {r}, run[q].projectionActive, ~run[q].stopRequested
      PROVE  run[q].keys \intersect fresh = {} /\ run[q].tagged \intersect owned = {}
  <2>1. CASE run[r].registered
    <3>1. fresh = {}
      BY <2>1
    <3>2. Shape(run[q], q) /\ Linked(run[q], q, active, buffers)
      BY DEF IInv
    <3>3. \A k \in run[q].tagged : active[k] = q
      BY <1>2, <3>2 DEF Shape, Linked
    <3> QED
      BY <2>1, <3>1, <3>3 DEF OwnsKey
  <2>2. CASE ~run[r].registered
    BY <2>2, KeysApart
  <2> QED
    BY <2>1, <2>2
<1>3. /\ active' \in [Keys -> Runs \union {None}]
      /\ buffers' \in [Keys -> Runs \union {None}]
      /\ \A q \in Runs \ {r} :
           Linked(run[q], q, active, buffers) => Linked(run[q], q, active', buffers')
  <2> HIDE DEF fresh
  <2> QED
    BY <1>1, <1>2, PointedApart
<1>4. \A k \in owned : buffers'[k] = r
  BY DEF Pointed
<1>5. CASE run[r].registered
  <2>1. active' = active
    BY <1>1, <1>5 DEF Pointed, IInv, TypeOK
  <2> QED
    BY <1>3, <1>4, <1>5, <2>1 DEF Registers
<1>6. CASE ~run[r].registered
  BY <1>1, <1>3, <1>4, <1>6 DEF Registers, Pointed
<1> QED
  BY <1>5, <1>6

(* The run once it is registered under the keys of its conversation and    *)
(* its buffer is open.                                                     *)
LEMMA Opened ==
  ASSUME IInv, NEW r \in Runs, NEW keys \in SUBSET Keys, NEW z \in RunType, NEW y \in RunType,
         keys = KeysOf(r, y.conversation), z = Registered(run[r], r, keys),
         y.phase \in {"opened", "bound"}, y.path = "openclaw" => y.phase = "opened",
         y.buffer = "open", y.tagged \subseteq keys,
         y.registered = z.registered, y.keys = z.keys,
         y.stopRequested = z.stopRequested, y.acceptingStop = z.acceptingStop,
         y.projectionActive = z.projectionActive, y.child = z.child, y.path = z.path,
         run[r].phase = "setup",
         run[r].registered => y.conversation = run[r].conversation,
         \A k \in y.tagged : buffers'[k] = r,
         IF run[r].registered THEN active' = active /\ pending' = pending
         ELSE (\A k \in keys : active'[k] = r) /\ pending' = pending \ {r},
         honoured' = honoured
  PROVE  /\ Shape(y, r)
         /\ Linked(y, r, active', buffers')
         /\ r \in honoured' => Heard(y, r, pending')
<1>1. run[r] \in RunType /\ Shape(run[r], r) /\ Linked(run[r], r, active, buffers)
      /\ (r \in honoured => Heard(run[r], r, pending))
  BY DEF IInv, TypeOK
<1>2. CASE run[r].registered
  <2>1. z = [run[r] EXCEPT !.keys = run[r].keys \union keys]
    BY <1>2 DEF Registered
  <2>2. run[r].keys = keys /\ run[r].projectionActive /\ run[r].child # "running"
    BY <1>1, <1>2 DEF Shape
  <2>3. /\ z.registered /\ z.keys = keys /\ z.projectionActive
        /\ z.stopRequested = run[r].stopRequested
        /\ z.child # "running" /\ z.path = run[r].path
    BY <1>1, <1>2, <2>1, <2>2 DEF RunType
  <2>4. Shape(y, r)
    BY <2>3 DEF Shape, Bound
  <2>5. Linked(y, r, active', buffers')
    BY <1>1, <1>2, <2>2, <2>3 DEF Linked
  <2>6. r \in honoured' => Heard(y, r, pending')
    BY <1>1, <1>2, <2>3 DEF Heard
  <2> QED
    BY <2>4, <2>5, <2>6
<1>3. CASE ~run[r].registered
  <2>1. z = Handle(run[r], r, keys)
    BY <1>3 DEF Registered
  <2>2. run[r].child # "running"
    BY <1>1 DEF Shape
  <2>3. /\ z.registered /\ z.keys = keys /\ z.projectionActive
        /\ z.stopRequested = (r \in pending)
        /\ z.child # "running" /\ z.path = run[r].path
    BY <1>1, <2>1, <2>2, HandleFacts
  <2>4. Shape(y, r)
    BY <2>3 DEF Shape, Bound
  <2>5. Linked(y, r, active', buffers')
    BY <1>3, <2>3 DEF Linked
  <2>6. r \in honoured' => Heard(y, r, pending')
    BY <1>1, <1>3, <2>3 DEF Heard, Shape
  <2> QED
    BY <2>4, <2>5, <2>6
<1> QED
  BY <1>2, <1>3

LEMMA RegisteredFacts ==
  ASSUME NEW x \in RunType, NEW r \in Runs, NEW keys \in SUBSET Keys
  PROVE  Registered(x, r, keys) \in RunType /\ Registered(x, r, keys).path = x.path
<1>1. CASE x.registered
  BY <1>1 DEF Registered, RunType
<1>2. CASE ~x.registered
  BY <1>2, HandleFacts DEF Registered
<1> QED
  BY <1>1, <1>2

LEMMA BufferedFacts ==
  ASSUME NEW x \in RunType, NEW owned \in SUBSET Keys
  PROVE  /\ Buffered(x, owned) \in RunType
         /\ Buffered(x, owned).buffer = "open" /\ Buffered(x, owned).tagged = owned
         /\ Buffered(x, owned).phase = x.phase
         /\ Buffered(x, owned).conversation = x.conversation
         /\ Buffered(x, owned).registered = x.registered
         /\ Buffered(x, owned).keys = x.keys
         /\ Buffered(x, owned).stopRequested = x.stopRequested
         /\ Buffered(x, owned).acceptingStop = x.acceptingStop
         /\ Buffered(x, owned).projectionActive = x.projectionActive
         /\ Buffered(x, owned).child = x.child /\ Buffered(x, owned).path = x.path
<1> DEFINE y == [x EXCEPT !.buffer = "open", !.tagged = owned]
<1>1. Buffered(x, owned) = y
  BY DEF Buffered
<1>2. y \in RunType
  BY DEF RunType
<1>3. /\ y.phase = x.phase /\ y.conversation = x.conversation /\ y.buffer = "open"
      /\ y.tagged = owned /\ y.registered = x.registered /\ y.keys = x.keys
      /\ y.stopRequested = x.stopRequested /\ y.acceptingStop = x.acceptingStop
      /\ y.projectionActive = x.projectionActive /\ y.child = x.child /\ y.path = x.path
  BY DEF RunType
<1> HIDE DEF y
<1> QED
  BY <1>1, <1>2, <1>3

LEMMA OpenStep ==
  ASSUME IInv, NEW r \in Runs, Open(r)
  PROVE  IInv'
<1>1. /\ run[r].phase = "setup" /\ run[r].path = "openclaw"
      /\ UNCHANGED <<settled, honoured>>
  BY DEF Open
<1>2. PICK c \in Conversations :
        /\ IF run[r].conversation = None THEN Fresh(c) ELSE c = run[r].conversation
        /\ LET keys  == {r, c}
               owned == {k \in keys : ~run[r].registered \/ OwnsKey(r, k)}
           IN  /\ Registers(r, keys)
               /\ run' = [run EXCEPT ![r] =
                    Buffered([Registered(@, r, keys) EXCEPT !.phase = "opened",
                                                            !.conversation = c], owned)]
               /\ buffers' = Pointed(buffers, owned, r)
  BY DEF Open
<1> DEFINE keys == {r, c}
           owned == {k \in keys : ~run[r].registered \/ OwnsKey(r, k)}
           z == Registered(run[r], r, keys)
           w == [z EXCEPT !.phase = "opened"]
           x == [w EXCEPT !.conversation = c]
           y == Buffered(x, owned)
<1>3. run' = [run EXCEPT ![r] = y] /\ Registers(r, keys) /\ buffers' = Pointed(buffers, owned, r)
  BY <1>2 DEF Buffered
<1>4. run[r] \in RunType /\ Shape(run[r], r)
  BY DEF IInv, TypeOK
<1>5. keys \in SUBSET Keys /\ owned \in SUBSET Keys /\ owned \in SUBSET keys
      /\ owned = {k \in keys : ~run[r].registered \/ OwnsKey(r, k)}
  BY DEF Keys
<1>6. keys = KeysOf(r, c) /\ c # None
  BY KeysAssumption DEF KeysOf
<1>7. IF run[r].registered THEN c = run[r].conversation /\ keys \subseteq run[r].keys
      ELSE \A k \in keys : k = r \/ (k \in Conversations /\ Fresh(k))
  BY <1>1, <1>2, <1>4, <1>6 DEF Shape
<1> HIDE DEF keys, owned
<1>8. /\ active' \in [Keys -> Runs \union {None}]
      /\ buffers' \in [Keys -> Runs \union {None}]
      /\ \A q \in Runs \ {r} :
           Linked(run[q], q, active, buffers) => Linked(run[q], q, active', buffers')
      /\ \A k \in owned : buffers'[k] = r
      /\ IF run[r].registered THEN active' = active /\ pending' = pending
         ELSE (\A k \in keys : active'[k] = r) /\ pending' = pending \ {r}
  BY <1>3, <1>5, <1>7, Claims
<1>9. z \in RunType /\ z.path = run[r].path /\ z = Registered(run[r], r, keys)
  BY <1>4, <1>5, RegisteredFacts
<1> HIDE DEF z
<1>10. /\ y \in RunType /\ y.phase = "opened" /\ y.conversation = c /\ y.buffer = "open"
       /\ y.tagged = owned /\ y.registered = z.registered /\ y.keys = z.keys
       /\ y.stopRequested = z.stopRequested /\ y.acceptingStop = z.acceptingStop
       /\ y.projectionActive = z.projectionActive /\ y.child = z.child /\ y.path = z.path
  <2>1. /\ w \in RunType /\ w.phase = "opened"
        /\ w.registered = z.registered /\ w.keys = z.keys
        /\ w.stopRequested = z.stopRequested /\ w.acceptingStop = z.acceptingStop
        /\ w.projectionActive = z.projectionActive /\ w.child = z.child /\ w.path = z.path
    BY <1>9, PhasesFacts DEF RunType
  <2> HIDE DEF w
  <2>2. /\ x \in RunType /\ x.phase = w.phase /\ x.conversation = c
        /\ x.registered = w.registered /\ x.keys = w.keys
        /\ x.stopRequested = w.stopRequested /\ x.acceptingStop = w.acceptingStop
        /\ x.projectionActive = w.projectionActive /\ x.child = w.child /\ x.path = w.path
    BY <2>1 DEF RunType
  <2> HIDE DEF x
  <2> QED
    BY <1>5, <2>1, <2>2, BufferedFacts
<1> HIDE DEF y
<1>11. /\ Shape(y, r) /\ Linked(y, r, active', buffers')
       /\ r \in honoured' => Heard(y, r, pending')
  BY <1>1, <1>5, <1>6, <1>7, <1>8, <1>9, <1>10, Opened
<1>12. pending' \subseteq Runs /\ IsFiniteSet(pending') /\ Cardinality(pending') <= MaxPending
  BY <1>8, DequeuedFacts DEF Dequeued, IInv, TypeOK
<1>13. \A q \in Runs \ {r} : q \in pending => q \in pending'
  BY <1>8
<1> QED
  BY <1>1, <1>3, <1>8, <1>10, <1>11, <1>12, <1>13, OneRun DEF IInv, TypeOK

LEMMA BindChildStep ==
  ASSUME IInv, NEW r \in Runs, BindChild(r)
  PROVE  IInv'
<1> DEFINE c == run[r].conversation
           keys == KeysOf(r, c)
           owned == {k \in keys : ~run[r].registered \/ OwnsKey(r, k)}
           z == Registered(run[r], r, keys)
           b == [z EXCEPT !.phase = "bound"]
           x == Buffered(b, owned)
           y == Carried(x)
<1>1. /\ run[r].phase = "setup" /\ run[r].path # "openclaw"
      /\ UNCHANGED <<settled, honoured>>
      /\ Registers(r, keys) /\ buffers' = Pointed(buffers, owned, r)
      /\ run' = [run EXCEPT ![r] = y]
  BY DEF BindChild
<1>2. run[r] \in RunType /\ Shape(run[r], r)
  BY DEF IInv, TypeOK
<1>3. c \in Conversations \union {None} /\ c = run[r].conversation
  BY <1>2 DEF RunType
<1>4. keys \in SUBSET Keys /\ owned \in SUBSET Keys /\ owned \in SUBSET keys
      /\ owned = {k \in keys : ~run[r].registered \/ OwnsKey(r, k)} /\ keys = KeysOf(r, c)
  BY <1>3 DEF Keys, KeysOf
<1>5. IF run[r].registered THEN keys \subseteq run[r].keys
      ELSE \A k \in keys : k = r \/ (k \in Conversations /\ Fresh(k))
  BY <1>1, <1>2 DEF Shape, KeysOf
<1> HIDE DEF keys, owned, c
<1>6. /\ active' \in [Keys -> Runs \union {None}]
      /\ buffers' \in [Keys -> Runs \union {None}]
      /\ \A q \in Runs \ {r} :
           Linked(run[q], q, active, buffers) => Linked(run[q], q, active', buffers')
      /\ \A k \in owned : buffers'[k] = r
      /\ IF run[r].registered THEN active' = active /\ pending' = pending
         ELSE (\A k \in keys : active'[k] = r) /\ pending' = pending \ {r}
  BY <1>1, <1>4, <1>5, Claims
<1>7. z \in RunType /\ z.path = run[r].path /\ z = Registered(run[r], r, keys)
      /\ z.conversation = c
  BY <1>2, <1>3, <1>4, RegisteredFacts, HandleFacts DEF Registered, RunType
<1> HIDE DEF z
<1>8. /\ x \in RunType /\ x.phase = "bound" /\ x.conversation = c /\ x.buffer = "open"
      /\ x.tagged = owned /\ x.registered = z.registered /\ x.keys = z.keys
      /\ x.stopRequested = z.stopRequested /\ x.acceptingStop = z.acceptingStop
      /\ x.projectionActive = z.projectionActive /\ x.child = z.child /\ x.path = z.path
  <2>1. /\ b \in RunType /\ b.phase = "bound" /\ b.conversation = c
        /\ b.registered = z.registered /\ b.keys = z.keys
        /\ b.stopRequested = z.stopRequested /\ b.acceptingStop = z.acceptingStop
        /\ b.projectionActive = z.projectionActive /\ b.child = z.child /\ b.path = z.path
    BY <1>7, PhasesFacts DEF RunType
  <2> HIDE DEF b
  <2> QED
    BY <1>4, <2>1, BufferedFacts
<1> HIDE DEF x
<1>9. /\ Shape(x, r) /\ Linked(x, r, active', buffers')
      /\ r \in honoured' => Heard(x, r, pending')
  <2>1. x.path # "openclaw"
    BY <1>1, <1>7, <1>8
  <2>2. run[r].registered => x.conversation = run[r].conversation
    BY <1>3, <1>8
  <2> QED
    BY <1>1, <1>4, <1>6, <1>7, <1>8, <2>1, <2>2, Opened
<1>10. y \in RunType /\ Alike(x, y)
  BY <1>8, KillFacts DEF Carried, Alike
<1> HIDE DEF y
<1>11. /\ Shape(y, r) /\ Linked(y, r, active', buffers')
       /\ r \in honoured' => Heard(y, r, pending')
  BY <1>9, <1>10 DEF Alike, Shape, Linked, Heard, Bound
<1>12. pending' \subseteq Runs /\ IsFiniteSet(pending') /\ Cardinality(pending') <= MaxPending
  BY <1>6, DequeuedFacts DEF Dequeued, IInv, TypeOK
<1>13. \A q \in Runs \ {r} : q \in pending => q \in pending'
  BY <1>6
<1> QED
  BY <1>1, <1>6, <1>10, <1>11, <1>12, <1>13, OneRun DEF IInv, TypeOK

LEMMA AnnounceStep ==
  ASSUME IInv, NEW r \in Runs, Announce(r)
  PROVE  IInv'
<1>1. /\ run[r].phase = "bound" /\ run[r].conversation = None
      /\ UNCHANGED <<pending, settled, buffers, honoured>>
  BY DEF Announce
<1>2. run[r] \in RunType /\ Shape(run[r], r) /\ Linked(run[r], r, active, buffers)
      /\ (r \in honoured => Heard(run[r], r, pending))
  BY DEF IInv, TypeOK
<1>3. run[r].projectionActive /\ run[r].registered /\ run[r].keys = {r}
  BY <1>1, <1>2 DEF Shape, KeysOf
<1>4. PICK c \in Conversations :
        /\ Fresh(c) /\ active' = Pointed(active, {c}, r)
        /\ run' = [run EXCEPT ![r].conversation = c,
                              ![r].keys = IF run[r].projectionActive THEN @ \union {c} ELSE @]
  BY <1>3 DEF Announce
<1> DEFINE keys == run[r].keys \union {c}
           y == [run[r] EXCEPT !.conversation = c, !.keys = keys]
<1>5. run' = [run EXCEPT ![r] = y]
  BY <1>2, <1>3, <1>4 DEF IInv, TypeOK, RunType
<1>6. keys \in SUBSET Keys /\ keys = {r, c} /\ c # None
  BY <1>3, KeysAssumption DEF Keys
<1> HIDE DEF keys
<1>7. y \in RunType
  BY <1>2, <1>6 DEF RunType
<1>8. Shape(y, r)
  BY <1>1, <1>2, <1>3, <1>6 DEF RunType, Shape, KeysOf, Bound
<1>9. Linked(y, r, active', buffers')
  BY <1>1, <1>2, <1>3, <1>4, <1>6 DEF RunType, Linked, Pointed
<1>10. r \in honoured => Heard(y, r, pending)
  BY <1>2 DEF RunType, Heard
<1> HIDE DEF y
<1>11. buffers' = Pointed(buffers, {}, r)
  BY <1>1 DEF Pointed, IInv, TypeOK
<1>12. /\ active' \in [Keys -> Runs \union {None}]
       /\ buffers' \in [Keys -> Runs \union {None}]
       /\ \A q \in Runs \ {r} :
            Linked(run[q], q, active, buffers) => Linked(run[q], q, active', buffers')
  <2>1. {c} \in SUBSET Keys /\ {} \in SUBSET Keys
    BY DEF Keys
  <2>2. \A q \in Runs \ {r} : run[q].keys \intersect {c} = {} /\ run[q].tagged \intersect {} = {}
    BY <1>4, KeysApart
  <2> QED
    BY <1>4, <1>11, <2>1, <2>2, PointedApart
<1> QED
  BY <1>1, <1>5, <1>7, <1>8, <1>9, <1>10, <1>12, OneRun DEF IInv, TypeOK

LEMMA SendStep ==
  ASSUME IInv, NEW r \in Runs, Send(r)
  PROVE  IInv'
<1>1. run[r].phase = "unsent" /\ UNCHANGED <<settled, buffers, honoured>>
  BY DEF Send
<1>2. run[r] \in RunType /\ Shape(run[r], r)
      /\ (r \in honoured => Heard(run[r], r, pending))
  BY DEF IInv, TypeOK
<1>3. ~run[r].registered /\ ~run[r].stopRequested /\ run[r].conversation = None
      /\ ~run[r].projectionActive /\ ~run[r].acceptingStop /\ run[r].child # "running"
  BY <1>1, <1>2 DEF Shape
<1>4. PICK p \in Paths, c \in Conversations \union {None} :
        LET x == [run[r] EXCEPT !.phase = "setup", !.path = p, !.conversation = c]
        IN  \/ /\ c = None
               /\ run' = [run EXCEPT ![r] = x]
               /\ UNCHANGED <<active, pending>>
            \/ /\ run' = [run EXCEPT ![r].phase = "refused"]
               /\ UNCHANGED <<active, pending>>
            \/ /\ c # None
               /\ ~BlocksNewTurn(c) /\ ~BlocksNewTurn(r)
               /\ run' = [run EXCEPT ![r] = Handle(x, r, {r, c})]
               /\ active' = Pointed(active, {r, c}, r)
               /\ pending' = pending \ {r}
  BY DEF Send
<1> DEFINE x == [run[r] EXCEPT !.phase = "setup", !.path = p, !.conversation = c]
<1>5. x \in RunType
  BY <1>2, PhasesFacts DEF RunType
<1>6. /\ x.phase = "setup" /\ x.conversation = c /\ x.registered = run[r].registered
      /\ x.keys = run[r].keys /\ x.stopRequested = run[r].stopRequested
      /\ x.acceptingStop = run[r].acceptingStop
      /\ x.projectionActive = run[r].projectionActive /\ x.child = run[r].child
      /\ x.tagged = run[r].tagged /\ x.buffer = "none"
  BY <1>1, <1>2 DEF RunType, Shape
<1>7. CASE /\ c = None
           /\ run' = [run EXCEPT ![r] = x]
           /\ UNCHANGED <<active, pending>>
  <2> HIDE DEF x
  <2>1. Shape(x, r) /\ Linked(x, r, active, buffers)
        /\ (r \in honoured => Heard(x, r, pending))
    BY <1>1, <1>2, <1>3, <1>6, <1>7 DEF Shape, Linked, Heard, Bound
  <2> QED
    BY <1>1, <1>5, <1>7, <2>1, OneRun DEF IInv, TypeOK
<1>8. CASE /\ run' = [run EXCEPT ![r].phase = "refused"]
           /\ UNCHANGED <<active, pending>>
  <2> DEFINE y == [run[r] EXCEPT !.phase = "refused"]
  <2>1. run' = [run EXCEPT ![r] = y]
    BY <1>8 DEF IInv, TypeOK
  <2>2. y \in RunType
    BY <1>2, PhasesFacts DEF RunType
  <2>3. /\ y.phase = "refused" /\ y.conversation = None /\ ~y.registered
        /\ y.keys = run[r].keys /\ ~y.stopRequested /\ ~y.acceptingStop
        /\ ~y.projectionActive /\ y.child # "running" /\ y.buffer = run[r].buffer
        /\ y.tagged = run[r].tagged
    BY <1>2, <1>3 DEF RunType
  <2> HIDE DEF y
  <2>4. Shape(y, r) /\ Linked(y, r, active, buffers) /\ Heard(y, r, pending)
    BY <1>1, <1>2, <1>3, <2>3 DEF Shape, Linked, Heard, Bound
  <2> QED
    BY <1>1, <1>8, <2>1, <2>2, <2>4, OneRun DEF IInv, TypeOK
<1>9. CASE /\ c # None
           /\ ~BlocksNewTurn(c) /\ ~BlocksNewTurn(r)
           /\ run' = [run EXCEPT ![r] = Handle(x, r, {r, c})]
           /\ active' = Pointed(active, {r, c}, r)
           /\ pending' = pending \ {r}
  <2> DEFINE keys == {r, c}
             y == Handle(x, r, keys)
  <2>1. keys \in SUBSET Keys /\ keys = KeysOf(r, c) /\ c \in Conversations
    BY <1>9 DEF Keys, KeysOf
  <2> HIDE DEF x
  <2>2. y \in RunType /\ y.registered /\ y.keys = keys /\ y.projectionActive
        /\ y.acceptingStop /\ y.stopRequested = (r \in pending) /\ y.phase = "setup"
        /\ y.conversation = c /\ y.child # "running" /\ y.tagged = run[r].tagged
        /\ y.buffer = "none"
    BY <1>3, <1>5, <1>6, <2>1, HandleFacts
  <2>3. run' = [run EXCEPT ![r] = y]
    BY <1>9
  <2> HIDE DEF y
  <2>4. run[r].tagged \subseteq {r}
    BY <1>2, <1>3 DEF Shape, KeysOf
  <2>5. Shape(y, r)
    BY <1>9, <2>1, <2>2, <2>4 DEF Shape, Bound
  <2>6. r \in honoured => Heard(y, r, pending')
    BY <1>1, <1>2, <1>3, <2>2 DEF Heard
  <2>7. buffers' = Pointed(buffers, {}, r)
    BY <1>1 DEF Pointed, IInv, TypeOK
  <2>8. \A q \in Runs \ {r} :
          run[q].projectionActive /\ ~run[q].stopRequested =>
            run[q].keys \intersect keys = {} /\ run[q].tagged \intersect {} = {}
    BY <1>9, <2>1, NotBlocked, KeysApart DEF Keys
  <2>9. active' = Pointed(active, keys, r)
    BY <1>9
  <2> HIDE DEF keys
  <2>10. /\ active' \in [Keys -> Runs \union {None}]
         /\ buffers' \in [Keys -> Runs \union {None}]
         /\ \A q \in Runs \ {r} :
              Linked(run[q], q, active, buffers) => Linked(run[q], q, active', buffers')
    BY <2>1, <2>7, <2>8, <2>9, PointedApart
  <2>11. Linked(y, r, active', buffers')
    BY <1>1, <2>1, <2>2, <2>9 DEF Linked, Pointed
  <2> QED
    BY <1>1, <1>9, <2>2, <2>3, <2>5, <2>6, <2>10, <2>11, DequeuedFacts, OneRun
       DEF Dequeued, IInv, TypeOK
<1> QED
  BY <1>4, <1>7, <1>8, <1>9

-----------------------------------------------------------------------------
LEMMA InitIInv == Init => IInv
<1> SUFFICES ASSUME Init PROVE IInv
  OBVIOUS
<1>1. Unsent \in RunType
  BY PathsAssumption, BoundsAssumption DEF Unsent, RunType, Phases
<1>2. TypeOK /\ IsFiniteSet(pending)
  BY <1>1, FS_EmptySet, BoundsAssumption DEF Init, TypeOK
<1>3. ASSUME NEW r \in Runs
      PROVE  Shape(run[r], r) /\ Linked(run[r], r, active, buffers) /\ r \notin honoured
  BY <1>3 DEF Init, Unsent, Shape, Linked, KeysOf, Bound
<1> QED
  BY <1>2, <1>3 DEF IInv

LEMMA NextIInv == IInv /\ [Next]_vars => IInv'
<1> SUFFICES ASSUME IInv, [Next]_vars PROVE IInv'
  OBVIOUS
<1>1. CASE UNCHANGED vars
  BY <1>1 DEF vars, IInv, TypeOK, Shape, Linked, Heard, Bound
<1>2. CASE Next
  <2>1. ASSUME NEW r \in Runs,
               \/ Send(r) \/ Open(r) \/ BindOpenClaw(r) \/ BindChild(r) \/ SetupFails(r)
               \/ Launch(r) \/ Announce(r) \/ ChildExits(r)
               \/ Settle(r) \/ Save(r) \/ Close(r) \/ Reap(r)
               \/ StopRun(r) \/ ExpirePending(r)
               \/ Abort(r) \/ DetachTimer(r) \/ Detach(r)
        PROVE  IInv'
    BY <2>1, SendStep, OpenStep, BindOpenClawStep, BindChildStep, SetupFailsStep,
       LaunchStep, AnnounceStep, ChildExitsStep, SettleStep, SaveStep, CloseStep,
       ReapStep, StopRunStep, ExpirePendingStep, AbortStep, DetachTimerStep, DetachStep
  <2>2. ASSUME NEW c \in Conversations, StopConversation(c) PROVE IInv'
    BY <2>2, StopConversationStep
  <2>3. ASSUME NEW k \in Keys, Attach(k) PROVE IInv'
    BY <2>3, AttachStep
  <2>4. CASE ExpireSettled
    BY <2>4, ExpireSettledStep
  <2> QED
    BY <1>2, <2>1, <2>2, <2>3, <2>4 DEF Next
<1> QED
  BY <1>1, <1>2

(* The invariant the other theorems rest on.                               *)
THEOREM Invariance == Spec => []IInv
  BY InitIInv, NextIInv, PTL DEF Spec

(* The types hold, and the queue of stops and the memory of settled runs   *)
(* stay within their capacities.                                           *)
THEOREM TypesHold == Spec => []TypeOK
<1>1. IInv => TypeOK
  BY DEF IInv
<1> QED
  BY <1>1, Invariance, PTL

(* However many turns overlap, a live one is what Stop and the sessions    *)
(* list find under its conversation: registration, late announcement and   *)
(* cleanup never hide it (chatRunBlocksNewTurn, unregisterChatRun).        *)
THEOREM LiveIsReachableHolds == Spec => []LiveIsReachable
<1>1. IInv => LiveIsReachable
  <2> SUFFICES ASSUME IInv, NEW r \in Runs, Live(r), run[r].conversation # None
               PROVE  active[run[r].conversation] = r
    BY DEF LiveIsReachable
  <2>1. Shape(run[r], r) /\ Linked(run[r], r, active, buffers)
    BY DEF IInv
  <2> QED
    BY <2>1 DEF Live, Shape, Linked, KeysOf
<1> QED
  BY <1>1, Invariance, PTL

(* A live run's buffer is the one a tail finds under each key it was       *)
(* opened with (chatRunOwnsKey, the reap timer's identity check).          *)
THEOREM LiveIsTailedHolds == Spec => []LiveIsTailed
<1>1. IInv => LiveIsTailed
  BY DEF IInv, LiveIsTailed, Live, Linked
<1> QED
  BY <1>1, Invariance, PTL

(* An answered Stop leaves no child unsignalled, wherever in the setup, a  *)
(* binding or a relaunch it lands (setChatRunStopHandler, runAttempt).     *)
THEOREM StopReachesChildHolds == Spec => []StopReachesChild
<1>1. IInv => StopReachesChild
  <2> SUFFICES ASSUME IInv, NEW r \in honoured, run[r].child = "running"
               PROVE  run[r].killed
    BY DEF StopReachesChild
  <2>1. r \in Runs
    BY DEF IInv, TypeOK
  <2>2. Shape(run[r], r) /\ Heard(run[r], r, pending)
    BY <2>1 DEF IInv
  <2> QED
    BY <2>2 DEF Shape, Heard
<1> QED
  BY <1>1, Invariance, PTL

(* A Stop answered stopped or queued is never contradicted by the          *)
(* transcript (requestOrQueueChatStop, markChatRunTransportSettled).       *)
THEOREM AnsweredIsCancelledHolds == Spec => []AnsweredIsCancelled
<1>1. IInv => AnsweredIsCancelled
  <2> SUFFICES ASSUME IInv, NEW r \in honoured,
                      run[r].phase \in {"settled", "saved", "closed"}
               PROVE  run[r].stopRequested
    BY DEF AnsweredIsCancelled
  <2>1. r \in Runs
    BY DEF IInv, TypeOK
  <2>2. Heard(run[r], r, pending)
    BY <2>1 DEF IInv
  <2> QED
    BY <2>2 DEF Heard
<1> QED
  BY <1>1, Invariance, PTL

-----------------------------------------------------------------------------
(***************************************************************************)
(* The detach cap of an OpenClaw turn counts down exactly while nobody     *)
(* listens to it.                                                          *)
(***************************************************************************)

(* The cap of a run: off until its transport is bound, off while it is     *)
(* tailed, and set or spent once it is bound and nobody listens.  A buffer *)
(* of a run that is over takes no tails.                                   *)
Early == {"unsent", "setup", "opened"}

Cap(x) ==
  /\ x.phase \in Early => x.timer = "off"
  /\ x.phase \in {"failed", "closed"} => x.buffer # "open"
  /\ x.path = "openclaw" =>
       /\ x.timer = "armed" => x.tails = 0
       /\ x.phase = "bound" /\ x.aborted /\ x.tails = 0 => x.timer = "armed" \/ x.killed
       /\ x.phase = "bound" /\ x.timer = "fired" => x.killed

CapInv == \A r \in Runs : Cap(run[r])

LEMMA OneRunCap ==
  ASSUME IInv, CapInv, NEW r \in Runs, NEW y, Cap(y), run' = [run EXCEPT ![r] = y]
  PROVE  CapInv'
BY DEF IInv, TypeOK, CapInv

LEMMA Fields ==
  ASSUME IInv, CapInv, NEW r \in Runs
  PROVE  run \in [Runs -> RunType] /\ run[r] \in RunType /\ Cap(run[r]) /\ Shape(run[r], r)
BY DEF IInv, TypeOK, CapInv

(* A signal changes nothing about the cap.                                 *)
LEMMA KillCap ==
  ASSUME NEW x \in RunType, Cap(x)
  PROVE  Cap(Kill(x))
BY DEF Cap, Kill, RunType

(* Arming the cap of a turn nobody listens to sets it, unless it was set   *)
(* before or the turn has been signalled.                                  *)
LEMMA ArmedCap ==
  ASSUME NEW x \in RunType, x.phase \notin Early \union {"failed", "closed"},
         x.path = "openclaw" =>
           /\ x.timer = "armed" => x.tails = 0
           /\ x.phase = "bound" /\ x.timer = "fired" => x.killed
           /\ x.phase = "bound" /\ x.stopRequested => x.killed
  PROVE  Cap(Armed(x))
<1>1. x.tails \in Nat /\ x.timer \in {"off", "armed", "fired"}
  BY BoundsAssumption DEF RunType
<1>2. CASE Armed(x) = x
  <2>1. x.path = "openclaw" /\ x.tails = 0 => x.stopRequested \/ x.timer # "off"
    BY <1>1, <1>2 DEF Armed, RunType
  <2>. QED
    BY <1>1, <1>2, <2>1 DEF Cap
<1>3. CASE Armed(x) = [x EXCEPT !.timer = "armed"] /\ (x.path = "openclaw" => x.tails = 0)
  BY <1>3 DEF Cap, RunType
<1>. QED
  BY <1>1, <1>2, <1>3 DEF Armed

-----------------------------------------------------------------------------
LEMMA AbortCap ==
  ASSUME IInv, CapInv, NEW r \in Runs, Abort(r)
  PROVE  CapInv'
<1> DEFINE x == [run[r] EXCEPT !.aborted = TRUE]
<1>1. run' = [run EXCEPT ![r] = IF Listens(x) THEN Armed(x) ELSE x]
  BY DEF Abort
<1>2. x \in RunType
  <2>1. run[r] \in RunType
    BY Fields
  <2>. QED
    BY <2>1 DEF RunType
<1>3. CASE Listens(x)
  <2>1. x.phase = "bound"
    BY <1>3, Fields DEF Listens, RunType, Shape
  <2>2. x.path = "openclaw" =>
          /\ x.timer = "armed" => x.tails = 0
          /\ x.timer = "fired" => x.killed
          /\ x.stopRequested => x.killed
    BY <2>1, Fields DEF Cap, Shape, Bound, RunType
  <2>3. Cap(Armed(x))
    BY <1>2, <2>1, <2>2, ArmedCap DEF Early
  <2>. QED
    BY <1>1, <1>3, <2>3, OneRunCap
<1>4. CASE ~Listens(x)
  <2>1. Cap(x)
    BY <1>4, Fields DEF Cap, Listens, RunType
  <2>. QED
    BY <1>1, <1>4, <2>1, OneRunCap
<1>. QED
  BY <1>3, <1>4

LEMMA DetachTimerCap ==
  ASSUME IInv, CapInv, NEW r \in Runs, DetachTimer(r)
  PROVE  CapInv'
<1> DEFINE x == [run[r] EXCEPT !.timer = "fired"]
<1>1. run[r].timer = "armed" /\ run' = [run EXCEPT ![r] = Kill(x)]
  BY DEF DetachTimer
<1>2. Cap(Kill(x))
  BY <1>1, Fields DEF Cap, Kill, Bound, RunType
<1>. QED
  BY <1>1, <1>2, OneRunCap

(* The first tail stops the cap, and a later one finds it off.             *)
LEMMA AttachCap ==
  ASSUME IInv, CapInv, NEW k \in Keys, Attach(k)
  PROVE  CapInv'
<1> DEFINE r == buffers[k]
           x == [run[r] EXCEPT !.tails = @ + 1]
           y == IF x.tails = 1 /\ Bound(x) THEN [x EXCEPT !.timer = "off"] ELSE x
<1>1. r \in Runs
  BY DEF Attach, IInv, TypeOK
<1>2. run[r].buffer = "open" /\ run' = [run EXCEPT ![r] = y]
  BY DEF Attach
<1>3. run[r].tails \in Nat /\ x.tails = run[r].tails + 1
  BY <1>1, BoundsAssumption, Fields DEF RunType
<1>4. run[r].phase \in {"opened", "bound", "settled", "saved"}
  BY <1>1, <1>2, Fields DEF Shape, Cap, RunType, Phases
<1>5. Cap(y)
  BY <1>1, <1>2, <1>3, <1>4, Fields DEF Cap, Early, Bound, RunType
<1>. QED
  BY <1>1, <1>2, <1>5, OneRunCap

(* The last tail of a turn whose client is gone sets the cap.              *)
LEMMA DetachCap ==
  ASSUME IInv, CapInv, NEW r \in Runs, Detach(r)
  PROVE  CapInv'
<1> DEFINE x == [run[r] EXCEPT !.tails = @ - 1]
<1>1. /\ run[r].tails > 0
      /\ run' = [run EXCEPT ![r] = IF x.tails = 0 /\ x.aborted /\ Bound(x)
                                     THEN Armed(x) ELSE x]
  BY DEF Detach
<1>2. run[r].tails \in 0 .. MaxTails /\ x.tails = run[r].tails - 1
  BY Fields DEF RunType
<1>3. x \in RunType
  <2>1. run[r] \in RunType /\ run[r].tails - 1 \in 0 .. MaxTails
    BY <1>1, <1>2, BoundsAssumption, Fields
  <2>. QED
    BY <2>1 DEF RunType
<1>4. run[r].path = "openclaw" => run[r].timer # "armed"
  BY <1>1, <1>2, BoundsAssumption, Fields DEF Cap
<1>5. CASE x.tails = 0 /\ x.aborted /\ Bound(x)
  <2>1. x.phase \notin Early \union {"failed", "closed"}
    BY <1>5 DEF Bound, Early
  <2>2. x.path = "openclaw" =>
          /\ x.timer = "armed" => x.tails = 0
          /\ x.phase = "bound" /\ x.timer = "fired" => x.killed
          /\ x.phase = "bound" /\ x.stopRequested => x.killed
    BY <1>5, Fields DEF Cap, Shape, Bound, RunType
  <2>3. Cap(Armed(x))
    BY <1>3, <2>1, <2>2, ArmedCap
  <2>. QED
    BY <1>1, <1>5, <2>3, OneRunCap
<1>6. CASE ~(x.tails = 0 /\ x.aborted /\ Bound(x))
  <2>1. Cap(x)
    BY <1>2, <1>4, <1>6, Fields DEF Cap, Bound, RunType
  <2>. QED
    BY <1>1, <1>6, <2>1, OneRunCap
<1>. QED
  BY <1>5, <1>6

-----------------------------------------------------------------------------
LEMMA StopCap ==
  ASSUME IInv, CapInv, NEW r \in Runs, run' = [run EXCEPT ![r] = Stopped(@)]
  PROVE  CapInv'
<1> DEFINE x == [run[r] EXCEPT !.stopRequested = TRUE]
<1>1. run[r] \in RunType /\ Cap(run[r])
  BY Fields
<1>2. x \in RunType
  BY <1>1 DEF RunType
<1>3. Cap(x)
  BY <1>1 DEF Cap, RunType
<1>4. Cap(Stopped(run[r]))
  BY <1>2, <1>3, KillCap DEF Stopped
<1>. QED
  BY <1>4, OneRunCap

(* Registering, and opening a buffer, do not reach the cap.                *)
LEMMA HandleCap ==
  ASSUME NEW x \in RunType, NEW r, NEW keys
  PROVE  LET y == Handle(x, r, keys) IN
           /\ y.phase = x.phase /\ y.path = x.path /\ y.timer = x.timer /\ y.tails = x.tails
           /\ y.aborted = x.aborted /\ y.killed = x.killed /\ y.buffer = x.buffer
BY DEF Handle, RunType

LEMMA SendCap ==
  ASSUME IInv, CapInv, NEW r \in Runs, Send(r)
  PROVE  CapInv'
<1>1. run[r].phase = "unsent"
  BY DEF Send
<1>2. PICK p \in Paths, c \in Conversations \union {None} :
        LET x == [run[r] EXCEPT !.phase = "setup", !.path = p, !.conversation = c]
        IN  \/ run' = [run EXCEPT ![r] = x]
            \/ run' = [run EXCEPT ![r].phase = "refused"]
            \/ run' = [run EXCEPT ![r] = Handle(x, r, {r, c})]
  BY DEF Send
<1> DEFINE x == [run[r] EXCEPT !.phase = "setup", !.path = p, !.conversation = c]
           y == [run[r] EXCEPT !.phase = "refused"]
<1>3. x \in RunType /\ Cap(x) /\ Cap(y)
  <2>1. x \in RunType
    <3>1. p \in {"child", "http", "openclaw"}
      BY PathsAssumption
    <3>2. "setup" \in Phases
      BY PhasesFacts
    <3>3. run[r] \in RunType
      BY Fields
    <3>. QED
      BY <3>1, <3>2, <3>3 DEF RunType
  <2>2. run[r].timer = "off"
    BY <1>1, Fields DEF Cap, Early
  <2>3. /\ x.phase = "setup" /\ x.timer = "off"
        /\ y.phase = "refused" /\ y.timer = "off"
    BY <2>2, Fields DEF RunType
  <2>. QED
    BY <2>1, <2>3 DEF Cap, Early
<1>4. Cap(Handle(x, r, {r, c}))
  <2> HIDE DEF x
  <2> DEFINE h == Handle(x, r, {r, c})
  <2>1. /\ h.phase = x.phase /\ h.path = x.path /\ h.timer = x.timer /\ h.tails = x.tails
        /\ h.aborted = x.aborted /\ h.killed = x.killed /\ h.buffer = x.buffer
    BY <1>3, HandleCap
  <2> HIDE DEF h
  <2>2. Cap(h)
    BY <1>3, <2>1 DEF Cap
  <2>. QED
    BY <2>2 DEF h
<1>. QED
  BY <1>2, <1>3, <1>4, OneRunCap

LEMMA OpenCap ==
  ASSUME IInv, CapInv, NEW r \in Runs, Open(r)
  PROVE  CapInv'
<1>1. run[r].phase = "setup" /\ run[r].path = "openclaw"
  BY DEF Open
<1>2. PICK c \in Conversations, owned \in SUBSET Keys :
        run' = [run EXCEPT ![r] =
                  Buffered([Registered(@, r, {r, c}) EXCEPT !.phase = "opened",
                                                            !.conversation = c], owned)]
  <2>1. \A c \in Conversations : {r, c} \in SUBSET Keys
    BY DEF Keys
  <2>. QED
    BY <2>1 DEF Open
<1> DEFINE x == Registered(run[r], r, {r, c})
           y == Buffered([x EXCEPT !.phase = "opened", !.conversation = c], owned)
<1>3. x.timer = "off" /\ y.timer = "off" /\ y.phase = "opened"
  BY <1>1, Fields DEF Registered, Handle, Buffered, Cap, Early, RunType
<1>4. Cap(y)
  BY <1>3 DEF Cap, Early
<1>. QED
  BY <1>2, <1>4, OneRunCap

LEMMA BindChildCap ==
  ASSUME IInv, CapInv, NEW r \in Runs, BindChild(r)
  PROVE  CapInv'
<1>1. run[r].path # "openclaw"
  BY DEF BindChild
<1>2. PICK keys, owned :
        run' = [run EXCEPT ![r] =
          Carried(Buffered([Registered(@, r, keys) EXCEPT !.phase = "bound"], owned))]
  BY DEF BindChild
<1> DEFINE y == Buffered([Registered(run[r], r, keys) EXCEPT !.phase = "bound"], owned)
<1>3. Carried(y).phase = "bound" /\ Carried(y).path # "openclaw"
  BY <1>1, Fields DEF Carried, Kill, Registered, Handle, Buffered, RunType
<1>4. Cap(Carried(y))
  BY <1>3 DEF Cap, Early
<1>. QED
  BY <1>2, <1>4, OneRunCap

(* A client that vanished before the transport was bound is noticed there. *)
LEMMA BindOpenClawCap ==
  ASSUME IInv, CapInv, NEW r \in Runs, BindOpenClaw(r)
  PROVE  CapInv'
<1> DEFINE b == [run[r] EXCEPT !.phase = "bound"]
           x == Carried(b)
<1>1. run[r].phase = "opened" /\ run' = [run EXCEPT ![r] = ArmedIfGone(x)]
  BY DEF BindOpenClaw
<1>2. b \in RunType /\ b.timer = "off" /\ b.phase = "bound"
  <2>1. run[r] \in RunType /\ Cap(run[r])
    BY Fields
  <2>2. run[r].timer = "off"
    BY <1>1, <2>1 DEF Cap, Early
  <2>3. b \in RunType
    BY <2>1, PhasesFacts DEF RunType
  <2>4. b.timer = run[r].timer /\ b.phase = "bound"
    BY <2>1 DEF RunType
  <2>. QED
    BY <2>2, <2>3, <2>4
<1>3. /\ x \in RunType /\ x.timer = "off" /\ x.phase = "bound"
      /\ x.path = "openclaw" /\ x.stopRequested => x.killed
  <2> HIDE DEF b
  <2> DEFINE k == [b EXCEPT !.killed = TRUE]
  <2>1. k \in RunType
    BY <1>2 DEF RunType
  <2>2. k.timer = "off" /\ k.phase = "bound" /\ k.killed
    BY <1>2 DEF RunType
  <2>3. x = b \/ x = k
    BY DEF Carried, Kill
  <2>4. b.path = "openclaw" /\ b.stopRequested => x = k
    BY <1>2 DEF Carried, Kill, Bound
  <2>5. k.path = b.path /\ k.stopRequested = b.stopRequested
    BY <1>2 DEF RunType
  <2> HIDE DEF k, x
  <2>. QED
    BY <1>2, <2>1, <2>2, <2>3, <2>4, <2>5
<1>4. Cap(ArmedIfGone(x))
  <2>1. CASE x.aborted
    BY <1>3, <2>1, ArmedCap DEF ArmedIfGone, Early
  <2>2. CASE ~x.aborted
    BY <1>3, <2>2 DEF ArmedIfGone, Cap, Early
  <2>. QED
    BY <2>1, <2>2
<1>. QED
  BY <1>1, <1>4, OneRunCap

LEMMA LaunchCap ==
  ASSUME IInv, CapInv, NEW r \in Runs, Launch(r)
  PROVE  CapInv'
<1> DEFINE x == [run[r] EXCEPT !.child = "running", !.launches = @ + 1,
                               !.killed = @ /\ run[r].path = "openclaw"]
<1>1. run[r].phase = "bound"
      /\ run' = [run EXCEPT ![r] = IF x.path = "http" THEN ArmedIfGone(x) ELSE x]
  BY DEF Launch
<1>2. CASE x.path = "http"
  <2>1. ArmedIfGone(x).path = "http" /\ ArmedIfGone(x).phase = "bound"
    BY <1>1, <1>2, Fields DEF ArmedIfGone, Armed, RunType
  <2>2. Cap(ArmedIfGone(x))
    BY <2>1 DEF Cap, Early
  <2>. QED
    BY <1>1, <1>2, <2>2, OneRunCap
<1>3. CASE x.path # "http"
  <2>1. Cap(x)
    BY <1>1, <1>3, Fields DEF Cap, Early, RunType
  <2>. QED
    BY <1>1, <1>3, <2>1, OneRunCap
<1>. QED
  BY <1>2, <1>3

(* The turn's end: what is left of the cap no longer matters.              *)
LEMMA EndCap ==
  ASSUME IInv, CapInv, NEW r \in Runs, SetupFails(r) \/ Settle(r) \/ Save(r) \/ Close(r)
  PROVE  CapInv'
<1>1. PICK y : /\ run' = [run EXCEPT ![r] = y]
               /\ y.phase \in {"failed", "settled", "saved", "closed"}
               /\ y.phase \in {"failed", "closed"} => y.buffer # "open" /\ y.tails = 0
               /\ y.phase = "settled" /\ y.path = "openclaw" => y.timer = "off"
               /\ y.phase = "saved" /\ y.path = "openclaw" /\ y.timer = "armed" => y.tails = 0
  <2> DEFINE x == run[r]
             u == Unregistered(x)
  <2>1. CASE SetupFails(r)
    <3> DEFINE y == [u EXCEPT !.phase = "failed", !.tails = 0,
                              !.buffer = IF x.buffer = "open" THEN "done" ELSE x.buffer]
    <3>1. run' = [run EXCEPT ![r] = y]
      BY <2>1 DEF SetupFails
    <3>2. y.phase = "failed" /\ y.tails = 0 /\ y.buffer # "open"
      BY Fields DEF Unregistered, RunType
    <3>. QED
      BY <3>1, <3>2
  <2>2. CASE Settle(r)
    <3> DEFINE y == [x EXCEPT !.phase = "settled", !.acceptingStop = FALSE,
                              !.timer = IF x.path = "openclaw" THEN "off" ELSE x.timer]
    <3>1. run' = [run EXCEPT ![r] = y]
      BY <2>2, Fields DEF Settle
    <3>2. y.phase = "settled" /\ (y.path = "openclaw" => y.timer = "off")
      BY Fields DEF RunType
    <3>. QED
      BY <3>1, <3>2
  <2>3. CASE Save(r)
    <3> DEFINE y == IF x.path = "openclaw" THEN [u EXCEPT !.phase = "saved"]
                    ELSE [x EXCEPT !.phase = "saved", !.projectionActive = FALSE]
    <3>1. run' = [run EXCEPT ![r] = y]
      BY <2>3, Fields DEF Save
    <3>2. y.phase = "saved" /\ (y.path = "openclaw" /\ y.timer = "armed" => y.tails = 0)
      BY Fields DEF Unregistered, RunType, Cap
    <3>. QED
      BY <3>1, <3>2
  <2>4. CASE Close(r)
    <3> DEFINE y == [u EXCEPT !.phase = "closed", !.buffer = "done", !.tails = 0,
                              !.timer = IF x.path = "openclaw" THEN x.timer ELSE "off"]
    <3>1. run' = [run EXCEPT ![r] = y]
      BY <2>4 DEF Close
    <3>2. y.phase = "closed" /\ y.tails = 0 /\ y.buffer = "done"
      BY Fields DEF Unregistered, RunType
    <3>. QED
      BY <3>1, <3>2
  <2>. QED
    BY <2>1, <2>2, <2>3, <2>4
<1>2. Cap(y)
  BY <1>1 DEF Cap, Early
<1>. QED
  BY <1>1, <1>2, OneRunCap

(* Nothing that the cap depends on changes.                                *)
LEMMA QuietCap ==
  ASSUME IInv, CapInv, NEW r \in Runs, Announce(r) \/ ChildExits(r) \/ Reap(r)
  PROVE  CapInv'
<1>1. PICK y : run' = [run EXCEPT ![r] = y] /\ Cap(y)
  <2>1. CASE Announce(r)
    <3>1. PICK c \in Conversations :
            run' = [run EXCEPT ![r].conversation = c,
                               ![r].keys = IF run[r].projectionActive THEN @ \union {c} ELSE @]
      BY <2>1 DEF Announce
    <3> DEFINE y == [run[r] EXCEPT !.conversation = c,
                       !.keys = IF run[r].projectionActive THEN @ \union {c} ELSE @]
    <3>2. run' = [run EXCEPT ![r] = y]
      BY <3>1, Fields DEF RunType
    <3>3. Cap(y)
      BY Fields DEF Cap, RunType
    <3>. QED
      BY <3>2, <3>3
  <2>2. CASE ChildExits(r)
    <3> DEFINE y == [run[r] EXCEPT !.child = "exited"]
    <3>1. run' = [run EXCEPT ![r] = y] /\ Cap(y)
      BY <2>2, Fields DEF ChildExits, Cap, RunType
    <3>. QED
      BY <3>1
  <2>3. CASE Reap(r)
    <3> DEFINE y == [run[r] EXCEPT !.buffer = "none"]
    <3>1. run' = [run EXCEPT ![r] = y] /\ Cap(y)
      BY <2>3, Fields DEF Reap, Cap, RunType
    <3>. QED
      BY <3>1
  <2>. QED
    BY <2>1, <2>2, <2>3
<1>. QED
  BY <1>1, OneRunCap

LEMMA InitCap == Init => CapInv
BY DEF Init, Unsent, CapInv, Cap

LEMMA NextCap == IInv /\ CapInv /\ [Next]_vars => CapInv'
<1> SUFFICES ASSUME IInv, CapInv, [Next]_vars PROVE CapInv'
  OBVIOUS
<1>1. CASE UNCHANGED run
  BY <1>1 DEF CapInv
<1>2. CASE UNCHANGED vars \/ ExpireSettled \/ \E r \in Runs : ExpirePending(r)
  BY <1>1, <1>2 DEF vars, ExpireSettled, ExpirePending
<1>3. CASE \E r \in Runs : StopRun(r)
  BY <1>1, <1>3, StopCap DEF StopRun
<1>4. CASE \E c \in Conversations : StopConversation(c)
  <2>1. \A c \in Conversations : active[c] # None => active[c] \in Runs
    BY DEF IInv, TypeOK, Keys
  <2>. QED
    BY <1>4, <2>1, StopCap DEF StopConversation
<1>5. CASE \E r \in Runs : Abort(r) \/ DetachTimer(r) \/ Detach(r)
  BY <1>5, AbortCap, DetachTimerCap, DetachCap
<1>6. CASE \E k \in Keys : Attach(k)
  BY <1>6, AttachCap
<1>7. CASE \E r \in Runs : Send(r) \/ Open(r) \/ BindOpenClaw(r) \/ BindChild(r) \/ Launch(r)
  BY <1>7, SendCap, OpenCap, BindOpenClawCap, BindChildCap, LaunchCap
<1>8. CASE \E r \in Runs : SetupFails(r) \/ Settle(r) \/ Save(r) \/ Close(r)
  BY <1>8, EndCap
<1>9. CASE \E r \in Runs : Announce(r) \/ ChildExits(r) \/ Reap(r)
  BY <1>9, QuietCap
<1>. QED
  BY <1>2, <1>3, <1>4, <1>5, <1>6, <1>7, <1>8, <1>9 DEF Next

(* An OpenClaw turn's cap counts down on no run that is tailed, and on     *)
(* every child whose client is gone and that nobody tails.                 *)
THEOREM OpenClawCappedHolds == Spec => []OpenClawCapped
<1>1. IInv /\ CapInv => OpenClawCapped
  BY DEF IInv, CapInv, Shape, Cap, OpenClawCapped, CapUnwatched, CapPresent
<1>. QED
  BY <1>1, InitCap, NextCap, Invariance, PTL DEF Spec
=============================================================================
