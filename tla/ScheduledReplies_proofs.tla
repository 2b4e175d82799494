-------------------------- MODULE ScheduledReplies_proofs --------------------------
(***************************************************************************)
(* Proofs about ScheduledReplies for any processes, chats, replies, times  *)
(* and bounds.  First the owner of the worker, which does not depend on    *)
(* what its passes do; then the store and the deliveries.                  *)
(***************************************************************************)
EXTENDS ScheduledReplies, FiniteSetTheorems, TLAPS

(* What makes OneOwner inductive: the counts are what the owner's record says, *)
(* and the restart that is still current is chained once, with no timer yet.   *)
OwnerInv ==
    \A p \in Proc :
        /\ intervals[p] = IF owner[p].timer THEN 1 ELSE 0
        /\ passes[p] = IF owner[p].pending THEN 1 ELSE 0
        /\ owner[p].timer => owner[p].wanted
        /\ \A c \in chained[p] :
              /\ c.revision <= owner[p].revision
              /\ c.revision = owner[p].revision => ~owner[p].timer
        /\ \A c, d \in chained[p] : c.revision = d.revision => c = d

OwnerIInv == OwnerTypeOK /\ OwnerInv

LEMMA OwnerInitInv == OwnerInit => OwnerIInv
  BY DEF OwnerInit, OwnerIInv, OwnerTypeOK, OwnerInv, Owner, Idle

LEMMA StartKeeps ==
  ASSUME OwnerIInv, NEW p \in Proc, Start(p)
  PROVE  OwnerIInv'
<1> DEFINE k == owner[p].revision + 1
           o == [owner[p] EXCEPT !.wanted = TRUE, !.revision = k]
<1>0. owner[p] \in Owner /\ k \in Nat
  BY DEF OwnerIInv, OwnerTypeOK, Owner
<1>1. /\ o \in Owner
      /\ o.wanted
      /\ o.revision = k
      /\ o.timer = owner[p].timer
      /\ o.pending = owner[p].pending
  <2> HIDE DEF k
  <2> QED
    BY <1>0 DEF Owner
<1>2. ~owner[p].wanted /\ ~owner[p].timer
  BY DEF OwnerIInv, OwnerInv, Start
<1>3. CASE ~o.pending /\ Arm(p, o) /\ UNCHANGED chained
  <2> DEFINE n == [[o EXCEPT !.timer = TRUE] EXCEPT !.pending = TRUE]
  <2>1. /\ owner' = [owner EXCEPT ![p] = n]
        /\ passes' = [passes EXCEPT ![p] = @ + 1]
        /\ intervals' = [intervals EXCEPT ![p] = @ + 1]
        /\ n \in Owner /\ n.wanted /\ n.timer /\ n.pending /\ n.revision = owner[p].revision + 1
    BY <1>1, <1>3 DEF Arm, Tick, Admits, Owner
  <2> HIDE DEF n
  <2> QED
    BY <1>1, <1>2, <1>3, <2>1 DEF OwnerIInv, OwnerTypeOK, OwnerInv, Owner
<1>4. CASE /\ o.pending
           /\ owner' = [owner EXCEPT ![p] = o]
           /\ chained' = [chained EXCEPT ![p] = @ \cup {[revision |-> o.revision, settled |-> FALSE]}]
           /\ UNCHANGED <<intervals, passes>>
  <2> DEFINE c == [revision |-> k, settled |-> FALSE]
  <2>1. c \in [revision : Nat, settled : BOOLEAN] /\ c.revision = k
    BY <1>0
  <2>2. chained' = [chained EXCEPT ![p] = @ \cup {c}]
    BY <1>1, <1>4
  <2>3. \A d \in chained[p] : d.revision # k
    BY <1>0 DEF OwnerIInv, OwnerTypeOK, OwnerInv, Owner
  <2> HIDE DEF o, c
  <2>4. OwnerTypeOK'
    BY <1>1, <1>4, <2>1, <2>2 DEF OwnerIInv, OwnerTypeOK
  <2>5. \A d \in chained[p] : d.revision \in Nat /\ owner[p].revision \in Nat
    BY DEF OwnerIInv, OwnerTypeOK, Owner
  <2>6. ASSUME NEW q \in Proc
        PROVE  /\ \A d \in chained'[q] :
                     /\ d.revision <= owner'[q].revision
                     /\ d.revision = owner'[q].revision => ~owner'[q].timer
               /\ \A d, e \in chained'[q] : d.revision = e.revision => d = e
    <3>1. CASE q = p
      <4>1. chained'[p] = chained[p] \cup {c} /\ owner'[p] = o
        BY <1>4, <2>2 DEF OwnerIInv, OwnerTypeOK
      <4>2. \A d \in chained[p] : d.revision <= owner[p].revision
        BY DEF OwnerIInv, OwnerInv
      <4>3. \A d \in chained[p] : d.revision <= k
        BY <2>5, <4>2
      <4>4. \A d, e \in chained[p] : d.revision = e.revision => d = e
        BY DEF OwnerIInv, OwnerInv
      <4> HIDE DEF k
      <4> QED
        BY <1>0, <1>1, <1>2, <2>1, <2>3, <3>1, <4>1, <4>3, <4>4
    <3>2. CASE q # p
      BY <1>4, <2>2, <3>2 DEF OwnerIInv, OwnerTypeOK, OwnerInv
    <3> QED
      BY <3>1, <3>2
  <2>7. ASSUME NEW q \in Proc
        PROVE  /\ intervals'[q] = IF owner'[q].timer THEN 1 ELSE 0
               /\ passes'[q] = IF owner'[q].pending THEN 1 ELSE 0
               /\ owner'[q].timer => owner'[q].wanted
    BY <1>1, <1>2, <1>4 DEF OwnerIInv, OwnerTypeOK, OwnerInv
  <2>8. OwnerInv'
    BY <2>6, <2>7 DEF OwnerInv
  <2> QED
    BY <2>4, <2>8 DEF OwnerIInv
<1> QED
  BY <1>3, <1>4 DEF Start

LEMMA TickKeeps ==
  ASSUME OwnerIInv, NEW p \in Proc, Tick(p, owner[p])
  PROVE  /\ owner' \in [Proc -> Owner]
         /\ passes' \in [Proc -> Nat]
         /\ \A q \in Proc :
               /\ owner'[q].wanted = owner[q].wanted
               /\ owner'[q].revision = owner[q].revision
               /\ owner'[q].timer = owner[q].timer
               /\ passes'[q] = IF owner'[q].pending THEN 1 ELSE 0
  BY DEF OwnerIInv, OwnerTypeOK, OwnerInv, Owner, Tick, Admits

LEMMA ResumeKeeps ==
  ASSUME OwnerIInv, NEW p \in Proc, Resume(p)
  PROVE  OwnerIInv'
<1>1. PICK c \in chained[p] :
        /\ chained' = [chained EXCEPT ![p] = @ \ {c}]
        /\ IF Current(owner[p], c) THEN Arm(p, owner[p]) ELSE UNCHANGED <<owner, intervals, passes>>
  BY DEF Resume
<1>2. CASE Current(owner[p], c)
  <2> DEFINE n == [[owner[p] EXCEPT !.timer = TRUE] EXCEPT !.pending = TRUE]
  <2>1. /\ owner' = [owner EXCEPT ![p] = n]
        /\ passes' = [passes EXCEPT ![p] = IF owner[p].pending THEN @ ELSE @ + 1]
        /\ intervals' = [intervals EXCEPT ![p] = @ + 1]
        /\ n \in Owner /\ n.wanted /\ n.timer /\ n.pending /\ n.revision = owner[p].revision
    BY <1>1, <1>2 DEF Arm, Tick, Admits, Current, Owner, OwnerIInv, OwnerTypeOK
  <2>2. ~owner[p].timer /\ \A d \in chained[p] \ {c} : d.revision # owner[p].revision
    BY <1>2 DEF Current, OwnerIInv, OwnerInv
  <2> HIDE DEF n
  <2> QED
    BY <1>1, <2>1, <2>2 DEF OwnerIInv, OwnerTypeOK, OwnerInv, Owner
<1>3. CASE ~Current(owner[p], c)
  BY <1>1, <1>3 DEF OwnerIInv, OwnerTypeOK, OwnerInv
<1> QED
  BY <1>2, <1>3

LEMMA FireKeeps ==
  ASSUME OwnerIInv, NEW p \in Proc, Fire(p)
  PROVE  OwnerIInv'
  BY TickKeeps DEF OwnerIInv, OwnerTypeOK, OwnerInv, Fire

LEMMA StopKeeps ==
  ASSUME OwnerIInv, NEW p \in Proc, Stop(p)
  PROVE  OwnerIInv'
<1> DEFINE k == owner[p].revision + 1
           n == [owner[p] EXCEPT !.wanted = FALSE, !.revision = k, !.timer = FALSE]
<1>0. owner[p] \in Owner /\ k \in Nat
  BY DEF OwnerIInv, OwnerTypeOK, Owner
<1>2. n \in Owner /\ n.revision = k /\ ~n.timer /\ n.pending = owner[p].pending
  <2> HIDE DEF k
  <2> QED
    BY <1>0 DEF Owner
<1>3. /\ owner' = [owner EXCEPT ![p] = n]
      /\ intervals' = [intervals EXCEPT ![p] = IF owner[p].timer THEN @ - 1 ELSE @]
      /\ UNCHANGED <<passes, chained>>
  BY DEF Stop
<1> HIDE DEF n
<1> QED
  BY <1>0, <1>2, <1>3 DEF OwnerIInv, OwnerTypeOK, OwnerInv, Owner

LEMMA DrainKeeps ==
  ASSUME OwnerIInv, NEW p \in Proc, Drain(p)
  PROVE  OwnerIInv'
<1> DEFINE n == [owner[p] EXCEPT !.pending = FALSE]
           settled == {[c EXCEPT !.settled = TRUE] : c \in chained[p]}
<1>1. owner[p].pending /\ passes[p] = 1 /\ owner[p] \in Owner
  BY DEF OwnerIInv, OwnerTypeOK, OwnerInv, Drain
<1>2. /\ n \in Owner
      /\ n.wanted = owner[p].wanted
      /\ n.revision = owner[p].revision
      /\ n.timer = owner[p].timer
      /\ ~n.pending
  BY <1>1 DEF Owner
<1>3. \A c \in chained[p] : c \in [revision : Nat, settled : BOOLEAN]
  BY DEF OwnerIInv, OwnerTypeOK
<1>4. \A d \in settled : \E c \in chained[p] :
        d = [revision |-> c.revision, settled |-> TRUE] /\ c.revision \in Nat
  BY <1>3
<1>5. /\ settled \in SUBSET [revision : Nat, settled : BOOLEAN]
      /\ \A d \in settled : \E c \in chained[p] : d.revision = c.revision
      /\ \A c, d \in settled : c.revision = d.revision => c = d
  BY <1>4
<1>6. /\ owner' = [owner EXCEPT ![p] = n]
      /\ passes' = [passes EXCEPT ![p] = 0]
      /\ chained' = [chained EXCEPT ![p] = settled]
      /\ UNCHANGED intervals
  BY <1>1 DEF Drain, OwnerIInv, OwnerTypeOK
<1> HIDE DEF n, settled
<1> QED
  BY <1>1, <1>2, <1>5, <1>6 DEF OwnerIInv, OwnerTypeOK, OwnerInv, Owner

LEMMA DieKeeps ==
  ASSUME OwnerIInv, NEW p \in Proc, Die(p)
  PROVE  OwnerIInv'
  BY DEF OwnerIInv, OwnerTypeOK, OwnerInv, Owner, Die, Idle

LEMMA OwnerStutter ==
  ASSUME OwnerIInv, UNCHANGED ownerVars
  PROVE  OwnerIInv'
  BY DEF OwnerIInv, OwnerTypeOK, OwnerInv, ownerVars

LEMMA OwnerIInvOneOwner == OwnerIInv => OneOwner
<1> SUFFICES ASSUME OwnerIInv, NEW p \in Proc
             PROVE  intervals[p] <= 1 /\ passes[p] <= 1 /\ (~owner[p].wanted => intervals[p] = 0)
  BY DEF OneOwner
<1>1. /\ intervals[p] = IF owner[p].timer THEN 1 ELSE 0
      /\ passes[p] = IF owner[p].pending THEN 1 ELSE 0
      /\ owner[p].timer => owner[p].wanted
  BY DEF OwnerIInv, OwnerInv
<1> QED
  BY <1>1

(* The owner of the inbox reminders and of the scheduled replies: whatever is *)
(* started, stopped and restarted while passes are in flight, there is one    *)
(* timer and one pass, and no timer once it is stopped.                       *)
THEOREM OwnerSpecOneOwner == OwnerSpec => []OneOwner
<1>1. OwnerIInv /\ [\E p \in Proc : OwnerNext(p)]_ownerVars => OwnerIInv'
  BY StartKeeps, ResumeKeeps, FireKeeps, StopKeeps, DrainKeeps, DieKeeps, OwnerStutter
  DEF OwnerNext
<1> QED
  BY OwnerInitInv, <1>1, OwnerIInvOneOwner, PTL DEF OwnerSpec
-----------------------------------------------------------------------------
(* What a pass does for a chat: it has read the file, works for a reply of    *)
(* that chat, and from its claim on is alone with the chat's dispatch lock.   *)
WorkInv ==
    \A p \in Proc :
        /\ listed[p] # None => listed[p] <= clock
        /\ \A c \in Chat :
              /\ listed[p] = None => work[p][c] = NoWork
              /\ work[p][c] # NoWork => chatOf[work[p][c].reply] = c
              /\ work[p][c].at \in {"claim", "dispatch", "stream", "settle"} => lane[c] = {p}

(* Between claim and settlement the file says sending, and the turns started  *)
(* are known; a reply about to be dispatched is the oldest of its chat.       *)
DeliveryInv ==
    \A p \in Proc, c \in Chat : LET w == work[p][c] IN
        /\ w.at \in {"dispatch", "stream", "settle"} => item[w.reply].status = "sending"
        /\ w.at = "dispatch" =>
              /\ sent[w.reply] = 0
              /\ sendAt[w.reply] <= clock
              /\ \A r \in Reply :
                    chatOf[r] = c /\ Scheduled(r) /\ ~item[r].late => sendAt[w.reply] <= sendAt[r]
        /\ w.at = "stream" => sent[w.reply] = 1
        /\ w.at = "settle" /\ w.result = "scheduled" => sent[w.reply] = 0
        /\ w.at = "settle" /\ w.result = "sent" => sent[w.reply] = 1

StoreInv == StoreTypeOK /\ WorkInv /\ DeliveryInv /\ StatusTellsTruth

IInv == OwnerIInv /\ StoreInv

LEMMA WorkType ==
  ASSUME StoreTypeOK, NEW p \in Proc, NEW c \in Chat
  PROVE  /\ work[p][c] \in Work
         /\ work[p][c].at # "idle" =>
               /\ work[p][c] # NoWork
               /\ work[p][c] \in [at : Step, reply : Reply, result : Outcome]
               /\ work[p][c].reply \in Reply
               /\ work[p][c].result \in Outcome
<1>1. work[p][c] \in Work
  BY DEF StoreTypeOK
<1> QED
  BY <1>1 DEF Work, NoWork, Step

(* One entry of a table of tables is replaced. *)
LEMMA PointUpdate ==
  ASSUME NEW W, NEW f \in [Proc -> [Chat -> W]], NEW p \in Proc, NEW c \in Chat, NEW w \in W,
         NEW g, g = [f EXCEPT ![p][c] = w]
  PROVE  /\ g \in [Proc -> [Chat -> W]]
         /\ \A q \in Proc, d \in Chat : g[q][d] = IF q = p /\ d = c THEN w ELSE f[q][d]
  OBVIOUS

LEMMA NoWorkType == NoWork \in Work /\ NoWork.at = "idle"
  BY DEF NoWork, Work

LEMMA LeaveLaneEffect ==
  ASSUME StoreTypeOK, NEW p \in Proc, NEW c \in Chat, LeaveLane(p, c)
  PROVE  /\ work' \in [Proc -> [Chat -> Work]]
         /\ \A q \in Proc, d \in Chat : work'[q][d] = IF q = p /\ d = c THEN NoWork ELSE work[q][d]
         /\ lane' \in [Chat -> SUBSET Proc]
         /\ \A d \in Chat : lane'[d] = IF d = c THEN lane[c] \ {p} ELSE lane[d]
<1>1. work \in [Proc -> [Chat -> Work]] /\ work' = [work EXCEPT ![p][c] = NoWork]
  BY DEF StoreTypeOK, LeaveLane
<1>2. /\ work' \in [Proc -> [Chat -> Work]]
      /\ \A q \in Proc, d \in Chat : work'[q][d] = IF q = p /\ d = c THEN NoWork ELSE work[q][d]
  BY <1>1, PointUpdate, NoWorkType
<1>3. /\ lane' \in [Chat -> SUBSET Proc]
      /\ \A d \in Chat : lane'[d] = IF d = c THEN lane[c] \ {p} ELSE lane[d]
  BY DEF StoreTypeOK, LeaveLane
<1> QED
  BY <1>2, <1>3

LEMMA ToEffect ==
  ASSUME StoreTypeOK, NEW p \in Proc, NEW c \in Chat, NEW at \in Step,
         work[p][c].at # "idle", To(p, c, at)
  PROVE  /\ work' \in [Proc -> [Chat -> Work]]
         /\ \A q \in Proc, d \in Chat : <<q, d>> # <<p, c>> => work'[q][d] = work[q][d]
         /\ work'[p][c] # NoWork
         /\ work'[p][c].at = at
         /\ work'[p][c].reply = work[p][c].reply
         /\ work'[p][c].result = work[p][c].result
<1> DEFINE w == [work[p][c] EXCEPT !.at = at]
<1>1. work[p][c] \in [at : Step, reply : Reply, result : Outcome]
  BY WorkType
<1>2. /\ w \in Work
      /\ w # NoWork
      /\ w.at = at
      /\ w.reply = work[p][c].reply
      /\ w.result = work[p][c].result
  BY <1>1 DEF Work, NoWork, Step
<1>3. work \in [Proc -> [Chat -> Work]] /\ work' = [work EXCEPT ![p][c] = w]
  BY DEF StoreTypeOK, To
<1> HIDE DEF w
<1>4. /\ work' \in [Proc -> [Chat -> Work]]
      /\ \A q \in Proc, d \in Chat : work'[q][d] = IF q = p /\ d = c THEN w ELSE work[q][d]
  BY <1>2, <1>3, PointUpdate
<1> QED
  BY <1>2, <1>4

LEMMA EndedEffect ==
  ASSUME StoreTypeOK, NEW p \in Proc, NEW c \in Chat, NEW s \in Outcome,
         work[p][c].at # "idle", Ended(p, c, s)
  PROVE  /\ work' \in [Proc -> [Chat -> Work]]
         /\ \A q \in Proc, d \in Chat : <<q, d>> # <<p, c>> => work'[q][d] = work[q][d]
         /\ work'[p][c] # NoWork
         /\ work'[p][c].at = "settle"
         /\ work'[p][c].reply = work[p][c].reply
         /\ work'[p][c].result = s
<1> DEFINE w == [work[p][c] EXCEPT !.at = "settle", !.result = s]
<1>1. work[p][c] \in [at : Step, reply : Reply, result : Outcome]
  BY WorkType
<1>2. /\ w \in Work
      /\ w # NoWork
      /\ w.at = "settle"
      /\ w.reply = work[p][c].reply
      /\ w.result = s
  BY <1>1 DEF Work, NoWork, Step
<1>3. work \in [Proc -> [Chat -> Work]] /\ work' = [work EXCEPT ![p][c] = w]
  BY DEF StoreTypeOK, Ended
<1> HIDE DEF w
<1>4. /\ work' \in [Proc -> [Chat -> Work]]
      /\ \A q \in Proc, d \in Chat : work'[q][d] = IF q = p /\ d = c THEN w ELSE work[q][d]
  BY <1>2, <1>3, PointUpdate
<1> QED
  BY <1>2, <1>4

LEMMA SetStatusEffect ==
  ASSUME StoreTypeOK, NEW r \in Reply, NEW s \in Status, SetStatus(r, s)
  PROVE  /\ item' \in [Reply -> [status : Status, late : BOOLEAN]]
         /\ item'[r].status = s
         /\ item'[r].late = item[r].late
         /\ \A q \in Reply : q # r => item'[q] = item[q]
  BY DEF StoreTypeOK, SetStatus
-----------------------------------------------------------------------------
LEMMA StoreInit == Init => StoreInv
<1> SUFFICES ASSUME Init PROVE StoreInv
  OBVIOUS
<1>1. StoreTypeOK
  BY NoWorkType, RepliesAssumption DEF Init, StoreTypeOK, Status, Time
<1>2. WorkInv
  BY NoWorkType DEF Init, WorkInv
<1>3. DeliveryInv
  BY NoWorkType DEF Init, DeliveryInv
<1>4. StatusTellsTruth
  BY DEF Init, StatusTellsTruth
<1> QED
  BY <1>1, <1>2, <1>3, <1>4 DEF StoreInv

LEMMA AddKeeps ==
  ASSUME StoreInv, NEW r \in Reply, Add(r)
  PROVE  StoreInv'
<1>1. UNCHANGED <<clock, work, listed, lane, sent, faults>>
  BY DEF Add
<1>2. PICK t \in 0 .. clock :
        item' = IF Stores(r, t)
          THEN [item EXCEPT ![r] = [status |-> "scheduled", late |-> sendAt[r] <= clock]]
          ELSE item
  BY DEF Add
<1>3. CASE Stores(r, t)
  <2>1. /\ item' \in [Reply -> [status : Status, late : BOOLEAN]]
        /\ item'[r].status = "scheduled"
        /\ item'[r].late = (sendAt[r] <= clock)
        /\ \A q \in Reply : q # r => item'[q] = item[q]
    BY <1>2, <1>3 DEF StoreInv, StoreTypeOK, Status, Outcome
  <2>2. item[r].status = "absent" /\ sent[r] = 0
    BY <1>3 DEF Stores, StoreInv, StatusTellsTruth
  <2>3. StoreTypeOK' /\ WorkInv'
    BY <1>1, <2>1 DEF StoreInv, StoreTypeOK, WorkInv
  <2>4. ASSUME NEW p \in Proc, NEW c \in Chat, work[p][c].at \in {"dispatch", "stream", "settle"}
        PROVE  work[p][c].reply \in Reply /\ work[p][c].reply # r
    BY <2>2, <2>4, WorkType DEF StoreInv, DeliveryInv
  <2>5. ASSUME NEW p \in Proc, NEW c \in Chat, work[p][c].at = "dispatch",
               NEW q \in Reply, chatOf[q] = c, Scheduled(q)', ~item'[q].late
        PROVE  sendAt[work[p][c].reply] <= sendAt[q]
    <3>1. CASE q = r
      <4>1. sendAt[work[p][c].reply] <= clock /\ ~(sendAt[r] <= clock)
        BY <2>1, <2>5, <3>1 DEF StoreInv, DeliveryInv
      <4>2. sendAt[work[p][c].reply] \in Nat /\ sendAt[r] \in Nat /\ clock \in Nat
        BY <2>4, <2>5, RepliesAssumption DEF StoreInv, StoreTypeOK, Time
      <4> QED
        BY <3>1, <4>1, <4>2
    <3>2. CASE q # r
      BY <2>1, <2>5, <3>2 DEF StoreInv, DeliveryInv, Scheduled
    <3> QED
      BY <3>1, <3>2
  <2>6. DeliveryInv'
    BY <1>1, <2>1, <2>4, <2>5 DEF StoreInv, DeliveryInv
  <2>7. StatusTellsTruth'
    BY <1>1, <2>1, <2>2 DEF StoreInv, StatusTellsTruth
  <2> QED
    BY <2>3, <2>6, <2>7 DEF StoreInv
<1>4. CASE ~Stores(r, t)
  BY <1>1, <1>2, <1>4 DEF StoreInv, StoreTypeOK, WorkInv, DeliveryInv, StatusTellsTruth, Scheduled
<1> QED
  BY <1>3, <1>4

LEMMA CancelKeeps ==
  ASSUME StoreInv, NEW r \in Reply, Cancel(r)
  PROVE  StoreInv'
<1>1. UNCHANGED <<clock, work, listed, lane, sent, faults>> /\ item[r].status \in {"scheduled", "cancelled"}
  BY DEF Cancel
<1>2. /\ item' \in [Reply -> [status : Status, late : BOOLEAN]]
      /\ item'[r].status = "cancelled"
      /\ \A q \in Reply : q # r => item'[q] = item[q]
  BY SetStatusEffect DEF Cancel, StoreInv, Status
<1>3. sent[r] = 0
  BY <1>1 DEF StoreInv, StatusTellsTruth
<1>4. StoreTypeOK' /\ WorkInv'
  BY <1>1, <1>2 DEF StoreInv, StoreTypeOK, WorkInv
<1>5. ASSUME NEW p \in Proc, NEW c \in Chat, work[p][c].at \in {"dispatch", "stream", "settle"}
      PROVE  work[p][c].reply \in Reply /\ work[p][c].reply # r
  BY <1>1, <1>5, WorkType DEF StoreInv, DeliveryInv
<1>6. DeliveryInv'
  BY <1>1, <1>2, <1>5 DEF StoreInv, DeliveryInv, Scheduled
<1>7. StatusTellsTruth'
  BY <1>1, <1>2, <1>3 DEF StoreInv, StatusTellsTruth
<1> QED
  BY <1>4, <1>6, <1>7 DEF StoreInv

LEMMA ListKeeps ==
  ASSUME StoreInv, NEW p \in Proc, List(p)
  PROVE  StoreInv'
<1>1. /\ UNCHANGED <<clock, item, lane, sent, faults>>
      /\ listed[p] = None
      /\ listed' = [listed EXCEPT ![p] = clock]
  BY DEF List
<1>2. PICK pick \in [Chat -> Reply \cup {None}] :
        /\ \A c \in Chat :
              LET due == {r \in Reply : chatOf[r] = c /\ Due(r, clock)}
              IN  IF due = {} THEN pick[c] = None ELSE pick[c] \in due /\ Oldest(pick[c])
        /\ work' = [work EXCEPT ![p] = [c \in Chat |->
              IF pick[c] = None THEN NoWork
              ELSE [at |-> "queued", reply |-> pick[c], result |-> "sent"]]]
  BY DEF List
<1>3. ASSUME NEW c \in Chat
      PROVE  /\ work'[p][c] \in Work
             /\ work'[p][c].at \in {"idle", "queued"}
             /\ work'[p][c] # NoWork => chatOf[work'[p][c].reply] = c
  <2>1. work'[p][c] = IF pick[c] = None THEN NoWork
                      ELSE [at |-> "queued", reply |-> pick[c], result |-> "sent"]
    BY <1>2 DEF StoreInv, StoreTypeOK
  <2>2. pick[c] # None => pick[c] \in Reply /\ chatOf[pick[c]] = c
    BY <1>2
  <2> QED
    BY <2>1, <2>2, NoWorkType DEF Work, Step, Outcome
<1>4. \A q \in Proc : q # p => work'[q] = work[q] /\ listed'[q] = listed[q]
  BY <1>1, <1>2 DEF StoreInv, StoreTypeOK
<1>5. StoreTypeOK'
  <2>1. work' \in [Proc -> [Chat -> Work]]
    <3>1. [c \in Chat |-> IF pick[c] = None THEN NoWork
             ELSE [at |-> "queued", reply |-> pick[c], result |-> "sent"]] \in [Chat -> Work]
      BY NoWorkType DEF Work, Step, Outcome
    <3> QED
      BY <1>2, <3>1 DEF StoreInv, StoreTypeOK
  <2> QED
    BY <1>1, <2>1 DEF StoreInv, StoreTypeOK
<1>6. WorkInv'
  <2> SUFFICES ASSUME NEW q \in Proc
               PROVE  /\ listed'[q] # None => listed'[q] <= clock'
                      /\ \A c \in Chat :
                            /\ listed'[q] = None => work'[q][c] = NoWork
                            /\ work'[q][c] # NoWork => chatOf[work'[q][c].reply] = c
                            /\ work'[q][c].at \in {"claim", "dispatch", "stream", "settle"} => lane'[c] = {q}
    BY DEF WorkInv
  <2>1. CASE q = p
    <3>1. listed'[p] = clock /\ clock \in Nat /\ clock' = clock
      BY <1>1 DEF StoreInv, StoreTypeOK, Time
    <3>2. listed'[p] # None /\ listed'[p] <= clock'
      BY <3>1, RepliesAssumption
    <3> QED
      BY <1>3, <2>1, <3>2
  <2>2. CASE q # p
    BY <1>1, <1>4, <2>2 DEF StoreInv, WorkInv
  <2> QED
    BY <2>1, <2>2
<1>7. DeliveryInv'
  <2> SUFFICES ASSUME NEW q \in Proc, NEW c \in Chat, work'[q][c].at \in {"dispatch", "stream", "settle"}
               PROVE  work'[q][c] = work[q][c]
    BY <1>1 DEF StoreInv, DeliveryInv, Scheduled
  <2> QED
    BY <1>3, <1>4
<1>8. StatusTellsTruth'
  BY <1>1 DEF StoreInv, StatusTellsTruth
<1> QED
  BY <1>5, <1>6, <1>7, <1>8 DEF StoreInv
-----------------------------------------------------------------------------
Held == {"claim", "dispatch", "stream", "settle"}

(* While a delivery holds its chat's lock, no other is under way for the chat, *)
(* nor, therefore, for the reply.                                              *)
LEMMA Alone ==
  ASSUME StoreInv, NEW p \in Proc, NEW c \in Chat, work[p][c].at \in Held,
         NEW q \in Proc, NEW d \in Chat, work[q][d].at \in Held, <<q, d>> # <<p, c>>
  PROVE  /\ d # c
         /\ work[p][c].reply \in Reply /\ chatOf[work[p][c].reply] = c
         /\ work[q][d].reply \in Reply /\ work[q][d].reply # work[p][c].reply
<1>1. lane[c] = {p} /\ lane[d] = {q}
  BY DEF StoreInv, WorkInv, Held
<1>2. /\ work[p][c] # NoWork /\ work[p][c].reply \in Reply
      /\ work[q][d] # NoWork /\ work[q][d].reply \in Reply
  BY WorkType DEF StoreInv, Held
<1>3. chatOf[work[p][c].reply] = c /\ chatOf[work[q][d].reply] = d
  BY <1>2 DEF StoreInv, WorkInv
<1> QED
  BY <1>1, <1>2, <1>3

(* A step of one delivery touches its own entry, reply and lock; it keeps the  *)
(* invariant if it keeps what the invariant says of that entry and reply.      *)
LEMMA OwnStep ==
  ASSUME StoreInv, NEW p \in Proc, NEW c \in Chat, NEW r \in Reply,
         work[p][c].at # "idle", r = work[p][c].reply,
         UNCHANGED <<clock, listed>>, faults' \in Nat,
         work' \in [Proc -> [Chat -> Work]],
         \A q \in Proc, d \in Chat : <<q, d>> # <<p, c>> => work'[q][d] = work[q][d],
         item' \in [Reply -> [status : Status, late : BOOLEAN]],
         \A s \in Reply : s # r => item'[s] = item[s],
         sent' \in [Reply -> Nat],
         \A s \in Reply : s # r => sent'[s] = sent[s],
         lane' \in [Chat -> SUBSET Proc],
         \A d \in Chat : d # c => lane'[d] = lane[d],
         work[p][c].at \in Held \/ (item' = item /\ sent' = sent /\ (lane' = lane \/ lane[c] = {})),
         work'[p][c] # NoWork => work'[p][c].reply = r,
         work'[p][c].at \in Held => lane'[c] = {p},
         work'[p][c].at \in {"dispatch", "stream", "settle"} => item'[r].status = "sending",
         work'[p][c].at = "dispatch" =>
              /\ sent'[r] = 0
              /\ sendAt[r] <= clock
              /\ \A s \in Reply :
                    chatOf[s] = c /\ Scheduled(s)' /\ ~item'[s].late => sendAt[r] <= sendAt[s],
         work'[p][c].at = "stream" => sent'[r] = 1,
         work'[p][c].at = "settle" /\ work'[p][c].result = "scheduled" => sent'[r] = 0,
         work'[p][c].at = "settle" /\ work'[p][c].result = "sent" => sent'[r] = 1,
         sent'[r] <= 1,
         item'[r].status \in {"absent", "scheduled", "cancelled"} => sent'[r] = 0,
         item'[r].status = "sent" => sent'[r] = 1
  PROVE  StoreInv'
<1>1. StoreTypeOK'
  BY DEF StoreInv, StoreTypeOK
<1>2. chatOf[r] = c /\ work[p][c] # NoWork /\ listed[p] # None
  BY WorkType DEF StoreInv, WorkInv
<1>3. ASSUME NEW q \in Proc, NEW d \in Chat, work[q][d].at \in Held, <<q, d>> # <<p, c>>
      PROVE  /\ work[q][d].reply \in Reply
             /\ lane'[d] = lane[d]
             /\ item'[work[q][d].reply] = item[work[q][d].reply]
             /\ sent'[work[q][d].reply] = sent[work[q][d].reply]
  <2>1. work[q][d].reply \in Reply
    BY <1>3, WorkType DEF StoreInv, Held
  <2>2. CASE work[p][c].at \in Held
    BY <1>3, <2>1, <2>2, Alone
  <2>3. CASE item' = item /\ sent' = sent /\ (lane' = lane \/ lane[c] = {})
    <3>1. lane[d] = {q}
      BY <1>3 DEF StoreInv, WorkInv, Held
    <3> QED
      BY <2>1, <2>3, <3>1
  <2> QED
    BY <2>2, <2>3
<1>4. WorkInv'
  <2> SUFFICES ASSUME NEW q \in Proc, NEW d \in Chat
               PROVE  /\ listed'[q] # None => listed'[q] <= clock'
                      /\ listed'[q] = None => work'[q][d] = NoWork
                      /\ work'[q][d] # NoWork => chatOf[work'[q][d].reply] = d
                      /\ work'[q][d].at \in Held => lane'[d] = {q}
    BY DEF WorkInv, Held
  <2>1. listed'[q] # None => listed'[q] <= clock'
    BY DEF StoreInv, WorkInv
  <2>2. CASE <<q, d>> = <<p, c>>
    BY <1>2, <2>1, <2>2
  <2>3. CASE <<q, d>> # <<p, c>>
    <3>1. work'[q][d] = work[q][d] /\ listed'[q] = listed[q]
      BY <2>3
    <3> QED
      BY <1>3, <2>1, <2>3, <3>1 DEF StoreInv, WorkInv, Held
  <2> QED
    BY <2>2, <2>3
<1>5. DeliveryInv'
  <2> SUFFICES ASSUME NEW q \in Proc, NEW d \in Chat, NEW w, w = work'[q][d]
               PROVE  /\ w.at \in {"dispatch", "stream", "settle"} => item'[w.reply].status = "sending"
                      /\ w.at = "dispatch" =>
                            /\ sent'[w.reply] = 0
                            /\ sendAt[w.reply] <= clock'
                            /\ \A s \in Reply : chatOf[s] = d /\ Scheduled(s)' /\ ~item'[s].late
                                                => sendAt[w.reply] <= sendAt[s]
                      /\ w.at = "stream" => sent'[w.reply] = 1
                      /\ w.at = "settle" /\ w.result = "scheduled" => sent'[w.reply] = 0
                      /\ w.at = "settle" /\ w.result = "sent" => sent'[w.reply] = 1
    BY DEF DeliveryInv
  <2>1. CASE <<q, d>> = <<p, c>>
    <3>1. w.at \in Held => w.reply = r
      BY <2>1, NoWorkType DEF Held
    <3> QED
      BY <2>1, <3>1 DEF Held
  <2>2. CASE <<q, d>> # <<p, c>>
    <3>1. w = work[q][d]
      BY <2>2
    <3>2. ASSUME w.at = "dispatch", NEW s \in Reply, chatOf[s] = d
          PROVE  item'[s] = item[s]
      <4>1. CASE work[p][c].at \in Held
        BY <1>2, <2>2, <3>1, <3>2, <4>1, Alone DEF Held
      <4>2. CASE item' = item
        BY <4>2
      <4> QED
        BY <4>1, <4>2
    <3>3. w.at \in Held => item'[w.reply] = item[w.reply] /\ sent'[w.reply] = sent[w.reply]
      BY <1>3, <2>2, <3>1
    <3>4. /\ w.at \in {"dispatch", "stream", "settle"} => item[w.reply].status = "sending"
          /\ w.at = "dispatch" => sent[w.reply] = 0 /\ sendAt[w.reply] <= clock
          /\ w.at = "stream" => sent[w.reply] = 1
          /\ w.at = "settle" /\ w.result = "scheduled" => sent[w.reply] = 0
          /\ w.at = "settle" /\ w.result = "sent" => sent[w.reply] = 1
      BY <3>1 DEF StoreInv, DeliveryInv
    <3>5. ASSUME w.at = "dispatch", NEW s \in Reply, chatOf[s] = d, Scheduled(s)', ~item'[s].late
          PROVE  sendAt[w.reply] <= sendAt[s]
      BY <3>1, <3>2, <3>5 DEF StoreInv, DeliveryInv, Scheduled
    <3> QED
      BY <3>3, <3>4, <3>5 DEF Held
  <2> QED
    BY <2>1, <2>2
<1>6. StatusTellsTruth'
  BY DEF StoreInv, StatusTellsTruth
<1> QED
  BY <1>1, <1>4, <1>5, <1>6 DEF StoreInv

(* What a step of a delivery finds. *)
LEMMA Before ==
  ASSUME StoreInv, NEW p \in Proc, NEW c \in Chat, work[p][c].at # "idle"
  PROVE  LET w == work[p][c] IN
         /\ w # NoWork
         /\ w.reply \in Reply /\ chatOf[w.reply] = c
         /\ w.result \in Outcome
         /\ faults \in Nat
         /\ sent \in [Reply -> Nat]
         /\ item \in [Reply -> [status : Status, late : BOOLEAN]]
         /\ lane \in [Chat -> SUBSET Proc]
         /\ listed[p] # None /\ listed[p] <= clock
         /\ w.at \in Held => lane[c] = {p}
         /\ w.at \in {"dispatch", "stream", "settle"} => item[w.reply].status = "sending"
         /\ w.at = "dispatch" => sent[w.reply] = 0
         /\ w.at = "stream" => sent[w.reply] = 1
         /\ w.at = "settle" /\ w.result = "scheduled" => sent[w.reply] = 0
         /\ w.at = "settle" /\ w.result = "sent" => sent[w.reply] = 1
         /\ sent[w.reply] <= 1
         /\ item[w.reply].status \in {"absent", "scheduled", "cancelled"} => sent[w.reply] = 0
         /\ item[w.reply].status = "sent" => sent[w.reply] = 1
<1>1. work[p][c] # NoWork /\ work[p][c].reply \in Reply /\ work[p][c].result \in Outcome
  BY WorkType DEF StoreInv
<1>2. /\ listed[p] # None /\ listed[p] <= clock
      /\ chatOf[work[p][c].reply] = c
      /\ work[p][c].at \in Held => lane[c] = {p}
  BY <1>1 DEF StoreInv, WorkInv, Held
<1>3. /\ sent[work[p][c].reply] <= 1
      /\ item[work[p][c].reply].status \in {"absent", "scheduled", "cancelled"} => sent[work[p][c].reply] = 0
      /\ item[work[p][c].reply].status = "sent" => sent[work[p][c].reply] = 1
  BY <1>1 DEF StoreInv, StatusTellsTruth
<1> QED
  BY <1>1, <1>2, <1>3 DEF StoreInv, StoreTypeOK, DeliveryInv

LEMMA TakeLaneKeeps ==
  ASSUME StoreInv, NEW p \in Proc, NEW c \in Chat, TakeLane(p, c)
  PROVE  StoreInv'
<1> DEFINE r == work[p][c].reply
<1>1. /\ UNCHANGED <<clock, item, listed, sent, faults>>
      /\ work[p][c].at = "queued" /\ lane[c] = {}
      /\ lane' = [lane EXCEPT ![c] = {p}]
      /\ To(p, c, "claim")
  BY DEF TakeLane
<1>2. /\ work' \in [Proc -> [Chat -> Work]]
      /\ \A q \in Proc, d \in Chat : <<q, d>> # <<p, c>> => work'[q][d] = work[q][d]
      /\ work'[p][c].at = "claim"
      /\ work'[p][c].reply = work[p][c].reply
  BY <1>1, ToEffect DEF StoreInv, Step
<1>3. r \in Reply /\ faults \in Nat /\ lane \in [Chat -> SUBSET Proc] /\ sent \in [Reply -> Nat]
      /\ item \in [Reply -> [status : Status, late : BOOLEAN]]
  BY <1>1, Before
<1>4. /\ lane' \in [Chat -> SUBSET Proc]
      /\ lane'[c] = {p}
      /\ \A d \in Chat : d # c => lane'[d] = lane[d]
  BY <1>1, <1>3
<1>5. /\ sent[r] <= 1
      /\ item[r].status \in {"absent", "scheduled", "cancelled"} => sent[r] = 0
      /\ item[r].status = "sent" => sent[r] = 1
  BY <1>1, Before
<1> HIDE DEF r
<1> QED
  BY <1>1, <1>2, <1>3, <1>4, <1>5, OwnStep DEF r, Held

(* A delivery gives up or is over: its entry is idle again. *)
LEMMA LeaveKeeps ==
  ASSUME StoreInv, NEW p \in Proc, NEW c \in Chat, NEW r \in Reply,
         work[p][c].at \in Held, r = work[p][c].reply,
         LeaveLane(p, c), UNCHANGED <<clock, listed>>, UNCHANGED sent, faults' \in Nat,
         item' \in [Reply -> [status : Status, late : BOOLEAN]],
         \A s \in Reply : s # r => item'[s] = item[s],
         item'[r].status \in {"absent", "scheduled", "cancelled"} => sent[r] = 0,
         item'[r].status = "sent" => sent[r] = 1
  PROVE  StoreInv'
<1>1. /\ work' \in [Proc -> [Chat -> Work]]
      /\ \A q \in Proc, d \in Chat : work'[q][d] = IF q = p /\ d = c THEN NoWork ELSE work[q][d]
      /\ lane' \in [Chat -> SUBSET Proc]
      /\ \A d \in Chat : lane'[d] = IF d = c THEN lane[c] \ {p} ELSE lane[d]
  BY LeaveLaneEffect DEF StoreInv
<1>2. work'[p][c] = NoWork /\ work'[p][c].at = "idle"
  BY <1>1, NoWorkType
<1>3. \A q \in Proc, d \in Chat : <<q, d>> # <<p, c>> => work'[q][d] = work[q][d]
  BY <1>1
<1>4. \A d \in Chat : d # c => lane'[d] = lane[d]
  BY <1>1
<1>5. work' \in [Proc -> [Chat -> Work]] /\ lane' \in [Chat -> SUBSET Proc]
  BY <1>1
<1>6. work[p][c].at # "idle" /\ sent \in [Reply -> Nat] /\ sent[r] <= 1
  BY Before DEF Held
<1>7. /\ work'[p][c].at \notin Held
      /\ work'[p][c].at \notin {"dispatch", "stream", "settle"}
      /\ work'[p][c].at # "dispatch" /\ work'[p][c].at # "stream" /\ work'[p][c].at # "settle"
  BY <1>2 DEF Held
<1>8. sent'[r] <= 1 /\ sent' \in [Reply -> Nat] /\ \A s \in Reply : s # r => sent'[s] = sent[s]
  BY <1>6
<1>9. /\ item'[r].status \in {"absent", "scheduled", "cancelled"} => sent'[r] = 0
      /\ item'[r].status = "sent" => sent'[r] = 1
  OBVIOUS
<1>10. work[p][c].at \in Held \/ (item' = item /\ sent' = sent /\ (lane' = lane \/ lane[c] = {}))
  OBVIOUS
<1>11. work'[p][c] # NoWork => work'[p][c].reply = r
  BY <1>2
<1> QED
  BY <1>3, <1>4, <1>5, <1>6, <1>7, <1>8, <1>9, <1>10, <1>11, OwnStep, Zenon

LEMMA LaneTimeoutKeeps ==
  ASSUME StoreInv, NEW p \in Proc, NEW c \in Chat, LaneTimeout(p, c)
  PROVE  StoreInv'
<1> DEFINE r == work[p][c].reply
<1>1. /\ UNCHANGED <<clock, item, listed, lane, sent, faults>>
      /\ work[p][c].at = "queued"
      /\ work' = [work EXCEPT ![p][c] = NoWork]
  BY DEF LaneTimeout
<1>2. /\ work' \in [Proc -> [Chat -> Work]]
      /\ \A q \in Proc, d \in Chat : work'[q][d] = IF q = p /\ d = c THEN NoWork ELSE work[q][d]
  BY <1>1, NoWorkType, PointUpdate DEF StoreInv, StoreTypeOK
<1>3. work'[p][c] = NoWork /\ work'[p][c].at = "idle" /\ work[p][c].at # "idle"
  BY <1>1, <1>2, NoWorkType
<1>4. \A q \in Proc, d \in Chat : <<q, d>> # <<p, c>> => work'[q][d] = work[q][d]
  BY <1>2
<1>5. /\ r \in Reply /\ faults \in Nat /\ lane \in [Chat -> SUBSET Proc] /\ sent \in [Reply -> Nat]
      /\ item \in [Reply -> [status : Status, late : BOOLEAN]]
      /\ sent[r] <= 1
      /\ item[r].status \in {"absent", "scheduled", "cancelled"} => sent[r] = 0
      /\ item[r].status = "sent" => sent[r] = 1
  BY <1>1, Before
<1>6. UNCHANGED <<clock, item, listed, lane, sent, faults>>
  BY <1>1
<1>7. work' \in [Proc -> [Chat -> Work]]
  BY <1>2
<1> HIDE DEF r
<1> QED
  BY <1>3, <1>4, <1>5, <1>6, <1>7, OwnStep DEF r, Held

LEMMA ClaimKeeps ==
  ASSUME StoreInv, NEW p \in Proc, NEW c \in Chat, Claim(p, c)
  PROVE  StoreInv'
<1> DEFINE r == work[p][c].reply
<1>1. UNCHANGED <<clock, listed, sent, faults>> /\ work[p][c].at = "claim"
  BY DEF Claim
<1>2. /\ r \in Reply /\ chatOf[r] = c /\ faults \in Nat /\ sent \in [Reply -> Nat]
      /\ item \in [Reply -> [status : Status, late : BOOLEAN]]
      /\ lane \in [Chat -> SUBSET Proc] /\ lane[c] = {p}
      /\ listed[p] # None /\ listed[p] <= clock
      /\ sent[r] <= 1
      /\ item[r].status \in {"absent", "scheduled", "cancelled"} => sent[r] = 0
      /\ item[r].status = "sent" => sent[r] = 1
  BY <1>1, Before DEF Held
<1>3. CASE Claims(p, r) /\ SetStatus(r, "sending") /\ To(p, c, "dispatch") /\ UNCHANGED lane
  <2>1. /\ item' \in [Reply -> [status : Status, late : BOOLEAN]]
        /\ item'[r].status = "sending"
        /\ \A q \in Reply : q # r => item'[q] = item[q]
    BY <1>2, <1>3, SetStatusEffect DEF StoreInv, Status
  <2>2. /\ work' \in [Proc -> [Chat -> Work]]
        /\ \A q \in Proc, d \in Chat : <<q, d>> # <<p, c>> => work'[q][d] = work[q][d]
        /\ work'[p][c].at = "dispatch"
        /\ work'[p][c].reply = r
    BY <1>1, <1>3, ToEffect DEF StoreInv, Step
  <2>3. sent[r] = 0
    BY <1>2, <1>3 DEF Claims, Due, Scheduled
  <2>4. sendAt[r] <= clock
    <3>1. sendAt[r] <= listed[p] /\ listed[p] \in Nat /\ clock \in Nat /\ sendAt[r] \in Nat
      BY <1>2, <1>3, RepliesAssumption DEF Claims, Due, StoreInv, StoreTypeOK, Time
    <3> HIDE DEF r
    <3> QED
      BY <1>2, <3>1
  <2>5. ASSUME NEW s \in Reply, chatOf[s] = c, Scheduled(s)'
        PROVE  sendAt[r] <= sendAt[s]
    <3>1. s # r
      BY <2>1, <2>5 DEF Scheduled
    <3>2. Scheduled(s)
      BY <2>1, <2>5, <3>1 DEF Scheduled
    <3> QED
      BY <1>2, <1>3, <2>5, <3>2 DEF Claims, Oldest
  <2> HIDE DEF r
  <2> QED
    BY <1>1, <1>2, <1>3, <2>1, <2>2, <2>3, <2>4, <2>5, OwnStep DEF r, Held
<1>4. CASE LeaveLane(p, c) /\ UNCHANGED item
  <2> HIDE DEF r
  <2> QED
    BY <1>1, <1>2, <1>4, LeaveKeeps DEF r, Held
<1> QED
  BY <1>3, <1>4 DEF Claim

(* A delivery goes on with its lock and its reply as sending in the file. *)
LEMMA GoesOn ==
  ASSUME StoreInv, NEW p \in Proc, NEW c \in Chat, work[p][c].at \in {"dispatch", "stream"},
         UNCHANGED <<clock, item, listed, lane>>, faults' \in Nat,
         work' \in [Proc -> [Chat -> Work]],
         \A q \in Proc, d \in Chat : <<q, d>> # <<p, c>> => work'[q][d] = work[q][d],
         work'[p][c].reply = work[p][c].reply,
         work'[p][c].at \in {"stream", "settle"},
         sent' = sent \/ (work[p][c].at = "dispatch" /\ sent' = [sent EXCEPT ![work[p][c].reply] = @ + 1]),
         work'[p][c].at = "stream" => sent'[work[p][c].reply] = 1,
         work'[p][c].at = "settle" /\ work'[p][c].result = "scheduled" => sent'[work[p][c].reply] = 0,
         work'[p][c].at = "settle" /\ work'[p][c].result = "sent" => sent'[work[p][c].reply] = 1
  PROVE  StoreInv'
<1> DEFINE r == work[p][c].reply
<1>1. /\ r \in Reply
      /\ sent \in [Reply -> Nat]
      /\ item \in [Reply -> [status : Status, late : BOOLEAN]]
      /\ lane \in [Chat -> SUBSET Proc] /\ lane[c] = {p}
      /\ item[r].status = "sending"
      /\ sent[r] <= 1
      /\ work[p][c].at = "dispatch" => sent[r] = 0
  BY Before DEF Held
<1>2. work[p][c].at # "idle" /\ work[p][c].at \in Held /\ work'[p][c].at # "dispatch"
  BY DEF Held
<1>3. /\ sent' \in [Reply -> Nat]
      /\ \A s \in Reply : s # r => sent'[s] = sent[s]
      /\ sent'[r] <= 1
  <2>1. CASE sent' = sent
    BY <1>1, <2>1
  <2>2. CASE work[p][c].at = "dispatch" /\ sent' = [sent EXCEPT ![r] = @ + 1]
    <3>1. sent[r] = 0
      BY <1>1, <2>2
    <3> HIDE DEF r
    <3> QED
      BY <1>1, <2>2, <3>1
  <2> QED
    BY <2>1, <2>2
<1> HIDE DEF r
<1> QED
  BY <1>1, <1>2, <1>3, OwnStep DEF r

LEMMA DispatchKeeps ==
  ASSUME StoreInv, NEW p \in Proc, NEW c \in Chat, Dispatch(p, c)
  PROVE  StoreInv'
<1>1. UNCHANGED <<clock, item, listed, lane, faults>> /\ work[p][c].at = "dispatch"
  BY DEF Dispatch
<1>2. /\ work[p][c].reply \in Reply /\ faults \in Nat
      /\ sent \in [Reply -> Nat] /\ sent[work[p][c].reply] = 0
  BY <1>1, Before
<1>3. CASE Ended(p, c, "failed") /\ UNCHANGED sent
  <2>1. /\ work' \in [Proc -> [Chat -> Work]]
        /\ \A q \in Proc, d \in Chat : <<q, d>> # <<p, c>> => work'[q][d] = work[q][d]
        /\ work'[p][c].at = "settle"
        /\ work'[p][c].reply = work[p][c].reply
        /\ work'[p][c].result = "failed"
    BY <1>1, <1>3, EndedEffect DEF StoreInv, Outcome
  <2> QED
    BY <1>1, <1>2, <1>3, <2>1, GoesOn
<1>4. CASE To(p, c, "stream") /\ sent' = [sent EXCEPT ![work[p][c].reply] = @ + 1]
  <2>1. /\ work' \in [Proc -> [Chat -> Work]]
        /\ \A q \in Proc, d \in Chat : <<q, d>> # <<p, c>> => work'[q][d] = work[q][d]
        /\ work'[p][c].at = "stream"
        /\ work'[p][c].reply = work[p][c].reply
    BY <1>1, <1>4, ToEffect DEF StoreInv, Step
  <2>2. sent'[work[p][c].reply] = 1
    BY <1>2, <1>4
  <2> QED
    BY <1>1, <1>2, <1>4, <2>1, <2>2, GoesOn
<1> QED
  BY <1>3, <1>4 DEF Dispatch

LEMMA BusyKeeps ==
  ASSUME StoreInv, NEW p \in Proc, NEW c \in Chat, Busy(p, c)
  PROVE  StoreInv'
<1>1. /\ UNCHANGED <<clock, item, listed, lane, sent>>
      /\ faults' = faults + 1
      /\ work[p][c].at = "dispatch"
      /\ Ended(p, c, "scheduled")
  BY DEF Busy
<1>2. faults' \in Nat /\ sent[work[p][c].reply] = 0
  BY <1>1, Before
<1>3. /\ work' \in [Proc -> [Chat -> Work]]
      /\ \A q \in Proc, d \in Chat : <<q, d>> # <<p, c>> => work'[q][d] = work[q][d]
      /\ work'[p][c].at = "settle"
      /\ work'[p][c].reply = work[p][c].reply
      /\ work'[p][c].result = "scheduled"
  BY <1>1, EndedEffect DEF StoreInv, Outcome
<1> QED
  BY <1>1, <1>2, <1>3, GoesOn

LEMMA UnclearKeeps ==
  ASSUME StoreInv, NEW p \in Proc, NEW c \in Chat, Unclear(p, c)
  PROVE  StoreInv'
<1>1. /\ UNCHANGED <<clock, item, listed, lane, faults>>
      /\ work[p][c].at = "dispatch"
      /\ Ended(p, c, "uncertain")
      /\ sent' = sent \/ sent' = [sent EXCEPT ![work[p][c].reply] = @ + 1]
  BY DEF Unclear
<1>2. faults' \in Nat
  BY <1>1, Before
<1>3. /\ work' \in [Proc -> [Chat -> Work]]
      /\ \A q \in Proc, d \in Chat : <<q, d>> # <<p, c>> => work'[q][d] = work[q][d]
      /\ work'[p][c].at = "settle"
      /\ work'[p][c].reply = work[p][c].reply
      /\ work'[p][c].result = "uncertain"
  BY <1>1, EndedEffect DEF StoreInv, Outcome
<1> QED
  BY <1>1, <1>2, <1>3, GoesOn

LEMMA StreamEndsKeeps ==
  ASSUME StoreInv, NEW p \in Proc, NEW c \in Chat, StreamEnds(p, c)
  PROVE  StoreInv'
<1>1. UNCHANGED <<clock, item, listed, lane, sent, faults>> /\ work[p][c].at = "stream"
  BY DEF StreamEnds
<1>2. PICK s \in {"sent", "failed", "uncertain"} : Ended(p, c, s)
  BY DEF StreamEnds
<1>3. faults' \in Nat /\ sent'[work[p][c].reply] = 1
  BY <1>1, Before
<1>4. /\ work' \in [Proc -> [Chat -> Work]]
      /\ \A q \in Proc, d \in Chat : <<q, d>> # <<p, c>> => work'[q][d] = work[q][d]
      /\ work'[p][c].at = "settle"
      /\ work'[p][c].reply = work[p][c].reply
      /\ work'[p][c].result = s
  BY <1>1, <1>2, EndedEffect DEF StoreInv, Outcome
<1> QED
  BY <1>1, <1>2, <1>3, <1>4, GoesOn

LEMMA SettleKeeps ==
  ASSUME StoreInv, NEW p \in Proc, NEW c \in Chat, Settle(p, c)
  PROVE  StoreInv'
<1> DEFINE r == work[p][c].reply
           s == work[p][c].result
<1>1. /\ UNCHANGED <<clock, listed, sent, faults>>
      /\ work[p][c].at = "settle"
      /\ SetStatus(r, s)
      /\ LeaveLane(p, c)
  BY DEF Settle
<1>2. /\ r \in Reply /\ s \in Outcome /\ faults \in Nat
      /\ s = "scheduled" => sent[r] = 0
      /\ s = "sent" => sent[r] = 1
  BY <1>1, Before
<1>3. /\ item' \in [Reply -> [status : Status, late : BOOLEAN]]
      /\ item'[r].status = s
      /\ \A q \in Reply : q # r => item'[q] = item[q]
  BY <1>1, <1>2, SetStatusEffect DEF StoreInv, Status
<1> QED
  BY <1>1, <1>2, <1>3, LeaveKeeps DEF Held, Outcome

LEMMA ChangeFailsKeeps ==
  ASSUME StoreInv, NEW p \in Proc, NEW c \in Chat, ChangeFails(p, c)
  PROVE  StoreInv'
<1> DEFINE r == work[p][c].reply
<1>1. /\ UNCHANGED <<clock, item, listed, sent>>
      /\ faults' = faults + 1
      /\ work[p][c].at \in {"claim", "settle"}
      /\ LeaveLane(p, c)
  BY DEF ChangeFails
<1>2. /\ r \in Reply /\ faults' \in Nat
      /\ item \in [Reply -> [status : Status, late : BOOLEAN]]
      /\ item[r].status \in {"absent", "scheduled", "cancelled"} => sent[r] = 0
      /\ item[r].status = "sent" => sent[r] = 1
  BY <1>1, Before
<1> HIDE DEF r
<1> QED
  BY <1>1, <1>2, LeaveKeeps DEF r, Held
-----------------------------------------------------------------------------
LEMMA PassEndsKeeps ==
  ASSUME StoreInv, NEW p \in Proc, PassEnds(p)
  PROVE  StoreInv'
<1>1. /\ UNCHANGED <<clock, item, work, lane, sent, faults>>
      /\ \A c \in Chat : work[p][c] = NoWork
      /\ listed' = [listed EXCEPT ![p] = None]
  BY DEF PassEnds
<1>2. StoreTypeOK'
  BY <1>1 DEF StoreInv, StoreTypeOK
<1>3. WorkInv'
  BY <1>1 DEF StoreInv, StoreTypeOK, WorkInv
<1> QED
  BY <1>1, <1>2, <1>3 DEF StoreInv, DeliveryInv, StatusTellsTruth, Scheduled

LEMMA CrashKeeps ==
  ASSUME StoreInv, NEW p \in Proc, Crash(p)
  PROVE  StoreInv'
<1>1. /\ UNCHANGED <<clock, item, sent>>
      /\ faults' = faults + 1
      /\ work' = [work EXCEPT ![p] = [c \in Chat |-> NoWork]]
      /\ listed' = [listed EXCEPT ![p] = None]
      /\ lane' = [c \in Chat |-> lane[c] \ {p}]
  BY DEF Crash
<1>2. /\ work' \in [Proc -> [Chat -> Work]]
      /\ \A q \in Proc, c \in Chat : work'[q][c] = IF q = p THEN NoWork ELSE work[q][c]
  BY <1>1, NoWorkType DEF StoreInv, StoreTypeOK
<1>3. StoreTypeOK'
  BY <1>1, <1>2 DEF StoreInv, StoreTypeOK
<1>4. WorkInv'
  <2>1. ASSUME NEW q \in Proc, listed'[q] # None
        PROVE  listed'[q] <= clock'
    BY <1>1, <2>1 DEF StoreInv, StoreTypeOK, WorkInv
  <2>2. ASSUME NEW q \in Proc, NEW c \in Chat
        PROVE  /\ listed'[q] = None => work'[q][c] = NoWork
               /\ work'[q][c] # NoWork => chatOf[work'[q][c].reply] = c
               /\ work'[q][c].at \in {"claim", "dispatch", "stream", "settle"} => lane'[c] = {q}
    <3>1. CASE q = p
      BY <1>2, <3>1, NoWorkType
    <3>2. CASE q # p
      BY <1>1, <1>2, <3>2 DEF StoreInv, StoreTypeOK, WorkInv
    <3> QED
      BY <3>1, <3>2
  <2> QED
    BY <2>1, <2>2 DEF WorkInv
<1>5. DeliveryInv'
  <2> SUFFICES ASSUME NEW q \in Proc, NEW c \in Chat, work'[q][c].at \in {"dispatch", "stream", "settle"}
               PROVE  work'[q][c] = work[q][c]
    BY <1>1 DEF StoreInv, DeliveryInv, Scheduled
  <2> QED
    BY <1>2, NoWorkType
<1>6. StatusTellsTruth'
  BY <1>1 DEF StoreInv, StatusTellsTruth
<1> QED
  BY <1>3, <1>4, <1>5, <1>6 DEF StoreInv

LEMMA ElapseKeeps ==
  ASSUME StoreInv, Elapse
  PROVE  StoreInv'
<1>1. UNCHANGED <<item, work, listed, lane, sent, faults>> /\ clock' = clock + 1
  BY DEF Elapse
<1>2. clock \in Nat /\ clock' \in Time
  BY RepliesAssumption DEF StoreInv, StoreTypeOK, Elapse, Time
<1>3. StoreTypeOK'
  BY <1>1, <1>2 DEF StoreInv, StoreTypeOK
<1>4. \A p \in Proc : listed[p] # None => listed[p] \in Nat /\ listed[p] <= clock'
  BY <1>1, <1>2 DEF StoreInv, StoreTypeOK, WorkInv, Time
<1>5. WorkInv'
  BY <1>1, <1>4 DEF StoreInv, WorkInv
<1>6. DeliveryInv'
  <2> SUFFICES ASSUME NEW p \in Proc, NEW c \in Chat, work[p][c].at = "dispatch"
               PROVE  sendAt[work[p][c].reply] <= clock'
    BY <1>1 DEF StoreInv, DeliveryInv, Scheduled
  <2>1. work[p][c].reply \in Reply
    BY WorkType DEF StoreInv
  <2>2. sendAt[work[p][c].reply] <= clock /\ sendAt[work[p][c].reply] \in Nat
    BY <2>1, RepliesAssumption DEF StoreInv, DeliveryInv
  <2> QED
    BY <1>1, <1>2, <2>2
<1>7. StatusTellsTruth'
  BY <1>1 DEF StoreInv, StatusTellsTruth
<1> QED
  BY <1>3, <1>5, <1>6, <1>7 DEF StoreInv

LEMMA StoreStutter ==
  ASSUME StoreInv, UNCHANGED storeVars
  PROVE  StoreInv'
  BY DEF StoreInv, StoreTypeOK, WorkInv, DeliveryInv, StatusTellsTruth, Scheduled, storeVars
-----------------------------------------------------------------------------
LEMMA InitInv == Init => IInv
  BY OwnerInitInv, StoreInit DEF IInv, Init

LEMMA WorkerKeeps ==
  ASSUME IInv, NEW p \in Proc, Worker(p)
  PROVE  IInv'
<1>1. CASE (Start(p) \/ Stop(p) \/ Fire(p) \/ Resume(p)) /\ UNCHANGED storeVars
  BY <1>1, StartKeeps, StopKeeps, FireKeeps, ResumeKeeps, StoreStutter DEF IInv
<1>2. CASE List(p)
  BY <1>2, ListKeeps, OwnerStutter DEF IInv, List
<1>3. CASE PassEnds(p)
  BY <1>3, PassEndsKeeps, DrainKeeps DEF IInv, PassEnds
<1>4. CASE Crash(p)
  BY <1>4, CrashKeeps, DieKeeps DEF IInv, Crash
<1> QED
  BY <1>1, <1>2, <1>3, <1>4 DEF Worker

LEMMA DeliveryKeeps ==
  ASSUME IInv, NEW p \in Proc, NEW c \in Chat,
         Delivery(p, c) \/ StreamEnds(p, c) \/ Busy(p, c) \/ ChangeFails(p, c)
  PROVE  IInv'
<1>1. UNCHANGED ownerVars
  BY DEF Delivery, TakeLane, LaneTimeout, Claim, Dispatch, Unclear, Settle, StreamEnds, Busy, ChangeFails
<1>2. OwnerIInv'
  BY <1>1, OwnerStutter DEF IInv
<1>3. StoreInv'
  BY TakeLaneKeeps, LaneTimeoutKeeps, ClaimKeeps, DispatchKeeps, UnclearKeeps, SettleKeeps,
     StreamEndsKeeps, BusyKeeps, ChangeFailsKeeps DEF IInv, Delivery
<1> QED
  BY <1>2, <1>3 DEF IInv

LEMMA StepInv == IInv /\ [Next]_vars => IInv'
<1> SUFFICES ASSUME IInv, [Next]_vars PROVE IInv'
  OBVIOUS
<1>1. CASE \E r \in Reply : Add(r) \/ Cancel(r)
  BY <1>1, AddKeeps, CancelKeeps, OwnerStutter DEF IInv, Add, Cancel
<1>2. CASE \E p \in Proc : Worker(p)
  BY <1>2, WorkerKeeps
<1>3. CASE \E p \in Proc, c \in Chat :
             Delivery(p, c) \/ StreamEnds(p, c) \/ Busy(p, c) \/ ChangeFails(p, c)
  BY <1>3, DeliveryKeeps
<1>4. CASE Elapse
  BY <1>4, ElapseKeeps, OwnerStutter DEF IInv, Elapse
<1>5. CASE UNCHANGED vars
  BY <1>5, OwnerStutter, StoreStutter DEF IInv, vars, ownerVars, storeVars
<1> QED
  BY <1>1, <1>2, <1>3, <1>4, <1>5 DEF Next

THEOREM SpecInv == Spec => []IInv
  BY InitInv, StepInv, PTL DEF Spec

(* Every variable keeps its type, whatever the processes do. *)
THEOREM SpecTypeOK == Spec => []TypeOK
<1>1. IInv => TypeOK
  BY DEF IInv, OwnerIInv, StoreInv, TypeOK
<1> QED
  BY <1>1, SpecInv, PTL

(* The owner of the scheduled replies, with the passes that do the work. *)
THEOREM SpecOneOwner == Spec => []OneOwner
<1>1. IInv => OneOwner
  BY OwnerIInvOneOwner DEF IInv
<1> QED
  BY <1>1, SpecInv, PTL

(* A reply is sent at most once, and its status never claims what is not so: *)
(* for any number of processes, crashes, failed writes and busy chats.       *)
THEOREM SpecStatusTellsTruth == Spec => []StatusTellsTruth
<1>1. IInv => StatusTellsTruth
  BY DEF IInv, StoreInv
<1> QED
  BY <1>1, SpecInv, PTL

(* The lock of a chat keeps its deliveries apart. *)
THEOREM SpecOneDeliveryPerChat == Spec => []OneDeliveryPerChat
<1>1. ASSUME IInv, NEW c \in Chat
      PROVE  Cardinality({p \in Proc : work[p][c].at \in {"dispatch", "stream", "settle"}}) <= 1
  <2> DEFINE S == {p \in Proc : work[p][c].at \in {"dispatch", "stream", "settle"}}
  <2>1. \A p, q \in S : p = q
    BY <1>1 DEF IInv, StoreInv, WorkInv
  <2>2. CASE S = {}
    BY <2>2, FS_EmptySet
  <2>3. CASE S # {}
    <3>1. PICK p \in S : S = {p}
      BY <2>1, <2>3
    <3>2. Cardinality({p}) = 1
      BY FS_Singleton
    <3> QED
      BY <3>1, <3>2
  <2> QED
    BY <2>2, <2>3
<1>2. IInv => OneDeliveryPerChat
  BY <1>1 DEF OneDeliveryPerChat
<1> QED
  BY <1>2, SpecInv, PTL

(* A turn starts only in a dispatch, of the reply that was claimed. *)
LEMMA SentBy ==
  ASSUME IInv, [Next]_vars, NEW s \in Reply, sent'[s] > sent[s]
  PROVE  \E p \in Proc, c \in Chat : work[p][c].at = "dispatch" /\ work[p][c].reply = s
<1>1. sent \in [Reply -> Nat] /\ ~(sent[s] > sent[s])
  BY DEF IInv, StoreInv, StoreTypeOK
<1>2. ~UNCHANGED sent
  BY <1>1
<1>3. PICK p \in Proc, c \in Chat : Dispatch(p, c) \/ Unclear(p, c)
  BY <1>2 DEF Next, Add, Cancel, Worker, storeVars, List, PassEnds, Crash, Delivery, TakeLane,
     LaneTimeout, Claim, Settle, StreamEnds, Busy, ChangeFails, Elapse, vars
<1>4. work[p][c].at = "dispatch" /\ sent' = [sent EXCEPT ![work[p][c].reply] = @ + 1]
  BY <1>2, <1>3 DEF Dispatch, Unclear
<1>5. work[p][c].reply = s
  BY <1>1, <1>4
<1> QED
  BY <1>4, <1>5

(* From the claim to the dispatch no earlier reply of the chat can appear that *)
(* was not already late when it was saved, so none is overtaken.               *)
THEOREM SpecNeverOvertaken == Spec => NeverOvertaken
<1> DEFINE Step1 == \A r, s \in Reply :
                      /\ sent'[s] > sent[s]
                      /\ chatOf[r] = chatOf[s]
                      /\ Scheduled(r)
                      /\ ~item[r].late
                      => sendAt[s] <= sendAt[r]
<1>1. ASSUME IInv, [Next]_vars, NEW r \in Reply, NEW s \in Reply,
             sent'[s] > sent[s], chatOf[r] = chatOf[s], Scheduled(r), ~item[r].late
      PROVE  sendAt[s] <= sendAt[r]
  <2>1. PICK p \in Proc, c \in Chat : work[p][c].at = "dispatch" /\ work[p][c].reply = s
    BY <1>1, SentBy
  <2>2. chatOf[s] = c
    BY <1>1, <2>1, Before DEF IInv
  <2> QED
    BY <1>1, <2>1, <2>2 DEF IInv, StoreInv, DeliveryInv
<1>2. IInv /\ [Next]_vars => [Step1]_vars
  BY <1>1
<1> QED
  BY <1>2, SpecInv, PTL DEF Spec, NeverOvertaken
=============================================================================
