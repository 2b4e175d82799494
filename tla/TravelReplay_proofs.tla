------------------------- MODULE TravelReplay_proofs -------------------------
(***************************************************************************)
(* Queued work starts a second time only where the server lost track of    *)
(* it, and what is shown is called current only at home with nothing       *)
(* queued: for every queue, every number of polls and targets, and any     *)
(* number of faults, outages and switches.                                 *)
(***************************************************************************)
EXTENDS TravelReplay, TLAPS

Shape ==
  /\ travel \in Travels
  /\ replay = [phase |-> replay.phase, left |-> replay.left, item |-> replay.item]
  /\ effects \in [Items -> Nat] /\ lost \in [Items -> Nat]

(* The item whose work was started and whose outcome is not written yet.   *)
Underway(i) == replay.item = i /\ replay.phase \in {"started", "recorded"}

InHand(i) == replay.item = i /\ replay.phase \in {"marked", "started", "recorded", "failing"}

(* What is known of the work of one item: as many starts as were lost, and *)
(* one more only if it is under way, its session is known or it is done.   *)
Traced(i) ==
  /\ effects[i] <= 1 + lost[i]
  /\ travel.status[i] # "synced" /\ ~travel.session[i] /\ ~Underway(i) => effects[i] <= lost[i]
  /\ travel.session[i] \/ travel.status[i] = "synced" \/ Underway(i) => effects[i] > 0
  /\ i \in Chats /\ replay.item = i /\ replay.phase = "recorded" => travel.session[i]
  /\ travel.session[i] => i \in Chats
  /\ InHand(i) => travel.status[i] = "syncing"
  /\ i \in deciding => travel.status[i] = None

IInv == Shape /\ (\A i \in Items : Traced(i)) /\ StaleUntilHome

-----------------------------------------------------------------------------
(* The writes to the travel state.                                         *)

SameWork(s, d) ==
  /\ d \in Travels
  /\ d.status = s.status /\ d.session = s.session

Honest(s) == ~s.stale => Clean(s)

LEMMA PendingSame ==
  ASSUME NEW s \in Travels, NEW d \in Travels, d.status = s.status
  PROVE  HasPending(d) <=> HasPending(s)
BY DEF HasPending, Unsynced

LEMMA ReachedFacts ==
  ASSUME NEW s \in Travels, Honest(s)
  PROVE  SameWork(s, Reached(s)) /\ Honest(Reached(s))
<1> DEFINE r == [s EXCEPT !.unreachable = FALSE]
           d == [r EXCEPT !.stale = @ /\ ~Clean(r)]
<1>1. r \in Travels /\ r.status = s.status /\ r.session = s.session /\ r.manual = s.manual
      /\ r.stale = s.stale /\ r.unreachable = FALSE
  BY DEF Travels
<1>2. d \in Travels /\ d.status = r.status /\ d.session = r.session /\ d.manual = r.manual
      /\ d.unreachable = r.unreachable
  BY <1>1 DEF Travels
<1>3. d.stale <=> r.stale /\ ~Clean(r)
  BY <1>1 DEF Travels
<1>4. (HasPending(d) <=> HasPending(r)) /\ (HasPending(r) <=> HasPending(s))
  BY <1>1, <1>2, PendingSame
<1>5. Honest(d)
  BY <1>1, <1>2, <1>3, <1>4 DEF Honest, Clean
<1>. QED
  BY <1>1, <1>2, <1>5 DEF SameWork, Reached

LEMMA UnreachedFacts ==
  ASSUME NEW s \in Travels
  PROVE  SameWork(s, Unreached(s)) /\ Honest(Unreached(s))
BY DEF SameWork, Honest, Unreached, Travels

LEMMA SetManualFacts ==
  ASSUME NEW s \in Travels, Honest(s), NEW enabled \in BOOLEAN
  PROVE  SameWork(s, SetManual(s, enabled)) /\ Honest(SetManual(s, enabled))
<1>1. CASE enabled
  BY <1>1 DEF SameWork, Honest, SetManual, Travels
<1>2. CASE ~enabled
  <2> DEFINE r == [s EXCEPT !.manual = FALSE]
             d == [r EXCEPT !.stale = @ /\ ~Clean(r)]
  <2>1. r \in Travels /\ r.status = s.status /\ r.session = s.session /\ r.manual = FALSE
        /\ r.stale = s.stale /\ r.unreachable = s.unreachable
    BY DEF Travels
  <2>2. d \in Travels /\ d.status = r.status /\ d.session = r.session /\ d.manual = r.manual
        /\ d.unreachable = r.unreachable
    BY <2>1 DEF Travels
  <2>3. d.stale <=> r.stale /\ ~Clean(r)
    BY <2>1 DEF Travels
  <2>4. (HasPending(d) <=> HasPending(r)) /\ (HasPending(r) <=> HasPending(s))
    BY <2>1, <2>2, PendingSame
  <2>5. Honest(d)
    BY <2>1, <2>2, <2>3, <2>4 DEF Honest, Clean
  <2>. QED
    BY <1>2, <2>1, <2>2, <2>5 DEF SameWork, SetManual
<1>. QED
  BY <1>1, <1>2

(* A write to the status of one item.                                      *)
OneStatus(s, d, i, st) ==
  /\ d \in Travels
  /\ d.status = [s.status EXCEPT ![i] = st] /\ d.session = s.session

LEMMA CompletedFacts ==
  ASSUME NEW s \in Travels, Honest(s), NEW i \in Items
  PROVE  OneStatus(s, Completed(s, i), i, "synced") /\ Honest(Completed(s, i))
<1> DEFINE r == [s EXCEPT !.status[i] = "synced"]
           d == [r EXCEPT !.stale = @ /\ ~Clean(r)]
<1>1. r \in Travels /\ r.status = [s.status EXCEPT ![i] = "synced"] /\ r.session = s.session
      /\ r.manual = s.manual /\ r.stale = s.stale /\ r.unreachable = s.unreachable
  BY DEF Travels, Statuses
<1>2. d \in Travels /\ d.status = r.status /\ d.session = r.session /\ d.manual = r.manual
      /\ d.unreachable = r.unreachable
  BY <1>1 DEF Travels
<1>3. d.stale <=> r.stale /\ ~Clean(r)
  BY <1>1 DEF Travels
<1>4. (HasPending(d) <=> HasPending(r)) /\ (HasPending(r) => HasPending(s))
  <2>1. HasPending(d) <=> HasPending(r)
    BY <1>1, <1>2, PendingSame
  <2>2. ASSUME NEW j \in Items, Unsynced(r, j)
        PROVE  Unsynced(s, j)
    BY <1>1, <2>2 DEF Unsynced, Travels
  <2>. QED
    BY <2>1, <2>2 DEF HasPending
<1>5. Honest(d)
  BY <1>1, <1>2, <1>3, <1>4 DEF Honest, Clean
<1>. QED
  BY <1>1, <1>2, <1>5 DEF OneStatus, Completed

LEMMA FailedFacts ==
  ASSUME NEW s \in Travels, NEW i \in Items
  PROVE  OneStatus(s, Failed(s, i), i, "failed") /\ Honest(Failed(s, i))
BY DEF OneStatus, Honest, Failed, Travels, Statuses

-----------------------------------------------------------------------------
(* A step that starts nothing, forgets nothing and changes no item.        *)
LEMMA SameWorkKeeps ==
  ASSUME IInv, SameWork(travel, travel'), Honest(travel'),
         replay' = [replay EXCEPT !.phase = replay'.phase, !.left = replay'.left],
         replay' = replay \/ \A i \in Items : ~InHand(i) /\ ~InHand(i)',
         UNCHANGED <<deciding, effects, lost>>
  PROVE  IInv'
<1>1. Shape'
  BY DEF IInv, Shape, SameWork
<1>2. ASSUME NEW i \in Items
      PROVE  Traced(i)'
  <2>1. Traced(i)
    BY DEF IInv
  <2>2. (Underway(i)' <=> Underway(i)) /\ (InHand(i)' <=> InHand(i))
    BY DEF Underway, InHand
  <2>3. i \in Chats /\ replay'.item = i /\ replay'.phase = "recorded" =>
          replay.item = i /\ replay.phase = "recorded"
    BY DEF InHand
  <2>. QED
    BY <2>1, <2>2, <2>3 DEF Traced, SameWork
<1>3. StaleUntilHome'
  BY DEF Honest, StaleUntilHome
<1>. QED
  BY <1>1, <1>2, <1>3 DEF IInv

(* A step that concerns one item.                                          *)
LEMMA OneItem ==
  ASSUME IInv, NEW i \in Items, Shape', Traced(i)', Honest(travel'),
         \A j \in Items \ {i} :
           /\ travel'.status[j] = travel.status[j] /\ travel'.session[j] = travel.session[j]
           /\ effects'[j] = effects[j] /\ lost'[j] = lost[j]
           /\ j \in deciding' => j \in deciding
           /\ UNCHANGED replay \/ (~InHand(j) /\ ~InHand(j)')
  PROVE  IInv'
<1>1. ASSUME NEW j \in Items \ {i}
      PROVE  Traced(j)'
  <2>1. Traced(j)
    BY DEF IInv
  <2>2. (Underway(j)' <=> Underway(j)) /\ (InHand(j)' <=> InHand(j))
    BY DEF Underway, InHand
  <2>3. replay'.item = j /\ replay'.phase = "recorded" =>
          replay.item = j /\ replay.phase = "recorded"
    BY DEF InHand
  <2>. QED
    BY <2>1, <2>2, <2>3 DEF Traced
<1>. QED
  BY <1>1 DEF IInv, Honest, StaleUntilHome

LEMMA DecideStep ==
  ASSUME IInv, NEW i \in Items, Decide(i)
  PROVE  IInv'
<1>1. Shape' /\ Honest(travel')
  BY DEF IInv, Shape, Decide, StaleUntilHome, Honest
<1>2. Traced(i)'
  BY DEF IInv, Traced, Decide, Underway, InHand
<1>. QED
  BY <1>1, <1>2, OneItem DEF Decide

LEMMA EnqueueStep ==
  ASSUME IInv, NEW i \in Items, Enqueue(i)
  PROVE  IInv'
<1>1. /\ travel' \in Travels
      /\ travel'.status = [travel.status EXCEPT ![i] = "pending"]
      /\ travel'.session = travel.session /\ travel'.stale = TRUE
  <2>1. Append(travel.queue, i) \in Seq(Items)
    BY DEF IInv, Shape, Travels
  <2>. QED
    BY <2>1 DEF IInv, Shape, Travels, Statuses, Enqueue
<1>2. Shape' /\ Honest(travel')
  BY <1>1 DEF IInv, Shape, Enqueue, Honest
<1>3. Traced(i)'
  <2>1. Traced(i) /\ travel.status[i] = None /\ i \notin deciding'
    BY DEF IInv, Traced, Enqueue
  <2>2. ~InHand(i) /\ ~Underway(i)
    BY <2>1, NoneAssumption DEF Traced, InHand, Underway, Statuses
  <2>3. travel'.status[i] = "pending" /\ travel'.session[i] = travel.session[i]
    BY <1>1 DEF IInv, Shape, Travels
  <2>. QED
    BY <2>1, <2>2, <2>3, NoneAssumption DEF Traced, InHand, Underway, Enqueue, Statuses
<1>4. \A j \in Items \ {i} : travel'.status[j] = travel.status[j] /\ travel'.session[j] = travel.session[j]
  BY <1>1 DEF IInv, Shape, Travels
<1>. QED
  BY <1>2, <1>3, <1>4, OneItem DEF Enqueue

(* The hand on an item is on no other.                                     *)
LEMMA OthersFree ==
  ASSUME Shape, Shape', NEW i \in Items, replay'.item \in {i, None},
         replay.item = i \/ replay.phase = "next"
  PROVE  \A j \in Items \ {i} : ~InHand(j) /\ ~InHand(j)'
BY NoneAssumption DEF InHand

LEMMA MarkStep ==
  ASSUME IInv, NEW i \in Items, Mark(i)
  PROVE  IInv'
<1>1. CASE Unsynced(travel, i)
  <2>1. OneStatus(travel, travel', i, "syncing") /\ travel'.stale = travel.stale
        /\ travel'.manual = travel.manual /\ travel'.unreachable = travel.unreachable
    <3>1. travel' = [travel EXCEPT !.status[i] = "syncing"] /\ travel \in Travels
      BY <1>1 DEF IInv, Shape, Mark
    <3>. QED
      BY <3>1 DEF Travels, Statuses, OneStatus
  <2>2. replay' = [phase |-> "marked", left |-> Tail(replay.left), item |-> i] /\ replay.phase = "next"
    BY <1>1 DEF Mark
  <2>3. travel'.stale = TRUE
    BY <1>1, <2>1 DEF IInv, StaleUntilHome, Clean, HasPending, Shape, Travels
  <2>4. Shape' /\ Honest(travel')
    BY <2>1, <2>2, <2>3 DEF IInv, Shape, OneStatus, Honest, Mark
  <2>5. Traced(i)'
    <3>1. Traced(i) /\ travel.status[i] \in Statuses \ {"synced"} /\ ~Underway(i)
      BY <1>1, <2>2 DEF IInv, Unsynced, Underway
    <3>2. travel'.status[i] = "syncing" /\ travel'.session[i] = travel.session[i]
      BY <2>1 DEF IInv, Shape, Travels, OneStatus
    <3>3. ~Underway(i)' /\ replay'.phase = "marked"
      BY <2>2 DEF Underway
    <3>4. i \notin deciding'
      BY <3>1, NoneAssumption DEF Traced, Mark
    <3>. QED
      BY <3>1, <3>2, <3>3, <3>4 DEF Traced, Mark
  <2>6. \A j \in Items \ {i} : travel'.status[j] = travel.status[j] /\ travel'.session[j] = travel.session[j]
    BY <2>1 DEF IInv, Shape, Travels, OneStatus
  <2>7. \A j \in Items \ {i} : ~InHand(j) /\ ~InHand(j)'
    BY <2>2, <2>4, OthersFree DEF IInv
  <2>. QED
    BY <2>4, <2>5, <2>6, <2>7, OneItem DEF Mark
<1>2. CASE ~Unsynced(travel, i)
  <2>1. /\ UNCHANGED <<travel, deciding, effects, lost>>
        /\ replay' = [replay EXCEPT !.left = Tail(@)] /\ replay.phase = "next"
    BY <1>2 DEF Mark
  <2>2. replay'.phase = "next"
    BY <2>1 DEF IInv, Shape
  <2>3. \A j \in Items : ~InHand(j) /\ ~InHand(j)'
    BY <2>1, <2>2 DEF InHand
  <2>4. SameWork(travel, travel') /\ Honest(travel')
    BY <2>1 DEF IInv, Shape, SameWork, StaleUntilHome, Honest
  <2>5. replay' = [replay EXCEPT !.phase = replay'.phase, !.left = replay'.left]
    BY <2>1 DEF IInv, Shape
  <2>. QED
    BY <2>1, <2>3, <2>4, <2>5, SameWorkKeeps
<1>. QED
  BY <1>1, <1>2

(* A step on the item in hand that leaves the travel state alone.          *)
LEMMA HandStep ==
  ASSUME IInv, NEW i \in Items, replay.item = i, UNCHANGED <<travel, deciding>>,
         NEW ph, replay' = [replay EXCEPT !.phase = ph],
         effects' \in [Items -> Nat], lost' \in [Items -> Nat], Traced(i)',
         \A j \in Items \ {i} : effects'[j] = effects[j] /\ lost'[j] = lost[j]
  PROVE  IInv'
<1>1. Shape' /\ Honest(travel') /\ replay'.item = i
  BY DEF IInv, Shape, StaleUntilHome, Honest
<1>2. \A j \in Items \ {i} : ~InHand(j) /\ ~InHand(j)'
  BY <1>1 DEF InHand
<1>. QED
  BY <1>1, <1>2, OneItem

LEMMA Advance ==
  ASSUME Shape, NEW ph, replay' = [replay EXCEPT !.phase = ph]
  PROVE  replay'.phase = ph /\ replay'.item = replay.item
BY DEF Shape

LEMMA RefuseStep ==
  ASSUME IInv, NEW i \in Items, Refuse(i)
  PROVE  IInv'
<1>1. /\ replay.item = i /\ replay.phase = "marked"
      /\ replay' = [replay EXCEPT !.phase = "failing"]
      /\ UNCHANGED <<travel, deciding, effects, lost>>
  BY DEF Refuse, Replaying
<1>2. replay'.phase = "failing" /\ replay'.item = i
  BY <1>1, Advance DEF IInv
<1>3. Traced(i)'
  BY <1>1, <1>2 DEF IInv, Traced, Underway, InHand
<1>. QED
  BY <1>1, <1>3, HandStep DEF IInv, Shape

LEMMA ResumeStep ==
  ASSUME IInv, NEW i \in Items, Resume(i)
  PROVE  IInv'
<1>1. /\ replay.item = i /\ replay.phase = "marked" /\ travel.session[i]
      /\ replay' = [replay EXCEPT !.phase = "recorded"]
      /\ UNCHANGED <<travel, deciding, effects, lost>>
  BY DEF Resume, Replaying, MustStart
<1>2. replay'.phase = "recorded" /\ replay'.item = i
  BY <1>1, Advance DEF IInv
<1>3. Traced(i)'
  BY <1>1, <1>2 DEF IInv, Traced, Underway, InHand
<1>. QED
  BY <1>1, <1>3, HandStep DEF IInv, Shape

LEMMA StartStep ==
  ASSUME IInv, NEW i \in Items, Start(i)
  PROVE  IInv'
<1>1. /\ replay.item = i /\ replay.phase = "marked" /\ ~travel.session[i]
      /\ replay' = [replay EXCEPT !.phase = "started"]
      /\ effects' = [effects EXCEPT ![i] = @ + 1]
      /\ UNCHANGED <<travel, deciding, lost>>
  BY DEF Start, Replaying, MustStart
<1>2. replay'.phase = "started" /\ replay'.item = i
  BY <1>1, Advance DEF IInv
<1>3. effects' \in [Items -> Nat] /\ effects'[i] = effects[i] + 1 /\ effects[i] \in Nat
      /\ \A j \in Items \ {i} : effects'[j] = effects[j]
  BY <1>1 DEF IInv, Shape
<1>4. effects[i] <= lost[i] /\ lost[i] \in Nat
  <2>1. travel.status[i] = "syncing" /\ ~Underway(i)
    BY <1>1 DEF IInv, Traced, InHand, Underway
  <2>. QED
    BY <1>1, <2>1 DEF IInv, Traced, Shape
<1>5. effects'[i] <= 1 + lost'[i] /\ effects'[i] > 0
  BY <1>1, <1>3, <1>4
<1>6. Traced(i)'
  BY <1>1, <1>2, <1>5 DEF IInv, Traced, Underway, InHand
<1>. QED
  BY <1>1, <1>3, <1>6, HandStep DEF IInv, Shape

LEMMA NoteStep ==
  ASSUME IInv, NEW i \in Items, Note(i)
  PROVE  IInv'
<1>1. /\ replay.item = i /\ replay.phase = "started"
      /\ replay' = [replay EXCEPT !.phase = "recorded"]
      /\ travel' = [travel EXCEPT !.session[i] = i \in Chats]
      /\ UNCHANGED <<deciding, effects, lost>>
  BY DEF Note, Replaying
<1>2. replay'.phase = "recorded" /\ replay'.item = i
  BY <1>1, Advance DEF IInv
<1>3. /\ travel' \in Travels
      /\ travel'.session = [travel.session EXCEPT ![i] = i \in Chats]
      /\ travel'.status = travel.status /\ travel'.stale = travel.stale
      /\ travel'.manual = travel.manual /\ travel'.unreachable = travel.unreachable
  <2> DEFINE b == i \in Chats
  <2>1. b \in BOOLEAN /\ travel' = [travel EXCEPT !.session[i] = b] /\ travel \in Travels
    BY <1>1 DEF IInv, Shape
  <2> HIDE DEF b
  <2>2. [travel.session EXCEPT ![i] = b] \in [Items -> BOOLEAN]
    BY <2>1 DEF Travels
  <2>3. travel' = [travel EXCEPT !.session = [travel.session EXCEPT ![i] = b]]
    BY <2>1
  <2>4. /\ travel' \in Travels
        /\ travel'.session = [travel.session EXCEPT ![i] = b]
        /\ travel'.status = travel.status /\ travel'.stale = travel.stale
        /\ travel'.manual = travel.manual /\ travel'.unreachable = travel.unreachable
    BY <2>1, <2>2, <2>3 DEF Travels
  <2>. QED
    BY <2>4 DEF b
<1>4. Shape' /\ Honest(travel')
  <2>1. HasPending(travel') <=> HasPending(travel)
    BY <1>3, PendingSame DEF IInv, Shape
  <2>. QED
    BY <1>1, <1>3, <2>1 DEF IInv, Shape, Honest, StaleUntilHome, Clean
<1>5. (travel'.session[i] <=> i \in Chats) /\ \A j \in Items \ {i} : travel'.session[j] = travel.session[j]
  BY <1>3 DEF IInv, Shape, Travels
<1>6. Traced(i)'
  BY <1>1, <1>2, <1>3, <1>5 DEF IInv, Traced, Underway, InHand
<1>7. \A j \in Items \ {i} : ~InHand(j) /\ ~InHand(j)'
  BY <1>1, <1>2 DEF InHand
<1>. QED
  BY <1>1, <1>3, <1>4, <1>5, <1>6, <1>7, OneItem

(* The end of the replay of one item.                                      *)
LEMMA WrittenStep ==
  ASSUME IInv, NEW i \in Items, replay.item = i, NEW st \in {"synced", "failed"},
         OneStatus(travel, travel', i, st), Honest(travel'),
         replay' = [replay EXCEPT !.phase = "next", !.item = None],
         replay.phase = IF st = "synced" THEN "recorded" ELSE "failing",
         UNCHANGED <<deciding, effects, lost>>
  PROVE  IInv'
<1>1. replay'.phase = "next" /\ replay'.item = None /\ Shape'
  BY DEF IInv, Shape, OneStatus
<1>2. /\ travel'.status[i] = st
      /\ \A j \in Items \ {i} : travel'.status[j] = travel.status[j]
  BY DEF IInv, Shape, Travels, OneStatus
<1>3. Traced(i)'
  <2>1. Traced(i) /\ travel.status[i] = "syncing" /\ i \notin deciding
    BY NoneAssumption DEF IInv, Traced, InHand, Statuses
  <2>. QED
    BY <1>1, <1>2, <2>1 DEF Traced, Underway, InHand, OneStatus
<1>4. \A j \in Items \ {i} : ~InHand(j) /\ ~InHand(j)'
  BY <1>1 DEF InHand
<1>. QED
  BY <1>1, <1>2, <1>3, <1>4, OneItem DEF OneStatus

LEMMA CompleteStep ==
  ASSUME IInv, NEW i \in Items, Complete(i)
  PROVE  IInv'
<1>1. OneStatus(travel, travel', i, "synced") /\ Honest(travel')
  BY CompletedFacts DEF Complete, IInv, Shape, StaleUntilHome, Honest
<1>. QED
  BY <1>1, WrittenStep DEF Complete, Replaying

LEMMA FailStep ==
  ASSUME IInv, NEW i \in Items, Fail(i)
  PROVE  IInv'
<1>1. OneStatus(travel, travel', i, "failed") /\ Honest(travel')
  BY FailedFacts DEF Fail, IInv, Shape
<1>. QED
  BY <1>1, WrittenStep DEF Fail, Replaying

-----------------------------------------------------------------------------
(* Faults.                                                                 *)

(* The item in hand goes out of the replay's hands.  If it was started and *)
(* nothing is known of that, it is counted as lost.                        *)
LEMMA LetGo ==
  ASSUME IInv, UNCHANGED <<travel, effects>>, deciding' \subseteq deciding, LostTrack,
         replay' = Resting \/ replay' = [replay EXCEPT !.phase = "failing"],
         replay' = Resting \/ replay.phase \in {"marked", "started", "recorded"}
  PROVE  IInv'
<1>1. Shape'
  <2>1. replay' = [phase |-> replay'.phase, left |-> replay'.left, item |-> replay'.item]
    BY DEF IInv, Shape, Resting
  <2>2. lost' \in [Items -> Nat]
    <3>1. lost \in [Items -> Nat]
      BY DEF IInv, Shape
    <3>2. lost' = lost \/ lost' = [lost EXCEPT ![replay.item] = lost[replay.item] + 1]
      BY DEF LostTrack
    <3>3. CASE replay.item \in Items
      BY <3>1, <3>2, <3>3
    <3>4. CASE replay.item \notin Items
      BY <3>1, <3>2, <3>4
    <3>. QED
      BY <3>3, <3>4
  <2>. QED
    BY <2>1, <2>2 DEF IInv, Shape
<1>2. ASSUME NEW i \in Items
      PROVE  Traced(i)'
  <2>1. Traced(i) /\ effects[i] \in Nat /\ lost[i] \in Nat
    BY DEF IInv, Shape
  <2>2. ~Underway(i)' /\ (InHand(i)' => InHand(i)) /\ ~(replay'.item = i /\ replay'.phase = "recorded")
    BY NoneAssumption DEF Underway, InHand, Resting, IInv, Shape
  <2>3. CASE Forgotten /\ replay.item = i
    <3>1. lost'[i] = lost[i] + 1
      BY <2>3 DEF LostTrack, IInv, Shape
    <3>2. effects'[i] <= 1 + lost'[i] /\ effects'[i] <= lost'[i]
      BY <2>1, <3>1 DEF Traced
    <3>. QED
      BY <2>1, <2>2, <3>2 DEF Traced
  <2>4. CASE ~(Forgotten /\ replay.item = i)
    <3>1. lost'[i] = lost[i]
      BY <2>4 DEF LostTrack, IInv, Shape
    <3>2. Underway(i) => travel.session[i]
      BY <2>1, <2>4 DEF Forgotten, Underway, Traced
    <3>. QED
      BY <2>1, <2>2, <3>1, <3>2 DEF Traced
  <2>. QED
    BY <2>3, <2>4
<1>. QED
  BY <1>1, <1>2 DEF IInv, StaleUntilHome, Clean, HasPending, Unsynced

LEMMA BreakStep ==
  ASSUME IInv, Break
  PROVE  IInv'
BY LetGo DEF Break

LEMMA CrashStep ==
  ASSUME IInv, Crash
  PROVE  IInv'
BY LetGo DEF Crash

LEMMA AbandonStep ==
  ASSUME IInv, replay' = Resting, replay.phase \in {"listing", "next", "failing"},
         UNCHANGED <<travel, deciding, effects, lost>>
  PROVE  IInv'
<1>1. ~Forgotten
  BY DEF Forgotten
<1>. QED
  BY <1>1, LetGo DEF LostTrack

-----------------------------------------------------------------------------
(* The polls, the user and the hub.                                        *)

LEMMA Untouched ==
  ASSUME IInv, UNCHANGED <<travel, deciding, replay, effects, lost>>
  PROVE  IInv'
BY DEF IInv, Shape, Traced, Underway, InHand, StaleUntilHome, Clean, HasPending, Unsynced

LEMMA FlagsStep ==
  ASSUME IInv, SameWork(travel, travel'), Honest(travel'), UNCHANGED <<deciding, replay, effects, lost>>
  PROVE  IInv'
BY SameWorkKeeps DEF IInv, Shape

(* The replay moves between items.                                         *)
LEMMA BetweenItems ==
  ASSUME IInv, UNCHANGED <<travel, deciding, effects, lost>>,
         replay.phase \in {"idle", "listing"}, replay'.phase \in {"listing", "next"},
         replay' = [replay EXCEPT !.phase = replay'.phase, !.left = replay'.left]
  PROVE  IInv'
<1>1. \A i \in Items : ~InHand(i) /\ ~InHand(i)'
  BY DEF InHand
<1>2. SameWork(travel, travel') /\ Honest(travel')
  BY DEF IInv, Shape, SameWork, StaleUntilHome, Honest
<1>. QED
  BY <1>1, <1>2, SameWorkKeeps

LEMMA PollStep ==
  ASSUME IInv, NEW p \in Polls, PollSteps(p)
  PROVE  IInv'
<1>1. CASE Poll(p) \/ Answer(p) \/ Share(p) \/ Turn(p)
  BY <1>1, Untouched DEF Poll, Answer, Share, Turn
<1>2. CASE Record(p)
  <2>1. travel' \in {travel, Reached(travel), Unreached(travel)}
        /\ UNCHANGED <<deciding, replay, effects, lost>>
    BY <1>2 DEF Record
  <2>2. travel \in Travels /\ Honest(travel)
    BY DEF IInv, Shape, StaleUntilHome, Honest
  <2>3. SameWork(travel, travel') /\ Honest(travel')
    BY <2>1, <2>2, ReachedFacts, UnreachedFacts DEF SameWork
  <2>. QED
    BY <2>1, <2>3, FlagsStep
<1>3. CASE Sync(p)
  <2>1. CASE replay.phase = "idle"
    <3>1. replay' = [replay EXCEPT !.phase = "listing"] /\ UNCHANGED <<travel, deciding, effects, lost>>
      BY <1>3, <2>1 DEF Sync
    <3>2. replay'.phase = "listing" /\ replay' = [replay EXCEPT !.phase = replay'.phase, !.left = replay'.left]
      BY <3>1 DEF IInv, Shape
    <3>. QED
      BY <2>1, <3>1, <3>2, BetweenItems
  <2>2. CASE replay.phase # "idle"
    BY <1>3, <2>2, Untouched DEF Sync
  <2>. QED
    BY <2>1, <2>2
<1>4. CASE Wake(p)
  <2>1. travel \in Travels /\ Honest(travel)
    BY DEF IInv, Shape, StaleUntilHome, Honest
  <2>2. CASE travel' = [travel EXCEPT !.stale = TRUE]
    <3>1. SameWork(travel, travel') /\ Honest(travel')
      BY <2>1, <2>2 DEF SameWork, Honest, Travels
    <3>. QED
      BY <1>4, <3>1, FlagsStep DEF Wake
  <2>3. CASE UNCHANGED travel
    BY <1>4, <2>3, Untouched DEF Wake
  <2>. QED
    BY <1>4, <2>2, <2>3 DEF Wake
<1>. QED
  BY <1>1, <1>2, <1>3, <1>4 DEF PollSteps

LEMMA ReplayStep ==
  ASSUME IInv, ReplaySteps
  PROVE  IInv'
<1>1. CASE List
  <2>1. PICK l : replay' = [replay EXCEPT !.phase = "next", !.left = l]
    BY <1>1 DEF List
  <2>2. replay'.phase = "next" /\ replay' = [replay EXCEPT !.phase = replay'.phase, !.left = replay'.left]
    BY <2>1 DEF IInv, Shape
  <2>. QED
    BY <1>1, <2>2, BetweenItems DEF List
<1>2. CASE End
  BY <1>2, AbandonStep DEF End
<1>3. ASSUME NEW i \in Items,
             Mark(i) \/ Refuse(i) \/ Resume(i) \/ Start(i) \/ Note(i) \/ Complete(i) \/ Fail(i)
      PROVE  IInv'
  BY <1>3, MarkStep, RefuseStep, ResumeStep, StartStep, NoteStep, CompleteStep, FailStep
<1>. QED
  BY <1>1, <1>2, <1>3 DEF ReplaySteps

-----------------------------------------------------------------------------

LEMMA Initial ==
  ASSUME Init
  PROVE  IInv
<1>1. PICK unfit \in SUBSET Items :
        travel = [manual |-> FALSE, unreachable |-> FALSE, stale |-> FALSE,
                  queue |-> <<>>, status |-> [i \in Items |-> None],
                  session |-> [i \in Items |-> FALSE], unfit |-> unfit]
  BY DEF Init
<1>2. Shape
  BY <1>1 DEF Shape, Travels, Init, Resting
<1>3. \A i \in Items : Traced(i)
  BY <1>1, NoneAssumption DEF Init, Traced, Underway, InHand, Resting, Statuses
<1>4. StaleUntilHome
  BY <1>1, NoneAssumption DEF StaleUntilHome, Clean, HasPending, Unsynced
<1>. QED
  BY <1>2, <1>3, <1>4 DEF IInv

LEMMA Inductive ==
  ASSUME IInv, [Next]_vars
  PROVE  IInv'
<1>1. CASE UNCHANGED vars
  BY <1>1, Untouched DEF vars
<1>2. ASSUME NEW i \in Items, Decide(i) \/ Enqueue(i)
      PROVE  IInv'
  BY <1>2, DecideStep, EnqueueStep
<1>3. ASSUME NEW p \in Polls, PollSteps(p) \/ RecordFails(p)
      PROVE  IInv'
  BY <1>3, PollStep, Untouched DEF RecordFails
<1>4. CASE ReplaySteps \/ Break \/ Crash
  BY <1>4, ReplayStep, BreakStep, CrashStep
<1>5. CASE Abandon
  BY <1>5, AbandonStep DEF Abandon
<1>6. CASE SwitchManual
  <2>1. travel \in Travels /\ Honest(travel)
    BY DEF IInv, Shape, StaleUntilHome, Honest
  <2>2. SameWork(travel, travel') /\ Honest(travel')
    <3> DEFINE enabled == ~travel.manual
    <3>1. enabled \in BOOLEAN
      OBVIOUS
    <3>2. travel' = SetManual(travel, enabled)
      BY <1>6 DEF SwitchManual
    <3> HIDE DEF enabled
    <3>. QED
      BY <2>1, <3>1, <3>2, SetManualFacts
  <2>. QED
    BY <1>6, <2>2, FlagsStep DEF SwitchManual
<1>7. CASE SwitchTarget \/ HubChanges
  BY <1>7, Untouched DEF SwitchTarget, HubChanges
<1>. QED
  BY <1>1, <1>2, <1>3, <1>4, <1>5, <1>6, <1>7 DEF Next

THEOREM Invariance == Spec => []IInv
<1>1. Init => IInv
  BY Initial
<1>2. IInv /\ [Next]_vars => IInv'
  BY Inductive
<1>. QED
  BY <1>1, <1>2, PTL DEF Spec

(* Queued work takes effect once, unless a crash, a lost answer or a failed *)
(* write left no trace of it; and what reads synced has taken effect.       *)
THEOREM ReplayedOnceHolds == Spec => []ReplayedOnce
<1>1. IInv => ReplayedOnce
  BY DEF IInv, Traced, ReplayedOnce
<1>. QED
  BY <1>1, Invariance, PTL

(* What is shown is called current only with no outage known, no travel     *)
(* mode and nothing queued, in whatever order the writes come.              *)
THEOREM StaleUntilHomeHolds == Spec => []StaleUntilHome
<1>1. IInv => StaleUntilHome
  BY DEF IInv
<1>. QED
  BY <1>1, Invariance, PTL

-----------------------------------------------------------------------------
(* The lanes: who reconciles, and who waits for whom.                      *)

PollType ==
  [phase : PollPhases, target : Targets \union {None}, health : Health,
   known : Snapshots \union {None}, behind : Polls \union {None}]

Inside(P, p) == P[p].phase \in PollPhases \ {"idle", "asking"}

First(P, p) == Inside(P, p) /\ P[p].behind = None

(* The polls P that reconcile for one target stand in a row that ends with *)
(* the one in its lane L, and only the first of a row does not wait.       *)
Lanes(P, L) ==
  /\ P \in [Polls -> PollType] /\ L \in [Targets -> Polls \union {None}]
  /\ \A p \in Polls : P[p].phase # "idle" => P[p].target \in Targets
  /\ \A t \in Targets : L[t] # None => Inside(P, L[t]) /\ P[L[t]].target = t
  /\ \A t \in Targets : L[t] = None => \A p \in Polls : Inside(P, p) => P[p].target # t
  /\ \A p \in Polls : P[p].behind # None =>
       /\ P[p].phase = "waiting" /\ Inside(P, P[p].behind)
       /\ P[P[p].behind].target = P[p].target /\ L[P[p].target] # P[p].behind
  /\ \A p, q \in Polls : P[p].behind # None /\ P[p].behind = P[q].behind => p = q
  /\ \A ring \in (SUBSET Polls) \ {{}} : \E p \in ring : P[p].behind \notin ring
  /\ \A p, q \in Polls : First(P, p) /\ First(P, q) /\ P[p].target = P[q].target => p = q

LEMMA SamePlace ==
  ASSUME NEW P, NEW L, Lanes(P, L), NEW Q \in [Polls -> PollType],
         \A r \in Polls :
           /\ Inside(Q, r) <=> Inside(P, r)
           /\ Inside(P, r) => Q[r].target = P[r].target
           /\ Q[r].behind = P[r].behind
           /\ Q[r].behind # None => Q[r].phase = "waiting"
           /\ Q[r].phase # "idle" => Q[r].target \in Targets
  PROVE  Lanes(Q, L)
<1>1. \A t \in Targets : L[t] # None => Inside(Q, L[t]) /\ Q[L[t]].target = t
  BY DEF Lanes
<1>2. \A t \in Targets : L[t] = None => \A p \in Polls : Inside(Q, p) => Q[p].target # t
  BY DEF Lanes
<1>3. ASSUME NEW p \in Polls, Q[p].behind # None
      PROVE  /\ Q[p].phase = "waiting" /\ Inside(Q, Q[p].behind)
             /\ Q[Q[p].behind].target = Q[p].target /\ L[Q[p].target] # Q[p].behind
  <2>1. P[p].behind \in Polls /\ P[p].phase = "waiting"
    BY <1>3 DEF Lanes, PollType
  <2>2. Inside(P, p) /\ Inside(P, P[p].behind)
    BY <1>3, <2>1 DEF Lanes, Inside, PollPhases
  <2>. QED
    BY <1>3, <2>1, <2>2 DEF Lanes
<1>4. \A p, q \in Polls : Q[p].behind # None /\ Q[p].behind = Q[q].behind => p = q
  BY DEF Lanes
<1>5. \A ring \in (SUBSET Polls) \ {{}} : \E p \in ring : Q[p].behind \notin ring
  BY DEF Lanes
<1>6. \A p, q \in Polls : First(Q, p) /\ First(Q, q) /\ Q[p].target = Q[q].target => p = q
  BY DEF Lanes, First
<1>. QED
  BY <1>1, <1>2, <1>3, <1>4, <1>5, <1>6 DEF Lanes

(* A poll goes to the end of the row.                                      *)
LEMMA Joins ==
  ASSUME NEW P, NEW L, Lanes(P, L), NEW Q \in [Polls -> PollType],
         NEW p \in Polls, P[p].phase = "asking", NEW t \in Targets, P[p].target = t,
         \A r \in Polls \ {p} : Q[r] = P[r],
         Q[p].target = t, Q[p].behind = L[t],
         Q[p].phase = IF L[t] = None THEN "ready" ELSE "waiting"
  PROVE  Lanes(Q, [L EXCEPT ![t] = p])
<1> DEFINE M == [L EXCEPT ![t] = p]
<1>1. /\ ~Inside(P, p) /\ Inside(Q, p) /\ p # None
      /\ \A r \in Polls \ {p} : Inside(Q, r) <=> Inside(P, r)
  BY NoneAssumption DEF Inside, PollPhases
<1>2. /\ M \in [Targets -> Polls \union {None}] /\ M[t] = p
      /\ \A u \in Targets \ {t} : M[u] = L[u]
  BY DEF Lanes
<1> HIDE DEF M
<1>3. \A u \in Targets : L[u] # p
  BY <1>1 DEF Lanes
<1>4. \A r \in Polls : P[r].behind # p
  BY <1>1 DEF Lanes
<1>5. P[p].behind = None
  BY DEF Lanes
<1>6. \A u \in Targets : M[u] # None => Inside(Q, M[u]) /\ Q[M[u]].target = u
  <2> SUFFICES ASSUME NEW u \in Targets, M[u] # None PROVE Inside(Q, M[u]) /\ Q[M[u]].target = u
    OBVIOUS
  <2>1. CASE u = t
    BY <1>1, <1>2, <2>1
  <2>2. CASE u # t
    <3>1. L[u] \in Polls \ {p} /\ M[u] = L[u] /\ L[u] # None
      BY <1>2, <1>3, <2>2 DEF Lanes
    <3>. QED
      BY <1>1, <3>1 DEF Lanes
  <2>. QED
    BY <2>1, <2>2
<1>7. \A u \in Targets : M[u] = None => \A r \in Polls : Inside(Q, r) => Q[r].target # u
  <2> SUFFICES ASSUME NEW u \in Targets, M[u] = None, NEW r \in Polls, Inside(Q, r)
               PROVE  Q[r].target # u
    OBVIOUS
  <2>1. u # t /\ L[u] = None
    BY <1>1, <1>2
  <2>. QED
    BY <1>1, <2>1 DEF Lanes
<1>8. ASSUME NEW r \in Polls, Q[r].behind # None
      PROVE  /\ Q[r].phase = "waiting" /\ Inside(Q, Q[r].behind)
             /\ Q[Q[r].behind].target = Q[r].target /\ M[Q[r].target] # Q[r].behind
  <2>1. CASE r = p
    <3>1. L[t] # None /\ L[t] \in Polls \ {p} /\ Inside(P, L[t]) /\ P[L[t]].target = t
      BY <1>3, <1>8, <2>1 DEF Lanes
    <3>. QED
      BY <1>1, <1>2, <2>1, <3>1
  <2>2. CASE r # p
    <3>1. Q[r] = P[r] /\ P[r].behind \in Polls \ {p} /\ P[r].target \in Targets
      BY <1>4, <1>8, <2>2 DEF Lanes, PollType
    <3>2. /\ P[r].phase = "waiting" /\ Inside(P, P[r].behind)
          /\ P[P[r].behind].target = P[r].target /\ L[P[r].target] # P[r].behind
      BY <1>8, <3>1 DEF Lanes
    <3>. QED
      BY <1>1, <1>2, <3>1, <3>2
  <2>. QED
    BY <2>1, <2>2
<1>9. ASSUME NEW r \in Polls, NEW q \in Polls, Q[r].behind # None, Q[r].behind = Q[q].behind
      PROVE  r = q
  <2>1. ASSUME NEW o \in Polls \ {p}, P[o].behind = L[t], L[t] # None PROVE FALSE
    <3>1. P[L[t]].target = P[o].target /\ L[P[o].target] # L[t]
      BY <2>1 DEF Lanes
    <3>2. P[L[t]].target = t
      BY <2>1 DEF Lanes
    <3>. QED
      BY <3>1, <3>2
  <2>2. CASE r # p /\ q # p
    BY <1>9, <2>2 DEF Lanes
  <2>. QED
    BY <1>9, <2>1, <2>2
<1>10. ASSUME NEW ring \in (SUBSET Polls) \ {{}}, \A r \in ring : Q[r].behind \in ring
       PROVE  FALSE
  <2>1. \A r \in ring \ {p} : P[r].behind \in ring \ {p}
    BY <1>4, <1>10
  <2>2. ring \ {p} # {}
    <3>1. CASE p \in ring
      <4>1. L[t] \in ring /\ L[t] # p
        BY <1>3, <1>10, <3>1
      <4>. QED
        BY <4>1
    <3>. QED
      BY <3>1
  <2>3. ring \ {p} \in (SUBSET Polls) \ {{}}
    BY <2>2
  <2>. QED
    BY <2>1, <2>3 DEF Lanes
<1>11. ASSUME NEW r \in Polls, NEW q \in Polls, First(Q, r), First(Q, q), Q[r].target = Q[q].target
       PROVE  r = q
  <2>1. ASSUME NEW o \in Polls \ {p}, First(Q, p), Inside(Q, o), Q[o].target = t PROVE FALSE
    <3>1. L[t] = None
      BY <2>1 DEF First
    <3>2. Inside(P, o) /\ P[o].target = t
      BY <1>1, <2>1
    <3>. QED
      BY <3>1, <3>2 DEF Lanes
  <2>2. CASE r # p /\ q # p
    <3>1. First(P, r) /\ First(P, q) /\ P[r].target = P[q].target
      BY <1>1, <1>11, <2>2 DEF First
    <3>. QED
      BY <3>1 DEF Lanes
  <2>3. First(Q, r) => Inside(Q, r)
    BY DEF First
  <2>4. First(Q, q) => Inside(Q, q)
    BY DEF First
  <2>. QED
    BY <1>11, <2>1, <2>2, <2>3, <2>4
<1>12. \A r \in Polls : Q[r].phase # "idle" => Q[r].target \in Targets
  BY DEF Lanes
<1>13. \A ring \in (SUBSET Polls) \ {{}} : \E r \in ring : Q[r].behind \notin ring
  BY <1>10
<1> HIDE DEF First, Inside
<1>14. Lanes(Q, M)
  BY <1>2, <1>6, <1>7, <1>8, <1>9, <1>11, <1>12, <1>13 DEF Lanes
<1>. QED
  BY <1>14 DEF M

(* Some that do not wait leave their rows, and others of them go on.       *)
Parts(P, L, Q, M, over) ==
  /\ Q \in [Polls -> PollType] /\ M \in [Targets -> Polls \union {None}]
  /\ over \in SUBSET Polls
  /\ \A r \in over : Q[r] = Idle /\ P[r].behind = None
  /\ \A r \in Polls \ over :
       /\ Q[r].target = P[r].target
       /\ Q[r].behind = IF P[r].behind \in over THEN None ELSE P[r].behind
       /\ Q[r].phase = P[r].phase \/ (First(P, r) /\ Q[r].phase = "waking")
  /\ \A t \in Targets : M[t] = IF L[t] \in over THEN None ELSE L[t]

LEMMA Winds ==
  ASSUME NEW P, NEW L, NEW Q, NEW M, NEW over, Lanes(P, L), Parts(P, L, Q, M, over)
  PROVE  Lanes(Q, M)
<1> USE DEF Parts
<1>1. /\ \A r \in Polls : Inside(Q, r) <=> Inside(P, r) /\ r \notin over
      /\ None \notin over
  BY NoneAssumption DEF Inside, First, PollPhases, Idle
<1>2. \A r \in Polls : Q[r].behind # None => r \notin over /\ Q[r].behind = P[r].behind /\ P[r].behind \notin over
  BY DEF Idle
<1>3. \A r \in Polls : Q[r].phase # "idle" => r \notin over /\ P[r].phase # "idle"
  BY DEF Idle, First, Inside
<1>4. \A r \in Polls : Q[r].phase # "idle" => Q[r].target \in Targets
  BY <1>3 DEF Lanes
<1>5. ASSUME NEW t \in Targets, M[t] # None
      PROVE  Inside(Q, M[t]) /\ Q[M[t]].target = t
  <2>1. L[t] \in Polls \ over /\ M[t] = L[t] /\ L[t] # None
    BY <1>5 DEF Lanes
  <2>. QED
    BY <1>1, <2>1 DEF Lanes
<1>6. ASSUME NEW t \in Targets, M[t] = None, NEW q \in Polls, Inside(Q, q), Q[q].target = t
      PROVE  FALSE
  <2>1. Inside(P, q) /\ P[q].target = t /\ q \notin over
    BY <1>1, <1>6
  <2>2. L[t] \in over /\ L[t] # None
    BY <1>6, <2>1 DEF Lanes
  <2>3. First(P, L[t]) /\ P[L[t]].target = t /\ L[t] \in Polls
    BY <2>2 DEF Lanes, First
  <2> DEFINE ring == {r \in Polls : Inside(P, r) /\ P[r].target = t /\ r # L[t]}
  <2>4. ASSUME NEW r \in ring PROVE P[r].behind \in ring
    <3>1. P[r].behind # None
      BY <2>3, <2>4 DEF First, Lanes
    <3>2. P[r].behind \in Polls
      BY <3>1, <2>4 DEF Lanes, PollType
    <3>. QED
      BY <2>4, <3>1, <3>2 DEF Lanes
  <2>5. ring \in (SUBSET Polls) \ {{}}
    BY <2>1, <2>2
  <2> HIDE DEF ring
  <2>. QED
    BY <2>4, <2>5 DEF Lanes
<1>7. ASSUME NEW r \in Polls, Q[r].behind # None
      PROVE  /\ Q[r].phase = "waiting" /\ Inside(Q, Q[r].behind)
             /\ Q[Q[r].behind].target = Q[r].target /\ M[Q[r].target] # Q[r].behind
  <2>1. r \notin over /\ Q[r].behind = P[r].behind /\ P[r].behind \in Polls \ over /\ P[r].behind # None
    BY <1>2, <1>7 DEF Lanes, PollType
  <2>2. /\ P[r].phase = "waiting" /\ Inside(P, P[r].behind)
        /\ P[P[r].behind].target = P[r].target /\ L[P[r].target] # P[r].behind
    BY <2>1 DEF Lanes
  <2>3. P[r].target \in Targets /\ Q[r].target = P[r].target
    BY <2>1, <2>2 DEF Lanes
  <2>4. Q[r].phase = "waiting"
    BY <2>1, <2>2 DEF First
  <2>. QED
    BY <1>1, <2>1, <2>2, <2>3, <2>4
<1>8. \A p, q \in Polls : Q[p].behind # None /\ Q[p].behind = Q[q].behind => p = q
  BY <1>2 DEF Lanes
<1>9. ASSUME NEW ring \in (SUBSET Polls) \ {{}}, \A r \in ring : Q[r].behind \in ring
      PROVE  FALSE
  <2>1. \A r \in ring : P[r].behind \in ring
    BY <1>2, <1>9, NoneAssumption
  <2>. QED
    BY <2>1 DEF Lanes
<1>10. ASSUME NEW p \in Polls, NEW q \in Polls, First(Q, p), First(Q, q), Q[p].target = Q[q].target
       PROVE  p = q
  <2>1. ASSUME NEW r \in Polls, First(Q, r)
        PROVE  /\ r \notin over /\ Inside(P, r) /\ P[r].target = Q[r].target
               /\ First(P, r) \/ P[r].behind \in over
    BY <1>1, <2>1 DEF First
  <2>2. ASSUME NEW r \in Polls, P[r].behind \in over
        PROVE  First(P, P[r].behind) /\ P[P[r].behind].target = P[r].target
    BY <1>1, <2>2 DEF Lanes, First
  <2>3. CASE First(P, p) /\ First(P, q)
    BY <1>10, <2>1, <2>3 DEF Lanes
  <2>4. CASE First(P, p) /\ P[q].behind \in over
    BY <1>10, <2>1, <2>2, <2>4 DEF Lanes
  <2>5. CASE P[p].behind \in over /\ First(P, q)
    BY <1>10, <2>1, <2>2, <2>5 DEF Lanes
  <2>6. CASE P[p].behind \in over /\ P[q].behind \in over
    <3>1. P[p].behind = P[q].behind /\ P[p].behind # None
      BY <1>1, <1>10, <2>1, <2>2, <2>6 DEF Lanes
    <3>. QED
      BY <3>1 DEF Lanes
  <2>. QED
    BY <1>10, <2>1, <2>3, <2>4, <2>5, <2>6
<1>11. \A ring \in (SUBSET Polls) \ {{}} : \E r \in ring : Q[r].behind \notin ring
  BY <1>9
<1> HIDE DEF First, Inside
<1>. QED
  BY <1>4, <1>5, <1>6, <1>7, <1>8, <1>10, <1>11 DEF Lanes

-----------------------------------------------------------------------------
(* Who waits for the replay waits for one that goes on.                    *)
Awaited ==
  /\ replay.phase \in ReplayPhases /\ replay.item \in Items \union {None}
  /\ (\E p \in Polls : poll[p].phase = "syncing") <=> replay.phase # "idle"

RowsInv ==
  /\ Lanes(poll, lane) /\ Awaited
  /\ target \in Targets /\ hub \in Health /\ spent \in Nat

(* What Wind makes of the polls and the lanes.                             *)
Leave(P, over, waking) ==
  [p \in Polls |->
     IF p \in over THEN Idle
     ELSE [P[p] EXCEPT !.phase = IF p \in waking THEN "waking" ELSE @,
                       !.known = IF p \in waking THEN None ELSE @,
                       !.behind = IF @ \in over THEN None ELSE @]]

Freed(L, over) == [t \in Targets |-> IF L[t] \in over THEN None ELSE L[t]]

LEMMA LeaveKeeps ==
  ASSUME NEW P, NEW L, Lanes(P, L),
         NEW over \in SUBSET Polls, NEW waking \in SUBSET Polls,
         over \cap waking = {},
         \A r \in over : P[r].behind = None,
         \A r \in waking : First(P, r)
  PROVE  /\ Lanes(Leave(P, over, waking), Freed(L, over))
         /\ \A r \in Polls : Leave(P, over, waking)[r].phase =
              IF r \in over THEN "idle" ELSE IF r \in waking THEN "waking" ELSE P[r].phase
<1> DEFINE Q == Leave(P, over, waking)
<1>1. P \in [Polls -> PollType] /\ L \in [Targets -> Polls \union {None}]
  BY DEF Lanes
<1>2. ASSUME NEW r \in Polls
      PROVE  /\ Q[r] \in PollType
             /\ r \in over => Q[r] = Idle
             /\ r \notin over =>
                  /\ Q[r].target = P[r].target
                  /\ Q[r].behind = IF P[r].behind \in over THEN None ELSE P[r].behind
                  /\ Q[r].phase = IF r \in waking THEN "waking" ELSE P[r].phase
  <2>1. CASE r \in over
    <3>1. Q[r] = Idle
      BY <2>1 DEF Leave
    <3>2. Idle \in PollType
      BY DEF PollType, Idle, PollPhases, Health
    <3> HIDE DEF Q
    <3>. QED
      BY <2>1, <3>1, <3>2
  <2>2. CASE r \notin over
    <3> DEFINE a == IF r \in waking THEN "waking" ELSE P[r].phase
               b == IF r \in waking THEN None ELSE P[r].known
               c == IF P[r].behind \in over THEN None ELSE P[r].behind
    <3>1. Q[r] = [P[r] EXCEPT !.phase = a, !.known = b, !.behind = c]
      BY <2>2 DEF Leave
    <3>2. /\ P[r] \in PollType /\ a \in PollPhases
          /\ b \in Snapshots \union {None} /\ c \in Polls \union {None}
      BY <1>1 DEF PollType, PollPhases
    <3> HIDE DEF Q, a, b, c
    <3>3. Q[r] \in PollType /\ Q[r].target = P[r].target /\ Q[r].behind = c /\ Q[r].phase = a
      BY <3>1, <3>2 DEF PollType
    <3>. QED
      BY <2>2, <3>3 DEF a, c
  <2>. QED
    BY <2>1, <2>2
<1>3. Q = [p \in Polls |-> Q[p]]
  BY DEF Leave
<1>4. /\ Freed(L, over) \in [Targets -> Polls \union {None}]
      /\ \A t \in Targets : Freed(L, over)[t] = IF L[t] \in over THEN None ELSE L[t]
  BY <1>1 DEF Freed
<1> HIDE DEF Q
<1>5. Q \in [Polls -> PollType]
  BY <1>2, <1>3
<1>6. Lanes(Q, Freed(L, over))
  <2>1. \A r \in over : Q[r] = Idle /\ P[r].behind = None
    BY <1>2
  <2>2. \A r \in Polls \ over :
          /\ Q[r].target = P[r].target
          /\ Q[r].behind = IF P[r].behind \in over THEN None ELSE P[r].behind
          /\ Q[r].phase = P[r].phase \/ (First(P, r) /\ Q[r].phase = "waking")
    BY <1>2
  <2>3. Parts(P, L, Q, Freed(L, over), over)
    BY <1>4, <1>5, <2>1, <2>2 DEF Parts
  <2>. QED
    BY <2>3, Winds
<1>7. \A r \in Polls : Q[r].phase =
        IF r \in over THEN "idle" ELSE IF r \in waking THEN "waking" ELSE P[r].phase
  BY <1>2 DEF Idle
<1>. QED
  BY <1>6, <1>7 DEF Q

(* What is left of Wind when the polls ps do not wait: they are over, or   *)
(* wake the local daemon.                                                  *)
LEMMA WindKeeps ==
  ASSUME RowsInv, NEW ps \in SUBSET Polls, NEW must, NEW may, Wind(ps, must, may),
         \A r \in ps : poll[r].behind = None,
         must \/ may => \A r \in ps : First(poll, r)
  PROVE  /\ Lanes(poll, lane)'
         /\ \A r \in ps : poll'[r].phase \in {"idle", "waking"}
         /\ \A r \in Polls \ ps : poll'[r].phase = poll[r].phase
<1>1. PICK waking \in {w \in SUBSET ps : (must => w = ps) /\ (w # {} => must \/ may)} :
        poll' = Leave(poll, ps \ waking, waking) /\ lane' = Freed(lane, ps \ waking)
  BY Zenon DEF Wind, Leave, Freed
<1>2. waking \in SUBSET ps /\ (waking # {} => \A r \in ps : First(poll, r))
  BY Zenon
<1>3. PICK over : over = ps \ waking
  OBVIOUS
<1>4. /\ over \in SUBSET Polls /\ waking \in SUBSET Polls /\ over \cap waking = {}
      /\ \A r \in over : poll[r].behind = None
      /\ \A r \in waking : First(poll, r)
      /\ \A r \in Polls : r \in ps <=> r \in over \/ r \in waking
  BY <1>2, <1>3
<1>5. Lanes(poll, lane)
  BY DEF RowsInv
<1>6. /\ Lanes(Leave(poll, over, waking), Freed(lane, over))
      /\ \A r \in Polls : Leave(poll, over, waking)[r].phase =
           IF r \in over THEN "idle" ELSE IF r \in waking THEN "waking" ELSE poll[r].phase
  BY <1>4, <1>5, LeaveKeeps
<1>7. poll' = Leave(poll, over, waking) /\ lane' = Freed(lane, over)
  BY <1>1, <1>3
<1>8. Lanes(poll', lane')
  BY <1>6, <1>7
<1>9. \A r \in Polls : poll'[r].phase =
        IF r \in over THEN "idle" ELSE IF r \in waking THEN "waking" ELSE poll[r].phase
  BY <1>6, <1>7
<1>. QED
  BY <1>4, <1>8, <1>9

(* One poll changes and stays where it is.                                 *)
LEMMA OnePoll ==
  ASSUME RowsInv, NEW p \in Polls, NEW x \in PollType,
         poll' = [poll EXCEPT ![p] = x], UNCHANGED lane,
         x.phase \in {"idle", "asking"} <=> poll[p].phase \in {"idle", "asking"},
         Inside(poll, p) => x.target = poll[p].target,
         x.behind = poll[p].behind, x.behind # None => x.phase = "waiting",
         x.phase # "idle" => x.target \in Targets
  PROVE  /\ Lanes(poll, lane)'
         /\ poll'[p] = x /\ \A r \in Polls \ {p} : poll'[r] = poll[r]
<1>1. Lanes(poll, lane) /\ poll \in [Polls -> PollType]
  BY DEF RowsInv, Lanes
<1>2. PICK Q : Q = poll'
  OBVIOUS
<1>3. /\ Q \in [Polls -> PollType] /\ Q[p] = x
      /\ \A r \in Polls \ {p} : Q[r] = poll[r]
  BY <1>1, <1>2
<1>4. ASSUME NEW r \in Polls
      PROVE  /\ Inside(Q, r) <=> Inside(poll, r)
             /\ Inside(poll, r) => Q[r].target = poll[r].target
             /\ Q[r].behind = poll[r].behind
             /\ Q[r].behind # None => Q[r].phase = "waiting"
             /\ Q[r].phase # "idle" => Q[r].target \in Targets
  <2>1. CASE r = p
    BY <1>1, <1>3, <2>1 DEF Inside, PollType, PollPhases
  <2>2. CASE r # p
    BY <1>1, <1>3, <2>2 DEF Inside, Lanes
  <2>. QED
    BY <2>1, <2>2
<1>5. Lanes(Q, lane)
  BY <1>1, <1>3, <1>4, SamePlace
<1>. QED
  BY <1>2, <1>3, <1>5

(* What is asked of the polls' steps besides: the same ones wait for the   *)
(* replay.                                                                 *)
LEMMA RowsKept ==
  ASSUME RowsInv, Lanes(poll, lane)',
         \A r \in Polls : poll'[r].phase = "syncing" <=> poll[r].phase = "syncing",
         UNCHANGED <<replay, target, hub>>, spent' \in Nat
  PROVE  RowsInv'
BY DEF RowsInv, Awaited

LEMMA SnapshotType ==
  ASSUME IInv
  PROVE  Snapshot(travel) \in Snapshots
BY DEF IInv, Shape, Travels, Snapshot, Snapshots, HasPending

LEMMA PollRows ==
  ASSUME IInv, RowsInv, NEW p \in Polls, Poll(p)
  PROVE  RowsInv'
<1> DEFINE x == [Idle EXCEPT !.phase = "asking", !.target = target, !.known = Snapshot(travel)]
<1>1. poll' = [poll EXCEPT ![p] = x] /\ UNCHANGED <<lane, replay, target, hub, spent>> /\ poll[p].phase = "idle"
  BY DEF Poll
<1>2. /\ x \in PollType /\ x.phase = "asking" /\ x.target \in Targets /\ x.behind = None
  BY SnapshotType DEF RowsInv, PollType, PollPhases, Idle, Health
<1>3. poll[p].behind = None
  BY <1>1 DEF RowsInv, Lanes
<1> HIDE DEF x
<1>4. Lanes(poll, lane)' /\ poll'[p] = x /\ \A r \in Polls \ {p} : poll'[r] = poll[r]
  BY <1>1, <1>2, <1>3, OnePoll DEF Inside
<1>. QED
  BY <1>1, <1>2, <1>4, RowsKept DEF RowsInv

LEMMA AnswerRows ==
  ASSUME RowsInv, NEW p \in Polls, Answer(p)
  PROVE  RowsInv'
<1> DEFINE t == poll[p].target
           x == IF lane[t] = None
                  THEN [poll[p] EXCEPT !.phase = "ready", !.health = hub]
                  ELSE [poll[p] EXCEPT !.phase = "waiting", !.health = hub,
                                       !.known = None, !.behind = lane[t]]
<1>1. /\ poll[p].phase = "asking"
      /\ poll' = [poll EXCEPT ![p] = x]
      /\ lane' = [lane EXCEPT ![t] = p]
      /\ UNCHANGED <<replay, target, hub, spent>>
  BY DEF Answer
<1>2. /\ Lanes(poll, lane) /\ poll \in [Polls -> PollType] /\ t \in Targets
      /\ lane[t] \in Polls \union {None} /\ hub \in Health /\ poll[p].behind = None
  BY <1>1 DEF RowsInv, Lanes
<1>3. /\ x \in PollType /\ x.target = t /\ x.behind = lane[t]
      /\ x.phase = IF lane[t] = None THEN "ready" ELSE "waiting"
  <2>1. CASE lane[t] = None
    BY <1>2, <2>1 DEF PollType, PollPhases
  <2>2. CASE lane[t] # None
    <3>1. x = [poll[p] EXCEPT !.phase = "waiting", !.health = hub, !.known = None, !.behind = lane[t]]
      BY <2>2
    <3>2. PICK y \in PollType : y = poll[p]
      BY <1>2
    <3>3. PICK b \in Polls \union {None} : b = lane[t]
      BY <1>2
    <3>4. x = [y EXCEPT !.phase = "waiting", !.health = hub, !.known = None, !.behind = b]
      BY <3>1, <3>2, <3>3
    <3> HIDE DEF x
    <3>5. x = [phase |-> "waiting", target |-> y.target, health |-> hub, known |-> None, behind |-> b]
      BY <3>4 DEF PollType
    <3>6. y.target \in Targets \union {None}
      BY DEF PollType
    <3>7. /\ x \in PollType /\ x.phase = "waiting" /\ x.target = y.target /\ x.behind = b
      BY <1>2, <3>5, <3>6 DEF PollType, PollPhases
    <3>. QED
      BY <2>2, <3>2, <3>3, <3>7
  <2>. QED
    BY <2>1, <2>2
<1>4. PICK Q : Q = poll'
  OBVIOUS
<1> HIDE DEF x
<1>5. Q \in [Polls -> PollType] /\ Q[p] = x /\ \A r \in Polls \ {p} : Q[r] = poll[r]
  BY <1>1, <1>2, <1>3, <1>4
<1>6. PICK u \in Targets : u = t
  BY <1>2
<1>7. Lanes(Q, [lane EXCEPT ![u] = p])
  <2>1. /\ poll[p].phase = "asking" /\ poll[p].target = u
        /\ Q[p].target = u /\ Q[p].behind = lane[u]
        /\ Q[p].phase = IF lane[u] = None THEN "ready" ELSE "waiting"
    BY <1>1, <1>3, <1>5, <1>6
  <2> HIDE DEF t
  <2>. QED
    BY <1>2, <1>5, <2>1, Joins
<1>8. Lanes(poll, lane)'
  BY <1>1, <1>4, <1>6, <1>7
<1>9. \A r \in Polls : poll'[r].phase = "syncing" <=> poll[r].phase = "syncing"
  BY <1>1, <1>3, <1>4, <1>5
<1>. QED
  BY <1>1, <1>8, <1>9, RowsKept DEF RowsInv

LEMMA TurnRows ==
  ASSUME IInv, RowsInv, NEW p \in Polls, Turn(p)
  PROVE  RowsInv'
<1> DEFINE x == [poll[p] EXCEPT !.phase = "ready", !.known = Snapshot(travel)]
<1>1. /\ poll' = [poll EXCEPT ![p] = x] /\ UNCHANGED <<lane, replay, target, hub, spent>>
      /\ poll[p].phase = "waiting" /\ poll[p].behind = None
  BY DEF Turn
<1>2. poll[p] \in PollType /\ poll[p].target \in Targets
  BY <1>1 DEF RowsInv, Lanes
<1>3. x \in PollType /\ x.phase = "ready" /\ x.target = poll[p].target /\ x.behind = None
  BY <1>1, <1>2, SnapshotType DEF PollType, PollPhases
<1> HIDE DEF x
<1>4. Lanes(poll, lane)' /\ poll'[p] = x /\ \A r \in Polls \ {p} : poll'[r] = poll[r]
  BY <1>1, <1>2, <1>3, OnePoll
<1>. QED
  BY <1>1, <1>3, <1>4, RowsKept DEF RowsInv

(* A poll that reconciles goes on to its replay, or joins it.              *)
LEMMA OnwardRows ==
  ASSUME RowsInv, NEW p \in Polls, NEW phase \in {"recorded", "syncing"}, NEW known \in Snapshots \union {None},
         poll[p].phase \in {"ready", "recorded"},
         poll' = [poll EXCEPT ![p] = [@ EXCEPT !.phase = phase, !.known = known]], UNCHANGED lane
  PROVE  /\ Lanes(poll, lane)'
         /\ poll'[p].phase = phase /\ \A r \in Polls \ {p} : poll'[r] = poll[r]
<1> DEFINE x == [poll[p] EXCEPT !.phase = phase, !.known = known]
<1>1. poll[p] \in PollType /\ poll[p].target \in Targets /\ poll[p].behind = None
  BY DEF RowsInv, Lanes
<1>2. x \in PollType /\ x.phase = phase /\ x.target = poll[p].target /\ x.behind = None
  BY <1>1 DEF PollType, PollPhases
<1>3. poll' = [poll EXCEPT ![p] = x]
  OBVIOUS
<1>4. /\ x.phase \notin {"idle", "asking"} /\ poll[p].phase \notin {"idle", "asking"}
      /\ x.target = poll[p].target /\ x.behind = poll[p].behind /\ x.behind = None
      /\ x.target \in Targets /\ x \in PollType
  BY <1>1, <1>2
<1> HIDE DEF x
<1>5. Lanes(poll, lane)' /\ poll'[p] = x /\ \A r \in Polls \ {p} : poll'[r] = poll[r]
  BY <1>3, <1>4, OnePoll
<1>. QED
  BY <1>2, <1>5

LEMMA OneWinds ==
  ASSUME RowsInv, NEW p \in Polls, NEW must, NEW may, Wind({p}, must, may),
         poll[p].phase \in {"ready", "waking"} \/ (~must /\ ~may /\ poll[p].phase = "asking"),
         UNCHANGED <<replay, target, hub>>, spent' \in Nat
  PROVE  RowsInv'
<1>1. poll[p].behind = None
  BY DEF RowsInv, Lanes
<1>2. must \/ may => First(poll, p)
  BY <1>1 DEF First, Inside, PollPhases
<1>3. /\ Lanes(poll, lane)' /\ poll'[p].phase \in {"idle", "waking"}
      /\ \A r \in Polls \ {p} : poll'[r].phase = poll[r].phase
  BY <1>1, <1>2, WindKeeps
<1>. QED
  BY <1>3, RowsKept

LEMMA RecordRows ==
  ASSUME RowsInv, NEW p \in Polls, Record(p)
  PROVE  RowsInv'
<1>1. poll[p].phase = "ready" /\ UNCHANGED <<replay, target, hub, spent>>
  BY DEF Record
<1>2. CASE /\ poll' = [poll EXCEPT ![p] = [@ EXCEPT !.phase = "recorded", !.known = None]]
           /\ UNCHANGED lane
  <2>1. /\ Lanes(poll, lane)' /\ poll'[p].phase = "recorded"
        /\ \A r \in Polls \ {p} : poll'[r] = poll[r]
    BY <1>1, <1>2, OnwardRows
  <2>. QED
    BY <1>1, <2>1, RowsKept DEF RowsInv
<1>3. CASE \E must, may : Wind({p}, must, may)
  BY <1>1, <1>3, OneWinds DEF RowsInv
<1>. QED
  BY <1>2, <1>3 DEF Record

LEMMA SyncRows ==
  ASSUME RowsInv, NEW p \in Polls, Sync(p)
  PROVE  RowsInv'
<1>1. /\ poll[p].phase = "recorded" /\ poll' = [poll EXCEPT ![p].phase = "syncing"]
      /\ replay' = IF replay.phase = "idle" THEN [replay EXCEPT !.phase = "listing"] ELSE replay
      /\ UNCHANGED <<lane, target, hub, spent>>
  BY DEF Sync
<1>2. poll[p] \in PollType
  BY DEF RowsInv, Lanes
<1>3. poll' = [poll EXCEPT ![p] = [@ EXCEPT !.phase = "syncing", !.known = poll[p].known]]
  BY <1>1, <1>2 DEF PollType
<1>4. poll[p].known \in Snapshots \union {None}
  BY <1>2 DEF PollType
<1>5. /\ Lanes(poll, lane)' /\ poll'[p].phase = "syncing"
      /\ \A r \in Polls \ {p} : poll'[r] = poll[r]
  BY <1>1, <1>3, <1>4, OnwardRows
<1>. QED
  BY <1>1, <1>5 DEF RowsInv, Awaited, ReplayPhases

LEMMA PollStepRows ==
  ASSUME IInv, RowsInv, NEW p \in Polls, PollSteps(p) \/ RecordFails(p)
  PROVE  RowsInv'
<1>1. CASE Share(p)
  <2>1. /\ Wind({p}, FALSE, FALSE) /\ poll[p].phase = "asking"
        /\ UNCHANGED <<replay, target, hub>> /\ spent' \in Nat
    BY <1>1 DEF Share, Finished, RowsInv
  <2>. QED
    BY <2>1, OneWinds
<1>2. CASE Wake(p)
  <2>1. /\ Wind({p}, FALSE, FALSE) /\ poll[p].phase = "waking"
        /\ UNCHANGED <<replay, target, hub>> /\ spent' \in Nat
    BY <1>2 DEF Wake, Finished, RowsInv
  <2>. QED
    BY <2>1, OneWinds
<1>3. CASE RecordFails(p)
  <2>1. /\ Wind({p}, FALSE, FALSE) /\ poll[p].phase = "ready"
        /\ UNCHANGED <<replay, target, hub>> /\ spent' = spent + 1
    BY <1>3, Zenon DEF RecordFails, Finished, Event
  <2>2. spent' \in Nat
    BY <2>1 DEF RowsInv
  <2>. QED
    BY <2>1, <2>2, OneWinds
<1>. QED
  BY <1>1, <1>2, <1>3, PollRows, AnswerRows, TurnRows, RecordRows, SyncRows DEF PollSteps

(* Nothing of the polls changes.                                           *)
LEMMA SameRows ==
  ASSUME RowsInv, UNCHANGED <<poll, lane>>,
         target' \in Targets, hub' \in Health, spent' \in Nat,
         replay'.phase \in ReplayPhases, replay'.item \in Items \union {None},
         replay'.phase = "idle" <=> replay.phase = "idle"
  PROVE  RowsInv'
BY DEF RowsInv, Awaited

(* The replay takes a step and goes on.                                    *)
LEMMA ReplayGoesOn ==
  ASSUME IInv, RowsInv, UNCHANGED <<poll, lane, target, hub, spent>>,
         replay.phase # "idle", replay'.phase \in ReplayPhases \ {"idle"},
         replay'.item \in Items \union {None}
  PROVE  RowsInv'
BY SameRows DEF RowsInv, Awaited

LEMMA ReplayEnds ==
  ASSUME IInv, RowsInv, replay.phase # "idle", replay' = Resting, NEW may, Wind(Syncing, FALSE, may),
         UNCHANGED <<target, hub>>, spent' \in Nat
  PROVE  RowsInv'
<1>1. /\ Syncing \in SUBSET Polls /\ \A r \in Syncing : poll[r].behind = None /\ First(poll, r)
      /\ \A r \in Polls \ Syncing : poll[r].phase # "syncing"
  BY DEF Syncing, RowsInv, Lanes, First, Inside, PollPhases
<1>2. /\ Lanes(poll, lane)'
      /\ \A r \in Syncing : poll'[r].phase \in {"idle", "waking"}
      /\ \A r \in Polls \ Syncing : poll'[r].phase = poll[r].phase
  BY <1>1, WindKeeps
<1>3. \A r \in Polls : poll'[r].phase # "syncing"
  BY <1>1, <1>2
<1>. QED
  BY <1>2, <1>3 DEF RowsInv, Awaited, Resting, ReplayPhases

LEMMA ItemRows ==
  ASSUME IInv, RowsInv, NEW i \in Items,
         Mark(i) \/ Refuse(i) \/ Resume(i) \/ Start(i) \/ Note(i) \/ Complete(i) \/ Fail(i)
  PROVE  RowsInv'
<1> DEFINE Goes == /\ UNCHANGED <<poll, lane, target, hub, spent>>
                   /\ replay.phase # "idle" /\ replay'.phase \in ReplayPhases \ {"idle"}
                   /\ replay'.item \in Items \union {None}
<1>1. replay = [phase |-> replay.phase, left |-> replay.left, item |-> replay.item] /\ replay.item \in Items \union {None}
  BY DEF IInv, Shape, RowsInv, Awaited
<1>2. Mark(i) => Goes
  BY <1>1 DEF Mark, ReplayPhases
<1>3. Refuse(i) \/ Resume(i) \/ Start(i) => Goes
  BY <1>1 DEF Refuse, Resume, Start, Replaying, ReplayPhases
<1>4. Note(i) \/ Complete(i) \/ Fail(i) => Goes
  BY <1>1 DEF Note, Complete, Fail, Replaying, ReplayPhases
<1>5. Goes
  BY <1>2, <1>3, <1>4
<1>. QED
  BY <1>5, ReplayGoesOn

LEMMA NobodyThere == Lanes([p \in Polls |-> Idle], [t \in Targets |-> None])
<1>1. Idle \in PollType
  BY DEF Idle, PollType, PollPhases, Health
<1>2. Idle.phase = "idle" /\ Idle.behind = None
  BY DEF Idle
<1>. QED
  BY <1>1, <1>2, NoneAssumption DEF Lanes, Inside, First

LEMMA RowsStep ==
  ASSUME IInv, RowsInv, [Next]_vars
  PROVE  RowsInv'
<1>1. /\ replay.phase \in ReplayPhases /\ replay.item \in Items \union {None}
      /\ target \in Targets /\ hub \in Health /\ spent \in Nat
      /\ replay = [phase |-> replay.phase, left |-> replay.left, item |-> replay.item]
  BY DEF IInv, Shape, RowsInv, Awaited
<1>2. CASE UNCHANGED vars
  BY <1>1, <1>2, SameRows DEF vars
<1>3. ASSUME NEW i \in Items, Decide(i) \/ Enqueue(i)
      PROVE  RowsInv'
  BY <1>1, <1>3, SameRows DEF Decide, Enqueue
<1>4. ASSUME NEW p \in Polls, PollSteps(p) \/ RecordFails(p)
      PROVE  RowsInv'
  BY <1>4, PollStepRows
<1>5. CASE List
  <2>1. /\ UNCHANGED <<poll, lane, target, hub, spent>> /\ replay.phase = "listing"
        /\ replay'.phase = "next" /\ replay'.item = replay.item
    BY <1>1, <1>5 DEF List
  <2>. QED
    BY <1>1, <2>1, ReplayGoesOn DEF ReplayPhases
<1>6. CASE End
  <2>1. replay.phase = "next" /\ replay' = Resting /\ UNCHANGED <<target, hub, spent>>
    BY <1>6 DEF End
  <2>2. PICK may : Wind(Syncing, FALSE, may)
    BY <1>6, Zenon DEF End
  <2>. QED
    BY <1>1, <2>1, <2>2, ReplayEnds
<1>7. ASSUME NEW i \in Items,
             Mark(i) \/ Refuse(i) \/ Resume(i) \/ Start(i) \/ Note(i) \/ Complete(i) \/ Fail(i)
      PROVE  RowsInv'
  BY <1>7, ItemRows
<1>8. CASE Break
  <2>1. /\ UNCHANGED <<poll, lane, target, hub>> /\ spent' = spent + 1
        /\ replay.phase # "idle" /\ replay' = [replay EXCEPT !.phase = "failing"]
    BY <1>8 DEF Break, Event
  <2>2. replay'.phase = "failing" /\ replay'.item = replay.item /\ spent' \in Nat
    BY <1>1, <2>1
  <2>. QED
    BY <1>1, <2>1, <2>2, SameRows DEF ReplayPhases
<1>9. CASE Abandon
  <2>1. /\ replay.phase # "idle" /\ replay' = Resting /\ Wind(Syncing, FALSE, FALSE)
        /\ UNCHANGED <<target, hub>> /\ spent' = spent + 1
    BY <1>9 DEF Abandon, Event, Finished
  <2>2. spent' \in Nat
    BY <1>1, <2>1
  <2>. QED
    BY <2>1, <2>2, ReplayEnds
<1>10. CASE SwitchManual \/ SwitchTarget \/ HubChanges
  <2>1. /\ UNCHANGED <<poll, lane, replay>> /\ spent' = spent + 1
        /\ target' \in Targets /\ hub' \in Health
    BY <1>1, <1>10 DEF SwitchManual, SwitchTarget, HubChanges, Event
  <2>2. spent' \in Nat
    BY <1>1, <2>1
  <2>. QED
    BY <1>1, <2>1, <2>2, SameRows
<1>11. CASE Crash
  <2>1. /\ poll' = [p \in Polls |-> Idle] /\ lane' = [t \in Targets |-> None]
        /\ replay' = Resting /\ UNCHANGED <<target, hub>> /\ spent' = spent + 1
    BY <1>11 DEF Crash, Event
  <2>2. Lanes([p \in Polls |-> Idle], [t \in Targets |-> None])
    BY NobodyThere
  <2>3. Lanes(poll', lane') /\ spent' \in Nat
    BY <1>1, <2>1, <2>2
  <2>4. ~ \E p \in Polls : poll'[p].phase = "syncing"
    BY <2>1 DEF Idle
  <2>. QED
    BY <1>1, <2>1, <2>3, <2>4 DEF RowsInv, Awaited, Resting, ReplayPhases
<1>. QED
  BY <1>2, <1>3, <1>4, <1>5, <1>6, <1>7, <1>8, <1>9, <1>10, <1>11 DEF Next, ReplaySteps

LEMMA InitialRows ==
  ASSUME Init
  PROVE  RowsInv
<1>1. /\ poll = [p \in Polls |-> Idle] /\ lane = [t \in Targets |-> None]
      /\ replay = Resting /\ hub \in Health /\ spent = 0
      /\ target = CHOOSE t \in Targets : TRUE
  BY DEF Init
<1>2. target \in Targets
  BY <1>1, TargetsAssumption
<1>3. Lanes(poll, lane)
  BY <1>1, NobodyThere
<1>4. ~ \E p \in Polls : poll[p].phase = "syncing"
  BY <1>1 DEF Idle
<1>. QED
  BY <1>1, <1>2, <1>3, <1>4 DEF RowsInv, Awaited, Resting, ReplayPhases

(* What a queueing in progress and the counts have for values.             *)
DecidingInv == deciding \subseteq Items

LEMMA DecidingStep ==
  ASSUME DecidingInv, [Next]_vars
  PROVE  DecidingInv'
<1> USE DEF DecidingInv
<1>1. CASE UNCHANGED vars
  BY <1>1 DEF vars
<1>2. ASSUME NEW i \in Items, Decide(i) \/ Enqueue(i)
      PROVE  DecidingInv'
  BY <1>2 DEF Decide, Enqueue
<1>3. ASSUME NEW p \in Polls, PollSteps(p) \/ RecordFails(p)
      PROVE  DecidingInv'
  BY <1>3 DEF PollSteps, Poll, Answer, Share, Turn, Record, Sync, Wake, RecordFails
<1>4. CASE ReplaySteps
  BY <1>4 DEF ReplaySteps, List, End, Mark, Refuse, Resume, Start, Note, Complete, Fail
<1>5. CASE Break \/ Abandon \/ SwitchManual \/ SwitchTarget \/ HubChanges \/ Crash
  BY <1>5 DEF Break, Abandon, SwitchManual, SwitchTarget, HubChanges, Crash
<1>. QED
  BY <1>1, <1>2, <1>3, <1>4, <1>5 DEF Next

THEOREM RowsInvariance == Spec => [](IInv /\ RowsInv /\ DecidingInv)
<1>1. Init => IInv /\ RowsInv /\ DecidingInv
  BY Initial, InitialRows DEF Init, DecidingInv
<1>2. IInv /\ RowsInv /\ DecidingInv /\ [Next]_vars => (IInv /\ RowsInv /\ DecidingInv)'
  BY Inductive, RowsStep, DecidingStep
<1>. QED
  BY <1>1, <1>2, PTL DEF Spec

THEOREM TypesHold == Spec => []TypeOK
<1>1. IInv /\ RowsInv /\ DecidingInv => TypeOK
  BY DEF IInv, Shape, RowsInv, Lanes, PollType, Awaited, DecidingInv, TypeOK
<1>. QED
  BY <1>1, RowsInvariance, PTL

THEOREM OneReconcileHolds == Spec => []OneReconcile
<1>1. ASSUME RowsInv PROVE OneReconcile
  <2>1. ASSUME NEW p \in Polls, poll[p].phase \in {"ready", "recorded", "syncing", "waking"}
        PROVE  First(poll, p)
    BY <1>1, <2>1 DEF RowsInv, Lanes, First, Inside, PollPhases
  <2>2. ASSUME NEW p \in Polls, NEW q \in Polls, First(poll, p), First(poll, q),
               poll[p].target = poll[q].target
        PROVE  p = q
    BY <1>1, <2>2 DEF RowsInv, Lanes
  <2>. QED
    BY <2>1, <2>2 DEF OneReconcile
<1>. QED
  BY <1>1, RowsInvariance, PTL

THEOREM NobodyStuckHolds == Spec => []NobodyStuck
<1>1. ASSUME RowsInv PROVE NobodyStuck
  <2>1. \A ring \in (SUBSET Polls) \ {{}} : \E p \in ring : poll[p].behind \notin ring
    BY <1>1 DEF RowsInv, Lanes
  <2>2. Syncing # {} <=> replay.phase # "idle"
    BY <1>1 DEF RowsInv, Awaited, Syncing
  <2>. QED
    BY <2>1, <2>2 DEF NobodyStuck
<1>. QED
  BY <1>1, RowsInvariance, PTL
=============================================================================
