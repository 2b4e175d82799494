----------------------------- MODULE TravelReplay -----------------------------
(***************************************************************************)
(* Work queued while the hub is out of reach, and its replay once it       *)
(* answers again: the travel state of lib/cave-config.ts, the reconcile    *)
(* that every status poll runs (lib/server/daemon-travel-reconcile.ts) and *)
(* lib/travel-offline-replay.ts.                                           *)
(*                                                                         *)
(* The travel state is a file that outlives the server; each action writes *)
(* it once, under the lock of cave-state.json.  What a poll has read, and  *)
(* the replay in progress, are the server's memory.  The hub comes and     *)
(* goes, the target may be changed, an answer may be lost after the work   *)
(* was started, a write may fail, and the server may crash.                *)
(***************************************************************************)
EXTENDS Naturals, Sequences, FiniteSets

CONSTANTS
    Items,        \* the work that may be queued
    Chats,        \* the items of kind "chat", which remember their session
    Polls,        \* status polls that may be out at once
    Targets,      \* the hub targets the configuration may name
    None,
    MaxItems,     \* items one replay attempts
    MaxEvents     \* bound: faults, and changes of the hub, the mode and the target

ASSUME ItemsAssumption == Chats \subseteq Items
ASSUME MaxItemsAssumption == MaxItems \in Nat \ {0}
ASSUME TargetsAssumption == Targets # {}

VARIABLES
    travel,      \* the file: the travel state and its queue
    deciding,    \* items whose route has decided to queue them and has not yet
    poll,        \* the status polls
    lane,        \* the reconcile started last for each target
    replay,      \* the replay in progress, syncMutex
    target,      \* the target the configuration names
    hub,         \* what the hub answers to a health check
    effects,     \* history: how often the work of each item was started
    lost,        \* history: how often the server lost track of work it started
    spent        \* how many events there were

vars == <<travel, deciding, poll, lane, replay, target, hub, effects, lost, spent>>

Statuses == {"pending", "syncing", "failed", "synced"}
ASSUME NoneAssumption == None \notin Polls \union Targets \union Items \union Statuses

Health == {"healthy", "unhealthy", "silent"}

Idle == [phase |-> "idle", target |-> None, health |-> "silent",
         known |-> None, behind |-> None]

Resting == [phase |-> "idle", left |-> <<>>, item |-> None]

Travels == [manual : BOOLEAN, unreachable : BOOLEAN, stale : BOOLEAN, queue : Seq(Items),
            status : [Items -> Statuses \union {None}], session : [Items -> BOOLEAN],
            unfit : SUBSET Items]

PollPhases == {"idle", "asking", "waiting", "ready", "recorded", "syncing", "waking"}
ReplayPhases == {"idle", "listing", "next", "marked", "started", "recorded", "failing"}

Snapshots == [manual : BOOLEAN, unreachable : BOOLEAN, stale : BOOLEAN, pending : BOOLEAN]

\* What is left to attempt is part of the queue (List).
TypeOK ==
  /\ travel \in Travels
  /\ deciding \subseteq Items
  /\ poll \in [Polls -> [phase : PollPhases, target : Targets \union {None}, health : Health,
                        known : Snapshots \union {None}, behind : Polls \union {None}]]
  /\ lane \in [Targets -> Polls \union {None}]
  /\ replay.phase \in ReplayPhases /\ replay.item \in Items \union {None}
  /\ target \in Targets /\ hub \in Health
  /\ effects \in [Items -> Nat] /\ lost \in [Items -> Nat] /\ spent \in Nat

Init ==
  /\ \E unfit \in SUBSET Items :
       /\ Cardinality(unfit) < MaxItems
       /\ travel = [manual |-> FALSE, unreachable |-> FALSE, stale |-> FALSE,
                    queue |-> <<>>, status |-> [i \in Items |-> None],
                    session |-> [i \in Items |-> FALSE], unfit |-> unfit]
  /\ deciding = {}
  /\ poll = [p \in Polls |-> Idle]
  /\ lane = [t \in Targets |-> None]
  /\ replay = Resting
  /\ target = CHOOSE t \in Targets : TRUE
  /\ hub \in Health
  /\ effects = [i \in Items |-> 0] /\ lost = [i \in Items |-> 0]
  /\ spent = 0

-----------------------------------------------------------------------------
(* The travel state.                                                       *)

Unsynced(s, i) == s.status[i] \in Statuses \ {"synced"}

HasPending(s) == \E i \in Items : Unsynced(s, i)

\* What is shown is current again.
Clean(s) == ~s.manual /\ ~s.unreachable /\ ~HasPending(s)

\* Mutant: an outage is not looked at.
Completed_Offline(s, i) ==
  LET d == [s EXCEPT !.status[i] = "synced"]
  IN  [d EXCEPT !.stale = @ /\ (d.manual \/ HasPending(d))]

Completed(s, i) ==
  LET d == [s EXCEPT !.status[i] = "synced"]
  IN  [d EXCEPT !.stale = @ /\ ~Clean(d)]

Failed(s, i) == [s EXCEPT !.status[i] = "failed", !.stale = TRUE]

\* Mutant: what is shown stays old after an outage without queued work.
Reached_Stale(s) == [s EXCEPT !.unreachable = FALSE]

Reached(s) ==
  LET r == [s EXCEPT !.unreachable = FALSE]
  IN  [r EXCEPT !.stale = @ /\ ~Clean(r)]

Unreached(s) == [s EXCEPT !.unreachable = TRUE, !.stale = TRUE]

SetManual(s, enabled) ==
  IF enabled THEN [s EXCEPT !.manual = TRUE, !.stale = TRUE]
  ELSE LET m == [s EXCEPT !.manual = FALSE]
       IN  [m EXCEPT !.stale = @ /\ ~Clean(m)]

\* The local machine has authority: new work is queued.
TravelLocal(s) == s.manual \/ s.unreachable \/ HasPending(s)

Event == spent < MaxEvents /\ spent' = spent + 1

-----------------------------------------------------------------------------
(* Queueing.                                                               *)

Decide(i) ==
  /\ travel.status[i] = None /\ i \notin deciding
  /\ TravelLocal(travel)
  /\ deciding' = deciding \union {i}
  /\ UNCHANGED <<travel, poll, lane, replay, target, hub, effects, lost, spent>>

\* The state may have changed since the decision.
Enqueue(i) ==
  /\ i \in deciding
  /\ deciding' = deciding \ {i}
  /\ travel' = [travel EXCEPT !.queue = Append(@, i), !.status[i] = "pending",
                              !.stale = TRUE]
  /\ UNCHANGED <<poll, lane, replay, target, hub, effects, lost, spent>>

-----------------------------------------------------------------------------
(* A status poll: it reads the state, asks the hub, and reconciles.        *)

\* What a reconcile looks at of the state it was handed.
Snapshot(s) == [manual |-> s.manual, unreachable |-> s.unreachable,
                stale |-> s.stale, pending |-> HasPending(s)]

Poll(p) ==
  /\ poll[p].phase = "idle"
  /\ poll' = [poll EXCEPT ![p] = [Idle EXCEPT !.phase = "asking", !.target = target,
                                              !.known = Snapshot(travel)]]
  /\ UNCHANGED <<travel, deciding, lane, replay, target, hub, effects, lost, spent>>

\* It ends, or goes on to start the local daemon: always in manual mode, and in
\* an outage that has lasted and has not been answered that way before.
Wind(ps, must, may) ==
  \E waking \in {w \in SUBSET ps : (must => w = ps) /\ (w # {} => must \/ may)} :
    LET over == ps \ waking
    IN  /\ poll' = [p \in Polls |->
             IF p \in over THEN Idle
             ELSE [poll[p] EXCEPT !.phase = IF p \in waking THEN "waking" ELSE @,
                                  !.known = IF p \in waking THEN None ELSE @,
                                  !.behind = IF @ \in over THEN None ELSE @]]
        /\ lane' = [t \in Targets |-> IF lane[t] \in over THEN None ELSE lane[t]]

Finished(ps) == Wind(ps, FALSE, FALSE)

\* The answer starts a reconcile, or puts it behind the one of its target.
Answer(p) ==
  /\ poll[p].phase = "asking"
  /\ LET last == lane[poll[p].target]
     IN  poll' = [poll EXCEPT ![p] =
           IF last = None
             THEN [@ EXCEPT !.phase = "ready", !.health = hub]
             ELSE [@ EXCEPT !.phase = "waiting", !.health = hub, !.known = None, !.behind = last]]
  /\ lane' = [lane EXCEPT ![poll[p].target] = p]
  /\ UNCHANGED <<travel, deciding, replay, target, hub, effects, lost, spent>>

\* It shares the result of the one that was started last, if that had the same
\* input.  The model compares the hub's answer, and not the state.
Share(p) ==
  /\ poll[p].phase = "asking"
  /\ LET last == lane[poll[p].target]
     IN  /\ last # None
         /\ poll[last].health = hub
  /\ Finished({p})
  /\ UNCHANGED <<travel, deciding, replay, target, hub, effects, lost, spent>>

\* A reconcile that had to wait reads the state again.
Turn(p) ==
  /\ poll[p].phase = "waiting" /\ poll[p].behind = None
  /\ poll' = [poll EXCEPT ![p] = [@ EXCEPT !.phase = "ready", !.known = Snapshot(travel)]]
  /\ UNCHANGED <<travel, deciding, lane, replay, target, hub, effects, lost, spent>>

\* Whether there is more to write down than the time of the answer.
ShouldRecord(reachable, s) ==
  IF reachable THEN s.unreachable \/ s.stale \/ s.manual \/ s.pending
  ELSE ~s.unreachable

\* The state that the rest of a reconcile goes by is what it has written, if it
\* wrote.  Only a healthy hub and a user who is online make it replay.
Record(p) ==
  LET reachable == poll[p].health # "silent"
      writes == ShouldRecord(reachable, poll[p].known)
      recorded == IF reachable THEN Reached(travel) ELSE Unreached(travel)
      manual == IF writes THEN travel.manual ELSE poll[p].known.manual
  IN  /\ poll[p].phase = "ready"
      /\ travel' = IF writes THEN recorded ELSE travel
      /\ IF poll[p].health = "healthy" /\ ~manual
           THEN /\ poll' = [poll EXCEPT ![p] = [@ EXCEPT !.phase = "recorded", !.known = None]]
                /\ UNCHANGED lane
           ELSE Wind({p}, manual, poll[p].health = "silent")
      /\ UNCHANGED <<deciding, replay, target, hub, effects, lost, spent>>

\* The local daemon was started, and that is written down, or it was not.
Wake(p) ==
  /\ poll[p].phase = "waking"
  /\ \/ travel' = [travel EXCEPT !.stale = TRUE]
     \/ UNCHANGED travel
  /\ Finished({p})
  /\ UNCHANGED <<deciding, replay, target, hub, effects, lost, spent>>

\* The write fails, and the reconcile with it.
RecordFails(p) ==
  /\ poll[p].phase = "ready"
  /\ ShouldRecord(poll[p].health # "silent", poll[p].known)
  /\ Event /\ Finished({p})
  /\ UNCHANGED <<travel, deciding, replay, target, hub, effects, lost>>

\* It begins the replay, or joins the one that another target's began.
Sync(p) ==
  /\ poll[p].phase = "recorded"
  /\ poll' = [poll EXCEPT ![p].phase = "syncing"]
  /\ replay' = IF replay.phase = "idle" THEN [replay EXCEPT !.phase = "listing"] ELSE replay
  /\ UNCHANGED <<travel, deciding, lane, target, hub, effects, lost, spent>>

-----------------------------------------------------------------------------
(* The replay.                                                             *)

\* Mutant: an item that a crash left half replayed is not taken up again.
NeedsSync_NotHalfway(i) == Unsynced(travel, i) /\ travel.status[i] # "syncing"

NeedsSync(i) == Unsynced(travel, i)

List ==
  /\ replay.phase = "listing"
  /\ LET needy == SelectSeq(travel.queue, NeedsSync)
     IN  replay' = [replay EXCEPT !.phase = "next",
                      !.left = SubSeq(needy, 1, IF Len(needy) < MaxItems THEN Len(needy) ELSE MaxItems)]
  /\ UNCHANGED <<travel, deciding, poll, lane, target, hub, effects, lost, spent>>

Replaying(i, phase) == replay.item = i /\ replay.phase = phase

\* An item that is no longer there to replay is passed over.
Mark(i) ==
  /\ replay.phase = "next" /\ replay.left # <<>> /\ i = Head(replay.left)
  /\ IF Unsynced(travel, i)
       THEN /\ travel' = [travel EXCEPT !.status[i] = "syncing"]
            /\ replay' = [phase |-> "marked", left |-> Tail(replay.left), item |-> i]
       ELSE /\ replay' = [replay EXCEPT !.left = Tail(@)]
            /\ UNCHANGED travel
  /\ UNCHANGED <<deciding, poll, lane, target, hub, effects, lost, spent>>

\* Mutant: the session of an earlier attempt is not looked for.
MustStart_Again(i) == TRUE

\* A chat whose session is known is not started again.
MustStart(i) == ~travel.session[i]

Refuse(i) ==
  /\ Replaying(i, "marked")
  /\ i \in travel.unfit \/ (MustStart(i) /\ hub # "healthy")
  /\ replay' = [replay EXCEPT !.phase = "failing"]
  /\ UNCHANGED <<travel, deciding, poll, lane, target, hub, effects, lost, spent>>

Resume(i) ==
  /\ Replaying(i, "marked") /\ i \notin travel.unfit /\ ~MustStart(i)
  /\ replay' = [replay EXCEPT !.phase = "recorded"]
  /\ UNCHANGED <<travel, deciding, poll, lane, target, hub, effects, lost, spent>>

Start(i) ==
  /\ Replaying(i, "marked") /\ i \notin travel.unfit /\ MustStart(i) /\ hub = "healthy"
  /\ effects' = [effects EXCEPT ![i] = @ + 1]
  /\ replay' = [replay EXCEPT !.phase = "started"]
  /\ UNCHANGED <<travel, deciding, poll, lane, target, hub, lost, spent>>

\* The title of the session and the session itself, or the record of the run.
Note(i) ==
  /\ Replaying(i, "started")
  /\ travel' = [travel EXCEPT !.session[i] = i \in Chats]
  /\ replay' = [replay EXCEPT !.phase = "recorded"]
  /\ UNCHANGED <<deciding, poll, lane, target, hub, effects, lost, spent>>

\* What was started and cannot be known to have been.
Forgotten == replay.phase = "started" \/ (replay.phase = "recorded" /\ replay.item \notin Chats)

LostTrack == lost' = IF Forgotten THEN [lost EXCEPT ![replay.item] = @ + 1] ELSE lost

\* Its preparation fails, the answer is lost, or a write after it fails, that of
\* the conversation or of the completion included.
Break ==
  /\ replay.phase \in {"marked", "started", "recorded"}
  /\ Event /\ LostTrack
  /\ replay' = [replay EXCEPT !.phase = "failing"]
  /\ UNCHANGED <<travel, deciding, poll, lane, target, hub, effects>>

Complete(i) ==
  /\ Replaying(i, "recorded")
  /\ travel' = Completed(travel, i)
  /\ replay' = [replay EXCEPT !.phase = "next", !.item = None]
  /\ UNCHANGED <<deciding, poll, lane, target, hub, effects, lost, spent>>

Fail(i) ==
  /\ Replaying(i, "failing")
  /\ travel' = Failed(travel, i)
  /\ replay' = [replay EXCEPT !.phase = "next", !.item = None]
  /\ UNCHANGED <<deciding, poll, lane, target, hub, effects, lost, spent>>

Syncing == {p \in Polls : poll[p].phase = "syncing"}

\* The replay is over for all who wait for it; they look at the state again if it
\* attempted anything.
End ==
  /\ replay.phase = "next" /\ replay.left = <<>>
  /\ replay' = Resting
  /\ Wind(Syncing, FALSE, travel.manual)
  /\ UNCHANGED <<travel, deciding, target, hub, effects, lost, spent>>

\* The queue cannot be read, or what happens to an item written down: the replay
\* ends there.
Abandon ==
  /\ replay.phase \in {"listing", "next", "failing"}
  /\ Event
  /\ replay' = Resting /\ Finished(Syncing)
  /\ UNCHANGED <<travel, deciding, target, hub, effects, lost>>

-----------------------------------------------------------------------------
(* The user, the hub and the server.                                       *)

SwitchManual ==
  /\ Event
  /\ travel' = SetManual(travel, ~travel.manual)
  /\ UNCHANGED <<deciding, poll, lane, replay, target, hub, effects, lost>>

SwitchTarget ==
  /\ Event
  /\ target' \in Targets \ {target}
  /\ UNCHANGED <<travel, deciding, poll, lane, replay, hub, effects, lost>>

HubChanges ==
  /\ Event
  /\ hub' \in Health \ {hub}
  /\ UNCHANGED <<travel, deciding, poll, lane, replay, target, effects, lost>>

Crash ==
  /\ Event /\ LostTrack
  /\ deciding' = {} /\ poll' = [p \in Polls |-> Idle]
  /\ lane' = [t \in Targets |-> None] /\ replay' = Resting
  /\ UNCHANGED <<travel, target, hub, effects>>

PollSteps(p) ==
  Poll(p) \/ Answer(p) \/ Share(p) \/ Turn(p) \/ Record(p) \/ Sync(p) \/ Wake(p)

ReplaySteps ==
  \/ List \/ End
  \/ \E i \in Items :
       Mark(i) \/ Refuse(i) \/ Resume(i) \/ Start(i) \/ Note(i) \/ Complete(i) \/ Fail(i)

Next ==
  \/ \E i \in Items : Decide(i) \/ Enqueue(i)
  \/ \E p \in Polls : PollSteps(p)
  \/ \E p \in Polls : RecordFails(p)
  \/ ReplaySteps \/ Break \/ Abandon
  \/ SwitchManual \/ SwitchTarget \/ HubChanges \/ Crash

\* The views poll for ever, and what the server has begun goes on.
Spec ==
  /\ Init /\ [][Next]_vars
  /\ \A p \in Polls : WF_vars(PollSteps(p))
  /\ WF_vars(ReplaySteps)

-----------------------------------------------------------------------------
\* Work is started a second time only if the server lost track of the first:
\* never because two reconciles replayed at once, a later step of the replay
\* failed or the session was known from an earlier attempt.  And what reads
\* synced was started.
ReplayedOnce ==
  \A i \in Items :
    /\ effects[i] <= 1 + lost[i]
    /\ travel.status[i] = "synced" => effects[i] > 0

\* What is shown is never called current while work is queued, the hub is known
\* to be out of reach or travel mode is on, in whatever order completions,
\* reachability reports and switches are written.
StaleUntilHome == ~travel.stale => Clean(travel)

\* Reconciles of one target come one after the other, however many polls answer
\* while one of them asks the disk, replays or starts the local daemon.
OneReconcile ==
  \A p, q \in Polls :
    {poll[p].phase, poll[q].phase} \subseteq {"ready", "recorded", "syncing", "waking"}
      /\ poll[p].target = poll[q].target => p = q

\* Nobody waits for ever: no polls wait for one another in a ring, and who waits
\* for a replay has one that goes on.
NobodyStuck ==
  /\ \A ring \in (SUBSET Polls) \ {{}} : \E p \in ring : poll[p].behind \notin ring
  /\ Syncing # {} <=> replay.phase # "idle"

Home(s) == ~s.manual /\ hub = "healthy"

\* Queued work that can be replayed is, whatever failed or crashed on the way, as
\* long as the user is online and the hub healthy.
QueuedIsReplayed ==
  \A i \in Items :
    (i \notin travel.unfit /\ Unsynced(travel, i)) ~> (travel.status[i] = "synced" \/ ~Home(travel))

\* What is shown is called current again some time after the return home, unless
\* work is left that cannot be replayed.
StaleEnds ==
  travel.stale ~> (~travel.stale \/ ~Home(travel) \/ \E i \in travel.unfit : Unsynced(travel, i))
=============================================================================
