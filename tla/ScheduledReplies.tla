----------------------------- MODULE ScheduledReplies -----------------------------
(***************************************************************************)
(* Replies that go out at a set time: scheduled-chat-store.ts,             *)
(* scheduled-chat-dispatch.ts, and the worker of scheduled-chat-scheduler, *)
(* whose passes are the tick of the store.  Processes share one file.      *)
(*                                                                         *)
(* change() reads, edits and atomically replaces the file inside the lock  *)
(* `${file}.locks`, which CrashSafeMutex describes: it is one action here, *)
(* or fails with nothing written.  The lock of a chat is held across       *)
(* several awaits and is the variable lane.                                *)
(***************************************************************************)
EXTENDS SchedulerOwner, FiniteSets

CONSTANTS
    Chat,
    Reply,          \* ids; an id stands for one request, retried as it is
    chatOf,         \* message.sessionId
    sendAt,
    MaxScheduled,   \* 100 in the code
    None,
    MaxTime,        \* bound on the clock
    MaxFaults       \* bound on crashes, failed writes and busy chats together

ASSUME RepliesAssumption ==
    /\ chatOf \in [Reply -> Chat]
    /\ sendAt \in [Reply -> Nat]
    /\ MaxTime \in Nat /\ MaxScheduled \in Nat
    /\ None \notin Reply \cup Nat

VARIABLES
    clock,
    item,           \* the file: the status of each reply, and whether it was saved late
    work,           \* what the pass of a process does for a chat
    listed,         \* whether the pass in flight has read the file, and the time it uses
    lane,           \* the process that holds the dispatch lock of a chat
    sent,           \* history: how many turns a reply has started
    faults          \* how much of MaxFaults is used up

storeVars == <<clock, item, work, listed, lane, sent, faults>>
vars == <<owner, intervals, passes, chained, clock, item, work, listed, lane, sent, faults>>

Outcome == {"sent", "failed", "uncertain", "scheduled"}
Status == Outcome \cup {"absent", "sending", "cancelled"}
Time == 0 .. MaxTime
Step == {"queued", "claim", "dispatch", "stream", "settle"}

NoWork == [at |-> "idle", reply |-> None, result |-> "sent"]
Work == {NoWork} \cup [at : Step, reply : Reply, result : Outcome]

StoreTypeOK ==
    /\ clock \in Time
    /\ item \in [Reply -> [status : Status, late : BOOLEAN]]
    /\ work \in [Proc -> [Chat -> Work]]
    /\ listed \in [Proc -> Time \cup {None}]
    /\ lane \in [Chat -> SUBSET Proc]
    /\ sent \in [Reply -> Nat]
    /\ faults \in Nat

TypeOK == OwnerTypeOK /\ StoreTypeOK

Init ==
    /\ OwnerInit
    /\ clock = 0
    /\ item = [r \in Reply |-> [status |-> "absent", late |-> FALSE]]
    /\ work = [p \in Proc |-> [c \in Chat |-> NoWork]]
    /\ listed = [p \in Proc |-> None]
    /\ lane = [c \in Chat |-> {}]
    /\ sent = [r \in Reply |-> 0]
    /\ faults = 0
-----------------------------------------------------------------------------
Scheduled(r) == item[r].status = "scheduled"

Due(r, t) == Scheduled(r) /\ sendAt[r] <= t

(* No reply of the chat is scheduled for an earlier time.  Among equal times   *)
(* the code takes the one stored first; here either may go.                    *)
Oldest(r) ==
    \A s \in Reply : Scheduled(s) /\ chatOf[s] = chatOf[r] => sendAt[r] <= sendAt[s]

SetStatus(r, s) == item' = [item EXCEPT ![r].status = s]

(* The id is new, its time has not passed at t, and there is room. *)
Stores(r, t) ==
    /\ item[r].status = "absent"
    /\ sendAt[r] > t
    /\ Cardinality({s \in Reply : Scheduled(s)}) < MaxScheduled

(* add: t is when it was called, now is when the file is its to change.  An id *)
(* that is known is answered as it is stored: a retry changes nothing.         *)
Add(r) ==
    /\ \E t \in 0 .. clock :
          item' = IF Stores(r, t)
            THEN [item EXCEPT ![r] = [status |-> "scheduled", late |-> sendAt[r] <= clock]]
            ELSE item
    /\ UNCHANGED <<clock, work, listed, lane, sent, faults, ownerVars>>

(* Once a delivery has begun the answer is 409 and nothing changes. *)
Cancel(r) ==
    /\ item[r].status \in {"scheduled", "cancelled"}
    /\ SetStatus(r, "cancelled")
    /\ UNCHANGED <<clock, work, listed, lane, sent, faults, ownerVars>>
-----------------------------------------------------------------------------
(* The pass reads the file, without the lock, at a time it uses throughout:    *)
(* the oldest due reply of every chat becomes a candidate.                     *)
List(p) ==
    /\ passes[p] > 0
    /\ listed[p] = None
    /\ listed' = [listed EXCEPT ![p] = clock]
    /\ \E pick \in [Chat -> Reply \cup {None}] :
          /\ \A c \in Chat :
                LET due == {r \in Reply : chatOf[r] = c /\ Due(r, clock)}
                IN  IF due = {} THEN pick[c] = None ELSE pick[c] \in due /\ Oldest(pick[c])
          /\ work' = [work EXCEPT ![p] = [c \in Chat |->
                IF pick[c] = None THEN NoWork
                ELSE [at |-> "queued", reply |-> pick[c], result |-> "sent"]]]
    /\ UNCHANGED <<clock, item, lane, sent, faults, ownerVars>>

To(p, c, at) == work' = [work EXCEPT ![p][c].at = at]

Ended(p, c, s) == work' = [work EXCEPT ![p][c] = [@ EXCEPT !.at = "settle", !.result = s]]

LeaveLane(p, c) ==
    /\ work' = [work EXCEPT ![p][c] = NoWork]
    /\ lane' = [lane EXCEPT ![c] = @ \ {p}]

TakeLane_Shared(p, c) ==
    /\ work[p][c].at = "queued"
    /\ lane' = [lane EXCEPT ![c] = @ \cup {p}]
    /\ To(p, c, "claim")
    /\ UNCHANGED <<clock, item, listed, sent, faults, ownerVars>>

TakeLane(p, c) ==
    /\ work[p][c].at = "queued"
    /\ lane[c] = {}
    /\ lane' = [lane EXCEPT ![c] = {p}]
    /\ To(p, c, "claim")
    /\ UNCHANGED <<clock, item, listed, sent, faults, ownerVars>>

(* After two seconds behind another delivery the reply stays scheduled. *)
LaneTimeout(p, c) ==
    /\ work[p][c].at = "queued"
    /\ lane[c] # {}
    /\ work' = [work EXCEPT ![p][c] = NoWork]
    /\ UNCHANGED <<clock, item, listed, lane, sent, faults, ownerVars>>

Claims_Unordered(p, r) == Due(r, listed[p])

Claims_Unchecked(p, r) == Oldest(r)

(* What the candidate must still be, in the file as it is now. *)
Claims(p, r) == Due(r, listed[p]) /\ Oldest(r)

Claim(p, c) ==
    /\ work[p][c].at = "claim"
    /\ LET r == work[p][c].reply
       IN  \/ /\ Claims(p, r)
              /\ SetStatus(r, "sending")
              /\ To(p, c, "dispatch")
              /\ UNCHANGED lane
           \/ /\ ~Claims(p, r)
              /\ LeaveLane(p, c)
              /\ UNCHANGED item
    /\ UNCHANGED <<clock, listed, sent, faults, ownerVars>>

(* dispatch: the chat is gone or the send refused, with sent as it was, or it  *)
(* becomes a turn.                                                             *)
Dispatch(p, c) ==
    /\ work[p][c].at = "dispatch"
    /\ \/ /\ Ended(p, c, "failed")
          /\ UNCHANGED sent
       \/ /\ To(p, c, "stream")
          /\ sent' = [sent EXCEPT ![work[p][c].reply] = @ + 1]
    /\ UNCHANGED <<clock, item, listed, lane, faults, ownerVars>>

(* 409 chat_run_active: the process runs another turn of the chat (ChatRuns).  *)
Busy(p, c) ==
    /\ faults < MaxFaults
    /\ faults' = faults + 1
    /\ work[p][c].at = "dispatch"
    /\ Ended(p, c, "scheduled")
    /\ UNCHANGED <<clock, item, listed, lane, sent, ownerVars>>

(* The answer does not say: a status of 500, an exception, no event stream.    *)
Unclear(p, c) ==
    /\ work[p][c].at = "dispatch"
    /\ Ended(p, c, "uncertain")
    /\ \/ UNCHANGED sent
       \/ sent' = [sent EXCEPT ![work[p][c].reply] = @ + 1]
    /\ UNCHANGED <<clock, item, listed, lane, faults, ownerVars>>

(* The turn is over: done, done with an error, or cut off before done. *)
StreamEnds(p, c) ==
    /\ work[p][c].at = "stream"
    /\ \E s \in {"sent", "failed", "uncertain"} : Ended(p, c, s)
    /\ UNCHANGED <<clock, item, listed, lane, sent, faults, ownerVars>>

(* The second change() of the delivery; then its lock is released. *)
Settle(p, c) ==
    /\ work[p][c].at = "settle"
    /\ SetStatus(work[p][c].reply, work[p][c].result)
    /\ LeaveLane(p, c)
    /\ UNCHANGED <<clock, listed, sent, faults, ownerVars>>

(* change() throws: its lock timed out or the file could not be written. *)
ChangeFails(p, c) ==
    /\ faults < MaxFaults
    /\ faults' = faults + 1
    /\ work[p][c].at \in {"claim", "settle"}
    /\ LeaveLane(p, c)
    /\ UNCHANGED <<clock, item, listed, sent, ownerVars>>

(* Every delivery of the pass has settled. *)
PassEnds(p) ==
    /\ listed[p] # None
    /\ \A c \in Chat : work[p][c] = NoWork
    /\ listed' = [listed EXCEPT ![p] = None]
    /\ Drain(p)
    /\ UNCHANGED <<clock, item, work, lane, sent, faults>>

(* A crash, or the exit after a shutdown that did not drain in time.  The lock *)
(* files of a dead process are removed by the next that wants the lock.        *)
Crash(p) ==
    /\ faults < MaxFaults
    /\ faults' = faults + 1
    /\ Die(p)
    /\ work' = [work EXCEPT ![p] = [c \in Chat |-> NoWork]]
    /\ listed' = [listed EXCEPT ![p] = None]
    /\ lane' = [c \in Chat |-> lane[c] \ {p}]
    /\ UNCHANGED <<clock, item, sent>>

Elapse ==
    /\ clock < MaxTime
    /\ clock' = clock + 1
    /\ UNCHANGED <<item, work, listed, lane, sent, faults, ownerVars>>

Delivery(p, c) ==
    \/ TakeLane(p, c) \/ LaneTimeout(p, c) \/ Claim(p, c) \/ Dispatch(p, c) \/ Unclear(p, c)
    \/ Settle(p, c)

Worker(p) ==
    \/ (Start(p) \/ Stop(p) \/ Fire(p) \/ Resume(p)) /\ UNCHANGED storeVars
    \/ List(p) \/ PassEnds(p) \/ Crash(p)

Next ==
    \/ \E r \in Reply : Add(r) \/ Cancel(r)
    \/ \E p \in Proc : Worker(p)
    \/ \E p \in Proc, c \in Chat :
          Delivery(p, c) \/ StreamEnds(p, c) \/ Busy(p, c) \/ ChangeFails(p, c)
    \/ Elapse

Spec == Init /\ [][Next]_vars

(* Timers fire, callbacks run, reads, writes and answers come back. *)
Running ==
    /\ \A p \in Proc :
          /\ WF_vars(Fire(p) /\ UNCHANGED storeVars)
          /\ WF_vars(Resume(p) /\ UNCHANGED storeVars)
          /\ WF_vars(List(p) \/ PassEnds(p))
    /\ \A p \in Proc, c \in Chat : WF_vars(Delivery(p, c))

(* Besides, turns come to an end. *)
TurnsEnd == \A p \in Proc, c \in Chat : WF_vars(StreamEnds(p, c))

FairSpec == Spec /\ Running /\ TurnsEnd
-----------------------------------------------------------------------------
(* Whatever crashes, fails or is retried, and however many processes tick, a   *)
(* reply starts at most one turn; it has started none while it is scheduled or *)
(* cancelled, and it is called sent only if it has (store 38-43, 99-120).      *)
StatusTellsTruth ==
    \A r \in Reply :
        /\ sent[r] <= 1
        /\ item[r].status \in {"absent", "scheduled", "cancelled"} => sent[r] = 0
        /\ item[r].status = "sent" => sent[r] = 1

(* Two processes never deliver to one chat at the same time (store 98-101). *)
OneDeliveryPerChat ==
    \A c \in Chat : Cardinality({p \in Proc : work[p][c].at \in {"dispatch", "stream", "settle"}}) <= 1

(* A reply that was saved before its time came is never overtaken by a later   *)
(* reply of its chat (store 86-87, 105-107).                                   *)
NeverOvertaken ==
    [][\A r, s \in Reply :
          /\ sent'[s] > sent[s]
          /\ chatOf[r] = chatOf[s]
          /\ Scheduled(r)
          /\ ~item[r].late
          => sendAt[s] <= sendAt[r]]_vars

(* A due reply does not stay scheduled for ever while a worker is wanted. *)
DueIsTakenUp ==
    \A r \in Reply :
        Due(r, clock) ~> (~Scheduled(r) \/ \A p \in Proc : ~owner[p].wanted)
=============================================================================
