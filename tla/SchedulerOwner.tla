------------------------------ MODULE SchedulerOwner ------------------------------
(***************************************************************************)
(* The owner of a background worker: one timer, one pass in flight, a stop *)
(* that admits nothing more, a restart that waits for the pass of the      *)
(* stopped worker to drain.  scheduled-chat-scheduler.ts and               *)
(* inbox-scheduler.ts both hold one such owner per process.  What a pass   *)
(* does is left to the module that extends this one.                       *)
(***************************************************************************)
EXTENDS Naturals

CONSTANTS
    Proc,           \* the server processes
    MaxRevision     \* bound on the starts and stops of each process

ASSUME RevisionAssumption == \A p \in Proc : MaxRevision[p] \in Nat

VARIABLES
    owner,          \* globalThis.__caveScheduledChatScheduler of each process
    intervals,      \* how many setInterval timers run
    passes,         \* how many passes are admitted and not yet drained
    chained         \* activate callbacks that wait on a pending pass

ownerVars == <<owner, intervals, passes, chained>>

Owner == [wanted : BOOLEAN, revision : Nat, timer : BOOLEAN, pending : BOOLEAN]

Idle == [wanted |-> FALSE, revision |-> 0, timer |-> FALSE, pending |-> FALSE]

OwnerTypeOK ==
    /\ owner \in [Proc -> Owner]
    /\ intervals \in [Proc -> Nat]
    /\ passes \in [Proc -> Nat]
    /\ chained \in [Proc -> SUBSET [revision : Nat, settled : BOOLEAN]]

OwnerInit ==
    /\ owner = [p \in Proc |-> Idle]
    /\ intervals = [p \in Proc |-> 0]
    /\ passes = [p \in Proc |-> 0]
    /\ chained = [p \in Proc |-> {}]
-----------------------------------------------------------------------------
(* A tick admits a pass of a wanted owner that has none in flight. *)
Admits(o) == o.wanted /\ ~o.pending

(* tick(owner), where o is the owner as the caller left it. *)
Tick(p, o) ==
    /\ owner' = [owner EXCEPT ![p] = [o EXCEPT !.pending = @ \/ Admits(o)]]
    /\ passes' = [passes EXCEPT ![p] = IF Admits(o) THEN @ + 1 ELSE @]

(* activate, once it has found its revision current. *)
Arm(p, o) ==
    /\ intervals' = [intervals EXCEPT ![p] = @ + 1]
    /\ Tick(p, [o EXCEPT !.timer = TRUE])

Start_Eager(p) ==
    /\ ~owner[p].wanted
    /\ owner[p].revision < MaxRevision[p]
    /\ LET o == [owner[p] EXCEPT !.wanted = TRUE, !.revision = @ + 1]
       IN  /\ Arm(p, o)
           /\ chained' = IF o.pending
                THEN [chained EXCEPT ![p] = @ \cup {[revision |-> o.revision, settled |-> FALSE]}]
                ELSE chained

(* A wanted owner is left alone; a pending pass of the last one is waited for. *)
Start(p) ==
    /\ ~owner[p].wanted
    /\ owner[p].revision < MaxRevision[p]
    /\ LET o == [owner[p] EXCEPT !.wanted = TRUE, !.revision = @ + 1]
       IN  \/ /\ ~o.pending
              /\ Arm(p, o)
              /\ UNCHANGED chained
           \/ /\ o.pending
              /\ owner' = [owner EXCEPT ![p] = o]
              /\ chained' = [chained EXCEPT ![p] =
                    @ \cup {[revision |-> o.revision, settled |-> FALSE]}]
              /\ UNCHANGED <<intervals, passes>>

(* The restart that a callback belongs to is still the latest thing asked for. *)
Current(o, c) == o.wanted /\ o.revision = c.revision

(* The callback of a start that waited; a later stop or start has fenced it off. *)
Resume(p) ==
    \E c \in chained[p] :
        /\ c.settled
        /\ chained' = [chained EXCEPT ![p] = @ \ {c}]
        /\ IF Current(owner[p], c) THEN Arm(p, owner[p])
                                   ELSE UNCHANGED <<owner, intervals, passes>>

(* The timer, every 15 seconds. *)
Fire(p) ==
    /\ intervals[p] > 0
    /\ Tick(p, owner[p])
    /\ UNCHANGED <<intervals, chained>>

Stop(p) ==
    /\ owner[p].revision < MaxRevision[p]
    /\ owner' = [owner EXCEPT ![p] =
          [owner[p] EXCEPT !.wanted = FALSE, !.revision = @ + 1, !.timer = FALSE]]
    /\ intervals' = [intervals EXCEPT ![p] = IF owner[p].timer THEN @ - 1 ELSE @]
    /\ UNCHANGED <<passes, chained>>

Drain_StillPending(p) ==
    /\ passes[p] > 0
    /\ passes' = [passes EXCEPT ![p] = @ - 1]
    /\ chained' = [chained EXCEPT ![p] = {[c EXCEPT !.settled = TRUE] : c \in @}]
    /\ UNCHANGED <<owner, intervals>>

(* The pending promise settles; its callbacks run in later microtasks. *)
Drain(p) ==
    /\ passes[p] > 0
    /\ passes' = [passes EXCEPT ![p] = @ - 1]
    /\ owner' = [owner EXCEPT ![p].pending = FALSE]
    /\ chained' = [chained EXCEPT ![p] = {[c EXCEPT !.settled = TRUE] : c \in @}]
    /\ UNCHANGED intervals

(* The process dies; whatever is started in its place starts from nothing. *)
Die(p) ==
    /\ owner' = [owner EXCEPT ![p] = Idle]
    /\ intervals' = [intervals EXCEPT ![p] = 0]
    /\ passes' = [passes EXCEPT ![p] = 0]
    /\ chained' = [chained EXCEPT ![p] = {}]

OwnerNext(p) == Start(p) \/ Resume(p) \/ Fire(p) \/ Stop(p) \/ Drain(p) \/ Die(p)

OwnerSpec == OwnerInit /\ [][\E p \in Proc : OwnerNext(p)]_ownerVars
-----------------------------------------------------------------------------
(* Whatever starts, stops and restarts overlap a pass, a process never has    *)
(* two timers or two passes, and a stopped owner has no timer that would admit *)
(* one (scheduled-chat-scheduler.ts 38-87, inbox-scheduler.ts 138-193).       *)
OneOwner ==
    \A p \in Proc :
        /\ intervals[p] <= 1
        /\ passes[p] <= 1
        /\ ~owner[p].wanted => intervals[p] = 0
=============================================================================
