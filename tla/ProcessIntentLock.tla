---------------------------- MODULE ProcessIntentLock ----------------------------
(***************************************************************************)
(* The cross-process lock of src/lib/server/process-intent-lock.ts.        *)
(*                                                                         *)
(* Every call of acquireProcessIntentLock is an Attempt.  It lays a        *)
(* ".choosing" marker in a shared directory, reads the monotonic clock as  *)
(* its ticket, lays a ".lock" intent that carries the ticket, removes the  *)
(* marker and then polls the directory: it waits while another process is  *)
(* choosing, reclaims the files of dead processes, and enters when its own *)
(* intent sorts first.  Processes crash, their PIDs are recycled, any      *)
(* removal may fail at first (and is then retried in the background), and  *)
(* a waiting attempt may time out.                                         *)
(***************************************************************************)
EXTENDS Integers, FiniteSets

CONSTANTS
    Attempt,      \* the calls of acquireProcessIntentLock on one directory
    Proc,         \* process incarnations: one PID with one start identity
    Pid,          \* process identifiers, which the system recycles
    owner,        \* the incarnation that makes each attempt
    pidOf,        \* the PID of each incarnation
    rank,         \* the order of file names that carry the same ticket
    MaxFaults     \* bound: I/O errors of one behaviour

ASSUME OwnerAssumption == owner \in [Attempt -> Proc]
ASSUME PidAssumption == pidOf \in [Proc -> Pid]
ASSUME RankAssumption ==
    /\ rank \in [Attempt -> Nat]
    /\ \A a, b \in Attempt : rank[a] = rank[b] => a = b
ASSUME FaultAssumption == MaxFaults \in Nat

VARIABLES
    proc,         \* life of each incarnation: unborn, running or dead
    dir,          \* the files of the intents directory
    cleanup,      \* pendingIntentRemovals: the paths each process still retries
    clock,        \* process.hrtime, which all processes share
    ticket,       \* the order field of each attempt's intent
    pc,           \* where each attempt is in acquireProcessIntentLock
    seen,         \* the entries an attempt's last readdir returned
    faults        \* I/O errors so far

vars == <<proc, dir, cleanup, clock, ticket, pc, seen, faults>>

Marker(a) == [kind |-> "choosing", of |-> a]
Intent(a) == [kind |-> "lock", of |-> a]
File == [kind : {"choosing", "lock"}, of : Attempt]

PC == {"idle", "marked", "ticketed", "published", "abandon",
       "contend", "judge", "held", "done"}

TypeOK ==
    /\ proc \in [Proc -> {"unborn", "running", "dead"}]
    /\ dir \in SUBSET File
    /\ cleanup \in [Proc -> SUBSET File]
    /\ clock \in Nat
    /\ ticket \in [Attempt -> Nat]
    /\ pc \in [Attempt -> PC]
    /\ seen \in [Attempt -> SUBSET File]
    /\ faults \in 0..MaxFaults

Init ==
    /\ proc = [p \in Proc |-> "unborn"]
    /\ dir = {}
    /\ cleanup = [p \in Proc |-> {}]
    /\ clock = 0
    /\ ticket = [a \in Attempt |-> 0]
    /\ pc = [a \in Attempt |-> "idle"]
    /\ seen = [a \in Attempt |-> {}]
    /\ faults = 0

-----------------------------------------------------------------------------

Running(a) == proc[owner[a]] = "running"

(* The incarnations processStartIdentity can find behind a PID. *)
Holders(pid) == {p \in Proc : proc[p] = "running" /\ pidOf[p] = pid}

(* Mutant: death is inferred from age. *)
Reclaimable_Aged(b) == Holders(pidOf[owner[b]]) # {owner[b]} \/ ticket[b] + 1 < clock

(* Mutant: a live PID is trusted without its start identity. *)
Reclaimable_PidOnly(b) == Holders(pidOf[owner[b]]) = {}

(* A file may be taken away only when its PID is dead or belongs to another *)
(* incarnation than the one whose identity hash the file carries.           *)
Reclaimable(b) == Holders(pidOf[owner[b]]) # {owner[b]}

(* The order of file names: the ticket, then the rest of the name. *)
Before(a, b) ==
    \/ ticket[a] < ticket[b]
    \/ ticket[a] = ticket[b] /\ rank[a] < rank[b]

Goto(a, l) == pc' = [pc EXCEPT ![a] = l]

Fault == faults < MaxFaults /\ faults' = faults + 1

(* Mutant: a removal that fails is not tried again. *)
RemoveIntent_Once(p, f) ==
    /\ UNCHANGED cleanup
    /\ \/ dir' = dir \ {f} /\ UNCHANGED faults
       \/ UNCHANGED dir /\ Fault

(* removeIntent, called by process p: the first rm succeeds, or fails and   *)
(* leaves the path to the background loop, or is already being retried.     *)
RemoveIntent(p, f) ==
    \/ /\ f \notin cleanup[p]
       /\ dir' = dir \ {f}
       /\ UNCHANGED <<cleanup, faults>>
    \/ /\ f \notin cleanup[p]
       /\ Fault
       /\ cleanup' = [cleanup EXCEPT ![p] = @ \cup {f}]
       /\ UNCHANGED dir
    \/ /\ f \in cleanup[p]
       /\ UNCHANGED <<dir, cleanup, faults>>

-----------------------------------------------------------------------------
(* The choosing phase. *)

(* Mutant: no marker is laid. *)
Mark_Silent(a) ==
    /\ Running(a)
    /\ pc[a] = "idle"
    /\ Goto(a, "marked")
    /\ UNCHANGED <<proc, dir, cleanup, clock, ticket, seen, faults>>

(* The marker is created before the ticket is read. *)
Mark(a) ==
    /\ Running(a)
    /\ pc[a] = "idle"
    /\ dir' = dir \cup {Marker(a)}
    /\ Goto(a, "marked")
    /\ UNCHANGED <<proc, cleanup, clock, ticket, seen, faults>>

TakeTicket(a) ==
    /\ Running(a)
    /\ pc[a] = "marked"
    /\ ticket' = [ticket EXCEPT ![a] = clock]
    /\ Goto(a, "ticketed")
    /\ UNCHANGED <<proc, dir, cleanup, clock, seen, faults>>

(* The intent becomes visible.  Creating a file outlasts one clock tick, so  *)
(* whoever reads the clock after the intent exists reads a later ticket;     *)
(* two attempts that choose at the same time may read the same one.          *)
Publish(a) ==
    /\ Running(a)
    /\ pc[a] = "ticketed"
    /\ dir' = dir \cup {Intent(a)}
    /\ clock' = clock + 1
    /\ Goto(a, "published")
    /\ UNCHANGED <<proc, cleanup, ticket, seen, faults>>

(* Writing or closing the marker, or creating the intent, failed. *)
FailChoosing(a) ==
    /\ Running(a)
    /\ pc[a] \in {"marked", "ticketed"}
    /\ Fault
    /\ Goto(a, "abandon")
    /\ UNCHANGED <<proc, dir, cleanup, clock, ticket, seen>>

(* Writing or closing the published intent failed: the intent is removed. *)
Unpublish(a) ==
    /\ Running(a)
    /\ pc[a] = "published"
    /\ RemoveIntent(owner[a], Intent(a))
    /\ Goto(a, "abandon")
    /\ UNCHANGED <<proc, clock, ticket, seen>>

(* The finally block: the marker goes, whether or not an intent was laid. *)
ClearMarker(a) ==
    /\ Running(a)
    /\ pc[a] \in {"published", "abandon"}
    /\ RemoveIntent(owner[a], Marker(a))
    /\ Goto(a, IF pc[a] = "published" THEN "contend" ELSE "done")
    /\ UNCHANGED <<proc, clock, ticket, seen>>

-----------------------------------------------------------------------------
(* The polling loop.  An attempt works on the entries its readdir returned,  *)
(* which the directory no longer matches by the time it acts on them.        *)

(* Mutant: tickets are compared while others choose, as before issue #5443. *)
SeenMarkers_Ignored(a) == {}

SeenMarkers(a) == {b \in Attempt : Marker(b) \in seen[a]}
SeenIntents(a) == {b \in Attempt : Intent(b) \in seen[a]}

(* Mutant: names are sorted without their order field. *)
IsOldest_ByName(b, a) ==
    /\ b \in SeenIntents(a)
    /\ \A c \in SeenIntents(a) \ {b} : rank[b] < rank[c]

IsOldest(b, a) ==
    /\ b \in SeenIntents(a)
    /\ \A c \in SeenIntents(a) \ {b} : Before(b, c)

(* readdir; the attempt's own marker is stepped over. *)
Scan(a) ==
    /\ Running(a)
    /\ pc[a] = "contend"
    /\ seen' = [seen EXCEPT ![a] = dir \ {Marker(a)}]
    /\ Goto(a, "judge")
    /\ UNCHANGED <<proc, dir, cleanup, clock, ticket, faults>>

(* Back to the top of the loop, after waitBeforeRetry or at once. *)
Rescan(a) ==
    /\ Goto(a, "contend")
    /\ seen' = [seen EXCEPT ![a] = {}]

(* A live chooser: no ticket is compared, wait and scan again. *)
WaitForChooser(a) ==
    /\ Running(a)
    /\ pc[a] = "judge"
    /\ \E b \in SeenMarkers(a) : ~Reclaimable(b)
    /\ Rescan(a)
    /\ UNCHANGED <<proc, dir, cleanup, clock, ticket, faults>>

(* A dead chooser's marker is removed, and the next entry is looked at. *)
ReclaimMarker(a) ==
    /\ Running(a)
    /\ pc[a] = "judge"
    /\ \E b \in SeenMarkers(a) :
        /\ Reclaimable(b)
        /\ RemoveIntent(owner[a], Marker(b))
        /\ seen' = [seen EXCEPT ![a] = @ \ {Marker(b)}]
    /\ UNCHANGED <<proc, clock, ticket, pc>>

Acquire(a) ==
    /\ Running(a)
    /\ pc[a] = "judge"
    /\ SeenMarkers(a) = {}
    /\ IsOldest(a, a)
    /\ Goto(a, "held")
    /\ seen' = [seen EXCEPT ![a] = {}]
    /\ UNCHANGED <<proc, dir, cleanup, clock, ticket, faults>>

(* A dead owner's intent sorts first: remove it and scan again. *)
ReclaimIntent(a) ==
    /\ Running(a)
    /\ pc[a] = "judge"
    /\ SeenMarkers(a) = {}
    /\ \E b \in Attempt \ {a} :
        /\ IsOldest(b, a)
        /\ Reclaimable(b)
        /\ RemoveIntent(owner[a], Intent(b))
    /\ Rescan(a)
    /\ UNCHANGED <<proc, clock, ticket>>

(* A live owner's intent sorts first, however old it is: wait. *)
WaitForOwner(a) ==
    /\ Running(a)
    /\ pc[a] = "judge"
    /\ SeenMarkers(a) = {}
    /\ \E b \in Attempt \ {a} : IsOldest(b, a) /\ ~Reclaimable(b)
    /\ Rescan(a)
    /\ UNCHANGED <<proc, dir, cleanup, clock, ticket, faults>>

(* lstat, readdir or an identity check failed: wait and scan again. *)
FailScan(a) ==
    /\ Running(a)
    /\ pc[a] = "judge"
    /\ Fault
    /\ Rescan(a)
    /\ UNCHANGED <<proc, dir, cleanup, clock, ticket>>

(* The deadline passed, or the directory is no directory: withdraw. *)
GiveUp(a) ==
    /\ Running(a)
    /\ pc[a] \in {"contend", "judge"}
    /\ RemoveIntent(owner[a], Intent(a))
    /\ Goto(a, "done")
    /\ seen' = [seen EXCEPT ![a] = {}]
    /\ UNCHANGED <<proc, clock, ticket>>

Release(a) ==
    /\ Running(a)
    /\ pc[a] = "held"
    /\ RemoveIntent(owner[a], Intent(a))
    /\ Goto(a, "done")
    /\ UNCHANGED <<proc, clock, ticket, seen>>

-----------------------------------------------------------------------------
(* The process: background removals, crashes, recycled PIDs. *)

(* A retry of scheduleIntentRemoval succeeds. *)
Sweep(p) ==
    /\ proc[p] = "running"
    /\ \E f \in cleanup[p] :
        /\ dir' = dir \ {f}
        /\ cleanup' = [cleanup EXCEPT ![p] = @ \ {f}]
    /\ UNCHANGED <<proc, clock, ticket, pc, seen, faults>>

Spawn(p) ==
    /\ proc[p] = "unborn"
    /\ Holders(pidOf[p]) = {}
    /\ proc' = [proc EXCEPT ![p] = "running"]
    /\ UNCHANGED <<dir, cleanup, clock, ticket, pc, seen, faults>>

(* The files stay; what the process still meant to remove is forgotten. *)
Crash(p) ==
    /\ proc[p] = "running"
    /\ proc' = [proc EXCEPT ![p] = "dead"]
    /\ cleanup' = [cleanup EXCEPT ![p] = {}]
    /\ UNCHANGED <<dir, clock, ticket, pc, seen, faults>>

(* What an attempt does of its own accord. *)
Step(a) ==
    \/ TakeTicket(a)
    \/ Publish(a)
    \/ ClearMarker(a)
    \/ Scan(a)
    \/ WaitForChooser(a)
    \/ ReclaimMarker(a)
    \/ Acquire(a)
    \/ ReclaimIntent(a)
    \/ WaitForOwner(a)
    \/ Release(a)

Next ==
    \/ \E a \in Attempt :
        \/ Mark(a)
        \/ Step(a)
        \/ FailChoosing(a)
        \/ Unpublish(a)
        \/ FailScan(a)
        \/ GiveUp(a)
    \/ \E p \in Proc : Sweep(p) \/ Spawn(p) \/ Crash(p)

Spec == Init /\ [][Next]_vars

(* A running process keeps executing its pending awaits and its retries, and *)
(* a critical section ends.  Nothing is assumed of crashes, faults, timeouts *)
(* or of when a caller first asks for the lock.                              *)
FairSpec ==
    /\ Spec
    /\ \A a \in Attempt : WF_vars(Step(a))
    /\ \A p \in Proc : WF_vars(Sweep(p))

-----------------------------------------------------------------------------

Holding(a) == Running(a) /\ pc[a] = "held"
Waiting(a) == Running(a) /\ pc[a] \in {"contend", "judge"}

(* At most one running attempt is between Acquire and Release, whatever the *)
(* crashes, recycled PIDs, failed removals and delays between the ticket    *)
(* and the file that carries it (issue #5443).                              *)
MutualExclusion ==
    \A a, b \in Attempt : Holding(a) /\ Holding(b) => a = b

(* "Cross-process FIFO lock": a holder never overtook an attempt with an    *)
(* older ticket that is still waiting.                                      *)
FirstComeFirstServed ==
    \A a, b \in Attempt : Holding(a) /\ Waiting(b) => Before(a, b)

(* "A live owner is never reclaimed": the file that stands for a running    *)
(* attempt is on disk for as long as others must respect it.                *)
LiveFilesKept ==
    \A a \in Attempt : Running(a) =>
        /\ pc[a] \in {"marked", "ticketed"} => Marker(a) \in dir
        /\ pc[a] \in {"contend", "judge", "held"} => Intent(a) \in dir

(* The lock its callers see: who is inside, and whose attempt is over. *)
Mutex == INSTANCE CrashSafeMutex WITH
    Client <- Attempt,
    holder <- {a \in Attempt : Holding(a)},
    spent <- {a \in Attempt : pc[a] = "done" \/ proc[owner[a]] = "dead"}

(* The directory of markers and intents implements a mutex: nobody enters   *)
(* while another is inside, nobody enters twice or after it gave up, and a  *)
(* dead holder's critical section is over before the next one begins.       *)
ImplementsMutex == Mutex!Spec

(* No residue of a dead process, of a recycled PID, of a failed attempt or  *)
(* of a timed-out one blocks a waiting attempt for ever: unless it times    *)
(* out or its process dies, it enters.                                      *)
WaitersEnter ==
    \A a \in Attempt : Waiting(a) ~> (pc[a] \in {"held", "done"} \/ ~Running(a))

(* "Retain cleanup ownership until the unique path is gone": once an        *)
(* attempt is over, its process removes its files unless it dies first.     *)
FilesRemoved ==
    \A a \in Attempt :
        (pc[a] = "done" /\ Running(a))
            ~> ({Marker(a), Intent(a)} \cap dir = {} \/ ~Running(a))

=============================================================================
