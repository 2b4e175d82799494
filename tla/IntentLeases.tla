------------------------------ MODULE IntentLeases ------------------------------
(***************************************************************************)
(* withProcessIntentLock of src/lib/server/process-intent-lock.ts: calls   *)
(* for one directory that run an operation under its lock, which           *)
(* CrashSafeMutex describes.                                               *)
(*                                                                         *)
(* The call that takes the lock makes a lease, and its operation and all   *)
(* the asynchronous work that springs from it carry the lease along.  A    *)
(* call made by such work reuses the lease while it is active.  Work may   *)
(* outlive the operation that began it: the lease stays active, and the    *)
(* lock taken, until no operation is pending under it.  Whether an         *)
(* operation returns or throws makes no difference to any of this.         *)
(***************************************************************************)
CONSTANTS
    Call,         \* the calls of withProcessIntentLock
    Process,
    procOf,       \* the process that makes each call
    None

ASSUME CallAssumption == procOf \in [Call -> Process] /\ None \notin Call

VARIABLES
    alive,        \* processes that did not crash
    stage,        \* where each call is
    lease,        \* the lease a call's operation carries, named by its maker
    active,       \* leases whose field active is true
    pending,      \* what each lease still waits for
    snapshot,     \* the pending operations its loop awaits at present
    awaiter,      \* the operation that awaits a call, if one does
    holder,       \* the lock, as its callers see it
    spent

leaseVars == <<lease, active, pending, snapshot, awaiter>>
callVars == <<alive, stage, leaseVars, holder, spent>>

Lock == INSTANCE CrashSafeMutex WITH Client <- Call

Stages == {"idle", "queued", "running", "draining", "releasing", "settled"}

CallTypeOK ==
    /\ alive \subseteq Process
    /\ stage \in [Call -> Stages]
    /\ lease \in [Call -> Call \cup {None}]
    /\ active \subseteq Call
    /\ pending \in [Call -> SUBSET Call]
    /\ snapshot \in [Call -> SUBSET Call]
    /\ awaiter \in [Call -> Call \cup {None}]
    /\ holder \subseteq Call
    /\ spent \subseteq Call

CallsInit ==
    /\ alive = Process
    /\ stage = [c \in Call |-> "idle"]
    /\ lease = [c \in Call |-> None]
    /\ active = {}
    /\ pending = [c \in Call |-> {}]
    /\ snapshot = [c \in Call |-> {}]
    /\ awaiter = [c \in Call |-> None]
    /\ holder = {}
    /\ spent = {}

-----------------------------------------------------------------------------

Alive(c) == procOf[c] \in alive
At(c, l) == Alive(c) /\ stage[c] = l
MoveTo(c, l) == stage' = [stage EXCEPT ![c] = l]

(* d's operation started, so there is work that carries d's lease.  The     *)
(* work goes on after d is over, where nothing awaited it.                  *)
Began(d) == Alive(d) /\ lease[d] # None

(* The lease that c finds is one it may run under. *)
Reusable(d) == Began(d) /\ lease[d] \in active

(* What began as d's work makes the call c, and d awaits it or does not.  *)
MadeBy(c, d) ==
    /\ c # d
    /\ At(c, "idle")
    /\ procOf[c] = procOf[d]
    /\ \/ UNCHANGED awaiter
       \/ /\ stage[d] = "running"
          /\ awaiter' = [awaiter EXCEPT ![c] = d]

(* A nested call runs at once, and the lease waits for it. *)
Nest(c, d) ==
    /\ Reusable(d)
    /\ MadeBy(c, d)
    /\ MoveTo(c, "running")
    /\ lease' = [lease EXCEPT ![c] = lease[d]]
    /\ pending' = [pending EXCEPT ![lease[d]] = @ \cup {c}]
    /\ UNCHANGED <<alive, active, snapshot, holder, spent>>

(* A call that finds a lease that is over queues for the lock. *)
Requeue(c, d) ==
    /\ Began(d)
    /\ ~Reusable(d)
    /\ MadeBy(c, d)
    /\ MoveTo(c, "queued")
    /\ UNCHANGED <<alive, lease, active, pending, snapshot, holder, spent>>

(* A call from outside any lease queues for the lock. *)
Ask(c) ==
    /\ At(c, "idle")
    /\ MoveTo(c, "queued")
    /\ UNCHANGED <<alive, leaseVars, holder, spent>>

(* acquireProcessIntentLock returned: a lease of its own, and the operation. *)
Enter(c) ==
    /\ At(c, "queued")
    /\ Lock!Enter(c)
    /\ MoveTo(c, "running")
    /\ lease' = [lease EXCEPT ![c] = c]
    /\ active' = active \cup {c}
    /\ UNCHANGED <<alive, pending, snapshot, awaiter>>

(* acquireProcessIntentLock threw: the deadline passed, or an I/O error. *)
LoseLock(c) ==
    /\ At(c, "queued")
    /\ Lock!Leave({c})
    /\ MoveTo(c, "settled")
    /\ UNCHANGED <<alive, leaseVars>>

-----------------------------------------------------------------------------

(* The operations c awaits are over. *)
Unblocked(c) == \A b \in Call : awaiter[b] = c => stage[b] = "settled"

(* A nested operation returns or throws, and its observer notes it. *)
EndNested(c) ==
    /\ lease[c] # c
    /\ At(c, "running")
    /\ Unblocked(c)
    /\ MoveTo(c, "settled")
    /\ pending' = [pending EXCEPT ![lease[c]] = @ \ {c}]
    /\ UNCHANGED <<alive, lease, active, snapshot, awaiter, holder, spent>>

(* Mutant: the lease is over when the operation that made it is. *)
EndOuter_Inactive(c) ==
    /\ lease[c] = c
    /\ At(c, "running")
    /\ Unblocked(c)
    /\ MoveTo(c, "draining")
    /\ snapshot' = [snapshot EXCEPT ![c] = pending[c]]
    /\ active' = active \ {c}
    /\ UNCHANGED <<alive, lease, pending, awaiter, holder, spent>>

(* The operation that made the lease returns or throws: on to the finally. *)
EndOuter(c) ==
    /\ lease[c] = c
    /\ At(c, "running")
    /\ Unblocked(c)
    /\ MoveTo(c, "draining")
    /\ snapshot' = [snapshot EXCEPT ![c] = pending[c]]
    /\ UNCHANGED <<alive, lease, active, pending, awaiter, holder, spent>>

Drained(c) == \A b \in snapshot[c] : stage[b] = "settled"

(* Others came in while the loop waited: it goes round again. *)
DrainAgain(c) ==
    /\ At(c, "draining")
    /\ Drained(c)
    /\ pending[c] # {}
    /\ snapshot' = [snapshot EXCEPT ![c] = pending[c]]
    /\ UNCHANGED <<alive, stage, lease, active, pending, awaiter, holder, spent>>

(* Mutant: what is pending is awaited once. *)
Close_Once(c) ==
    /\ At(c, "draining")
    /\ Drained(c)
    /\ active' = active \ {c}
    /\ MoveTo(c, "releasing")
    /\ UNCHANGED <<alive, lease, pending, snapshot, awaiter, holder, spent>>

(* Nothing is pending: the lease is over before the lock is released. *)
Close(c) ==
    /\ At(c, "draining")
    /\ Drained(c)
    /\ pending[c] = {}
    /\ active' = active \ {c}
    /\ MoveTo(c, "releasing")
    /\ UNCHANGED <<alive, lease, pending, snapshot, awaiter, holder, spent>>

ReleaseLock(c) ==
    /\ At(c, "releasing")
    /\ Lock!Leave({c})
    /\ MoveTo(c, "settled")
    /\ UNCHANGED <<alive, leaseVars>>

(* The lock of a dead holder comes free again. *)
Die(p) ==
    /\ p \in alive
    /\ alive' = alive \ {p}
    /\ Lock!Leave({c \in Call : procOf[c] = p})
    /\ UNCHANGED <<stage, leaseVars>>

CallStep(c) ==
    \/ Enter(c)
    \/ EndNested(c)
    \/ EndOuter(c)
    \/ DrainAgain(c)
    \/ Close(c)
    \/ ReleaseLock(c)

CallsNext ==
    \/ \E c \in Call : Ask(c) \/ CallStep(c) \/ LoseLock(c)
    \/ \E c, d \in Call : Nest(c, d) \/ Requeue(c, d)
    \/ \E p \in Process : Die(p)

CallsSpec == CallsInit /\ [][CallsNext]_callVars

(* An operation that waits for nobody ends, a pending await is resumed, and *)
(* the lock, once free, goes to one who asks.  Calls are finitely many.     *)
FairCallsSpec == CallsSpec /\ \A c \in Call : WF_callVars(CallStep(c))

-----------------------------------------------------------------------------

InOperation(c) == At(c, "running")

(* Whatever outlives the operation that began it, at any depth, an          *)
(* operation runs only while its own lease has the lock: two that run       *)
(* together, in one process or two, carry one lease.                        *)
OperationsCovered == \A c \in Call : InOperation(c) => holder = {lease[c]}

(* No call stands in the queue behind a lock that cannot come free before   *)
(* the call is over: if a running operation awaits it, that operation's     *)
(* lease is not what has the lock.  Such calls would all end in a timeout.  *)
NobodyQueuesBehindItself ==
    \A c, d \in Call :
        At(c, "queued") /\ awaiter[c] = d /\ InOperation(d) => lease[d] \notin holder

(* Detached, failed or endlessly nested work leaves no lease behind: every  *)
(* call is over in the end, with no timeout to thank for it, and so the     *)
(* lock comes free.                                                         *)
CallsEnd == \A c \in Call : stage[c] # "idle" ~> stage[c] = "settled" \/ ~Alive(c)
=============================================================================
