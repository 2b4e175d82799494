------------------------------ MODULE CrashSafeMutex ------------------------------
(***************************************************************************)
(* What withPublicationsLock, the scheduled-chat store and the other       *)
(* callers of process-intent-lock.ts rely on: a lock that one client at a  *)
(* time holds, that a client holds at most once per request, and that is   *)
(* free again once its holder releases it, dies or gives up.               *)
(***************************************************************************)
CONSTANT Client       \* the requests for the lock

VARIABLES
    holder,           \* the client inside its critical section, if any
    spent             \* clients that left, gave up or died

mutexVars == <<holder, spent>>

Init ==
    /\ holder = {}
    /\ spent \in SUBSET Client

(* A client enters a free lock. *)
Enter(c) ==
    /\ holder = {}
    /\ c \notin spent
    /\ holder' = {c}
    /\ UNCHANGED spent

(* Clients go, the holder possibly among them: a crash takes several at once. *)
Leave(C) ==
    /\ spent' = spent \cup C
    /\ holder' = holder \ C

Next ==
    \/ \E c \in Client : Enter(c)
    \/ \E C \in SUBSET Client : Leave(C)

Spec == Init /\ [][Next]_mutexVars
=============================================================================
