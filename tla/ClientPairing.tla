------------------------------ MODULE ClientPairing ------------------------------
(***************************************************************************)
(* How a client gets its credential: a pairing request, the decision of    *)
(* the administrator, one exchange of the approval for a credential.       *)
(* pairing-store.ts is memory of the one server process, two bounded maps  *)
(* in insertion order; credential-store.ts is a file that every operation  *)
(* reads, changes in memory and replaces, one operation at a time; the     *)
(* exchange route ties them, and gives the approval back if issuing fails. *)
(*                                                                         *)
(* The handlers of the pairing store do not await, so each is one action.  *)
(* Operations on the credentials are known by what they do and to which.   *)
(***************************************************************************)
EXTENDS Naturals, SequencesExt

CONSTANTS
    Pairing,        \* ids of requests; an id is never made twice
    Serial,         \* tells the credentials of one approval apart
    MaxEntries,     \* 64 in the code
    Ttl,            \* five minutes in the code
    MaxTime,        \* bound on the clock
    MaxFaults,      \* bound on failed reads and writes and on restarts
    MaxQueued       \* bound on the uses and revocations that wait

ASSUME PairingAssumption ==
    MaxEntries \in Nat \ {0} /\ Ttl \in Nat /\ MaxTime \in Nat /\ MaxFaults \in Nat

VARIABLES
    clock,
    request,        \* what a record says, in whichever map it is
    records,        \* #records of the pairing store: ids, oldest first
    terminal,       \* #terminalRecords: ids and why, oldest first
    gone,           \* requests made to a process that has ended
    queue,          \* operationTails: the operations in the order they came
    at,             \* how far an operation on the credentials is
    memory,         \* #records of the credential store
    file,           \* the credentials on disk
    faults          \* how much of MaxFaults is used up

pairingVars == <<request, records, terminal, gone>>
storeVars == <<queue, at, memory, file>>
vars == <<clock, request, records, terminal, gone, queue, at, memory, file, faults>>

Decision == {"approved", "denied"}
Cred == Pairing \X Serial
Job == {"issue", "use", "revoke"} \X Cred
Ending == [id : Pairing, kind : {"consumed", "expired"}]
Credentials == [Cred -> {"absent", "live", "revoked"}]
Empty == [c \in Cred |-> "absent"]

TypeOK ==
    /\ clock \in 0 .. MaxTime
    /\ request \in [Pairing -> [status : Decision \cup {"none", "pending"}, expires : Nat]]
    /\ records \in Seq(Pairing)
    /\ terminal \in Seq(Ending)
    /\ gone \subseteq Pairing
    /\ queue \in Seq(Job)
    /\ at \in [Job -> {"idle", "queued", "running", "failed"}]
    /\ \A j \in Job : at[j] \in {"queued", "running"} <=> Contains(queue, j)
    /\ memory \in Credentials
    /\ file \in Credentials
    /\ faults \in 0 .. MaxFaults

Init ==
    /\ clock = 0
    /\ request = [i \in Pairing |-> [status |-> "none", expires |-> 0]]
    /\ records = <<>>
    /\ terminal = <<>>
    /\ gone = {}
    /\ queue = <<>>
    /\ at = [j \in Job |-> "idle"]
    /\ memory = Empty
    /\ file = Empty
    /\ faults = 0
-----------------------------------------------------------------------------
Lapsed(i) == request[i].expires <= clock

(* The entries of s that are in S, in their order. *)
Only(s, S) ==
    LET of[n \in 0 .. Len(s)] ==
          IF n = 0 THEN <<>>
          ELSE IF s[n] \in S THEN Append(of[n - 1], s[n]) ELSE of[n - 1]
    IN  of[Len(s)]

Newest_OneMore(s, n) == IF Len(s) <= n + 1 THEN s ELSE SubSeq(s, Len(s) - n, Len(s))

(* The n entries of a map that came last. *)
Newest(s, n) == IF Len(s) <= n THEN s ELSE SubSeq(s, Len(s) - n + 1, Len(s))

Ids(t) == {t[n].id : n \in DOMAIN t}

Unlapsed == {i \in Pairing : ~Lapsed(i)}

(* What pruneExpired, with which every handler begins, leaves in the maps: a   *)
(* request that lapsed is remembered as expired, whatever was known of it.     *)
Kept == Only(records, Unlapsed)
Expired == Only(records, Pairing \ Unlapsed)
Ended ==
    Newest(Only(terminal, {e \in Ending : ~Contains(Expired, e.id)})
              \o [n \in DOMAIN Expired |-> [id |-> Expired[n], kind |-> "expired"]],
           MaxEntries)

Created == {i \in Pairing : request[i].status # "none"}

(* An administrator's list, a client's poll, an exchange that is answered with *)
(* what the request is: pending, denied, expired, consumed, not found.         *)
Look ==
    /\ records' = Kept
    /\ terminal' = Ended
    /\ UNCHANGED <<clock, request, gone, faults, storeVars>>

(* randomUUID: which of the unused ids it is makes no difference. *)
NewId == CHOOSE i \in Pairing : i \notin Created

(* The oldest requests make room for the new one. *)
Create ==
    /\ Created # Pairing
    /\ request' = [request EXCEPT ![NewId] = [status |-> "pending", expires |-> clock + Ttl]]
    /\ records' = Append(Newest(Kept, MaxEntries - 1), NewId)
    /\ terminal' = Ended
    /\ UNCHANGED <<clock, gone, faults, storeVars>>

(* The first decision stands. *)
Decide(i, d) ==
    /\ request[i].status = "pending"
    /\ Contains(Kept, i)
    /\ request' = [request EXCEPT ![i].status = d]
    /\ records' = Kept
    /\ terminal' = Ended
    /\ UNCHANGED <<clock, gone, faults, storeVars>>

Enqueue(j) ==
    /\ at[j] = "idle"
    /\ at' = [at EXCEPT ![j] = "queued"]
    /\ queue' = Append(queue, j)

(* consumeForExchange finds the approval and spends it before the route awaits *)
(* the credential.                                                             *)
Exchangeable(i) ==
    /\ request[i].status = "approved"
    /\ Contains(Kept, i)
    /\ i \notin Ids(Ended)

Unissued(c) == at[<<"issue", c>>] = "idle" /\ file[c] = "absent"

(* randomUUID again. *)
Fresh(i) == <<i, CHOOSE n \in Serial : Unissued(<<i, n>>)>>

Exchange(i) ==
    /\ Exchangeable(i)
    /\ \E n \in Serial : Unissued(<<i, n>>)
    /\ Enqueue(<<"issue", Fresh(i)>>)
    /\ records' = Only(records, Unlapsed \ {i})
    /\ terminal' = Newest(Append(Ended, [id |-> i, kind |-> "consumed"]), MaxEntries)
    /\ UNCHANGED <<clock, request, gone, memory, file, faults>>

Restore_Nothing(c) ==
    /\ at[<<"issue", c>>] = "failed"
    /\ at' = [at EXCEPT ![<<"issue", c>>] = "idle"]
    /\ records' = Kept
    /\ terminal' = Ended
    /\ UNCHANGED <<clock, request, gone, queue, memory, file, faults>>

(* issue rejected: restoreConsumed makes the request the newest, unless it has *)
(* expired or has been pushed out of the map it was remembered in.             *)
Restore(c) ==
    /\ at[<<"issue", c>>] = "failed"
    /\ at' = [at EXCEPT ![<<"issue", c>>] = "idle"]
    /\ LET i == c[1]
           spent == Contains(Ended, [id |-> i, kind |-> "consumed"])
           restored == spent /\ ~Contains(Kept, i) /\ ~Lapsed(i)
       IN  /\ records' = IF restored THEN Append(Kept, i) ELSE Kept
           /\ terminal' = IF restored THEN Only(Ended, {e \in Ending : e.id # i}) ELSE Ended
    /\ UNCHANGED <<clock, request, gone, queue, memory, file, faults>>
-----------------------------------------------------------------------------
(* A request authenticated by findByBearer, which may note the time of use. *)
Use(c) ==
    /\ file[c] # "absent"
    /\ Len(queue) < MaxQueued
    /\ Enqueue(<<"use", c>>)
    /\ UNCHANGED <<clock, memory, file, faults, pairingVars>>

Revoke(c) ==
    /\ file[c] # "absent"
    /\ Len(queue) < MaxQueued
    /\ Enqueue(<<"revoke", c>>)
    /\ UNCHANGED <<clock, memory, file, faults, pairingVars>>

Load_Cached(j) ==
    /\ queue # <<>> /\ j = Head(queue)
    /\ at[j] = "queued"
    /\ at' = [at EXCEPT ![j] = "running"]
    /\ UNCHANGED <<clock, queue, memory, file, faults, pairingVars>>

(* The operation whose turn it is reads the file. *)
Load(j) ==
    /\ queue # <<>> /\ j = Head(queue)
    /\ at[j] = "queued"
    /\ memory' = file
    /\ at' = [at EXCEPT ![j] = "running"]
    /\ UNCHANGED <<clock, queue, file, faults, pairingVars>>

(* The map that an operation writes. *)
Changed(j) ==
    CASE j[1] = "issue" -> [memory EXCEPT ![j[2]] = "live"]
      [] j[1] = "revoke" -> [memory EXCEPT ![j[2]] = "revoked"]
      [] j[1] = "use" -> memory

Leave(j, result) ==
    /\ at' = [at EXCEPT ![j] = result]
    /\ queue' = Tail(queue)

Writes(j) == j[1] = "issue" \/ memory[j[2]] = "live"

Commit_ThenFail(j) ==
    /\ at[j] = "running"
    /\ Writes(j)
    /\ memory' = Changed(j)
    /\ file' = Changed(j)
    /\ \/ Leave(j, "idle") /\ UNCHANGED faults
       \/ /\ j[1] = "issue" /\ faults < MaxFaults
          /\ faults' = faults + 1
          /\ Leave(j, "failed")
    /\ UNCHANGED <<clock, pairingVars>>

(* The rename replaces the file, and nothing that follows it may reject. *)
Commit(j) ==
    /\ at[j] = "running"
    /\ Writes(j)
    /\ memory' = Changed(j)
    /\ file' = Changed(j)
    /\ Leave(j, "idle")
    /\ UNCHANGED <<clock, faults, pairingVars>>

(* Nothing is written: the credential is not live, or was used a moment ago. *)
Skip(j) ==
    /\ at[j] = "running"
    /\ j[1] = "use" \/ ~Writes(j)
    /\ Leave(j, "idle")
    /\ UNCHANGED <<clock, memory, file, faults, pairingVars>>

Failed(j) == IF j[1] = "issue" THEN "failed" ELSE "idle"

(* The file cannot be read, or a write fails before its rename, with the map   *)
(* in memory already changed; the next operation has its turn all the same.    *)
Fail(j) ==
    /\ faults < MaxFaults
    /\ faults' = faults + 1
    /\ \/ /\ queue # <<>> /\ j = Head(queue)
          /\ at[j] = "queued"
          /\ UNCHANGED memory
       \/ /\ at[j] = "running"
          /\ Writes(j)
          /\ memory' = Changed(j)
    /\ Leave(j, Failed(j))
    /\ UNCHANGED <<clock, file, pairingVars>>

(* The process ends.  The file stays; requests, queue and memory are lost. *)
Restart ==
    /\ faults < MaxFaults
    /\ faults' = faults + 1
    /\ records' = <<>>
    /\ terminal' = <<>>
    /\ gone' = Created
    /\ queue' = <<>>
    /\ at' = [j \in Job |-> "idle"]
    /\ memory' = Empty
    /\ UNCHANGED <<clock, request, file>>

Elapse ==
    /\ clock < MaxTime
    /\ clock' = clock + 1
    /\ UNCHANGED <<request, records, terminal, gone, faults, storeVars>>

Next ==
    \/ Create
    \/ \E i \in Pairing : Exchange(i)
    \/ \E i \in Pairing, d \in Decision : Decide(i, d)
    \/ \E c \in Cred : Restore(c) \/ Use(c) \/ Revoke(c)
    \/ \E j \in ToSet(queue) : Load(j) \/ Commit(j) \/ Skip(j) \/ Fail(j)
    \/ Look \/ Restart \/ Elapse

Spec == Init /\ [][Next]_vars

(* Reads, writes and rejections come back, and a client asks again every       *)
(* couple of seconds until it has its answer (exchange route 41-44).           *)
FairSpec ==
    /\ Spec
    /\ WF_vars(\E j \in ToSet(queue) : Load(j) \/ Commit(j) \/ Skip(j))
    /\ WF_vars(\E c \in Cred : Restore(c))
    /\ \A i \in Pairing : WF_vars(Exchange(i))
-----------------------------------------------------------------------------
IssuedFor(i) == {n \in Serial : file[<<i, n>>] # "absent"}

Crowded(i) == Cardinality(Created \ (gone \cup {i})) >= MaxEntries

(* However many exchanges, failures and retries there are, an approval yields  *)
(* at most one credential, and nothing else yields one (exchange route 85-95,  *)
(* credential-store.ts 343-351).                                               *)
OneCredentialPerApproval ==
    \A i \in Pairing :
        /\ Cardinality(IssuedFor(i)) <= 1
        /\ request[i].status # "approved" => IssuedFor(i) = {}

(* An approval that has neither expired nor been exchanged can be exchanged,   *)
(* whatever failed meanwhile, unless its process is gone or as many other      *)
(* requests were made as a map holds (pairing-store.ts 78-91).                 *)
ApprovalKept ==
    \A i \in Pairing \ gone :
        /\ request[i].status = "approved"
        /\ ~Lapsed(i)
        /\ \A n \in Serial : Unissued(<<i, n>>)
        => Exchangeable(i) \/ Crowded(i)

(* Nothing that waits for a decision stands beyond the limit of the live map:  *)
(* what crowds it is approved and was given back by a failed exchange.  The    *)
(* map of ended ones is within the limit, and no id is twice in a map or in    *)
(* both (pairing-store.ts 203-231, 303-315).                                   *)
MapsBounded ==
    /\ Len(terminal) <= MaxEntries
    /\ \A n \in DOMAIN records : n > MaxEntries => request[records[n]].status = "approved"
    /\ \A m, n \in DOMAIN records : m # n => records[m] # records[n]
    /\ \A m, n \in DOMAIN terminal : m # n => terminal[m].id # terminal[n].id
    /\ Ids(terminal) \cap ToSet(records) = {}

(* A write never undoes another: a credential that is on disk stays there, and *)
(* a revoked one stays revoked (credential-store.ts 101-118, 474-553).         *)
NothingUndone ==
    [][\A c \in Cred :
          /\ file[c] # "absent" => file'[c] # "absent"
          /\ file[c] = "revoked" => file'[c] = "revoked"]_vars

(* A client with an approval gets its credential, unless the request expires,  *)
(* its process ends or other requests crowd it out.                            *)
ApprovalIsHonoured ==
    \A i \in Pairing :
        request[i].status = "approved"
        ~> IssuedFor(i) # {} \/ Lapsed(i) \/ i \in gone \/ Crowded(i)
=============================================================================
