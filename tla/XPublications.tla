------------------------------ MODULE XPublications ------------------------------
(***************************************************************************)
(* The durable record of X posts, src/lib/server/x-publications.ts, with   *)
(* the part of x-client.ts that classifies a failed send.                  *)
(*                                                                         *)
(* Calls of upsertXPublicationDraft, publishXPublication and               *)
(* resolveXPublication read and replace one file of records under the      *)
(* cross-process lock.  A publish saves the record as "uncertain", sends   *)
(* without the lock, and settles the record in a second critical section.  *)
(* Calls crash anywhere, the wall clock steps back, a request may land     *)
(* after its caller gave up on it, and the file may be found malformed.    *)
(***************************************************************************)
EXTENDS Integers, FiniteSets

CONSTANTS
    Publication,   \* ids of records; randomUUID never repeats one
    Text,          \* wordings
    Call,          \* the requests made of this store
    None, Human,   \* no value; a post id that a person typed in
    MaxClock,      \* bound: wall-clock values, in milliseconds
    TokenTTL,      \* CONFIRMATION_TOKEN_TTL_MS
    MaxDamage      \* bound: times the file is found malformed

ASSUME XNoneAssumption == None \notin Call \cup {Human} /\ Human \notin Call
ASSUME NoneNotTime == None \notin Nat
ASSUME XBoundAssumption ==
    MaxClock \in Nat /\ TokenTTL \in Nat /\ MaxDamage \in Nat

VARIABLES
    file,          \* the stored records
    born,          \* ids that some draft call generated
    copy,          \* what a call loaded from the file in its critical section
    clock,         \* the wall clock
    tokens,        \* confirmation tokens handed out
    pc,            \* where each call is
    req,           \* what each call was asked to do
    pending,       \* the record each publish call dispatched
    wire,          \* calls whose request may still reach X
    posts,         \* calls whose post exists on X
    holder, spent, \* the lock: CrashSafeMutex
    damages,
    steady         \* history: the clock was never set back, nor read twice for a token

vars == <<file, born, copy, clock, tokens, pc, req, pending, wire, posts,
          holder, spent, damages, steady>>

Time == 0..MaxClock
Status == {"absent", "draft", "uncertain", "published", "abandoned"}
Record == [status : Status, text : Text \cup {None}, updatedAt : Nat,
           dispatchedAt : Nat \cup {None}, postId : Call \cup {None, Human}]
Absent == [status |-> "absent", text |-> None, updatedAt |-> 0,
           dispatchedAt |-> None, postId |-> None]
EmptyFile == [p \in Publication |-> Absent]

(* parseStoredPublication: only a published record names a post, and the     *)
(* in-flight marker is there exactly while the outcome is unknown.  One      *)
(* record that does not parse has the whole file moved aside.                *)
Parses(rec) ==
    /\ rec.postId # None <=> rec.status = "published"
    /\ rec.dispatchedAt # None <=> rec.status = "uncertain"

(* The digest binds id and wording; the stamp in clear is the revision. *)
Token == [pub : Publication, text : Text, mintedAt : Time]

DraftRequest == [op : {"draft"}, pub : Publication, text : Text]
PublishRequest == [op : {"publish"}, pub : Publication, token : Token]
ResolveRequest == [op : {"resolve"}, pub : Publication,
                   outcome : {"published", "abandoned"}]
Request == DraftRequest \cup PublishRequest \cup ResolveRequest

PC == {"idle", "loaded", "dispatched", "sending", "created", "refused",
       "settling", "reverting", "done"}

Section == Call \X {"first", "settle"}
Lock == INSTANCE CrashSafeMutex WITH Client <- Section

TypeOK ==
    /\ file \in [Publication -> Record]
    /\ \A p \in Publication : Parses(file[p])
    /\ born \in SUBSET Publication
    /\ copy \in [Call -> [Publication -> Record]]
    /\ clock \in Time
    /\ tokens \in SUBSET Token
    /\ pc \in [Call -> PC]
    /\ req \in [Call -> Request \cup {None}]
    /\ \A c \in Call : pc[c] # "idle" => req[c] \in Request
    /\ pending \in [Call -> Record]
    /\ wire \in SUBSET Call
    /\ posts \in SUBSET Call
    /\ holder \in SUBSET Section
    /\ spent \in SUBSET Section
    /\ damages \in 0..MaxDamage
    /\ steady \in BOOLEAN

Init ==
    /\ file = EmptyFile
    /\ born = {}
    /\ copy = [c \in Call |-> EmptyFile]
    /\ clock = 0
    /\ tokens = {}
    /\ pc = [c \in Call |-> "idle"]
    /\ req = [c \in Call |-> None]
    /\ pending = [c \in Call |-> Absent]
    /\ wire = {}
    /\ posts = {}
    /\ holder = {}
    /\ spent = {}
    /\ damages = 0
    /\ steady = TRUE

Goto(c, l) == pc' = [pc EXCEPT ![c] = l]
Pub(c) == req[c].pub
Stored(c) == copy[c][Pub(c)]

(* Leave a critical section; what was loaded there is forgotten. *)
Unlock(c, phase) ==
    /\ Lock!Leave({<<c, phase>>})
    /\ copy' = [copy EXCEPT ![c] = EmptyFile]

Save(c, rec) == file' = [copy[c] EXCEPT ![Pub(c)] = rec]

-----------------------------------------------------------------------------
(* The first critical section. *)

(* Who holds a token is a caller that was given it; any other is refused. *)
Load(c) ==
    /\ pc[c] = "idle"
    /\ Lock!Enter(<<c, "first">>)
    /\ \E r \in Request :
        /\ r.op = "publish" => r.token \in tokens /\ r.token.pub = r.pub
        /\ req' = [req EXCEPT ![c] = r]
    /\ copy' = [copy EXCEPT ![c] = file]
    /\ Goto(c, "loaded")
    /\ UNCHANGED <<file, born, clock, tokens, pending, wire, posts, damages, steady>>

(* Mutant: an uncertain record may be edited. *)
MayDraft_Uncertain(c) ==
    /\ req[c].op = "draft"
    /\ Pub(c) \notin born \/ Stored(c).status \in {"draft", "uncertain"}

MayDraft(c) ==
    /\ req[c].op = "draft"
    /\ Pub(c) \notin born \/ Stored(c).status = "draft"

(* upsertXPublicationDraft: a new record, or new text for a draft. *)
SaveDraft(c) ==
    /\ pc[c] = "loaded"
    /\ MayDraft(c)
    /\ Save(c, [status |-> "draft", text |-> req[c].text, updatedAt |-> clock,
                dispatchedAt |-> None, postId |-> None])
    /\ born' = born \cup {Pub(c)}
    /\ tokens' = tokens \cup
            {[pub |-> Pub(c), text |-> req[c].text, mintedAt |-> clock]}
    /\ Unlock(c, "first")
    /\ steady' = (steady /\ \A t \in tokens : t.mintedAt # clock)
    /\ Goto(c, "done")
    /\ UNCHANGED <<clock, req, pending, wire, posts, damages>>

(* verifyConfirmationToken, against the text and the revision on disk. *)
Confirmed(c) ==
    /\ req[c].token.text = Stored(c).text
    /\ req[c].token.mintedAt = Stored(c).updatedAt
    /\ clock - req[c].token.mintedAt \in 0..TokenTTL

(* Mutant: an uncertain record may be published. *)
MayDispatch_Uncertain(c) ==
    /\ req[c].op = "publish"
    /\ Stored(c).status \in {"draft", "uncertain"}
    /\ Confirmed(c)

MayDispatch(c) ==
    /\ req[c].op = "publish"
    /\ Stored(c).status = "draft"
    /\ Confirmed(c)

(* A record in a new state; its id and its wording stay. *)
Revised(rec, status, dispatchedAt, postId, updatedAt) ==
    [rec EXCEPT !.status = status, !.dispatchedAt = dispatchedAt,
                !.postId = postId, !.updatedAt = updatedAt]

InFlight(rec) == Revised(rec, "uncertain", clock, None, clock)

(* publishXPublication, before the network call. *)
Dispatch(c) ==
    /\ pc[c] = "loaded"
    /\ MayDispatch(c)
    /\ pending' = [pending EXCEPT ![c] = InFlight(Stored(c))]
    /\ Save(c, InFlight(Stored(c)))
    /\ Unlock(c, "first")
    /\ Goto(c, "dispatched")
    /\ UNCHANGED <<born, clock, tokens, req, wire, posts, damages, steady>>

MayResolve(c) ==
    /\ req[c].op = "resolve"
    /\ Stored(c).status \in {"uncertain", "draft"}

(* resolveXPublication: a person says what became of the attempt. *)
Resolve(c) ==
    /\ pc[c] = "loaded"
    /\ MayResolve(c)
    /\ Save(c, Revised(Stored(c), req[c].outcome, None,
                       IF req[c].outcome = "published" THEN Human ELSE None, clock))
    /\ Unlock(c, "first")
    /\ Goto(c, "done")
    /\ UNCHANGED <<born, clock, tokens, req, pending, wire, posts, damages, steady>>

(* Not found, not a draft, not confirmed, already sent: nothing is written. *)
Refuse(c) ==
    /\ pc[c] = "loaded"
    /\ ~MayDraft(c) /\ ~MayDispatch(c) /\ ~MayResolve(c)
    /\ Unlock(c, "first")
    /\ Goto(c, "done")
    /\ UNCHANGED <<file, born, clock, tokens, req, pending, wire, posts, damages, steady>>

-----------------------------------------------------------------------------
(* The network call, outside the lock. *)

Send(c) ==
    /\ pc[c] = "dispatched"
    /\ wire' = wire \cup {c}
    /\ Goto(c, "sending")
    /\ UNCHANGED <<file, born, copy, clock, tokens, req, pending, posts,
                   holder, spent, damages, steady>>

(* The request reaches X, possibly long after its caller stopped waiting. *)
Land(c) ==
    /\ c \in wire
    /\ wire' = wire \ {c}
    /\ posts' = posts \cup {c}
    /\ UNCHANGED <<file, born, copy, clock, tokens, pc, req, pending,
                   holder, spent, damages, steady>>

(* A 2xx answer that carries the post id. *)
Created(c) ==
    /\ pc[c] = "sending"
    /\ c \in posts
    /\ Goto(c, "created")
    /\ UNCHANGED <<file, born, copy, clock, tokens, req, pending, wire, posts,
                   holder, spent, damages, steady>>

(* A failed preflight or a 4xx: certain that nothing was posted. *)
SendRefused(c) ==
    /\ pc[c] = "dispatched" \/ (pc[c] = "sending" /\ c \in wire)
    /\ wire' = wire \ {c}
    /\ Goto(c, "refused")
    /\ UNCHANGED <<file, born, copy, clock, tokens, req, pending, posts,
                   holder, spent, damages, steady>>

(* Mutant: a timeout counts as a refusal. *)
Ambiguous_Refused(c) ==
    /\ pc[c] = "sending"
    /\ Goto(c, "refused")
    /\ UNCHANGED <<file, born, copy, clock, tokens, req, pending, wire, posts,
                   holder, spent, damages, steady>>

(* A timeout, a 5xx or an unreadable answer: the record stays uncertain. *)
Ambiguous(c) ==
    /\ pc[c] = "sending"
    /\ Goto(c, "done")
    /\ UNCHANGED <<file, born, copy, clock, tokens, req, pending, wire, posts,
                   holder, spent, damages, steady>>

-----------------------------------------------------------------------------
(* The second critical section. *)

LoadAgain(c) ==
    /\ pc[c] \in {"created", "refused"}
    /\ Lock!Enter(<<c, "settle">>)
    /\ copy' = [copy EXCEPT ![c] = file]
    /\ Goto(c, IF pc[c] = "created" THEN "settling" ELSE "reverting")
    /\ UNCHANGED <<file, born, clock, tokens, req, pending, wire, posts, damages, steady>>

(* The post exists, so it is recorded whatever the record says by now; a     *)
(* record that is gone is written again.                                     *)
Settle(c) ==
    /\ pc[c] = "settling"
    /\ LET base == IF Stored(c).status = "absent" THEN pending[c] ELSE Stored(c)
       IN  Save(c, Revised(base, "published", None, c, clock))
    /\ Unlock(c, "settle")
    /\ Goto(c, "done")
    /\ UNCHANGED <<born, clock, tokens, req, pending, wire, posts, damages, steady>>

MayRevert(c) ==
    /\ Stored(c).status = "uncertain"
    /\ Stored(c).dispatchedAt = pending[c].dispatchedAt

(* Mutant: the wall clock alone is the revision. *)
LaterOf_Clock(x, y) == x

LaterOf(x, y) == IF x > y THEN x ELSE y

(* Only the state this call set is undone, and the revision always advances. *)
Revert(c) ==
    /\ pc[c] = "reverting"
    /\ IF MayRevert(c)
       THEN Save(c, Revised(Stored(c), "draft", None, None,
                            LaterOf(clock, Stored(c).updatedAt + 1)))
       ELSE UNCHANGED file
    /\ Unlock(c, "settle")
    /\ Goto(c, "done")
    /\ UNCHANGED <<born, clock, tokens, req, pending, wire, posts, damages, steady>>

(* The lock was not granted within LOCK_TIMEOUT_MS: the call fails. *)
LockTimeout(c) ==
    /\ pc[c] \in {"created", "refused"}
    /\ Goto(c, "done")
    /\ UNCHANGED <<file, born, copy, clock, tokens, req, pending, wire, posts,
                   holder, spent, damages, steady>>

-----------------------------------------------------------------------------

(* The process of a call dies; its critical section, if any, is reclaimed.   *)
(* writeJsonAtomic leaves the old file or the new one.                       *)
Crash(c) ==
    /\ pc[c] \notin {"idle", "done"}
    /\ Goto(c, "done")
    /\ Lock!Leave({<<c, "first">>, <<c, "settle">>})
    /\ copy' = [copy EXCEPT ![c] = EmptyFile]
    /\ UNCHANGED <<file, born, clock, tokens, req, pending, wire, posts, damages, steady>>

(* The wall clock advances or is set back. *)
Tick ==
    /\ clock' \in Time \ {clock}
    /\ steady' = (steady /\ clock' > clock)
    /\ UNCHANGED <<file, born, copy, tokens, pc, req, pending, wire, posts,
                   holder, spent, damages>>

(* loadPublicationsFile finds the file malformed and moves it aside. *)
Damage ==
    /\ damages < MaxDamage
    /\ holder = {}
    /\ damages' = damages + 1
    /\ file' = EmptyFile
    /\ UNCHANGED <<born, copy, clock, tokens, pc, req, pending, wire, posts,
                   holder, spent, steady>>

Next ==
    \/ \E c \in Call :
        \/ Load(c) \/ SaveDraft(c) \/ Dispatch(c) \/ Resolve(c) \/ Refuse(c)
        \/ Send(c) \/ Land(c) \/ Created(c) \/ SendRefused(c) \/ Ambiguous(c)
        \/ LoadAgain(c) \/ Settle(c) \/ Revert(c) \/ LockTimeout(c)
        \/ Crash(c)
    \/ Tick
    \/ Damage

Spec == Init /\ [][Next]_vars

-----------------------------------------------------------------------------

Sent(c) == c \in wire \cup posts

(* "Publish a confirmed draft, exactly once": double submits, retries after  *)
(* a refusal, crashes and late requests never put a record on X twice.       *)
AtMostOnePost ==
    \A c, d \in Call : Sent(c) /\ Sent(d) /\ Pub(c) = Pub(d) => c = d

(* A record whose post exists or may still land never reads "draft", which   *)
(* would invite the one action that sends it again.                          *)
NeverInvitesResend ==
    \A c \in Call : Sent(c) => file[Pub(c)].status # "draft"

(* A published record names a post that exists, for this record, in the      *)
(* wording that went out, or what a person typed in.                         *)
PublishedIsEvidence ==
    \A p \in Publication :
        file[p].status = "published" /\ file[p].postId # Human =>
            LET c == file[p].postId
            IN  c \in posts /\ Pub(c) = p /\ pending[c].text = file[p].text

Dispatched(c) == pending[c] # Absent

(* "One-time even when the outbound request is refused": as long as the      *)
(* clock is not set back and mints no two tokens at one reading, however     *)
(* dispatches, refusals, edits and crashes follow each other, no             *)
(* confirmation token is good for two dispatches.                            *)
TokenOneTime ==
    steady =>
        \A c, d \in Call :
            Dispatched(c) /\ Dispatched(d) /\ req[c].token = req[d].token => c = d

=============================================================================
