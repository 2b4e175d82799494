--------------------------- MODULE XPublications_proofs ---------------------------
(***************************************************************************)
(* No record of XPublications is put on X twice, and none whose post       *)
(* exists or may still land invites a second publish: for every number of  *)
(* records, wordings and calls, every clock and every damage to the file.  *)
(***************************************************************************)
EXTENDS XPublications, TLAPS

(* A call that dispatched its record and may still send, or has sent. *)
Active(c) ==
    \/ Sent(c)
    \/ pc[c] \in {"dispatched", "sending", "created", "refused",
                  "settling", "reverting"}

(* The part of the types that the argument needs. *)
Shape ==
    /\ file \in [Publication -> Record]
    /\ copy \in [Call -> [Publication -> Record]]
    /\ pending \in [Call -> Record]
    /\ clock \in Time
    /\ pc \in [Call -> PC]
    /\ req \in [Call -> Request \cup {None}]
    /\ \A c \in Call : pc[c] # "idle" => req[c] \in Request
    /\ wire \in SUBSET Call
    /\ posts \in SUBSET Call

(* Whoever is in a critical section holds the lock on an unchanged file. *)
Inside ==
    \A c \in Call :
        /\ pc[c] = "loaded" => holder = {<<c, "first">>} /\ copy[c] = file
        /\ pc[c] \in {"settling", "reverting"} =>
               holder = {<<c, "settle">>} /\ copy[c] = file

(* Stored records and dispatches belong to ids that were generated. *)
Born ==
    /\ \A p \in Publication : file[p].status # "absent" => p \in born
    /\ \A c \in Call : Active(c) => pc[c] \notin {"idle", "loaded"} /\ Pub(c) \in born

(* A refused request is off the wire. *)
RefusedNotSent ==
    /\ wire \cap posts = {}
    /\ \A c \in Call : pc[c] \in {"dispatched", "refused", "reverting"} => ~Sent(c)

OneActive ==
    \A c, d \in Call : Active(c) /\ Active(d) /\ Pub(c) = Pub(d) => c = d

ActiveNotDraft ==
    \A c \in Call : Active(c) => file[Pub(c)].status # "draft"

IInv ==
    /\ Shape
    /\ Inside
    /\ Born
    /\ RefusedNotSent
    /\ OneActive
    /\ ActiveNotDraft

-----------------------------------------------------------------------------

(* Every request names a record. *)
LEMMA RequestPub == \A r \in Request : r.pub \in Publication
BY DEF Request, DraftRequest, PublishRequest, ResolveRequest

LEMMA AbsentIsRecord == Absent \in Record /\ EmptyFile \in [Publication -> Record]
BY DEF Absent, Record, Status, EmptyFile

(* What Revised makes of a record. *)
LEMMA RevisedRecord ==
    ASSUME NEW rec \in Record, NEW status \in Status, NEW d \in Nat \cup {None},
           NEW q \in Call \cup {None, Human}, NEW u \in Nat
    PROVE  /\ Revised(rec, status, d, q, u) \in Record
           /\ Revised(rec, status, d, q, u).status = status
BY DEF Revised, Record

LEMMA NewDraftRecord ==
    ASSUME NEW t \in Text, NEW u \in Nat
    PROVE  [status |-> "draft", text |-> t, updatedAt |-> u,
            dispatchedAt |-> None, postId |-> None] \in Record
BY DEF Record, Status

(* Replacing one record of a loaded file. *)
LEMMA SaveFile ==
    ASSUME Shape, NEW c \in Call, req[c] \in Request, NEW rec \in Record, Save(c, rec)
    PROVE  /\ file' \in [Publication -> Record]
           /\ file'[Pub(c)] = rec
           /\ \A p \in Publication : p # Pub(c) => file'[p] = copy[c][p]
BY RequestPub DEF Shape, Save, Pub

(* Only one call can be inside, and only while the lock is held. *)
LEMMA OneInside ==
    ASSUME Inside, NEW c \in Call, NEW d \in Call,
           pc[c] \in {"loaded", "settling", "reverting"},
           pc[d] \in {"loaded", "settling", "reverting"}
    PROVE  c = d
<1>1. PICK x \in {"first", "settle"} : holder = {<<c, x>>}
  BY DEF Inside
<1>2. PICK y \in {"first", "settle"} : holder = {<<d, y>>}
  BY DEF Inside
<1>3. <<c, x>> \in {<<d, y>>}
  BY <1>1, <1>2
<1>. QED
  BY <1>3

LEMMA NobodyInside ==
    ASSUME Inside, holder = {}, NEW c \in Call
    PROVE  pc[c] \notin {"loaded", "settling", "reverting"}
<1>1. ASSUME NEW x \in {"first", "settle"}, holder = {<<c, x>>}
      PROVE  FALSE
  <2>1. <<c, x>> \in holder
    BY <1>1
  <2>. QED
    BY <2>1
<1>. QED
  BY <1>1 DEF Inside

LEMMA InitIInv == Init => IInv
BY AbsentIsRecord, XBoundAssumption
DEF Init, IInv, Shape, Inside, Born, RefusedNotSent, OneActive, ActiveNotDraft,
    Active, Sent, PC, EmptyFile, Absent, Time

(* The lock was free, so nobody else is inside. *)
LEMMA LoadStep ==
    ASSUME IInv, NEW c \in Call, Load(c)
    PROVE  IInv'
<1> USE RequestPub, AbsentIsRecord DEF IInv, Load, Goto, Lock!Enter
<1>0. \A d \in Call : pc[d] \notin {"loaded", "settling", "reverting"}
  BY NobodyInside DEF Lock!Enter
<1>1. Shape'
  BY SMTT(30) DEF Shape, PC
<1>2. Inside'
  BY <1>0, SMTT(30) DEF Inside, Shape
<1>3. Born'
  BY SMTT(30) DEF Born, Active, Sent, Shape, Pub, Inside, PC
<1>4. RefusedNotSent'
  BY SMTT(30) DEF RefusedNotSent, Sent, Shape
<1>5. OneActive'
  BY SMTT(30) DEF OneActive, Active, Sent, Shape, Pub, Born,
       ActiveNotDraft, Inside, RefusedNotSent
<1>6. ActiveNotDraft'
  BY SMTT(30) DEF ActiveNotDraft, Active, Sent, Shape, Pub, Born, Inside,
       RefusedNotSent, OneActive
<1>. QED
  BY <1>1, <1>2, <1>3, <1>4, <1>5, <1>6 DEF IInv

(* Nothing is written. *)
LEMMA RefuseStep ==
    ASSUME IInv, NEW c \in Call, Refuse(c)
    PROVE  IInv'
<1> USE RequestPub, AbsentIsRecord DEF IInv, Refuse, Goto, Unlock, Lock!Leave
<1>1. Shape'
  BY SMTT(30) DEF Shape, PC
<1>2. Inside'
  BY OneInside, SMTT(30) DEF Inside, Shape
<1>3. Born'
  BY SMTT(30) DEF Born, Active, Sent, Shape, Pub, Inside, PC
<1>4. RefusedNotSent'
  BY SMTT(30) DEF RefusedNotSent, Sent, Shape
<1>5. OneActive'
  BY SMTT(30) DEF OneActive, Active, Sent, Shape, Pub, Born,
       ActiveNotDraft, Inside, RefusedNotSent
<1>6. ActiveNotDraft'
  BY SMTT(30) DEF ActiveNotDraft, Active, Sent, Shape, Pub, Born, Inside,
       RefusedNotSent, OneActive
<1>. QED
  BY <1>1, <1>2, <1>3, <1>4, <1>5, <1>6 DEF IInv

(* The call was active before. *)
LEMMA SendStep ==
    ASSUME IInv, NEW c \in Call, Send(c)
    PROVE  IInv'
<1> USE RequestPub, AbsentIsRecord DEF IInv, Send, Goto
<1>1. Shape'
  BY SMTT(30) DEF Shape, PC
<1>2. Inside'
  BY SMTT(30) DEF Inside, Shape
<1>3. Born'
  BY SMTT(30) DEF Born, Active, Sent, Shape, Pub, Inside, PC
<1>4. RefusedNotSent'
  BY SMTT(30) DEF RefusedNotSent, Sent, Shape
<1>5. OneActive'
  BY SMTT(30) DEF OneActive, Active, Sent, Shape, Pub, Born,
       ActiveNotDraft, Inside, RefusedNotSent
<1>6. ActiveNotDraft'
  BY SMTT(30) DEF ActiveNotDraft, Active, Sent, Shape, Pub, Born, Inside,
       RefusedNotSent, OneActive
<1>. QED
  BY <1>1, <1>2, <1>3, <1>4, <1>5, <1>6 DEF IInv

(* As Send. *)
LEMMA LandStep ==
    ASSUME IInv, NEW c \in Call, Land(c)
    PROVE  IInv'
<1> USE RequestPub, AbsentIsRecord DEF IInv, Land
<1>1. Shape'
  BY SMTT(30) DEF Shape, PC
<1>2. Inside'
  BY SMTT(30) DEF Inside, Shape
<1>3. Born'
  BY SMTT(30) DEF Born, Active, Sent, Shape, Pub, Inside, PC
<1>4. RefusedNotSent'
  BY SMTT(30) DEF RefusedNotSent, Sent, Shape
<1>5. OneActive'
  BY SMTT(30) DEF OneActive, Active, Sent, Shape, Pub, Born,
       ActiveNotDraft, Inside, RefusedNotSent
<1>6. ActiveNotDraft'
  BY SMTT(30) DEF ActiveNotDraft, Active, Sent, Shape, Pub, Born, Inside,
       RefusedNotSent, OneActive
<1>. QED
  BY <1>1, <1>2, <1>3, <1>4, <1>5, <1>6 DEF IInv

(* As Send. *)
LEMMA CreatedStep ==
    ASSUME IInv, NEW c \in Call, Created(c)
    PROVE  IInv'
<1> USE RequestPub, AbsentIsRecord DEF IInv, Created, Goto
<1>1. Shape'
  BY SMTT(30) DEF Shape, PC
<1>2. Inside'
  BY SMTT(30) DEF Inside, Shape
<1>3. Born'
  BY SMTT(30) DEF Born, Active, Sent, Shape, Pub, Inside, PC
<1>4. RefusedNotSent'
  BY SMTT(30) DEF RefusedNotSent, Sent, Shape
<1>5. OneActive'
  BY SMTT(30) DEF OneActive, Active, Sent, Shape, Pub, Born,
       ActiveNotDraft, Inside, RefusedNotSent
<1>6. ActiveNotDraft'
  BY SMTT(30) DEF ActiveNotDraft, Active, Sent, Shape, Pub, Born, Inside,
       RefusedNotSent, OneActive
<1>. QED
  BY <1>1, <1>2, <1>3, <1>4, <1>5, <1>6 DEF IInv

(* A refused request leaves the wire for good. *)
LEMMA SendRefusedStep ==
    ASSUME IInv, NEW c \in Call, SendRefused(c)
    PROVE  IInv'
<1> USE RequestPub, AbsentIsRecord DEF IInv, SendRefused, Goto
<1>1. Shape'
  BY SMTT(30) DEF Shape, PC
<1>2. Inside'
  BY SMTT(30) DEF Inside, Shape
<1>3. Born'
  BY SMTT(30) DEF Born, Active, Sent, Shape, Pub, Inside, PC
<1>4. RefusedNotSent'
  BY SMTT(30) DEF RefusedNotSent, Sent, Shape
<1>5. OneActive'
  BY SMTT(30) DEF OneActive, Active, Sent, Shape, Pub, Born,
       ActiveNotDraft, Inside, RefusedNotSent
<1>6. ActiveNotDraft'
  BY SMTT(30) DEF ActiveNotDraft, Active, Sent, Shape, Pub, Born, Inside,
       RefusedNotSent, OneActive
<1>. QED
  BY <1>1, <1>2, <1>3, <1>4, <1>5, <1>6 DEF IInv

(* The call remains active as long as its request may land. *)
LEMMA AmbiguousStep ==
    ASSUME IInv, NEW c \in Call, Ambiguous(c)
    PROVE  IInv'
<1> USE RequestPub, AbsentIsRecord DEF IInv, Ambiguous, Goto
<1>1. Shape'
  BY SMTT(30) DEF Shape, PC
<1>2. Inside'
  BY SMTT(30) DEF Inside, Shape
<1>3. Born'
  BY SMTT(30) DEF Born, Active, Sent, Shape, Pub, Inside, PC
<1>4. RefusedNotSent'
  BY SMTT(30) DEF RefusedNotSent, Sent, Shape
<1>5. OneActive'
  BY SMTT(30) DEF OneActive, Active, Sent, Shape, Pub, Born,
       ActiveNotDraft, Inside, RefusedNotSent
<1>6. ActiveNotDraft'
  BY SMTT(30) DEF ActiveNotDraft, Active, Sent, Shape, Pub, Born, Inside,
       RefusedNotSent, OneActive
<1>. QED
  BY <1>1, <1>2, <1>3, <1>4, <1>5, <1>6 DEF IInv

(* As Load. *)
LEMMA LoadAgainStep ==
    ASSUME IInv, NEW c \in Call, LoadAgain(c)
    PROVE  IInv'
<1> USE RequestPub, AbsentIsRecord DEF IInv, LoadAgain, Goto, Lock!Enter
<1>0. \A d \in Call : pc[d] \notin {"loaded", "settling", "reverting"}
  BY NobodyInside DEF Lock!Enter
<1>1. Shape'
  BY SMTT(30) DEF Shape, PC
<1>2. Inside'
  BY <1>0, SMTT(30) DEF Inside, Shape
<1>3. Born'
  BY SMTT(30) DEF Born, Active, Sent, Shape, Pub, Inside, PC
<1>4. RefusedNotSent'
  BY SMTT(30) DEF RefusedNotSent, Sent, Shape
<1>5. OneActive'
  BY SMTT(30) DEF OneActive, Active, Sent, Shape, Pub, Born,
       ActiveNotDraft, Inside, RefusedNotSent
<1>6. ActiveNotDraft'
  BY SMTT(30) DEF ActiveNotDraft, Active, Sent, Shape, Pub, Born, Inside,
       RefusedNotSent, OneActive
<1>. QED
  BY <1>1, <1>2, <1>3, <1>4, <1>5, <1>6 DEF IInv

(* The file is left as it is. *)
LEMMA LockTimeoutStep ==
    ASSUME IInv, NEW c \in Call, LockTimeout(c)
    PROVE  IInv'
<1> USE RequestPub, AbsentIsRecord DEF IInv, LockTimeout, Goto
<1>1. Shape'
  BY SMTT(30) DEF Shape, PC
<1>2. Inside'
  BY SMTT(30) DEF Inside, Shape
<1>3. Born'
  BY SMTT(30) DEF Born, Active, Sent, Shape, Pub, Inside, PC
<1>4. RefusedNotSent'
  BY SMTT(30) DEF RefusedNotSent, Sent, Shape
<1>5. OneActive'
  BY SMTT(30) DEF OneActive, Active, Sent, Shape, Pub, Born,
       ActiveNotDraft, Inside, RefusedNotSent
<1>6. ActiveNotDraft'
  BY SMTT(30) DEF ActiveNotDraft, Active, Sent, Shape, Pub, Born, Inside,
       RefusedNotSent, OneActive
<1>. QED
  BY <1>1, <1>2, <1>3, <1>4, <1>5, <1>6 DEF IInv

(* As LockTimeout. *)
LEMMA CrashStep ==
    ASSUME IInv, NEW c \in Call, Crash(c)
    PROVE  IInv'
<1> USE RequestPub, AbsentIsRecord DEF IInv, Crash, Goto, Lock!Leave
<1>1. Shape'
  BY SMTT(30) DEF Shape, PC
<1>2. Inside'
  BY OneInside, SMTT(30) DEF Inside, Shape
<1>3. Born'
  BY SMTT(30) DEF Born, Active, Sent, Shape, Pub, Inside, PC
<1>4. RefusedNotSent'
  BY SMTT(30) DEF RefusedNotSent, Sent, Shape
<1>5. OneActive'
  BY SMTT(30) DEF OneActive, Active, Sent, Shape, Pub, Born,
       ActiveNotDraft, Inside, RefusedNotSent
<1>6. ActiveNotDraft'
  BY SMTT(30) DEF ActiveNotDraft, Active, Sent, Shape, Pub, Born, Inside,
       RefusedNotSent, OneActive
<1>. QED
  BY <1>1, <1>2, <1>3, <1>4, <1>5, <1>6 DEF IInv

(* The record was no active call's: it is new or was a draft. *)
LEMMA SaveDraftStep ==
    ASSUME IInv, NEW c \in Call, SaveDraft(c)
    PROVE  IInv'
<1> DEFINE rec == [status |-> "draft", text |-> req[c].text, updatedAt |-> clock,
                   dispatchedAt |-> None, postId |-> None]
<1>0. /\ req[c] \in Request /\ Pub(c) \in Publication
      /\ copy[c] = file /\ Stored(c) \in Record
      /\ \A d \in Call : pc[d] \in {"loaded", "settling", "reverting"} => d = c
  BY OneInside, RequestPub DEF SaveDraft, IInv, Shape, Inside, Pub, Stored
<1>c. clock \in Nat
  BY XBoundAssumption DEF IInv, Shape, Time
<1>r. rec \in Record /\ rec.status = "draft"
  <2>1. req[c].text \in Text
    BY <1>0 DEF SaveDraft, MayDraft, Request, DraftRequest, PublishRequest, ResolveRequest
  <2>. QED
    BY <2>1, <1>c, NewDraftRecord
<1>s. Save(c, rec)
  BY DEF SaveDraft
<1> HIDE DEF rec
<1>f. /\ file' \in [Publication -> Record]
      /\ file'[Pub(c)] = rec
      /\ \A p \in Publication : p # Pub(c) => file'[p] = file[p]
  BY <1>0, <1>r, <1>s, SaveFile DEF IInv
<1>g. \A d \in Call : Active(d)' => Active(d)
  BY <1>0 DEF IInv, Shape, SaveDraft, Goto, Active, Sent
<1>n. \A d \in Call : Active(d) => Pub(d) # Pub(c)
  BY <1>0 DEF SaveDraft, MayDraft, Stored, IInv, Born, ActiveNotDraft
<1> USE RequestPub, AbsentIsRecord DEF IInv, SaveDraft, Goto, Unlock, Lock!Leave, MayDraft, Stored
<1>1. Shape'
  BY <1>0, <1>r, <1>s, <1>f, SMTT(30) DEF Shape, PC
<1>2. Inside'
  BY <1>0, <1>r, <1>s, <1>f, SMTT(30) DEF Inside, Shape
<1>3. Born'
  BY <1>0, <1>r, <1>s, <1>f, <1>g, <1>n, SMTT(30) DEF Born, Active, Sent,
       Shape, Pub, Inside, PC
<1>4. RefusedNotSent'
  BY <1>0, <1>r, <1>s, <1>f, SMTT(30) DEF RefusedNotSent, Sent, Shape
<1>5. OneActive'
  BY <1>0, <1>r, <1>s, <1>f, <1>g, <1>n, SMTT(30) DEF OneActive, Active,
       Sent, Shape, Pub, Born, ActiveNotDraft, Inside, RefusedNotSent
<1>6. ActiveNotDraft'
  BY <1>0, <1>r, <1>s, <1>f, <1>g, <1>n, SMTT(30) DEF ActiveNotDraft,
       Active, Sent, Shape, Pub, Born, Inside, RefusedNotSent, OneActive
<1>. QED
  BY <1>1, <1>2, <1>3, <1>4, <1>5, <1>6 DEF IInv

(* The record was a draft, so no other call is active on it. *)
LEMMA DispatchStep ==
    ASSUME IInv, NEW c \in Call, Dispatch(c)
    PROVE  IInv'
<1> DEFINE rec == InFlight(Stored(c))
<1>0. /\ req[c] \in Request /\ Pub(c) \in Publication
      /\ copy[c] = file /\ Stored(c) \in Record
      /\ \A d \in Call : pc[d] \in {"loaded", "settling", "reverting"} => d = c
  BY OneInside, RequestPub DEF Dispatch, IInv, Shape, Inside, Pub, Stored
<1>c. clock \in Nat
  BY XBoundAssumption DEF IInv, Shape, Time
<1>r. rec \in Record /\ rec.status = "uncertain"
  BY <1>0, <1>c, RevisedRecord DEF InFlight, Status
<1>s. Save(c, rec) /\ pending' = [pending EXCEPT ![c] = rec]
  BY DEF Dispatch
<1> HIDE DEF rec
<1>f. /\ file' \in [Publication -> Record]
      /\ file'[Pub(c)] = rec
      /\ \A p \in Publication : p # Pub(c) => file'[p] = file[p]
  BY <1>0, <1>r, <1>s, SaveFile DEF IInv
<1>g. \A d \in Call : Active(d)' => Active(d) \/ d = c
  BY <1>0 DEF IInv, Shape, Dispatch, Goto, Active, Sent
<1>n. \A d \in Call : Active(d) => Pub(d) # Pub(c)
  BY <1>0 DEF Dispatch, MayDispatch, Stored, IInv, Born, ActiveNotDraft
<1> USE RequestPub, AbsentIsRecord DEF IInv, Dispatch, Goto, Unlock, Lock!Leave, MayDispatch, Stored
<1>1. Shape'
  BY <1>0, <1>r, <1>s, <1>f, SMTT(30) DEF Shape, PC
<1>2. Inside'
  BY <1>0, <1>r, <1>s, <1>f, SMTT(30) DEF Inside, Shape
<1>3. Born'
  BY <1>0, <1>r, <1>s, <1>f, <1>g, <1>n, SMTT(30) DEF Born, Active, Sent,
       Shape, Pub, Inside, PC
<1>4. RefusedNotSent'
  BY <1>0, <1>r, <1>s, <1>f, SMTT(30) DEF RefusedNotSent, Sent, Shape,
       Born, Active
<1>5. OneActive'
  BY <1>0, <1>r, <1>s, <1>f, <1>g, <1>n, SMTT(30) DEF OneActive, Active,
       Sent, Shape, Pub, Born, ActiveNotDraft, Inside, RefusedNotSent
<1>6. ActiveNotDraft'
  BY <1>0, <1>r, <1>s, <1>f, <1>g, <1>n, SMTT(30) DEF ActiveNotDraft,
       Active, Sent, Shape, Pub, Born, Inside, RefusedNotSent, OneActive
<1>. QED
  BY <1>1, <1>2, <1>3, <1>4, <1>5, <1>6 DEF IInv

(* The record is terminal afterwards. *)
LEMMA ResolveStep ==
    ASSUME IInv, NEW c \in Call, Resolve(c)
    PROVE  IInv'
<1> DEFINE q == IF req[c].outcome = "published" THEN Human ELSE None
<1> DEFINE rec == Revised(Stored(c), req[c].outcome, None, q, clock)
<1>0. /\ req[c] \in Request /\ Pub(c) \in Publication
      /\ copy[c] = file /\ Stored(c) \in Record
      /\ \A d \in Call : pc[d] \in {"loaded", "settling", "reverting"} => d = c
  BY OneInside, RequestPub DEF Resolve, IInv, Shape, Inside, Pub, Stored
<1>c. clock \in Nat
  BY XBoundAssumption DEF IInv, Shape, Time
<1>r. rec \in Record /\ rec.status \in {"published", "abandoned"}
  <2>1. req[c].outcome \in {"published", "abandoned"}
    BY <1>0 DEF Resolve, MayResolve, Request, DraftRequest, PublishRequest, ResolveRequest
  <2>2. CASE req[c].outcome = "published"
    <3>1. rec = Revised(Stored(c), "published", None, Human, clock)
      BY <2>2
    <3> HIDE DEF rec
    <3>2. /\ Revised(Stored(c), "published", None, Human, clock) \in Record
          /\ Revised(Stored(c), "published", None, Human, clock).status = "published"
      BY <1>0, <1>c, RevisedRecord DEF Status
    <3>. QED
      BY <3>1, <3>2
  <2>3. CASE req[c].outcome = "abandoned"
    <3>1. rec = Revised(Stored(c), "abandoned", None, None, clock)
      BY <2>3
    <3> HIDE DEF rec
    <3>2. /\ Revised(Stored(c), "abandoned", None, None, clock) \in Record
          /\ Revised(Stored(c), "abandoned", None, None, clock).status = "abandoned"
      BY <1>0, <1>c, RevisedRecord DEF Status
    <3>. QED
      BY <3>1, <3>2
  <2>. QED
    BY <2>1, <2>2, <2>3
<1>s. Save(c, rec)
  BY DEF Resolve
<1> HIDE DEF rec
<1>f. /\ file' \in [Publication -> Record]
      /\ file'[Pub(c)] = rec
      /\ \A p \in Publication : p # Pub(c) => file'[p] = file[p]
  BY <1>0, <1>r, <1>s, SaveFile DEF IInv
<1>g. \A d \in Call : Active(d)' => Active(d)
  BY <1>0 DEF IInv, Shape, Resolve, Goto, Active, Sent
<1> USE RequestPub, AbsentIsRecord DEF IInv, Resolve, Goto, Unlock, Lock!Leave
<1>1. Shape'
  BY <1>0, <1>r, <1>s, <1>f, SMTT(30) DEF Shape, PC
<1>2. Inside'
  BY <1>0, <1>r, <1>s, <1>f, SMTT(30) DEF Inside, Shape
<1>3. Born'
  BY <1>0, <1>r, <1>s, <1>f, <1>g, SMTT(30) DEF Born, Active, Sent, Shape,
       Pub, Inside, PC, Stored, MayResolve
<1>4. RefusedNotSent'
  BY <1>0, <1>r, <1>s, <1>f, SMTT(30) DEF RefusedNotSent, Sent, Shape
<1>5. OneActive'
  BY <1>0, <1>r, <1>s, <1>f, <1>g, SMTT(30) DEF OneActive, Active, Sent,
       Shape, Pub, Born, ActiveNotDraft, Inside, RefusedNotSent
<1>6. ActiveNotDraft'
  BY <1>0, <1>r, <1>s, <1>f, <1>g, SMTT(30) DEF ActiveNotDraft, Active,
       Sent, Shape, Pub, Born, Inside, RefusedNotSent, OneActive
<1>. QED
  BY <1>1, <1>2, <1>3, <1>4, <1>5, <1>6 DEF IInv

(* As Resolve. *)
LEMMA SettleStep ==
    ASSUME IInv, NEW c \in Call, Settle(c)
    PROVE  IInv'
<1> DEFINE rec == Revised(IF Stored(c).status = "absent" THEN pending[c] ELSE Stored(c),
                       "published", None, c, clock)
<1>0. /\ req[c] \in Request /\ Pub(c) \in Publication
      /\ copy[c] = file /\ Stored(c) \in Record
      /\ \A d \in Call : pc[d] \in {"loaded", "settling", "reverting"} => d = c
  BY OneInside, RequestPub DEF Settle, IInv, Shape, Inside, Pub, Stored
<1>c. clock \in Nat
  BY XBoundAssumption DEF IInv, Shape, Time
<1>r. rec \in Record /\ rec.status = "published"
  <2> DEFINE base == IF Stored(c).status = "absent" THEN pending[c] ELSE Stored(c)
  <2>1. base \in Record
    BY <1>0 DEF IInv, Shape
  <2>2. rec = Revised(base, "published", None, c, clock)
    OBVIOUS
  <2> HIDE DEF base, rec
  <2>3. /\ Revised(base, "published", None, c, clock) \in Record
        /\ Revised(base, "published", None, c, clock).status = "published"
    BY <2>1, <1>c, RevisedRecord DEF Status
  <2>. QED
    BY <2>2, <2>3
<1>s. Save(c, rec)
  BY DEF Settle
<1> HIDE DEF rec
<1>f. /\ file' \in [Publication -> Record]
      /\ file'[Pub(c)] = rec
      /\ \A p \in Publication : p # Pub(c) => file'[p] = file[p]
  BY <1>0, <1>r, <1>s, SaveFile DEF IInv
<1>g. \A d \in Call : Active(d)' => Active(d)
  BY <1>0 DEF IInv, Shape, Settle, Goto, Active, Sent
<1> USE RequestPub, AbsentIsRecord DEF IInv, Settle, Goto, Unlock, Lock!Leave
<1>1. Shape'
  BY <1>0, <1>r, <1>s, <1>f, SMTT(30) DEF Shape, PC
<1>2. Inside'
  BY <1>0, <1>r, <1>s, <1>f, SMTT(30) DEF Inside, Shape
<1>3. Born'
  BY <1>0, <1>r, <1>s, <1>f, <1>g, SMTT(30) DEF Born, Active, Sent, Shape,
       Pub, Inside, PC
<1>4. RefusedNotSent'
  BY <1>0, <1>r, <1>s, <1>f, SMTT(30) DEF RefusedNotSent, Sent, Shape
<1>5. OneActive'
  BY <1>0, <1>r, <1>s, <1>f, <1>g, SMTT(30) DEF OneActive, Active, Sent,
       Shape, Pub, Born, ActiveNotDraft, Inside, RefusedNotSent
<1>6. ActiveNotDraft'
  BY <1>0, <1>r, <1>s, <1>f, <1>g, SMTT(30) DEF ActiveNotDraft, Active,
       Sent, Shape, Pub, Born, Inside, RefusedNotSent, OneActive
<1>. QED
  BY <1>1, <1>2, <1>3, <1>4, <1>5, <1>6 DEF IInv

(* Only a refused call reverts, and nobody else is active on its record. *)
LEMMA RevertStep ==
    ASSUME IInv, NEW c \in Call, Revert(c)
    PROVE  IInv'
<1>0. /\ req[c] \in Request /\ Pub(c) \in Publication
      /\ copy[c] = file /\ Stored(c) \in Record
      /\ \A d \in Call : pc[d] \in {"loaded", "settling", "reverting"} => d = c
  BY OneInside, RequestPub DEF Revert, IInv, Shape, Inside, Pub, Stored
<1>00. /\ file' \in [Publication -> Record]
       /\ MayRevert(c) => file'[Pub(c)].status = "draft"
       /\ ~MayRevert(c) => file'[Pub(c)] = file[Pub(c)]
       /\ \A p \in Publication : p # Pub(c) => file'[p] = file[p]
  <2>1. CASE MayRevert(c)
    <3>1. LaterOf(clock, Stored(c).updatedAt + 1) \in Nat
      BY <1>0, XBoundAssumption DEF LaterOf, Time, IInv, Shape, Record
    <3> DEFINE rec == Revised(Stored(c), "draft", None, None,
                              LaterOf(clock, Stored(c).updatedAt + 1))
    <3>2. rec \in Record /\ rec.status = "draft"
      BY <1>0, <3>1, RevisedRecord DEF Status
    <3>3. Save(c, rec)
      BY <2>1 DEF Revert
    <3> HIDE DEF rec
    <3>. QED
      BY <2>1, <1>0, <3>2, <3>3, SaveFile DEF IInv
  <2>2. CASE ~MayRevert(c)
    BY <2>2, <1>0 DEF Revert, IInv, Shape
  <2>. QED
    BY <2>1, <2>2
<1>g. \A d \in Call : Active(d)' => Active(d)
  BY <1>0 DEF IInv, Shape, Revert, Goto, Active, Sent
<1> USE RequestPub, AbsentIsRecord DEF IInv, Revert, Goto, Unlock, Lock!Leave, MayRevert, Stored
<1>1. Shape'
  BY <1>0, <1>00, SMTT(30) DEF Shape, PC
<1>2. Inside'
  BY <1>0, <1>00, SMTT(30) DEF Inside, Shape
<1>3. Born'
  <2>1. \A p \in Publication : file'[p].status # "absent" => p \in born
    BY <1>0, <1>00, SMTT(30) DEF Born
  <2>2. \A d \in Call : Active(d)' => pc'[d] \notin {"idle", "loaded"}
    BY <1>0, <1>g, SMTT(30) DEF Born, Shape, PC
  <2>3. \A d \in Call : Active(d)' => Pub(d)' \in born
    BY <1>g, SMTT(30) DEF Born, Pub
  <2>. QED
    BY <2>1, <2>2, <2>3 DEF Born
<1>4. RefusedNotSent'
  BY <1>0, <1>00, SMTT(30) DEF RefusedNotSent, Sent, Shape
<1>5. OneActive'
  BY <1>0, <1>00, <1>g, SMTT(30) DEF OneActive, Active, Sent, Shape, Pub,
       Born, ActiveNotDraft, Inside, RefusedNotSent
<1>6. ActiveNotDraft'
  BY <1>0, <1>00, <1>g, SMTT(30) DEF ActiveNotDraft, Active, Sent, Shape,
       Pub, Born, Inside, RefusedNotSent, OneActive
<1>. QED
  BY <1>1, <1>2, <1>3, <1>4, <1>5, <1>6 DEF IInv

(* The clock decides nothing here. *)
LEMMA TickStep ==
    ASSUME IInv, Tick
    PROVE  IInv'
<1> USE RequestPub, AbsentIsRecord DEF IInv, Tick
<1>1. Shape'
  BY SMTT(30) DEF Shape, PC
<1>2. Inside'
  BY SMTT(30) DEF Inside, Shape
<1>3. Born'
  BY SMTT(30) DEF Born, Active, Sent, Shape, Pub, Inside, PC
<1>4. RefusedNotSent'
  BY SMTT(30) DEF RefusedNotSent, Sent, Shape
<1>5. OneActive'
  BY SMTT(30) DEF OneActive, Active, Sent, Shape, Pub, Born,
       ActiveNotDraft, Inside, RefusedNotSent
<1>6. ActiveNotDraft'
  BY SMTT(30) DEF ActiveNotDraft, Active, Sent, Shape, Pub, Born, Inside,
       RefusedNotSent, OneActive
<1>. QED
  BY <1>1, <1>2, <1>3, <1>4, <1>5, <1>6 DEF IInv

(* Every record is gone, and its id stays used. *)
LEMMA DamageStep ==
    ASSUME IInv, Damage
    PROVE  IInv'
<1> USE RequestPub, AbsentIsRecord DEF IInv, Damage
<1>0. \A d \in Call : pc[d] \notin {"loaded", "settling", "reverting"}
  BY NobodyInside
<1>00. \A p \in Publication : EmptyFile[p].status = "absent"
  BY DEF EmptyFile, Absent
<1>1. Shape'
  BY SMTT(30) DEF Shape, PC
<1>2. Inside'
  BY <1>0, <1>00, SMTT(30) DEF Inside, Shape
<1>3. Born'
  BY <1>0, <1>00, SMTT(30) DEF Born, Active, Sent, Shape, Pub, Inside, PC
<1>4. RefusedNotSent'
  BY SMTT(30) DEF RefusedNotSent, Sent, Shape
<1>5. OneActive'
  BY SMTT(30) DEF OneActive, Active, Sent, Shape, Pub, Born,
       ActiveNotDraft, Inside, RefusedNotSent
<1>6. ActiveNotDraft'
  BY <1>0, <1>00, SMTT(30) DEF ActiveNotDraft, Active, Sent, Shape, Pub,
       Born, Inside, RefusedNotSent, OneActive
<1>. QED
  BY <1>1, <1>2, <1>3, <1>4, <1>5, <1>6 DEF IInv

-----------------------------------------------------------------------------

(* IInv is inductive: one case per action. *)
LEMMA StepIInv == IInv /\ [Next]_vars => IInv'
<1> SUFFICES ASSUME IInv, [Next]_vars
             PROVE  IInv'
  OBVIOUS
<1>1. CASE UNCHANGED vars
  BY <1>1
  DEF vars, IInv, Shape, Inside, Born, RefusedNotSent, OneActive, ActiveNotDraft,
      Active, Sent, Pub
<1>2. CASE Next
  BY <1>2, LoadStep, SaveDraftStep, DispatchStep, ResolveStep, RefuseStep, SendStep,
     LandStep, CreatedStep, SendRefusedStep, AmbiguousStep, LoadAgainStep, SettleStep,
     RevertStep, LockTimeoutStep, CrashStep, TickStep, DamageStep
  DEF Next
<1>. QED
  BY <1>1, <1>2

(* Every reachable state of the store satisfies the inductive invariant. *)
THEOREM Invariance == Spec => []IInv
BY InitIInv, StepIInv, PTL DEF Spec

(* No record is put on X twice. *)
THEOREM AtMostOnePostHolds == Spec => []AtMostOnePost
<1>1. IInv => AtMostOnePost
  BY DEF IInv, OneActive, Active, AtMostOnePost
<1>. QED
  BY <1>1, Invariance, PTL

(* A record whose post exists or may still land does not read "draft". *)
THEOREM NeverInvitesResendHolds == Spec => []NeverInvitesResend
<1>1. IInv => NeverInvitesResend
  BY DEF IInv, ActiveNotDraft, Active, NeverInvitesResend
<1>. QED
  BY <1>1, Invariance, PTL

-----------------------------------------------------------------------------
(* What the stored record is worth: a published record is evidence of the  *)
(* post it names, and a token dispatches once while the clock is steady.   *)

(* A record that is still there has the wording a call sent, or will send. *)
Worded ==
    \A c \in Call : Active(c) /\ file[Pub(c)].status # "absent" =>
        file[Pub(c)].text = pending[c].text

Evidence ==
    /\ \A p \in Publication : Parses(file[p])
    /\ \A c \in Call : pc[c] \in {"created", "settling"} => c \in posts
    /\ Worded
    /\ PublishedIsEvidence

-----------------------------------------------------------------------------

(* A call in a critical section replaces its record in the file as it is. *)
LEMMA SaveInside ==
    ASSUME IInv, NEW c \in Call, pc[c] \in {"loaded", "settling", "reverting"}
    PROVE  /\ req[c] \in Request /\ Pub(c) \in Publication
           /\ file \in [Publication -> Record]
           /\ Stored(c) = file[Pub(c)]
           /\ \A rec : Save(c, rec) => file' = [file EXCEPT ![Pub(c)] = rec]
BY RequestPub DEF IInv, Shape, Inside, Pub, Stored, Save

LEMMA RevisedFields ==
    ASSUME NEW rec \in Record, NEW status, NEW d, NEW q, NEW u
    PROVE  /\ Revised(rec, status, d, q, u).status = status
           /\ Revised(rec, status, d, q, u).text = rec.text
           /\ Revised(rec, status, d, q, u).dispatchedAt = d
           /\ Revised(rec, status, d, q, u).postId = q
           /\ Revised(rec, status, d, q, u).updatedAt = u
BY DEF Revised, Record

(* A draft call writes only where no call is active. *)
LEMMA DraftedInactive ==
    ASSUME IInv, NEW c \in Call, pc[c] = "loaded", MayDraft(c)
    PROVE  /\ \A d \in Call : Active(d) => Pub(d) # Pub(c)
           /\ file[Pub(c)].status # "published"
BY SaveInside DEF MayDraft, IInv, Born, ActiveNotDraft

LEMMA SaveDraftEvidence ==
    ASSUME IInv, Evidence, NEW c \in Call, SaveDraft(c)
    PROVE  Evidence'
<1> DEFINE rec == [status |-> "draft", text |-> req[c].text, updatedAt |-> clock,
                   dispatchedAt |-> None, postId |-> None]
<1>1. /\ pc[c] = "loaded" /\ MayDraft(c) /\ Save(c, rec)
      /\ pc' = [pc EXCEPT ![c] = "done"]
      /\ UNCHANGED <<req, pending, wire, posts>>
  BY DEF SaveDraft, Goto
<1>2. /\ Pub(c) \in Publication /\ file \in [Publication -> Record]
      /\ file' = [file EXCEPT ![Pub(c)] = rec]
  BY <1>1, SaveInside
<1>3. rec.status = "draft" /\ rec.dispatchedAt = None /\ rec.postId = None
  OBVIOUS
<1> HIDE DEF rec
<1>4. \A d \in Call : Active(d)' => Active(d)
  BY <1>1 DEF IInv, Shape, Active, Sent
<1>5. \A p \in Publication : Parses(file'[p])
  BY <1>2, <1>3 DEF Evidence, Parses
<1>6. \A d \in Call : pc'[d] \in {"created", "settling"} => d \in posts'
  BY <1>1 DEF Evidence, IInv, Shape
<1>7. Worded'
  BY <1>1, <1>2, <1>4, DraftedInactive DEF Evidence, Worded, Pub
<1>8. PublishedIsEvidence'
  BY <1>1, <1>2, <1>3 DEF Evidence, PublishedIsEvidence, Pub
<1>. QED
  BY <1>5, <1>6, <1>7, <1>8 DEF Evidence

(* The call that dispatches becomes active with the wording it stored. *)
LEMMA DispatchEvidence ==
    ASSUME IInv, IInv', Evidence, NEW c \in Call, Dispatch(c)
    PROVE  Evidence'
<1> DEFINE rec == InFlight(Stored(c))
<1>1. /\ pc[c] = "loaded" /\ Stored(c).status = "draft" /\ Save(c, rec)
      /\ pending' = [pending EXCEPT ![c] = rec]
      /\ pc' = [pc EXCEPT ![c] = "dispatched"]
      /\ UNCHANGED <<req, wire, posts>>
  BY DEF Dispatch, Goto, MayDispatch
<1>2. /\ Pub(c) \in Publication /\ file \in [Publication -> Record]
      /\ Stored(c) = file[Pub(c)]
      /\ file' = [file EXCEPT ![Pub(c)] = rec]
  BY <1>1, SaveInside
<1>3. /\ rec.status = "uncertain" /\ rec.postId = None /\ rec.dispatchedAt = clock
      /\ rec.text = file[Pub(c)].text
  BY <1>2, RevisedFields DEF InFlight
<1>4. clock \in Nat /\ clock # None
  BY NoneNotTime, XBoundAssumption DEF IInv, Shape, Time
<1> HIDE DEF rec
<1>5. \A d \in Call : d # c /\ Active(d)' => Active(d)
  BY <1>1 DEF IInv, Shape, Active, Sent
<1>6. ~Active(c)
  BY <1>1 DEF IInv, Born
<1>7. \A d \in Call : Active(d) => Pub(d) # Pub(c)
  BY <1>1, <1>2 DEF IInv, ActiveNotDraft
<1>8. \A p \in Publication : Parses(file'[p])
  BY <1>2, <1>3, <1>4 DEF Evidence, Parses
<1>9. \A d \in Call : pc'[d] \in {"created", "settling"} => d \in posts'
  BY <1>1 DEF Evidence, IInv, Shape
<1>10. Worded'
  <2>1. file'[Pub(c)].text = pending'[c].text
    BY <1>1, <1>2 DEF IInv, Shape
  <2>2. \A d \in Call : d # c => pending'[d] = pending[d]
    BY <1>1 DEF IInv, Shape
  <2>. QED
    BY <1>1, <1>2, <1>5, <1>7, <2>1, <2>2 DEF Evidence, Worded, Pub
<1>11. PublishedIsEvidence'
  <2>1. \A d \in Call : d \in posts => pending'[d] = pending[d]
    BY <1>1, <1>6 DEF IInv, Shape, Active, Sent
  <2>2. posts \subseteq Call
    BY DEF IInv, Shape
  <2>. QED
    BY <1>1, <1>2, <1>3, <2>1, <2>2 DEF Evidence, PublishedIsEvidence, Pub
<1>. QED
  BY <1>8, <1>9, <1>10, <1>11 DEF Evidence

(* A person's word changes the state of a record, not its wording. *)
LEMMA ResolveEvidence ==
    ASSUME IInv, Evidence, NEW c \in Call, Resolve(c)
    PROVE  Evidence'
<1> DEFINE rec == Revised(Stored(c), req[c].outcome, None,
                          IF req[c].outcome = "published" THEN Human ELSE None, clock)
<1>1. /\ pc[c] = "loaded" /\ MayResolve(c) /\ Save(c, rec)
      /\ pc' = [pc EXCEPT ![c] = "done"]
      /\ UNCHANGED <<req, pending, wire, posts>>
  BY DEF Resolve, Goto
<1>2. /\ req[c] \in Request /\ Pub(c) \in Publication /\ file \in [Publication -> Record]
      /\ Stored(c) = file[Pub(c)]
      /\ file' = [file EXCEPT ![Pub(c)] = rec]
  BY <1>1, SaveInside
<1>3. req[c].outcome \in {"published", "abandoned"}
  BY <1>1, <1>2 DEF MayResolve, Request, DraftRequest, PublishRequest, ResolveRequest
<1>4. /\ rec.status = req[c].outcome /\ rec.dispatchedAt = None
      /\ rec.postId = IF req[c].outcome = "published" THEN Human ELSE None
      /\ rec.text = file[Pub(c)].text
  BY <1>2, RevisedFields
<1> HIDE DEF rec
<1>5. \A d \in Call : Active(d)' => Active(d)
  BY <1>1 DEF IInv, Shape, Active, Sent
<1>6. file[Pub(c)].status # "absent"
  BY <1>1, <1>2 DEF MayResolve
<1>7. \A p \in Publication : Parses(file'[p])
  BY <1>2, <1>3, <1>4, XNoneAssumption DEF Evidence, Parses
<1>8. \A d \in Call : pc'[d] \in {"created", "settling"} => d \in posts'
  BY <1>1 DEF Evidence, IInv, Shape
<1>9. Worded'
  BY <1>1, <1>2, <1>4, <1>5, <1>6 DEF Evidence, Worded, Pub
<1>10. PublishedIsEvidence'
  BY <1>1, <1>2, <1>3, <1>4 DEF Evidence, PublishedIsEvidence, Pub
<1>. QED
  BY <1>7, <1>8, <1>9, <1>10 DEF Evidence

(* What is recorded is the call's own post, in the wording it sent. *)
LEMMA SettleEvidence ==
    ASSUME IInv, Evidence, NEW c \in Call, Settle(c)
    PROVE  Evidence'
<1> DEFINE base == IF Stored(c).status = "absent" THEN pending[c] ELSE Stored(c)
           rec == Revised(base, "published", None, c, clock)
<1>1. /\ pc[c] = "settling" /\ Save(c, rec)
      /\ pc' = [pc EXCEPT ![c] = "done"]
      /\ UNCHANGED <<req, pending, wire, posts>>
  BY DEF Settle, Goto
<1>2. /\ Pub(c) \in Publication /\ file \in [Publication -> Record]
      /\ Stored(c) = file[Pub(c)]
      /\ file' = [file EXCEPT ![Pub(c)] = rec]
  BY <1>1, SaveInside
<1>3. Active(c) /\ c \in posts
  BY <1>1 DEF Active, Evidence
<1>4. base \in Record /\ base.text = pending[c].text
  BY <1>2, <1>3 DEF Evidence, Worded, IInv, Shape
<1> HIDE DEF base
<1>5. /\ rec.status = "published" /\ rec.dispatchedAt = None /\ rec.postId = c
      /\ rec.text = pending[c].text
  BY <1>4, RevisedFields
<1> HIDE DEF rec
<1>6. \A d \in Call : Active(d)' => Active(d)
  BY <1>1, <1>3 DEF IInv, Shape, Active, Sent
<1>7. \A d \in Call : Active(d) /\ Pub(d) = Pub(c) => d = c
  BY <1>3 DEF IInv, OneActive
<1>8. \A p \in Publication : Parses(file'[p])
  BY <1>2, <1>5, XNoneAssumption DEF Evidence, Parses
<1>9. \A d \in Call : pc'[d] \in {"created", "settling"} => d \in posts'
  BY <1>1 DEF Evidence, IInv, Shape
<1>10. Worded'
  BY <1>1, <1>2, <1>5, <1>6, <1>7 DEF Evidence, Worded, Pub
<1>11. PublishedIsEvidence'
  BY <1>1, <1>2, <1>3, <1>5 DEF Evidence, PublishedIsEvidence, Pub
<1>. QED
  BY <1>8, <1>9, <1>10, <1>11 DEF Evidence

(* Only a record whose outcome is unknown is undone, and its wording stays. *)
LEMMA RevertEvidence ==
    ASSUME IInv, Evidence, NEW c \in Call, Revert(c)
    PROVE  Evidence'
<1> DEFINE rec == Revised(Stored(c), "draft", None, None,
                          LaterOf(clock, Stored(c).updatedAt + 1))
<1>1. /\ pc[c] = "reverting"
      /\ (MayRevert(c) /\ Save(c, rec)) \/ UNCHANGED file
      /\ pc' = [pc EXCEPT ![c] = "done"]
      /\ UNCHANGED <<req, pending, wire, posts>>
  BY DEF Revert, Goto
<1>2. /\ Pub(c) \in Publication /\ file \in [Publication -> Record]
      /\ Stored(c) = file[Pub(c)]
      /\ Save(c, rec) => file' = [file EXCEPT ![Pub(c)] = rec]
  BY <1>1, SaveInside
<1>3. /\ rec.status = "draft" /\ rec.dispatchedAt = None /\ rec.postId = None
      /\ rec.text = file[Pub(c)].text
  BY <1>2, RevisedFields
<1>4. MayRevert(c) => file[Pub(c)].status = "uncertain"
  BY <1>2 DEF MayRevert
<1> HIDE DEF rec
<1>5. \A d \in Call : Active(d)' => Active(d)
  BY <1>1 DEF IInv, Shape, Active, Sent
<1>6. \A p \in Publication :
        \/ file'[p] = file[p]
        \/ /\ file[p].status = "uncertain"
           /\ file'[p] = rec /\ rec.text = file[p].text
  BY <1>1, <1>2, <1>3, <1>4
<1>7. \A p \in Publication : Parses(file'[p])
  BY <1>3, <1>6 DEF Evidence, Parses
<1>8. \A d \in Call : pc'[d] \in {"created", "settling"} => d \in posts'
  BY <1>1 DEF Evidence, IInv, Shape
<1>9. Worded'
  <2>1. \A d \in Call : Active(d) => Pub(d) \in Publication
    BY RequestPub DEF IInv, Shape, Born, Pub
  <2>. QED
    BY <1>1, <1>5, <1>6, <2>1 DEF Evidence, Worded, Pub
<1>10. PublishedIsEvidence'
  BY <1>1, <1>3, <1>6 DEF Evidence, PublishedIsEvidence, Pub
<1>. QED
  BY <1>7, <1>8, <1>9, <1>10 DEF Evidence

-----------------------------------------------------------------------------

(* The steps that write no record. *)
LEMMA QuietEvidence ==
    ASSUME IInv, Evidence, NEW c \in Call,
           \/ Refuse(c) \/ Send(c) \/ Land(c) \/ Created(c) \/ SendRefused(c)
           \/ Ambiguous(c) \/ LoadAgain(c) \/ LockTimeout(c) \/ Crash(c)
    PROVE  Evidence'
<1>1. /\ UNCHANGED <<file, req, pending>>
      /\ posts \subseteq posts'
      /\ \A d \in Call : Active(d)' => Active(d)
      /\ \A d \in Call : pc'[d] \in {"created", "settling"} => d \in posts'
  BY DEF IInv, Shape, Evidence, Active, Sent, Refuse, Send, Land, Created, SendRefused,
         Ambiguous, LoadAgain, LockTimeout, Crash, Goto
<1>. QED
  BY <1>1 DEF Evidence, Worded, PublishedIsEvidence, Pub

(* A call that loads was idle, and has neither sent nor dispatched. *)
LEMMA LoadEvidence ==
    ASSUME IInv, Evidence, NEW c \in Call, Load(c)
    PROVE  Evidence'
<1>1. /\ pc[c] = "idle" /\ pc' = [pc EXCEPT ![c] = "loaded"]
      /\ UNCHANGED <<file, pending, wire, posts>>
      /\ \A d \in Call : d # c => req'[d] = req[d]
  BY DEF Load, Goto, IInv, Shape
<1>2. ~Active(c) /\ c \notin posts
  BY <1>1 DEF IInv, Born, Active, Sent
<1>3. \A d \in Call : Active(d)' => Active(d) /\ d # c
  BY <1>1, <1>2 DEF IInv, Shape, Active, Sent
<1>4. \A d \in Call : pc'[d] \in {"created", "settling"} => d \in posts'
  BY <1>1 DEF Evidence, IInv, Shape
<1>5. Worded'
  BY <1>1, <1>3 DEF Evidence, Worded, Pub
<1>6. PublishedIsEvidence'
  <2>1. posts \subseteq Call
    BY DEF IInv, Shape
  <2>. QED
    BY <1>1, <1>2, <2>1 DEF Evidence, PublishedIsEvidence, Pub
<1>. QED
  BY <1>1, <1>4, <1>5, <1>6 DEF Evidence

LEMMA DamageEvidence ==
    ASSUME IInv, Evidence, Damage
    PROVE  Evidence'
<1>1. /\ file' = EmptyFile
      /\ UNCHANGED <<pc, req, pending, wire, posts>>
  BY DEF Damage
<1>2. \A p \in Publication : EmptyFile[p] = Absent
  BY DEF EmptyFile
<1>3. \A d \in Call : Active(d) => Pub(d) \in Publication
  BY RequestPub DEF IInv, Shape, Born, Pub
<1>4. Worded'
  BY <1>1, <1>2, <1>3 DEF Worded, Active, Sent, Pub, Absent
<1>. QED
  BY <1>1, <1>2, <1>4 DEF Evidence, Parses, PublishedIsEvidence, Absent

LEMMA InitEvidence == Init => Evidence
<1> SUFFICES ASSUME Init PROVE Evidence
  OBVIOUS
<1>1. \A p \in Publication : file[p] = Absent
  BY DEF Init, EmptyFile
<1>2. \A c \in Call : ~Active(c) /\ pc[c] = "idle"
  BY DEF Init, Active, Sent
<1>. QED
  BY <1>1, <1>2 DEF Evidence, Worded, Parses, PublishedIsEvidence, Absent

LEMMA StepEvidence == IInv /\ IInv' /\ Evidence /\ [Next]_vars => Evidence'
<1> SUFFICES ASSUME IInv, IInv', Evidence, [Next]_vars PROVE Evidence'
  OBVIOUS
<1>1. CASE Tick \/ UNCHANGED vars
  BY <1>1 DEF Tick, vars, Evidence, Worded, PublishedIsEvidence, Active, Sent, Pub
<1>2. CASE Damage
  BY <1>2, DamageEvidence
<1>3. CASE \E c \in Call : Load(c) \/ SaveDraft(c) \/ Dispatch(c) \/ Resolve(c)
                           \/ Settle(c) \/ Revert(c)
  BY <1>3, LoadEvidence, SaveDraftEvidence, DispatchEvidence, ResolveEvidence,
     SettleEvidence, RevertEvidence
<1>4. CASE \E c \in Call :
             \/ Refuse(c) \/ Send(c) \/ Land(c) \/ Created(c) \/ SendRefused(c)
             \/ Ambiguous(c) \/ LoadAgain(c) \/ LockTimeout(c) \/ Crash(c)
  BY <1>4, QuietEvidence
<1>. QED
  BY <1>1, <1>2, <1>3, <1>4 DEF Next

(* A published record names a post that exists, in the wording that went out. *)
THEOREM PublishedIsEvidenceHolds == Spec => []PublishedIsEvidence
<1>1. Evidence => PublishedIsEvidence
  BY DEF Evidence
<1>. QED
  BY <1>1, InitEvidence, StepEvidence, Invariance, PTL DEF Spec

-----------------------------------------------------------------------------
(* Types. *)

(* What the types say beyond Shape and Evidence. *)
Rest ==
    /\ born \in SUBSET Publication
    /\ tokens \in SUBSET Token
    /\ holder \in SUBSET Section
    /\ spent \in SUBSET Section
    /\ damages \in 0..MaxDamage
    /\ steady \in BOOLEAN

LEMMA LockTypes ==
    ASSUME holder \in SUBSET Section, spent \in SUBSET Section
    PROVE  /\ \A x \in Section : Lock!Enter(x) => holder' \in SUBSET Section /\ spent' \in SUBSET Section
           /\ \A xs \in SUBSET Section :
                 Lock!Leave(xs) => holder' \in SUBSET Section /\ spent' \in SUBSET Section
BY DEF Lock!Enter, Lock!Leave

LEMMA SectionOf ==
    ASSUME NEW c \in Call
    PROVE  /\ <<c, "first">> \in Section /\ <<c, "settle">> \in Section
           /\ {<<c, "first">>} \in SUBSET Section /\ {<<c, "settle">>} \in SUBSET Section
           /\ {<<c, "first">>, <<c, "settle">>} \in SUBSET Section
BY DEF Section

LEMMA LeaveTypes ==
    ASSUME Rest, NEW c \in Call,
           \/ Unlock(c, "first") \/ Unlock(c, "settle")
           \/ Lock!Leave({<<c, "first">>, <<c, "settle">>})
    PROVE  holder' \in SUBSET Section /\ spent' \in SUBSET Section
BY LockTypes, SectionOf DEF Rest, Unlock

LEMMA EnterTypes ==
    ASSUME Rest, NEW c \in Call,
           Lock!Enter(<<c, "first">>) \/ Lock!Enter(<<c, "settle">>)
    PROVE  holder' \in SUBSET Section /\ spent' \in SUBSET Section
BY LockTypes, SectionOf DEF Rest

LEMMA RequestKinds ==
    ASSUME NEW r \in Request
    PROVE  /\ r.op = "draft" => r \in DraftRequest
           /\ r.op = "publish" => r \in PublishRequest
BY DEF Request, DraftRequest, PublishRequest, ResolveRequest

(* A draft call hands out a token for its record and the time it read. *)
LEMMA MintedToken ==
    ASSUME IInv, NEW c \in Call, pc[c] = "loaded", MayDraft(c)
    PROVE  [pub |-> Pub(c), text |-> req[c].text, mintedAt |-> clock] \in Token
<1>1. req[c] \in DraftRequest
  BY SaveInside, RequestKinds DEF MayDraft
<1>2. clock \in Time
  BY DEF IInv, Shape
<1>. QED
  BY <1>1, <1>2 DEF DraftRequest, Token, Pub

LEMMA StepRest ==
    ASSUME IInv, Rest, [Next]_vars
    PROVE  Rest'
<1>1. CASE UNCHANGED vars
  BY <1>1 DEF vars, Rest
<1>2. CASE Tick
  BY <1>2 DEF Tick, Rest
<1>3. CASE Damage
  BY <1>3, XBoundAssumption DEF Damage, Rest
<1>4. ASSUME NEW c \in Call, SaveDraft(c) PROVE Rest'
  <2>1. holder' \in SUBSET Section /\ spent' \in SUBSET Section
    BY <1>4, LeaveTypes DEF SaveDraft
  <2>2. Pub(c) \in Publication
    BY <1>4, SaveInside DEF SaveDraft
  <2>3. tokens' \in SUBSET Token
    BY <1>4, MintedToken DEF SaveDraft, Rest
  <2>4. steady' \in BOOLEAN
    BY <1>4 DEF SaveDraft
  <2>. QED
    BY <1>4, <2>1, <2>2, <2>3, <2>4 DEF SaveDraft, Rest
<1>5. ASSUME NEW c \in Call,
             Dispatch(c) \/ Resolve(c) \/ Refuse(c) \/ Settle(c) \/ Revert(c) \/ Crash(c)
      PROVE  Rest'
  <2>1. holder' \in SUBSET Section /\ spent' \in SUBSET Section
    BY <1>5, LeaveTypes DEF Dispatch, Resolve, Refuse, Settle, Revert, Crash
  <2>2. UNCHANGED <<born, tokens, damages, steady>>
    BY <1>5 DEF Dispatch, Resolve, Refuse, Settle, Revert, Crash
  <2>. QED
    BY <2>1, <2>2 DEF Rest
<1>6. ASSUME NEW c \in Call, Load(c) \/ LoadAgain(c) PROVE Rest'
  <2>1. holder' \in SUBSET Section /\ spent' \in SUBSET Section
    BY <1>6, EnterTypes DEF Load, LoadAgain
  <2>2. UNCHANGED <<born, tokens, damages, steady>>
    BY <1>6 DEF Load, LoadAgain
  <2>. QED
    BY <2>1, <2>2 DEF Rest
<1>7. ASSUME NEW c \in Call,
             Send(c) \/ Land(c) \/ Created(c) \/ SendRefused(c) \/ Ambiguous(c) \/ LockTimeout(c)
      PROVE  Rest'
  BY <1>7 DEF Send, Land, Created, SendRefused, Ambiguous, LockTimeout, Rest
<1>. QED
  BY <1>1, <1>2, <1>3, <1>4, <1>5, <1>6, <1>7 DEF Next

LEMMA InitRest == Init => Rest
BY XBoundAssumption DEF Init, Rest

(* Every field keeps its type, and every stored record parses. *)
THEOREM TypesHold == Spec => []TypeOK
<1>1. IInv /\ Evidence /\ Rest => TypeOK
  BY DEF IInv, Shape, Evidence, Rest, TypeOK
<1>2. IInv /\ Rest /\ [Next]_vars => Rest'
  BY StepRest
<1>. QED
  BY <1>1, <1>2, InitRest, InitEvidence, StepEvidence, Invariance, PTL DEF Spec

-----------------------------------------------------------------------------
(* Tokens. *)

(* Who dispatched had a token of its record, and will not ask again. *)
Asked ==
    \A c \in Call :
        /\ pc[c] # "idle" /\ req[c] \in PublishRequest =>
              req[c].token \in tokens /\ req[c].token.pub = req[c].pub
        /\ pc[c] \in {"idle", "loaded"} => pending[c] = Absent
        /\ Dispatched(c) => pc[c] # "idle" /\ req[c] \in PublishRequest

(* No token is younger than the revision it might confirm, and one that was *)
(* spent is older than the revision of a draft.                             *)
Older ==
    /\ \A t \in tokens : t.mintedAt <= clock
    /\ \A p \in Publication, t \in tokens :
          t.pub = p /\ file[p].status \in {"draft", "uncertain"} => t.mintedAt <= file[p].updatedAt
    /\ \A c \in Call :
          Dispatched(c) /\ file[Pub(c)].status = "draft" =>
              req[c].token.mintedAt < file[Pub(c)].updatedAt

Spending ==
    /\ Asked
    /\ steady => Older
    /\ TokenOneTime

LEMMA TokenParts ==
    ASSUME IInv, Rest, Asked, NEW c \in Call, pc[c] # "idle", req[c] \in PublishRequest
    PROVE  /\ req[c].token \in tokens /\ req[c].token \in Token
           /\ req[c].token.pub = Pub(c) /\ Pub(c) \in Publication
           /\ req[c].token.mintedAt \in Nat
BY XBoundAssumption DEF Asked, Rest, PublishRequest, Token, Time, Pub

LEMMA TokenTimes ==
    ASSUME IInv, Rest
    PROVE  /\ clock \in Nat
           /\ \A t \in tokens : t.mintedAt \in Nat
           /\ \A p \in Publication : file[p].updatedAt \in Nat
BY XBoundAssumption DEF IInv, Shape, Rest, Token, Time, Record

(* A token minted now is younger than all that were ever spent. *)
LEMMA SaveDraftSpending ==
    ASSUME IInv, Rest, Spending, NEW c \in Call, SaveDraft(c)
    PROVE  Spending'
<1> DEFINE rec == [status |-> "draft", text |-> req[c].text, updatedAt |-> clock,
                   dispatchedAt |-> None, postId |-> None]
           new == [pub |-> Pub(c), text |-> req[c].text, mintedAt |-> clock]
<1>1. /\ pc[c] = "loaded" /\ Save(c, rec)
      /\ pc' = [pc EXCEPT ![c] = "done"]
      /\ tokens' = tokens \cup {new}
      /\ steady' => steady /\ \A t \in tokens : t.mintedAt # clock
      /\ UNCHANGED <<req, pending, clock>>
  BY DEF SaveDraft, Goto
<1>2. /\ Pub(c) \in Publication /\ file \in [Publication -> Record]
      /\ file' = [file EXCEPT ![Pub(c)] = rec]
  BY <1>1, SaveInside
<1>3. rec.updatedAt = clock /\ new.mintedAt = clock /\ clock \in Nat
  BY TokenTimes
<1> HIDE DEF rec, new
<1>4. Asked'
  BY <1>1 DEF Spending, Asked, Dispatched, IInv, Shape
<1>5. ASSUME steady' PROVE Older'
  <2>1. Older /\ \A t \in tokens : t.mintedAt < clock
    BY <1>1, <1>3, <1>5, TokenTimes DEF Spending, Older
  <2>2. \A t \in tokens' : t.mintedAt <= clock'
    BY <1>1, <1>3, <2>1, TokenTimes
  <2>3. \A p \in Publication, t \in tokens' :
          t.pub = p /\ file'[p].status \in {"draft", "uncertain"} => t.mintedAt <= file'[p].updatedAt
    <3>1. ASSUME NEW p \in Publication, p # Pub(c) PROVE file'[p] = file[p] /\ new.pub # p
      BY <1>2, <3>1 DEF new
    <3>. QED
      BY <1>1, <1>2, <1>3, <2>1, <2>2, <3>1 DEF Older
  <2>4. ASSUME NEW d \in Call, Dispatched(d)', file'[Pub(d)].status = "draft"
        PROVE  req'[d].token.mintedAt < file'[Pub(d)].updatedAt
    <3>1. /\ Dispatched(d) /\ req[d].token \in tokens /\ Pub(d) \in Publication
      BY <1>1, <2>4, TokenParts DEF Dispatched, Spending, Asked
    <3>2. CASE Pub(d) = Pub(c)
      BY <1>1, <1>2, <1>3, <2>1, <3>1, <3>2
    <3>3. CASE Pub(d) # Pub(c)
      BY <1>1, <1>2, <2>1, <2>4, <3>1, <3>3 DEF Older
    <3>. QED
      BY <3>2, <3>3
  <2>5. \A d \in Call : Pub(d)' = Pub(d)
    BY <1>1 DEF Pub
  <2>. QED
    BY <2>2, <2>3, <2>4, <2>5 DEF Older
<1>6. TokenOneTime'
  BY <1>1 DEF Spending, TokenOneTime, Dispatched
<1>. QED
  BY <1>4, <1>5, <1>6 DEF Spending

(* A spent token is older than the draft, so it cannot confirm it. *)
LEMMA DispatchSpending ==
    ASSUME IInv, Rest, Spending, NEW c \in Call, Dispatch(c)
    PROVE  Spending'
<1> DEFINE rec == InFlight(Stored(c))
<1>1. /\ pc[c] = "loaded" /\ MayDispatch(c) /\ Save(c, rec)
      /\ pending' = [pending EXCEPT ![c] = rec]
      /\ pc' = [pc EXCEPT ![c] = "dispatched"]
      /\ UNCHANGED <<req, tokens, clock, steady>>
  BY DEF Dispatch, Goto
<1>2. /\ Pub(c) \in Publication /\ file \in [Publication -> Record] /\ req[c] \in Request
      /\ Stored(c) = file[Pub(c)]
      /\ file' = [file EXCEPT ![Pub(c)] = rec]
  BY <1>1, SaveInside
<1>3. rec.status = "uncertain" /\ rec.updatedAt = clock
  BY <1>2, RevisedFields DEF InFlight
<1>4. /\ req[c] \in PublishRequest
      /\ file[Pub(c)].status = "draft"
      /\ req[c].token.mintedAt = file[Pub(c)].updatedAt
  BY <1>1, <1>2, RequestKinds DEF MayDispatch, Confirmed
<1> HIDE DEF rec
<1>5. \A d \in Call : d # c => (Dispatched(d)' <=> Dispatched(d))
  BY <1>1 DEF IInv, Shape, Dispatched
<1>6. Asked'
  BY <1>1, <1>4, <1>5 DEF Spending, Asked, IInv, Shape
<1>7. ASSUME steady PROVE Older'
  <2>1. Older
    BY <1>7 DEF Spending
  <2>2. \A p \in Publication, t \in tokens' :
          t.pub = p /\ file'[p].status \in {"draft", "uncertain"} => t.mintedAt <= file'[p].updatedAt
    BY <1>1, <1>2, <1>3, <2>1 DEF Older
  <2>3. ASSUME NEW d \in Call, Dispatched(d)', file'[Pub(d)].status = "draft"
        PROVE  req'[d].token.mintedAt < file'[Pub(d)].updatedAt
    <3>1. Pub(d) # Pub(c)
      BY <1>2, <1>3, <2>3
    <3>2. Dispatched(d)
      BY <1>5, <2>3, <3>1
    <3>3. Pub(d) \in Publication
      BY <3>2, TokenParts DEF Spending, Asked
    <3>. QED
      BY <1>1, <1>2, <2>1, <2>3, <3>1, <3>2, <3>3 DEF Older
  <2>4. \A d \in Call : Pub(d)' = Pub(d)
    BY <1>1 DEF Pub
  <2>. QED
    BY <1>1, <2>1, <2>2, <2>3, <2>4 DEF Older
<1>8. ASSUME steady, NEW d \in Call, Dispatched(d), req[d].token = req[c].token
      PROVE  FALSE
  <2>1. Pub(d) = Pub(c)
    BY <1>1, <1>4, <1>8, TokenParts DEF Spending, Asked
  <2>2. req[d].token.mintedAt < file[Pub(c)].updatedAt
    BY <1>4, <1>8, <2>1 DEF Spending, Older
  <2>3. req[c].token.mintedAt \in Nat
    BY <1>1, <1>4, TokenParts DEF Spending
  <2>. QED
    BY <1>4, <1>8, <2>2, <2>3
<1>9. TokenOneTime'
  BY <1>1, <1>5, <1>8 DEF Spending, TokenOneTime
<1>. QED
  BY <1>1, <1>6, <1>7, <1>9 DEF Spending

(* A refusal makes the draft younger than every token of its record. *)
LEMMA RevertSpending ==
    ASSUME IInv, Rest, Spending, NEW c \in Call, Revert(c)
    PROVE  Spending'
<1> DEFINE rec == Revised(Stored(c), "draft", None, None,
                          LaterOf(clock, Stored(c).updatedAt + 1))
<1>1. /\ pc[c] = "reverting"
      /\ (MayRevert(c) /\ Save(c, rec)) \/ UNCHANGED file
      /\ pc' = [pc EXCEPT ![c] = "done"]
      /\ UNCHANGED <<req, pending, tokens, clock, steady>>
  BY DEF Revert, Goto
<1>2. /\ Pub(c) \in Publication /\ file \in [Publication -> Record]
      /\ Stored(c) = file[Pub(c)]
      /\ Save(c, rec) => file' = [file EXCEPT ![Pub(c)] = rec]
  BY <1>1, SaveInside
<1>3. clock \in Nat /\ file[Pub(c)].updatedAt \in Nat
  BY <1>2, TokenTimes
<1>4. rec.status = "draft" /\ rec.updatedAt \in Nat /\ file[Pub(c)].updatedAt < rec.updatedAt
  BY <1>2, <1>3, RevisedFields DEF LaterOf
<1>5. MayRevert(c) => file[Pub(c)].status = "uncertain"
  BY <1>2 DEF MayRevert
<1> HIDE DEF rec
<1>6. Asked'
  BY <1>1 DEF Spending, Asked, Dispatched, IInv, Shape
<1>7. ASSUME steady PROVE Older'
  <2>1. Older
    BY <1>7 DEF Spending
  <2>2. \A d \in Call : Pub(d)' = Pub(d) /\ (Dispatched(d)' <=> Dispatched(d))
    BY <1>1 DEF Pub, Dispatched
  <2>3. CASE UNCHANGED file
    BY <1>1, <2>1, <2>2, <2>3 DEF Older
  <2>4. CASE file' = [file EXCEPT ![Pub(c)] = rec] /\ file[Pub(c)].status = "uncertain"
    <3>1. \A t \in tokens : t.pub = Pub(c) => t.mintedAt < rec.updatedAt
      BY <1>2, <1>3, <1>4, <2>1, <2>4, TokenTimes DEF Older
    <3>2. \A p \in Publication, t \in tokens' :
            t.pub = p /\ file'[p].status \in {"draft", "uncertain"} => t.mintedAt <= file'[p].updatedAt
      BY <1>1, <1>2, <1>4, <2>1, <2>4, <3>1, TokenTimes DEF Older
    <3>3. ASSUME NEW d \in Call, Dispatched(d), file'[Pub(d)].status = "draft"
          PROVE  req[d].token.mintedAt < file'[Pub(d)].updatedAt
      <4>1. req[d].token \in tokens /\ req[d].token.pub = Pub(d) /\ Pub(d) \in Publication
        BY <3>3, TokenParts DEF Spending, Asked
      <4>. QED
        BY <1>2, <2>1, <2>4, <3>1, <3>3, <4>1 DEF Older
    <3>. QED
      BY <1>1, <2>1, <2>2, <3>2, <3>3 DEF Older
  <2>. QED
    BY <1>1, <1>2, <1>5, <2>3, <2>4
<1>8. TokenOneTime'
  BY <1>1 DEF Spending, TokenOneTime, Dispatched
<1>. QED
  BY <1>1, <1>6, <1>7, <1>8 DEF Spending

(* A record that is resolved or published is no longer a draft. *)
LEMMA CloseSpending ==
    ASSUME IInv, Rest, Spending, NEW c \in Call, Resolve(c) \/ Settle(c)
    PROVE  Spending'
<1>1. /\ pc[c] \in {"loaded", "settling"}
      /\ pc' = [pc EXCEPT ![c] = "done"]
      /\ UNCHANGED <<req, pending, tokens, clock, steady>>
  BY DEF Resolve, Settle, Goto
<1>2. PICK rec : Save(c, rec) /\ rec.status \notin {"draft", "uncertain"}
  <2>1. CASE Resolve(c)
    <3>1. pc[c] = "loaded" /\ MayResolve(c)
      BY <2>1 DEF Resolve
    <3>2. req[c] \in Request /\ Stored(c) \in Record
      BY <3>1, SaveInside
    <3>3. req[c].outcome \in {"published", "abandoned"}
      BY <3>1, <3>2 DEF MayResolve, Request, DraftRequest, PublishRequest, ResolveRequest
    <3>. QED
      BY <2>1, <3>2, <3>3, RevisedFields DEF Resolve
  <2>2. CASE Settle(c)
    <3>1. Stored(c) \in Record /\ pending[c] \in Record
      BY <2>2, SaveInside DEF Settle, IInv, Shape
    <3>. QED
      BY <2>2, <3>1, RevisedFields DEF Settle
  <2>. QED
    BY <2>1, <2>2
<1>3. /\ Pub(c) \in Publication /\ file \in [Publication -> Record]
      /\ file' = [file EXCEPT ![Pub(c)] = rec]
  BY <1>1, <1>2, SaveInside
<1>4. Asked'
  BY <1>1 DEF Spending, Asked, Dispatched, IInv, Shape
<1>5. ASSUME steady PROVE Older'
  <2>1. Older
    BY <1>5 DEF Spending
  <2>2. \A p \in Publication : file'[p].status \in {"draft", "uncertain"} => file'[p] = file[p]
    BY <1>2, <1>3
  <2>3. \A d \in Call : Dispatched(d) => Pub(d) \in Publication
    BY TokenParts DEF Spending, Asked
  <2>. QED
    BY <1>1, <2>1, <2>2, <2>3 DEF Older, Dispatched, Pub
<1>6. TokenOneTime'
  BY <1>1 DEF Spending, TokenOneTime, Dispatched
<1>. QED
  BY <1>1, <1>4, <1>5, <1>6 DEF Spending

(* A call that asks to publish has a token it was given. *)
LEMMA LoadSpending ==
    ASSUME IInv, Rest, Spending, NEW c \in Call, Load(c)
    PROVE  Spending'
<1>1. PICK r \in Request :
        /\ r.op = "publish" => r.token \in tokens /\ r.token.pub = r.pub
        /\ req' = [req EXCEPT ![c] = r]
  BY DEF Load
<1>2. /\ pc[c] = "idle" /\ pc' = [pc EXCEPT ![c] = "loaded"]
      /\ UNCHANGED <<file, pending, tokens, clock, steady>>
  BY DEF Load, Goto
<1>3. r \in PublishRequest => r.op = "publish"
  BY DEF PublishRequest
<1>4. ~Dispatched(c) /\ pending[c] = Absent
  BY <1>2 DEF Spending, Asked, Dispatched
<1>5. \A d \in Call : /\ Dispatched(d)' <=> Dispatched(d)
                      /\ d # c => req'[d] = req[d] /\ pc'[d] = pc[d]
  BY <1>1, <1>2 DEF Dispatched, IInv, Shape
<1>6. req'[c] = r
  BY <1>1 DEF IInv, Shape
<1>7. Asked'
  BY <1>1, <1>2, <1>3, <1>4, <1>5, <1>6 DEF Spending, Asked
<1>8. steady => Older'
  BY <1>2, <1>4, <1>5 DEF Spending, Older, Pub
<1>9. TokenOneTime'
  BY <1>2, <1>4, <1>5 DEF Spending, TokenOneTime
<1>. QED
  BY <1>2, <1>7, <1>8, <1>9 DEF Spending

(* Nothing that a token or a revision depends on changes. *)
LEMMA QuietSpending ==
    ASSUME IInv, Rest, Spending, NEW c \in Call,
           \/ Refuse(c) \/ Send(c) \/ Land(c) \/ Created(c) \/ SendRefused(c)
           \/ Ambiguous(c) \/ LoadAgain(c) \/ LockTimeout(c) \/ Crash(c)
    PROVE  Spending'
<1>1. /\ UNCHANGED <<file, req, pending, tokens, clock, steady>>
      /\ \A d \in Call : /\ pc'[d] \in {"idle", "loaded"} => pc'[d] = pc[d]
                         /\ pc[d] = "idle" => pc'[d] = "idle"
  BY DEF IInv, Shape, Refuse, Send, Land, Created, SendRefused,
         Ambiguous, LoadAgain, LockTimeout, Crash, Goto
<1>. QED
  BY <1>1 DEF Spending, Asked, Older, TokenOneTime, Dispatched, Pub

LEMMA TickSpending ==
    ASSUME IInv, Rest, Spending, Tick
    PROVE  Spending'
<1>1. /\ clock \in Nat /\ clock' \in Nat
      /\ UNCHANGED <<file, req, pending, tokens, pc>>
  BY XBoundAssumption, TokenTimes DEF Tick, Time
<1>2. steady' => steady /\ clock' > clock
  BY Zenon DEF Tick
<1>3. Asked' /\ TokenOneTime'
  BY <1>1, <1>2 DEF Spending, Asked, TokenOneTime, Dispatched
<1>4. ASSUME steady' PROVE Older'
  <2>1. Older /\ clock' > clock
    BY <1>2, <1>4 DEF Spending
  <2>2. \A t \in tokens' : t.mintedAt <= clock'
    BY <1>1, <2>1, TokenTimes DEF Older
  <2>. QED
    BY <1>1, <2>1, <2>2 DEF Older, Dispatched, Pub
<1>. QED
  BY <1>3, <1>4 DEF Spending

LEMMA DamageSpending ==
    ASSUME IInv, Rest, Spending, Damage
    PROVE  Spending'
<1>1. /\ \A p \in Publication : file'[p].status = "absent"
      /\ UNCHANGED <<req, pending, tokens, clock, steady, pc>>
  BY DEF Damage, EmptyFile, Absent
<1>2. \A d \in Call : Dispatched(d) => Pub(d) \in Publication
  BY TokenParts DEF Spending, Asked
<1>3. steady => Older'
  BY <1>1, <1>2 DEF Spending, Older, Dispatched, Pub
<1>. QED
  BY <1>1, <1>3 DEF Spending, Asked, TokenOneTime, Dispatched

LEMMA InitSpending == Init => Spending
<1> SUFFICES ASSUME Init PROVE Spending
  OBVIOUS
<1>1. \A c \in Call : ~Dispatched(c) /\ pc[c] = "idle"
  BY DEF Init, Dispatched
<1>2. tokens = {} /\ \A c \in Call : pending[c] = Absent
  BY DEF Init
<1>. QED
  BY <1>1, <1>2 DEF Spending, Asked, Older, TokenOneTime

LEMMA StepSpending == IInv /\ Rest /\ Spending /\ [Next]_vars => Spending'
<1> SUFFICES ASSUME IInv, Rest, Spending, [Next]_vars PROVE Spending'
  OBVIOUS
<1>1. CASE UNCHANGED vars
  BY <1>1 DEF vars, Spending, Asked, Older, TokenOneTime, Dispatched, Pub
<1>2. CASE Tick \/ Damage
  BY <1>2, TickSpending, DamageSpending
<1>3. CASE \E c \in Call : Load(c) \/ SaveDraft(c) \/ Dispatch(c) \/ Resolve(c)
                           \/ Settle(c) \/ Revert(c)
  BY <1>3, LoadSpending, SaveDraftSpending, DispatchSpending, CloseSpending, RevertSpending
<1>4. CASE \E c \in Call :
             \/ Refuse(c) \/ Send(c) \/ Land(c) \/ Created(c) \/ SendRefused(c)
             \/ Ambiguous(c) \/ LoadAgain(c) \/ LockTimeout(c) \/ Crash(c)
  BY <1>4, QuietSpending
<1>. QED
  BY <1>1, <1>2, <1>3, <1>4 DEF Next

(* While the clock is steady, no token is good for two dispatches. *)
THEOREM TokenOneTimeHolds == Spec => []TokenOneTime
<1>1. Spending => TokenOneTime
  BY DEF Spending
<1>2. IInv /\ Rest /\ [Next]_vars => Rest'
  BY StepRest
<1>. QED
  BY <1>1, <1>2, InitRest, InitSpending, StepSpending, Invariance, PTL DEF Spec
=============================================================================
