----------------------- MODULE DaemonMutations_proofs -----------------------
(***************************************************************************)
(* One daemon mutation runs at a time, and one that timed out holds up the *)
(* next of its kind for one window: for every number of requests, every    *)
(* window and every number of clock corrections.                           *)
(***************************************************************************)
EXTENDS DaemonMutations, TLAPS

RequestType == [phase : Phases, kind : Kinds \union {None},
                source : Requests \union {None}, answer : Answers \union {None}]

(* The owner's slot holds the mutation that runs, and nothing else; who    *)
(* joined waits for it.                                                    *)
Flight ==
  /\ inFlight # None => request[inFlight].phase = "running"
  /\ \A r \in Requests :
       /\ request[r].phase = "running" => inFlight = r /\ request[r].source = r
       /\ request[r].phase = "joined" =>
            /\ inFlight # None /\ request[r].source = inFlight
            /\ CanJoin(request[r].kind, request[inFlight].kind)

Asked == \A r \in Requests : request[r].phase # "new" => request[r].kind \in Kinds

(* What is remembered is what settled, as old by the clock as it is, until *)
(* health proves otherwise or the clock is set back; and once a request    *)
(* was held, its time stamp is no younger than that.                       *)
Memory ==
  /\ settled # None => settled.time <= time
  /\ settled # None /\ settled.steady /\ ~settled.proven =>
       /\ last # None
       /\ last.kind = settled.kind /\ last.code = settled.code
       /\ clock - last.at = time - settled.time
  /\ heldSince # None =>
       /\ heldSince <= time
       /\ last # None /\ last.code = "readiness_timeout" =>
            last.at <= clock /\ time - heldSince <= clock - last.at

IInv == TypeOK /\ clock <= time /\ Asked /\ Flight /\ Memory

(* What the steps of one request do to the requests.                       *)
LEMMA OneRequest ==
  ASSUME TypeOK, NEW r \in Requests, NEW y \in RequestType,
         request' = [request EXCEPT ![r] = y]
  PROVE  /\ request' \in [Requests -> RequestType]
         /\ request'[r] = y
         /\ \A q \in Requests : q # r => request'[q] = request[q]
BY DEF TypeOK, RequestType

LEMMA RequestFields ==
  ASSUME TypeOK, NEW r \in Requests
  PROVE  request[r] \in RequestType
BY DEF TypeOK, RequestType

LEMMA WaitingFields ==
  ASSUME NEW x \in RequestType, NEW p \in Phases, NEW s \in Requests \union {None}
  PROVE  LET y == Waiting(x, p, s) IN
           y \in RequestType /\ y.phase = p /\ y.source = s /\ y.kind = x.kind
BY DEF Waiting, RequestType

LEMMA AnsweredFields ==
  ASSUME NEW x \in RequestType, NEW a \in Answers
  PROVE  LET y == Answered(x, a) IN
           y \in RequestType /\ y.phase = "done" /\ y.source = x.source /\ y.kind = x.kind
BY DEF Answered, RequestType, Phases

LEMMA AskingFields ==
  ASSUME TypeOK, NEW r \in Requests, NEW kind \in Kinds
  PROVE  /\ Asking(r, kind) \in RequestType
         /\ Asking(r, kind).kind = kind /\ Asking(r, kind).phase = request[r].phase
<1>1. request[r] \in RequestType
  BY RequestFields
<1>. QED
  BY <1>1 DEF Asking, RequestType

LEMMA RunningFields ==
  ASSUME TypeOK, NEW r \in Requests, NEW kind \in Kinds
  PROVE  LET y == Waiting(Asking(r, kind), "running", r) IN
           y \in RequestType /\ y.phase = "running" /\ y.source = r /\ y.kind = kind
<1> DEFINE x == Asking(r, kind)
<1>1. x \in RequestType /\ x.kind = kind
  BY AskingFields
<1>2. "running" \in Phases
  BY DEF Phases
<1> HIDE DEF x
<1>3. LET y == Waiting(x, "running", r) IN
        y \in RequestType /\ y.phase = "running" /\ y.source = r /\ y.kind = x.kind
  BY <1>1, <1>2, WaitingFields
<1>. QED
  BY <1>1, <1>3 DEF x

LEMMA ProbingFields ==
  ASSUME TypeOK, NEW r \in Requests, NEW kind \in Kinds
  PROVE  LET y == Waiting(Asking(r, kind), "probing", None) IN
           y \in RequestType /\ y.phase = "probing" /\ y.kind = kind
<1> DEFINE x == Asking(r, kind)
<1>1. x \in RequestType /\ x.kind = kind
  BY AskingFields
<1>2. "probing" \in Phases
  BY DEF Phases
<1> HIDE DEF x
<1>3. LET y == Waiting(x, "probing", None) IN
        y \in RequestType /\ y.phase = "probing" /\ y.kind = x.kind
  BY <1>1, <1>2, WaitingFields
<1>. QED
  BY <1>1, <1>3 DEF x

(* Who meets the mutation in flight joins it, or is refused.               *)
LEMMA MetFields ==
  ASSUME IInv, NEW x \in RequestType, inFlight # None
  PROVE  /\ Met(x) \in RequestType /\ Met(x).kind = x.kind
         /\ \/ Met(x).phase = "done"
            \/ /\ Met(x).phase = "joined" /\ Met(x).source = inFlight
               /\ CanJoin(Met(x).kind, request[inFlight].kind)
<1>1. inFlight \in Requests
  BY DEF IInv, TypeOK
<1>2. CASE CanJoin(x.kind, request[inFlight].kind)
  <2>1. Met(x) = Waiting(x, "joined", inFlight) /\ "joined" \in Phases
    BY <1>2 DEF Met, Phases
  <2>. QED
    BY <1>1, <1>2, <2>1, WaitingFields
<1>3. CASE ~CanJoin(x.kind, request[inFlight].kind)
  <2>1. Met(x) = Answered(x, "mutation_in_flight") /\ "mutation_in_flight" \in Answers
    BY <1>3 DEF Met, Answers
  <2>. QED
    BY <2>1, AnsweredFields
<1>. QED
  BY <1>2, <1>3

(* A request that does not run changes nothing for those that do or wait.  *)
LEMMA Aside ==
  ASSUME IInv, NEW r \in Requests, NEW y \in RequestType,
         request[r].phase # "running", y.kind \in Kinds,
         request' = [request EXCEPT ![r] = y], inFlight' = inFlight,
         \/ y.phase \in {"probing", "done"}
         \/ /\ inFlight # None
            /\ y.phase = "joined" /\ y.source = inFlight
            /\ CanJoin(y.kind, request[inFlight].kind)
  PROVE  Flight' /\ Asked'
<1>1. /\ request'[r] = y
      /\ \A q \in Requests : q # r => request'[q] = request[q]
  BY OneRequest DEF IInv
<1>2. inFlight # None => inFlight \in Requests /\ inFlight # r
  BY DEF IInv, TypeOK, Flight
<1>. QED
  BY <1>1, <1>2 DEF IInv, Flight, Asked

-----------------------------------------------------------------------------
LEMMA JoinStep ==
  ASSUME IInv, NEW r \in Requests, Join(r)
  PROVE  IInv'
<1>1. PICK kind \in Kinds : request' = [request EXCEPT ![r] = Met(Asking(r, kind))]
  BY DEF Join
<1>2. /\ request[r].phase = "new" /\ inFlight # None
      /\ UNCHANGED <<inFlight, last, clock, time, settled, heldSince, jumps>>
  BY DEF Join
<1>3. Asking(r, kind) \in RequestType /\ Asking(r, kind).kind = kind
  BY AskingFields DEF IInv
<1> DEFINE y == Met(Asking(r, kind))
<1>4. /\ y \in RequestType /\ y.kind \in Kinds
      /\ \/ y.phase = "done"
         \/ /\ y.phase = "joined" /\ y.source = inFlight
            /\ CanJoin(y.kind, request[inFlight].kind)
  BY <1>2, <1>3, MetFields
<1> HIDE DEF y
<1>5. request' = [request EXCEPT ![r] = y]
  BY <1>1 DEF y
<1>6. TypeOK'
  BY <1>2, <1>4, <1>5, OneRequest DEF IInv, TypeOK, RequestType
<1>7. Flight' /\ Asked'
  BY <1>2, <1>4, <1>5, Aside
<1>8. clock' <= time' /\ Memory'
  BY <1>2 DEF IInv, Memory
<1>. QED
  BY <1>6, <1>7, <1>8 DEF IInv

(* A time stamp from the future becomes the present; any other is kept.    *)
LEMMA RestampedFields ==
  ASSUME IInv, last # None
  PROVE  /\ Restamped(last) \in Outcome
         /\ Restamped(last).kind = last.kind /\ Restamped(last).code = last.code
         /\ Restamped(last).at <= clock
         /\ last.at <= clock => Restamped(last) = last
<1>1. last \in Outcome /\ clock \in 0 .. MaxTime
  BY DEF IInv, TypeOK
<1>2. last.at \in Int /\ clock \in Int
  BY <1>1, BoundsAssumption DEF Outcome
<1>3. CASE clock < last.at
  <2>1. Restamped(last) = [last EXCEPT !.at = clock]
    BY <1>3 DEF Restamped
  <2>2. Restamped(last) \in Outcome /\ Restamped(last).at = clock
        /\ Restamped(last).kind = last.kind /\ Restamped(last).code = last.code
    BY <1>1, <2>1 DEF Outcome
  <2>. QED
    BY <1>2, <1>3, <2>2
<1>4. CASE ~(clock < last.at)
  BY <1>1, <1>2, <1>4 DEF Restamped
<1>. QED
  BY <1>3, <1>4

LEMMA Times ==
  ASSUME IInv
  PROVE  /\ clock \in Int /\ time \in Int
         /\ last # None => last \in Outcome /\ last.at \in Int
         /\ settled # None => settled \in Settlement /\ settled.time \in Int
         /\ heldSince # None => heldSince \in Int
         /\ time \in 0 .. MaxTime /\ clock \in 0 .. MaxTime
BY BoundsAssumption DEF IInv, TypeOK, Outcome, Settlement

LEMMA HoldStep ==
  ASSUME IInv, NEW r \in Requests, Hold(r)
  PROVE  IInv'
<1>1. PICK kind \in Kinds :
        /\ Held(kind)
        /\ request' = [request EXCEPT ![r] = Waiting(Asking(r, kind), "probing", None)]
  BY DEF Hold
<1>2. /\ request[r].phase = "new" /\ inFlight = None
      /\ last' = Restamped(last)
      /\ heldSince' = IF heldSince = None THEN time ELSE heldSince
      /\ UNCHANGED <<inFlight, clock, time, settled, jumps>>
  BY DEF Hold
<1> DEFINE y == Waiting(Asking(r, kind), "probing", None)
<1>3. y \in RequestType /\ y.phase = "probing" /\ y.kind \in Kinds
  BY ProbingFields DEF IInv
<1> HIDE DEF y
<1>4. request' = [request EXCEPT ![r] = y]
  BY <1>1 DEF y
<1>5. last # None /\ last.code = "readiness_timeout"
  BY <1>1 DEF Held, TimedOut
<1>6. last' \in Outcome /\ last' # None
  BY <1>2, <1>5, RestampedFields, NoneAssumption
<1>7. TypeOK'
  BY <1>2, <1>3, <1>4, <1>6, OneRequest, Times DEF IInv, TypeOK, RequestType
<1>8. Flight' /\ Asked'
  BY <1>2, <1>3, <1>4, Aside
<1>9. Memory'
  <2>1. /\ last'.kind = last.kind /\ last'.code = last.code
        /\ last'.at <= clock /\ last'.at \in Int
        /\ last.at <= clock => last' = last
    BY <1>2, <1>5, <1>6, RestampedFields, BoundsAssumption DEF Outcome
  <2>2. settled # None => settled.time <= time
    BY DEF IInv, Memory
  <2>3. ASSUME settled # None, settled.steady, ~settled.proven
        PROVE  last' = last
    BY <2>1, <2>2, <2>3, Times DEF IInv, Memory
  <2>4. heldSince' # None => heldSince' <= time /\ time - heldSince' <= clock - last'.at
    <3>1. CASE heldSince = None
      BY <1>2, <2>1, <3>1, Times
    <3>2. CASE heldSince # None
      BY <1>2, <1>5, <2>1, <3>2, Times DEF IInv, Memory
    <3>. QED
      BY <3>1, <3>2
  <2>. QED
    BY <1>2, <1>6, <2>1, <2>2, <2>3, <2>4 DEF IInv, Memory
<1>. QED
  BY <1>2, <1>7, <1>8, <1>9 DEF IInv

LEMMA AdmitStep ==
  ASSUME IInv, NEW r \in Requests, Admit(r)
  PROVE  IInv'
<1>1. PICK kind \in Kinds :
        request' = [request EXCEPT ![r] = Waiting(Asking(r, kind), "running", r)]
  BY DEF Admit
<1>2. /\ request[r].phase = "new" /\ inFlight = None /\ inFlight' = r
      /\ UNCHANGED <<last, clock, time, settled, heldSince, jumps>>
  BY DEF Admit
<1> DEFINE y == Waiting(Asking(r, kind), "running", r)
<1>3. y \in RequestType /\ y.phase = "running" /\ y.source = r /\ y.kind \in Kinds
  BY RunningFields DEF IInv
<1> HIDE DEF y
<1>4. request' = [request EXCEPT ![r] = y]
  BY <1>1 DEF y
<1>5. /\ request' \in [Requests -> RequestType] /\ request'[r] = y
      /\ \A q \in Requests : q # r => request'[q] = request[q]
  BY <1>3, <1>4, OneRequest DEF IInv
<1>6. TypeOK'
  BY <1>2, <1>5 DEF IInv, TypeOK, RequestType
<1>7. Flight' /\ Asked'
  BY <1>2, <1>3, <1>5, NoneAssumption DEF IInv, Flight, Asked
<1>8. clock' <= time' /\ Memory'
  BY <1>2 DEF IInv, Memory
<1>. QED
  BY <1>6, <1>7, <1>8 DEF IInv

LEMMA ProbeReadyStep ==
  ASSUME IInv, NEW r \in Requests, ProbeReady(r)
  PROVE  IInv'
<1> DEFINE y == Answered(request[r], "reconciled")
<1>1. /\ request[r].phase = "probing"
      /\ request' = [request EXCEPT ![r] = y]
      /\ last' = [kind |-> request[r].kind, code |-> "ok", at |-> clock]
      /\ settled' = IF settled = None THEN None ELSE [settled EXCEPT !.proven = TRUE]
      /\ UNCHANGED <<inFlight, clock, time, heldSince, jumps>>
  BY DEF ProbeReady
<1>2. /\ request[r] \in RequestType /\ request[r].kind \in Kinds
      /\ y \in RequestType /\ y.phase = "done" /\ y.kind \in Kinds
  BY <1>1, RequestFields, AnsweredFields DEF IInv, Asked, Answers
<1> HIDE DEF y
<1>3. last' \in Outcome /\ last' # None /\ last'.code = "ok"
  BY <1>1, <1>2, Times, NoneAssumption DEF Outcome, Codes
<1>4. /\ settled' \in Settlement \union {None}
      /\ settled' # None => settled # None /\ settled'.time = settled.time /\ settled'.proven
  <2>1. CASE settled = None
    BY <1>1, <2>1
  <2>2. CASE settled # None
    <3>1. settled' = [settled EXCEPT !.proven = TRUE] /\ settled \in Settlement
      BY <1>1, <2>2, Times
    <3>. QED
      BY <2>2, <3>1 DEF Settlement
  <2>. QED
    BY <2>1, <2>2
<1>5. TypeOK'
  BY <1>1, <1>2, <1>3, <1>4, OneRequest DEF IInv, TypeOK, RequestType
<1>6. Flight' /\ Asked'
  BY <1>1, <1>2, Aside
<1>7. clock' <= time' /\ Memory'
  BY <1>1, <1>3, <1>4 DEF IInv, Memory
<1>. QED
  BY <1>5, <1>6, <1>7 DEF IInv

LEMMA ProbeNotReadyStep ==
  ASSUME IInv, NEW r \in Requests, ProbeNotReady(r)
  PROVE  IInv'
<1> DEFINE y == IF inFlight # None THEN Met(request[r])
                ELSE Answered(request[r], "duplicate_after_timeout")
<1>1. /\ request[r].phase = "probing"
      /\ request' = [request EXCEPT ![r] = y]
      /\ UNCHANGED <<inFlight, last, clock, time, settled, heldSince, jumps>>
  BY DEF ProbeNotReady
<1>2. request[r] \in RequestType /\ request[r].kind \in Kinds
  BY <1>1, RequestFields DEF IInv, Asked
<1>3. /\ y \in RequestType /\ y.kind \in Kinds
      /\ \/ y.phase = "done"
         \/ /\ inFlight # None
            /\ y.phase = "joined" /\ y.source = inFlight
            /\ CanJoin(y.kind, request[inFlight].kind)
  <2>1. CASE inFlight # None
    BY <1>2, <2>1, MetFields
  <2>2. CASE inFlight = None
    BY <1>2, <2>2, AnsweredFields DEF Answers
  <2>. QED
    BY <2>1, <2>2
<1> HIDE DEF y
<1>4. TypeOK'
  BY <1>1, <1>3, OneRequest DEF IInv, TypeOK, RequestType
<1>5. Flight' /\ Asked'
  BY <1>1, <1>3, Aside
<1>6. clock' <= time' /\ Memory'
  BY <1>1 DEF IInv, Memory
<1>. QED
  BY <1>4, <1>5, <1>6 DEF IInv

(* The mutation that settles is the only one, and all who wait for it are  *)
(* answered.                                                               *)
LEMMA SettleStep ==
  ASSUME IInv, NEW r \in Requests, Settle(r)
  PROVE  IInv'
<1>1. PICK code \in Codes :
        /\ request' = [q \in Requests |->
             IF request[q].phase \in {"joined", "running"} /\ request[q].source = r
               THEN Answered(request[q], code) ELSE request[q]]
        /\ last' = [kind |-> request[r].kind, code |-> code, at |-> clock]
        /\ settled' = [kind |-> request[r].kind, code |-> code, time |-> time,
                       steady |-> TRUE, proven |-> FALSE]
  BY DEF Settle
<1>2. /\ request[r].phase = "running" /\ inFlight = r /\ inFlight' = None
      /\ heldSince' = None /\ UNCHANGED <<clock, time, jumps>>
  BY DEF Settle, IInv, Flight
<1>3. ASSUME NEW q \in Requests
      PROVE  /\ request'[q] \in RequestType /\ request'[q].kind = request[q].kind
             /\ request'[q].phase \notin {"joined", "running"}
             /\ request[q].phase = "new" => request'[q].phase = "new"
  <2>1. request[q] \in RequestType /\ code \in Answers
    BY RequestFields DEF IInv, Answers
  <2>2. request[q].phase \in {"joined", "running"} => request[q].source = r
    BY <1>2 DEF IInv, Flight
  <2>3. request'[q] = IF request[q].phase \in {"joined", "running"}
                        THEN Answered(request[q], code) ELSE request[q]
    BY <1>1, <2>2
  <2>. QED
    BY <2>1, <2>3, AnsweredFields
<1>4. request' \in [Requests -> RequestType]
  BY <1>1, <1>3
<1>5. request[r].kind \in Kinds
  BY <1>2 DEF IInv, Asked
<1>6. last' \in Outcome /\ last' # None /\ settled' \in Settlement /\ settled' # None
  <2>1. clock \in 0 .. MaxTime /\ time \in 0 .. MaxTime
    BY Times
  <2>2. last' \in Outcome
    BY <1>1, <1>5, <2>1 DEF Outcome
  <2>3. settled' \in Settlement
    BY <1>1, <1>5, <2>1 DEF Settlement
  <2>. QED
    BY <2>2, <2>3, NoneAssumption
<1>7. TypeOK'
  BY <1>2, <1>4, <1>6 DEF IInv, TypeOK, RequestType
<1>8. Flight' /\ Asked'
  <2>1. Flight'
    BY <1>2, <1>3 DEF Flight
  <2>2. Asked'
    BY <1>3 DEF IInv, Asked
  <2>. QED
    BY <2>1, <2>2
<1>9. clock' <= time' /\ Memory'
  BY <1>1, <1>2, <1>6, Times DEF IInv, Memory
<1>. QED
  BY <1>7, <1>8, <1>9 DEF IInv

LEMMA TickStep ==
  ASSUME IInv, Tick
  PROVE  IInv'
<1>1. /\ time < MaxTime /\ time' = time + 1 /\ clock' = clock + 1
      /\ UNCHANGED <<request, inFlight, last, settled, heldSince, jumps>>
  BY DEF Tick
<1>2. clock <= time
  BY DEF IInv
<1>3. time' \in 0 .. MaxTime /\ clock' \in 0 .. MaxTime /\ clock' <= time'
  BY <1>1, <1>2, Times, BoundsAssumption
<1>4. TypeOK'
  BY <1>1, <1>3 DEF IInv, TypeOK
<1>5. Flight' /\ Asked'
  BY <1>1 DEF IInv, Flight, Asked
<1>6. Memory'
  BY <1>1, Times DEF IInv, Memory
<1>. QED
  BY <1>3, <1>4, <1>5, <1>6 DEF IInv

LEMMA JumpStep ==
  ASSUME IInv, Jump
  PROVE  IInv'
<1>1. /\ jumps < MaxJumps /\ jumps' = jumps + 1 /\ clock' \in 0 .. clock - 1
      /\ settled' = IF settled = None THEN None ELSE [settled EXCEPT !.steady = FALSE]
      /\ heldSince' = None
      /\ UNCHANGED <<request, inFlight, last, time>>
  BY DEF Jump
<1>2. clock <= time /\ jumps \in 0 .. MaxJumps
  BY DEF IInv, TypeOK
<1>3. jumps' \in 0 .. MaxJumps /\ clock' \in 0 .. MaxTime /\ clock' <= time'
  BY <1>1, <1>2, Times, BoundsAssumption
<1>4. /\ settled' \in Settlement \union {None}
      /\ settled' # None => settled # None /\ settled'.time = settled.time /\ ~settled'.steady
  <2>1. CASE settled = None
    BY <1>1, <2>1
  <2>2. CASE settled # None
    <3>1. settled' = [settled EXCEPT !.steady = FALSE] /\ settled \in Settlement
      BY <1>1, <2>2, Times
    <3>. QED
      BY <2>2, <3>1 DEF Settlement
  <2>. QED
    BY <2>1, <2>2
<1>5. TypeOK'
  BY <1>1, <1>3, <1>4 DEF IInv, TypeOK
<1>6. Flight' /\ Asked'
  BY <1>1 DEF IInv, Flight, Asked
<1>7. Memory'
  BY <1>1, <1>4 DEF IInv, Memory
<1>. QED
  BY <1>3, <1>5, <1>6, <1>7 DEF IInv

-----------------------------------------------------------------------------
LEMMA InitIInv == Init => IInv
BY BoundsAssumption, NoneAssumption
   DEF Init, Unasked, IInv, TypeOK, Phases, Asked, Flight, Memory

LEMMA NextIInv == IInv /\ [Next]_vars => IInv'
<1> SUFFICES ASSUME IInv, [Next]_vars PROVE IInv'
  OBVIOUS
<1>1. CASE UNCHANGED vars
  BY <1>1 DEF vars, IInv, TypeOK, Asked, Flight, Memory
<1>2. CASE \E r \in Requests : Join(r) \/ Hold(r) \/ Admit(r)
  BY <1>2, JoinStep, HoldStep, AdmitStep
<1>3. CASE \E r \in Requests : ProbeReady(r) \/ ProbeNotReady(r) \/ Settle(r)
  BY <1>3, ProbeReadyStep, ProbeNotReadyStep, SettleStep
<1>4. CASE Tick \/ Jump
  BY <1>4, TickStep, JumpStep
<1>. QED
  BY <1>1, <1>2, <1>3, <1>4 DEF Next

LEMMA Invariance == Spec => []IInv
BY InitIInv, NextIInv, PTL DEF Spec

(* Every field keeps its type.                                             *)
THEOREM TypesHold == Spec => []TypeOK
<1>1. IInv => TypeOK
  BY DEF IInv
<1>. QED
  BY <1>1, Invariance, PTL

(* At most one mutation runs, and who waits waits for it.                  *)
THEOREM SingleFlightHolds == Spec => []SingleFlight
<1>1. IInv => SingleFlight
  BY DEF IInv, Flight, SingleFlight
<1>. QED
  BY <1>1, Invariance, PTL

(* What one step takes of the window.                                      *)
WindowStep ==
  \A r \in Requests :
    /\ Took(r, "running") /\ TimedOutLast(request'[r].kind) =>
         time - settled.time >= Window
    /\ Took(r, "probing") /\ heldSince # None => time - heldSince < Window

(* Who is admitted found the window over, or nothing to wait for.          *)
LEMMA AdmitWindow ==
  ASSUME IInv, NEW r \in Requests, Admit(r), TimedOutLast(request'[r].kind)
  PROVE  time - settled.time >= Window
<1>1. PICK kind \in Kinds :
        /\ ~Held(kind)
        /\ request' = [request EXCEPT ![r] = Waiting(Asking(r, kind), "running", r)]
  BY DEF Admit
<1> DEFINE y == Waiting(Asking(r, kind), "running", r)
<1>2. y \in RequestType /\ y.kind = kind
  BY RunningFields DEF IInv
<1> HIDE DEF y
<1>3. request'[r].kind = kind
  <2>1. request' = [request EXCEPT ![r] = y]
    BY <1>1 DEF y
  <2>. QED
    BY <1>2, <2>1, OneRequest DEF IInv
<1>4. /\ settled # None /\ settled.steady /\ ~settled.proven
      /\ settled.kind = kind /\ settled.code = "readiness_timeout"
  BY <1>3 DEF TimedOutLast
<1>5. /\ last # None /\ last.kind = kind /\ last.code = "readiness_timeout"
      /\ clock - last.at = time - settled.time /\ settled.time <= time
  BY <1>4 DEF IInv, Memory
<1>6. Restamped(last) = last
  <2>1. last.at <= clock
    BY <1>4, <1>5, Times
  <2>. QED
    BY <1>5, <2>1, RestampedFields
<1>7. ~(clock - last.at < Window)
  BY <1>1, <1>5, <1>6 DEF Held, TimedOut
<1>. QED
  BY <1>5, <1>7, Times, WindowAssumption

(* Who is held is held for what is left of the window.                     *)
LEMMA HoldWindow ==
  ASSUME IInv, NEW r \in Requests, Hold(r), heldSince # None
  PROVE  time - heldSince < Window
<1>1. PICK kind \in Kinds : Held(kind)
  BY DEF Hold
<1>2. /\ last # None /\ last.code = "readiness_timeout"
      /\ clock - Restamped(last).at < Window
  BY <1>1 DEF Held, TimedOut
<1>3. last.at <= clock /\ time - heldSince <= clock - last.at
  BY <1>2 DEF IInv, Memory
<1>4. Restamped(last) = last
  BY <1>2, <1>3, RestampedFields
<1>. QED
  BY <1>2, <1>3, <1>4, Times, WindowAssumption

(* Only its own admission makes a new request run, and only its own hold   *)
(* makes it ask health.                                                    *)
LEMMA Taken ==
  ASSUME IInv, Next, NEW r \in Requests, request[r].phase = "new",
         request'[r].phase \in {"running", "probing"}
  PROVE  \/ Admit(r) /\ request'[r].phase = "running"
         \/ Hold(r) /\ request'[r].phase = "probing"
<1>1. CASE \E q \in Requests : Join(q) \/ Hold(q) \/ Admit(q)
  <2>1. PICK q \in Requests : Join(q) \/ Hold(q) \/ Admit(q)
    BY <1>1
  <2>2. CASE Join(q)
    <3>1. PICK kind \in Kinds : request' = [request EXCEPT ![q] = Met(Asking(q, kind))]
      BY <2>2 DEF Join
    <3> DEFINE y == Met(Asking(q, kind))
    <3>2. y \in RequestType /\ y.phase \in {"done", "joined"}
      <4>1. Asking(q, kind) \in RequestType
        BY AskingFields DEF IInv
      <4>. QED
        BY <2>2, <4>1, MetFields DEF Join
    <3> HIDE DEF y
    <3>3. request' = [request EXCEPT ![q] = y]
      BY <3>1 DEF y
    <3>. QED
      BY <3>2, <3>3, OneRequest DEF IInv
  <2>3. CASE Hold(q)
    <3>1. PICK kind \in Kinds :
            request' = [request EXCEPT ![q] = Waiting(Asking(q, kind), "probing", None)]
      BY <2>3 DEF Hold
    <3> DEFINE y == Waiting(Asking(q, kind), "probing", None)
    <3>2. y \in RequestType /\ y.phase = "probing"
      BY ProbingFields DEF IInv
    <3> HIDE DEF y
    <3>3. request' = [request EXCEPT ![q] = y]
      BY <3>1 DEF y
    <3>. QED
      BY <2>3, <3>2, <3>3, OneRequest DEF IInv
  <2>4. CASE Admit(q)
    <3>1. PICK kind \in Kinds :
            request' = [request EXCEPT ![q] = Waiting(Asking(q, kind), "running", q)]
      BY <2>4 DEF Admit
    <3> DEFINE y == Waiting(Asking(q, kind), "running", q)
    <3>2. y \in RequestType /\ y.phase = "running"
      BY RunningFields DEF IInv
    <3> HIDE DEF y
    <3>3. request' = [request EXCEPT ![q] = y]
      BY <3>1 DEF y
    <3>. QED
      BY <2>4, <3>2, <3>3, OneRequest DEF IInv
  <2>. QED
    BY <2>1, <2>2, <2>3, <2>4
<1>2. CASE \E q \in Requests : ProbeReady(q) \/ ProbeNotReady(q)
  <2>1. PICK q \in Requests : ProbeReady(q) \/ ProbeNotReady(q)
    BY <1>2
  <2>2. q # r
    BY <2>1 DEF ProbeReady, ProbeNotReady
  <2>3. request'[r] = request[r]
    BY <2>1, <2>2 DEF ProbeReady, ProbeNotReady, IInv, TypeOK
  <2>. QED
    BY <2>3
<1>3. CASE \E q \in Requests : Settle(q)
  <2>1. request'[r] = request[r]
    BY <1>3 DEF Settle
  <2>. QED
    BY <2>1
<1>4. CASE Tick \/ Jump
  BY <1>4 DEF Tick, Jump
<1>. QED
  BY <1>1, <1>2, <1>3, <1>4 DEF Next

LEMMA NextWindow == IInv /\ [Next]_vars => WindowStep
<1> SUFFICES ASSUME IInv, [Next]_vars, NEW r \in Requests PROVE
      /\ Took(r, "running") /\ TimedOutLast(request'[r].kind) =>
           time - settled.time >= Window
      /\ Took(r, "probing") /\ heldSince # None => time - heldSince < Window
  BY DEF WindowStep
<1>1. ASSUME Took(r, "running"), TimedOutLast(request'[r].kind)
      PROVE  time - settled.time >= Window
  <2>1. Next
    BY <1>1 DEF Took, vars
  <2>2. Admit(r)
    BY <1>1, <2>1, Taken DEF Took
  <2>. QED
    BY <1>1, <2>2, AdmitWindow
<1>2. ASSUME Took(r, "probing"), heldSince # None
      PROVE  time - heldSince < Window
  <2>1. Next
    BY <1>2 DEF Took, vars
  <2>2. Hold(r)
    BY <1>2, <2>1, Taken DEF Took
  <2>. QED
    BY <1>2, <2>2, HoldWindow
<1>. QED
  BY <1>1, <1>2

(* A mutation that timed out holds up the next of its kind for one window. *)
THEOREM WindowKeptHolds == Spec => WindowKept
<1>1. IInv /\ [Next]_vars =>
        [\A r \in Requests :
           /\ Took(r, "running") /\ TimedOutLast(request'[r].kind) =>
                time - settled.time >= Window
           /\ Took(r, "probing") /\ heldSince # None => time - heldSince < Window]_vars
  BY NextWindow DEF WindowStep
<1>2. IInv /\ [Next]_vars => IInv'
  BY NextIInv
<1>. QED
  BY <1>1, <1>2, InitIInv, PTL DEF Spec, WindowKept
=============================================================================
