--------------------------- MODULE DaemonMutations ---------------------------
(***************************************************************************)
(* The one admission point of starts, recoveries and restarts of the       *)
(* daemon: lib/server/daemon-mutation-owner.ts.                            *)
(*                                                                         *)
(* A request runs its mutation, joins the one in flight, is refused, or    *)
(* first asks health whether an earlier mutation of its kind that timed    *)
(* out has finished late.  The question is an await: mutations may be      *)
(* admitted and settle before its answer is used.  The wall clock may be   *)
(* set back.                                                               *)
(***************************************************************************)
EXTENDS Integers, FiniteSets

CONSTANTS
    Requests,    \* the calls of runDaemonMutation
    None,
    Window,      \* DAEMON_MUTATION_TIMEOUT_WINDOW_MS
    MaxTime,     \* bound: time that passes
    MaxJumps     \* bound: times the clock is set back

ASSUME WindowAssumption == Window \in Nat \ {0}
ASSUME BoundsAssumption == MaxTime \in Nat /\ MaxJumps \in Nat

Kinds == {"start", "recovery", "restart"}
Codes == {"ok", "readiness_timeout", "failed"}
Answers == Codes \union {"reconciled", "mutation_in_flight", "duplicate_after_timeout"}
Phases == {"new", "probing", "joined", "running", "done"}

Outcome == [kind : Kinds, code : Codes, at : 0 .. MaxTime]
Settlement == [kind : Kinds, code : Codes, time : 0 .. MaxTime,
               steady : BOOLEAN, proven : BOOLEAN]

ASSUME NoneAssumption ==
    None \notin Requests \union (0 .. MaxTime) \union Outcome \union Settlement

VARIABLES
    request,     \* what each request asked for, and where it is
    inFlight,    \* the request whose mutation runs
    last,        \* the outcome that is remembered
    clock,       \* the wall clock
    time,        \* history: the time that has really passed
    settled,     \* history: the mutation that really settled last
    heldSince,   \* history: when a request was first held for it, since the
                 \* clock was last set back
    jumps

vars == <<request, inFlight, last, clock, time, settled, heldSince, jumps>>

Unasked == [phase |-> "new", kind |-> None, source |-> None, answer |-> None]

Init ==
  /\ request = [r \in Requests |-> Unasked]
  /\ inFlight = None
  /\ last = None
  /\ clock = 0 /\ time = 0 /\ jumps = 0
  /\ settled = None /\ heldSince = None

-----------------------------------------------------------------------------
(* Joining.                                                                *)

\* Everyone wants a running daemon, but only a restart restarts it.
CanJoin(kind, other) == kind # "restart" \/ other = "restart"

\* Wait for the run of another request, or hold one of one's own.
Waiting(x, phase, r) == [x EXCEPT !.phase = phase, !.source = r]

Answered(x, answer) == [x EXCEPT !.phase = "done", !.answer = answer]

\* What becomes of a request that meets a mutation in flight.
Met(x) ==
  IF CanJoin(x.kind, request[inFlight].kind)
    THEN Waiting(x, "joined", inFlight)
    ELSE Answered(x, "mutation_in_flight")

-----------------------------------------------------------------------------
(* The window after a timeout.                                             *)

\* Mutant: a time stamp from the future is kept.
Restamped_Kept(l) == l

\* A time stamp from the future is set to now.
Restamped(l) == IF clock < l.at THEN [l EXCEPT !.at = clock] ELSE l

TimedOut(kind) ==
  /\ last # None
  /\ last.code = "readiness_timeout" /\ last.kind = kind

Held(kind) == TimedOut(kind) /\ clock - Restamped(last).at < Window

-----------------------------------------------------------------------------
(* One action for each stretch of runDaemonMutation between two awaits.    *)

Asking(r, kind) == [request[r] EXCEPT !.kind = kind]

Join(r) ==
  /\ request[r].phase = "new" /\ inFlight # None
  /\ \E kind \in Kinds : request' = [request EXCEPT ![r] = Met(Asking(r, kind))]
  /\ UNCHANGED <<inFlight, last, clock, time, settled, heldSince, jumps>>

\* The same kind timed out a short while ago: health is asked first.
Hold(r) ==
  /\ request[r].phase = "new" /\ inFlight = None
  /\ \E kind \in Kinds :
       /\ Held(kind)
       /\ request' = [request EXCEPT ![r] = Waiting(Asking(r, kind), "probing", None)]
  /\ last' = Restamped(last)
  /\ heldSince' = IF heldSince = None THEN time ELSE heldSince
  /\ UNCHANGED <<inFlight, clock, time, settled, jumps>>

Admit(r) ==
  /\ request[r].phase = "new" /\ inFlight = None
  /\ \E kind \in Kinds :
       /\ ~Held(kind)
       /\ request' = [request EXCEPT ![r] = Waiting(Asking(r, kind), "running", r)]
  /\ inFlight' = r
  /\ UNCHANGED <<last, clock, time, settled, heldSince, jumps>>

\* The daemon is ready after all: the earlier mutation is settled as it is.
ProbeReady(r) ==
  /\ request[r].phase = "probing"
  /\ request' = [request EXCEPT ![r] = Answered(@, "reconciled")]
  /\ last' = [kind |-> request[r].kind, code |-> "ok", at |-> clock]
  /\ settled' = IF settled = None THEN None ELSE [settled EXCEPT !.proven = TRUE]
  /\ UNCHANGED <<inFlight, clock, time, heldSince, jumps>>

\* Mutant: what was admitted during the probe is not looked at again.
ProbeNotReady_Replays(r) ==
  /\ request[r].phase = "probing"
  /\ request' = [request EXCEPT ![r] = Waiting(@, "running", r)]
  /\ inFlight' = r
  /\ UNCHANGED <<last, clock, time, settled, heldSince, jumps>>

\* Another mutation may have been admitted during the probe.
ProbeNotReady(r) ==
  /\ request[r].phase = "probing"
  /\ request' = [request EXCEPT ![r] =
       IF inFlight # None THEN Met(@) ELSE Answered(@, "duplicate_after_timeout")]
  /\ UNCHANGED <<inFlight, last, clock, time, settled, heldSince, jumps>>

\* The mutation ends, by a result or by throwing, and answers all who wait.
Settle(r) ==
  /\ request[r].phase = "running"
  /\ \E code \in Codes :
       /\ request' = [q \in Requests |->
            IF request[q].phase \in {"joined", "running"} /\ request[q].source = r
              THEN Answered(request[q], code) ELSE request[q]]
       /\ last' = [kind |-> request[r].kind, code |-> code, at |-> clock]
       /\ settled' = [kind |-> request[r].kind, code |-> code, time |-> time,
                      steady |-> TRUE, proven |-> FALSE]
  /\ inFlight' = IF inFlight = r THEN None ELSE inFlight
  /\ heldSince' = None
  /\ UNCHANGED <<clock, time, jumps>>

Tick ==
  /\ time < MaxTime
  /\ time' = time + 1 /\ clock' = clock + 1
  /\ UNCHANGED <<request, inFlight, last, settled, heldSince, jumps>>

\* The wall clock is set back.
Jump ==
  /\ jumps < MaxJumps
  /\ jumps' = jumps + 1
  /\ clock' \in 0 .. clock - 1
  /\ settled' = IF settled = None THEN None ELSE [settled EXCEPT !.steady = FALSE]
  /\ heldSince' = None
  /\ UNCHANGED <<request, inFlight, last, time>>

Next ==
  \/ \E r \in Requests :
       \/ Join(r) \/ Hold(r) \/ Admit(r)
       \/ ProbeReady(r) \/ ProbeNotReady(r) \/ Settle(r)
  \/ Tick \/ Jump

Spec == Init /\ [][Next]_vars

-----------------------------------------------------------------------------
\* The state has its types.
TypeOK ==
  /\ request \in [Requests -> [phase : Phases, kind : Kinds \union {None},
                               source : Requests \union {None},
                               answer : Answers \union {None}]]
  /\ inFlight \in Requests \union {None}
  /\ last \in Outcome \union {None}
  /\ clock \in 0 .. MaxTime /\ time \in 0 .. MaxTime /\ jumps \in 0 .. MaxJumps
  /\ settled \in Settlement \union {None}
  /\ heldSince \in (0 .. MaxTime) \union {None}

\* At most one mutation runs, and whoever waits is waiting for that one, which
\* gives it what it asked for: whatever was admitted or settled while a request
\* awaited its probe, no second launch races the first, nobody waits for a run
\* that is over, and nobody is told of a restart that did not happen.
SingleFlight ==
  /\ \A r, q \in Requests :
       request[r].phase = "running" /\ request[q].phase = "running" => r = q
  /\ \A r \in Requests :
       request[r].phase = "joined" =>
         /\ request[request[r].source].phase = "running"
         /\ CanJoin(request[r].kind, request[request[r].source].kind)

TimedOutLast(kind) ==
  /\ settled # None
  /\ settled.kind = kind /\ settled.code = "readiness_timeout"
  /\ settled.steady /\ ~settled.proven

Took(r, phase) == request[r].phase = "new" /\ request'[r].phase = phase

\* A mutation that timed out holds up the next of its kind for one window, no
\* less and no more.  As long as nothing else settled and the clock was not set
\* back, it is not run again unless health proved it finished; and however far
\* the clock is set back, requests are held for less than a window from the
\* first that was held.
WindowKept ==
  [][\A r \in Requests :
       /\ Took(r, "running") /\ TimedOutLast(request'[r].kind) =>
            time - settled.time >= Window
       /\ Took(r, "probing") /\ heldSince # None => time - heldSince < Window]_vars
=============================================================================
