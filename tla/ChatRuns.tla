------------------------------- MODULE ChatRuns -------------------------------
(***************************************************************************)
(* Chat turns on the server: the registry that lets a Stop find a run      *)
(* (lib/server/chat-stop-registry.ts), the buffers a client that lost its  *)
(* stream tails (lib/server/chat-stream-buffer.ts), and the part of the    *)
(* send route that drives both (app/api/chat/send/route.ts).               *)
(*                                                                         *)
(* A run is one POST with a run id of its own.  It may name a conversation *)
(* or start a new one, sets itself up over several awaits, binds a         *)
(* transport, launches a harness child (again after a failure that can be  *)
(* healed), settles, is saved and closes.  Meanwhile Stops arrive by run   *)
(* id or by conversation, the client vanishes, and tails come and go.      *)
(***************************************************************************)
EXTENDS Naturals, Sequences, FiniteSets, SequencesExt

CONSTANTS
    Runs,           \* run ids, one for each send
    Conversations,  \* conversation ids
    Saved,          \* the conversations that exist at the start
    Paths,          \* how a turn may run: "child", "http" or "openclaw"
    None,
    MaxPending,     \* stops the registry keeps for runs not yet registered
    MaxSettled,     \* settled run ids it remembers
    MaxLaunches,    \* bound: children a run launches
    MaxTails        \* bound: tails on a run at one time

ASSUME SavedAssumption == Saved \subseteq Conversations
ASSUME PathsAssumption == Paths # {} /\ Paths \subseteq {"child", "http", "openclaw"}
ASSUME BoundsAssumption ==
  /\ MaxPending \in Nat /\ MaxLaunches \in Nat /\ MaxTails \in Nat
  /\ MaxSettled \in Nat \ {0}
ASSUME KeysAssumption ==
  Runs \intersect Conversations = {} /\ None \notin Runs \union Conversations

VARIABLES
    run,       \* what the send route and the run's handle hold
    active,    \* key -> the run a Stop or the sessions list finds there
    pending,   \* run ids with a queued Stop
    settled,   \* settled run ids, oldest first
    buffers,   \* key -> the run whose stream a tail finds there
    honoured   \* history: runs whose Stop was answered stopped, or queued before
               \* they registered

vars == <<run, active, pending, settled, buffers, honoured>>

Keys == Runs \union Conversations

Phases == {"unsent", "refused", "setup", "opened", "failed", "bound",
           "settled", "saved", "closed"}

Unsent ==
  [phase |-> "unsent", conversation |-> None, path |-> CHOOSE p \in Paths : TRUE,
   registered |-> FALSE, keys |-> {}, stopRequested |-> FALSE,
   acceptingStop |-> FALSE, projectionActive |-> FALSE,
   child |-> "none", killed |-> FALSE, launches |-> 0,
   aborted |-> FALSE, timer |-> "off", buffer |-> "none", tagged |-> {}, tails |-> 0]

Init ==
  /\ run = [r \in Runs |-> Unsent]
  /\ active = [k \in Keys |-> None]
  /\ pending = {} /\ settled = <<>> /\ honoured = {}
  /\ buffers = [k \in Keys |-> None]

-----------------------------------------------------------------------------
(* The registry.                                                           *)

\* Point every key of a set at a run.
Pointed(map, keys, r) == [k \in Keys |-> IF k \in keys THEN r ELSE map[k]]

\* Take a run out of a map, leaving the keys another run has taken over.
Dropped_AllKeys(map, keys, r) == [k \in Keys |-> IF k \in keys THEN None ELSE map[k]]
Dropped(map, keys, r) ==
  [k \in Keys |-> IF k \in keys /\ map[k] = r THEN None ELSE map[k]]

BlocksNewTurn(k) ==
  /\ active[k] # None
  /\ run[active[k]].projectionActive /\ ~run[active[k]].stopRequested

OwnsKey_Always(r, k) == TRUE
OwnsKey(r, k) == run[r].projectionActive /\ active[k] = r

\* The transport's own kill: a child path signals the child it has now; the
\* OpenClaw path also signals one it launches later.
Bound(x) == x.phase \in {"bound", "settled", "saved"}
Kill(x) ==
  IF Bound(x) /\ (x.path = "openclaw" \/ x.child = "running")
    THEN [x EXCEPT !.killed = TRUE] ELSE x

\* A stop that was queued for the run id is consumed when it registers.
Handle_IgnoresQueued(x, r, keys) ==
  [x EXCEPT !.registered = TRUE, !.keys = keys, !.stopRequested = FALSE,
            !.acceptingStop = TRUE, !.projectionActive = TRUE]
Handle(x, r, keys) ==
  [x EXCEPT !.registered = TRUE, !.keys = keys, !.stopRequested = (r \in pending),
            !.acceptingStop = TRUE, !.projectionActive = TRUE]

Unregistered(x) ==
  [x EXCEPT !.registered = FALSE, !.keys = {}, !.projectionActive = FALSE]

Stopped(x) == Kill([x EXCEPT !.stopRequested = TRUE])

\* POST /api/chat/stop with a run id.
StopRun(r) ==
  /\ \/ /\ run[r].registered
        /\ run[r].acceptingStop
        /\ run' = [run EXCEPT ![r] = Stopped(@)]
        /\ honoured' = honoured \union {r}
        /\ UNCHANGED pending
     \/ /\ ~run[r].registered
        /\ ~Contains(settled, r)
        /\ r \in pending \/ Cardinality(pending) < MaxPending
        /\ pending' = pending \union {r}
        /\ honoured' = IF run[r].phase \in {"unsent", "setup", "opened"}
                         THEN honoured \union {r} ELSE honoured
        /\ UNCHANGED run
  /\ UNCHANGED <<active, settled, buffers>>

\* POST /api/chat/stop with a conversation id.
StopConversation(c) ==
  /\ active[c] # None
  /\ run[active[c]].acceptingStop
  /\ run' = [run EXCEPT ![active[c]] = Stopped(@)]
  /\ honoured' = honoured \union {active[c]}
  /\ UNCHANGED <<active, pending, settled, buffers>>

\* Queued stops outlive the setup of the run they wait for: they expire after
\* fifteen minutes.
ExpirePending(r) ==
  /\ r \in pending /\ run[r].phase \notin {"unsent", "setup", "opened"}
  /\ pending' = pending \ {r}
  /\ UNCHANGED <<run, active, settled, buffers, honoured>>

ExpireSettled ==
  /\ settled # <<>>
  /\ settled' = Tail(settled)
  /\ UNCHANGED <<run, active, pending, buffers, honoured>>

-----------------------------------------------------------------------------
(* The detach cap: a run nobody listens to is killed after ten minutes.    *)

Armed_Watched(x) == IF x.stopRequested \/ x.timer # "off" THEN x ELSE [x EXCEPT !.timer = "armed"]
Armed(x) ==
  IF x.path = "openclaw" /\ x.tails > 0 THEN x
  ELSE IF x.stopRequested \/ x.timer # "off" THEN x
  ELSE [x EXCEPT !.timer = "armed"]

\* The abort listener of a child or http attempt lives as long as the attempt;
\* OpenClaw's from binding to settlement.
Listens(x) ==
  IF x.path = "openclaw" THEN x.phase = "bound" ELSE x.child = "running"

\* The client's transport is gone.
Abort(r) ==
  /\ run[r].phase \in {"setup", "opened", "bound", "settled", "saved"}
  /\ ~run[r].aborted
  /\ LET x == [run[r] EXCEPT !.aborted = TRUE]
     IN  run' = [run EXCEPT ![r] = IF Listens(x) THEN Armed(x) ELSE x]
  /\ UNCHANGED <<active, pending, settled, buffers, honoured>>

DetachTimer(r) ==
  /\ run[r].timer = "armed"
  /\ run' = [run EXCEPT ![r] = Kill([@ EXCEPT !.timer = "fired"])]
  /\ UNCHANGED <<active, pending, settled, buffers, honoured>>

\* A client tails the run it finds under a key.  The hooks reach the timer once
\* the transport is bound.
Attach(k) ==
  /\ buffers[k] # None
  /\ LET r == buffers[k]
         x == [run[r] EXCEPT !.tails = @ + 1]
     IN  /\ run[r].buffer = "open" /\ run[r].tails < MaxTails
         /\ run' = [run EXCEPT ![r] = IF x.tails = 1 /\ Bound(x)
                                        THEN [x EXCEPT !.timer = "off"] ELSE x]
  /\ UNCHANGED <<active, pending, settled, buffers, honoured>>

Detach(r) ==
  /\ run[r].buffer = "open" /\ run[r].tails > 0
  /\ LET x == [run[r] EXCEPT !.tails = @ - 1]
     IN  run' = [run EXCEPT ![r] = IF x.tails = 0 /\ x.aborted /\ Bound(x)
                                     THEN Armed(x) ELSE x]
  /\ UNCHANGED <<active, pending, settled, buffers, honoured>>

-----------------------------------------------------------------------------
(* The send route.                                                         *)

Known(c) == c \in Saved \/ \E q \in Runs : run[q].conversation = c

\* A send to a conversation is admitted, or refused while a turn is live; a
\* send without one is registered later.
Send(r) ==
  /\ run[r].phase = "unsent"
  /\ \E p \in Paths, c \in Conversations \union {None} :
       LET x == [run[r] EXCEPT !.phase = "setup", !.path = p, !.conversation = c]
       IN  \/ /\ c = None
              /\ run' = [run EXCEPT ![r] = x]
              /\ UNCHANGED <<active, pending>>
           \/ /\ c # None /\ Known(c)
              /\ BlocksNewTurn(c) \/ BlocksNewTurn(r)
              /\ run' = [run EXCEPT ![r].phase = "refused"]
              /\ UNCHANGED <<active, pending>>
           \/ /\ c # None /\ Known(c)
              /\ ~BlocksNewTurn(c) /\ ~BlocksNewTurn(r)
              /\ run' = [run EXCEPT ![r] = Handle(x, r, {r, c})]
              /\ active' = Pointed(active, {r, c}, r)
              /\ pending' = pending \ {r}
  /\ UNCHANGED <<settled, buffers, honoured>>

\* The run as it stands once it is registered under the keys it knows.
Registered(x, r, keys) ==
  IF x.registered THEN [x EXCEPT !.keys = @ \union keys] ELSE Handle(x, r, keys)

\* Registering takes every key; adding keys takes only the ones the run lacks.
Registers(r, keys) ==
  /\ active' = Pointed(active, IF run[r].registered THEN keys \ run[r].keys ELSE keys, r)
  /\ pending' = IF run[r].registered THEN pending ELSE pending \ {r}

\* A buffer is published under the keys the run owns.
Buffered(x, keys) == [x EXCEPT !.buffer = "open", !.tagged = keys]

KeysOf(r, c) == {r} \union (IF c = None THEN {} ELSE {c})

Fresh(c) == ~Known(c)

\* OpenClaw knows the conversation up front and opens its buffer before it has
\* a transport.
Open(r) ==
  /\ run[r].phase = "setup" /\ run[r].path = "openclaw"
  /\ \E c \in Conversations :
       /\ IF run[r].conversation = None THEN Fresh(c) ELSE c = run[r].conversation
       /\ LET keys  == {r, c}
              owned == {k \in keys : ~run[r].registered \/ OwnsKey(r, k)}
          IN  /\ Registers(r, keys)
              /\ run' = [run EXCEPT ![r] =
                   Buffered([Registered(@, r, keys) EXCEPT !.phase = "opened",
                                                           !.conversation = c], owned)]
              /\ buffers' = Pointed(buffers, owned, r)
  /\ UNCHANGED <<settled, honoured>>

\* The transport is bound to the run, and a stop from its setup carried to it.
Carried_Not(x) == x
Carried(x) == IF x.stopRequested THEN Kill(x) ELSE x

ArmedIfGone_Not(x) == x
ArmedIfGone(x) == IF x.aborted THEN Armed(x) ELSE x

BindOpenClaw(r) ==
  /\ run[r].phase = "opened"
  /\ run' = [run EXCEPT ![r] = ArmedIfGone(Carried([@ EXCEPT !.phase = "bound"]))]
  /\ UNCHANGED <<active, pending, settled, buffers, honoured>>

BindChild(r) ==
  LET keys  == KeysOf(r, run[r].conversation)
      owned == {k \in keys : ~run[r].registered \/ OwnsKey(r, k)}
  IN  /\ run[r].phase = "setup" /\ run[r].path # "openclaw"
      /\ Registers(r, keys)
      /\ run' = [run EXCEPT ![r] =
           Carried(Buffered([Registered(@, r, keys) EXCEPT !.phase = "bound"], owned))]
      /\ buffers' = Pointed(buffers, owned, r)
      /\ UNCHANGED <<settled, honoured>>

\* The setup ends early: the run leaves the registry and its buffer finishes.
SetupFails(r) ==
  /\ run[r].phase \in {"setup", "opened"}
  /\ active' = Dropped(active, run[r].keys, r)
  /\ run' = [run EXCEPT ![r] =
       [Unregistered(@) EXCEPT !.phase = "failed", !.tails = 0,
          !.buffer = IF run[r].buffer = "open" THEN "done" ELSE run[r].buffer]]
  /\ UNCHANGED <<pending, settled, buffers, honoured>>

\* A child is launched: not after a stop, except that OpenClaw launches its
\* first one and signals it at once.
MayLaunch_Stopped(x) == TRUE
MayLaunch(x) == ~x.stopRequested \/ (x.path = "openclaw" /\ x.launches = 0)

Launch(r) ==
  /\ run[r].phase = "bound" /\ run[r].child # "running"
  /\ run[r].launches < MaxLaunches
  /\ MayLaunch(run[r])
  /\ LET x == [run[r] EXCEPT !.child = "running", !.launches = @ + 1,
                             !.killed = @ /\ run[r].path = "openclaw"]
     IN  run' = [run EXCEPT ![r] = IF x.path = "http" THEN ArmedIfGone(x) ELSE x]
  /\ UNCHANGED <<active, pending, settled, buffers, honoured>>

\* A new chat's conversation id is announced by the harness.
Announce(r) ==
  /\ run[r].phase = "bound" /\ run[r].child = "running"
  /\ run[r].conversation = None
  /\ \E c \in Conversations :
       /\ Fresh(c)
       /\ run' = [run EXCEPT ![r].conversation = c,
                             ![r].keys = IF run[r].projectionActive THEN @ \union {c} ELSE @]
       /\ active' = IF run[r].projectionActive THEN Pointed(active, {c}, r) ELSE active
  /\ UNCHANGED <<pending, settled, buffers, honoured>>

ChildExits(r) ==
  /\ run[r].child = "running"
  /\ run' = [run EXCEPT ![r].child = "exited"]
  /\ UNCHANGED <<active, pending, settled, buffers, honoured>>

\* Remember a settled run id, forgetting the oldest when there are too many.
Remember(r) ==
  IF Len(settled) >= MaxSettled THEN Append(Tail(settled), r) ELSE Append(settled, r)

\* The transport has its outcome: from here a Stop comes too late.
Settle(r) ==
  /\ run[r].phase = "bound" /\ run[r].child # "running"
  /\ run' = [run EXCEPT ![r].phase = "settled", ![r].acceptingStop = FALSE,
                        ![r].timer = IF run[r].path = "openclaw" THEN "off" ELSE @]
  /\ pending' = pending \ {r}
  /\ settled' = Remember(r)
  /\ UNCHANGED <<active, buffers, honoured>>

\* The transcript is saved and the run no longer shows as live.
Save(r) ==
  /\ run[r].phase = "settled"
  /\ IF run[r].path = "openclaw"
       THEN /\ run' = [run EXCEPT ![r] = [Unregistered(@) EXCEPT !.phase = "saved"]]
            /\ active' = Dropped(active, run[r].keys, r)
       ELSE /\ run' = [run EXCEPT ![r].phase = "saved", ![r].projectionActive = FALSE]
            /\ UNCHANGED active
  /\ UNCHANGED <<pending, settled, buffers, honoured>>

\* The run leaves the registry and its buffer finishes; its tails end with it.
Close(r) ==
  /\ run[r].phase = "saved"
  /\ run' = [run EXCEPT ![r] =
       [Unregistered(@) EXCEPT !.phase = "closed", !.buffer = "done",
                               !.tails = 0,
                               !.timer = IF run[r].path = "openclaw" THEN run[r].timer ELSE "off"]]
  /\ active' = Dropped(active, run[r].keys, r)
  /\ UNCHANGED <<pending, settled, buffers, honoured>>

\* A finished buffer is dropped two minutes later.
Reap(r) ==
  /\ run[r].buffer = "done"
  /\ run' = [run EXCEPT ![r].buffer = "none"]
  /\ buffers' = Dropped(buffers, run[r].tagged, r)
  /\ UNCHANGED <<active, pending, settled, honoured>>

Next ==
  \/ \E r \in Runs :
       \/ Send(r) \/ Open(r) \/ BindOpenClaw(r) \/ BindChild(r) \/ SetupFails(r)
       \/ Launch(r) \/ Announce(r) \/ ChildExits(r)
       \/ Settle(r) \/ Save(r) \/ Close(r) \/ Reap(r)
       \/ StopRun(r) \/ ExpirePending(r)
       \/ Abort(r) \/ DetachTimer(r) \/ Detach(r)
  \/ \E c \in Conversations : StopConversation(c)
  \/ \E k \in Keys : Attach(k)
  \/ ExpireSettled

\* The route goes on after each await, a signalled child exits and the timer
\* fires.  A child left alone may run for ever, and nobody need press Stop.
Fairness ==
  \A r \in Runs :
    /\ WF_vars(Open(r)) /\ WF_vars(BindOpenClaw(r)) /\ WF_vars(BindChild(r))
    /\ WF_vars(run[r].killed /\ ChildExits(r))
    /\ WF_vars(Settle(r)) /\ WF_vars(Save(r)) /\ WF_vars(Close(r))
    /\ WF_vars(DetachTimer(r))

Spec == Init /\ [][Next]_vars /\ Fairness

-----------------------------------------------------------------------------
RunType ==
  [phase : Phases, conversation : Conversations \union {None}, path : Paths,
   registered : BOOLEAN, keys : SUBSET Keys, stopRequested : BOOLEAN,
   acceptingStop : BOOLEAN, projectionActive : BOOLEAN,
   child : {"none", "running", "exited"}, killed : BOOLEAN, launches : 0 .. MaxLaunches,
   aborted : BOOLEAN, timer : {"off", "armed", "fired"},
   buffer : {"none", "open", "done"}, tagged : SUBSET Keys, tails : 0 .. MaxTails]

\* The state has its types, and queued stops and settled ids stay within their
\* capacities.
TypeOK ==
  /\ run \in [Runs -> RunType]
  /\ active \in [Keys -> Runs \union {None}]
  /\ buffers \in [Keys -> Runs \union {None}]
  /\ pending \subseteq Runs /\ Cardinality(pending) <= MaxPending
  /\ settled \in Seq(Runs) /\ Len(settled) <= MaxSettled
  /\ honoured \subseteq Runs

\* A run that is working and was not asked to stop.
Live(r) == run[r].projectionActive /\ ~run[r].stopRequested

\* A live run is what Stop and the sessions list find under its conversation,
\* so a conversation never has two, however setups, stops, announcements and
\* cleanups of its turns interleave (chatRunBlocksNewTurn).
LiveIsReachable ==
  \A r \in Runs :
    Live(r) /\ run[r].conversation # None => active[run[r].conversation] = r

\* A live run's buffer is the one a tail finds under every key it was opened
\* with: neither a stopped predecessor that finishes its setup late nor a
\* predecessor's reaping takes the key away.
LiveIsTailed ==
  \A r \in Runs :
    Live(r) /\ run[r].buffer = "open" => \A k \in run[r].tagged : buffers[k] = r

\* Once a Stop was answered stopped or queued, the run has no child that was
\* not signalled.
StopReachesChild ==
  \A r \in honoured : run[r].child = "running" => run[r].killed

\* A turn whose Stop was answered stopped or queued is saved as cancelled: the
\* answer never disagrees with the transcript.
AnsweredIsCancelled ==
  \A r \in honoured :
    run[r].phase \in {"settled", "saved", "closed"} => run[r].stopRequested

CapUnwatched(r) == run[r].timer = "armed" => run[r].tails = 0

CapPresent(r) ==
  run[r].child = "running" /\ run[r].aborted /\ run[r].tails = 0 =>
    run[r].timer = "armed" \/ run[r].killed

\* On the OpenClaw path the detach cap counts down on no run that a client is
\* tailing, and on every child whose client is gone and that nobody tails.
OpenClawCapped ==
  \A r \in Runs : run[r].path = "openclaw" => CapUnwatched(r) /\ CapPresent(r)

\* The same on every path: a child that runs on after its client vanished is
\* bounded, as the comment on CHAT_DETACH_MAX_MS says.
UnwatchedIsCapped == \A r \in Runs : CapPresent(r)

\* A run that was asked to stop is over in the end.
StoppedEnds ==
  \A r \in Runs : run[r].stopRequested ~> run[r].phase \in {"failed", "closed"}

\* On the OpenClaw path a child whose client is gone ends, or is tailed again.
OpenClawEnds ==
  \A r \in Runs :
    run[r].path = "openclaw" /\ run[r].child = "running" /\ run[r].aborted ~>
      (run[r].child # "running" \/ run[r].tails > 0)
=============================================================================
