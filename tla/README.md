# Verification of coven-cave in TLA+

coven-cave is a local-first desktop workspace: a Next.js server (`src/server.ts`,
`src/src/app/api`, `src/src/lib/server`) that runs as a child of a Tauri shell
(`src/src-tauri`), webviews that talk to it over HTTP, server-sent events and a
WebSocket, other processes (the daemon, a second window, a helper) that share its
files, and an iOS client. Its own core logic is coordination: who may write a
file, whether something that leaves the machine leaves it twice, whether a webview
knows that what it shows is old, and whether a Stop stops the turn it names.

Paths below are relative to the repository unless they name a module here.

- [1. Inventory](#1-inventory)
- [2. What is modelled](#2-what-is-modelled)
- [3. What each run checks](#3-what-each-run-checks)
- [4. Bounds](#4-bounds)
- [5. Fairness](#5-fairness)
- [6. What is proved](#6-what-is-proved)
- [7. Where the code and its documentation differ](#7-where-the-code-and-its-documentation-differ)
- [8. Modelling assumptions](#8-modelling-assumptions)
- [9. Not modelled](#9-not-modelled)
- [10. Plan](#10-plan)

## 1. Inventory

| Part | State it keeps | Operations | Interacts through | Hard behaviours | Correct means |
|---|---|---|---|---|---|
| Intent lock `lib/server/process-intent-lock.ts` | a directory of `.choosing` markers and `.lock` intents; per process, the removals it still retries; leases | acquire, release, background removal, re-entrant `withProcessIntentLock` | the file system, `hrtime`, PID and start identity | crash at any await, PID reuse, stale `readdir`, failed removal, timeout, nested work that outlives its caller | exclusion, FIFO, live files kept, no residue blocks for ever, no operation without its lock |
| X publications `lib/server/x-publications.ts`, `x-client.ts` | one JSON file of records; confirmation tokens are stateless | draft, publish, resolve, list | the intent lock; the X API | crash around the send, timeout with late landing, clock steps, malformed file | a draft is posted at most once; the record never invites a resend |
| Event plane `lib/server/cave-event-broker.ts`, `lib/cave-event-plane-client.ts` | ring, epoch, sequence, per-socket topics; client cursor, barrier, dirty set, timers | hello, subscribe, ack, publish; reconcile, deliver, back off, idle | one WebSocket; surfaces through `use-cave-event-plane.ts` | restart, lost frames, slow consumer, ring eviction, hidden window | nothing announced is lost; ready means fresh |
| Chat runs `lib/server/chat-stop-registry.ts`, `chat-stream-buffer.ts`, `app/api/chat/send/route.ts` | active handles by key, queued stops, settled ids, buffers by key, detach timers | admit, bind, launch, announce, settle, save, close; stop; attach, detach | harness children, the Hermes API, OpenClaw; the sessions list | stop before send, two turns of one conversation, client vanishing, tails | a live turn is reachable; an answered stop reaches child and transcript |
| Scheduled replies `lib/server/scheduled-chat-*.ts` | a JSON file of timed replies | create, cancel, tick, dispatch | two intent locks; chat send | crash after claim, cancel against claim, two processes ticking | delivered at most once, in order per chat; a cancelled one never goes out |
| Client pairing `lib/server/client-v1/` | pairing records, credentials | request, approve, exchange, restore, revoke | HTTP routes | failure after consumption, expiry, double exchange | one credential per approval |
| Daemon owners `lib/server/daemon-*.ts` | in-flight mutation, last outcome | run, join, refuse, probe | the daemon CLI | await between check and use, duplicate after timeout | one mutation at a time; no blind retry |
| Travel replay `lib/travel-offline-replay.ts`, `lib/server/daemon-travel-reconcile.ts`, the travel state of `lib/cave-config.ts` | mode, outage, stale mark and queue in `cave-state.json`; reconcile lanes, the replay in progress | queue, poll, reconcile, replay, complete, fail, switch mode | hub, conversations, status polls | crash after effect, before mark; polls that overlap; hub lost in the middle | each item takes effect once; nothing is called current too early, nor old for ever |
| Inbox scheduler `lib/inbox-scheduler.ts` | timer, revision, pending pass | start, stop, pass | inbox store | restart while a pass drains | one timer, no pass after stop |
| Offline cache `lib/offline-cache.ts`, `src-tauri/src/offline_cache.rs` | cached responses | read through, store, evict | shell | stale answers | shows what it says it shows |
| Native shell `src-tauri/src/` | supervised child, ports, views, PTYs | start, watch, restart, update | the server process | crash loops, port races | one server, bounded restarts |
| Stores `lib/cave-board.ts`, `lib/cave-conversations.ts`, missions, flows, backups | JSON files | read-modify-write | intent lock, event plane | lost update, crash | each write is whole |
| Interfaces `src/components`, `apps/ios` | view state | render, poll | all of the above | stale closures | show the state |

`PROJECT.json` lists every component with its status, and every hazard at its
line with the properties that would catch it.

How they interact: every store that several processes write takes the intent
lock; X publications and scheduled replies also act on the outside world while
other callers wait. A durable write publishes an event-plane invalidation, which
makes a surface load again. The chat send route registers with the stop registry
and opens a stream buffer; stop, stream and sessions routes find the run there.

## 2. What is modelled

| Module | Models | State | Actions |
|---|---|---|---|
| `CrashSafeMutex` | what a caller of the lock may rely on | the holder, and who is finished | Enter, Leave |
| `ProcessIntentLock` | `process-intent-lock.ts` 54-403 | directory, clock, tickets, each attempt's program point and last `readdir`, retried removals | one action per await of `acquireProcessIntentLock` |
| `IntentLeases` | `withProcessIntentLock`, over `CrashSafeMutex` | each call's program point, the lease it carries and who awaits it; the active leases and what they wait for | one per kind of call, per end of an operation, per round of the waiting loop, release |
| `XPublications` | `x-publications.ts`, `x-client.ts` | stored records, each call's loaded copy, tokens, the request on the wire, posts | the two critical sections and the send between them |
| `EventPlane` | broker, client and surface | two records, one per side, and the two halves of the socket, what is unread of closed ones | one per frame, timer, write and user event |
| `ChatRuns` | registry, buffers and the life of a turn in the send route | one record per run, the registry's maps | one per step between awaits, per request and per timer |
| `SchedulerOwner` | the owner of a background timer, `scheduled-chat-scheduler.ts` and `inbox-scheduler.ts` | wanted, revision, timer, pending; the callbacks of waiting restarts | start, stop, fire, resume, drain |
| `ScheduledReplies` | `scheduled-chat-store.ts`, `-dispatch.ts`, over `SchedulerOwner` | the file's statuses, each pass's work, the dispatch locks, the turns started | one per `change()`, lock, dispatch and end of a turn |
| `ClientPairing` | `client-v1/pairing-store.ts`, `credential-store.ts`, the exchange route | the two maps of requests, the queue, memory and file of credentials | one per handler of the pairing store, one per await of the credential store |
| `DaemonMutations` | `daemon-mutation-owner.ts` | each request and what it waits for, the mutation in flight, the remembered outcome, the wall clock | one per stretch of `runDaemonMutation` between two awaits, the clock's ticks and corrections |
| `TravelReplay` | `travel-offline-replay.ts`, `daemon-travel-reconcile.ts`, the travel state of `cave-config.ts` | the travel state on disk, the polls and lanes, the replay, the hub, how often each item's work was started | one per write of the state and per stretch between awaits of a poll and of the replay |
| `MC...` | values for TLC | | |
| `..._proofs` | theorems | | |

**ProcessIntentLock.** `pc` is where a call is: *marked* after its marker exists
(279), *ticketed* after `hrtime` was read, *published* after the intent exists,
*abandon* if either failed, *contend* at the top of the loop, *judge* between the
`readdir` and what is done about it, *held*, *done*. The gap between *ticketed*
and *published* is the one issue #5443 was about: an attempt may hold an old
ticket that nobody can see. An attempt works on `seen`, never on the directory.
`proc` and `pidOf` separate a process from its PID: a new incarnation may start
behind the PID of a dead one, which is what the start identity in the file name is
for. Each removal may fail and pass to the background loop (`cleanup`).

**XPublications.** The lock is `CrashSafeMutex`, by instance: this module composes
with the *abstract* lock, which `ProcessIntentLock` is proved to implement. A call
loads the file into `copy` inside its section and saves from that copy, so a
section that did not exclude others would lose updates. A request that timed out
stays on `wire` and may `Land` at any later time, its caller dead or not.

**IntentLeases.** `AsyncLocalStorage` hands a lease to whatever asynchronous work springs from an
operation, and such work may go on when the operation is over; so any call that *began* can make
further calls, and while its operation is *running* it may await them (`MadeBy`). `Nest` is the call that finds an
active lease, `Requeue` the one that finds a lease that is over. `snapshot` is what the loop of
the `finally` awaits at present, beside what is `pending` by now. An operation's success
or failure takes the same way through the code, so it is not told apart.

**EventPlane.** `broker` holds the server's ring and its side of the socket,
`client` the manager. `sent` in each is what is on its way from it. The client's
functions (`Reconcile`, `Connect`, `Teardown`, `OnReady`...) are functions from a
client state to the next, so an action is the composition the handler performs.
`Replays` is the loop over the ring: the one sequence that holds each record after the
cursor on an installed topic, in the order of the ring.
`parting` is what the broker has still to read of sockets the client has closed in order:
`IdleTimer` flushes the pending acknowledgement and closes, and `PartingReceive` is the broker
that comes to those frames later, when nobody hears its answers.
`stale`, `owed` and `covered` are history: what a surface shows, and what it must
still hear.

**ChatRuns.** A run's record has the handle of the registry, its buffer and the
route's own variables. `phase` is *setup* while the route prepares, *opened* when
OpenClaw has opened its buffer, *bound* once the transport is set, *settled* from
the outcome, *saved* once the transcript is written, *closed* at the end. The
three paths differ where the code does: `child` and `http` register a new chat's
conversation when the harness announces it, `openclaw` knows it up front and has
an abort listener for as long as it is bound.

**ScheduledReplies.** It extends `SchedulerOwner`, the worker that runs its passes:
`List` begins a pass that `Fire`, `Start` or `Resume` admitted, `PassEnds` drains it.
A pass reads the file once, without the lock, and uses one time throughout
(`listed`); what it listed may be cancelled, claimed elsewhere or overtaken by a new
reply before `Claim` looks again. `change()` is one action, because the lock
around it is the one `ProcessIntentLock` is proved to implement; the dispatch lock of a
chat is held across awaits and is the variable `lane`. `sent` is history: how many
turns a reply has started, whatever its status says.

**ClientPairing.** The handlers of the pairing store do not await, so each is one
action, with the pruning it begins with (`Kept`, `Ended`) and the eviction it ends
with (`Newest`). `Exchange` spends the approval and queues the issue; `Load`, `Commit`
and `Fail` are what the issue awaits; `Restore` is the route's `catch`. `Fail` leaves
the changed map in memory, as the code does; only the next `Load` makes up for it.
Ids and serials are chosen among those never used (`randomUUID`).

**DaemonMutations.** A request is *new*, *joined* to the run of another, *probing* while
health is asked about a mutation of its kind that timed out, *running* or *done*. `Join`,
`Hold` and `Admit` are the three ways out of a call's first stretch, which does not
await; `ProbeReady` and `ProbeNotReady` come after the probe and look at what was
admitted meanwhile, as the code does; `Settle` writes the outcome, frees the slot and
answers all who joined, because they hold the same promise. `last` is re-stamped in place when
it comes from the future. `time` is the time that really passes beside the `clock` the code reads,
`settled` the mutation that really settled last beside the one that is remembered.

**TravelReplay.** `travel` is the file, `known` what a poll read of it before it asked the
hub. A poll is *asking*, then *waiting* behind the reconcile of its target that was started last, or
*ready*; *recorded* once what it found is written, *syncing* while it waits for the
replay and *waking* while it starts the local daemon. `Share` is the poll that returns another's
promise. `Turn` is where a reconcile that waited reads the state again. The replay is one (`syncMutex`) whatever
targets ask for it: `List`, then for each item `Mark`, `Start` or `Resume` or `Refuse`, `Note`, and `Complete` or
`Fail`. A chat remembers its session, so a later attempt resumes there; the other kinds do not. `unfit` items are those whose
preparation is refused whenever it is tried. `effects` and `lost` are history: how often the work of an item was started, and how often
a crash, a lost answer or a failed write left no trace of that.

## 3. What each run checks

The type invariants are proved (section 6) and not run. Every property of a passing run is paired in `PROJECT.json` with a mutant, a small
plausible error in one definition (the operators with a `_` in their name), that
makes TLC find it violated.

| Run | Shows |
|---|---|
| `intent_lock` | Two attempts, a third process that may take the first one's PID, crashes and two I/O errors anywhere: at most one is inside (`MutualExclusion`), in ticket order (`FirstComeFirstServed`), no file of a running attempt is taken away (`LiveFilesKept`); the lock refines `CrashSafeMutex`; a waiter enters unless it times out or dies; files of a finished attempt disappear. |
| `intent_leases` | Three calls of one process that nest in every way, and one of another: no operation runs without its lease's lock (`OperationsCovered`), and every call ends (`CallsEnd`), which none would that queued behind an operation awaiting it. |
| `publications` | Four calls, any mix of operations, on one record with two wordings: `AtMostOnePost`, `NeverInvitesResend`, `PublishedIsEvidence`, and `TokenOneTime` as long as the clock is steady (`steady`): never set back, and no two tokens minted at one reading of it. |
| `event_plane` | Two topics, three writes, a restart, a cut, three subscription changes, every rollout mode: `NothingLost`, `HeldIsScheduled`, and `NeverRefused`, which covers the sockets the client has closed too and excepts one frame of them (section 7). |
| `event_plane_liveness` | One topic: owed invalidations are delivered unless the window is hidden; a topic listened to becomes ready unless the plane is off. |
| `chat_runs` | Two turns over two conversations: `LiveIsReachable`, `LiveIsTailed`, `StopReachesChild`, `AnsweredIsCancelled`. |
| `chat_runs_liveness` | One turn on each path with up to two tails: `OpenClawCapped`; a stopped turn ends; an OpenClaw child whose client is gone ends or is tailed. |
| `scheduled_replies` | Two processes, two replies of one chat, stops and restarts, and one crash, failed write or busy chat: `OneOwner`, `StatusTellsTruth`, `OneDeliveryPerChat`, `NeverOvertaken`, and a due reply is taken up as long as turns end. |
| `client_pairing` | Three requests in maps of two, operations on two credentials per request queued behind each other, one failure or restart: `OneCredentialPerApproval`, `ApprovalKept`, `MapsBounded`, `NothingUndone`, and an approval is honoured unless it expires, its process ends or others crowd it out. |
| `daemon_mutations` | Four requests of any kinds, with a clock set back once: `SingleFlight`, whatever was admitted or settled during a probe; `WindowKept`, that a timeout holds up its kind for one window and no longer. |
| `travel_replay` | A chat and a flow, two polls, two targets, and two events among crashes, lost answers, failed writes, outages and switches: `ReplayedOnce`, `StaleUntilHome`; queued work that can be replayed is, at home; the stale mark goes away at home. |
| `cap_missing` | A violation of what a comment says: section 7. |

`CHECK_DEADLOCK FALSE` is set throughout because every system here may stop: all
attempts are over, all calls answered, every bound used up, all turns closed.

## 4. Bounds

- *Lock.* Two attempts already interleave every pair of file operations, and the
  proofs of section 6 cover more. `p2` makes none: it only takes the PID of `p1`.
  `MaxFaults` bounds I/O errors, not their place. The clock has no bound of its own:
  it moves once per published intent, at most once per attempt.
- *Leases.* Three calls of one process are an outer operation, work it left behind, and what that
  work calls in its turn, while the lease drains or when it is over; the fourth call, of
  another process, is who must not enter in between. Each call is made once.
- *Publications.* Four calls are needed for draft, publish, refusal, and a second
  publish with the same token. One record suffices, since a save only changes the
  record of its call; two wordings distinguish what was confirmed from what is
  stored. `MaxClock = 2`, `TokenTTL = 1` contain a valid, an expired and a
  future token. `MaxDamage` bounds how often the file is found malformed.
- *Event plane.* `RingLimit = 1` and `BufferLimit = 1` are below the code's so that
  eviction and slow-consumer closes happen with three writes. One restart and one
  cut are enough for every pair of an old cursor and a new epoch.
- *Chat runs.* Two turns give a predecessor and a successor on one conversation;
  two conversations let a new chat get an id of its own while an old one is
  continued. `MaxPending = MaxSettled = 1` reach both capacities. Two launches give
  the gap between attempts. Tails only matter to the detach cap of their own
  run, so they are in the one-run instance, where two exercise both counts at which
  the hooks act.
- *Scheduled replies.* Two processes contend for a chat; one of them is restarted
  twice (`MaxRevision` 3), the other once. Two replies of one chat give an older and
  a newer one, due at different times, and `MaxTime` 2 passes both. `MaxFaults` 1 is
  shared by crashes, failed writes and busy chats, which are each fatal to one delivery.
  `MaxScheduled` is not reached by two replies: reaching it only refuses an `Add`.
- *Client pairing.* Three requests overflow `MaxEntries` 2 in both maps: a third request
  evicts, and an approval given back to a full map stands beyond its limit; two serials
  give every approval the second credential it must not get. `Ttl` 1 within `MaxTime` 1
  lets a request expire between any two steps. One fault of any kind is a failed
  issue or a restart. `MaxQueued` 2 puts a revocation behind a use, or behind an
  issue, which it does not bound.

- *Daemon mutations.* Four requests are one that times out, one that is held and probes,
  one of another kind that is admitted meanwhile, and one that is held or joins after
  that. `Window` 2 within `MaxTime` 4 lets a request come before, at and after the end of a
  window, and a second window begin. One set-back of the clock, to any earlier value,
  makes the stamp of every earlier outcome one from the future.

- *Travel replay.* Two polls are one that reconciles and one that overlaps it, for its own
  target or for another. `MaxEvents` 2 is shared by every kind of trouble: an
  outage's end and a crash in the replay it allows, a switch of target during a replay, manual
  mode on and off again. Each item is queued once. `MaxItems` 2 takes the whole
  queue; `Init` keeps fewer unfit items than that, for the reason in section 7.

Symmetry is used only in runs without liveness properties, over sets whose
members are interchangeable in the module and in the cfg.

## 5. Fairness

- *Lock.* A running process goes on with its pending awaits and retries, and a
  critical section ends. Nothing is assumed of crashes, faults, timeouts or of when
  a caller first asks.
- *Leases.* An operation that waits for no nested call ends, and whoever asks for a free lock
  enters, unless it times out or dies. No timeout is fair, so no call owes its end to one.
- *Event plane.* Frames that are not lost arrive, sockets open, the capability read
  answers, and the coalescing and backoff timers fire. No user event is fair.
  Cuts and restarts are bounded, which is the assumption that the network
  eventually stays up.
- *Chat runs.* The route goes on after each await, a signalled child exits and a
  timer fires. A child that is left alone may run for ever, nobody need press Stop
  and launching is not fair (a healable failure may not be retried).
- *Scheduled replies.* Timers fire, callbacks run, reads, writes and answers come back
  (`Running`), and turns end (`TurnsEnd`: the code bounds none, see section 7).
  Nobody need start or stop a scheduler or cancel a reply.
- *Client pairing.* Reads, writes and rejections come back, and the client asks again
  every couple of seconds, as the exchange route says. No decision, use or
  revocation is fair.
- *Travel replay.* The views poll for ever (a poll, its answer and its reconcile come to an end)
  and a replay that has begun goes on. Nobody need queue work or switch a mode, and no hub need
  come back: the liveness properties hold for as long as the hub is healthy and the user
  online.
- *Daemon mutations* states none: a mutation ends when the daemon's starter does.
- *Publications* states no liveness: a call may be refused the lock for ever.

## 6. What is proved

Checked by TLAPS for every value of the constants, from the named assumptions of
the modules only.

**`ProcessIntentLock_proofs`**: `TypeCorrectness`, `MutualExclusionHolds`,
`FirstComeFirstServedHolds`, `LiveFilesKeptHolds`, `ImplementsMutexHolds` (every
step is a step of `CrashSafeMutex` or a stutter). Exclusion alone is not
inductive, because it says nothing of an attempt that is about to enter. `IInv`
adds: a PID has one running holder (`UniqueHolder`); no file exists before its
attempt makes it, in the directory, in a retry or in a stale scan (`NoEarlyFile`);
files of running attempts are present and nobody is removing them (`LiveFiles`);
a visible ticket lies in the past (`TicketsPast`); **whoever an attempt's scan has
missed can only carry a later ticket** (`SeenOrLater`); and the holder precedes
all that have a ticket (`HolderFirst`). `SeenOrLater` is the heart: the marker is
laid before the ticket is read and removed after the intent exists, so a scan sees
one or the other, or happened before the ticket was read.

Its second part is about the leases over that lock (`IntentLeases`): `CallTypesHold`,
`OperationsCoveredHolds`, `NobodyQueuesBehindItselfHolds`. A lease counts exactly
the operations that run under it (`Waits`); they are of its process and it is active (`Carries`); and its maker has the lock
until the release, unless the process died (`Holds`). So the loop that finds nothing pending ends a lease
that nobody runs under, and a call of a running operation always finds its lease active.

**`XPublications_proofs`**: `AtMostOnePostHolds` and `NeverInvitesResendHolds`. The
invariant strengthens both from calls whose request is out to calls that *may
still* send (`Active`): at most one such per record, whose record is not a draft.
`Inside` says that whoever is in a section works on the file as it is,
`RefusedNotSent` that only a request off the wire is undone, and `Born` that a
record lost with a malformed file cannot be drafted under the same id.

Its second half builds on that: `TypesHold`, `PublishedIsEvidenceHolds`,
`TokenOneTimeHolds`. Evidence needs that the wording of a call that may still send equals
that of the stored record, because nobody may draft or resolve under it. One-time tokens
need the order of revisions: no token is younger than the revision it might confirm, and
a spent token is strictly older than the revision of any draft; a refusal takes the later
of the dispatched revision and the clock, which a steady clock has moved on from.

**`ChatRuns_proofs`**: `TypesHold`, `LiveIsReachableHolds`, `LiveIsTailedHolds`,
`StopReachesChildHolds`, `AnsweredIsCancelledHolds`. Three facts are kept of each
run: `Shape`, which fields go together (registered from admission or binding to
the end, under its run id and conversation and nothing else; a running child is
signalled once a Stop is known); `Linked`, that both maps point to a live run under
its keys; `Heard`, where an answered Stop is (in the handle, in the queue until the
run registers, or nowhere because there is no turn).

Its last part is `OpenClawCappedHolds`. The cap is off until the child is bound, off
while anyone tails it, and set or spent when it is bound, its client is gone and nobody
listens.

**`ScheduledReplies_proofs`**: `OwnerSpecOneOwner` for the owner alone, whatever its
passes do, so for the inbox scheduler as well; then `SpecInv`, `SpecTypeOK`,
`SpecOneOwner`, `SpecStatusTellsTruth`, `SpecOneDeliveryPerChat`, `SpecNeverOvertaken`.
The owner's invariant ties what it believes to what runs: a timer is set where it is
recorded and nowhere else, a pass is pending where it is recorded, and **of the restarts
that wait, only one can carry the latest revision**, and only while no timer is set. The
store's says that work past the queue holds the chat's lock alone, that a
reply reads *sending* for as long as it is being delivered, and that it has been sent
once its turn streams and not before. `NeverOvertaken` needs that between `Claim` and `Dispatch` whatever became
scheduled in that chat is not due before the reply in hand, unless it was saved late.

**`EventPlane_proofs`**: `SpecTypeOK`, `SpecNothingLost`, `SpecHeldIsScheduled`, `SpecNeverRefused`,
for any topics, ring, buffer, writes, restarts and cuts. `NothingLost` speaks of a moment when
nothing is in flight, so its invariant (`Plane`) must say where an owed invalidation is at every
other moment. `Safe` does: **the client holds it, or a frame on its way carries it, or there is
no connection and the next hello will bring it up, whichever frame is the last to arrive before** (`Recoverable`: the
ring has a record of that topic after the cursor, or has pushed out something after it, or the epoch
is another). What makes this hold across a cut (`CutKeeps`) is the rest:

- `Wire`: the broker serves an open socket and no other; until it has the hello it has sent
  nothing, and the hello in flight still says what the client knows and wants.
- `Rung`, `Ordered`: the ring and the frames in flight are in order, and no cursor is ahead of
  the broker.
- `Held`, `News`: an invalidation in flight is in the ring or pushed out of it, and is news
  to the client. A frame the cut loses is thus later than any cursor that survives.
- `Books`: who is owed something listens and has the plane on, and what a surface covers the
  broker has installed.
- `Asked`: what the client has sent is acceptable by the time the broker comes to it. This
  is `NeverRefused` for the whole queue; it needs that the acknowledgement timer dies with its
  socket. `PartedInv` says the same of the sockets that were closed: the hello comes first, nothing is
  ahead of a broker that only counts on until it restarts (`BrokerOnward`), and **an acknowledgement of
  a stopped server can only be the last frame**, because `IdleTimer` flushes it last.
- `Scheduled`: what may be delivered has its timer, and *ready* means that the barrier was seen.

`HelloKeeps` is the other half: what the broker answers a hello with tells the client of every
topic it is owed (`HelloAnswered`), if it is not closed for being slow on the way, which is a cut.
`RestartKeeps` is a cut followed by an epoch no cursor has. The induction was checked by TLC, for rings of one and of
two records, before it was proved. It also showed that `NothingLost` need not ask whether the topic is
ready, so it no longer does.

**`ClientPairing_proofs`**: `SpecTypeOK`, `SpecOneCredential`, `SpecApprovalKept`, `SpecMapsBounded`,
`SpecNothingUndone`. An operation on the credentials is in progress exactly while it stands in the queue, once (`QueueInv`). Of the two
maps (`ApprovalInv`): they hold no id twice, the map of ended requests is no longer than
`MaxEntries` and the live one exceeds it by no more than the spent ones that can be given back, and their entries
stand in the order they were inserted, so the eviction at the end of a handler never takes the approval the handler just
recorded. `SurplusInv` adds that what stands beyond the limit of the live map is approved: filtering only moves
an entry forward, and a new request makes room for itself. Of credentials: **a request that was approved is in one of the maps, in an issue that
is not over, or in the file, and in one of them only** (`Once`, `Accounted`); so whoever
restores an approval after a failed issue finds no credential of it. The theorems about
`Newest`, which keeps the last entries of a map, need an induction over a sequence; they are
proved from the least index at which it would fail.

For `SpecNothingUndone`, the queue gives the store the
exclusion a lock would: only its first operation runs, and **what it has in memory is
what is on disk** from its read to its write, whatever an earlier failure left in
memory; and a credential whose issue is not over is not in the file.

**`DaemonMutations_proofs`**: `TypesHold`, `SingleFlightHolds`, `WindowKeptHolds`. The slot holds the
mutation that runs and all who joined name it (`Flight`), so a request that comes back
from its probe and finds the slot empty finds nothing running. `Memory` ties the clock to real time:
**what is remembered is what settled, and as old by the clock as it really is**, until health
proves it finished or the clock is set back; and after that its stamp is no younger than the
first request that was held for it.

**`TravelReplay_proofs`**: `TypesHold`, `ReplayedOnceHolds`, `StaleUntilHomeHolds`,
`OneReconcileHolds`, `NobodyStuckHolds`. `Traced` accounts for every
start of the work of an item: **as many as were lost, and one more only if it is under way, its
session is known or it is done**; an item that is in hand reads *syncing*, so it is neither done nor waiting
to be queued. The stale mark needs no more than itself, because every write that queues, fails or loses the hub
sets it and every write that clears it looks at all three conditions.

The last two are about the lanes (`Lanes`): **the polls that reconcile for one target stand in a row
that ends with the one in its lane, each behind another, and only the first does not wait**. So a lane
is empty only when nobody reconciles for its target, no two wait behind the same one, and a set of polls in
which each waits behind another of the set cannot exist: when the first leaves, what it leaves of the row
would be such a set if nobody were behind it and it were not in the lane. A poll that answers goes to the end
(`Joins`); those that end or wake the daemon leave at the front (`Winds`). `Awaited` ties the replay to who waits
for it: it goes on exactly while somebody does. The two properties are stated in `TravelReplay` and in no run; `TypesHold`
says nothing of `replay.left`, which `SelectSeq` yields and the provers do not see into.

**Only model-checked.** Every safety invariant and action property that a passing run checks is a
theorem. Left to TLC are the liveness properties (`WaitersEnter`, `FilesRemoved`, `CallsEnd`,
`OwedDelivered`, `ListenedBecomesReady`, `StoppedEnds`, `OpenClawEnds`, `DueIsTakenUp`,
`ApprovalIsHonoured`, `QueuedIsReplayed`, `StaleEnds`): they hold by fairness, and with it
ENABLED is out of the prover's reach. The library's
induction theorems, which take an operator as a parameter, are not used.

## 7. Where the code and its documentation differ

1. `cap_missing` (`app/api/chat/send/route.ts:5895`). A child launched after its
   client vanished has no cap, although the comment bounds every detached run.

Others are seen by reading the code with the models at hand and have no run.

- `components/board-view.tsx:332`: the board loads on mount, not at the barrier the event plane's design
  document asks for (`docs/superpowers/specs/2026-08-28-demand-driven-websocket-event-plane-design.md:340`), and
  stops polling once its topic is ready; a write between the two stays unseen until the next one.
- `scheduled-chat-scheduler.ts:39`: no pass is admitted while one is pending, and a pass awaits
  its turns, so a long turn in one chat holds up the replies of all others in the only
  process that ticks. The test of the store (`scheduled-chat-store.test.ts:84`) and the store's
  comment (86-87) say that an unrelated chat can send meanwhile, which is true of
  two calls of `tick`, and the scheduler makes one at a time.
- `travel-offline-replay.ts:551`: a replay takes the first ten items that are not synced, failed
  ones included. Ten items that can never be replayed at the head of the queue keep all later ones from
  ever being tried. `QueuedIsReplayed` assumes fewer.
- `daemon-travel-reconcile.ts:225`: a reconcile that had nothing to write goes by the state it
  read before it asked the hub, so it may begin a replay after manual mode was switched on.
- `lib/server/client-v1/pairing-store.ts:313`: a failed exchange gives its approval back without
  evicting, so a map that other requests filled meanwhile holds more than `maxEntries`, although the
  test (`pairing-store.test.ts:96`) is named "pairing storage is bounded by maxEntries with oldest-first
  eviction" (it exercises `create`, which evicts). `MapsBounded` states what does hold: nothing but
  approvals stands beyond the limit.
- `cave-event-plane-client.ts:294`: a barrier in flight makes a topic ready that was
  dropped and taken up again, while the broker has it uninstalled; the header (16-17)
  ties readiness to the latest barrier.
- `cave-event-plane-client.ts:412`: the idle close flushes the pending acknowledgement whatever the
  state of the connection. After a restart the client may have said hello and not heard the new
  epoch yet, so the acknowledgement names the old one, and the broker refuses it as invalid
  (`cave-event-broker.ts:308-312`), the answer it has for a client that does not keep the protocol. The
  socket is closing by then and nothing is lost. `NeverRefused` excepts that frame.
- `x-publications.ts:505`: a re-draft of the same wording in the millisecond of the refused
  token gets that very token again, and if the clock was set back, a refusal may return the
  record to the stamp of an earlier token. The comments at 435-437 and 649-653 call a token
  one-time. `TokenOneTime` assumes a `steady` clock for this reason.
- `app/api/chat/send/route.ts:5401`: a child or Hermes API turn that is being tailed when its
  abort is noticed has its cap armed, although the comment says re-attaching cancels it.
- `daemon-mutation-owner.ts:109`: only the last outcome is remembered. A restart times out, a
  recovery is admitted and settles, and another restart within 30 s of the first runs, although
  `docs/daemon-connectivity-reliability.md:217` says "Same kind within 30 s of a
  `readiness_timeout`" and "never replay a stop-and-kick". `WindowKept` therefore speaks of
  the mutation that settled last.

`PROJECT.json` quotes the lines. The passing runs show what does hold: no
announced invalidation of an installed topic is lost (the board's
loss is of a topic that is not installed yet), and OpenClaw's cap is right in all cases.

## 8. Modelling assumptions

- An operation under a lease awaits only calls its own work made: no caller shares the promise of a locked
  operation between unrelated chains. A store takes one directory's lock, or two in the order chat,
  file, so one directory is modelled. Nested operations of one lease are not exclusive of each other.
- `readdir` returns the directory as it was at one instant.
- Creating the intent outlasts one tick of `hrtime`, in nanoseconds: whoever reads
  the clock after the file exists reads a later value. Equal tickets of attempts
  that chose together are modelled, with `rank` ordering the rest of the name.
- The identity hash in a file name has no collisions, and ids do not repeat
  (`randomUUID`, run ids).
- `writeJsonAtomic` leaves the old or the new file.
- A person who resolves a publication, and whoever restores a damaged file, may do
  so with any outcome; the file moved aside is not restored.
- A socket the client closes in order delivers what was sent before, at any time or never (a
  heartbeat may end it first), until the server stops; one that breaks delivers nothing more.
- The broker keeps separate state per socket, so one client suffices. The
  capability mode is read once. A surface's load is atomic.
- A queued Stop outlives the setup of the run it waits for (its limit is fifteen
  minutes), and a run id names one send.
- The clock of a scheduler never goes back. Replies due at the same instant may go in
  either order (the code takes the one saved first). A reading of the file and of the
  clock are one step. The scheduler is stopped at shutdown only; the model lets
  it be restarted afterwards, which the code provides for.
- A turn that the send route refuses as busy is an event of `ScheduledReplies`' own
  (`Busy`), bounded by `MaxFaults`: what makes a chat busy is `ChatRuns`.
- One server process owns the credential file (its queue is memory of the process), and
  the location of the file is known. A rename is atomic and survives a crash.
- One server process replays the travel queue (nothing in the file says who does). Polls that
  share a promise are compared by the hub's answer; the code compares the state they read as well, so
  the model shares more. An outage may count as having lasted ten seconds at any time.
- OpenClaw's child exit and its relaunch, one handler in the code, are two steps
  here: the model has more behaviours than the code.

## 9. Not modelled

Of modelled parts: the X account, its token
refresh and per-familiar limits; entity ids, versions and byte limits of the event
plane and malformed frames; the buffered chat events and their cursors, prompt
assembly, stream parsing and the conditions under which a failed attempt is
retried; the validation of a schedule and the gate that refuses to start a scheduler
during a shutdown or a build; what an inbox pass does; secrets and bearers, the rate
limiter and the authority of the client API; what a queued item sends when it
is replayed. Of other parts: the daemon's lifecycle
owner is mostly calls of its command line; the native
shell, the offline cache and the server's shutdown come after them; the stores,
missions, flows and interfaces are mostly data, input and output.
The vendored tree (`vendor`), assets and `lib/research-host`, which re-exports
`lib`, are left aside.

## 10. Plan

Order, the most important behaviour first. Done: 1 to 9.

1. `ProcessIntentLock` refining `CrashSafeMutex`; proofs.
2. `XPublications` over `CrashSafeMutex`; proofs.
3. `EventPlane`; proofs.
4. `ChatRuns`; proofs.
5. `SchedulerOwner` and `ScheduledReplies`; proofs.
6. `ClientPairing`; proofs.
7. `DaemonMutations`: single flight, joins, duplicate after timeout, the probe during
   which others are admitted; proofs.
8. `TravelReplay`; proofs.
9. `IntentLeases`: `withProcessIntentLock` over `CrashSafeMutex`; proofs.
10. The shell's supervisor.

Abstract specifications worth stating beside `CrashSafeMutex`: at-most-once
delivery (for 2, 5 and 8) and a log of invalidations that a surface eventually
applies (for 3).

Proofs next: the two abstract specifications, each as a refinement that the invariants above
already carry (`AtMostOnePost`, `ReplayedOnce` and `StatusTellsTruth` for the first, `Safe` for the safety
part of the second).
