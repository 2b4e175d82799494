------------------------- MODULE ProcessIntentLock_proofs -------------------------
(***************************************************************************)
(* Mutual exclusion, first-come-first-served order and the preservation of *)
(* live files of ProcessIntentLock, for every set of attempts, processes   *)
(* and PIDs and every bound on faults; and, above the lock, what           *)
(* IntentLeases promises of the operations that run under it.              *)
(***************************************************************************)
EXTENDS ProcessIntentLock, IntentLeases, TLAPS

Choosing == {"marked", "ticketed", "published", "abandon"}
Published == {"published", "contend", "judge", "held"}
Competing == {"ticketed", "published", "contend", "judge", "held"}

(* A PID names one running incarnation. *)
UniqueHolder ==
    \A p, q \in Proc :
        proc[p] = "running" /\ proc[q] = "running" /\ pidOf[p] = pidOf[q] => p = q

(* No trace of a file exists before its attempt creates it. *)
NoEarlyFile ==
    \A a \in Attempt :
        /\ pc[a] = "idle" =>
            /\ Marker(a) \notin dir
            /\ \A p \in Proc : Marker(a) \notin cleanup[p]
            /\ \A b \in Attempt : Marker(a) \notin seen[b]
        /\ pc[a] \in {"idle", "marked", "ticketed"} =>
            /\ Intent(a) \notin dir
            /\ \A p \in Proc : Intent(a) \notin cleanup[p]
            /\ \A b \in Attempt : Intent(a) \notin seen[b]
        /\ proc[owner[a]] = "unborn" => pc[a] = "idle"

(* A running attempt's files are on disk, and nobody is removing them. *)
LiveFiles ==
    \A a \in Attempt : Running(a) =>
        /\ pc[a] \in Choosing =>
            /\ Marker(a) \in dir
            /\ \A p \in Proc : Marker(a) \notin cleanup[p]
        /\ pc[a] \in Published =>
            /\ Intent(a) \in dir
            /\ \A p \in Proc : Intent(a) \notin cleanup[p]

(* A ticket whose intent is visible lies in the past. *)
TicketsPast ==
    \A a \in Attempt :
        /\ ticket[a] <= clock
        /\ Intent(a) \in dir => ticket[a] < clock

(* What an attempt's readdir missed can only carry a later ticket. *)
SeenOrLater ==
    \A a, b \in Attempt :
        /\ a # b
        /\ Running(a) /\ pc[a] = "judge"
        /\ Running(b) /\ pc[b] \in Competing
        => Marker(b) \in seen[a] \/ Intent(b) \in seen[a] \/ Before(a, b)

(* A holder is before everyone who has a ticket. *)
HolderFirst ==
    \A a, b \in Attempt :
        /\ a # b
        /\ Running(a) /\ pc[a] = "held"
        /\ Running(b) /\ pc[b] \in Competing
        => Before(a, b)

IInv ==
    /\ TypeOK
    /\ UniqueHolder
    /\ NoEarlyFile
    /\ LiveFiles
    /\ TicketsPast
    /\ SeenOrLater
    /\ HolderFirst

-----------------------------------------------------------------------------

(* Files of different kinds or of different attempts are different files. *)
LEMMA FileFacts ==
    /\ \A a \in Attempt : Marker(a) \in File /\ Intent(a) \in File
    /\ \A a, b \in Attempt : Marker(a) # Intent(b)
    /\ \A a, b \in Attempt : Marker(a) = Marker(b) => a = b
    /\ \A a, b \in Attempt : Intent(a) = Intent(b) => a = b
BY DEF Marker, Intent, File

(* Before is irreflexive and asymmetric. *)
LEMMA BeforeAsymmetric ==
    ASSUME TypeOK, NEW a \in Attempt, NEW b \in Attempt, Before(a, b)
    PROVE  ~Before(b, a)
BY RankAssumption DEF Before, TypeOK

(* removeIntent touches at most the one path it was called with. *)
RemovesOnly(f) ==
    /\ dir' \in SUBSET File
    /\ dir' \subseteq dir
    /\ dir \ {f} \subseteq dir'
    /\ cleanup' \in [Proc -> SUBSET File]
    /\ \A q \in Proc : cleanup'[q] \subseteq cleanup[q] \cup {f}
    /\ faults' \in 0..MaxFaults

LEMMA RemoveIntentEffect ==
    ASSUME TypeOK, NEW p \in Proc, NEW f \in File, RemoveIntent(p, f)
    PROVE  RemovesOnly(f)
BY FaultAssumption DEF RemoveIntent, RemovesOnly, Fault, TypeOK

(* The file of a running attempt is never found reclaimable. *)
LEMMA LiveNotReclaimable ==
    ASSUME UniqueHolder, NEW a \in Attempt, Reclaimable(a)
    PROVE  ~Running(a)
<1>1. owner[a] \in Proc
  BY OwnerAssumption
<1>2. ASSUME Running(a)
      PROVE  Holders(pidOf[owner[a]]) = {owner[a]}
  BY <1>1, <1>2 DEF UniqueHolder, Holders, Running
<1>. QED
  BY <1>2 DEF Reclaimable

LEMMA InitIInv == Init => IInv
BY OwnerAssumption, FaultAssumption, FileFacts
DEF Init, IInv, TypeOK, UniqueHolder, NoEarlyFile, LiveFiles, TicketsPast,
    SeenOrLater, HolderFirst, Running, PC, Choosing, Published, Competing

(* The new marker's attempt is running, so its file is a live one. *)
LEMMA MarkStep ==
    ASSUME IInv, NEW a \in Attempt, Mark(a)
    PROVE  IInv'
<1> USE OwnerAssumption, FaultAssumption, FileFacts DEF IInv, Mark, Goto
<1>1. TypeOK' /\ UniqueHolder'
  BY DEF TypeOK, PC, File, UniqueHolder
<1>2. NoEarlyFile'
  BY SMTT(30) DEF NoEarlyFile, TypeOK, Running
<1>3. LiveFiles'
  BY DEF LiveFiles, NoEarlyFile, TypeOK, Running, Choosing, Published
<1>4. TicketsPast' /\ SeenOrLater' /\ HolderFirst'
  BY DEF TicketsPast, TypeOK, NoEarlyFile, SeenOrLater, Running, Competing,
       Before, HolderFirst
<1>. QED
  BY <1>1, <1>2, <1>3, <1>4

(* The ticket is later than that of every visible intent. *)
LEMMA TakeTicketStep ==
    ASSUME IInv, NEW a \in Attempt, TakeTicket(a)
    PROVE  IInv'
<1> USE OwnerAssumption, FaultAssumption, FileFacts DEF IInv, TakeTicket, Goto
<1>1. TypeOK' /\ UniqueHolder'
  BY DEF TypeOK, PC, File, UniqueHolder
<1>2. NoEarlyFile'
  BY SMTT(30) DEF NoEarlyFile, TypeOK, Running
<1>3. LiveFiles'
  BY DEF LiveFiles, NoEarlyFile, TypeOK, Running, Choosing, Published
<1>4. TicketsPast'
  BY SMTT(30) DEF TicketsPast, TypeOK, NoEarlyFile
<1>5. SeenOrLater'
  BY DEF SeenOrLater, TypeOK, Running, Competing, Before, LiveFiles,
       Published, TicketsPast
<1>6. HolderFirst'
  BY SMTT(30) DEF HolderFirst, TypeOK, Running, Competing, Before,
       LiveFiles, Published, TicketsPast
<1>. QED
  BY <1>1, <1>2, <1>3, <1>4, <1>5, <1>6

(* Publishing moves the clock past the published ticket. *)
LEMMA PublishStep ==
    ASSUME IInv, NEW a \in Attempt, Publish(a)
    PROVE  IInv'
<1> USE OwnerAssumption, FaultAssumption, FileFacts DEF IInv, Publish, Goto
<1>1. TypeOK' /\ UniqueHolder'
  BY DEF TypeOK, PC, File, UniqueHolder
<1>2. NoEarlyFile'
  BY SMTT(30) DEF NoEarlyFile, TypeOK, Running
<1>3. LiveFiles'
  BY DEF LiveFiles, NoEarlyFile, TypeOK, Running, Choosing, Published
<1>4. TicketsPast'
  BY SMTT(30) DEF TicketsPast, TypeOK, NoEarlyFile
<1>5. SeenOrLater' /\ HolderFirst'
  BY DEF SeenOrLater, TypeOK, Running, Competing, Before, HolderFirst
<1>. QED
  BY <1>1, <1>2, <1>3, <1>4, <1>5

(* An attempt that fails while choosing leaves the competition. *)
LEMMA FailChoosingStep ==
    ASSUME IInv, NEW a \in Attempt, FailChoosing(a)
    PROVE  IInv'
<1> USE OwnerAssumption, FaultAssumption, FileFacts DEF IInv, FailChoosing, Goto, Fault
<1>1. TypeOK' /\ UniqueHolder'
  BY DEF TypeOK, PC, File, UniqueHolder
<1>2. NoEarlyFile' /\ LiveFiles' /\ TicketsPast'
  BY DEF NoEarlyFile, TypeOK, Running, LiveFiles, Choosing, Published,
       TicketsPast
<1>3. SeenOrLater' /\ HolderFirst'
  BY DEF SeenOrLater, TypeOK, Running, Competing, Before, HolderFirst
<1>. QED
  BY <1>1, <1>2, <1>3

(* The attempt no longer competes when its intent goes. *)
LEMMA UnpublishStep ==
    ASSUME IInv, NEW a \in Attempt, Unpublish(a)
    PROVE  IInv'
<1> USE OwnerAssumption, FaultAssumption, FileFacts DEF IInv, Unpublish, Goto
<1>0. RemovesOnly(Intent(a))
  BY RemoveIntentEffect
<1> HIDE DEF RemoveIntent
<1>1. TypeOK' /\ UniqueHolder'
  BY <1>0 DEF TypeOK, PC, File, UniqueHolder, RemovesOnly
<1>2. NoEarlyFile'
  BY <1>0 DEF NoEarlyFile, TypeOK, Running, RemovesOnly
<1>3. LiveFiles'
  BY <1>0 DEF LiveFiles, NoEarlyFile, TypeOK, Running, Choosing, Published,
       RemovesOnly
<1>4. TicketsPast'
  BY <1>0 DEF TicketsPast, TypeOK, NoEarlyFile, RemovesOnly
<1>5. SeenOrLater' /\ HolderFirst'
  BY DEF SeenOrLater, TypeOK, Running, Competing, Before, HolderFirst
<1>. QED
  BY <1>1, <1>2, <1>3, <1>4, <1>5

(* The attempt no longer chooses when its marker goes. *)
LEMMA ClearMarkerStep ==
    ASSUME IInv, NEW a \in Attempt, ClearMarker(a)
    PROVE  IInv'
<1> USE OwnerAssumption, FaultAssumption, FileFacts DEF IInv, ClearMarker, Goto
<1>0. RemovesOnly(Marker(a))
  BY RemoveIntentEffect
<1> HIDE DEF RemoveIntent
<1>1. TypeOK' /\ UniqueHolder'
  BY <1>0 DEF TypeOK, PC, File, UniqueHolder, RemovesOnly
<1>2. NoEarlyFile'
  BY <1>0 DEF NoEarlyFile, TypeOK, Running, RemovesOnly
<1>3. LiveFiles'
  BY <1>0 DEF LiveFiles, NoEarlyFile, TypeOK, Running, Choosing, Published,
       RemovesOnly
<1>4. TicketsPast'
  BY <1>0 DEF TicketsPast, TypeOK, NoEarlyFile, RemovesOnly
<1>5. SeenOrLater' /\ HolderFirst'
  BY DEF SeenOrLater, TypeOK, Running, Competing, Before, HolderFirst
<1>. QED
  BY <1>1, <1>2, <1>3, <1>4, <1>5

(* What readdir misses has no ticket yet: whoever has one is on disk. *)
LEMMA ScanStep ==
    ASSUME IInv, NEW a \in Attempt, Scan(a)
    PROVE  IInv'
<1> USE OwnerAssumption, FaultAssumption, FileFacts DEF IInv, Scan, Goto
<1>1. TypeOK' /\ UniqueHolder'
  BY DEF TypeOK, PC, File, UniqueHolder
<1>2. NoEarlyFile' /\ LiveFiles'
  BY DEF NoEarlyFile, TypeOK, Running, LiveFiles, Choosing, Published
<1>3. TicketsPast' /\ HolderFirst'
  BY DEF TicketsPast, TypeOK, NoEarlyFile, HolderFirst, Running, Competing,
       Before
<1>4. SeenOrLater'
  BY DEF SeenOrLater, TypeOK, Running, Competing, Before, LiveFiles,
       NoEarlyFile, Choosing, Published
<1>. QED
  BY <1>1, <1>2, <1>3, <1>4

(* Going back to the top of the loop forgets what was seen. *)
LEMMA WaitForChooserStep ==
    ASSUME IInv, NEW a \in Attempt, WaitForChooser(a)
    PROVE  IInv'
<1> USE OwnerAssumption, FaultAssumption, FileFacts DEF IInv, WaitForChooser, Rescan, Goto
<1>1. TypeOK' /\ UniqueHolder'
  BY DEF TypeOK, PC, File, UniqueHolder
<1>2. NoEarlyFile' /\ LiveFiles' /\ TicketsPast'
  BY DEF NoEarlyFile, TypeOK, Running, LiveFiles, Choosing, Published,
       TicketsPast
<1>3. SeenOrLater' /\ HolderFirst'
  BY DEF SeenOrLater, TypeOK, Running, Competing, Before, HolderFirst
<1>. QED
  BY <1>1, <1>2, <1>3

(* A reclaimed marker belongs to no running attempt. *)
LEMMA ReclaimMarkerStep ==
    ASSUME IInv, NEW a \in Attempt, ReclaimMarker(a)
    PROVE  IInv'
<1> USE OwnerAssumption, FaultAssumption, FileFacts DEF IInv, ReclaimMarker
<1>0. PICK b \in SeenMarkers(a) :
         /\ Reclaimable(b)
         /\ RemoveIntent(owner[a], Marker(b))
         /\ seen' = [seen EXCEPT ![a] = @ \ {Marker(b)}]
  OBVIOUS
<1>00. /\ b \in Attempt /\ Marker(b) \in seen[a] /\ ~Running(b)
       /\ RemovesOnly(Marker(b))
  BY <1>0, LiveNotReclaimable, RemoveIntentEffect DEF SeenMarkers
<1>1. TypeOK' /\ UniqueHolder'
  BY <1>0, <1>00 DEF TypeOK, PC, File, UniqueHolder, RemovesOnly
<1>2. NoEarlyFile'
  BY <1>0, <1>00 DEF NoEarlyFile, TypeOK, Running, RemovesOnly
<1>3. LiveFiles'
  BY <1>0, <1>00 DEF LiveFiles, NoEarlyFile, TypeOK, Running, Choosing,
       Published, RemovesOnly
<1>4. TicketsPast'
  BY <1>0, <1>00 DEF TicketsPast, TypeOK, NoEarlyFile, RemovesOnly
<1>5. SeenOrLater' /\ HolderFirst'
  BY <1>0, <1>00 DEF SeenOrLater, TypeOK, Running, Competing, Before,
       HolderFirst, RemovesOnly
<1>. QED
  BY <1>1, <1>2, <1>3, <1>4, <1>5

(* The oldest of what was seen is older than what was missed. *)
LEMMA AcquireStep ==
    ASSUME IInv, NEW a \in Attempt, Acquire(a)
    PROVE  IInv'
<1> USE OwnerAssumption, FaultAssumption, FileFacts DEF IInv, Acquire, Goto
<1>1. TypeOK' /\ UniqueHolder'
  BY DEF TypeOK, PC, File, UniqueHolder
<1>2. NoEarlyFile' /\ LiveFiles' /\ TicketsPast'
  BY DEF NoEarlyFile, TypeOK, Running, LiveFiles, Choosing, Published,
       TicketsPast
<1>3. SeenOrLater'
  BY DEF SeenOrLater, TypeOK, Running, Competing, Before
<1>4. HolderFirst'
  BY DEF HolderFirst, TypeOK, Running, Competing, Before, SeenOrLater,
       IsOldest, SeenMarkers, SeenIntents
<1>. QED
  BY <1>1, <1>2, <1>3, <1>4

(* A reclaimed intent belongs to no running attempt. *)
LEMMA ReclaimIntentStep ==
    ASSUME IInv, NEW a \in Attempt, ReclaimIntent(a)
    PROVE  IInv'
<1> USE OwnerAssumption, FaultAssumption, FileFacts DEF IInv, ReclaimIntent, Rescan, Goto
<1>0. PICK b \in Attempt \ {a} :
         IsOldest(b, a) /\ Reclaimable(b) /\ RemoveIntent(owner[a], Intent(b))
  OBVIOUS
<1>00. /\ Intent(b) \in seen[a] /\ ~Running(b)
       /\ RemovesOnly(Intent(b))
  BY <1>0, LiveNotReclaimable, RemoveIntentEffect DEF IsOldest, SeenIntents
<1>1. TypeOK' /\ UniqueHolder'
  BY <1>0, <1>00 DEF TypeOK, PC, File, UniqueHolder, RemovesOnly
<1>2. NoEarlyFile'
  BY <1>0, <1>00 DEF NoEarlyFile, TypeOK, Running, RemovesOnly
<1>3. LiveFiles'
  BY <1>0, <1>00 DEF LiveFiles, NoEarlyFile, TypeOK, Running, Choosing,
       Published, RemovesOnly
<1>4. TicketsPast'
  BY <1>0, <1>00 DEF TicketsPast, TypeOK, NoEarlyFile, RemovesOnly
<1>5. SeenOrLater' /\ HolderFirst'
  BY DEF SeenOrLater, TypeOK, Running, Competing, Before, HolderFirst
<1>. QED
  BY <1>1, <1>2, <1>3, <1>4, <1>5

(* As WaitForChooser. *)
LEMMA WaitForOwnerStep ==
    ASSUME IInv, NEW a \in Attempt, WaitForOwner(a)
    PROVE  IInv'
<1> USE OwnerAssumption, FaultAssumption, FileFacts DEF IInv, WaitForOwner, Rescan, Goto
<1>1. TypeOK' /\ UniqueHolder'
  BY DEF TypeOK, PC, File, UniqueHolder
<1>2. NoEarlyFile' /\ LiveFiles' /\ TicketsPast'
  BY DEF NoEarlyFile, TypeOK, Running, LiveFiles, Choosing, Published,
       TicketsPast
<1>3. SeenOrLater' /\ HolderFirst'
  BY DEF SeenOrLater, TypeOK, Running, Competing, Before, HolderFirst
<1>. QED
  BY <1>1, <1>2, <1>3

(* As WaitForChooser. *)
LEMMA FailScanStep ==
    ASSUME IInv, NEW a \in Attempt, FailScan(a)
    PROVE  IInv'
<1> USE OwnerAssumption, FaultAssumption, FileFacts DEF IInv, FailScan, Rescan, Goto, Fault
<1>1. TypeOK' /\ UniqueHolder'
  BY DEF TypeOK, PC, File, UniqueHolder
<1>2. NoEarlyFile' /\ LiveFiles' /\ TicketsPast'
  BY DEF NoEarlyFile, TypeOK, Running, LiveFiles, Choosing, Published,
       TicketsPast
<1>3. SeenOrLater' /\ HolderFirst'
  BY DEF SeenOrLater, TypeOK, Running, Competing, Before, HolderFirst
<1>. QED
  BY <1>1, <1>2, <1>3

(* The attempt leaves the competition and takes its own intent away. *)
LEMMA GiveUpStep ==
    ASSUME IInv, NEW a \in Attempt, GiveUp(a)
    PROVE  IInv'
<1> USE OwnerAssumption, FaultAssumption, FileFacts DEF IInv, GiveUp, Goto
<1>0. RemovesOnly(Intent(a))
  BY RemoveIntentEffect
<1> HIDE DEF RemoveIntent
<1>1. TypeOK' /\ UniqueHolder'
  BY <1>0 DEF TypeOK, PC, File, UniqueHolder, RemovesOnly
<1>2. NoEarlyFile'
  BY <1>0 DEF NoEarlyFile, TypeOK, Running, RemovesOnly
<1>3. LiveFiles'
  BY <1>0 DEF LiveFiles, NoEarlyFile, TypeOK, Running, Choosing, Published,
       RemovesOnly
<1>4. TicketsPast'
  BY <1>0 DEF TicketsPast, TypeOK, NoEarlyFile, RemovesOnly
<1>5. SeenOrLater' /\ HolderFirst'
  BY DEF SeenOrLater, TypeOK, Running, Competing, Before, HolderFirst
<1>. QED
  BY <1>1, <1>2, <1>3, <1>4, <1>5

(* As GiveUp. *)
LEMMA ReleaseStep ==
    ASSUME IInv, NEW a \in Attempt, Release(a)
    PROVE  IInv'
<1> USE OwnerAssumption, FaultAssumption, FileFacts DEF IInv, Release, Goto
<1>0. RemovesOnly(Intent(a))
  BY RemoveIntentEffect
<1> HIDE DEF RemoveIntent
<1>1. TypeOK' /\ UniqueHolder'
  BY <1>0 DEF TypeOK, PC, File, UniqueHolder, RemovesOnly
<1>2. NoEarlyFile'
  BY <1>0 DEF NoEarlyFile, TypeOK, Running, RemovesOnly
<1>3. LiveFiles'
  BY <1>0 DEF LiveFiles, NoEarlyFile, TypeOK, Running, Choosing, Published,
       RemovesOnly
<1>4. TicketsPast'
  BY <1>0 DEF TicketsPast, TypeOK, NoEarlyFile, RemovesOnly
<1>5. SeenOrLater' /\ HolderFirst'
  BY DEF SeenOrLater, TypeOK, Running, Competing, Before, HolderFirst
<1>. QED
  BY <1>1, <1>2, <1>3, <1>4, <1>5

(* Nothing that is still being removed is a live file. *)
LEMMA SweepStep ==
    ASSUME IInv, NEW p \in Proc, Sweep(p)
    PROVE  IInv'
<1> USE OwnerAssumption, FaultAssumption, FileFacts DEF IInv, Sweep
<1>1. TypeOK' /\ UniqueHolder'
  BY DEF TypeOK, PC, File, UniqueHolder
<1>2. NoEarlyFile'
  BY SMTT(30) DEF NoEarlyFile, TypeOK, Running
<1>3. LiveFiles'
  BY DEF LiveFiles, NoEarlyFile, TypeOK, Running, Choosing, Published
<1>4. TicketsPast'
  BY SMTT(30) DEF TicketsPast, TypeOK, NoEarlyFile
<1>5. SeenOrLater' /\ HolderFirst'
  BY DEF SeenOrLater, TypeOK, Running, Competing, Before, HolderFirst
<1>. QED
  BY <1>1, <1>2, <1>3, <1>4, <1>5

(* The attempts of an unborn process are idle. *)
LEMMA SpawnStep ==
    ASSUME IInv, NEW p \in Proc, Spawn(p)
    PROVE  IInv'
<1> USE OwnerAssumption, FaultAssumption, FileFacts DEF IInv, Spawn
<1>1. TypeOK'
  BY SMTT(30) DEF TypeOK, PC, File
<1>2. UniqueHolder'
  BY PidAssumption DEF UniqueHolder, Holders, TypeOK
<1>3. NoEarlyFile' /\ LiveFiles' /\ TicketsPast'
  BY DEF NoEarlyFile, TypeOK, Running, LiveFiles, Choosing, Published,
       TicketsPast
<1>4. SeenOrLater'
  BY DEF SeenOrLater, TypeOK, Running, Competing, Before, NoEarlyFile
<1>5. HolderFirst'
  BY DEF HolderFirst, TypeOK, Running, Competing, Before, NoEarlyFile
<1>. QED
  BY <1>1, <1>2, <1>3, <1>4, <1>5

(* A crash takes attempts away and leaves every file. *)
LEMMA CrashStep ==
    ASSUME IInv, NEW p \in Proc, Crash(p)
    PROVE  IInv'
<1> USE OwnerAssumption, FaultAssumption, FileFacts DEF IInv, Crash
<1>1. TypeOK' /\ UniqueHolder'
  BY DEF TypeOK, PC, File, UniqueHolder
<1>2. NoEarlyFile'
  BY SMTT(30) DEF NoEarlyFile, TypeOK, Running
<1>3. LiveFiles'
  BY DEF LiveFiles, NoEarlyFile, TypeOK, Running, Choosing, Published
<1>4. TicketsPast'
  BY SMTT(30) DEF TicketsPast, TypeOK, NoEarlyFile
<1>5. SeenOrLater' /\ HolderFirst'
  BY DEF SeenOrLater, TypeOK, Running, Competing, Before, HolderFirst
<1>. QED
  BY <1>1, <1>2, <1>3, <1>4, <1>5


-----------------------------------------------------------------------------

(* IInv is inductive: one case per action. *)
LEMMA StepIInv == IInv /\ [Next]_vars => IInv'
<1> SUFFICES ASSUME IInv, [Next]_vars
             PROVE  IInv'
  OBVIOUS
<1>1. CASE UNCHANGED vars
  BY <1>1
  DEF vars, IInv, TypeOK, UniqueHolder, NoEarlyFile, LiveFiles, TicketsPast,
      SeenOrLater, HolderFirst, Running, Before
<1>2. CASE \E a \in Attempt :
               Mark(a) \/ FailChoosing(a) \/ Unpublish(a) \/ FailScan(a) \/ GiveUp(a)
  BY <1>2, MarkStep, FailChoosingStep, UnpublishStep, FailScanStep, GiveUpStep
<1>3. CASE \E a \in Attempt : Step(a)
  BY <1>3, TakeTicketStep, PublishStep, ClearMarkerStep, ScanStep,
     WaitForChooserStep, ReclaimMarkerStep, AcquireStep, ReclaimIntentStep,
     WaitForOwnerStep, ReleaseStep
  DEF Step
<1>4. CASE \E p \in Proc : Sweep(p) \/ Spawn(p) \/ Crash(p)
  BY <1>4, SweepStep, SpawnStep, CrashStep
<1>. QED
  BY <1>1, <1>2, <1>3, <1>4 DEF Next

(* Every reachable state of the lock satisfies the inductive invariant. *)
THEOREM Invariance == Spec => []IInv
BY InitIInv, StepIInv, PTL DEF Spec

(* Every variable of the lock keeps its type: what the polling loops hold    *)
(* and what is still to be removed are files of attempts, faults stay bound. *)
THEOREM TypeCorrectness == Spec => []TypeOK
<1>1. IInv => TypeOK
  BY DEF IInv
<1>. QED
  BY <1>1, Invariance, PTL

(* At most one running attempt holds the lock. *)
THEOREM MutualExclusionHolds == Spec => []MutualExclusion
<1>1. IInv => MutualExclusion
  <2> SUFFICES ASSUME IInv, NEW a \in Attempt, NEW b \in Attempt,
                      Holding(a), Holding(b), a # b
               PROVE  FALSE
    BY DEF MutualExclusion
  <2>1. Before(a, b) /\ Before(b, a)
    BY DEF IInv, HolderFirst, Holding, Competing
  <2>. QED
    BY <2>1, BeforeAsymmetric DEF IInv
<1>. QED
  BY <1>1, Invariance, PTL

(* Nobody enters before a waiting attempt with an older ticket. *)
THEOREM FirstComeFirstServedHolds == Spec => []FirstComeFirstServed
<1>1. IInv => FirstComeFirstServed
  BY DEF IInv, HolderFirst, FirstComeFirstServed, Holding, Waiting, Competing
<1>. QED
  BY <1>1, Invariance, PTL

(* The marker of a running chooser and the intent of a running contender or  *)
(* holder are never taken away.                                              *)
THEOREM LiveFilesKeptHolds == Spec => []LiveFilesKept
<1>1. IInv => LiveFilesKept
  BY DEF IInv, LiveFiles, LiveFilesKept, Choosing, Published
<1>. QED
  BY <1>1, Invariance, PTL

-----------------------------------------------------------------------------

mutexHolder == {a \in Attempt : Holding(a)}
mutexSpent == {a \in Attempt : pc[a] = "done" \/ proc[owner[a]] = "dead"}

(* A step that leaves everybody's life and critical section alone stutters. *)
LEMMA QuietStep ==
    ASSUME UNCHANGED mutexHolder, UNCHANGED mutexSpent
    PROVE  UNCHANGED Mutex!mutexVars
BY DEF Mutex!mutexVars, mutexHolder, mutexSpent

(* The lock on files implements the mutex its callers are written against. *)
THEOREM ImplementsMutexHolds == Spec => ImplementsMutex
<1> USE OwnerAssumption
<1>1. Init => Mutex!Init
  BY DEF Init, Mutex!Init, Holding, Running
<1>2. ASSUME IInv, IInv', [Next]_vars
      PROVE  [Mutex!Next]_Mutex!mutexVars
  <2> USE <1>2 DEF IInv, TypeOK, PC
  <2>1. CASE UNCHANGED vars
    BY <2>1, QuietStep DEF vars, mutexHolder, mutexSpent, Holding, Running
  <2>2. ASSUME NEW a \in Attempt, Acquire(a)
        PROVE  Mutex!Next
    <3>1. mutexHolder' = mutexHolder \cup {a} /\ UNCHANGED mutexSpent
      BY <2>2, SMTT(30) DEF Acquire, Goto, mutexHolder, mutexSpent, Holding, Running
    <3>2. a \notin mutexHolder /\ a \notin mutexSpent
      BY <2>2 DEF Acquire, mutexHolder, mutexSpent, Holding, Running
    <3>3. mutexHolder = {}
      <4> SUFFICES ASSUME NEW b \in mutexHolder
                   PROVE  FALSE
        OBVIOUS
      <4>1. Before(a, b)' /\ Before(b, a)'
        BY <2>2, <3>1, <3>2
        DEF HolderFirst, Competing, mutexHolder, Holding
      <4>. QED
        BY <4>1, RankAssumption DEF Before, mutexHolder
    <3>. QED
      BY <3>1, <3>2, <3>3 DEF Mutex!Next, Mutex!Enter, mutexHolder, mutexSpent
  <2>3. ASSUME NEW a \in Attempt, Release(a) \/ GiveUp(a)
        PROVE  Mutex!Next
    <3>1. mutexHolder' = mutexHolder \ {a} /\ mutexSpent' = mutexSpent \cup {a}
      BY <2>3, SMTT(30)
      DEF Release, GiveUp, Goto, mutexHolder, mutexSpent, Holding, Running
    <3>. QED
      BY <3>1 DEF Mutex!Next, Mutex!Leave, mutexHolder, mutexSpent
  <2>4. ASSUME NEW a \in Attempt, ClearMarker(a)
        PROVE  Mutex!Next
    <3>1. /\ mutexHolder' = mutexHolder \ {b \in {a} : pc[b] = "abandon"}
          /\ mutexSpent' = mutexSpent \cup {b \in {a} : pc[b] = "abandon"}
      BY <2>4, SMTT(30)
      DEF ClearMarker, Goto, mutexHolder, mutexSpent, Holding, Running
    <3>. QED
      BY <3>1 DEF Mutex!Next, Mutex!Leave, mutexHolder, mutexSpent
  <2>5. ASSUME NEW p \in Proc, Crash(p)
        PROVE  Mutex!Next
    <3>1. /\ mutexHolder' = mutexHolder \ {b \in Attempt : owner[b] = p}
          /\ mutexSpent' = mutexSpent \cup {b \in Attempt : owner[b] = p}
      BY <2>5, SMTT(30) DEF Crash, mutexHolder, mutexSpent, Holding, Running
    <3>. QED
      BY <3>1 DEF Mutex!Next, Mutex!Leave, mutexHolder, mutexSpent
  <2>6. ASSUME NEW a \in Attempt,
               \/ Mark(a) \/ TakeTicket(a) \/ Publish(a) \/ FailChoosing(a)
               \/ Unpublish(a) \/ Scan(a) \/ WaitForChooser(a) \/ ReclaimMarker(a)
               \/ ReclaimIntent(a) \/ WaitForOwner(a) \/ FailScan(a)
        PROVE  UNCHANGED mutexHolder /\ UNCHANGED mutexSpent
    BY <2>6, SMTT(30)
    DEF Mark, TakeTicket, Publish, FailChoosing, Unpublish, Scan, WaitForChooser,
        ReclaimMarker, ReclaimIntent, WaitForOwner, FailScan, Goto, Rescan,
        mutexHolder, mutexSpent, Holding, Running
  <2>7. ASSUME NEW p \in Proc, Sweep(p) \/ Spawn(p)
        PROVE  UNCHANGED mutexHolder /\ UNCHANGED mutexSpent
    BY <2>7, SMTT(30)
    DEF Sweep, Spawn, NoEarlyFile, mutexHolder, mutexSpent, Holding, Running
  <2> HIDE <1>2 DEF IInv, TypeOK, PC
  <2>8. CASE Next
    BY <2>2, <2>3, <2>4, <2>5, <2>6, <2>7, <2>8, QuietStep, Zenon DEF Next, Step
  <2>. QED
    BY <1>2, <2>1, <2>8
<1>. QED
  BY <1>1, <1>2, Invariance, PTL DEF Spec, Mutex!Spec, ImplementsMutex

-----------------------------------------------------------------------------
(* The calls of withProcessIntentLock and their leases, over the lock that     *)
(* CrashSafeMutex describes and ImplementsMutexHolds provides: no operation    *)
(* outlives its lease, and no call waits for itself.                           *)

(* The call that made its lease keeps it until nothing runs under it.  A    *)
(* lease waits for exactly the operations that run under it, all of its own *)
(* process; the lock is its maker's until the release, unless that process  *)
(* died.                                                                    *)
Young == {"idle", "queued"}
InLease == {"running", "draining", "releasing"}

Carries(c) ==
    /\ stage[c] \in Young => lease[c] = None /\ awaiter[c] = None
    /\ stage[c] = "running" => lease[c] \in active
    /\ stage[c] \in {"draining", "releasing"} => lease[c] = c
    /\ lease[c] # None => procOf[lease[c]] = procOf[c]

Waits(l) ==
    /\ l \in active <=> lease[l] = l /\ stage[l] \in {"running", "draining"}
    /\ pending[l] = {c \in Call : lease[c] = l /\ c # l /\ stage[c] = "running"}

Holds(l) == Alive(l) /\ lease[l] = l /\ stage[l] \in InLease => holder = {l}

LeaseInv ==
    /\ CallTypeOK
    /\ \A c \in Call : Carries(c)
    /\ \A l \in Call : Waits(l)
    /\ \A l \in Call : Holds(l)

LEMMA CallsInitInv == CallsInit => LeaseInv
BY CallAssumption DEF CallsInit, LeaseInv, CallTypeOK, Carries, Waits, Holds, Young, InLease, Stages, Alive

(* Operations that run are covered by the lease they carry.                *)
LEMMA Covered == LeaseInv => OperationsCovered /\ NobodyQueuesBehindItself
BY CallAssumption DEF LeaseInv, CallTypeOK, Carries, Waits, Holds, Young, InLease, Alive, At,
   OperationsCovered, NobodyQueuesBehindItself, InOperation

(* A call from outside has no lease yet, and nobody awaits it.             *)
LEMMA AskStep ==
  ASSUME LeaseInv, NEW c \in Call, Ask(c)
  PROVE  LeaseInv'
<1>1. CallTypeOK'
  BY CallAssumption DEF LeaseInv, CallTypeOK, Carries, Stages, Young, At, Alive, MoveTo, Ask, leaseVars
<1>2. \A b \in Call : Carries(b)'
  BY CallAssumption
     DEF LeaseInv, CallTypeOK, Carries, Waits, Young, At, Alive, MoveTo, Ask, leaseVars
<1>3. \A l \in Call : Waits(l)'
  BY CallAssumption
     DEF LeaseInv, CallTypeOK, Carries, Waits, Young, At, Alive, MoveTo, Ask, leaseVars
<1>4. \A l \in Call : Holds(l)'
  BY CallAssumption
     DEF LeaseInv, CallTypeOK, Carries, Holds, Young, InLease, At, Alive, MoveTo,
         Ask, leaseVars
<1>. QED
  BY <1>1, <1>2, <1>3, <1>4 DEF LeaseInv

(* A nested call runs under an active lease, which counts it.              *)
LEMMA NestStep ==
  ASSUME LeaseInv, NEW c \in Call, NEW d \in Call, Nest(c, d)
  PROVE  LeaseInv'
<1>1. CallTypeOK'
  BY CallAssumption
     DEF LeaseInv, CallTypeOK, Carries, Stages, Young, At, Alive, MoveTo, Nest,
         Reusable, Began, MadeBy
<1>2. \A b \in Call : Carries(b)'
  BY CallAssumption
     DEF LeaseInv, CallTypeOK, Carries, Waits, Young, At, Alive, MoveTo, Nest,
         Reusable, Began, MadeBy
<1>3. \A l \in Call : Waits(l)'
  BY CallAssumption
     DEF LeaseInv, CallTypeOK, Carries, Waits, Young, At, Alive, MoveTo, Nest,
         Reusable, Began, MadeBy
<1>4. \A l \in Call : Holds(l)'
  <2>1. lease[d] \in Call /\ lease[d] # c /\ lease[c] = None
    BY CallAssumption
     DEF LeaseInv, CallTypeOK, Carries, Waits, Young, At, Nest, Reusable, Began, MadeBy
  <2>2. lease' = [lease EXCEPT ![c] = lease[d]] /\ stage' = [stage EXCEPT ![c] = "running"]
    BY DEF Nest, MoveTo
  <2>3. UNCHANGED <<alive, holder>>
    BY DEF Nest
  <2>. QED
    BY <2>1, <2>2, <2>3 DEF LeaseInv, CallTypeOK, Holds, Alive
<1>. QED
  BY <1>1, <1>2, <1>3, <1>4 DEF LeaseInv

(* A running operation's lease is active, so what queues is not awaited.   *)
LEMMA RequeueStep ==
  ASSUME LeaseInv, NEW c \in Call, NEW d \in Call, Requeue(c, d)
  PROVE  LeaseInv'
<1>1. CallTypeOK'
  BY CallAssumption
     DEF LeaseInv, CallTypeOK, Carries, Stages, Young, At, Alive, MoveTo, Requeue,
         Reusable, Began, MadeBy
<1>2. \A b \in Call : Carries(b)'
  BY CallAssumption
     DEF LeaseInv, CallTypeOK, Carries, Waits, Young, At, Alive, MoveTo, Requeue,
         Reusable, Began, MadeBy
<1>3. \A l \in Call : Waits(l)'
  BY CallAssumption
     DEF LeaseInv, CallTypeOK, Carries, Waits, Young, At, Alive, MoveTo, Requeue,
         Reusable, Began, MadeBy
<1>4. \A l \in Call : Holds(l)'
  BY CallAssumption
     DEF LeaseInv, CallTypeOK, Carries, Holds, Young, InLease, At, Alive, MoveTo,
         Requeue, Reusable, Began, MadeBy
<1>. QED
  BY <1>1, <1>2, <1>3, <1>4 DEF LeaseInv

(* The lock was free, so no lease of a living process had it.              *)
LEMMA EnterStep ==
  ASSUME LeaseInv, NEW c \in Call, Enter(c)
  PROVE  LeaseInv'
<1>1. CallTypeOK'
  BY CallAssumption
     DEF LeaseInv, CallTypeOK, Carries, Stages, Young, At, Alive, MoveTo, Enter, Lock!Enter
<1>2. \A b \in Call : Carries(b)'
  BY CallAssumption
     DEF LeaseInv, CallTypeOK, Carries, Waits, Young, At, Alive, MoveTo, Enter,
         Lock!Enter
<1>3. \A l \in Call : Waits(l)'
  BY CallAssumption
     DEF LeaseInv, CallTypeOK, Carries, Waits, Young, At, Alive, MoveTo, Enter,
         Lock!Enter
<1>4. \A l \in Call : Holds(l)'
  BY CallAssumption
     DEF LeaseInv, CallTypeOK, Carries, Holds, Young, InLease, At, Alive, MoveTo,
         Enter, Lock!Enter
<1>. QED
  BY <1>1, <1>2, <1>3, <1>4 DEF LeaseInv

(* Who gives up has no lease.                                              *)
LEMMA LoseLockStep ==
  ASSUME LeaseInv, NEW c \in Call, LoseLock(c)
  PROVE  LeaseInv'
<1>1. CallTypeOK'
  BY CallAssumption
     DEF LeaseInv, CallTypeOK, Carries, Stages, Young, At, Alive, MoveTo, LoseLock,
         Lock!Leave, leaseVars
<1>2. \A b \in Call : Carries(b)'
  BY CallAssumption
     DEF LeaseInv, CallTypeOK, Carries, Waits, Young, At, Alive, MoveTo, LoseLock,
         Lock!Leave, leaseVars
<1>3. \A l \in Call : Waits(l)'
  BY CallAssumption
     DEF LeaseInv, CallTypeOK, Carries, Waits, Young, At, Alive, MoveTo, LoseLock,
         Lock!Leave, leaseVars
<1>4. \A l \in Call : Holds(l)'
  BY CallAssumption
     DEF LeaseInv, CallTypeOK, Carries, Holds, Young, InLease, At, Alive, MoveTo,
         LoseLock, Lock!Leave, leaseVars
<1>. QED
  BY <1>1, <1>2, <1>3, <1>4 DEF LeaseInv

(* An operation that ends is no longer waited for.                         *)
LEMMA EndNestedStep ==
  ASSUME LeaseInv, NEW c \in Call, EndNested(c)
  PROVE  LeaseInv'
<1>1. CallTypeOK'
  BY CallAssumption DEF LeaseInv, CallTypeOK, Carries, Stages, Young, At, Alive, MoveTo, EndNested
<1>2. \A b \in Call : Carries(b)'
  BY CallAssumption DEF LeaseInv, CallTypeOK, Carries, Waits, Young, At, Alive, MoveTo, EndNested
<1>3. \A l \in Call : Waits(l)'
  BY CallAssumption DEF LeaseInv, CallTypeOK, Carries, Waits, Young, At, Alive, MoveTo, EndNested
<1>4. \A l \in Call : Holds(l)'
  BY CallAssumption
     DEF LeaseInv, CallTypeOK, Carries, Holds, Young, InLease, At, Alive, MoveTo,
         EndNested
<1>. QED
  BY <1>1, <1>2, <1>3, <1>4 DEF LeaseInv

(* The lease outlasts the operation of its maker.                          *)
LEMMA EndOuterStep ==
  ASSUME LeaseInv, NEW c \in Call, EndOuter(c)
  PROVE  LeaseInv'
<1>1. CallTypeOK'
  BY CallAssumption DEF LeaseInv, CallTypeOK, Carries, Stages, Young, At, Alive, MoveTo, EndOuter
<1>2. \A b \in Call : Carries(b)'
  BY CallAssumption DEF LeaseInv, CallTypeOK, Carries, Waits, Young, At, Alive, MoveTo, EndOuter
<1>3. \A l \in Call : Waits(l)'
  BY CallAssumption DEF LeaseInv, CallTypeOK, Carries, Waits, Young, At, Alive, MoveTo, EndOuter
<1>4. \A l \in Call : Holds(l)'
  BY CallAssumption
     DEF LeaseInv, CallTypeOK, Carries, Holds, Young, InLease, At, Alive, MoveTo,
         EndOuter
<1>. QED
  BY <1>1, <1>2, <1>3, <1>4 DEF LeaseInv

(* Another round of waiting changes no lease.                              *)
LEMMA DrainAgainStep ==
  ASSUME LeaseInv, NEW c \in Call, DrainAgain(c)
  PROVE  LeaseInv'
<1>1. CallTypeOK'
  BY CallAssumption DEF LeaseInv, CallTypeOK, Carries, Stages, Young, At, Alive, MoveTo, DrainAgain
<1>2. \A b \in Call : Carries(b)'
  BY CallAssumption DEF LeaseInv, CallTypeOK, Carries, Waits, Young, At, Alive, MoveTo, DrainAgain
<1>3. \A l \in Call : Waits(l)'
  BY CallAssumption DEF LeaseInv, CallTypeOK, Carries, Waits, Young, At, Alive, MoveTo, DrainAgain
<1>4. \A l \in Call : Holds(l)'
  BY CallAssumption
     DEF LeaseInv, CallTypeOK, Carries, Holds, Young, InLease, At, Alive, MoveTo,
         DrainAgain
<1>. QED
  BY <1>1, <1>2, <1>3, <1>4 DEF LeaseInv

(* Nothing is pending, so nothing runs under the lease that ends.          *)
LEMMA CloseStep ==
  ASSUME LeaseInv, NEW c \in Call, Close(c)
  PROVE  LeaseInv'
<1>1. CallTypeOK'
  BY CallAssumption DEF LeaseInv, CallTypeOK, Carries, Stages, Young, At, Alive, MoveTo, Close
<1>2. \A b \in Call : Carries(b)'
  BY CallAssumption DEF LeaseInv, CallTypeOK, Carries, Waits, Young, At, Alive, MoveTo, Close
<1>3. \A l \in Call : Waits(l)'
  BY CallAssumption DEF LeaseInv, CallTypeOK, Carries, Waits, Young, At, Alive, MoveTo, Close
<1>4. \A l \in Call : Holds(l)'
  BY CallAssumption
     DEF LeaseInv, CallTypeOK, Carries, Holds, Young, InLease, At, Alive, MoveTo, Close
<1>. QED
  BY <1>1, <1>2, <1>3, <1>4 DEF LeaseInv

(* The lease that goes was the only one of a living process.               *)
LEMMA ReleaseLockStep ==
  ASSUME LeaseInv, NEW c \in Call, ReleaseLock(c)
  PROVE  LeaseInv'
<1>1. CallTypeOK'
  BY CallAssumption
     DEF LeaseInv, CallTypeOK, Carries, Stages, Young, At, Alive, MoveTo, ReleaseLock,
         Lock!Leave, leaseVars
<1>2. \A b \in Call : Carries(b)'
  BY CallAssumption
     DEF LeaseInv, CallTypeOK, Carries, Waits, Young, At, Alive, MoveTo, ReleaseLock,
         Lock!Leave, leaseVars
<1>3. \A l \in Call : Waits(l)'
  BY CallAssumption
     DEF LeaseInv, CallTypeOK, Carries, Waits, Young, At, Alive, MoveTo, ReleaseLock,
         Lock!Leave, leaseVars
<1>4. \A l \in Call : Holds(l)'
  BY CallAssumption
     DEF LeaseInv, CallTypeOK, Carries, Holds, Young, InLease, At, Alive, MoveTo,
         ReleaseLock, Lock!Leave, leaseVars
<1>. QED
  BY <1>1, <1>2, <1>3, <1>4 DEF LeaseInv

(* A crash frees the locks of its own process only.                        *)
LEMMA DieStep ==
  ASSUME LeaseInv, NEW p \in Process, Die(p)
  PROVE  LeaseInv'
<1>1. CallTypeOK'
  BY CallAssumption
     DEF LeaseInv, CallTypeOK, Carries, Stages, Young, At, Alive, MoveTo, Die,
         Lock!Leave, leaseVars
<1>2. \A b \in Call : Carries(b)'
  BY CallAssumption
     DEF LeaseInv, CallTypeOK, Carries, Waits, Young, At, Alive, MoveTo, Die,
         Lock!Leave, leaseVars
<1>3. \A l \in Call : Waits(l)'
  BY CallAssumption
     DEF LeaseInv, CallTypeOK, Carries, Waits, Young, At, Alive, MoveTo, Die,
         Lock!Leave, leaseVars
<1>4. \A l \in Call : Holds(l)'
  BY CallAssumption
     DEF LeaseInv, CallTypeOK, Carries, Holds, Young, InLease, At, Alive, MoveTo,
         Die, Lock!Leave, leaseVars
<1>. QED
  BY <1>1, <1>2, <1>3, <1>4 DEF LeaseInv

LEMMA CallsNextInv == LeaseInv /\ [CallsNext]_callVars => LeaseInv'
<1>. SUFFICES ASSUME LeaseInv, [CallsNext]_callVars
              PROVE  LeaseInv'
  OBVIOUS
<1>1. CASE UNCHANGED callVars
  BY <1>1 DEF LeaseInv, CallTypeOK, Carries, Waits, Holds, Alive, callVars, leaseVars
<1>2. CASE \E c \in Call : Ask(c) \/ CallStep(c) \/ LoseLock(c)
  BY <1>2, AskStep, EnterStep, EndNestedStep, EndOuterStep, DrainAgainStep, CloseStep,
     ReleaseLockStep, LoseLockStep DEF CallStep
<1>3. CASE \E c, d \in Call : Nest(c, d) \/ Requeue(c, d)
  BY <1>3, NestStep, RequeueStep
<1>4. CASE \E p \in Process : Die(p)
  BY <1>4, DieStep
<1>. QED
  BY <1>1, <1>2, <1>3, <1>4 DEF CallsNext

LEMMA LeaseInvariance == CallsSpec => []LeaseInv
BY CallsInitInv, CallsNextInv, PTL DEF CallsSpec

-----------------------------------------------------------------------------

(* Every variable of the leases keeps its type.                            *)
THEOREM CallTypesHold == CallsSpec => []CallTypeOK
<1>1. LeaseInv => CallTypeOK
  BY DEF LeaseInv
<1>. QED
  BY <1>1, LeaseInvariance, PTL

(* An operation of withProcessIntentLock, nested or detached at whatever   *)
(* depth, runs only while its lease has the lock.                          *)
THEOREM OperationsCoveredHolds == CallsSpec => []OperationsCovered
BY LeaseInvariance, Covered, PTL

(* No call queues behind the lock of an operation that awaits it.          *)
THEOREM NobodyQueuesBehindItselfHolds == CallsSpec => []NobodyQueuesBehindItself
BY LeaseInvariance, Covered, PTL
=============================================================================
