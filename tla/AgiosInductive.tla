--------------------------- MODULE AgiosInductive ---------------------------
(***************************************************************************)
(* The strengthenings that make the safety invariants of Agios inductive.  *)
(***************************************************************************)
EXTENDS Agios

(* Which locks the agios thread holds at each place of its program.        *)
ThreadLocks ==
  /\ HoldsAll => \A l \in Locks : owner[l] = Thread
  /\ apc = "lock_all" => \A l \in Locks : l < k => owner[l] = Thread
  /\ apc \in {"unlock_init", "unlock_all"} =>
       /\ owner[Timeline] = Thread
       /\ k # Timeline => \A l \in Locks : l >= k => owner[l] = Thread
  /\ apc \in {"scan_lock", "scan"} => k \in Lines
  /\ apc = "scan_next" => k \in Lines
  /\ apc = "scan" => owner[k] = Thread
  /\ apc = "take" => owner[TakeLockIndex] = Thread
  /\ apc \in {"take_lock", "take"} /\ alg = "SJF" => chosen \in Queues
  /\ apc = "init" <=> alg = NoAlg

(* What a call knows once it holds a lock: the lock is the one it asked    *)
(* for, and after the recheck it is the right one and stays so.            *)
CallLocks ==
  \A c \in Calls :
    /\ HoldsLock(c) => owner[LockFor(c[2], need[c])] = c
    /\ InBody(c) => need[c] = NeedsHashtable(alg)

(* Locks and program counters: the inductive core of AdequateLockHeld and  *)
(* SchedulerStable.                                                        *)
LockInv == ThreadLocks /\ CallLocks

(* Where a request is at each stage of its delivery: the inductive core of *)
(* HandedOnce.                                                             *)
NotYetAdded(r) == pc[<<"add", r>>] \in {"idle", "read", "lock", "check", "body"}
DeliveryOf(r) ==
  /\ handed[r] <= 1
  /\ handed[r] > 0 => place[r] \in {"dispatch", "released"}
  /\ r \in taken => handed[r] = 0 /\ place[r] \in {"dispatch", "released"}
  /\ NotYetAdded(r) <=> place[r] = "new"
  /\ pc[<<"add", r>>] = "callback" =>
       handed[r] = 0 /\ r \notin taken /\ place[r] \in {"dispatch", "released"}
  /\ pc[<<"add", r>>] \in {"count", "finish"} /\ alg = "NOOP" =>
       place[r] = "held"
Delivery == \A r \in Requests : DeliveryOf(r)

(* The inductive core of NoGhostRequest: nothing is queued before there is *)
(* a scheduler.                                                            *)
GhostInv ==
  /\ NoGhostRequest
  /\ apc = "init" => \A r \in Requests : ~Queued(r)

-----------------------------------------------------------------------------
(* A cancel may free a twin of its request that another file queued, and   *)
(* then counts it down on the line of the caller's file.  With one counter *)
(* per line that is right only if such twins share their line.             *)
CancelsOwnLine ==
  \A r \in Cancelable, x \in Requests :
    ExtentOf[x] = ExtentOf[r] => Line(x) = Line(r)

(* The inductive core of CountersAgree: who adds a request has it counted  *)
(* in its line and file until it lets go of the lock; and who may cancel.  *)
Adding(r) == pc[<<"add", r>>] \in {"count", "finish"}
CountInv ==
  /\ CountersAgree
  /\ \A r \in Requests :
       /\ Adding(r) => r \in Counted(Requests)
       /\ pc[<<"cancel", r>>] # "idle" => r \in Cancelable

(* What NOOP holds is on its way through an add.                           *)
HeldInv ==
  \A r \in Requests : place[r] = "held" => Adding(r) /\ alg = "NOOP"

-----------------------------------------------------------------------------
(* A client that never cancels, sends data in every request, and calls     *)
(* only once the scheduler is chosen.                                      *)
PlainClient == Cancelable = {} /\ ZeroLength = {} /\ ~EarlyClients

InHashtable(r) == place[r] = "hashtable"
FilesBefore(l) ==
  {f \in Files : LineOf[f] < l /\ \E r \in Requests :
                                    InHashtable(r) /\ FileOf[QueueOf[r]] = f}

(* What the thread knows while it works: once it saw a request counted,    *)
(* some request is there to be taken.  The queue SJF chose keeps its       *)
(* requests.  The scan has evaluated no more files than the lines behind   *)
(* it hold, and as long as it chose no queue it saw nothing and something  *)
(* is still ahead of it.                                                   *)
Scanning == apc \in {"scan_lock", "scan", "scan_next"}
Taking == apc \in {"take_lock", "take"}
Ahead == IF apc = "scan_next" THEN k + 1 ELSE k

CalledLate == \A c \in Calls : pc[c] # "idle" => alg # NoAlg
TimelineHas ==
  Taking /\ alg \in {"TO", "TOAGG"} => \E r \in Requests : place[r] = "timeline"
ChosenHas ==
  (Scanning \/ (Taking /\ alg = "SJF")) /\ chosen # NoQueue =>
    \E r \in Requests : InHashtable(r) /\ QueueOf[r] = chosen
ScanInv ==
  Scanning =>
    /\ alg = "SJF"
    /\ evaluated <= Cardinality(FilesBefore(Ahead))
    /\ chosen = NoQueue =>
         /\ minSize = LONG_MAX /\ evaluated = 0
         /\ \E r \in Requests : InHashtable(r) /\ Line(r) >= Ahead
WorkInv == CalledLate /\ TimelineHas /\ ChosenHas /\ ScanInv

-----------------------------------------------------------------------------
(* Releases.  A release frees the first dispatched request of its extent,  *)
(* perhaps a twin whose callback is still to come; but as many requests of *)
(* an extent are freed as releases of it returned, and each was called     *)
(* after a callback, so that there is one left for the next.               *)
TwinsOf(s) ==
  {x \in Requests : QueueOf[x] = QueueOf[s] /\ ExtentOf[x] = ExtentOf[s]}
Freed(s) == {x \in TwinsOf(s) : place[x] = "released"}
Returned(s) == {x \in TwinsOf(s) : pc[<<"release", x>>] = "done"}
ReleasedAfterCallback ==
  \A r \in Requests : pc[<<"release", r>>] # "idle" => handed[r] > 0
ReleaseInv ==
  /\ ReleasedAfterCallback
  /\ ReleaseFinds
  /\ \A s \in Requests : Cardinality(Freed(s)) = Cardinality(Returned(s))

(* Requests that can be told apart by what cancel and release are given.   *)
DistinctExtents ==
  \A r, s \in Requests :
    QueueOf[r] = QueueOf[s] /\ ExtentOf[r] = ExtentOf[s] => r = s

(* Then a request is freed by its own release only, hence after its        *)
(* callback.                                                               *)
FreedAfterCallback == \A r \in Requests : place[r] = "released" => handed[r] > 0
=============================================================================
