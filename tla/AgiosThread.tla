----------------------------- MODULE AgiosThread -----------------------------
(***************************************************************************)
(* The agios thread: its main loop (agios_thread.c), the change of the     *)
(* scheduling algorithm with the migration of the queued requests          *)
(* (scheduling_algorithms.c, data_structures.c), and the schedule          *)
(* functions of TO, TO-agg, SJF and NOOP.                                  *)
(*                                                                         *)
(* Every scheduler of the repository is static.  The change is what the    *)
(* thread does when a scheduler with is_dynamic set is plugged in, whose   *)
(* select_algorithm may return any member of Selectable and whose period   *)
(* may have ended whenever it is looked at.                                *)
(***************************************************************************)
EXTENDS AgiosState

VARIABLES
  apc,        \* where the thread is
  k,          \* the lock or hashtable line of a loop over them
  chosen,     \* the queue SJF chose, or NoQueue
  minSize,    \* the size of that queue when SJF looked at it
  evaluated,  \* how many files SJF has seen requests of
  taken       \* the requests whose callback step 2 still has to call

scan == <<chosen, minSize, evaluated>>
threadVars == <<apc, k, scan, taken>>

Dynamic == Selectable # {}
LONG_MAX == Cardinality(Requests) + 1

ThreadPCs == {"init", "unlock_init", "loop", "lock_all", "switch", "migrate",
              "unlock_all", "check", "test", "scan_lock", "scan", "scan_next",
              "take_lock", "take", "callback", "presleep", "asleep",
              "loop_end", "ended"}
ThreadTypeOK ==
  /\ apc \in ThreadPCs
  /\ k \in Locks
  /\ chosen \in Queues \cup {NoQueue}
  /\ minSize \in Int /\ evaluated \in Int
  /\ taken \in SUBSET Requests

ThreadInit ==
  /\ apc = "init" /\ k = 0
  /\ chosen = NoQueue /\ minSize = 0 /\ evaluated = 0
  /\ taken = {}

(* Where the thread may touch requests, and the lock it then relies on. *)
HoldsAll == apc \in {"init", "switch", "migrate"}
TakeLockIndex == IF NeedsHashtable(alg) THEN LineOf[FileOf[chosen]] ELSE Timeline

-----------------------------------------------------------------------------
(* The thread starts with every lock held, chooses, and opens the locks.    *)
ChooseScheduler ==
  /\ apc = "init"
  /\ alg' \in StartAlgs
  /\ apc' = "unlock_init" /\ k' = 1
  /\ UNCHANGED <<owner, place, counters, handed, asleep, stop, fault, scan,
                 taken>>

(* Mutant: the loop over the lines ends one too late.                       *)
UnlockAllPastEnd ==
  /\ apc \in {"unlock_init", "unlock_all"}
  /\ Release(k)
  /\ k' = IF k \in Lines THEN k + 1 ELSE 0
  /\ apc' = IF k # Timeline THEN apc
            ELSE IF apc = "unlock_init" THEN "loop" ELSE "check"
  /\ UNCHANGED <<alg, place, counters, handed, asleep, stop, fault, scan,
                 taken>>

(* unlock_all_data_structures: the lines in order, then the timeline.       *)
UnlockAll ==
  /\ apc \in {"unlock_init", "unlock_all"}
  /\ Release(k)
  /\ k' = IF k \in 1..(NLines - 1) THEN k + 1 ELSE 0
  /\ apc' = IF k # Timeline THEN apc
            ELSE IF apc = "unlock_init" THEN "loop" ELSE "check"
  /\ UNCHANGED <<alg, place, counters, handed, asleep, stop, fault, scan,
                 taken>>

(* Mutant: only the hashtable lines are going to be locked.                 *)
LoopSkipsTimeline ==
  /\ apc = "loop"
  /\ apc' \in (IF Dynamic THEN {"lock_all", "check"} ELSE {"check"})
  /\ k' = 1
  /\ UNCHANGED <<stateVars, scan, taken>>

(* The head of the main loop: is it time to change the scheduler?           *)
Loop ==
  /\ apc = "loop"
  /\ apc' \in (IF Dynamic THEN {"lock_all", "check"} ELSE {"check"})
  /\ k' = 0
  /\ UNCHANGED <<stateVars, scan, taken>>

(* Mutant: the timeline lock is taken to be enough.                         *)
LockAllTimelineOnly ==
  /\ apc = "lock_all"
  /\ Acquire(Thread, Timeline)
  /\ k' = 0 /\ apc' = "switch"
  /\ UNCHANGED <<alg, place, counters, handed, asleep, stop, fault, scan,
                 taken>>

(* lock_all_data_structures: the timeline, then the lines in order.         *)
LockAll ==
  /\ apc = "lock_all"
  /\ Acquire(Thread, k)
  /\ IF k < NLines THEN k' = k + 1 /\ apc' = apc ELSE k' = 0 /\ apc' = "switch"
  /\ UNCHANGED <<alg, place, counters, handed, asleep, stop, fault, scan,
                 taken>>

(* Mutant: the queued requests stay where they are.                         *)
SwitchNoMigration ==
  /\ apc = "switch"
  /\ alg' \in Selectable
  /\ apc' = "unlock_all" /\ k' = 1
  /\ UNCHANGED <<owner, place, counters, handed, asleep, stop, fault, scan,
                 taken>>

(* change_selected_alg with every lock held.                                *)
Switch ==
  /\ apc = "switch"
  /\ \E a \in Selectable :
       /\ alg' = a
       /\ IF NeedsHashtable(a) # NeedsHashtable(alg)
          THEN apc' = "migrate" /\ k' = k
          ELSE apc' = "unlock_all" /\ k' = 1
  /\ UNCHANGED <<owner, place, counters, handed, asleep, stop, fault, scan,
                 taken>>

Migrate ==
  /\ apc = "migrate"
  /\ place' = [r \in Requests |->
                 IF ~Queued(r) THEN place[r]
                 ELSE IF NeedsHashtable(alg) THEN "hashtable" ELSE "timeline"]
  /\ apc' = "unlock_all" /\ k' = 1
  /\ UNCHANGED <<alg, owner, counters, handed, asleep, stop, fault, scan, taken>>

-----------------------------------------------------------------------------
(* get_current_reqnb decides between a call of schedule and a sleep.        *)
Check ==
  /\ apc = "check"
  /\ apc' = IF reqnb <= 0 THEN "presleep"
            ELSE IF alg = "NOOP" THEN "take_lock" ELSE "test"
  /\ UNCHANGED <<stateVars, k, scan, taken>>

(* Mutant: the schedule loop runs once more when nothing is queued.         *)
TestOffByOne ==
  /\ apc = "test"
  /\ IF reqnb < 0
     THEN apc' = "loop_end" /\ UNCHANGED <<k, scan>>
     ELSE IF alg = "SJF"
     THEN /\ apc' = "scan_lock" /\ k' = 1
          /\ chosen' = NoQueue /\ minSize' = LONG_MAX /\ evaluated' = 0
     ELSE apc' = "take_lock" /\ UNCHANGED <<k, scan>>
  /\ UNCHANGED <<stateVars, taken>>

(* The loop condition of TO and SJF reads current_reqnb with no lock.       *)
Test ==
  /\ apc = "test"
  /\ IF reqnb <= 0
     THEN apc' = "loop_end" /\ UNCHANGED <<k, scan>>
     ELSE IF alg = "SJF"
     THEN /\ apc' = "scan_lock" /\ k' = 1
          /\ chosen' = NoQueue /\ minSize' = LONG_MAX /\ evaluated' = 0
     ELSE apc' = "take_lock" /\ UNCHANGED <<k, scan>>
  /\ UNCHANGED <<stateVars, taken>>

(* SJF_get_shortest_job: one hashtable line at a time, each under its lock. *)
ScanLock ==
  /\ apc = "scan_lock"
  /\ Acquire(Thread, k)
  /\ apc' = "scan"
  /\ UNCHANGED <<alg, place, counters, handed, asleep, stop, fault, k, scan,
                 taken>>

Shorter(l) ==
  {q \in Queues : /\ LineOf[FileOf[q]] = l
                  /\ QueueSize(q) > 0 /\ QueueSize(q) < minSize}
Shortest(S) == {q \in S : \A p \in S : QueueSize(q) <= QueueSize(p)}
(* A file with requests must have data queued: the assert of the scan.      *)
Sane(f) == \E q \in Queues : FileOf[q] = f /\ QueueSize(q) > 0

Scan ==
  /\ apc = "scan"
  /\ IF \A f \in FilesOnLine(k) : Sane(f)
     THEN /\ IF Shorter(k) = {} THEN UNCHANGED <<chosen, minSize>>
             ELSE \E q \in Shortest(Shorter(k)) :
                    chosen' = q /\ minSize' = QueueSize(q)
          /\ evaluated' = evaluated + Cardinality(FilesOnLine(k))
          /\ Release(k)
          /\ apc' = "scan_next"
          /\ UNCHANGED fault
     ELSE fault' = "SJF_size" /\ UNCHANGED <<owner, apc, scan>>
  /\ UNCHANGED <<alg, place, counters, handed, asleep, stop, k, taken>>

(* The shortcut out of the scan reads current_filenb with no lock.          *)
ScanNext ==
  /\ apc = "scan_next"
  /\ IF evaluated < filenb /\ k < NLines
     THEN k' = k + 1 /\ apc' = "scan_lock"
     ELSE k' = 0 /\ apc' = IF chosen = NoQueue THEN "test" ELSE "take_lock"
  /\ UNCHANGED <<stateVars, scan, taken>>

-----------------------------------------------------------------------------
TakeLock ==
  /\ apc = "take_lock"
  /\ Acquire(Thread, TakeLockIndex)
  /\ apc' = "take"
  /\ UNCHANGED <<alg, place, counters, handed, asleep, stop, fault, k, scan,
                 taken>>

(* A scheduler takes what it was locked for; the lock is held until the     *)
(* requests are in dispatch.                                                *)
TakeFrom(in, qs) ==
  \E q \in qs : \E G \in Groups(in, q) :
    /\ ProcessStep1(G, q)
    /\ taken' = G
    /\ Release(TakeLockIndex)
    /\ apc' = "callback"
    /\ UNCHANGED fault

TakeTO ==
  /\ apc = "take" /\ alg \in {"TO", "TOAGG"}
  /\ IF \E r \in Requests : place[r] = "timeline"
     THEN TakeFrom("timeline", Queues)
     ELSE /\ fault' = "TO_empty"
          /\ UNCHANGED <<owner, place, counters, apc, taken>>
  /\ UNCHANGED <<alg, handed, asleep, stop, k, scan>>

TakeSJF ==
  /\ apc = "take" /\ alg = "SJF"
  /\ IF \E r \in Requests : place[r] = "hashtable" /\ QueueOf[r] = chosen
     THEN /\ TakeFrom("hashtable", {chosen})
          /\ chosen' = NoQueue /\ minSize' = 0 /\ evaluated' = 0
     ELSE /\ fault' = "SJF_empty"
          /\ UNCHANGED <<owner, place, counters, apc, scan, taken>>
  /\ UNCHANGED <<alg, handed, asleep, stop, k>>

TakeNOOP ==
  /\ apc = "take" /\ alg = "NOOP"
  /\ IF \E r \in Requests : place[r] = "timeline"
     THEN TakeFrom("timeline", Queues)
     ELSE /\ Release(Timeline)
          /\ apc' = "loop_end"
          /\ UNCHANGED <<place, counters, taken, fault>>
  /\ UNCHANGED <<alg, handed, asleep, stop, k, scan>>

(* Mutant: the list of requests to give back is not emptied.                *)
CallBackKeepsList ==
  /\ apc = "callback"
  /\ ProcessStep2(taken) /\ taken' = taken
  /\ apc' \in {"callback", "test"}
  /\ UNCHANGED <<alg, owner, place, counters, asleep, stop, fault, k, scan>>

(* process_requests_step2, with no lock; then the schedule loop goes on     *)
(* unless it is time to change the scheduler.                               *)
CallBack ==
  /\ apc = "callback"
  /\ \E G \in (IF ListCallback THEN {taken} ELSE {{r} : r \in taken}) :
       ProcessStep2(G) /\ taken' = taken \ G
  /\ IF taken' # {} THEN apc' = apc
     ELSE apc' \in {IF alg = "NOOP" THEN "take_lock" ELSE "test"}
                     \cup (IF Dynamic THEN {"loop_end"} ELSE {})
  /\ UNCHANGED <<alg, owner, place, counters, asleep, stop, fault, k, scan>>

-----------------------------------------------------------------------------
(* pthread_cond_timedwait: a signal sent before the thread waits is lost.   *)
FallAsleep ==
  /\ apc = "presleep"
  /\ asleep' = TRUE
  /\ apc' = "asleep"
  /\ UNCHANGED <<alg, owner, place, counters, handed, stop, fault, k, scan,
                 taken>>

Woken ==
  /\ apc = "asleep" /\ ~asleep
  /\ apc' = "loop_end"
  /\ UNCHANGED <<stateVars, k, scan, taken>>

(* Mutant: a timeout goes back to sleep without looking at the counters.    *)
TimeoutSleepsOn ==
  /\ apc = "asleep" /\ asleep
  /\ asleep' = FALSE
  /\ apc' = "presleep"
  /\ UNCHANGED <<alg, owner, place, counters, handed, stop, fault, k, scan,
                 taken>>

Timeout ==
  /\ apc = "asleep" /\ asleep
  /\ asleep' = FALSE
  /\ apc' = "loop_end"
  /\ UNCHANGED <<alg, owner, place, counters, handed, stop, fault, k, scan,
                 taken>>

(* Mutant: the stop flag is not read.                                       *)
LoopEndForever ==
  /\ apc = "loop_end"
  /\ apc' = "loop"
  /\ UNCHANGED <<stateVars, k, scan, taken>>

LoopEnd ==
  /\ apc = "loop_end"
  /\ apc' = IF stop THEN "ended" ELSE "loop"
  /\ UNCHANGED <<stateVars, k, scan, taken>>

ChangeStep == Loop \/ LockAll \/ Switch \/ Migrate \/ UnlockAll
ScheduleStep == Test \/ ScanLock \/ Scan \/ ScanNext \/ TakeLock \/ TakeTO
                  \/ TakeSJF \/ TakeNOOP \/ CallBack
SleepStep == FallAsleep \/ Woken \/ Timeout
ThreadStep == ChooseScheduler \/ ChangeStep \/ Check \/ ScheduleStep
                \/ SleepStep \/ LoopEnd
=============================================================================
