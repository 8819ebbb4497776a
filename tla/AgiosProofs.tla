----------------------------- MODULE AgiosProofs -----------------------------
(***************************************************************************)
(* Theorems about Agios for every number of requests, files, queues and    *)
(* hashtable lines, and every set of selectable algorithms: the types; the *)
(* locking argument (whoever works on queued requests holds the lock of    *)
(* the structure the current scheduler uses, and the scheduler changes     *)
(* only when nobody does); what follows from it for the deliveries.        *)
(***************************************************************************)
EXTENDS AgiosInductive, FiniteSetTheorems, TLAPS

(* A call is a kind and a request, and never the thread or nobody.         *)
LEMMA CallFacts ==
  /\ \A c \in Calls : c[1] \in {"add", "cancel", "release"} /\ c[2] \in Requests
  /\ \A c \in Calls : c = <<c[1], c[2]>>
  /\ \A r \in Requests : /\ <<"add", r>> \in Calls
                         /\ <<"cancel", r>> \in Calls
                         /\ <<"release", r>> \in Calls
  /\ Calls \subseteq Owners /\ Thread \in Owners /\ Free \in Owners
BY DEF Calls, Owners

(* Every lock index the model uses is a lock.                              *)
LEMMA LockFacts ==
  /\ Timeline \in Locks /\ Lines \subseteq Locks
  /\ \A r \in Requests : Line(r) \in Lines
  /\ \A q \in Queues : LineOf[FileOf[q]] \in Lines
  /\ \A r \in Requests, h \in BOOLEAN : LockFor(r, h) \in Locks
<1>1. Timeline \in Locks /\ Lines \subseteq Locks
  BY StateAssumption DEF Timeline, Locks, Lines
<1>2. \A q \in Queues : LineOf[FileOf[q]] \in Lines
  BY StateAssumption
<1>3. \A r \in Requests : Line(r) \in Lines
  BY <1>2, StateAssumption DEF Line
<1> QED
  BY <1>1, <1>2, <1>3 DEF LockFor

(* The sets that are counted are finite.                                   *)
LEMMA CountFacts ==
  /\ \A G \in SUBSET Requests : Cardinality(G) \in Nat
  /\ \A q \in Queues : QueueSize(q) \in Nat
  /\ \A l \in Lines : Cardinality(FilesOnLine(l)) \in Nat
  /\ LONG_MAX \in Nat
<1>1. \A G \in SUBSET Requests : Cardinality(G) \in Nat
  BY StateAssumption, FS_Subset, FS_CardinalityType
<1>2. \A q \in Queues : QueueSize(q) \in Nat
  BY <1>1 DEF QueueSize
<1>3. \A l \in Lines : Cardinality(FilesOnLine(l)) \in Nat
  BY StateAssumption, FS_Subset, FS_CardinalityType DEF FilesOnLine
<1> QED
  BY <1>1, <1>2, <1>3 DEF LONG_MAX

-----------------------------------------------------------------------------
(* What the helpers do to the counters keeps them integers.                *)
LEMMA UncountType ==
  ASSUME StateTypeOK, NEW f \in Files, NEW l \in Lines, NEW n \in Nat,
         Uncount(f, l, n)
  PROVE  /\ reqnb' \in Int /\ filenb' \in Int
         /\ lineReqs' \in [Lines -> Int] /\ fileReqs' \in [Files -> Int]
BY DEF StateTypeOK, Uncount

LEMMA ProcessStep1Type ==
  ASSUME StateTypeOK, NEW G \in SUBSET Requests, NEW q \in Queues,
         ProcessStep1(G, q)
  PROVE  /\ place' \in [Requests -> Places]
         /\ reqnb' \in Int /\ filenb' \in Int
         /\ lineReqs' \in [Lines -> Int] /\ fileReqs' \in [Files -> Int]
<1>1. place' \in [Requests -> Places]
  BY DEF ProcessStep1, StateTypeOK, Places
<1>2. Cardinality(G) \in Nat /\ FileOf[q] \in Files /\ LineOf[FileOf[q]] \in Lines
  BY CountFacts, StateAssumption
<1> QED
  BY <1>1, <1>2, UncountType DEF ProcessStep1

LEMMA TakeFromType ==
  ASSUME StateTypeOK, NEW in, NEW qs \in SUBSET Queues, TakeFrom(in, qs)
  PROVE  /\ place' \in [Requests -> Places]
         /\ reqnb' \in Int /\ filenb' \in Int
         /\ lineReqs' \in [Lines -> Int] /\ fileReqs' \in [Files -> Int]
         /\ owner' \in [Locks -> Owners]
         /\ taken' \in SUBSET Requests
         /\ apc' = "callback" /\ fault' = fault
<1>1. PICK q \in qs : \E G \in Groups(in, q) :
          /\ ProcessStep1(G, q) /\ taken' = G /\ Release(TakeLockIndex)
          /\ apc' = "callback" /\ UNCHANGED fault
  BY DEF TakeFrom
<1>2. PICK G \in Groups(in, q) :
          /\ ProcessStep1(G, q) /\ taken' = G /\ Release(TakeLockIndex)
          /\ apc' = "callback" /\ UNCHANGED fault
  BY <1>1
<1>3. G \in SUBSET Requests
  BY DEF Groups
<1>4. owner' \in [Locks -> Owners]
  BY <1>2, CallFacts DEF Release, StateTypeOK
<1> QED
  BY <1>2, <1>3, <1>4, ProcessStep1Type
-----------------------------------------------------------------------------
(* A step of Next is a step of one of these actions; the proofs below have *)
(* one case for each.                                                      *)
ClientAction(c) ==
  (Call(c) \/ ReadScheduler(c) \/ Lock(c) \/ Recheck(c)) /\ UNCHANGED threadVars
RequestAction(r) ==
  /\ \/ AddLink(r) \/ AddCount(r) \/ AddSignal(r) \/ AddNoop(r) \/ AddCallback(r)
     \/ CancelBody(r) \/ ReleaseBody(r)
  /\ UNCHANGED threadVars
ThreadAction == ThreadStep /\ UNCHANGED clientVars
ExitAction == Exit /\ UNCHANGED threadVars

LEMMA NextCases ==
  ASSUME [Next]_vars
  PROVE  \/ \E c \in Calls : ClientAction(c)
         \/ \E r \in Requests : RequestAction(r)
         \/ ThreadAction
         \/ ExitAction
         \/ UNCHANGED vars
<1>1. ASSUME NEW c \in Calls, ClientCall(c) PROVE ClientAction(c)
  BY <1>1 DEF ClientCall, ClientAction
<1>2. ASSUME NEW c \in Calls, ClientStep(c)
      PROVE  ClientAction(c) \/ RequestAction(c[2])
  BY <1>2 DEF ClientStep, CallStep, LockStep, AddStep, ClientAction, RequestAction
<1>3. AgiosThreadStep => ThreadAction
  BY DEF AgiosThreadStep, ThreadAction
<1>4. AgiosExit => ExitAction
  BY DEF AgiosExit, ExitAction
<1> QED
  BY <1>1, <1>2, <1>3, <1>4, CallFacts DEF Next, Terminated

-----------------------------------------------------------------------------
(* The initial states are typed.                                           *)
LEMMA InitTyped == Init => TypeOK
<1> SUFFICES ASSUME Init PROVE TypeOK
  OBVIOUS
<1>1. StateTypeOK
  <2>1. owner \in [Locks -> Owners] /\ place \in [Requests -> Places]
    BY CallFacts DEF Init, InitState, Places
  <2>2. /\ lineReqs \in [Lines -> Int] /\ fileReqs \in [Files -> Int]
        /\ handed \in [Requests -> Nat] /\ reqnb \in Int /\ filenb \in Int
    BY DEF Init, InitState
  <2>3. asleep \in BOOLEAN /\ stop \in BOOLEAN
    BY DEF Init, InitState
  <2> QED
    BY <2>1, <2>2, <2>3 DEF Init, InitState, StateTypeOK
<1>2. ClientTypeOK
  BY DEF Init, ClientInit, ClientTypeOK, ClientPCs
<1>3. ThreadTypeOK
  BY LockFacts DEF Init, ThreadInit, ThreadTypeOK, ThreadPCs, Timeline
<1> QED
  BY <1>1, <1>2, <1>3 DEF TypeOK

(* The steps by which a call gets its lock keep the types.                 *)
LEMMA ClientActionTyped ==
  ASSUME TypeOK, NEW c \in Calls, ClientAction(c) PROVE TypeOK'
<1>1. c[2] \in Requests /\ c \in Owners /\ Free \in Owners
  BY CallFacts
<1> USE <1>1 DEF TypeOK, StateTypeOK, ClientTypeOK, ThreadTypeOK, counters,
                 clientVars, threadVars, scan, stateVars, Goto, ClientPCs
<1>2. CASE Call(c)
  BY <1>2 DEF ClientAction, Call
<1>3. CASE ReadScheduler(c)
  BY <1>3 DEF ClientAction, ReadScheduler, NeedsHashtable
<1>4. CASE Lock(c)
  BY <1>4 DEF ClientAction, Lock, Acquire
<1>5. CASE Recheck(c)
  BY <1>5 DEF ClientAction, Recheck, Unlock, Release
<1> QED
  BY <1>2, <1>3, <1>4, <1>5 DEF ClientAction

(* So do the bodies of the three calls.                                    *)
LEMMA RequestActionTyped ==
  ASSUME TypeOK, NEW r \in Requests, RequestAction(r) PROVE TypeOK'
<1> USE DEF TypeOK, ClientTypeOK, ThreadTypeOK, counters, clientVars,
            threadVars, scan
<1>0. ThreadTypeOK'
  BY DEF RequestAction
<1>1. /\ FileOf[QueueOf[r]] \in Files /\ QueueOf[r] \in Queues
      /\ Line(r) \in Lines /\ Free \in Owners
  BY StateAssumption, LockFacts, CallFacts
<1>2. CASE AddLink(r)
  <2>1. StateTypeOK'
    BY <1>1, <1>2 DEF AddLink, StateTypeOK, Places, CountFile
  <2>2. ClientTypeOK'
    BY <1>2 DEF AddLink, Goto, ClientPCs
  <2> QED
    BY <1>0, <2>1, <2>2
<1>3. CASE AddCount(r)
  <2>1. StateTypeOK'
    BY <1>3 DEF AddCount, StateTypeOK
  <2>2. ClientTypeOK'
    BY <1>3 DEF AddCount, Goto, ClientPCs
  <2> QED
    BY <1>0, <2>1, <2>2
<1>4. CASE AddSignal(r)
  BY <1>1, <1>4 DEF RequestAction, AddSignal, StateTypeOK, Signal, Unlock,
                    Release, Return, Goto, ClientPCs
<1>5. CASE AddNoop(r)
  <2>1. /\ place' \in [Requests -> Places]
        /\ reqnb' \in Int /\ filenb' \in Int
        /\ lineReqs' \in [Lines -> Int] /\ fileReqs' \in [Files -> Int]
    BY <1>1, <1>5, ProcessStep1Type DEF AddNoop
  <2> QED
    BY <1>1, <1>5, <2>1 DEF RequestAction, AddNoop, StateTypeOK, Unlock,
                            Release, Return, Goto, ClientPCs
<1>6. CASE AddCallback(r)
  <2>1. StateTypeOK'
    BY <1>6 DEF AddCallback, ProcessStep2, StateTypeOK
  <2>2. ClientTypeOK'
    BY <1>6 DEF AddCallback, Goto, ClientPCs
  <2> QED
    BY <1>0, <2>1, <2>2
<1>7. CASE CancelBody(r)
  <2>1. /\ place' \in [Requests -> Places]
        /\ reqnb' \in Int /\ filenb' \in Int
        /\ lineReqs' \in [Lines -> Int] /\ fileReqs' \in [Files -> Int]
    <3>1. CASE UNCHANGED <<place, counters>>
      BY <3>1 DEF StateTypeOK
    <3>2. CASE \E x \in CancelMatches(r) :
                 /\ place' = [place EXCEPT ![x] = "cancelled"]
                 /\ Uncount(FileOf[QueueOf[x]], Line(r), 1)
      <4>1. PICK x \in Requests :
                 /\ place' = [place EXCEPT ![x] = "cancelled"]
                 /\ Uncount(FileOf[QueueOf[x]], Line(r), 1)
        BY <3>2 DEF CancelMatches
      <4>2. FileOf[QueueOf[x]] \in Files
        BY StateAssumption
      <4>3. place' \in [Requests -> Places]
        BY <4>1 DEF StateTypeOK, Places
      <4> QED
        BY <1>1, <4>1, <4>2, <4>3, UncountType
    <3> QED
      BY <1>7, <3>1, <3>2 DEF CancelBody
  <2> QED
    BY <1>1, <1>7, <2>1 DEF RequestAction, CancelBody, StateTypeOK, Unlock,
                            Release, Return, Goto, ClientPCs
<1>8. CASE ReleaseBody(r)
  <2>1. place' \in [Requests -> Places]
    BY <1>8 DEF ReleaseBody, StateTypeOK, Places
  <2> QED
    BY <1>1, <1>8, <2>1 DEF RequestAction, ReleaseBody, StateTypeOK, Unlock,
                            Release, Return, Goto, ClientPCs
<1> QED
  BY <1>2, <1>3, <1>4, <1>5, <1>6, <1>7, <1>8 DEF RequestAction

(* So does every step of the agios thread.                                 *)
LEMMA ThreadActionTyped ==
  ASSUME TypeOK, ThreadAction PROVE TypeOK'
<1> USE CallFacts DEF TypeOK, StateTypeOK, ClientTypeOK, ThreadTypeOK,
                      ThreadAction, clientVars, counters, scan, stateVars
<1>1. NLines \in Nat /\ NLines >= 1 /\ Locks = 0..NLines /\ Lines = 1..NLines
  BY StateAssumption DEF Locks, Lines
<1>2. CASE ChooseScheduler
  BY <1>1, <1>2, AlgAssumption DEF ChooseScheduler, ThreadPCs
<1>3. CASE UnlockAll
  BY <1>1, <1>3 DEF UnlockAll, Release, ThreadPCs
<1>4. CASE Loop
  BY <1>1, <1>4 DEF Loop, ThreadPCs
<1>5. CASE LockAll
  BY <1>1, <1>5 DEF LockAll, Acquire, ThreadPCs
<1>6. CASE Switch
  BY <1>1, <1>6, AlgAssumption DEF Switch, ThreadPCs
<1>7. CASE Migrate
  BY <1>1, <1>7 DEF Migrate, ThreadPCs, Places
<1>8. CASE Check
  BY <1>8 DEF Check, ThreadPCs
<1>9. CASE Test
  BY <1>1, <1>9, CountFacts DEF Test, ThreadPCs
<1>10. CASE ScanLock
  BY <1>10 DEF ScanLock, Acquire, ThreadPCs
<1>11. CASE Scan
  <2>1. CASE \A f \in FilesOnLine(k) : Sane(f)
    <3>1. Cardinality(FilesOnLine(k)) \in Nat
      BY StateAssumption, FS_Subset, FS_CardinalityType DEF FilesOnLine
    <3>2. chosen' \in Queues \cup {NoQueue} /\ minSize' \in Int
      BY <1>11, <2>1, CountFacts DEF Scan, Shortest, Shorter
    <3>3. /\ evaluated' = evaluated + Cardinality(FilesOnLine(k))
          /\ owner' = [owner EXCEPT ![k] = Free]
          /\ apc' = "scan_next"
          /\ UNCHANGED <<alg, place, reqnb, filenb, lineReqs, fileReqs, handed,
                         asleep, stop, fault, k, taken, pc, need>>
      BY <1>11, <2>1 DEF Scan, Release
    <3>4. apc' \in ThreadPCs
      BY <3>3 DEF ThreadPCs
    <3> QED
      BY <3>1, <3>2, <3>3, <3>4
  <2>2. CASE ~ \A f \in FilesOnLine(k) : Sane(f)
    BY <1>11, <2>2 DEF Scan
  <2> QED
    BY <2>1, <2>2
<1>12. CASE ScanNext
  BY <1>1, <1>12 DEF ScanNext, ThreadPCs
<1>13. CASE TakeLock
  BY <1>13 DEF TakeLock, Acquire, ThreadPCs
<1>14. CASE TakeTO
  <2>1. CASE TakeFrom("timeline", Queues)
    BY <1>14, <2>1, TakeFromType DEF TakeTO, ThreadPCs
  <2>2. CASE ~ TakeFrom("timeline", Queues)
    BY <1>14, <2>2 DEF TakeTO
  <2> QED
    BY <2>1, <2>2
<1>15. CASE TakeSJF
  <2>1. CASE TakeFrom("hashtable", {chosen})
    <3>1. chosen \in Queues
      BY <2>1, StateAssumption DEF TakeFrom, Groups
    <3>2. {chosen} \in SUBSET Queues
      BY <3>1
    <3>3. UNCHANGED <<alg, handed, asleep, stop, k>>
      BY <1>15 DEF TakeSJF
    <3>4. chosen' \in Queues \cup {NoQueue} /\ minSize' \in Int /\ evaluated' \in Int
      BY <1>15 DEF TakeSJF
    <3> QED
      BY <2>1, <3>2, <3>3, <3>4, TakeFromType DEF ThreadPCs
  <2>2. CASE ~ TakeFrom("hashtable", {chosen})
    BY <1>15, <2>2 DEF TakeSJF
  <2> QED
    BY <2>1, <2>2
<1>16. CASE TakeNOOP
  <2>1. CASE TakeFrom("timeline", Queues)
    BY <1>16, <2>1, TakeFromType DEF TakeNOOP, ThreadPCs
  <2>2. CASE ~ TakeFrom("timeline", Queues)
    BY <1>16, <2>2 DEF TakeNOOP, Release, ThreadPCs
  <2> QED
    BY <2>1, <2>2
<1>17. CASE CallBack
  <2>1. taken' \in SUBSET Requests /\ handed' \in [Requests -> Nat]
    BY <1>17 DEF CallBack, ProcessStep2
  <2>2. apc' \in ThreadPCs
    BY <1>17 DEF CallBack, ThreadPCs
  <2> QED
    BY <1>17, <2>1, <2>2 DEF CallBack
<1>18. CASE SleepStep
  BY <1>18 DEF SleepStep, FallAsleep, Woken, Timeout, ThreadPCs
<1>19. CASE LoopEnd
  BY <1>19 DEF LoopEnd, ThreadPCs
<1> QED
  BY <1>2, <1>3, <1>4, <1>5, <1>6, <1>7, <1>8, <1>9, <1>10, <1>11, <1>12,
     <1>13, <1>14, <1>15, <1>16, <1>17, <1>18, <1>19
     DEF ThreadStep, ChangeStep, ScheduleStep

(* A step of the program, or none, keeps the types.                        *)
LEMMA NextTyped == TypeOK /\ [Next]_vars => TypeOK'
<1> SUFFICES ASSUME TypeOK, [Next]_vars PROVE TypeOK'
  OBVIOUS
<1>1. ExitAction => TypeOK'
  BY DEF ExitAction, Exit, TypeOK, StateTypeOK, ClientTypeOK, ThreadTypeOK,
         Signal, counters, clientVars, threadVars, scan
<1>2. UNCHANGED vars => TypeOK'
  BY DEF TypeOK, StateTypeOK, ClientTypeOK, ThreadTypeOK, vars, stateVars,
         counters, clientVars, threadVars, scan
<1> QED
  BY <1>1, <1>2, NextCases, ClientActionTyped, RequestActionTyped,
     ThreadActionTyped

(* Every variable of every client thread and of the agios thread keeps its *)
(* type, however many requests, files and lines there are.                 *)
THEOREM TypeCorrect == Spec => []TypeOK
BY InitTyped, NextTyped, PTL DEF Spec

-----------------------------------------------------------------------------
(* The locks.                                                              *)

(* The lock a call asks for is a lock, and calls are not the thread.       *)
LEMMA CallLockFacts ==
  ASSUME TypeOK, NEW c \in Calls
  PROVE  /\ LockFor(c[2], need[c]) \in Locks
         /\ c # Thread /\ c # Free
BY CallFacts, LockFacts, NamesAssumption DEF TypeOK, ClientTypeOK

(* A call that ends its work and unlocks disturbs nobody else's locks.     *)
LEMMA UnlockKeepsLockInv ==
  ASSUME TypeOK, LockInv, NEW c \in Calls, HoldsLock(c), Unlock(c),
         NEW label \in {"read", "callback", "done", "failed"}, Goto(c, label),
         \A d \in Calls : d # c => need'[d] = need[d],
         UNCHANGED <<alg, threadVars>>
  PROVE  LockInv'
<1> DEFINE l == LockFor(c[2], need[c])
<1>1. /\ l \in Locks /\ owner[l] = c /\ c # Thread
      /\ owner' = [owner EXCEPT ![l] = Free]
  BY CallLockFacts DEF LockInv, CallLocks, Unlock, Release
<1>2. \A m \in Locks : owner[m] = Thread => owner'[m] = Thread
  BY <1>1 DEF TypeOK, StateTypeOK
<1>3. UNCHANGED <<alg, apc, k, chosen>>
  BY DEF threadVars, scan
<1>4. TakeLockIndex' = TakeLockIndex
  BY <1>3 DEF TakeLockIndex
<1>5. apc = "take" => TakeLockIndex \in Locks
  BY LockFacts DEF LockInv, ThreadLocks, TakeLockIndex, NeedsHashtable
<1>6. Lines \subseteq Locks /\ Timeline \in Locks
  BY LockFacts
<1>7. ThreadLocks'
  BY <1>2, <1>3, <1>4, <1>5, <1>6 DEF LockInv, ThreadLocks, HoldsAll
<1>8. ASSUME NEW d \in Calls
      PROVE  /\ HoldsLock(d)' => owner'[LockFor(d[2], need'[d])] = d
             /\ InBody(d)' => need'[d] = NeedsHashtable(alg)
  <2>1. CASE d = c
    BY <2>1 DEF Goto, HoldsLock, InBody, TypeOK, ClientTypeOK
  <2>2. CASE d # c
    <3>1. pc'[d] = pc[d] /\ need'[d] = need[d]
      BY <2>2 DEF Goto, TypeOK, ClientTypeOK
    <3>2. HoldsLock(d) => owner[LockFor(d[2], need[d])] = d
      BY DEF LockInv, CallLocks
    <3>3. HoldsLock(d) => owner'[LockFor(d[2], need[d])] = d
      BY <1>1, <2>2, <3>2, CallLockFacts DEF TypeOK, StateTypeOK
    <3> QED
      BY <3>1, <3>3 DEF LockInv, CallLocks, HoldsLock, InBody
  <2> QED
    BY <2>1, <2>2
<1>9. CallLocks'
  BY <1>3, <1>8 DEF CallLocks, LockFor, HoldsLock, InBody, NeedsHashtable
<1> QED
  BY <1>7, <1>9 DEF LockInv

(* A call that moves on and touches no lock.                               *)
LEMMA GotoKeepsLockInv ==
  ASSUME TypeOK, LockInv, NEW c \in Calls, NEW label, Goto(c, label),
         label = "check" => HoldsLock(c),
         label \in {"body", "count", "finish"} =>
           HoldsLock(c) /\ need[c] = NeedsHashtable(alg),
         HoldsLock(c) => need'[c] = need[c],
         \A d \in Calls : d # c => need'[d] = need[d],
         UNCHANGED <<alg, owner, threadVars>>
  PROVE  LockInv'
<1>1. UNCHANGED <<alg, owner, apc, k, chosen>>
  BY DEF threadVars, scan
<1>2. ThreadLocks'
  BY <1>1 DEF LockInv, ThreadLocks, HoldsAll, TakeLockIndex
<1>3. ASSUME NEW d \in Calls
      PROVE  /\ HoldsLock(d)' => owner'[LockFor(d[2], need'[d])] = d
             /\ InBody(d)' => need'[d] = NeedsHashtable(alg)
  <2>1. CASE d = c
    <3>1. pc'[c] = label
      BY DEF Goto, TypeOK, ClientTypeOK
    <3>2. HoldsLock(c)' => HoldsLock(c)
      BY <3>1 DEF HoldsLock, InBody
    <3>3. HoldsLock(c) => owner[LockFor(c[2], need[c])] = c
      BY DEF LockInv, CallLocks
    <3> QED
      BY <1>1, <2>1, <3>1, <3>2, <3>3 DEF InBody
  <2>2. CASE d # c
    <3>1. pc'[d] = pc[d] /\ need'[d] = need[d]
      BY <2>2 DEF Goto, TypeOK, ClientTypeOK
    <3> QED
      BY <1>1, <3>1 DEF LockInv, CallLocks, HoldsLock, InBody
  <2> QED
    BY <2>1, <2>2
<1>4. CallLocks'
  BY <1>1, <1>3 DEF CallLocks, LockFor, HoldsLock, InBody, NeedsHashtable
<1> QED
  BY <1>2, <1>4 DEF LockInv

-----------------------------------------------------------------------------
(* The steps that acquire a lock for a call.                               *)
LEMMA ClientActionLocks ==
  ASSUME TypeOK, LockInv, NEW c \in Calls, ClientAction(c)
  PROVE  LockInv'
<1>1. CASE Call(c)
  BY <1>1, GotoKeepsLockInv
     DEF ClientAction, Call, MayCall, stateVars, HoldsLock, InBody
<1>2. CASE ReadScheduler(c)
  <2>1. CASE alg = NoAlg
    BY <1>2, <2>1 DEF ReadScheduler, ClientAction, LockInv, ThreadLocks,
       CallLocks, HoldsLock, InBody, HoldsAll, TakeLockIndex, clientVars,
       threadVars, scan
  <2>2. CASE alg # NoAlg
    <3>1. /\ Goto(c, "lock") /\ ~HoldsLock(c)
          /\ \A d \in Calls : d # c => need'[d] = need[d]
          /\ UNCHANGED <<alg, owner, threadVars>>
      BY <1>2, <2>2
         DEF ReadScheduler, ClientAction, HoldsLock, InBody, TypeOK, ClientTypeOK
    <3> QED
      BY <3>1, GotoKeepsLockInv
  <2> QED
    BY <2>1, <2>2
<1>3. CASE Lock(c)
  <2> DEFINE l == LockFor(c[2], need[c])
  <2>1. /\ l \in Locks /\ owner[l] = Free /\ owner' = [owner EXCEPT ![l] = c]
        /\ pc[c] = "lock" /\ Goto(c, "check")
        /\ UNCHANGED <<alg, need, apc, k, chosen>>
    BY <1>3, CallLockFacts DEF Lock, Acquire, ClientAction, threadVars, scan
  <2>2. \A m \in Locks : owner[m] = Thread => owner'[m] = Thread
    BY <2>1, NamesAssumption DEF TypeOK, StateTypeOK
  <2>3. apc = "take" => TakeLockIndex \in Locks
    BY LockFacts DEF LockInv, ThreadLocks, TakeLockIndex, NeedsHashtable
  <2>4. ThreadLocks'
    BY <2>1, <2>2, <2>3, LockFacts
       DEF LockInv, ThreadLocks, HoldsAll, TakeLockIndex
  <2>5. ASSUME NEW d \in Calls
        PROVE  /\ HoldsLock(d)' => owner'[LockFor(d[2], need'[d])] = d
               /\ InBody(d)' => need'[d] = NeedsHashtable(alg)
    <3>1. CASE d = c
      BY <2>1, <3>1 DEF Goto, InBody, TypeOK, StateTypeOK, ClientTypeOK
    <3>2. CASE d # c
      <4>1. pc'[d] = pc[d] /\ need'[d] = need[d]
        BY <2>1, <3>2 DEF Goto, TypeOK, ClientTypeOK
      <4>2. HoldsLock(d) => owner[LockFor(d[2], need[d])] = d
        BY DEF LockInv, CallLocks
      <4>3. HoldsLock(d) => owner'[LockFor(d[2], need[d])] = d
        BY <2>1, <4>2, CallLockFacts DEF TypeOK, StateTypeOK
      <4> QED
        BY <4>1, <4>3 DEF LockInv, CallLocks, HoldsLock, InBody
    <3> QED
      BY <3>1, <3>2
  <2>6. CallLocks'
    BY <2>1, <2>5 DEF CallLocks, LockFor, HoldsLock, InBody, NeedsHashtable
  <2> QED
    BY <2>4, <2>6 DEF LockInv
<1>4. CASE Recheck(c)
  <2>1. HoldsLock(c) /\ UNCHANGED <<alg, need, threadVars>>
    BY <1>4 DEF Recheck, HoldsLock, ClientAction
  <2>2. CASE need[c] # NeedsHashtable(alg)
    BY <1>4, <2>1, <2>2, UnlockKeepsLockInv DEF Recheck
  <2>3. CASE need[c] = NeedsHashtable(alg)
    BY <1>4, <2>1, <2>3, GotoKeepsLockInv DEF Recheck
  <2> QED
    BY <2>2, <2>3
<1> QED
  BY <1>1, <1>2, <1>3, <1>4 DEF ClientAction

(* The bodies of the calls, up to and including their unlock.              *)
LEMMA RequestActionLocks ==
  ASSUME TypeOK, LockInv, NEW r \in Requests, RequestAction(r)
  PROVE  LockInv'
<1> USE CallFacts
<1>0. UNCHANGED threadVars
  BY DEF RequestAction
<1>1. CASE AddLink(r)
  <2>1. pc[<<"add", r>>] = "body" /\ Goto(<<"add", r>>, "count")
        /\ UNCHANGED <<alg, owner, need>>
    BY <1>1 DEF AddLink
  <2>2. need[<<"add", r>>] = NeedsHashtable(alg) /\ HoldsLock(<<"add", r>>)
    BY <2>1 DEF LockInv, CallLocks, HoldsLock, InBody
  <2> QED
    BY <1>0, <2>1, <2>2, GotoKeepsLockInv
<1>2. CASE AddCount(r)
  <2>1. pc[<<"add", r>>] = "count" /\ Goto(<<"add", r>>, "finish")
        /\ UNCHANGED <<alg, owner, need>>
    BY <1>2 DEF AddCount
  <2>2. need[<<"add", r>>] = NeedsHashtable(alg) /\ HoldsLock(<<"add", r>>)
    BY <2>1 DEF LockInv, CallLocks, HoldsLock, InBody
  <2> QED
    BY <1>0, <2>1, <2>2, GotoKeepsLockInv
<1>3. CASE AddSignal(r)
  <2>1. /\ HoldsLock(<<"add", r>>) /\ Unlock(<<"add", r>>)
        /\ Goto(<<"add", r>>, "done") /\ UNCHANGED alg
        /\ \A d \in Calls : d # <<"add", r>> => need'[d] = need[d]
    BY <1>3 DEF AddSignal, HoldsLock, InBody, Return, TypeOK, ClientTypeOK
  <2> QED
    BY <1>0, <2>1, UnlockKeepsLockInv
<1>4. CASE AddNoop(r)
  <2>1. /\ HoldsLock(<<"add", r>>) /\ Unlock(<<"add", r>>)
        /\ Goto(<<"add", r>>, "callback") /\ UNCHANGED alg
        /\ \A d \in Calls : d # <<"add", r>> => need'[d] = need[d]
    BY <1>4 DEF AddNoop, HoldsLock, InBody, Return, TypeOK, ClientTypeOK
  <2> QED
    BY <1>0, <2>1, UnlockKeepsLockInv
<1>5. CASE AddCallback(r)
  <2>1. Goto(<<"add", r>>, "done") /\ UNCHANGED <<alg, owner, need>>
    BY <1>5 DEF AddCallback
  <2> QED
    BY <1>0, <2>1, GotoKeepsLockInv
<1>6. CASE CancelBody(r)
  <2>1. /\ HoldsLock(<<"cancel", r>>) /\ Unlock(<<"cancel", r>>)
        /\ Goto(<<"cancel", r>>, "done") /\ UNCHANGED alg
        /\ \A d \in Calls : d # <<"cancel", r>> => need'[d] = need[d]
    BY <1>6 DEF CancelBody, HoldsLock, InBody, Return, TypeOK, ClientTypeOK
  <2> QED
    BY <1>0, <2>1, UnlockKeepsLockInv
<1>7. CASE ReleaseBody(r)
  <2>1. /\ HoldsLock(<<"release", r>>) /\ Unlock(<<"release", r>>)
        /\ UNCHANGED alg
        /\ Goto(<<"release", r>>, "done") \/ Goto(<<"release", r>>, "failed")
        /\ \A d \in Calls : d # <<"release", r>> => need'[d] = need[d]
    BY <1>7 DEF ReleaseBody, HoldsLock, InBody, Return, TypeOK, ClientTypeOK
  <2> QED
    BY <1>0, <2>1, UnlockKeepsLockInv
<1> QED
  BY <1>1, <1>2, <1>3, <1>4, <1>5, <1>6, <1>7 DEF RequestAction
-----------------------------------------------------------------------------
(* A thread step that takes no lock away from a call.                      *)
LEMMA ThreadKeepsCallLocks ==
  ASSUME TypeOK, CallLocks, UNCHANGED <<alg, clientVars>>,
         \A l \in Locks, c \in Calls : owner[l] = c => owner'[l] = c
  PROVE  CallLocks'
<1>1. UNCHANGED <<alg, pc, need>>
  BY DEF clientVars
<1> QED
  BY <1>1, CallLockFacts DEF CallLocks, HoldsLock, InBody, LockFor, NeedsHashtable

(* The thread acquires a free lock, or releases one of its own.            *)
LEMMA ThreadLockMove ==
  ASSUME TypeOK, NEW l \in Locks,
         \/ owner[l] = Free /\ owner' = [owner EXCEPT ![l] = Thread]
         \/ owner[l] = Thread /\ owner' = [owner EXCEPT ![l] = Free]
         \/ owner' = owner
  PROVE  \A m \in Locks, c \in Calls : owner[m] = c => owner'[m] = c
BY NamesAssumption DEF TypeOK, StateTypeOK

(* While the thread holds every lock no call holds one, so the scheduler   *)
(* may change under nobody.                                                *)
LEMMA AllHeldNoBody ==
  ASSUME TypeOK, LockInv, HoldsAll
  PROVE  \A c \in Calls : ~HoldsLock(c)
BY CallLockFacts DEF LockInv, ThreadLocks, CallLocks

LEMMA TakeLockIsLock ==
  ASSUME LockInv, apc \in {"take_lock", "take"}
  PROVE  TakeLockIndex \in Locks
<1>1. CASE NeedsHashtable(alg)
  BY <1>1, LockFacts DEF LockInv, ThreadLocks, NeedsHashtable, TakeLockIndex
<1>2. CASE ~NeedsHashtable(alg)
  BY <1>2, LockFacts DEF TakeLockIndex
<1> QED
  BY <1>1, <1>2

(* Taking a group ends with the unlock of the lock it was taken under.     *)
LEMMA TakeFromLocks ==
  ASSUME NEW in, NEW qs, TakeFrom(in, qs)
  PROVE  owner' = [owner EXCEPT ![TakeLockIndex] = Free] /\ apc' = "callback"
BY DEF TakeFrom, Release

(* Every step of the agios thread keeps the locking discipline.            *)
LEMMA ThreadActionLocks ==
  ASSUME TypeOK, LockInv, ThreadAction
  PROVE  LockInv'
<1> USE DEF ThreadAction
<1>0. /\ NLines \in Nat /\ NLines >= 1
      /\ Locks = 0..NLines /\ Lines = 1..NLines /\ Timeline = 0
      /\ k \in Locks /\ alg \in Algorithms \cup {NoAlg}
      /\ DOMAIN owner = Locks
  BY StateAssumption DEF Locks, Lines, Timeline, TypeOK, StateTypeOK, ThreadTypeOK
<1>1. CASE ChooseScheduler
  <2>1. ThreadLocks'
    BY <1>0, <1>1, AlgAssumption
       DEF ChooseScheduler, LockInv, ThreadLocks, HoldsAll, Algorithms, NoAlg
  <2>2. \A c \in Calls : ~HoldsLock(c)
    BY <1>1, AllHeldNoBody DEF ChooseScheduler, HoldsAll
  <2>3. CallLocks'
    BY <1>1, <2>2 DEF CallLocks, HoldsLock, InBody, clientVars
  <2> QED
    BY <2>1, <2>3 DEF LockInv
<1>2. CASE UnlockAll
  <2>1. owner[k] = Thread /\ owner' = [owner EXCEPT ![k] = Free]
    BY <1>0, <1>2 DEF UnlockAll, Release, LockInv, ThreadLocks
  <2>2. CallLocks'
    BY <1>0, <1>2, <2>1, ThreadLockMove, ThreadKeepsCallLocks
       DEF UnlockAll, LockInv, clientVars
  <2>3. ThreadLocks'
    BY <1>0, <1>2, <2>1
       DEF UnlockAll, LockInv, ThreadLocks, HoldsAll, TakeLockIndex
  <2> QED
    BY <2>2, <2>3 DEF LockInv
<1>3. CASE LockAll
  <2>1. owner[k] = Free /\ owner' = [owner EXCEPT ![k] = Thread]
    BY <1>3 DEF LockAll, Acquire
  <2>2. CallLocks'
    BY <1>0, <1>3, <2>1, ThreadLockMove, ThreadKeepsCallLocks
       DEF LockAll, LockInv, clientVars
  <2>3. ThreadLocks'
    BY <1>0, <1>3, <2>1
       DEF LockAll, LockInv, ThreadLocks, HoldsAll, TakeLockIndex
  <2> QED
    BY <2>2, <2>3 DEF LockInv
<1>4. CASE Switch
  <2>1. ThreadLocks'
    BY <1>0, <1>4, AlgAssumption
       DEF Switch, LockInv, ThreadLocks, HoldsAll, Algorithms, NoAlg
  <2>2. \A c \in Calls : ~HoldsLock(c)
    BY <1>4, AllHeldNoBody DEF Switch, HoldsAll
  <2>3. CallLocks'
    BY <1>4, <2>2 DEF CallLocks, HoldsLock, InBody, clientVars
  <2> QED
    BY <2>1, <2>3 DEF LockInv
<1>5. CASE Migrate
  <2>1. ThreadLocks'
    BY <1>0, <1>5 DEF Migrate, LockInv, ThreadLocks, HoldsAll
  <2>2. CallLocks'
    BY <1>5, ThreadKeepsCallLocks DEF Migrate, LockInv
  <2> QED
    BY <2>1, <2>2 DEF LockInv
<1>6. CASE Loop \/ Check \/ Test \/ FallAsleep \/ Woken \/ Timeout \/ LoopEnd
           \/ CallBack
  <2>1. UNCHANGED <<alg, owner, clientVars>>
    BY <1>6 DEF Loop, Check, Test, FallAsleep, Woken, Timeout, LoopEnd,
                CallBack, stateVars
  <2>2. CallLocks'
    BY <2>1, ThreadKeepsCallLocks DEF LockInv
  <2>3. apc # "init"
    BY <1>6 DEF Loop, Check, Test, FallAsleep, Woken, Timeout, LoopEnd, CallBack
  <2>4. apc' \in {"lock_all", "check", "presleep", "take_lock", "test",
                  "loop_end", "scan_lock", "asleep", "ended", "loop",
                  "callback"}
    BY <1>6 DEF Loop, Check, Test, FallAsleep, Woken, Timeout, LoopEnd, CallBack
  <2>5. apc' = "lock_all" => k' = 0
    BY <1>6 DEF Loop, Check, Test, FallAsleep, Woken, Timeout, LoopEnd, CallBack
  <2>6. apc' = "scan_lock" => k' = 1
    BY <1>6 DEF Loop, Check, Test, FallAsleep, Woken, Timeout, LoopEnd, CallBack
  <2>7. apc' = "take_lock" => alg # "SJF"
    BY <1>6 DEF Loop, Check, Test, FallAsleep, Woken, Timeout, LoopEnd, CallBack
  <2>8. ThreadLocks'
    BY <1>0, <2>1, <2>3, <2>4, <2>5, <2>6, <2>7
       DEF LockInv, ThreadLocks, HoldsAll
  <2> QED
    BY <2>2, <2>8 DEF LockInv
<1>7. CASE ScanLock
  <2>1. owner[k] = Free /\ owner' = [owner EXCEPT ![k] = Thread]
    BY <1>7 DEF ScanLock, Acquire
  <2>2. CallLocks'
    BY <1>0, <1>7, <2>1, ThreadLockMove, ThreadKeepsCallLocks
       DEF ScanLock, LockInv, clientVars
  <2>3. ThreadLocks'
    BY <1>0, <1>7, <2>1 DEF ScanLock, LockInv, ThreadLocks, HoldsAll
  <2> QED
    BY <2>2, <2>3 DEF LockInv
<1>8. CASE Scan
  <2>1. owner[k] = Thread /\ k \in Lines /\ k' = k /\ alg' = alg
    BY <1>8 DEF Scan, LockInv, ThreadLocks
  <2>2. \/ apc' = "scan_next" /\ owner' = [owner EXCEPT ![k] = Free]
        \/ apc' = "scan" /\ owner' = owner
    BY <1>8 DEF Scan, Release
  <2>3. CallLocks'
    BY <1>0, <2>1, <2>2, ThreadLockMove, ThreadKeepsCallLocks
       DEF LockInv, clientVars
  <2>4. ThreadLocks'
    BY <1>0, <1>8, <2>1, <2>2 DEF Scan, LockInv, ThreadLocks, HoldsAll
  <2> QED
    BY <2>3, <2>4 DEF LockInv
<1>9. CASE ScanNext
  <2>1. CallLocks'
    BY <1>9, ThreadKeepsCallLocks DEF ScanNext, LockInv, stateVars
  <2>2. chosen' = chosen /\ alg' = alg /\ apc = "scan_next"
    BY <1>9 DEF ScanNext, scan, stateVars
  <2>3. \/ apc' = "scan_lock" /\ k < NLines /\ k' = k + 1
        \/ apc' = "test"
        \/ apc' = "take_lock" /\ chosen # NoQueue
    BY <1>9 DEF ScanNext
  <2>4. ThreadLocks'
    BY <1>0, <2>2, <2>3
       DEF LockInv, ThreadLocks, HoldsAll, TypeOK, ThreadTypeOK
  <2> QED
    BY <2>1, <2>4 DEF LockInv
<1>10. CASE TakeLock
  <2>1. /\ owner[TakeLockIndex] = Free
        /\ owner' = [owner EXCEPT ![TakeLockIndex] = Thread]
    BY <1>10 DEF TakeLock, Acquire
  <2>2. TakeLockIndex \in Locks
    BY <1>10, TakeLockIsLock DEF TakeLock
  <2>3. CallLocks'
    BY <1>10, <2>1, <2>2, ThreadLockMove, ThreadKeepsCallLocks
       DEF TakeLock, LockInv
  <2>4. ThreadLocks'
    BY <1>0, <1>10, <2>1, <2>2
       DEF TakeLock, LockInv, ThreadLocks, HoldsAll, TakeLockIndex, scan
  <2> QED
    BY <2>3, <2>4 DEF LockInv
<1>11. CASE TakeTO \/ TakeSJF \/ TakeNOOP
  <2>1. apc = "take" /\ UNCHANGED <<alg, k, clientVars>>
    BY <1>11 DEF TakeTO, TakeSJF, TakeNOOP
  <2>2. TakeLockIndex \in Locks /\ owner[TakeLockIndex] = Thread
    BY <2>1, TakeLockIsLock DEF LockInv, ThreadLocks
  <2>3. \/ /\ owner' = [owner EXCEPT ![TakeLockIndex] = Free]
           /\ apc' \in {"callback", "loop_end"}
        \/ UNCHANGED <<owner, apc, chosen>>
    <3>1. CASE TakeTO
      BY <3>1, TakeFromLocks DEF TakeTO, scan
    <3>2. CASE TakeSJF
      BY <3>2, TakeFromLocks DEF TakeSJF, scan
    <3>3. CASE TakeNOOP
      BY <3>3, TakeFromLocks DEF TakeNOOP, Release, TakeLockIndex, NeedsHashtable
    <3> QED
      BY <1>11, <3>1, <3>2, <3>3
  <2>4. CallLocks'
    BY <2>1, <2>2, <2>3, ThreadLockMove, ThreadKeepsCallLocks DEF LockInv
  <2>5. ThreadLocks'
    BY <1>0, <2>1, <2>2, <2>3
       DEF LockInv, ThreadLocks, HoldsAll, TakeLockIndex
  <2> QED
    BY <2>4, <2>5 DEF LockInv
<1> QED
  BY <1>1, <1>2, <1>3, <1>4, <1>5, <1>6, <1>7, <1>8, <1>9, <1>10, <1>11
     DEF ThreadStep, ChangeStep, ScheduleStep, SleepStep

-----------------------------------------------------------------------------
LEMMA InitLocks == Init => LockInv
<1> SUFFICES ASSUME Init PROVE LockInv
  OBVIOUS
<1>1. ThreadLocks
  BY LockFacts DEF Init, InitState, ThreadInit, ThreadLocks, HoldsAll
<1>2. CallLocks
  BY DEF Init, ClientInit, CallLocks, HoldsLock, InBody
<1> QED
  BY <1>1, <1>2 DEF LockInv

LEMMA NextLocks == TypeOK /\ LockInv /\ [Next]_vars => LockInv'
<1> SUFFICES ASSUME TypeOK, LockInv, [Next]_vars PROVE LockInv'
  OBVIOUS
<1>1. CASE ExitAction \/ UNCHANGED vars
  <2>1. UNCHANGED <<alg, owner, pc, need, apc, k, chosen>>
    BY <1>1 DEF ExitAction, Exit, vars, stateVars, clientVars, threadVars, scan
  <2> QED
    BY <2>1 DEF LockInv, ThreadLocks, CallLocks, HoldsAll, HoldsLock, InBody,
                TakeLockIndex, LockFor, NeedsHashtable
<1> QED
  BY <1>1, NextCases, ClientActionLocks, RequestActionLocks, ThreadActionLocks

(* The locking discipline is an invariant of every instance.               *)
THEOREM LockingCorrect == Spec => []LockInv
<1>1. TypeOK /\ LockInv /\ [Next]_vars => TypeOK' /\ LockInv'
  BY NextTyped, NextLocks
<1> QED
  BY <1>1, InitTyped, InitLocks, PTL DEF Spec

(* Whoever works on queued requests (a call past its recheck, a scan or a  *)
(* dispatch of the thread, a change of scheduler) holds the lock of the    *)
(* structure that the current scheduler uses.                              *)
THEOREM AdequateLocking == Spec => []AdequateLockHeld
<1>1. LockInv => AdequateLockHeld
  BY DEF LockInv, ThreadLocks, CallLocks, AdequateLockHeld, AdequateLock,
         HoldsLock
<1> QED
  BY <1>1, LockingCorrect, PTL

(* The scheduler never changes under a call that is past its recheck: what *)
(* acquire_adequate_lock says of the lock it returns with.                 *)
THEOREM StableScheduler == Spec => SchedulerStable
<1>1. ASSUME TypeOK, LockInv, [Next]_vars, alg' # alg, NEW c \in Calls
      PROVE  ~InBody(c) /\ ~InBody(c)'
  <2>1. ThreadAction
    <3>1. ASSUME NEW d \in Calls, ClientAction(d) PROVE alg' = alg
      BY <3>1 DEF ClientAction, Call, ReadScheduler, Lock, Recheck, stateVars
    <3>2. ASSUME NEW r \in Requests, RequestAction(r) PROVE alg' = alg
      BY <3>2 DEF RequestAction, AddLink, AddCount, AddSignal, AddNoop,
                  AddCallback, CancelBody, ReleaseBody
    <3>3. ExitAction \/ UNCHANGED vars => alg' = alg
      BY DEF ExitAction, Exit, vars, stateVars
    <3> QED
      BY <1>1, <3>1, <3>2, <3>3, NextCases
  <2>2. ChooseScheduler \/ Switch
    BY <1>1, <2>1
       DEF ThreadAction, ThreadStep, ChangeStep, ScheduleStep, SleepStep,
           UnlockAll, Loop, LockAll, Migrate, Check, Test, ScanLock, Scan,
           ScanNext, TakeLock, TakeTO, TakeSJF, TakeNOOP, CallBack, FallAsleep,
           Woken, Timeout, LoopEnd, stateVars
  <2>3. HoldsAll
    BY <2>2 DEF ChooseScheduler, Switch, HoldsAll
  <2>4. ~HoldsLock(c)
    BY <1>1, <2>3, AllHeldNoBody
  <2> QED
    BY <2>1, <2>4 DEF ThreadAction, clientVars, HoldsLock, InBody
<1>2. TypeOK /\ LockInv /\ [Next]_vars =>
        [alg' # alg => \A c \in Calls : ~InBody(c) /\ ~InBody(c)']_vars
  BY <1>1
<1> QED
  BY <1>2, TypeCorrect, LockingCorrect, PTL DEF Spec, SchedulerStable

-----------------------------------------------------------------------------
(* What the locking discipline buys: no request is left in a structure the *)
(* scheduler does not look at, none is given back twice or after it was    *)
(* cancelled, every release finds a request to free, and the library       *)
(* implements the abstract service of AgiosService.                        *)

(* What each body does to the place of the requests.                       *)
LEMMA RequestActionPlaces ==
  ASSUME TypeOK, NEW s \in Requests, RequestAction(s)
  PROVE  \/ UNCHANGED place
         \/ AddLink(s)
         \/ AddNoop(s) /\ place' = [place EXCEPT ![s] = "dispatch"]
         \/ /\ CancelBody(s)
            /\ \E x \in Requests : /\ Queued(x)
                                   /\ place' = [place EXCEPT ![x] = "cancelled"]
         \/ /\ ReleaseBody(s)
            /\ \E x \in Requests : /\ place[x] = "dispatch"
                                   /\ place' = [place EXCEPT ![x] = "released"]
<1>1. CASE AddCount(s) \/ AddSignal(s) \/ AddCallback(s)
  BY <1>1 DEF AddCount, AddSignal, AddCallback
<1>2. CASE AddNoop(s)
  BY <1>2 DEF AddNoop, ProcessStep1, TypeOK, StateTypeOK
<1>3. CASE CancelBody(s)
  BY <1>3 DEF CancelBody, CancelMatches, Queued
<1>4. CASE ReleaseBody(s)
  BY <1>4 DEF ReleaseBody, ReleaseMatches
<1> QED
  BY <1>1, <1>2, <1>3, <1>4 DEF RequestAction

(* What each thread step does to the place of the requests: a group taken  *)
(* was queued and is now in dispatch, or all queued requests migrate.      *)
LEMMA ThreadActionPlaces ==
  ASSUME TypeOK, ThreadAction
  PROVE  \/ UNCHANGED <<place, taken>> /\ ~CallBack
         \/ UNCHANGED place /\ CallBack
         \/ Migrate
         \/ /\ \A r \in taken' : Queued(r)
            /\ taken' \in SUBSET Requests
            /\ place' = [r \in Requests |->
                           IF r \in taken' THEN "dispatch" ELSE place[r]]
            /\ UNCHANGED <<alg, handed>>
            /\ apc = "take" /\ apc' = "callback"
<1>1. ASSUME NEW in \in {"timeline", "hashtable"}, NEW qs, TakeFrom(in, qs)
      PROVE  /\ \A r \in taken' : Queued(r)
             /\ taken' \in SUBSET Requests
             /\ place' = [r \in Requests |->
                            IF r \in taken' THEN "dispatch" ELSE place[r]]
  BY <1>1 DEF TakeFrom, Groups, ProcessStep1, Queued
<1>2. CASE TakeTO
  BY <1>1, <1>2 DEF TakeTO, CallBack, TakeFrom
<1>3. CASE TakeSJF
  BY <1>1, <1>3 DEF TakeSJF, CallBack, TakeFrom
<1>4. CASE TakeNOOP
  BY <1>1, <1>4 DEF TakeNOOP, CallBack, TakeFrom
<1>5. CASE CallBack
  BY <1>5 DEF CallBack
<1>6. CASE ~(TakeTO \/ TakeSJF \/ TakeNOOP \/ CallBack \/ Migrate)
  BY <1>6 DEF ThreadAction, ThreadStep, ChangeStep, ScheduleStep, SleepStep,
     ChooseScheduler, UnlockAll, Loop, LockAll, Switch, Check, Test, ScanLock,
     Scan, ScanNext, TakeLock, FallAsleep, Woken, Timeout, LoopEnd, stateVars
<1> QED
  BY <1>2, <1>3, <1>4, <1>5, <1>6

(* Only the choice and the change of the scheduler change alg.             *)
LEMMA ThreadActionAlg ==
  ASSUME ThreadAction, alg' # alg
  PROVE  HoldsAll /\ (ChooseScheduler \/ Switch)
BY DEF ThreadAction, ThreadStep, ChangeStep, ScheduleStep, SleepStep,
     ChooseScheduler, Switch, HoldsAll, UnlockAll, Loop, LockAll, Migrate,
     Check, Test, ScanLock, Scan, ScanNext, TakeLock, TakeTO, TakeSJF, TakeNOOP,
     CallBack, FallAsleep, Woken, Timeout, LoopEnd, stateVars

(* Where the thread comes from when it is about to migrate or was just     *)
(* started.                                                                *)
LEMMA ThreadActionStages ==
  ASSUME ThreadAction
  PROVE  /\ apc' = "init" => FALSE
         /\ apc = "init" => ChooseScheduler
         /\ apc' = "migrate" => Switch
         /\ apc = "migrate" => Migrate
BY DEF ThreadAction, ThreadStep, ChangeStep, ScheduleStep, SleepStep,
     ChooseScheduler, Switch, UnlockAll, Loop, LockAll, Migrate,
     Check, Test, ScanLock, Scan, ScanNext, TakeLock, TakeTO, TakeSJF, TakeNOOP,
     CallBack, FallAsleep, Woken, Timeout, LoopEnd, stateVars, TakeFrom

-----------------------------------------------------------------------------
(* No ghost requests: the steps of the calls.                              *)
LEMMA RequestActionGhost ==
  ASSUME TypeOK, LockInv, GhostInv, NEW s \in Requests, RequestAction(s)
  PROVE  GhostInv'
<1>1. apc' = apc
  BY DEF RequestAction, threadVars
<1>2. alg' = alg
  BY DEF RequestAction, AddLink, AddCount, AddSignal, AddNoop, AddCallback,
         CancelBody, ReleaseBody
<1>3. CASE AddLink(s)
  <2>1. InBody(<<"add", s>>) /\ <<"add", s>> \in Calls
    BY <1>3, CallFacts DEF AddLink, InBody
  <2>2. ~HoldsAll
    BY <2>1, AllHeldNoBody DEF HoldsLock
  <2>3. \A r \in Requests : r # s => place'[r] = place[r]
    BY <1>3 DEF AddLink, TypeOK, StateTypeOK
  <2>4. place'[s] = IF NeedsHashtable(alg) THEN "hashtable"
                    ELSE IF alg = "NOOP" THEN "held" ELSE "timeline"
    BY <1>3 DEF AddLink, TypeOK, StateTypeOK
  <2> QED
    BY <1>1, <1>2, <2>2, <2>3, <2>4
       DEF GhostInv, NoGhostRequest, Queued, HoldsAll, NeedsHashtable
<1>4. CASE \A r \in Requests : Queued(r)' => Queued(r) /\ place'[r] = place[r]
  BY <1>1, <1>2, <1>4 DEF GhostInv, NoGhostRequest, NeedsHashtable
<1>5. CASE ~AddLink(s)
  <2>1. \A r \in Requests : Queued(r)' => Queued(r) /\ place'[r] = place[r]
    BY <1>5, RequestActionPlaces DEF Queued, TypeOK, StateTypeOK
  <2> QED
    BY <2>1, <1>4
<1> QED
  BY <1>3, <1>5

(* No ghost requests: the steps of the agios thread.                       *)
LEMMA ThreadActionGhost ==
  ASSUME TypeOK, LockInv, GhostInv, ThreadAction
  PROVE  GhostInv'
<1>1. apc' # "init"
  BY ThreadActionStages
<1>2. CASE Migrate
  <2>1. /\ place' = [r \in Requests |->
                       IF ~Queued(r) THEN place[r]
                       ELSE IF NeedsHashtable(alg) THEN "hashtable"
                       ELSE "timeline"]
        /\ alg' = alg
    BY <1>2 DEF Migrate
  <2> QED
    BY <1>1, <2>1 DEF GhostInv, NoGhostRequest, Queued, NeedsHashtable
<1>3. CASE ChooseScheduler
  <2>1. place' = place /\ apc = "init"
    BY <1>3 DEF ChooseScheduler
  <2> QED
    BY <1>1, <2>1 DEF GhostInv, NoGhostRequest, Queued
<1>4. CASE Switch
  <2>1. /\ place' = place /\ apc = "switch"
        /\ apc' # "migrate" => NeedsHashtable(alg') = NeedsHashtable(alg)
    BY <1>4 DEF Switch
  <2> QED
    BY <1>1, <2>1 DEF GhostInv, NoGhostRequest, Queued, NeedsHashtable
<1>5. CASE ~(Migrate \/ ChooseScheduler \/ Switch)
  <2>1. alg' = alg /\ apc # "migrate" /\ apc # "init"
    BY <1>5, ThreadActionAlg, ThreadActionStages
  <2>2. \A r \in Requests : Queued(r)' => Queued(r) /\ place'[r] = place[r]
    BY <1>5, ThreadActionPlaces DEF Queued, TypeOK, StateTypeOK
  <2> QED
    BY <1>1, <2>1, <2>2 DEF GhostInv, NoGhostRequest, NeedsHashtable
<1> QED
  BY <1>2, <1>3, <1>4, <1>5

LEMMA NextGhost == TypeOK /\ LockInv /\ GhostInv /\ [Next]_vars => GhostInv'
<1> SUFFICES ASSUME TypeOK, LockInv, GhostInv, [Next]_vars PROVE GhostInv'
  OBVIOUS
<1>1. CASE UNCHANGED <<apc, alg, place>>
  BY <1>1 DEF GhostInv, NoGhostRequest, Queued, NeedsHashtable
<1>2. ASSUME NEW c \in Calls, ClientAction(c) PROVE UNCHANGED <<apc, alg, place>>
  BY <1>2 DEF ClientAction, Call, ReadScheduler, Lock, Recheck, stateVars, threadVars
<1>3. ExitAction \/ UNCHANGED vars => UNCHANGED <<apc, alg, place>>
  BY DEF ExitAction, Exit, vars, stateVars, threadVars
<1> QED
  BY <1>1, <1>2, <1>3, NextCases, RequestActionGhost, ThreadActionGhost

(* No request is ever in the structure the current scheduler does not use, *)
(* where it "will never be recovered to be processed".                     *)
THEOREM NoGhosts == Spec => []NoGhostRequest
<1>1. Init => GhostInv
  BY DEF Init, InitState, GhostInv, NoGhostRequest, Queued
<1>2. TypeOK /\ LockInv /\ GhostInv /\ [Next]_vars => GhostInv'
  BY NextGhost
<1>3. GhostInv => NoGhostRequest
  BY DEF GhostInv
<1> QED
  BY <1>1, <1>2, <1>3, TypeCorrect, LockingCorrect, PTL DEF Spec
-----------------------------------------------------------------------------
(* Delivery: the steps that get a call its lock change nothing but pc.     *)
LEMMA ClientActionDelivery ==
  ASSUME TypeOK, Delivery, NEW c \in Calls, ClientAction(c)
  PROVE  Delivery'
<1>1. UNCHANGED <<alg, place, handed, taken>>
  BY DEF ClientAction, Call, ReadScheduler, Lock, Recheck, stateVars,
         threadVars, counters
<1>2. ASSUME NEW r \in Requests
      PROVE  \/ pc'[<<"add", r>>] = pc[<<"add", r>>]
             \/ /\ pc[<<"add", r>>] \in {"idle", "read", "lock", "check"}
                /\ pc'[<<"add", r>>] \in {"read", "lock", "check", "body"}
  BY CallFacts DEF ClientAction, Call, MayCall, ReadScheduler, Lock, Recheck,
     Goto, clientVars, TypeOK, ClientTypeOK
<1>3. ASSUME NEW r \in Requests PROVE DeliveryOf(r)'
  <2>1. DeliveryOf(r)
    BY DEF Delivery
  <2> QED
    BY <1>1, <1>2, <2>1 DEF DeliveryOf, NotYetAdded
<1> QED
  BY <1>3 DEF Delivery

(* Delivery: the bodies of the calls.                                      *)
LEMMA RequestActionDelivery ==
  ASSUME TypeOK, Delivery, NEW s \in Requests, RequestAction(s)
  PROVE  Delivery'
<1> USE CallFacts DEF TypeOK, StateTypeOK, ClientTypeOK
<1>1. UNCHANGED <<alg, taken>>
  BY DEF RequestAction, AddLink, AddCount, AddSignal, AddNoop, AddCallback,
         CancelBody, ReleaseBody, threadVars
<1> SUFFICES ASSUME NEW r \in Requests PROVE DeliveryOf(r)'
  BY DEF Delivery
<1>2. DeliveryOf(r)
  BY DEF Delivery
<1>3. CASE AddLink(s)
  <2>1. handed' = handed
    BY <1>3 DEF AddLink
  <2>2. CASE r = s
    <3>1. pc[<<"add", s>>] = "body" /\ pc'[<<"add", s>>] = "count"
      BY <1>3 DEF AddLink, Goto
    <3>2. place'[s] = IF NeedsHashtable(alg) THEN "hashtable"
                      ELSE IF alg = "NOOP" THEN "held" ELSE "timeline"
      BY <1>3 DEF AddLink
    <3>3. place[s] = "new"
      BY <1>2, <2>2, <3>1 DEF DeliveryOf, NotYetAdded
    <3> QED
      BY <1>1, <1>2, <2>1, <2>2, <3>1, <3>2, <3>3
         DEF DeliveryOf, NotYetAdded, NeedsHashtable
  <2>3. CASE r # s
    <3>1. place'[r] = place[r] /\ pc'[<<"add", r>>] = pc[<<"add", r>>]
      BY <1>3, <2>3 DEF AddLink, Goto
    <3> QED
      BY <1>1, <1>2, <2>1, <3>1 DEF DeliveryOf, NotYetAdded
  <2> QED
    BY <2>2, <2>3
<1>4. CASE AddCount(s)
  <2>1. UNCHANGED <<handed, place>>
    BY <1>4 DEF AddCount
  <2>2. \/ pc'[<<"add", r>>] = pc[<<"add", r>>]
        \/ pc[<<"add", r>>] = "count" /\ pc'[<<"add", r>>] = "finish"
    BY <1>4 DEF AddCount, Goto
  <2> QED
    BY <1>1, <1>2, <2>1, <2>2 DEF DeliveryOf, NotYetAdded
<1>5. CASE AddSignal(s)
  <2>1. UNCHANGED <<handed, place>>
    BY <1>5 DEF AddSignal
  <2>2. \/ pc'[<<"add", r>>] = pc[<<"add", r>>]
        \/ pc[<<"add", r>>] = "finish" /\ pc'[<<"add", r>>] = "done"
    BY <1>5 DEF AddSignal, Return, Goto
  <2> QED
    BY <1>1, <1>2, <2>1, <2>2 DEF DeliveryOf, NotYetAdded
<1>6. CASE AddNoop(s)
  <2>1. handed' = handed /\ place' = [place EXCEPT ![s] = "dispatch"]
    BY <1>6 DEF AddNoop, ProcessStep1
  <2>2. CASE r = s
    <3>1. /\ pc[<<"add", s>>] = "finish" /\ alg = "NOOP"
          /\ pc'[<<"add", s>>] = "callback"
      BY <1>6 DEF AddNoop, Return, Goto
    <3>2. place[s] = "held" /\ s \notin taken /\ ~(handed[s] > 0)
      BY <1>2, <2>2, <3>1 DEF DeliveryOf
    <3> QED
      BY <1>1, <1>2, <2>1, <2>2, <3>1, <3>2 DEF DeliveryOf, NotYetAdded
  <2>3. CASE r # s
    <3>1. place'[r] = place[r] /\ pc'[<<"add", r>>] = pc[<<"add", r>>]
      BY <1>6, <2>1, <2>3 DEF AddNoop, Return, Goto
    <3> QED
      BY <1>1, <1>2, <2>1, <3>1 DEF DeliveryOf, NotYetAdded
  <2> QED
    BY <2>2, <2>3
<1>7. CASE AddCallback(s)
  <2>1. place' = place
    BY <1>7 DEF AddCallback
  <2>2. CASE r = s
    <3>1. /\ pc[<<"add", s>>] = "callback" /\ pc'[<<"add", s>>] = "done"
          /\ handed'[s] = handed[s] + 1
      BY <1>7 DEF AddCallback, Goto, ProcessStep2
    <3> QED
      BY <1>1, <1>2, <2>1, <2>2, <3>1 DEF DeliveryOf, NotYetAdded
  <2>3. CASE r # s
    <3>1. handed'[r] = handed[r] /\ pc'[<<"add", r>>] = pc[<<"add", r>>]
      BY <1>7, <2>3 DEF AddCallback, Goto, ProcessStep2
    <3> QED
      BY <1>1, <1>2, <2>1, <3>1 DEF DeliveryOf, NotYetAdded
  <2> QED
    BY <2>2, <2>3
<1>8. CASE CancelBody(s) \/ ReleaseBody(s)
  <2>1. handed' = handed /\ pc'[<<"add", r>>] = pc[<<"add", r>>]
    BY <1>8 DEF CancelBody, ReleaseBody, Return, Goto
  <2>2. CASE place'[r] = place[r]
    BY <1>1, <1>2, <2>1, <2>2 DEF DeliveryOf, NotYetAdded
  <2>3. CASE Queued(r) /\ place'[r] = "cancelled"
    <3>1. place[r] \in {"timeline", "hashtable"}
      BY <2>3 DEF Queued
    <3> QED
      BY <1>1, <1>2, <2>1, <2>3, <3>1 DEF DeliveryOf, NotYetAdded
  <2>4. CASE place[r] = "dispatch" /\ place'[r] = "released"
    BY <1>1, <1>2, <2>1, <2>4 DEF DeliveryOf, NotYetAdded
  <2>5. ~AddLink(s) /\ ~AddNoop(s)
    BY <1>8 DEF CancelBody, ReleaseBody, AddLink, AddNoop, Return, Goto
  <2> QED
    BY <2>2, <2>3, <2>4, <2>5, RequestActionPlaces
<1> QED
  BY <1>3, <1>4, <1>5, <1>6, <1>7, <1>8 DEF RequestAction

(* Delivery: the agios thread takes what was queued, calls back each of it *)
(* once, and migrates only what is queued.                                 *)
LEMMA ThreadActionDelivery ==
  ASSUME TypeOK, LockInv, Delivery, ThreadAction
  PROVE  Delivery'
<1> SUFFICES ASSUME NEW r \in Requests PROVE DeliveryOf(r)'
  BY DEF Delivery
<1>1. DeliveryOf(r) /\ pc' = pc
  BY DEF Delivery, ThreadAction, clientVars
<1>2. pc[<<"add", r>>] \in {"count", "finish"} => alg' = alg
  BY ThreadActionAlg, AllHeldNoBody, CallFacts DEF HoldsLock, InBody
<1>3. CASE CallBack
  <2>1. UNCHANGED <<alg, place>>
    BY <1>3 DEF CallBack
  <2>2. PICK G \in SUBSET taken : ProcessStep2(G) /\ taken' = taken \ G
    BY <1>3 DEF CallBack
  <2>3. handed'[r] = IF r \in G THEN handed[r] + 1 ELSE handed[r]
    BY <2>2 DEF ProcessStep2
  <2>4. handed[r] \in Nat
    BY DEF TypeOK, StateTypeOK
  <2>5. CASE r \in G
    BY <1>1, <2>1, <2>2, <2>3, <2>4, <2>5 DEF DeliveryOf, NotYetAdded
  <2>6. CASE r \notin G
    BY <1>1, <2>1, <2>2, <2>3, <2>6 DEF DeliveryOf, NotYetAdded
  <2> QED
    BY <2>5, <2>6
<1>4. CASE Migrate
  <2>1. /\ UNCHANGED <<alg, handed, taken>>
        /\ place' = [s \in Requests |->
                       IF ~Queued(s) THEN place[s]
                       ELSE IF NeedsHashtable(alg) THEN "hashtable"
                       ELSE "timeline"]
    BY <1>4 DEF Migrate
  <2>2. CASE Queued(r)
    <3>1. place[r] \in {"timeline", "hashtable"}
          /\ place'[r] \in {"timeline", "hashtable"}
      BY <2>1, <2>2 DEF Queued
    <3> QED
      BY <1>1, <2>1, <3>1 DEF DeliveryOf, NotYetAdded
  <2>3. CASE ~Queued(r)
    BY <1>1, <2>1, <2>3 DEF DeliveryOf, NotYetAdded
  <2> QED
    BY <2>2, <2>3
<1>5. CASE /\ \A s \in taken' : Queued(s)
           /\ place' = [s \in Requests |->
                          IF s \in taken' THEN "dispatch" ELSE place[s]]
           /\ UNCHANGED <<alg, handed>>
  <2>1. CASE r \in taken'
    <3>1. place[r] \in {"timeline", "hashtable"} /\ place'[r] = "dispatch"
      BY <1>5, <2>1 DEF Queued
    <3>2. handed[r] = 0
      BY <1>1, <3>1 DEF DeliveryOf, TypeOK, StateTypeOK
    <3> QED
      BY <1>1, <1>5, <2>1, <3>1, <3>2 DEF DeliveryOf, NotYetAdded
  <2>2. CASE r \notin taken'
    <3>1. place'[r] = place[r]
      BY <1>5, <2>2
    <3> QED
      BY <1>1, <1>5, <2>2, <3>1 DEF DeliveryOf, NotYetAdded
  <2> QED
    BY <2>1, <2>2
<1>6. CASE UNCHANGED <<place, taken>> /\ ~CallBack
  <2>1. handed' = handed
    BY <1>6 DEF ThreadAction, ThreadStep, ChangeStep, ScheduleStep, SleepStep,
       ChooseScheduler, Switch, UnlockAll, Loop, LockAll, Migrate, Check, Test,
       ScanLock, Scan, ScanNext, TakeLock, TakeTO, TakeSJF, TakeNOOP,
       FallAsleep, Woken, Timeout, LoopEnd, stateVars
  <2> QED
    BY <1>1, <1>2, <1>6, <2>1 DEF DeliveryOf, NotYetAdded
<1> QED
  BY <1>3, <1>4, <1>5, <1>6, ThreadActionPlaces

LEMMA NextDelivery == TypeOK /\ LockInv /\ Delivery /\ [Next]_vars => Delivery'
<1> SUFFICES ASSUME TypeOK, LockInv, Delivery, [Next]_vars PROVE Delivery'
  OBVIOUS
<1>1. CASE ExitAction \/ UNCHANGED vars
  <2>1. UNCHANGED <<alg, place, handed, taken, pc>>
    BY <1>1 DEF ExitAction, Exit, vars, stateVars, threadVars, clientVars
  <2> QED
    BY <2>1 DEF Delivery, DeliveryOf, NotYetAdded
<1> QED
  BY <1>1, NextCases, ClientActionDelivery, RequestActionDelivery,
     ThreadActionDelivery

(* Every request goes through the stages of its delivery in order: it is   *)
(* nowhere before its add links it, and the callback is still to come for  *)
(* whatever is on its way to it.                                           *)
THEOREM DeliveryCorrect == Spec => []Delivery
<1>1. Init => Delivery
  <2> SUFFICES ASSUME Init, NEW r \in Requests PROVE DeliveryOf(r)
    BY DEF Delivery
  <2>1. /\ handed[r] = 0 /\ place[r] = "new" /\ r \notin taken
        /\ pc[<<"add", r>>] = "idle"
    BY CallFacts DEF Init, InitState, ClientInit, ThreadInit
  <2> QED
    BY <2>1 DEF DeliveryOf, NotYetAdded
<1>2. TypeOK /\ LockInv /\ Delivery /\ [Next]_vars => Delivery'
  BY NextDelivery
<1> QED
  BY <1>1, <1>2, TypeCorrect, LockingCorrect, PTL DEF Spec

(* A request is given to the client at most once, only when it is in a     *)
(* dispatch list, and never when it was cancelled, whatever the schedulers *)
(* and however their changes interleave with the calls.                    *)
THEOREM DeliveredOnce == Spec => []HandedOnce
<1>1. Delivery => HandedOnce
  BY DEF Delivery, DeliveryOf, HandedOnce
<1> QED
  BY <1>1, DeliveryCorrect, PTL

-----------------------------------------------------------------------------
(* Releases.                                                                *)

LEMMA TwinSets ==
  ASSUME NEW s \in Requests
  PROVE  /\ IsFiniteSet(TwinsOf(s)) /\ IsFiniteSet(Freed(s)) /\ IsFiniteSet(Returned(s))
         /\ s \in TwinsOf(s)
<1>1. IsFiniteSet(TwinsOf(s))
  BY StateAssumption, FS_Subset DEF TwinsOf
<1>2. Freed(s) \in SUBSET TwinsOf(s) /\ Returned(s) \in SUBSET TwinsOf(s)
  BY DEF Freed, Returned
<1> QED
  BY <1>1, <1>2, FS_Subset DEF TwinsOf

(* A release that was called and did not return yet finds one to free: of  *)
(* the requests that were handed over, as many are freed as releases       *)
(* returned, and this one did not.                                         *)
LEMMA OneIsLeft ==
  ASSUME TypeOK, Delivery, ReleaseInv, NEW s \in Requests,
         pc[<<"release", s>>] \notin {"idle", "done"}
  PROVE  ReleaseMatches(s) # {}
<1> SUFFICES ASSUME ReleaseMatches(s) = {} PROVE FALSE
  OBVIOUS
<1> DEFINE H == {x \in TwinsOf(s) : handed[x] > 0}
<1>1. IsFiniteSet(H) /\ H \in SUBSET TwinsOf(s)
  BY TwinSets, FS_Subset
<1>2. H \in SUBSET Freed(s)
  <2>1. \A x \in H : x \in Requests /\ place[x] \in {"dispatch", "released"}
    BY DEF Delivery, DeliveryOf, TwinsOf
  <2>2. \A x \in H : place[x] # "dispatch"
    BY DEF ReleaseMatches, TwinsOf
  <2> QED
    BY <2>1, <2>2 DEF Freed
<1>3. Returned(s) \cup {s} \in SUBSET H
  BY TwinSets DEF ReleaseInv, ReleasedAfterCallback, Returned, TwinsOf
<1>4. s \notin Returned(s)
  BY DEF Returned
<1>5. Cardinality(Returned(s) \cup {s}) = Cardinality(Returned(s)) + 1
  BY <1>4, TwinSets, FS_AddElement
<1>6. Returned(s) \cup {s} \in SUBSET Freed(s)
  BY <1>2, <1>3
<1>7. Cardinality(Returned(s) \cup {s}) <= Cardinality(Freed(s))
  BY <1>6, TwinSets, FS_Subset
<1>8. Cardinality(Freed(s)) = Cardinality(Returned(s))
  BY DEF ReleaseInv
<1>9. Cardinality(Returned(s)) \in Nat
  BY TwinSets, FS_CardinalityType
<1> QED
  BY <1>5, <1>7, <1>8, <1>9

(* Steps that free nothing.                                                *)
LEMMA SameReleases ==
  ASSUME ReleaseInv,
         \A r \in Requests :
           /\ place'[r] = "released" <=> place[r] = "released"
           /\ handed[r] > 0 => handed'[r] > 0
           /\ \/ pc'[<<"release", r>>] = pc[<<"release", r>>]
              \/ /\ pc'[<<"release", r>>] \notin {"done", "failed"}
                 /\ pc[<<"release", r>>] # "done" /\ handed[r] > 0
  PROVE  ReleaseInv'
<1>1. ReleasedAfterCallback' /\ ReleaseFinds'
  BY DEF ReleaseInv, ReleasedAfterCallback, ReleaseFinds
<1>2. \A s \in Requests : Freed(s)' = Freed(s) /\ Returned(s)' = Returned(s)
  BY DEF Freed, Returned, TwinsOf
<1> QED
  BY <1>1, <1>2 DEF ReleaseInv

LEMMA ReleaseBodyReleases ==
  ASSUME TypeOK, Delivery, ReleaseInv, NEW s \in Requests, ReleaseBody(s)
  PROVE  ReleaseInv'
<1>1. /\ pc[<<"release", s>>] = "body" /\ handed' = handed
      /\ handed[s] > 0
  BY DEF ReleaseBody, ReleaseInv, ReleasedAfterCallback
<1>2. ReleaseMatches(s) # {}
  BY <1>1, OneIsLeft
<1>3. /\ pc' = [pc EXCEPT ![<<"release", s>>] = "done"]
      /\ \E x \in ReleaseMatches(s) : place' = [place EXCEPT ![x] = "released"]
  BY <1>2 DEF ReleaseBody, Return, Goto
<1>4. PICK x \in ReleaseMatches(s) : place' = [place EXCEPT ![x] = "released"]
  BY <1>3
<1>5. x \in TwinsOf(s) /\ place[x] = "dispatch"
  BY <1>4 DEF ReleaseMatches, TwinsOf
<1>6. /\ \A r \in Requests : place'[r] = IF r = x THEN "released" ELSE place[r]
      /\ \A r \in Requests : pc'[<<"release", r>>] =
           IF r = s THEN "done" ELSE pc[<<"release", r>>]
  BY <1>3, <1>4, CallFacts DEF TypeOK, StateTypeOK, ClientTypeOK
<1>7. ReleasedAfterCallback' /\ ReleaseFinds'
  BY <1>1, <1>6 DEF ReleaseInv, ReleasedAfterCallback, ReleaseFinds
<1>8. ASSUME NEW t \in Requests
      PROVE  Cardinality(Freed(t)') = Cardinality(Returned(t)')
  <2>1. Cardinality(Freed(t)) = Cardinality(Returned(t))
    BY DEF ReleaseInv
  <2>2. CASE s \in TwinsOf(t)
    <3>1. x \in TwinsOf(t)
      BY <1>5, <2>2 DEF TwinsOf
    <3>2. /\ Freed(t)' = Freed(t) \cup {x} /\ x \notin Freed(t)
          /\ Returned(t)' = Returned(t) \cup {s} /\ s \notin Returned(t)
      BY <1>1, <1>5, <1>6, <2>2, <3>1 DEF Freed, Returned, TwinsOf
    <3>3. /\ Cardinality(Freed(t) \cup {x}) = Cardinality(Freed(t)) + 1
          /\ Cardinality(Returned(t) \cup {s}) = Cardinality(Returned(t)) + 1
      BY <3>2, TwinSets, FS_AddElement
    <3> QED
      BY <2>1, <3>2, <3>3
  <2>3. CASE s \notin TwinsOf(t)
    <3>1. x \notin TwinsOf(t)
      BY <1>5, <2>3 DEF TwinsOf
    <3>2. Freed(t)' = Freed(t) /\ Returned(t)' = Returned(t)
      BY <1>6, <2>3, <3>1 DEF Freed, Returned, TwinsOf
    <3> QED
      BY <2>1, <3>2
  <2> QED
    BY <2>2, <2>3
<1> QED
  BY <1>7, <1>8 DEF ReleaseInv

(* Nothing else frees a request, and no step takes back a callback.        *)
LEMMA FreedByRelease ==
  ASSUME TypeOK, Delivery, [Next]_vars
  PROVE  \/ \E s \in Requests : RequestAction(s) /\ ReleaseBody(s)
         \/ \A r \in Requests : place'[r] = "released" <=> place[r] = "released"
<1> USE CallFacts
<1>1. ASSUME NEW c \in Calls, ClientAction(c) PROVE place' = place
  BY <1>1 DEF ClientAction, Call, ReadScheduler, Lock, Recheck, stateVars
<1>2. ASSUME NEW s \in Requests, RequestAction(s), ~ReleaseBody(s)
      PROVE  \A r \in Requests : place'[r] = "released" <=> place[r] = "released"
  <2>1. CASE AddLink(s)
    <3>1. place[s] = "new"
      BY <2>1 DEF AddLink, Delivery, DeliveryOf, NotYetAdded
    <3> QED
      BY <2>1, <3>1 DEF AddLink, TypeOK, StateTypeOK
  <2>2. CASE AddNoop(s)
    <3>1. place[s] = "held"
      BY <2>2 DEF AddNoop, Delivery, DeliveryOf
    <3> QED
      BY <2>2, <3>1 DEF AddNoop, ProcessStep1
  <2>3. CASE CancelBody(s)
    BY <2>3 DEF CancelBody, CancelMatches, TypeOK, StateTypeOK
  <2> QED
    BY <1>2, <2>1, <2>2, <2>3, RequestActionPlaces
<1>3. CASE ThreadAction
  BY <1>3, ThreadActionPlaces DEF Migrate, Queued
<1>4. CASE ExitAction \/ UNCHANGED vars
  BY <1>4 DEF ExitAction, Exit, vars, stateVars
<1> QED
  BY <1>1, <1>2, <1>3, <1>4, NextCases

LEMMA HandedGrows ==
  ASSUME TypeOK, [Next]_vars, NEW r \in Requests
  PROVE  handed'[r] \in {handed[r], handed[r] + 1}
<1>1. ASSUME NEW c \in Calls, ClientAction(c) PROVE handed' = handed
  BY <1>1 DEF ClientAction, Call, ReadScheduler, Lock, Recheck, stateVars
<1>2. ASSUME NEW s \in Requests, RequestAction(s)
      PROVE  handed'[r] \in {handed[r], handed[r] + 1}
  BY <1>2 DEF RequestAction, AddLink, AddCount, AddSignal, AddNoop,
     AddCallback, CancelBody, ReleaseBody, ProcessStep2
<1>3. CASE ThreadAction
  BY <1>3 DEF ThreadAction, ThreadStep, ChangeStep, ScheduleStep, SleepStep,
     ChooseScheduler, Switch, UnlockAll, Loop, LockAll, Migrate, Check, Test,
     ScanLock, Scan, ScanNext, TakeLock, TakeTO, TakeSJF, TakeNOOP, CallBack,
     ProcessStep2, FallAsleep, Woken, Timeout, LoopEnd, stateVars
<1>4. CASE ExitAction \/ UNCHANGED vars
  BY <1>4 DEF ExitAction, Exit, vars, stateVars
<1> QED
  BY <1>1, <1>2, <1>3, <1>4, NextCases

LEMMA NextReleases ==
  TypeOK /\ Delivery /\ ReleaseInv /\ [Next]_vars => ReleaseInv'
<1> SUFFICES ASSUME TypeOK, Delivery, ReleaseInv, [Next]_vars PROVE ReleaseInv'
  OBVIOUS
<1> USE CallFacts
<1>0. \A r \in Requests : handed[r] > 0 => handed'[r] > 0
  BY HandedGrows DEF TypeOK, StateTypeOK
<1>1. ASSUME NEW c \in Calls, ClientAction(c) PROVE ReleaseInv'
  <2>1. UNCHANGED <<place, handed>>
    BY <1>1 DEF ClientAction, Call, ReadScheduler, Lock, Recheck, stateVars
  <2>2. \/ pc' = pc
        \/ /\ pc[c] \in {"idle", "read", "lock", "check"}
           /\ \E label \in {"read", "lock", "check", "body"} :
                pc' = [pc EXCEPT ![c] = label]
    BY <1>1 DEF ClientAction, Call, MayCall, ReadScheduler, Lock, Recheck, Goto,
       clientVars
  <2>3. c[1] = "release" => handed[c[2]] > 0 \/ pc' = pc
    BY <1>1 DEF ClientAction, Call, MayCall, ReadScheduler, Lock, Recheck,
       clientVars, ReleaseInv, ReleasedAfterCallback
  <2>4. \A r \in Requests :
          \/ pc'[<<"release", r>>] = pc[<<"release", r>>]
          \/ /\ pc'[<<"release", r>>] \notin {"done", "failed"}
             /\ pc[<<"release", r>>] # "done" /\ handed[r] > 0
    <3> SUFFICES ASSUME NEW r \in Requests, pc' # pc
                 PROVE  \/ pc'[<<"release", r>>] = pc[<<"release", r>>]
                        \/ /\ pc'[<<"release", r>>] \notin {"done", "failed"}
                           /\ pc[<<"release", r>>] # "done" /\ handed[r] > 0
      OBVIOUS
    <3>1. CASE c = <<"release", r>>
      <4>1. c[1] = "release" /\ c[2] = r
        BY <3>1
      <4>2. pc'[c] \in {"read", "lock", "check", "body"}
        BY <2>2 DEF TypeOK, ClientTypeOK
      <4> QED
        BY <2>2, <2>3, <3>1, <4>1, <4>2
    <3>2. CASE c # <<"release", r>>
      BY <2>2, <3>2 DEF TypeOK, ClientTypeOK
    <3> QED
      BY <3>1, <3>2
  <2> QED
    BY <2>1, <2>4, SameReleases
<1>2. ASSUME NEW s \in Requests, RequestAction(s), ~ReleaseBody(s)
      PROVE  \A r \in Requests : pc'[<<"release", r>>] = pc[<<"release", r>>]
  BY <1>2 DEF RequestAction, AddLink, AddCount, AddSignal, AddNoop,
     AddCallback, CancelBody, Return, Goto, TypeOK, ClientTypeOK
<1>3. ThreadAction => pc' = pc
  BY DEF ThreadAction, clientVars
<1>4. ExitAction \/ UNCHANGED vars => pc' = pc
  BY DEF ExitAction, Exit, vars, clientVars
<1>5. CASE \E s \in Requests : RequestAction(s) /\ ReleaseBody(s)
  BY <1>5, ReleaseBodyReleases
<1>6. CASE /\ ~ \E s \in Requests : RequestAction(s) /\ ReleaseBody(s)
           /\ ~ \E c \in Calls : ClientAction(c)
  <2>1. \A r \in Requests : pc'[<<"release", r>>] = pc[<<"release", r>>]
    BY <1>2, <1>3, <1>4, <1>6, NextCases
  <2>2. \A r \in Requests : place'[r] = "released" <=> place[r] = "released"
    BY <1>6, FreedByRelease
  <2> QED
    BY <1>0, <2>1, <2>2, SameReleases
<1> QED
  BY <1>1, <1>5, <1>6

LEMMA ReleasesKept == Spec => []ReleaseInv
<1>1. Init => ReleaseInv
  <2> SUFFICES ASSUME Init PROVE ReleaseInv
    OBVIOUS
  <2>1. /\ \A r \in Requests : pc[<<"release", r>>] = "idle"
        /\ \A r \in Requests : place[r] = "new"
    BY CallFacts DEF Init, InitState, ClientInit
  <2>2. \A s \in Requests : Freed(s) = {} /\ Returned(s) = {}
    BY <2>1 DEF Freed, Returned, TwinsOf
  <2> QED
    BY <2>1, <2>2 DEF ReleaseInv, ReleasedAfterCallback, ReleaseFinds
<1>2. TypeOK /\ Delivery /\ ReleaseInv /\ [Next]_vars => ReleaseInv'
  BY NextReleases
<1> QED
  BY <1>1, <1>2, TypeCorrect, DeliveryCorrect, PTL DEF Spec

(* A release that follows the callback of its request finds a request of   *)
(* that offset and length in the dispatch list, also when twins share the  *)
(* extent and their releases run in any order.                             *)
THEOREM ReleasesFind == Spec => []ReleaseFinds
<1>1. ReleaseInv => ReleaseFinds
  BY DEF ReleaseInv
<1> QED
  BY <1>1, ReleasesKept, PTL

-----------------------------------------------------------------------------
(* With distinct extents a release frees the request it was called for.    *)
LEMMA NextFreed ==
  DistinctExtents /\ TypeOK /\ Delivery /\ ReleaseInv /\ FreedAfterCallback
      /\ [Next]_vars
    => FreedAfterCallback'
<1> SUFFICES ASSUME DistinctExtents, TypeOK, Delivery, ReleaseInv,
                    FreedAfterCallback, [Next]_vars,
                    NEW r \in Requests, place'[r] = "released"
             PROVE  handed'[r] > 0
  BY DEF FreedAfterCallback
<1>1. ASSUME NEW s \in Requests, ReleaseBody(s), place[r] # "released"
      PROVE  handed'[r] > 0
  <2>1. r \in ReleaseMatches(s)
    BY <1>1 DEF ReleaseBody, ReleaseMatches, TypeOK, StateTypeOK
  <2>2. r = s
    BY <2>1 DEF ReleaseMatches, DistinctExtents
  <2>3. handed[s] > 0
    BY <1>1 DEF ReleaseBody, ReleaseInv, ReleasedAfterCallback
  <2> QED
    BY <1>1, <2>2, <2>3 DEF ReleaseBody
<1>2. CASE handed[r] > 0
  <2>1. handed'[r] >= handed[r] /\ handed[r] \in Nat /\ handed'[r] \in Nat
    BY HandedGrows DEF TypeOK, StateTypeOK
  <2> QED
    BY <1>2, <2>1
<1>3. CASE place[r] = "released"
  BY <1>2, <1>3 DEF FreedAfterCallback
<1>4. CASE place[r] # "released"
  BY <1>1, <1>4, FreedByRelease
<1> QED
  BY <1>3, <1>4

-----------------------------------------------------------------------------
(* The refinement.  What the client knows of one request, and how a step   *)
(* on some requests is a step of the service.                              *)
Stage(r) ==
  IF place[r] \in {"new", "cancelled", "released"} THEN place[r]
  ELSE IF place[r] = "dispatch" /\ handed[r] > 0 THEN "delivered" ELSE "accepted"

LEMMA StatusIsStage == statusOf = [r \in Requests |-> Stage(r)]
BY DEF statusOf, Stage

LEMMA StatusIsStageNext == statusOf' = [r \in Requests |-> Stage(r)']
BY DEF statusOf, Stage

LEMMA SameStatus ==
  ASSUME \A r \in Requests : Stage(r)' = Stage(r)
  PROVE  statusOf' = statusOf
BY StatusIsStage, StatusIsStageNext

LEMMA StatusBecomes ==
  ASSUME NEW S \in SUBSET Requests, NEW old, NEW new,
         \A r \in S : Stage(r) = old /\ Stage(r)' = new,
         \A r \in Requests \ S : Stage(r)' = Stage(r)
  PROVE  Service!Becomes(S, old, new)
BY StatusIsStage, StatusIsStageNext DEF Service!Becomes

LEMMA PlaceChanges ==
  ASSUME NEW r \in Requests, UNCHANGED handed, place'[r] = place[r]
  PROVE  Stage(r)' = Stage(r)
BY DEF Stage

(* The steps of the calls.                                                 *)
LEMMA RequestActionServes ==
  ASSUME DistinctExtents, TypeOK, Delivery, ReleaseInv, FreedAfterCallback,
         NEW s \in Requests, RequestAction(s)
  PROVE  Service!ServiceNext \/ statusOf' = statusOf
<1> USE CallFacts
<1>1. CASE AddLink(s)
  <2>1. /\ place[s] = "new" /\ place'[s] \in {"hashtable", "held", "timeline"}
        /\ \A r \in Requests \ {s} : place'[r] = place[r]
        /\ handed' = handed
    BY <1>1 DEF AddLink, Delivery, DeliveryOf, NotYetAdded, TypeOK, StateTypeOK
  <2>2. Service!Accept(s)
    BY <2>1, StatusBecomes, PlaceChanges DEF Service!Accept, Stage
  <2> QED
    BY <2>2 DEF Service!ServiceNext
<1>2. CASE AddNoop(s)
  <2>1. /\ place[s] = "held" /\ handed[s] = 0
        /\ place' = [place EXCEPT ![s] = "dispatch"] /\ handed' = handed
    <3>1. place[s] = "held" /\ ~(handed[s] > 0)
      BY <1>2 DEF AddNoop, Delivery, DeliveryOf
    <3>2. place' = [place EXCEPT ![s] = "dispatch"]
      BY <1>2 DEF AddNoop, ProcessStep1, TypeOK, StateTypeOK
    <3>3. handed' = handed /\ handed[s] \in Nat
      BY <1>2 DEF AddNoop, TypeOK, StateTypeOK
    <3> QED
      BY <3>1, <3>2, <3>3
  <2>2. \A r \in Requests : Stage(r)' = Stage(r)
    BY <2>1 DEF Stage, TypeOK, StateTypeOK
  <2> QED
    BY <2>2, SameStatus
<1>3. CASE AddCallback(s)
  <2>1. /\ handed[s] = 0 /\ place[s] \in {"dispatch", "released"} /\ place' = place
        /\ \A r \in Requests : handed'[r] = IF r = s THEN handed[r] + 1 ELSE handed[r]
    BY <1>3 DEF AddCallback, Delivery, DeliveryOf, ProcessStep2
  <2>2. place[s] = "dispatch"
    BY <2>1 DEF FreedAfterCallback
  <2>3. Service!Deliver({s})
    BY <2>1, <2>2, StatusBecomes DEF Service!Deliver, Stage
  <2> QED
    BY <2>3 DEF Service!ServiceNext
<1>4. CASE CancelBody(s)
  <2>1. CASE place' = place
    BY <1>4, <2>1, SameStatus, PlaceChanges DEF CancelBody
  <2>2. CASE \E x \in CancelMatches(s) : place' = [place EXCEPT ![x] = "cancelled"]
    <3>1. PICK x \in Requests : /\ Queued(x)
                               /\ place' = [place EXCEPT ![x] = "cancelled"]
      BY <2>2 DEF CancelMatches, Queued
    <3>2. /\ \A r \in Requests \ {x} : place'[r] = place[r]
          /\ place'[x] = "cancelled" /\ handed' = handed
          /\ place[x] \in {"timeline", "hashtable"}
      BY <1>4, <3>1 DEF CancelBody, Queued, TypeOK, StateTypeOK
    <3>3. Service!Cancel(x)
      BY <3>2, StatusBecomes, PlaceChanges DEF Service!Cancel, Stage
    <3> QED
      BY <3>3 DEF Service!ServiceNext
  <2> QED
    BY <1>4, <2>1, <2>2 DEF CancelBody
<1>5. CASE ReleaseBody(s)
  <2>1. CASE place' = place
    BY <1>5, <2>1, SameStatus, PlaceChanges DEF ReleaseBody
  <2>2. CASE \E x \in ReleaseMatches(s) : place' = [place EXCEPT ![x] = "released"]
    <3>1. s \in ReleaseMatches(s) /\ place' = [place EXCEPT ![s] = "released"]
      BY <2>2 DEF ReleaseMatches, DistinctExtents
    <3>2. /\ \A r \in Requests \ {s} : place'[r] = place[r]
          /\ place'[s] = "released" /\ handed' = handed
          /\ place[s] = "dispatch" /\ handed[s] > 0
      BY <1>5, <3>1 DEF ReleaseBody, ReleaseMatches, ReleaseInv,
         ReleasedAfterCallback, TypeOK, StateTypeOK
    <3>3. Service!Forget(s)
      BY <3>2, StatusBecomes, PlaceChanges DEF Service!Forget, Stage
    <3> QED
      BY <3>3 DEF Service!ServiceNext
  <2> QED
    BY <1>5, <2>1, <2>2 DEF ReleaseBody
<1>6. CASE AddCount(s) \/ AddSignal(s)
  BY <1>6, SameStatus, PlaceChanges DEF AddCount, AddSignal
<1> QED
  BY <1>1, <1>2, <1>3, <1>4, <1>5, <1>6 DEF RequestAction

(* The steps of the thread: only its callbacks are seen.                   *)
LEMMA ThreadActionServes ==
  ASSUME TypeOK, Delivery, FreedAfterCallback, ThreadAction
  PROVE  Service!ServiceNext \/ statusOf' = statusOf
<1>1. CASE CallBack
  <2>1. PICK G \in SUBSET taken : ProcessStep2(G)
    BY <1>1 DEF CallBack
  <2>2. /\ G \in SUBSET Requests /\ place' = place
        /\ \A r \in Requests : handed'[r] = IF r \in G THEN handed[r] + 1 ELSE handed[r]
    BY <1>1, <2>1 DEF CallBack, ProcessStep2, TypeOK, ThreadTypeOK
  <2>3. \A r \in G : handed[r] = 0 /\ place[r] = "dispatch"
    <3> SUFFICES ASSUME NEW r \in G PROVE handed[r] = 0 /\ place[r] = "dispatch"
      OBVIOUS
    <3>1. r \in Requests /\ r \in taken
      BY <2>1, <2>2
    <3>2. handed[r] = 0 /\ place[r] \in {"dispatch", "released"}
      BY <3>1 DEF Delivery, DeliveryOf
    <3> QED
      BY <3>1, <3>2 DEF FreedAfterCallback
  <2>4. Service!Deliver(G)
    BY <2>2, <2>3, StatusBecomes DEF Service!Deliver, Stage
  <2> QED
    BY <2>2, <2>4 DEF Service!ServiceNext
<1>2. CASE ~CallBack
  <2>1. handed' = handed
    BY <1>2 DEF ThreadAction, ThreadStep, ChangeStep, ScheduleStep, SleepStep,
       ChooseScheduler, Switch, UnlockAll, Loop, LockAll, Migrate, Check, Test,
       ScanLock, Scan, ScanNext, TakeLock, TakeTO, TakeSJF, TakeNOOP,
       FallAsleep, Woken, Timeout, LoopEnd, stateVars
  <2>2. ASSUME NEW r \in Requests, place'[r] # place[r]
        PROVE  /\ Queued(r) /\ handed[r] = 0
               /\ place'[r] \in {"timeline", "hashtable", "dispatch"}
    <3>1. Queued(r) /\ place'[r] \in {"timeline", "hashtable", "dispatch"}
      BY <1>2, <2>2, ThreadActionPlaces DEF Migrate
    <3>2. ~(handed[r] > 0)
      BY <3>1 DEF Queued, Delivery, DeliveryOf
    <3> QED
      BY <3>1, <3>2 DEF TypeOK, StateTypeOK
  <2>3. \A r \in Requests : Stage(r)' = Stage(r)
    BY <2>1, <2>2, PlaceChanges DEF Stage, Queued
  <2> QED
    BY <2>3, SameStatus
<1> QED
  BY <1>1, <1>2

LEMMA NextServes ==
  DistinctExtents /\ TypeOK /\ Delivery /\ ReleaseInv /\ FreedAfterCallback
      /\ [Next]_vars
    => [Service!ServiceNext]_statusOf
<1> SUFFICES ASSUME DistinctExtents, TypeOK, Delivery, ReleaseInv,
                    FreedAfterCallback, [Next]_vars
             PROVE  Service!ServiceNext \/ statusOf' = statusOf
  OBVIOUS
<1>1. ASSUME NEW c \in Calls, ClientAction(c) PROVE UNCHANGED <<place, handed>>
  BY <1>1 DEF ClientAction, Call, ReadScheduler, Lock, Recheck, stateVars
<1>2. ExitAction \/ UNCHANGED vars => UNCHANGED <<place, handed>>
  BY DEF ExitAction, Exit, vars, stateVars
<1>3. UNCHANGED <<place, handed>> => statusOf' = statusOf
  BY SameStatus, PlaceChanges
<1> QED
  BY <1>1, <1>2, <1>3, NextCases, RequestActionServes, ThreadActionServes

(* AGIOS implements the service its client sees: every request that is     *)
(* added is given back at most once or cancelled, never both, and is       *)
(* forgotten only after that, whatever the scheduler and its changes.      *)
THEOREM ServiceImplemented == DistinctExtents /\ Spec => ImplementsService
<1>1. Init => Service!ServiceInit
  <2> SUFFICES ASSUME Init PROVE Service!ServiceInit
    OBVIOUS
  <2>1. \A r \in Requests : Stage(r) = "new"
    BY DEF Init, InitState, Stage
  <2> QED
    BY <2>1, StatusIsStage DEF Service!ServiceInit
<1>2. Init => FreedAfterCallback
  BY DEF Init, InitState, FreedAfterCallback
<1>3. DistinctExtents => DistinctExtents'
  BY DEF DistinctExtents
<1> QED
  BY <1>1, <1>2, <1>3, ReleasesKept, NextFreed, NextServes, TypeCorrect,
     DeliveryCorrect, PTL DEF Spec, ImplementsService, Service!ServiceSpec
=============================================================================
