-------------------------------- MODULE Agios --------------------------------
(***************************************************************************)
(* The library at work: client threads that add, cancel and release        *)
(* requests, the agios thread that schedules them and may change the       *)
(* scheduler, and agios_exit.  All of them share the two structures, the   *)
(* locks and the counters of AgiosState.                                   *)
(***************************************************************************)
EXTENDS ClientCalls, AgiosThread

vars == <<stateVars, clientVars, threadVars>>

Init == InitState /\ ClientInit /\ ThreadInit

(* The process is gone once an assert or a bad pointer killed it.          *)
Running == fault = "none"

ClientCall(c) == Running /\ Call(c) /\ UNCHANGED threadVars
ClientStep(c) == Running /\ CallStep(c) /\ UNCHANGED threadVars
AgiosThreadStep == Running /\ ThreadStep /\ UNCHANGED clientVars
AgiosExit == Running /\ Exit /\ UNCHANGED threadVars
Terminated == (~Running \/ apc = "ended") /\ UNCHANGED vars

Next ==
  \/ \E c \in Calls : ClientCall(c) \/ ClientStep(c)
  \/ AgiosThreadStep
  \/ AgiosExit
  \/ Terminated

Spec == Init /\ [][Next]_vars

(* The operating system runs every thread that can run.  Nothing makes the *)
(* client call, and nothing makes it call agios_exit.                      *)
FairSpec ==
  /\ Spec
  /\ WF_vars(AgiosThreadStep)
  /\ \A c \in Calls : WF_vars(ClientStep(c))

-----------------------------------------------------------------------------
(* Every variable keeps its type. *)
TypeOK == StateTypeOK /\ ClientTypeOK /\ ThreadTypeOK

(* acquire_adequate_lock, schedule functions and change_selected_alg: whoever *)
(* works on queued requests holds the lock of the structure that the current  *)
(* scheduler uses, even if the scheduler was changed while it waited.         *)
AdequateLockHeld ==
  /\ \A c \in Calls : InBody(c) => owner[AdequateLock(c[2])] = c
  /\ apc = "scan" => owner[k] = Thread
  /\ apc = "take" => owner[TakeLockIndex] = Thread
  /\ HoldsAll => \A l \in Locks : owner[l] = Thread

(* acquire_adequate_lock: no request waits in a "ghost" structure that the   *)
(* current scheduler never looks at.                                         *)
NoGhostRequest ==
  apc # "migrate" =>
    \A r \in Requests :
      Queued(r) => place[r] = IF NeedsHashtable(alg) THEN "hashtable"
                              ELSE "timeline"

(* "Now that we have it, other threads cannot change the scheduling          *)
(* algorithm": it changes only while no call is past its recheck.            *)
SchedulerStable ==
  [][alg' # alg => \A c \in Calls : ~InBody(c) /\ ~InBody(c)']_vars

(* agios_counters.c: the counters that decide whether the thread works or    *)
(* sleeps, and where SJF stops looking, agree with what is queued.           *)
Counted(S) == {r \in S : Queued(r) \/ place[r] = "held"}
CountersAgree ==
  /\ reqnb = Cardinality({r \in Counted(Requests) :
                             pc[<<"add", r>>] # "count"})
  /\ filenb = Cardinality({f \in Files : fileReqs[f] > 0})
  /\ \A f \in Files : fileReqs[f] =
       Cardinality({r \in Counted(Requests) : FileOf[QueueOf[r]] = f})
  /\ \A l \in Lines : lineReqs[l] =
       Cardinality({r \in Counted(Requests) : Line(r) = l})

(* Step 1 and step 2, by whichever thread: a request is given to the client  *)
(* at most once, only from a dispatch list, and never when it was cancelled. *)
HandedOnce ==
  \A r \in Requests :
    /\ handed[r] <= 1
    /\ handed[r] > 0 => place[r] \in {"dispatch", "released"}
    /\ r \in taken => handed[r] = 0 /\ place[r] \in {"dispatch", "released"}

(* agios_release_request: the request is in its dispatch list when its       *)
(* callback runs, so a release that follows the callback finds it.           *)
ReleaseFinds == \A r \in Requests : pc[<<"release", r>>] # "failed"

(* No assert fails and no pointer is used before it is set.                  *)
NoFault == fault = "none"

(* SJF.c: the scan is cut short only when "we know the rest of the hashtable *)
(* is empty".                                                                *)
ShortcutSound ==
  apc = "scan_next" /\ evaluated >= filenb =>
    \A l \in Lines : l > k => FilesOnLine(l) = {}

(* SJF.c: with requests counted, a scan finds a queue, so SJF never spins.   *)
ScanFindsQueue ==
  apc = "scan_next" /\ (evaluated >= filenb \/ k = NLines) => chosen # NoQueue

(* agios_cancel_request: "the file handle associated with the request": a    *)
(* cancel removes a request of its own file and type.                        *)
CancelsOwnQueue ==
  [][\A x \in Requests :
       place[x] # "cancelled" /\ place'[x] = "cancelled" =>
         \E r \in Requests : /\ QueueOf[r] = QueueOf[x]
                             /\ pc[<<"cancel", r>>] = "body"
                             /\ pc'[<<"cancel", r>>] = "done"]_vars

(* Every call of the client returns.                                         *)
CallsReturn == \A c \in Calls : InProgress(c) ~> ~InProgress(c)

(* Every queued request is given back, unless the client cancels it or exits *)
(* first; a lost wakeup only delays it until the timeout.                    *)
EventuallyHanded ==
  \A r \in Requests :
    Queued(r) ~> (handed[r] > 0 \/ place[r] = "cancelled" \/ stop)

(* agios_exit: the join returns.                                             *)
ExitEnds == stop ~> apc = "ended"

-----------------------------------------------------------------------------
(* The service a client sees (requests of distinct extents).                 *)
statusOf ==
  [r \in Requests |->
     CASE place[r] = "new" -> "new"
       [] place[r] = "cancelled" -> "cancelled"
       [] place[r] = "released" -> "released"
       [] place[r] = "dispatch" /\ handed[r] > 0 -> "delivered"
       [] OTHER -> "accepted"]

Service == INSTANCE AgiosService WITH status <- statusOf
(* AGIOS implements the service.                                             *)
ImplementsService == Service!ServiceSpec
=============================================================================
