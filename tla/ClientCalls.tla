----------------------------- MODULE ClientCalls -----------------------------
(***************************************************************************)
(* The three calls of a client thread: agios_add_request,                  *)
(* agios_cancel_request and agios_release_request.  Each starts by         *)
(* acquiring the adequate lock (data_structures.c): it reads which         *)
(* structure the current scheduler uses, waits for its lock, and reads     *)
(* again, for the agios thread may have migrated the requests meanwhile.   *)
(***************************************************************************)
EXTENDS AgiosState

VARIABLES
  pc,    \* where each call is
  need   \* previous_needs_hashtable, local to each call

clientVars == <<pc, need>>

ClientPCs == {"idle", "read", "lock", "check", "body", "count", "finish",
              "callback", "done", "failed"}
ClientTypeOK == pc \in [Calls -> ClientPCs] /\ need \in [Calls -> BOOLEAN]
ClientInit ==
  /\ pc = [c \in Calls |-> "idle"]
  /\ need = [c \in Calls |-> FALSE]

InProgress(c) == pc[c] \notin {"idle", "done", "failed"}
(* Past the recheck and before the unlock: the call works on the structure. *)
InBody(c) == pc[c] \in {"body", "count", "finish"}
HoldsLock(c) == pc[c] = "check" \/ InBody(c)

Goto(c, label) == pc' = [pc EXCEPT ![c] = label]
Unlock(c) == Release(LockFor(c[2], need[c]))
Return(c, label) ==
  /\ Goto(c, label)
  /\ need' = [need EXCEPT ![c] = FALSE]

-----------------------------------------------------------------------------
(* A legal client: one call of each kind for a request, cancel once add     *)
(* has returned and release is not called yet, release after the callback,  *)
(* nothing once agios_exit is called.                                       *)
MayCall(c) ==
  /\ ~stop /\ (EarlyClients \/ alg # NoAlg)
  /\ pc[c] = "idle"
  /\ c[1] = "cancel" => /\ c[2] \in Cancelable
                        /\ pc[<<"add", c[2]>>] = "done"
                        /\ pc[<<"release", c[2]>>] = "idle"
  /\ c[1] = "release" => handed[c[2]] > 0

Call(c) == MayCall(c) /\ Goto(c, "read") /\ UNCHANGED <<stateVars, need>>

(* acquire_adequate_lock: current_scheduler is read without any lock. *)
ReadScheduler(c) ==
  /\ pc[c] = "read"
  /\ IF alg = NoAlg
     THEN fault' = "null_scheduler" /\ UNCHANGED clientVars
     ELSE /\ need' = [need EXCEPT ![c] = NeedsHashtable(alg)]
          /\ Goto(c, "lock")
          /\ UNCHANGED fault
  /\ UNCHANGED <<alg, owner, place, counters, handed, asleep, stop>>

Lock(c) ==
  /\ pc[c] = "lock"
  /\ Acquire(c, LockFor(c[2], need[c]))
  /\ Goto(c, "check")
  /\ UNCHANGED <<alg, place, counters, handed, asleep, stop, fault, need>>

(* Mutants: no second look at the scheduler, and the comparison negated.    *)
RecheckSkipped(c) ==
  /\ pc[c] = "check" /\ Goto(c, "body")
  /\ UNCHANGED <<stateVars, need>>

RecheckNegated(c) ==
  /\ pc[c] = "check"
  /\ IF need[c] = NeedsHashtable(alg)
     THEN Unlock(c) /\ Goto(c, "read")
     ELSE UNCHANGED owner /\ Goto(c, "body")
  /\ UNCHANGED <<alg, place, counters, handed, asleep, stop, fault, need>>

Recheck(c) ==
  /\ pc[c] = "check"
  /\ IF need[c] # NeedsHashtable(alg)
     THEN Unlock(c) /\ Goto(c, "read")
     ELSE UNCHANGED owner /\ Goto(c, "body")
  /\ UNCHANGED <<alg, place, counters, handed, asleep, stop, fault, need>>

-----------------------------------------------------------------------------
(* agios_add_request.  NOOP does not link the request, it only counts it.   *)
AddLink(r) ==
  /\ pc[<<"add", r>>] = "body"
  /\ place' = [place EXCEPT ![r] = IF NeedsHashtable(alg) THEN "hashtable"
                                   ELSE IF alg = "NOOP" THEN "held"
                                   ELSE "timeline"]
  /\ CountFile(FileOf[QueueOf[r]])
  /\ lineReqs' = [lineReqs EXCEPT ![Line(r)] = @ + 1]
  /\ Goto(<<"add", r>>, "count")
  /\ UNCHANGED <<alg, owner, reqnb, handed, asleep, stop, fault, need>>

AddCount(r) ==
  /\ pc[<<"add", r>>] = "count"
  /\ reqnb' = reqnb + 1
  /\ Goto(<<"add", r>>, "finish")
  /\ UNCHANGED <<alg, owner, place, filenb, lineReqs, fileReqs, handed,
                 asleep, stop, fault, need>>

AddSignal(r) ==
  /\ pc[<<"add", r>>] = "finish" /\ alg # "NOOP"
  /\ Signal
  /\ Unlock(<<"add", r>>)
  /\ Return(<<"add", r>>, "done")
  /\ UNCHANGED <<alg, place, counters, handed, stop, fault>>

(* Mutant: the callback is called, but the request never went to dispatch.  *)
AddNoopUndispatched(r) ==
  /\ pc[<<"add", r>>] = "finish" /\ alg = "NOOP"
  /\ Unlock(<<"add", r>>)
  /\ Return(<<"add", r>>, "callback")
  /\ UNCHANGED <<alg, place, counters, handed, asleep, stop, fault>>

(* With NOOP the client thread processes its request itself. *)
AddNoop(r) ==
  /\ pc[<<"add", r>>] = "finish" /\ alg = "NOOP"
  /\ ProcessStep1({r}, QueueOf[r])
  /\ Unlock(<<"add", r>>)
  /\ Return(<<"add", r>>, "callback")
  /\ UNCHANGED <<alg, handed, asleep, stop, fault>>

AddCallback(r) ==
  /\ pc[<<"add", r>>] = "callback"
  /\ ProcessStep2({r})
  /\ Goto(<<"add", r>>, "done")
  /\ UNCHANGED <<alg, owner, place, counters, asleep, stop, fault, need>>

-----------------------------------------------------------------------------
(* Mutant: the dispatch list is searched as well.                           *)
CancelMatchesDispatched(r) ==
  {x \in Requests : /\ ExtentOf[x] = ExtentOf[r] /\ QueueOf[x] = QueueOf[r]
                    /\ Queued(x) \/ place[x] = "dispatch"}

(* agios_cancel_request: in a queue of the hashtable, or in the whole       *)
(* timeline, a request of that offset and length leaves.  The line counter  *)
(* is that of the caller's file.  Whether the range of an aggregation still *)
(* covers its member (agios_cancel_request.c:83) is RequestStore's matter.  *)
CancelMatches(r) ==
  {x \in Requests : /\ ExtentOf[x] = ExtentOf[r]
                    /\ IF need[<<"cancel", r>>]
                       THEN place[x] = "hashtable" /\ QueueOf[x] = QueueOf[r]
                       ELSE place[x] = "timeline"}

CancelBody(r) ==
  /\ pc[<<"cancel", r>>] = "body"
  /\ \/ CancelMatches(r) = {} /\ UNCHANGED <<place, counters>>
     \/ \E x \in CancelMatches(r) :
          /\ place' = [place EXCEPT ![x] = "cancelled"]
          /\ Uncount(FileOf[QueueOf[x]], Line(r), 1)
  /\ Unlock(<<"cancel", r>>)
  /\ Return(<<"cancel", r>>, "done")
  /\ UNCHANGED <<alg, handed, asleep, stop, fault>>

(* agios_release_request: the first request of that offset and length in    *)
(* the dispatch list is freed; the call fails when there is none.           *)
ReleaseMatches(r) ==
  {x \in Requests : /\ place[x] = "dispatch" /\ QueueOf[x] = QueueOf[r]
                    /\ ExtentOf[x] = ExtentOf[r]}

ReleaseBody(r) ==
  /\ pc[<<"release", r>>] = "body"
  /\ IF ReleaseMatches(r) = {}
     THEN Return(<<"release", r>>, "failed") /\ UNCHANGED place
     ELSE /\ \E x \in ReleaseMatches(r) :
               place' = [place EXCEPT ![x] = "released"]
          /\ Return(<<"release", r>>, "done")
  /\ Unlock(<<"release", r>>)
  /\ UNCHANGED <<alg, counters, handed, asleep, stop, fault>>

-----------------------------------------------------------------------------
AddStep(r) == AddLink(r) \/ AddCount(r) \/ AddSignal(r) \/ AddNoop(r)
                \/ AddCallback(r)
LockStep(c) == ReadScheduler(c) \/ Lock(c) \/ Recheck(c)

(* What the client thread running call c does once it has called. *)
CallStep(c) ==
  \/ LockStep(c)
  \/ c[1] = "add" /\ AddStep(c[2])
  \/ c[1] = "cancel" /\ CancelBody(c[2])
  \/ c[1] = "release" /\ ReleaseBody(c[2])

(* agios_exit, called when no other call runs: it also joins the thread.    *)
Exit ==
  /\ ~stop /\ \A c \in Calls : ~InProgress(c)
  /\ stop' = TRUE
  /\ Signal
  /\ UNCHANGED <<alg, owner, place, counters, handed, fault, clientVars>>
=============================================================================
