---------------------------- MODULE AgiosService ----------------------------
(***************************************************************************)
(* What AGIOS promises its client, whatever the scheduler: a request that  *)
(* was added is given back at most once through the callback, or leaves    *)
(* because it was cancelled, never both; it is released only after it was  *)
(* given back; nothing changes a request that is gone.  Requests may be    *)
(* given back one by one or, through the list callback, several at once.   *)
(***************************************************************************)
CONSTANTS Requests

VARIABLE status

Statuses == {"new", "accepted", "delivered", "released", "cancelled"}
ServiceTypeOK == status \in [Requests -> Statuses]

ServiceInit == status = [r \in Requests |-> "new"]

Becomes(S, old, new) ==
  /\ \A r \in S : status[r] = old
  /\ status' = [r \in Requests |-> IF r \in S THEN new ELSE status[r]]

Accept(r) == Becomes({r}, "new", "accepted")
Deliver(S) == Becomes(S, "accepted", "delivered")
Cancel(r) == Becomes({r}, "accepted", "cancelled")
Forget(r) == Becomes({r}, "delivered", "released")

ServiceNext ==
  \/ \E r \in Requests : Accept(r) \/ Cancel(r) \/ Forget(r)
  \/ \E S \in SUBSET Requests : Deliver(S)

ServiceSpec == ServiceInit /\ [][ServiceNext]_status
=============================================================================
