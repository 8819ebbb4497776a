----------------------------- MODULE GroupStore -----------------------------
(***************************************************************************)
(* What the queues promise the rest of the library: every request that was *)
(* put in is taken out exactly once, alone or in a group of one queue that *)
(* is no larger than the scheduler allows, or is cancelled; what was taken *)
(* out can be released once.  This is all that module AgiosState says of   *)
(* the queues (Groups, place).                                             *)
(***************************************************************************)
EXTENDS Naturals, FiniteSets

CONSTANTS Requests, Queues, QueueOf, MaxAggregSize

VARIABLE place

Places == {"new", "queued", "dispatch", "cancelled", "released"}
In(p) == {r \in Requests : place[r] = p}
Move(G, p) == place' = [r \in Requests |-> IF r \in G THEN p ELSE place[r]]

GroupInit == place = [r \in Requests |-> "new"]

(* NOOP gives a request back as it comes.                                   *)
Pass == \E r \in In("new") : Move({r}, "dispatch")
Put == \E r \in In("new") : Move({r}, "queued")
Take ==
  \E q \in Queues : \E G \in SUBSET {r \in In("queued") : QueueOf[r] = q} :
    G # {} /\ Cardinality(G) <= MaxAggregSize /\ Move(G, "dispatch")
Drop == \E r \in In("queued") : Move({r}, "cancelled")
Free == \E r \in In("dispatch") : Move({r}, "released")

GroupSpec == GroupInit /\ [][Put \/ Pass \/ Take \/ Drop \/ Free]_place
=============================================================================
