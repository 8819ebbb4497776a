---------------------------- MODULE RequestStore ----------------------------
(***************************************************************************)
(* The queues of AGIOS with the requests in them: the read and write queue *)
(* of each file when the scheduler uses the hashtable, or the timeline,    *)
(* and the dispatch lists.  Every operation runs under the lock of its     *)
(* structure, and a change of scheduler, which moves all queued requests   *)
(* to the other structure, under all locks (module Agios), so each is one  *)
(* step here.                                                              *)
(***************************************************************************)
EXTENDS Aggregation

CONSTANTS
  Timeline,     \* the name of the timeline's list
  QueueOrder,   \* the queues in the order in which a migration visits them
  StartAlgs,    \* the scheduler may be one of these to begin with
  Selectable,   \* what a dynamic scheduler selects among
  Cancelable,   \* the requests the client may cancel
  Overlapping   \* may requests of one queue overlap while they are queued?

ASSUME StoreAssumption ==
  /\ Timeline \notin Queues
  /\ QueueOrder \in Seq(Queues) /\ ToSet(QueueOrder) = Queues
  /\ IsInjective(QueueOrder)
  /\ StartAlgs \subseteq {"TO", "TOAGG", "SW", "SJF", "NOOP"}
  \* TO-agg and SW stay once chosen: their migrations are not modelled
  /\ Selectable \subseteq {"TO", "SJF", "NOOP"}
  /\ Cancelable \subseteq Requests /\ Overlapping \in BOOLEAN

VARIABLES
  alg,          \* current_alg
  list,         \* the queues: queue_t.list of each queue, and the timeline
  dispatch,     \* queue_t.dispatch
  size,         \* queue_t.current_size
  fate          \* what became of each request: the struct is freed at the end

vars == <<alg, list, dispatch, size, fate>>

(* "SJF" stands for every scheduler with the hashtable and 16 to a group.   *)
NeedsHashtable(a) == a = "SJF"
Lists == Queues \cup {Timeline}
ListOf(r) == IF NeedsHashtable(alg) THEN QueueOf[r] ELSE Timeline
Members(s) == UNION {ToSet(e.reqs) : e \in ToSet(s)}
Queued(r) == r \in Members(list[ListOf(r)])
InDispatch(r) == r \in ToSet(dispatch[QueueOf[r]])

TypeOK ==
  /\ alg \in StartAlgs \cup Selectable
  /\ list \in [Lists -> Seq(Entries)]
  /\ dispatch \in [Queues -> Seq(Requests)]
  /\ size \in [Queues -> Nat]
  /\ fate \in [Requests -> {"new", "accepted", "cancelled", "released"}]

Init ==
  /\ alg \in StartAlgs
  /\ list = [l \in Lists |-> <<>>]
  /\ dispatch = [q \in Queues |-> <<>>]
  /\ size = [q \in Queues |-> 0]
  /\ fate = [r \in Requests |-> "new"]

-----------------------------------------------------------------------------
Overlap(x, r) ==
  QueueOf[x] = QueueOf[r] /\ Offset[x] < EndOf(r) /\ Offset[r] < EndOf(x)

(* The queue s once r is added to it.  SW looks for a request of a larger   *)
(* sw_priority, a field that nothing ever sets: r may end up anywhere.      *)
Inserted(s, r) ==
  CASE alg = "SJF" -> {HashtableInsert(s, r)}
    [] alg = "TOAGG" -> {TimelineInsert(s, r)}
    [] alg = "TO" -> {Append(s, Single(r))}
    [] alg = "SW" -> {InsertAt(s, i, Single(r)) : i \in 1..(Len(s) + 1)}
    [] OTHER -> {}

MayAdd(r) ==
  /\ fate[r] = "new"
  /\ Overlapping \/ \A x \in Requests : Queued(x) => ~Overlap(x, r)

Add(r) ==
  /\ MayAdd(r)
  /\ \E s \in Inserted(list[ListOf(r)], r) : list' = [list EXCEPT ![ListOf(r)] = s]
  /\ size' = [size EXCEPT ![QueueOf[r]] = @ + Length[r]]
  /\ fate' = [fate EXCEPT ![r] = "accepted"]
  /\ UNCHANGED <<alg, dispatch>>

(* With NOOP the client's call does step 1 as well: the size goes up and    *)
(* down, and the request is never in a queue.                               *)
AddNoop(r) ==
  /\ alg = "NOOP" /\ MayAdd(r)
  /\ dispatch' = [dispatch EXCEPT ![QueueOf[r]] = Append(@, r)]
  /\ fate' = [fate EXCEPT ![r] = "accepted"]
  /\ UNCHANGED <<alg, list, size>>

(* A cancel of r removes the first request of its extent that it finds;     *)
(* when it finds none it changes nothing.                                   *)
Cancel(r) ==
  /\ r \in Cancelable /\ fate[r] = "accepted"
  /\ LET s == list[ListOf(r)]
         i == FindEntry(s, r)
         x == MatchIn(s[i].reqs, r)
     IN IF i = 0 THEN UNCHANGED <<list, size, fate>>
        ELSE /\ list' = [list EXCEPT ![ListOf(r)] = Without(s, i, x)]
             /\ size' = [size EXCEPT ![QueueOf[x]] = @ - Length[x]]
             /\ fate' = [fate EXCEPT ![x] = "cancelled"]
  /\ UNCHANGED <<alg, dispatch>>

(* Mutant: the size of a queue is lowered by what the entry says it covers. *)
DispatchByLen(l, i) ==
  LET e == list[l][i]
      q == QueueOfEntry(e)
  IN /\ l = Timeline => i = 1
     /\ list' = [list EXCEPT ![l] = RemoveAt(@, i)]
     /\ dispatch' = [dispatch EXCEPT ![q] = @ \o e.reqs]
     /\ size' = [size EXCEPT ![q] = @ - e.len]
     /\ UNCHANGED <<alg, fate>>

(* A scheduler removes an entry from its list, the first of the timeline or *)
(* the one it chose in a queue, and step 1 puts its members in dispatch.    *)
Dispatch(l, i) ==
  LET e == list[l][i]
      q == QueueOfEntry(e)
  IN /\ l = Timeline => i = 1
     /\ list' = [list EXCEPT ![l] = RemoveAt(@, i)]
     /\ dispatch' = [dispatch EXCEPT ![q] = @ \o e.reqs]
     /\ size' = [size EXCEPT
                   ![q] = ForEach(LAMBDA n, x : n - Length[x], @, e.reqs)]
     /\ UNCHANGED <<alg, fate>>

(* A release frees the first request of its extent in the dispatch list.    *)
Release(r) ==
  /\ fate[r] = "accepted" /\ InDispatch(r)
  /\ LET q == QueueOf[r]
         x == MatchIn(dispatch[q], r)
     IN /\ dispatch' = [dispatch EXCEPT ![q] = RemoveFirst(@, x)]
        /\ fate' = [fate EXCEPT ![x] = "released"]
  /\ UNCHANGED <<alg, list, size>>

(* put_all_requests_in_timeline: the members of all virtual requests one by *)
(* one, queue after queue; the new scheduler does not aggregate.            *)
Parts(s) == ForEach(LAMBDA rs, e : rs \o e.reqs, <<>>, s)
AllParts == ForEach(LAMBDA rs, q : rs \o Parts(list[q]), <<>>, QueueOrder)
ToTimeline(a) ==
  [l \in Lists |->
     IF l # Timeline THEN <<>>
     ELSE IF a = "NOOP" THEN [i \in DOMAIN AllParts |-> Single(AllParts[i])]
     ELSE ForEach(TimeInsert, list[Timeline], AllParts)]

(* put_all_requests_in_hashtable: every request is added anew, and may be   *)
(* aggregated with those before it.                                         *)
Rehash(lists, r) == [lists EXCEPT ![QueueOf[r]] = HashtableInsert(@, r)]
ToHashtable ==
  [ForEach(Rehash, list, Parts(list[Timeline])) EXCEPT ![Timeline] = <<>>]

(* change_selected_alg.  Between two schedulers of the timeline nothing     *)
(* moves: not even what came out of the hashtable in no order for NOOP.     *)
ChangeScheduler(a) ==
  /\ alg \in Selectable /\ a # alg
  /\ alg' = a
  /\ list' = IF NeedsHashtable(alg) THEN ToTimeline(a)
             ELSE IF NeedsHashtable(a) THEN ToHashtable
             ELSE list
  /\ UNCHANGED <<dispatch, size, fate>>

(* The client has nothing left to do.                                       *)
Idle == (\A r \in Requests : fate[r] \in {"cancelled", "released"})
          /\ UNCHANGED vars

Next ==
  \/ \E r \in Requests : Add(r) \/ AddNoop(r) \/ Cancel(r) \/ Release(r)
  \/ \E l \in Lists : \E i \in DOMAIN list[l] : Dispatch(l, i)
  \/ \E a \in Selectable : ChangeScheduler(a)
  \/ Idle

Spec == Init /\ [][Next]_vars

-----------------------------------------------------------------------------
(* Add, cancel, process_requests_step1, release and the migrations move     *)
(* pointers between lists: a request that is not freed is linked exactly    *)
(* once, in the list of its queue (or the timeline) or in its dispatch      *)
(* list, one that is freed, or not there yet, nowhere.                      *)
LinkedOnce(s) ==
  /\ IsInjective(s) /\ \A e \in ToSet(s) : IsInjective(e.reqs)
  /\ \A d, e \in ToSet(s) : d # e => ToSet(d.reqs) \cap ToSet(e.reqs) = {}
Conservation ==
  /\ \A l \in Lists :
       LinkedOnce(list[l]) /\ \A r \in Members(list[l]) : ListOf(r) = l
  /\ \A q \in Queues :
       IsInjective(dispatch[q]) /\ \A r \in ToSet(dispatch[q]) : QueueOf[r] = q
  /\ \A r \in Requests :
       /\ ~(Queued(r) /\ InDispatch(r))
       /\ fate[r] = "accepted" <=> Queued(r) \/ InDispatch(r)

(* process_request.c: "when we aggregate overlapping requests, we don't     *)
(* adjust the related list current_size, since it is simply the sum of all  *)
(* requests sizes": what SJF compares is the data that is really queued.    *)
Bytes(R) == UNION {{r} \X (1..Length[r]) : r \in R}
QueuedOf(q) == {r \in Requests : QueueOf[r] = q /\ Queued(r)}
SizesAgree == \A q \in Queues : size[q] = Cardinality(Bytes(QueuedOf(q)))

(* hashtable_add_req: "the offset-sorted list": an entry of the hashtable   *)
(* never begins before the one in front of it, and the members of every     *)
(* entry, wherever it is, are given back in the order of their offsets.     *)
InOffsetOrder ==
  \A l \in Lists : \A i \in DOMAIN list[l] :
    /\ IsSorted(list[l][i].reqs, LAMBDA x, y : Offset[x] <= Offset[y])
    /\ l # Timeline /\ i > 1 => list[l][i - 1].offset <= list[l][i].offset

(* include_in_aggregation, join_aggregations, agios_cancel_request: offset  *)
(* and len of an entry are those of the range its members cover.            *)
HullExact ==
  \A l \in Lists : \A i \in DOMAIN list[l] :
    list[l][i] = Over(list[l][i].reqs)

(* agios_cancel_request: "no need to look if the request we're looking for  *)
(* is not inside this one": a cancel of a queued request finds a match.     *)
CancelFinds == \A r \in Requests : Queued(r) => FindEntry(list[ListOf(r)], r) # 0

(* __timeline_add_req: "we need to make sure requests are ordered by time": *)
(* what comes out of the hashtable, queue after queue and group after       *)
(* group, is served by TO in the order in which it was requested.           *)
InTimeOrder(s) == IsSorted(s, LAMBDA d, e : Stamp[Head(d.reqs)] <= Stamp[Head(e.reqs)])
TimeOrderAfterMigration ==
  [][NeedsHashtable(alg) /\ alg' = "TO" => InTimeOrder(list'[Timeline])]_vars

NoCancelYet == \A r \in Requests : fate[r] # "cancelled"

(* CHECK_AGGREGATE: until something is cancelled, the members of an entry   *)
(* are contiguous one by one, so that they can be served by one access.     *)
NoHoles ==
  NoCancelYet =>
    \A l \in Lists : \A i \in DOMAIN list[l] :
      LET rs == list[l][i].reqs
      IN \A j \in 1..(Len(rs) - 1) : EndOf(rs[j]) = Offset[rs[j + 1]]

(* insert_aggregations: until something is cancelled, two neighbours in a   *)
(* queue of the hashtable stay apart only if they are not contiguous or     *)
(* together too large.                                                      *)
MaximalAggregation ==
  NoCancelYet =>
    \A q \in Queues : \A i \in 2..Len(list[q]) :
      ~Mergeable(list[q][i - 1], list[q][i])

-----------------------------------------------------------------------------
placeOf ==
  [r \in Requests |->
     IF fate[r] # "accepted" THEN fate[r]
     ELSE IF InDispatch(r) THEN "dispatch" ELSE "queued"]

Groups == INSTANCE GroupStore WITH place <- placeOf
(* The queues are a GroupStore: what the model of the library assumes of    *)
(* them is what they do.  As every entry may be taken, none ever mixes      *)
(* queues or has more members than max_aggreg_size, also after a join.      *)
ImplementsGroups == Groups!GroupSpec

-----------------------------------------------------------------------------
(* What makes these inductive: no entry is larger than the scheduler allows *)
(* and none mixes queues.                                                   *)
Fits(e) ==
  /\ Size(e) <= MaxAggregSize
  /\ \A x, y \in ToSet(e.reqs) : QueueOf[x] = QueueOf[y]
GroupsFit == \A l \in Lists : \A e \in ToSet(list[l]) : Fits(e)
=============================================================================
