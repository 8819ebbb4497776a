----------------------------- MODULE Aggregation -----------------------------
(***************************************************************************)
(* How AGIOS aggregates: the (virtual) requests that queues are made of,   *)
(* and what adding a request to a queue, or cancelling one in it, makes of *)
(* the queue.  Pure operators; RequestStore is the state machine.          *)
(*                                                                         *)
(* An entry of a queue is one struct request_t, virtual when it has more   *)
(* than one member (reqs_list).  Its offset and len are what the code      *)
(* keeps in the struct, which is not always what its members cover.        *)
(***************************************************************************)
EXTENDS Lists, SequencesExt

CONSTANTS
  Requests,
  Queues,        \* the read and write queues of the files
  QueueOf,       \* [Requests -> Queues]
  Offset,        \* [Requests -> Nat]
  Length,        \* [Requests -> Nat]
  Stamp,         \* [Requests -> Nat], g_last_timestamp when it was made
  MaxAggregSize  \* of the schedulers that aggregate

ASSUME AggregationAssumption ==
  /\ IsFiniteSet(Requests) /\ QueueOf \in [Requests -> Queues]
  /\ Offset \in [Requests -> Nat] /\ Length \in [Requests -> Nat]
  /\ Stamp \in [Requests -> Nat]
  /\ MaxAggregSize \in Nat \ {0}

Entries == [offset : Int, len : Int, reqs : Seq(Requests) \ {<<>>}]
Single(r) == [offset |-> Offset[r], len |-> Length[r], reqs |-> <<r>>]
End(e) == e.offset + e.len
EndOf(r) == Offset[r] + Length[r]
Size(e) == Len(e.reqs)
QueueOfEntry(e) == QueueOf[Head(e.reqs)]

-----------------------------------------------------------------------------
(* Mutant: off by one.                                                      *)
ContiguousNearly(a, b) == a.offset <= b.offset /\ End(a) + 1 >= b.offset

(* CHECK_AGGREGATE(a, b): b begins inside a, or where a ends.               *)
Contiguous(a, b) == a.offset <= b.offset /\ End(a) >= b.offset

(* insert_aggregations: together they are not too many.                     *)
Mergeable(a, b) == Contiguous(a, b) /\ Size(a) + Size(b) <= MaxAggregSize

(* include_in_aggregation: r goes first or last, and the length is computed *)
(* from r alone.                                                            *)
Include(e, r) ==
  IF Offset[r] <= e.offset
  THEN [offset |-> Offset[r], len |-> e.len + (e.offset - Offset[r]),
        reqs |-> <<r>> \o e.reqs]
  ELSE [offset |-> e.offset, len |-> EndOf(r) - e.offset,
        reqs |-> Append(e.reqs, r)]

(* Mutant: the loop over the tail leaves its last member behind.            *)
JoinDropsLast(head, tail) == ForEach(Include, head, Front(tail.reqs))

(* join_aggregations: the members of the tail are included one by one.      *)
Join(head, tail) == ForEach(Include, head, tail.reqs)

(* The entry of members rs as agios_cancel_request computes it anew.        *)
Over(rs) ==
  LET start == Min({Offset[x] : x \in ToSet(rs)})
  IN [offset |-> start, len |-> Max({EndOf(x) : x \in ToSet(rs)}) - start,
      reqs |-> rs]

-----------------------------------------------------------------------------
(* Mutant: the queue is not searched.                                       *)
PositionLast(s, r) == Len(s) + 1

(* Where hashtable_add_req puts r in queue s: before the first entry that   *)
(* begins later, or at the same offset and is longer.                       *)
Position(s, r) ==
  LET i == SelectInSeq(s, LAMBDA e : \/ e.offset > Offset[r]
                                     \/ e.offset = Offset[r] /\ e.len > Length[r])
  IN IF i = 0 THEN Len(s) + 1 ELSE i

(* Mutant: the next entry is not joined.                                    *)
HashtableInsertNoJoin(s, r) ==
  LET p == Position(s, r)
  IN IF p > 1 /\ Mergeable(s[p - 1], Single(r))
     THEN ReplaceAt(s, p - 1, Include(s[p - 1], r))
     ELSE IF p <= Len(s) /\ Mergeable(Single(r), s[p])
     THEN ReplaceAt(s, p, Include(s[p], r))
     ELSE InsertAt(s, p, Single(r))

(* hashtable_add_req with insert_aggregations: into the previous entry,     *)
(* which may then be joined with the next, or into the next, or alone.      *)
HashtableInsert(s, r) ==
  LET p == Position(s, r)
      previous == Include(s[p - 1], r)
  IN IF p > 1 /\ Mergeable(s[p - 1], Single(r))
     THEN IF p <= Len(s) /\ Mergeable(previous, s[p])
          THEN RemoveAt(ReplaceAt(s, p - 1, Join(previous, s[p])), p)
          ELSE ReplaceAt(s, p - 1, previous)
     ELSE IF p <= Len(s) /\ Mergeable(Single(r), s[p])
     THEN ReplaceAt(s, p, Include(s[p], r))
     ELSE InsertAt(s, p, Single(r))

(* Mutant: the queue is not compared.                                       *)
TakesInAny(e, r) ==
  /\ Size(e) < MaxAggregSize
  /\ Contiguous(Single(r), e) \/ Contiguous(e, Single(r))

(* __timeline_add_req under TO and TO-agg: into the first entry of the      *)
(* queue that has room and is contiguous on either side, or at the end.     *)
TakesIn(e, r) ==
  /\ QueueOfEntry(e) = QueueOf[r]
  /\ Size(e) < MaxAggregSize
  /\ Contiguous(Single(r), e) \/ Contiguous(e, Single(r))

TimelineInsert(s, r) ==
  LET i == SelectInSeq(s, LAMBDA e : TakesIn(e, r))
  IN IF i = 0 THEN Append(s, Single(r)) ELSE ReplaceAt(s, i, Include(s[i], r))

(* Mutant: the search goes on to the last later one.                        *)
TimeInsertLate(s, r) ==
  LET i == SelectLastInSeq(s, LAMBDA e : Stamp[Head(e.reqs)] > Stamp[r])
  IN IF i = 0 THEN Append(s, Single(r)) ELSE InsertAt(s, i, Single(r))

(* __timeline_add_req for a request that comes from the hashtable: before   *)
(* the first one that was made later.  Nothing in the list is virtual.      *)
TimeInsert(s, r) ==
  LET i == SelectInSeq(s, LAMBDA e : Stamp[Head(e.reqs)] > Stamp[r])
  IN IF i = 0 THEN Append(s, Single(r)) ELSE InsertAt(s, i, Single(r))

-----------------------------------------------------------------------------
(* agios_cancel_request: a virtual request is searched only if the request  *)
(* asked for lies inside what its offset and len say.                       *)
SameExtent(x, r) == Offset[x] = Offset[r] /\ Length[x] = Length[r]
Covers(e, r) == e.offset <= Offset[r] /\ End(e) >= EndOf(r)
HasMatch(e, r) ==
  /\ Size(e) > 1 => Covers(e, r)
  /\ \E x \in ToSet(e.reqs) : SameExtent(x, r)

FindEntry(s, r) == SelectInSeq(s, LAMBDA e : HasMatch(e, r))
MatchIn(rs, r) == rs[SelectInSeq(rs, LAMBDA x : SameExtent(x, r))]

(* Mutants: the entry keeps the offset and len it had; an entry that loses  *)
(* its only member stays.                                                   *)
WithoutStale(s, i, x) ==
  IF Size(s[i]) = 1 THEN RemoveAt(s, i)
  ELSE ReplaceAt(s, i, [s[i] EXCEPT !.reqs = RemoveFirst(@, x)])
WithoutKeepsEmpty(s, i, x) ==
  ReplaceAt(s, i, [s[i] EXCEPT !.reqs = RemoveFirst(@, x)])

(* Queue s without member x of its entry number i.                          *)
Without(s, i, x) ==
  IF Size(s[i]) = 1 THEN RemoveAt(s, i)
  ELSE ReplaceAt(s, i, Over(RemoveFirst(s[i].reqs, x)))
=============================================================================
