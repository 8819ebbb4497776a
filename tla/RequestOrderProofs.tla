------------------------- MODULE RequestOrderProofs -------------------------
(***************************************************************************)
(* Proofs about the order and the extent of what RequestStore keeps: that  *)
(* the offset and len of an entry are what its members cover, that the     *)
(* members are contiguous and in the order of their offsets, that a queue  *)
(* of the hashtable is sorted, and that it is aggregated as far as it can  *)
(* be.  They hold for a client that does not use again what it cancelled;  *)
(* run refill shows what happens when it does.                             *)
(***************************************************************************)
EXTENDS RequestStoreProofs

(* What is asked of the client: requests of one queue do not overlap while  *)
(* both are queued, none is empty, and one that can be cancelled (or can be *)
(* taken for one that is) overlaps no other at any time.                    *)
Tidy ==
  /\ ~Overlapping /\ \A r \in Requests : Length[r] > 0
  /\ \A c \in Cancelable, x, y \in Requests :
       SameExtent(x, c) /\ x # y => ~Overlap(x, y)

(* An entry: its members are in order, and its offset and len are theirs.   *)
Fine(e) ==
  /\ e.offset = Offset[e.reqs[1]] /\ End(e) = EndOf(e.reqs[Size(e)])
  /\ \A i, j \in 1..Size(e) : i < j => EndOf(e.reqs[i]) <= Offset[e.reqs[j]]
Tight(e) == \A j \in 1..(Size(e) - 1) : EndOf(e.reqs[j]) = Offset[e.reqs[j + 1]]

(* Where it has a hole, something was cancelled: C is what was.             *)
Outside(y, e) == EndOf(y) <= e.offset \/ End(e) <= Offset[y]
Guarded(e, C) ==
  \A y \in Requests :
    QueueOf[y] = QueueOfEntry(e) /\ ~Outside(y, e) =>
      y \in C \/ \E x \in ToSet(e.reqs) : Overlap(x, y)
Neat(e, C) == Fine(e) /\ Guarded(e, C) /\ (C = {} => Tight(e))

(* A list, and a queue of the hashtable.                                    *)
Apart(R) == \A x, y \in R : x # y => ~Overlap(x, y)
AllNeat(s, C) == \A e \in ToSet(s) : Neat(e, C)
Ranged(s) == \A i, j \in 1..Len(s) : i < j => End(s[i]) <= s[j].offset
Maximal(s) == \A i \in 2..Len(s) : ~Mergeable(s[i - 1], s[i])
InRow(s, C) == Ranged(s) /\ (C = {} => Maximal(s))

-----------------------------------------------------------------------------
(* One entry.                                                               *)
NoneEmpty == \A r \in Requests : Length[r] > 0

LEMMA Extent ==
  ASSUME NoneEmpty, NEW r \in Requests
  PROVE  /\ Offset[r] \in Int /\ EndOf(r) \in Int /\ Offset[r] < EndOf(r)
         /\ EndOf(r) = Offset[r] + Length[r] /\ Length[r] \in Int
<1>1. Offset[r] \in Nat /\ Length[r] \in Nat /\ Length[r] > 0
  BY AggregationAssumption DEF NoneEmpty
<1> QED
  BY <1>1 DEF EndOf

LEMMA FineHull ==
  ASSUME NoneEmpty, NEW e \in Entries, Fine(e)
  PROVE  /\ e.offset \in Int /\ End(e) \in Int /\ e.offset < End(e)
         /\ e.len = End(e) - e.offset
         /\ \A x \in ToSet(e.reqs) : e.offset <= Offset[x] /\ EndOf(x) <= End(e)
<1> DEFINE n == Size(e)
<1>1. /\ n \in Nat \ {0} /\ n = Len(e.reqs) /\ e.offset \in Int /\ e.len \in Int
      /\ e.reqs \in Seq(Requests) /\ DOMAIN e.reqs = 1..n
  BY MembersOfEntry
<1>2. \A k \in 1..n : e.reqs[k] \in Requests
  BY <1>1, LenProperties
<1>3. End(e) = e.offset + e.len
  BY DEF End
<1>4. /\ 1 \in 1..n /\ n \in 1..n
  BY <1>1
<1>5. ASSUME NEW k \in 1..n
      PROVE  e.offset <= Offset[e.reqs[k]] /\ EndOf(e.reqs[k]) <= End(e)
  <2>1. /\ Offset[e.reqs[1]] \in Int /\ EndOf(e.reqs[1]) \in Int
        /\ Offset[e.reqs[1]] < EndOf(e.reqs[1])
    BY <1>2, <1>4, Extent
  <2>2. /\ Offset[e.reqs[n]] \in Int /\ EndOf(e.reqs[n]) \in Int
        /\ Offset[e.reqs[n]] < EndOf(e.reqs[n])
    BY <1>2, <1>4, Extent
  <2>3. /\ Offset[e.reqs[k]] \in Int /\ EndOf(e.reqs[k]) \in Int
        /\ Offset[e.reqs[k]] < EndOf(e.reqs[k])
    BY <1>2, Extent
  <2>4. e.offset = Offset[e.reqs[1]] /\ End(e) = EndOf(e.reqs[n])
    BY DEF Fine
  <2>5. e.offset <= Offset[e.reqs[k]]
    <3>1. CASE k = 1
      BY <2>3, <2>4, <3>1
    <3>2. CASE k # 1
      <4>1. 1 < k
        BY <1>1, <3>2
      <4>2. EndOf(e.reqs[1]) <= Offset[e.reqs[k]]
        BY <1>4, <4>1 DEF Fine
      <4> QED
        BY <2>1, <2>3, <2>4, <4>2
    <3> QED
      BY <3>1, <3>2
  <2>6. EndOf(e.reqs[k]) <= End(e)
    <3>1. CASE k = n
      BY <2>3, <2>4, <3>1
    <3>2. CASE k # n
      <4>1. k < n
        BY <1>1, <3>2
      <4>2. EndOf(e.reqs[k]) <= Offset[e.reqs[n]]
        BY <1>4, <4>1 DEF Fine
      <4> QED
        BY <2>2, <2>3, <2>4, <4>2
    <3> QED
      BY <3>1, <3>2
  <2> QED
    BY <2>5, <2>6
<1>6. e.offset < End(e)
  <2>1. e.offset <= Offset[e.reqs[1]] /\ EndOf(e.reqs[1]) <= End(e)
    BY <1>4, <1>5
  <2>2. /\ Offset[e.reqs[1]] \in Int /\ EndOf(e.reqs[1]) \in Int
        /\ Offset[e.reqs[1]] < EndOf(e.reqs[1])
    BY <1>2, <1>4, Extent
  <2>3. End(e) \in Int
    BY <1>1, <1>3
  <2> QED
    BY <1>1, <2>1, <2>2, <2>3
<1>7. \A x \in ToSet(e.reqs) : e.offset <= Offset[x] /\ EndOf(x) <= End(e)
  BY <1>1, <1>5 DEF ToSet
<1>8. End(e) \in Int /\ e.len = End(e) - e.offset
  BY <1>1, <1>3
<1> QED
  BY <1>1, <1>6, <1>7, <1>8

LEMMA SingleNeat ==
  ASSUME NoneEmpty, NEW r \in Requests, NEW C
  PROVE  /\ Neat(Single(r), C) /\ Single(r).offset = Offset[r]
         /\ End(Single(r)) = EndOf(r) /\ QueueOfEntry(Single(r)) = QueueOf[r]
<1> DEFINE e == Single(r)
<1>1. /\ e.offset = Offset[r] /\ e.len = Length[r] /\ e.reqs = <<r>>
      /\ Size(e) = 1 /\ ToSet(e.reqs) = {r} /\ e.reqs[1] = r /\ Head(e.reqs) = r
  BY SingleFits DEF Single
<1>2. /\ Offset[r] \in Int /\ EndOf(r) \in Int /\ Offset[r] < EndOf(r)
      /\ EndOf(r) = Offset[r] + Length[r]
  BY Extent
<1>3. End(e) = EndOf(r) /\ QueueOfEntry(e) = QueueOf[r]
  BY <1>1, <1>2 DEF End, QueueOfEntry
<1> HIDE DEF e
<1>4. Fine(e) /\ Tight(e)
  <2>1. \A i, j \in 1..1 : ~(i < j)
    OBVIOUS
  <2>2. 1..(1 - 1) = {}
    OBVIOUS
  <2>3. Fine(e)
    BY <1>1, <1>3, <2>1 DEF Fine
  <2>4. Tight(e)
    BY <1>1, <2>2 DEF Tight
  <2> QED
    BY <2>3, <2>4
<1>5. Guarded(e, C)
  <2> SUFFICES ASSUME NEW y \in Requests, QueueOf[y] = QueueOf[r], ~Outside(y, e)
               PROVE  Overlap(r, y)
    BY <1>1, <1>3 DEF Guarded
  <2>1. Offset[y] \in Int /\ EndOf(y) \in Int
    BY Extent
  <2> QED
    BY <1>1, <1>2, <1>3, <2>1 DEF Outside, Overlap
<1> QED
  BY <1>1, <1>3, <1>4, <1>5 DEF Neat, e

-----------------------------------------------------------------------------
(* Two entries as one: what every aggregation makes.                        *)
Glue(d, e) == [offset |-> d.offset, len |-> End(e) - d.offset, reqs |-> d.reqs \o e.reqs]

LEMMA GlueMembers ==
  ASSUME NEW d \in Entries, NEW e \in Entries, End(e) \in Int
  PROVE  /\ Glue(d, e) \in Entries /\ Glue(d, e).offset = d.offset
         /\ End(Glue(d, e)) = End(e) /\ Size(Glue(d, e)) = Size(d) + Size(e)
         /\ ToSet(Glue(d, e).reqs) = ToSet(d.reqs) \cup ToSet(e.reqs)
         /\ QueueOfEntry(Glue(d, e)) = QueueOfEntry(d)
         /\ \A k \in 1..(Size(d) + Size(e)) : Glue(d, e).reqs[k] =
              IF k <= Size(d) THEN d.reqs[k] ELSE e.reqs[k - Size(d)]
<1> DEFINE rs == d.reqs \o e.reqs
           g == Glue(d, e)
<1>1. /\ d.reqs \in Seq(Requests) /\ d.offset \in Int
      /\ Len(d.reqs) \in Nat \ {0} /\ Size(d) = Len(d.reqs) /\ Head(d.reqs) = d.reqs[1]
  BY MembersOfEntry
<1>2. /\ e.reqs \in Seq(Requests) /\ Len(e.reqs) \in Nat \ {0}
      /\ Size(e) = Len(e.reqs)
  BY MembersOfEntry
<1>3. /\ rs \in Seq(Requests) /\ Len(rs) = Len(d.reqs) + Len(e.reqs)
      /\ \A k \in 1..(Len(d.reqs) + Len(e.reqs)) : rs[k] =
           IF k <= Len(d.reqs) THEN d.reqs[k] ELSE e.reqs[k - Len(d.reqs)]
  BY <1>1, <1>2, ConcatProperties
<1>4. rs \in Seq(Requests) /\ Len(rs) = Len(d.reqs) + Len(e.reqs)
  BY <1>3
<1>5. ToSet(rs) = ToSet(d.reqs) \cup ToSet(e.reqs)
  BY <1>1, <1>2, Concatenation
<1>6. g = [offset |-> d.offset, len |-> End(e) - d.offset, reqs |-> rs]
  BY DEF Glue
<1> HIDE DEF rs, g
<1>7. rs # <<>> /\ rs[1] = d.reqs[1]
  <2> DEFINE m == Len(d.reqs)
             n == Len(e.reqs)
  <2>0. m \in Nat \ {0} /\ n \in Nat \ {0} /\ Len(rs) = m + n
    BY <1>1, <1>2, <1>4
  <2> HIDE DEF m, n
  <2>1. Len(rs) # 0 /\ 1 \in 1..(m + n) /\ 1 <= m
    BY <2>0
  <2>2. Len(<<>>) = 0
    OBVIOUS
  <2>3. rs # <<>>
    BY <2>1, <2>2
  <2>4. rs[1] = d.reqs[1]
    BY <1>3, <2>1 DEF m, n
  <2> QED
    BY <2>3, <2>4
<1>8. g \in Entries /\ g.offset = d.offset /\ g.reqs = rs /\ g.len = End(e) - d.offset
  <2> DEFINE w == End(e) - d.offset
  <2>1. w \in Int
    BY <1>1
  <2>2. g = [offset |-> d.offset, len |-> w, reqs |-> rs]
    BY <1>6
  <2> HIDE DEF w
  <2>3. /\ g \in Entries /\ g.offset = d.offset /\ g.reqs = rs /\ g.len = w
    BY <1>1, <1>3, <1>7, <2>1, <2>2 DEF Entries
  <2> QED
    BY <2>3 DEF w
<1>9. End(g) = End(e)
  BY <1>1, <1>8 DEF End
<1>10. Head(rs) = rs[1]
  <2>1. rs # <<>>
    BY <1>7
  <2> QED
    BY <1>4, <2>1
<1>11. QueueOfEntry(g) = QueueOfEntry(d)
  BY <1>1, <1>7, <1>8, <1>10 DEF QueueOfEntry
<1> QED
  BY <1>1, <1>2, <1>3, <1>5, <1>8, <1>9, <1>11 DEF Size, g

LEMMA GlueFine ==
  ASSUME NoneEmpty, NEW d \in Entries, NEW e \in Entries, Fine(d), Fine(e),
         End(d) <= e.offset
  PROVE  Fine(Glue(d, e))
<1> DEFINE g == Glue(d, e)
           m == Size(d)
           n == Size(e)
<1>1. /\ d.offset \in Int /\ End(d) \in Int /\ d.offset < End(d)
      /\ \A x \in ToSet(d.reqs) : d.offset <= Offset[x] /\ EndOf(x) <= End(d)
  BY FineHull
<1>2. /\ e.offset \in Int /\ End(e) \in Int /\ e.offset < End(e)
      /\ \A x \in ToSet(e.reqs) : e.offset <= Offset[x] /\ EndOf(x) <= End(e)
  BY FineHull
<1>3. /\ m \in Nat \ {0} /\ DOMAIN d.reqs = 1..m /\ d.reqs \in Seq(Requests)
      /\ m = Len(d.reqs)
  BY MembersOfEntry
<1>4. /\ n \in Nat \ {0} /\ DOMAIN e.reqs = 1..n /\ e.reqs \in Seq(Requests)
      /\ n = Len(e.reqs)
  BY MembersOfEntry
<1>5. \A k \in 1..m : d.reqs[k] \in Requests /\ d.reqs[k] \in ToSet(d.reqs)
  BY <1>3, LenProperties DEF ToSet
<1>6. \A k \in 1..n : e.reqs[k] \in Requests /\ e.reqs[k] \in ToSet(e.reqs)
  BY <1>4, LenProperties DEF ToSet
<1>7. g.offset = d.offset /\ End(g) = End(e) /\ Size(g) = m + n
  BY <1>2, GlueMembers
<1>8. \A k \in 1..(m + n) :
        g.reqs[k] = IF k <= m THEN d.reqs[k] ELSE e.reqs[k - m]
  BY <1>2, GlueMembers
<1>9. m \in Nat \ {0} /\ n \in Nat \ {0}
  BY <1>3, <1>4
<1> HIDE DEF g, m, n
<1>10. g.reqs[1] = d.reqs[1] /\ g.reqs[m + n] = e.reqs[n]
  <2>1. /\ 1 \in 1..(m + n) /\ 1 <= m /\ m + n \in 1..(m + n)
        /\ ~(m + n <= m) /\ (m + n) - m = n
    BY <1>9
  <2> QED
    BY <1>8, <2>1
<1>11. ASSUME NEW i \in 1..(m + n), NEW j \in 1..(m + n), i < j
       PROVE  EndOf(g.reqs[i]) <= Offset[g.reqs[j]]
  <2>1. CASE j <= m
    <3>1. i \in 1..m /\ j \in 1..m /\ i <= m
      BY <1>9, <1>11, <2>1
    <3>2. EndOf(d.reqs[i]) <= Offset[d.reqs[j]]
      BY <1>11, <3>1 DEF Fine, m
    <3> QED
      BY <1>8, <2>1, <3>1, <3>2
  <2>2. CASE ~(i <= m)
    <3>1. /\ i - m \in 1..n /\ j - m \in 1..n /\ i - m < j - m /\ ~(j <= m)
      BY <1>9, <1>11, <2>2
    <3>2. EndOf(e.reqs[i - m]) <= Offset[e.reqs[j - m]]
      BY <3>1 DEF Fine, n
    <3> QED
      BY <1>8, <2>2, <3>1, <3>2
  <2>3. CASE i <= m /\ ~(j <= m)
    <3>1. i \in 1..m /\ j - m \in 1..n
      BY <1>9, <1>11, <2>3
    <3> DEFINE x == d.reqs[i]
               y == e.reqs[j - m]
    <3>2. g.reqs[i] = x /\ g.reqs[j] = y
      BY <1>8, <2>3
    <3>3. x \in Requests /\ y \in Requests /\ x \in ToSet(d.reqs) /\ y \in ToSet(e.reqs)
      BY <1>5, <1>6, <3>1
    <3> HIDE DEF x, y
    <3>4. EndOf(x) <= End(d) /\ e.offset <= Offset[y]
      BY <1>1, <1>2, <3>3
    <3>5. EndOf(x) \in Int /\ Offset[y] \in Int
      BY <3>3, Extent
    <3>6. EndOf(x) <= Offset[y]
      BY <1>1, <1>2, <3>4, <3>5
    <3> QED
      BY <3>2, <3>6
  <2> QED
    BY <2>1, <2>2, <2>3
<1>12. d.offset = Offset[d.reqs[1]] /\ End(e) = EndOf(e.reqs[n])
  BY DEF Fine, n
<1>13. Fine(g)
  BY <1>7, <1>10, <1>11, <1>12 DEF Fine
<1> QED
  BY <1>13 DEF g

LEMMA GlueNeat ==
  ASSUME NoneEmpty, NEW d \in Entries, NEW e \in Entries, NEW C, Neat(d, C),
         Neat(e, C), End(d) = e.offset, QueueOfEntry(d) = QueueOfEntry(e)
  PROVE  Neat(Glue(d, e), C)
<1> DEFINE g == Glue(d, e)
           m == Size(d)
           n == Size(e)
<1>1. Fine(d) /\ Fine(e) /\ Guarded(d, C) /\ Guarded(e, C)
  BY DEF Neat
<1>2. /\ d.offset \in Int /\ End(d) \in Int /\ d.offset < End(d)
      /\ e.offset \in Int /\ End(e) \in Int /\ e.offset < End(e)
  BY <1>1, FineHull
<1>3. Fine(g)
  BY <1>1, <1>2, GlueFine
<1>4. /\ g.offset = d.offset /\ End(g) = End(e) /\ Size(g) = m + n
      /\ ToSet(g.reqs) = ToSet(d.reqs) \cup ToSet(e.reqs)
      /\ QueueOfEntry(g) = QueueOfEntry(d)
  BY <1>2, GlueMembers
<1>5. \A k \in 1..(m + n) :
        g.reqs[k] = IF k <= m THEN d.reqs[k] ELSE e.reqs[k - m]
  BY <1>2, GlueMembers
<1>6. m \in Nat \ {0} /\ n \in Nat \ {0}
  BY MembersOfEntry
<1> HIDE DEF g, m, n
<1>7. Guarded(g, C)
  <2> SUFFICES ASSUME NEW y \in Requests, QueueOf[y] = QueueOfEntry(d), ~Outside(y, g)
               PROVE  y \in C \/ \E x \in ToSet(g.reqs) : Overlap(x, y)
    BY <1>4 DEF Guarded
  <2>1. Offset[y] \in Int /\ EndOf(y) \in Int /\ Offset[y] < EndOf(y)
    BY Extent
  <2>2. ~Outside(y, d) \/ ~Outside(y, e)
    BY <1>2, <1>4, <2>1 DEF Outside
  <2>3. CASE ~Outside(y, d)
    BY <1>1, <1>4, <2>3 DEF Guarded
  <2>4. CASE ~Outside(y, e)
    BY <1>1, <1>4, <2>4 DEF Guarded
  <2> QED
    BY <2>2, <2>3, <2>4
<1>8. ASSUME C = {} PROVE Tight(g)
  <2>1. Tight(d) /\ Tight(e)
    BY <1>8 DEF Neat
  <2> SUFFICES ASSUME NEW j \in 1..(Size(g) - 1)
               PROVE  EndOf(g.reqs[j]) = Offset[g.reqs[j + 1]]
    BY DEF Tight
  <2>2. j \in 1..(m + n - 1) /\ j \in 1..(m + n) /\ j + 1 \in 1..(m + n)
    BY <1>4, <1>6
  <2>3. CASE j < m
    <3>1. j <= m /\ j + 1 <= m /\ j \in 1..(m - 1)
      BY <1>6, <2>2, <2>3
    <3>2. EndOf(d.reqs[j]) = Offset[d.reqs[j + 1]]
      BY <2>1, <3>1 DEF Tight, m
    <3> QED
      BY <1>5, <2>2, <3>1, <3>2
  <2>4. CASE j = m
    <3>1. j <= m /\ ~(j + 1 <= m) /\ (j + 1) - m = 1
      BY <1>6, <2>2, <2>4
    <3>2. g.reqs[j] = d.reqs[m] /\ g.reqs[j + 1] = e.reqs[1]
      BY <1>5, <2>2, <2>4, <3>1
    <3>3. End(d) = EndOf(d.reqs[m]) /\ e.offset = Offset[e.reqs[1]]
      BY <1>1 DEF Fine, m
    <3> QED
      BY <3>2, <3>3
  <2>5. CASE j > m
    <3> DEFINE k == j - m
    <3>1. ~(j <= m) /\ ~(j + 1 <= m) /\ k \in 1..(n - 1) /\ (j + 1) - m = k + 1
      BY <1>6, <2>2, <2>5
    <3>2. g.reqs[j] = e.reqs[k] /\ g.reqs[j + 1] = e.reqs[k + 1]
      BY <1>5, <2>2, <3>1
    <3> HIDE DEF k
    <3>3. EndOf(e.reqs[k]) = Offset[e.reqs[k + 1]]
      BY <2>1, <3>1 DEF Tight, n
    <3> QED
      BY <3>2, <3>3
  <2> QED
    BY <1>6, <2>2, <2>3, <2>4, <2>5
<1> QED
  BY <1>3, <1>7, <1>8 DEF Neat, g

(* include_in_aggregation of a request behind, or in front of, the entry.   *)
LEMMA AppendGlues ==
  ASSUME NEW rs \in Seq(Requests), NEW r \in Requests
  PROVE  Append(rs, r) = rs \o <<r>>
OBVIOUS

LEMMA IncludeAfter ==
  ASSUME NoneEmpty, NEW e \in Entries, Fine(e), NEW r \in Requests, End(e) <= Offset[r]
  PROVE  Include(e, r) = Glue(e, Single(r))
<1>1. /\ e.offset \in Int /\ End(e) \in Int /\ e.offset < End(e)
  BY FineHull
<1>2. Offset[r] \in Int /\ End(Single(r)) = EndOf(r) /\ Single(r).reqs = <<r>>
  BY Extent, SingleNeat DEF Single
<1>3. Append(e.reqs, r) = e.reqs \o <<r>>
  BY MembersOfEntry, AppendGlues
<1>4. ~(Offset[r] <= e.offset)
  BY <1>1, <1>2
<1> DEFINE rs == Append(e.reqs, r)
<1>5. Include(e, r) = [offset |-> e.offset, len |-> EndOf(r) - e.offset, reqs |-> rs]
  BY <1>4 DEF Include
<1>6. Glue(e, Single(r)) = [offset |-> e.offset, len |-> EndOf(r) - e.offset, reqs |-> rs]
  BY <1>2, <1>3 DEF Glue
<1> QED
  BY <1>5, <1>6

LEMMA IncludeBefore ==
  ASSUME NoneEmpty, NEW e \in Entries, Fine(e), NEW r \in Requests, EndOf(r) <= e.offset
  PROVE  Include(e, r) = Glue(Single(r), e)
<1>1. /\ e.offset \in Int /\ End(e) \in Int /\ e.len = End(e) - e.offset
  BY FineHull
<1>2. /\ Offset[r] \in Int /\ EndOf(r) \in Int /\ Offset[r] < EndOf(r)
  BY Extent
<1>3. Single(r).offset = Offset[r] /\ Single(r).reqs = <<r>>
  BY DEF Single
<1>4. Offset[r] <= e.offset /\ e.len + (e.offset - Offset[r]) = End(e) - Offset[r]
  BY <1>1, <1>2
<1> DEFINE rs == <<r>> \o e.reqs
<1>5. Include(e, r) = [offset |-> Offset[r], len |-> End(e) - Offset[r], reqs |-> rs]
  BY <1>4 DEF Include
<1>6. Glue(Single(r), e) = [offset |-> Offset[r], len |-> End(e) - Offset[r], reqs |-> rs]
  BY <1>3 DEF Glue
<1> QED
  BY <1>5, <1>6

(* join_aggregations of an entry and the next.                              *)
LEMMA JoinAfter ==
  ASSUME NoneEmpty, NEW d \in Entries, NEW e \in Entries, Fine(d), Fine(e),
         End(d) <= e.offset
  PROVE  Join(d, e) = Glue(d, e)
<1> DEFINE rs == e.reqs
           n == Len(rs)
<1>1. /\ d.offset \in Int /\ End(d) \in Int /\ d.offset < End(d)
  BY FineHull
<1>2. /\ e.offset \in Int
      /\ \A x \in ToSet(rs) : e.offset <= Offset[x]
  BY FineHull
<1>3. /\ rs \in Seq(Requests) /\ n \in Nat \ {0} /\ DOMAIN rs = 1..n /\ n = Size(e)
  BY MembersOfEntry
<1>4. d.reqs \in Seq(Requests)
  BY MembersOfEntry
<1>5. \A k \in 1..n : rs[k] \in Requests /\ rs[k] \in ToSet(rs)
  BY <1>3, LenProperties DEF ToSet
<1>6. PICK h \in [0..n -> Entries] :
        /\ h[0] = d
        /\ \A k \in 1..n : h[k] = Include(h[k - 1], rs[k])
        /\ ForEach(Include, d, rs) = h[n]
  BY <1>3, IncludeLoop
<1> DEFINE Ok(k) == /\ h[k].offset = d.offset
                    /\ k # 0 => h[k].len = EndOf(rs[k]) - d.offset
                    /\ h[k].reqs = d.reqs \o SubSeq(rs, 1, k)
           P == {k \in 0..n : Ok(k)}
<1>7. 0 \in P
  <2>1. SubSeq(rs, 1, 0) = <<>>
    BY SubSeqEmpty
  <2>2. d.reqs \o <<>> = d.reqs
    BY <1>4, ConcatEmptySeq
  <2>3. 0 \in 0..n
    BY <1>3
  <2>4. Ok(0)
    BY <1>6, <2>1, <2>2
  <2> QED
    BY <2>3, <2>4
<1>8. ASSUME NEW k \in 1..n, k - 1 \in P PROVE k \in P
  <2> DEFINE a == h[k - 1]
             x == rs[k]
             u == SubSeq(rs, 1, k - 1)
  <2>1. k \in 0..n /\ k - 1 \in 0..n /\ k # 0 /\ 1 \in 1..n
    BY <1>3
  <2>2. a.offset = d.offset /\ a.reqs = d.reqs \o u
    BY <1>8
  <2>3. x \in Requests /\ x \in ToSet(rs) /\ Offset[x] \in Int
    BY <1>5, Extent
  <2>4. ~(Offset[x] <= a.offset)
    BY <1>1, <1>2, <2>2, <2>3
  <2>5. h[k] = Include(a, x)
    BY <1>6
  <2>6. SubSeq(rs, 1, k) = u \o <<x>>
    <3>1. k \in 1..Len(rs) /\ 1 \in 1..Len(rs)
      BY <2>1
    <3> QED
      BY <1>3, <3>1, SubSeqRecursiveSecond
  <2>7. u \in Seq(Requests)
    <3>1. \A i \in 1..(k - 1) : rs[i] \in Requests
      BY <1>3, <1>5
    <3>2. 1 \in Int /\ k - 1 \in Int
      BY <1>3
    <3> QED
      BY <3>1, <3>2, SubSeqProperties
  <2> HIDE DEF u, x, a, n, rs
  <2>8. Append(a.reqs, x) = d.reqs \o (u \o <<x>>)
    <3>1. /\ d.reqs \o u \in Seq(Requests) /\ <<x>> \in Seq(Requests)
      BY <1>4, <2>3, <2>7, ConcatProperties
    <3>2. Append(d.reqs \o u, x) = (d.reqs \o u) \o <<x>>
      BY <2>3, <3>1, AppendGlues
    <3>3. (d.reqs \o u) \o <<x>> = d.reqs \o (u \o <<x>>)
      <4> DEFINE b == d.reqs
                 v == <<x>>
      <4>1. b \in Seq(Requests) /\ v \in Seq(Requests)
        BY <1>4, <3>1
      <4> HIDE DEF b, v
      <4>2. (b \o u) \o v = b \o (u \o v)
        BY <2>7, <4>1, ConcatAssociative
      <4> QED
        BY <4>2 DEF b, v
    <3> QED
      BY <2>2, <3>2, <3>3
  <2>9. h[k] = [offset |-> a.offset, len |-> EndOf(x) - a.offset, reqs |-> Append(a.reqs, x)]
    BY <2>4, <2>5 DEF Include
  <2>10. /\ h[k].offset = a.offset /\ h[k].len = EndOf(x) - a.offset
         /\ h[k].reqs = Append(a.reqs, x)
    BY <2>9
  <2>11. Ok(k)
    BY <2>2, <2>6, <2>8, <2>10 DEF x
  <2> QED
    BY <2>1, <2>11
<1>9. n \in P
  <2>1. n \in Nat /\ n \in 0..n
    BY <1>3
  <2> HIDE DEF P, n
  <2> QED
    BY <2>1, <1>7, <1>8, Interval
<1>10. SubSeq(rs, 1, n) = rs
  BY <1>3, SubSeqFull
<1>11. h[n].offset = d.offset /\ h[n].len = EndOf(rs[n]) - d.offset /\ h[n].reqs = d.reqs \o rs
  BY <1>3, <1>9, <1>10
<1>12. h[n] \in Entries /\ End(e) = EndOf(rs[n])
  BY <1>3, <1>6 DEF Fine
<1> HIDE DEF n, rs
<1>13. h[n] = [offset |-> h[n].offset, len |-> h[n].len, reqs |-> h[n].reqs]
  BY <1>12 DEF Entries
<1>14. h[n] = Glue(d, e)
  BY <1>11, <1>12, <1>13 DEF Glue, rs
<1> QED
  BY <1>6, <1>14 DEF Join, rs

-----------------------------------------------------------------------------
(* A list t that is s with g at place a, instead of k + 1 entries.          *)
Spliced(s, t, a, k, g) ==
  /\ t \in Seq(Entries) /\ Len(t) = Len(s) - k /\ a \in 1..Len(t)
  /\ \A j \in 1..Len(t) :
       t[j] = IF j < a THEN s[j] ELSE IF j = a THEN g ELSE s[j + k]

LEMMA InsertSplices ==
  ASSUME NEW s \in Seq(Entries), NEW i \in 1..(Len(s) + 1), NEW g \in Entries
  PROVE  Spliced(s, InsertAt(s, i, g), i, -1, g)
<1> DEFINE t == InsertAt(s, i, g)
           n == Len(s)
<1>1. /\ t \in Seq(Entries) /\ Len(t) = n + 1
      /\ \A j \in 1..(n + 1) :
           t[j] = IF j < i THEN s[j] ELSE IF j = i THEN g ELSE s[j - 1]
  BY Insertion
<1>2. n \in Nat
  BY LenProperties
<1> HIDE DEF t, n
<1>3. Len(t) = n - (-1) /\ \A j \in 1..(n + 1) : j - 1 = j + (-1)
  BY <1>1, <1>2
<1> QED
  BY <1>1, <1>3 DEF Spliced, t, n

LEMMA ReplaceSplices ==
  ASSUME NEW s \in Seq(Entries), NEW i \in 1..Len(s), NEW g \in Entries
  PROVE  Spliced(s, ReplaceAt(s, i, g), i, 0, g)
<1> DEFINE t == ReplaceAt(s, i, g)
           n == Len(s)
<1>1. t = [s EXCEPT ![i] = g]
  BY DEF ReplaceAt
<1>2. /\ t \in Seq(Entries) /\ Len(t) = n
      /\ \A j \in 1..n : t[j] = IF j = i THEN g ELSE s[j]
  BY <1>1, ExceptSeq
<1>3. n \in Nat
  BY LenProperties
<1> HIDE DEF t, n
<1>4. Len(t) = n - 0 /\ \A j \in 1..n : j = j + 0
  BY <1>2, <1>3
<1>5. \A j \in 1..n : t[j] = IF j < i THEN s[j] ELSE IF j = i THEN g ELSE s[j + 0]
  BY <1>2, <1>4 DEF n
<1> QED
  BY <1>2, <1>4, <1>5 DEF Spliced, t, n

LEMMA JoinSplices ==
  ASSUME NEW s \in Seq(Entries), NEW i \in 1..Len(s), i + 1 \in 1..Len(s),
         NEW g \in Entries
  PROVE  Spliced(s, RemoveAt(ReplaceAt(s, i, g), i + 1), i, 1, g)
<1> DEFINE t == ReplaceAt(s, i, g)
           u == RemoveAt(t, i + 1)
           n == Len(s)
<1>1. t = [s EXCEPT ![i] = g]
  BY DEF ReplaceAt
<1>2. /\ t \in Seq(Entries) /\ Len(t) = n
      /\ \A j \in 1..n : t[j] = IF j = i THEN g ELSE s[j]
  BY <1>1, ExceptSeq
<1>3. n \in Nat /\ i \in 1..n /\ i + 1 \in 1..n
  BY LenProperties
<1> HIDE DEF t, n
<1>4. /\ u \in Seq(Entries) /\ Len(u) = n - 1
      /\ \A j \in 1..(n - 1) : u[j] = IF j < i + 1 THEN t[j] ELSE t[j + 1]
  <2> DEFINE k == i + 1
  <2>1. t \in Seq(Entries) /\ Len(t) = n
    BY <1>2
  <2>2. k \in 1..Len(t)
    BY <1>3, <2>1
  <2> HIDE DEF k
  <2>3. /\ RemoveAt(t, k) \in Seq(Entries) /\ Len(RemoveAt(t, k)) = Len(t) - 1
        /\ \A j \in 1..(Len(t) - 1) :
             RemoveAt(t, k)[j] = IF j < k THEN t[j] ELSE t[j + 1]
    BY <2>1, <2>2, Removal
  <2> QED
    BY <2>1, <2>3 DEF k
<1> HIDE DEF u
<1>5. ASSUME NEW j \in 1..(n - 1)
      PROVE  u[j] = IF j < i THEN s[j] ELSE IF j = i THEN g ELSE s[j + 1]
  <2>1. j \in 1..n /\ j + 1 \in 1..n
    BY <1>3
  <2>2. CASE j < i
    BY <1>2, <1>3, <1>4, <2>1, <2>2
  <2>3. CASE j = i
    BY <1>2, <1>3, <1>4, <2>1, <2>3
  <2>4. CASE j > i
    <3>1. ~(j < i + 1) /\ j + 1 # i /\ ~(j < i) /\ j # i
      BY <1>3, <2>4
    <3> QED
      BY <1>2, <1>4, <2>1, <3>1
  <2> QED
    BY <1>3, <2>2, <2>3, <2>4
<1>6. i \in 1..(n - 1)
  BY <1>3
<1> QED
  BY <1>4, <1>5, <1>6 DEF Spliced, u, t, n

LEMMA SplicedRanged ==
  ASSUME NEW s \in Seq(Entries), Ranged(s), NEW k \in {-1, 0, 1}, NEW a, NEW t,
         NEW g, Spliced(s, t, a, k, g),
         \A j \in 1..Len(s) : j < a => End(s[j]) <= g.offset,
         \A j \in 1..Len(s) : j > a + k => End(g) <= s[j].offset
  PROVE  Ranged(t)
<1> DEFINE n == Len(s)
           m == Len(t)
<1>1. n \in Nat /\ k \in Int /\ m = n - k /\ a \in 1..m
  BY LenProperties DEF Spliced
<1>2. \A j \in 1..m : t[j] = IF j < a THEN s[j] ELSE IF j = a THEN g ELSE s[j + k]
  BY DEF Spliced
<1>3. /\ \A j \in 1..n : j < a => End(s[j]) <= g.offset
      /\ \A j \in 1..n : j > a + k => End(g) <= s[j].offset
      /\ \A i, j \in 1..n : i < j => End(s[i]) <= s[j].offset
  BY DEF Ranged
<1> HIDE DEF n
<1> SUFFICES ASSUME NEW i \in 1..m, NEW j \in 1..m, i < j
             PROVE  End(t[i]) <= t[j].offset
  BY DEF Ranged
<1> HIDE DEF m
<1>4. CASE j < a
  <2>1. i \in 1..n /\ j \in 1..n /\ i < a
    BY <1>1, <1>4
  <2> QED
    BY <1>2, <1>3, <1>4, <2>1
<1>5. CASE j = a
  <2>1. i \in 1..n /\ i < a
    BY <1>1, <1>5
  <2> QED
    BY <1>2, <1>3, <1>5, <2>1
<1>6. CASE i < a /\ j > a
  <2>1. i \in 1..n /\ j + k \in 1..n /\ i < j + k /\ ~(j < a) /\ j # a
    BY <1>1, <1>6
  <2> QED
    BY <1>2, <1>3, <1>6, <2>1
<1>7. CASE i = a
  <2>1. j + k \in 1..n /\ j + k > a + k /\ ~(j < a) /\ j # a
    BY <1>1, <1>7
  <2> QED
    BY <1>2, <1>3, <1>7, <2>1
<1>8. CASE i > a
  <2>1. /\ i + k \in 1..n /\ j + k \in 1..n /\ i + k < j + k
        /\ ~(j < a) /\ j # a /\ ~(i < a) /\ i # a
    BY <1>1, <1>8
  <2> QED
    BY <1>2, <1>3, <2>1
<1> QED
  BY <1>1, <1>4, <1>5, <1>6, <1>7, <1>8

LEMMA SplicedMaximal ==
  ASSUME NEW s \in Seq(Entries), Maximal(s), NEW k \in {-1, 0, 1}, NEW a, NEW t,
         NEW g, Spliced(s, t, a, k, g),
         a > 1 => ~Mergeable(s[a - 1], g),
         a + k + 1 <= Len(s) => ~Mergeable(g, s[a + k + 1])
  PROVE  Maximal(t)
<1> DEFINE n == Len(s)
           m == Len(t)
<1>1. n \in Nat /\ k \in Int /\ m = n - k /\ a \in 1..m
  BY LenProperties DEF Spliced
<1>2. \A j \in 1..m : t[j] = IF j < a THEN s[j] ELSE IF j = a THEN g ELSE s[j + k]
  BY DEF Spliced
<1>3. \A i \in 2..n : ~Mergeable(s[i - 1], s[i])
  BY DEF Maximal
<1>4. a + k + 1 <= n => ~Mergeable(g, s[a + k + 1])
  OBVIOUS
<1> HIDE DEF n
<1> SUFFICES ASSUME NEW i \in 2..m PROVE ~Mergeable(t[i - 1], t[i])
  BY DEF Maximal
<1> HIDE DEF m
<1>5. i \in 1..m /\ i - 1 \in 1..m
  BY <1>1
<1>6. CASE i < a
  <2>1. i \in 2..n /\ i - 1 < a
    BY <1>1, <1>6
  <2>2. t[i - 1] = s[i - 1] /\ t[i] = s[i]
    BY <1>2, <1>5, <1>6, <2>1
  <2> QED
    BY <1>3, <2>1, <2>2
<1>7. CASE i = a
  <2>1. a > 1 /\ i - 1 < a
    BY <1>1, <1>7
  <2>2. t[i - 1] = s[a - 1] /\ t[i] = g
    BY <1>2, <1>5, <1>7, <2>1
  <2> QED
    BY <2>1, <2>2
<1>8. CASE i = a + 1
  <2>1. i - 1 = a /\ ~(i < a) /\ i # a /\ i + k = a + k + 1 /\ a + k + 1 <= n
    BY <1>1, <1>8
  <2>2. t[i - 1] = g /\ t[i] = s[a + k + 1]
    BY <1>2, <1>5, <2>1
  <2> QED
    BY <1>4, <2>1, <2>2
<1>9. CASE i > a + 1
  <2>1. /\ ~(i < a) /\ i # a /\ ~(i - 1 < a) /\ i - 1 # a
        /\ i + k \in 2..n /\ (i + k) - 1 = (i - 1) + k
    BY <1>1, <1>9
  <2>2. t[i - 1] = s[(i + k) - 1] /\ t[i] = s[i + k]
    BY <1>2, <1>5, <2>1
  <2> QED
    BY <1>3, <2>1, <2>2
<1> QED
  BY <1>1, <1>6, <1>7, <1>8, <1>9

LEMMA SplicedSet ==
  ASSUME NEW s \in Seq(Entries), NEW k \in {-1, 0, 1}, NEW a, NEW t, NEW g,
         Spliced(s, t, a, k, g)
  PROVE  ToSet(t) \subseteq ToSet(s) \cup {g}
<1> DEFINE n == Len(s)
           m == Len(t)
<1>1. n \in Nat /\ k \in Int /\ m = n - k /\ a \in 1..m
  BY LenProperties DEF Spliced
<1>2. \A j \in 1..m : t[j] = IF j < a THEN s[j] ELSE IF j = a THEN g ELSE s[j + k]
  BY DEF Spliced
<1>3. DOMAIN t = 1..m /\ DOMAIN s = 1..n
  BY LenProperties DEF Spliced
<1> HIDE DEF n, m
<1>4. ASSUME NEW j \in 1..m PROVE t[j] \in ToSet(s) \cup {g}
  <2>1. CASE j < a
    <3>1. j \in 1..n
      BY <1>1, <2>1
    <3> QED
      BY <1>2, <1>3, <2>1, <3>1 DEF ToSet
  <2>2. CASE j = a
    BY <1>2, <2>2
  <2>3. CASE j > a
    <3>1. j + k \in 1..n /\ ~(j < a) /\ j # a
      BY <1>1, <2>3
    <3> QED
      BY <1>2, <1>3, <3>1 DEF ToSet
  <2> QED
    BY <1>1, <2>1, <2>2, <2>3
<1> QED
  BY <1>3, <1>4 DEF ToSet

-----------------------------------------------------------------------------
(* hashtable_add_req.  A request that overlaps no entry has its place       *)
(* between those that end before it and those that begin after it.          *)
LEMMA Placed ==
  ASSUME NoneEmpty, NEW s \in Seq(Entries), \A i \in 1..Len(s) : Fine(s[i]),
         Ranged(s), NEW r \in Requests, \A i \in 1..Len(s) : Outside(r, s[i])
  PROVE  \A i \in 1..Len(s) : IF i < Position(s, r) THEN End(s[i]) <= Offset[r]
                              ELSE EndOf(r) <= s[i].offset
<1> DEFINE n == Len(s)
           Later(e) == \/ e.offset > Offset[r]
                       \/ e.offset = Offset[r] /\ e.len > Length[r]
           I == {i \in 1..n : Later(s[i])}
           f == SelectInSeq(s, Later)
           p == Position(s, r)
<1>1. n \in Nat /\ p \in 1..(n + 1) /\ \A i \in 1..n : s[i] \in Entries
  BY LenProperties, PlaceInQueue
<1>2. f = IF I # {} THEN Min(I) ELSE 0
  BY DEF SelectInSeq
<1>3. p = IF f = 0 THEN n + 1 ELSE f
  BY DEF Position
<1>4. I # {} => Min(I) \in I /\ \A i \in I : Min(I) <= i
  <2>1. I \subseteq Nat
    BY <1>1
  <2> QED
    BY <2>1, LeastNumber
<1> HIDE DEF f, p
<1>5. \A i \in 1..n : i < p => i \notin I
  <2>1. CASE I = {}
    BY <2>1
  <2>2. CASE I # {}
    <3>1. Min(I) \in 1..n /\ \A i \in I : Min(I) <= i
      BY <1>4, <2>2
    <3>2. p = Min(I)
      <4> HIDE DEF I
      <4> QED
        BY <1>2, <1>3, <2>2, <3>1
    <3> HIDE DEF I
    <3> QED
      BY <3>1, <3>2
  <2> QED
    BY <2>1, <2>2
<1>6. p <= n => p \in I
  <2> HAVE p <= n
  <2>1. f # 0 /\ p = f
    BY <1>1, <1>3
  <2>2. I # {}
    BY <1>2, <2>1
  <2> HIDE DEF I
  <2> QED
    BY <1>2, <1>4, <2>1, <2>2
<1>7. /\ Offset[r] \in Int /\ EndOf(r) \in Int /\ Offset[r] < EndOf(r)
      /\ Length[r] \in Int
  BY Extent
<1>8. \A i \in 1..n : /\ s[i].offset \in Int /\ End(s[i]) \in Int
                      /\ s[i].offset < End(s[i]) /\ Outside(r, s[i])
  BY <1>1, FineHull
<1>9. ASSUME NEW i \in 1..n, ~(s[i].offset > Offset[r]) PROVE End(s[i]) <= Offset[r]
  BY <1>7, <1>8, <1>9 DEF Outside
<1>10. ASSUME NEW i \in 1..n, ~(s[i].offset < Offset[r]) PROVE EndOf(r) <= s[i].offset
  BY <1>7, <1>8, <1>10 DEF Outside
<1>11. ASSUME NEW i \in 1..n, i < p PROVE End(s[i]) <= Offset[r]
  <2>1. i \notin I
    BY <1>5, <1>11
  <2>2. ~(s[i].offset > Offset[r])
    BY <2>1
  <2> QED
    BY <1>9, <2>2
<1>12. ASSUME NEW i \in 1..n, ~(i < p) PROVE EndOf(r) <= s[i].offset
  <2>1. p \in 1..n /\ p \in I
    BY <1>1, <1>6, <1>12
  <2>2. ~(s[p].offset < Offset[r])
    BY <1>7, <1>8, <2>1
  <2>3. EndOf(r) <= s[p].offset
    BY <1>10, <2>1, <2>2
  <2>4. CASE i = p
    BY <2>3, <2>4
  <2>5. CASE i # p
    <3>1. p < i
      BY <1>1, <1>12, <2>5
    <3>2. End(s[p]) <= s[i].offset
      BY <2>1, <3>1 DEF Ranged
    <3> QED
      BY <1>7, <1>8, <2>1, <2>3, <3>2
  <2> QED
    BY <2>4, <2>5
<1> QED
  BY <1>11, <1>12 DEF p

LEMMA SplicedGood ==
  ASSUME NEW s \in Seq(Entries), NEW C, \A e \in ToSet(s) : Neat(e, C), InRow(s, C),
         NEW k \in {-1, 0, 1}, NEW a, NEW t, NEW g, Spliced(s, t, a, k, g), Neat(g, C),
         \A j \in 1..Len(s) : j < a => End(s[j]) <= g.offset,
         \A j \in 1..Len(s) : j > a + k => End(g) <= s[j].offset,
         C = {} => /\ a > 1 => ~Mergeable(s[a - 1], g)
                   /\ a + k + 1 <= Len(s) => ~Mergeable(g, s[a + k + 1])
  PROVE  (\A e \in ToSet(t) : Neat(e, C)) /\ InRow(t, C)
<1>1. \A e \in ToSet(t) : Neat(e, C)
  BY SplicedSet
<1>2. Ranged(t)
  BY SplicedRanged DEF InRow
<1>3. ASSUME C = {} PROVE Maximal(t)
  BY <1>3, SplicedMaximal DEF InRow
<1> QED
  BY <1>1, <1>2, <1>3 DEF InRow

(* A neighbour that was not merged is not merged with what grew away from   *)
(* it either.                                                               *)
LEMMA StaysApart ==
  ASSUME NEW x \in Entries, NEW y \in Entries, NEW z \in Entries, ~Mergeable(x, y)
  PROVE  /\ z.offset = y.offset /\ Size(z) >= Size(y) => ~Mergeable(x, z)
         /\ End(z) = End(x) /\ Size(z) >= Size(x) /\ x.offset <= y.offset =>
              ~Mergeable(z, y)
<1>1. /\ Size(x) \in Int /\ Size(y) \in Int /\ Size(z) \in Int
      /\ MaxAggregSize \in Int
  BY MembersOfEntry, AggregationAssumption
<1> QED
  BY <1>1 DEF Mergeable, Contiguous

LEMMA OutsideEntry ==
  ASSUME NEW e, NEW C, Guarded(e, C), NEW r \in Requests, r \notin C,
         QueueOf[r] = QueueOfEntry(e), \A x \in ToSet(e.reqs) : ~Overlap(x, r)
  PROVE  Outside(r, e)
BY DEF Guarded

LEMMA HashtableInsertGood ==
  ASSUME NoneEmpty, NEW C, NEW s, Proper(s), \A e \in ToSet(s) : Neat(e, C),
         InRow(s, C), NEW r \in Requests, r \notin C,
         \A x \in Members(s) : QueueOf[x] = QueueOf[r] /\ ~Overlap(x, r)
  PROVE  /\ \A e \in ToSet(HashtableInsert(s, r)) : Neat(e, C)
         /\ InRow(HashtableInsert(s, r), C)
<1> DEFINE n == Len(s)
           p == Position(s, r)
           b == Single(r)
           previous == Include(s[p - 1], r)
           AfterPrevious == p > 1 /\ Mergeable(s[p - 1], b)
           Joins == p <= n /\ Mergeable(previous, s[p])
           BeforeNext == p <= n /\ Mergeable(b, s[p])
           Good(t) == (\A e \in ToSet(t) : Neat(e, C)) /\ InRow(t, C)
           new == HashtableInsert(s, r)
<1>1. s \in Seq(Entries) /\ n \in Nat /\ p \in 1..(n + 1)
  BY PlaceInQueue, LenProperties DEF Proper
<1>2. new = IF AfterPrevious
            THEN IF Joins THEN RemoveAt(ReplaceAt(s, p - 1, Join(previous, s[p])), p)
                 ELSE ReplaceAt(s, p - 1, previous)
            ELSE IF BeforeNext THEN ReplaceAt(s, p, Include(s[p], r))
            ELSE InsertAt(s, p, b)
  BY DEF HashtableInsert
<1>3. ASSUME NEW i \in 1..n
      PROVE  /\ s[i] \in Entries /\ s[i] \in ToSet(s) /\ Neat(s[i], C) /\ Fine(s[i])
             /\ QueueOfEntry(s[i]) = QueueOf[r] /\ Outside(r, s[i])
             /\ Size(s[i]) \in Nat /\ s[i].offset \in Int /\ End(s[i]) \in Int
             /\ s[i].offset < End(s[i])
  <2>1. s[i] \in Entries /\ s[i] \in ToSet(s) /\ ToSet(s[i].reqs) \subseteq Members(s)
    BY EntryOfList
  <2>2. Neat(s[i], C) /\ Fine(s[i]) /\ Guarded(s[i], C)
    BY <2>1 DEF Neat
  <2>3. Head(s[i].reqs) \in Members(s) /\ Size(s[i]) \in Nat
    BY <2>1, MembersOfEntry
  <2>4. QueueOfEntry(s[i]) = QueueOf[r]
    BY <2>3 DEF QueueOfEntry
  <2>5. Outside(r, s[i])
    BY <2>1, <2>2, <2>4, OutsideEntry
  <2>6. s[i].offset \in Int /\ End(s[i]) \in Int /\ s[i].offset < End(s[i])
    BY <2>1, <2>2, FineHull
  <2> QED
    BY <2>1, <2>2, <2>3, <2>4, <2>5, <2>6
<1>4. /\ \A i, j \in 1..n : i < j => End(s[i]) <= s[j].offset
      /\ C = {} => \A i \in 2..n : ~Mergeable(s[i - 1], s[i])
  BY DEF InRow, Ranged, Maximal
<1>5. /\ \A i \in 1..n : i < p => End(s[i]) <= Offset[r]
      /\ \A i \in 1..n : ~(i < p) => EndOf(r) <= s[i].offset
  <2>1. Ranged(s) /\ \A i \in 1..n : Fine(s[i]) /\ Outside(r, s[i])
    BY <1>3 DEF InRow
  <2> QED
    BY <1>1, <2>1, Placed
<1>6. /\ b \in Entries /\ Neat(b, C) /\ Fine(b) /\ b.offset = Offset[r]
      /\ End(b) = EndOf(r) /\ QueueOfEntry(b) = QueueOf[r] /\ Size(b) = 1
  BY SingleFits, SingleNeat DEF Neat
<1>7. Offset[r] \in Int /\ EndOf(r) \in Int /\ Offset[r] < EndOf(r)
  BY Extent
<1>8. ASSUME NEW k \in {-1, 0, 1}, NEW a, NEW t, NEW g, Spliced(s, t, a, k, g),
             Neat(g, C), \A j \in 1..n : j < a => End(s[j]) <= g.offset,
             \A j \in 1..n : j > a + k => End(g) <= s[j].offset,
             C = {} => /\ a > 1 => ~Mergeable(s[a - 1], g)
                       /\ a + k + 1 <= n => ~Mergeable(g, s[a + k + 1])
      PROVE  Good(t)
  BY <1>1, <1>8, SplicedGood
<1> HIDE DEF p, b, Good
<1>9. ASSUME AfterPrevious
      PROVE  /\ p - 1 \in 1..n /\ End(s[p - 1]) = b.offset
             /\ previous = Glue(s[p - 1], b) /\ previous \in Entries
             /\ Neat(previous, C) /\ previous.offset = s[p - 1].offset
             /\ End(previous) = EndOf(r) /\ Size(previous) = Size(s[p - 1]) + 1
             /\ QueueOfEntry(previous) = QueueOf[r]
  <2> DEFINE i == p - 1
             d == s[i]
  <2>1. i \in 1..n /\ i < p
    BY <1>1, <1>9
  <2>2. /\ d \in Entries /\ Neat(d, C) /\ Fine(d) /\ QueueOfEntry(d) = QueueOf[r]
        /\ End(d) \in Int /\ Size(d) \in Nat
    BY <1>3, <2>1
  <2>3. End(d) <= Offset[r]
    BY <1>5, <2>1
  <2>4. End(d) >= b.offset
    BY <1>9 DEF Mergeable, Contiguous
  <2> HIDE DEF d, i
  <2>5. End(d) = b.offset /\ End(d) = Offset[r]
    BY <1>6, <1>7, <2>2, <2>3, <2>4
  <2>6. Include(d, r) = Glue(d, b)
    BY <2>2, <2>3, IncludeAfter DEF b
  <2>7. Neat(Glue(d, b), C)
    BY <1>6, <2>2, <2>5, GlueNeat
  <2>8. /\ Glue(d, b) \in Entries /\ Glue(d, b).offset = d.offset
        /\ End(Glue(d, b)) = End(b) /\ Size(Glue(d, b)) = Size(d) + Size(b)
        /\ QueueOfEntry(Glue(d, b)) = QueueOfEntry(d)
    BY <1>6, <1>7, <2>2, GlueMembers
  <2>9. previous = Glue(d, b)
    BY <2>6 DEF d, i
  <2> HIDE DEF previous
  <2> QED
    BY <1>6, <2>1, <2>2, <2>5, <2>7, <2>8, <2>9 DEF d, i
<1>10. CASE ~AfterPrevious /\ ~BeforeNext
  <2>1. Spliced(s, new, p, -1, b)
    BY <1>1, <1>2, <1>6, <1>10, InsertSplices
  <2>2. \A j \in 1..n : j < p => End(s[j]) <= b.offset
    BY <1>5, <1>6
  <2>3. \A j \in 1..n : j > p + (-1) => End(b) <= s[j].offset
    <3> TAKE j \in 1..n
    <3> HAVE j > p + (-1)
    <3>1. ~(j < p)
      BY <1>1
    <3> QED
      BY <1>5, <1>6, <3>1
  <2>4. p > 1 => ~Mergeable(s[p - 1], b)
    BY <1>10
  <2>5. p + (-1) + 1 <= n => ~Mergeable(b, s[p + (-1) + 1])
    <3>1. p + (-1) + 1 = p
      BY <1>1
    <3> QED
      BY <1>10, <3>1
  <2>6. -1 \in {-1, 0, 1}
    OBVIOUS
  <2> QED
    BY <1>6, <1>8, <2>1, <2>2, <2>3, <2>4, <2>5, <2>6 DEF Good
<1>11. CASE AfterPrevious /\ ~Joins
  <2> DEFINE i == p - 1
             g == previous
  <2>1. /\ i \in 1..n /\ g \in Entries /\ Neat(g, C) /\ g.offset = s[i].offset
        /\ End(g) = EndOf(r) /\ Size(g) = Size(s[i]) + 1
    BY <1>9, <1>11
  <2>2. new = ReplaceAt(s, i, g)
    BY <1>2, <1>11
  <2>3. p \in Int /\ i + 0 + 1 = p /\ i + 0 = i /\ i < p /\ i \in Int
    BY <1>1
  <2>4. i + 0 + 1 <= n => ~Mergeable(g, s[i + 0 + 1])
    BY <1>11, <2>3
  <2> HIDE DEF g
  <2>5. Spliced(s, new, i, 0, g)
    BY <1>1, <2>1, <2>2, ReplaceSplices
  <2>6. \A j \in 1..n : j < i => End(s[j]) <= g.offset
    BY <1>4, <2>1
  <2>7. \A j \in 1..n : j > i + 0 => End(g) <= s[j].offset
    <3> TAKE j \in 1..n
    <3> HAVE j > i + 0
    <3>1. ~(j < p)
      BY <1>1
    <3> QED
      BY <1>5, <2>1, <3>1
  <2>8. ASSUME C = {}, i > 1 PROVE ~Mergeable(s[i - 1], g)
    <3>1. i \in 2..n /\ i - 1 \in 1..n
      BY <2>1, <2>8
    <3>2. s[i] \in Entries /\ s[i - 1] \in Entries /\ Size(s[i]) \in Nat
      BY <1>3, <2>1, <3>1
    <3>3. Size(g) >= Size(s[i])
      BY <2>1, <3>2
    <3>4. ~Mergeable(s[i - 1], s[i])
      BY <1>4, <2>8, <3>1
    <3> QED
      BY <2>1, <3>2, <3>3, <3>4, StaysApart
  <2>9. 0 \in {-1, 0, 1}
    OBVIOUS
  <2>10. Good(new)
    BY <1>8, <2>1, <2>4, <2>5, <2>6, <2>7, <2>8, <2>9
  <2> QED
    BY <2>10 DEF Good
<1>12. ASSUME NEW g \in Entries, NEW e \in Entries, NEW i \in 1..n, s[i] = e,
              End(g) = End(e), Size(g) >= Size(e), C = {}, i + 1 <= n
       PROVE  ~Mergeable(g, s[i + 1])
  <2>1. i + 1 \in 2..n /\ i + 1 \in 1..n /\ (i + 1) - 1 = i /\ i < i + 1
    BY <1>1, <1>12
  <2>2. s[i + 1] \in Entries /\ s[i + 1].offset \in Int
    BY <1>3, <2>1
  <2>3. ~Mergeable(s[i], s[i + 1])
    BY <1>4, <1>12, <2>1
  <2>4. End(s[i]) <= s[i + 1].offset
    BY <1>4, <2>1
  <2>5. s[i].offset \in Int /\ End(s[i]) \in Int /\ s[i].offset < End(s[i])
    BY <1>3
  <2>6. e.offset <= s[i + 1].offset
    BY <1>12, <2>2, <2>4, <2>5
  <2> QED
    BY <1>12, <2>2, <2>3, <2>6, StaysApart
<1>13. CASE ~AfterPrevious /\ BeforeNext
  <2> DEFINE e == s[p]
             g == Glue(b, e)
  <2>1. p \in 1..n /\ ~(p < p)
    BY <1>1, <1>13
  <2>2. /\ e \in Entries /\ Neat(e, C) /\ Fine(e) /\ QueueOfEntry(e) = QueueOf[r]
        /\ End(e) \in Int /\ e.offset \in Int /\ Size(e) \in Nat
    BY <1>3, <2>1
  <2>3. EndOf(r) <= e.offset
    BY <1>5, <2>1
  <2>4. End(b) >= e.offset
    BY <1>13 DEF Mergeable, Contiguous
  <2>5. new = ReplaceAt(s, p, Include(e, r))
    BY <1>2, <1>13
  <2> HIDE DEF e
  <2>6. End(b) = e.offset
    BY <1>6, <1>7, <2>2, <2>3, <2>4
  <2>7. Include(e, r) = g
    BY <2>2, <2>3, IncludeBefore DEF b
  <2>8. Neat(g, C)
    BY <1>6, <2>2, <2>6, GlueNeat
  <2>9. /\ g \in Entries /\ g.offset = b.offset
        /\ End(g) = End(e) /\ Size(g) = Size(b) + Size(e)
    BY <1>6, <2>2, GlueMembers
  <2> HIDE DEF g
  <2>10. Spliced(s, new, p, 0, g)
    BY <1>1, <2>1, <2>5, <2>7, <2>9, ReplaceSplices
  <2>11. \A j \in 1..n : j < p => End(s[j]) <= g.offset
    BY <1>5, <1>6, <2>9
  <2>12. \A j \in 1..n : j > p + 0 => End(g) <= s[j].offset
    <3> TAKE j \in 1..n
    <3> HAVE j > p + 0
    <3>1. p < j
      BY <1>1
    <3>2. End(s[p]) <= s[j].offset
      BY <1>4, <2>1, <3>1
    <3> QED
      BY <2>9, <3>2 DEF e
  <2>13. ASSUME C = {}, p > 1 PROVE ~Mergeable(s[p - 1], g)
    <3>1. p - 1 \in 1..n /\ ~Mergeable(s[p - 1], b)
      BY <1>13, <2>1, <2>13
    <3>2. s[p - 1] \in Entries
      BY <1>3, <3>1
    <3>3. Size(g) >= Size(b)
      BY <1>6, <2>2, <2>9
    <3> QED
      BY <1>6, <2>9, <3>1, <3>2, <3>3, StaysApart
  <2>14. ASSUME C = {}, p + 0 + 1 <= n PROVE ~Mergeable(g, s[p + 0 + 1])
    <3>1. p + 0 + 1 = p + 1
      BY <1>1
    <3>2. Size(g) >= Size(e)
      BY <1>6, <2>2, <2>9
    <3>3. ~Mergeable(g, s[p + 1])
      BY <1>12, <2>1, <2>2, <2>9, <2>14, <3>1, <3>2 DEF e
    <3> QED
      BY <3>1, <3>3
  <2>15. 0 \in {-1, 0, 1}
    OBVIOUS
  <2>16. Good(new)
    BY <1>8, <2>8, <2>10, <2>11, <2>12, <2>13, <2>14, <2>15
  <2> QED
    BY <2>16 DEF Good
<1>14. CASE AfterPrevious /\ Joins
  <2> DEFINE i == p - 1
             d == previous
             e == s[p]
             g == Glue(d, e)
  <2>1. /\ i \in 1..n /\ d \in Entries /\ Neat(d, C) /\ d.offset = s[i].offset
        /\ End(d) = EndOf(r) /\ Size(d) = Size(s[i]) + 1
        /\ QueueOfEntry(d) = QueueOf[r]
    BY <1>9, <1>14
  <2>2. p \in 1..n /\ i + 1 = p /\ i < p /\ i + 1 + 1 = p + 1 /\ ~(p < p)
    BY <1>1, <1>14
  <2>3. /\ e \in Entries /\ Neat(e, C) /\ Fine(e) /\ QueueOfEntry(e) = QueueOf[r]
        /\ End(e) \in Int /\ e.offset \in Int /\ Size(e) \in Nat
    BY <1>3, <2>2
  <2>4. EndOf(r) <= e.offset
    BY <1>5, <2>2
  <2>5. End(d) >= e.offset
    BY <1>14 DEF Mergeable, Contiguous
  <2>6. new = RemoveAt(ReplaceAt(s, i, Join(d, e)), i + 1)
    BY <1>2, <1>14, <2>2
  <2> HIDE DEF d, e, i
  <2>7. End(d) = e.offset /\ End(d) <= e.offset /\ Fine(d)
    BY <1>7, <2>1, <2>3, <2>4, <2>5 DEF Neat
  <2>8. Join(d, e) = g
    BY <2>1, <2>3, <2>7, JoinAfter
  <2>9. Neat(g, C)
    BY <2>1, <2>3, <2>7, GlueNeat
  <2>10. /\ g \in Entries /\ g.offset = d.offset
         /\ End(g) = End(e) /\ Size(g) = Size(d) + Size(e)
    BY <2>1, <2>3, GlueMembers
  <2> HIDE DEF g
  <2>11. Spliced(s, new, i, 1, g)
    BY <1>1, <2>1, <2>2, <2>6, <2>8, <2>10, JoinSplices
  <2>12. \A j \in 1..n : j < i => End(s[j]) <= g.offset
    BY <1>4, <2>1, <2>10
  <2>13. \A j \in 1..n : j > i + 1 => End(g) <= s[j].offset
    <3> TAKE j \in 1..n
    <3> HAVE j > i + 1
    <3>1. End(s[p]) <= s[j].offset
      BY <1>4, <2>2
    <3> QED
      BY <2>10, <3>1 DEF e
  <2>14. s[i] \in Entries /\ Size(s[i]) \in Nat
    BY <1>3, <2>1
  <2>15. ASSUME C = {}, i > 1 PROVE ~Mergeable(s[i - 1], g)
    <3>1. i \in 2..n /\ i - 1 \in 1..n
      BY <2>1, <2>15
    <3>2. s[i - 1] \in Entries
      BY <1>3, <3>1
    <3>3. Size(g) >= Size(s[i]) /\ g.offset = s[i].offset
      BY <2>1, <2>3, <2>10, <2>14
    <3>4. ~Mergeable(s[i - 1], s[i])
      BY <1>4, <2>15, <3>1
    <3> QED
      BY <2>10, <2>14, <3>2, <3>3, <3>4, StaysApart
  <2>16. ASSUME C = {}, i + 1 + 1 <= n PROVE ~Mergeable(g, s[i + 1 + 1])
    <3>1. p + 1 <= n
      BY <2>2, <2>16
    <3>2. Size(g) >= Size(e)
      BY <2>1, <2>3, <2>10, <2>14
    <3>3. ~Mergeable(g, s[p + 1])
      BY <1>12, <2>2, <2>3, <2>10, <2>16, <3>1, <3>2 DEF e
    <3> QED
      BY <2>2, <3>3
  <2>17. 1 \in {-1, 0, 1}
    OBVIOUS
  <2>18. Good(new)
    BY <1>8, <2>9, <2>11, <2>12, <2>13, <2>15, <2>16, <2>17
  <2> QED
    BY <2>18 DEF Good
<1> QED
  BY <1>10, <1>11, <1>13, <1>14

-----------------------------------------------------------------------------
(* __timeline_add_req.  In the timeline a new request may be aggregated on  *)
(* either side of an entry.                                                 *)
LEMMA TakenIn ==
  ASSUME NoneEmpty, NEW C, NEW e \in Entries, Neat(e, C), NEW r \in Requests,
         r \notin C, TakesIn(e, r), \A x \in ToSet(e.reqs) : ~Overlap(x, r)
  PROVE  Neat(Include(e, r), C)
<1> DEFINE b == Single(r)
<1>1. /\ b \in Entries /\ Neat(b, C) /\ b.offset = Offset[r]
      /\ End(b) = EndOf(r) /\ QueueOfEntry(b) = QueueOf[r]
  BY SingleFits, SingleNeat
<1>2. /\ Offset[r] \in Int /\ EndOf(r) \in Int /\ Offset[r] < EndOf(r)
  BY Extent
<1>3. Fine(e) /\ Guarded(e, C) /\ QueueOfEntry(e) = QueueOf[r]
  BY DEF Neat, TakesIn
<1>4. e.offset \in Int /\ End(e) \in Int /\ e.offset < End(e)
  BY <1>3, FineHull
<1>5. EndOf(r) <= e.offset \/ End(e) <= Offset[r]
  BY <1>3, OutsideEntry DEF Outside
<1>6. \/ Offset[r] <= e.offset /\ EndOf(r) >= e.offset
      \/ e.offset <= Offset[r] /\ End(e) >= Offset[r]
  BY <1>1 DEF TakesIn, Contiguous
<1> HIDE DEF b
<1>7. CASE EndOf(r) <= e.offset
  <2>1. End(b) = e.offset
    BY <1>1, <1>2, <1>4, <1>6, <1>7
  <2>2. Include(e, r) = Glue(b, e)
    BY <1>3, <1>7, IncludeBefore DEF b
  <2> QED
    BY <1>1, <1>3, <2>1, <2>2, GlueNeat
<1>8. CASE End(e) <= Offset[r]
  <2>1. End(e) = b.offset
    BY <1>1, <1>2, <1>4, <1>6, <1>8
  <2>2. Include(e, r) = Glue(e, b)
    BY <1>3, <1>8, IncludeAfter DEF b
  <2> QED
    BY <1>1, <1>3, <2>1, <2>2, GlueNeat
<1> QED
  BY <1>5, <1>7, <1>8

LEMMA TimelineInsertNeat ==
  ASSUME NoneEmpty, NEW C, NEW s, Proper(s), \A e \in ToSet(s) : Neat(e, C),
         NEW r \in Requests, r \notin C, \A x \in Members(s) : ~Overlap(x, r)
  PROVE  \A e \in ToSet(TimelineInsert(s, r)) : Neat(e, C)
<1> DEFINE I == {j \in 1..Len(s) : TakesIn(s[j], r)}
           i == SelectInSeq(s, LAMBDA e : TakesIn(e, r))
<1>1. s \in Seq(Entries) /\ Len(s) \in Nat
  BY LenProperties DEF Proper
<1>2. i = IF I # {} THEN Min(I) ELSE 0
  BY DEF SelectInSeq
<1>3. I # {} => Min(I) \in I
  <2>1. I \subseteq Nat
    BY <1>1
  <2> QED
    BY <2>1, LeastNumber
<1>4. i # 0 => i \in I
  <2> HIDE DEF I
  <2> QED
    BY <1>2, <1>3
<1>5. TimelineInsert(s, r) = IF i = 0 THEN Append(s, Single(r))
                             ELSE ReplaceAt(s, i, Include(s[i], r))
  BY DEF TimelineInsert
<1> HIDE DEF i
<1>6. CASE i = 0
  <2>1. Single(r) \in Entries /\ Neat(Single(r), C)
    BY SingleFits, SingleNeat
  <2>2. ToSet(Append(s, Single(r))) = ToSet(s) \cup {Single(r)}
    BY <1>1, <2>1, Appended
  <2> QED
    BY <1>5, <1>6, <2>1, <2>2
<1>7. CASE i # 0
  <2> DEFINE g == Include(s[i], r)
  <2>1. i \in 1..Len(s) /\ TakesIn(s[i], r)
    BY <1>4, <1>7
  <2>2. /\ s[i] \in Entries /\ s[i] \in ToSet(s)
        /\ ToSet(s[i].reqs) \subseteq Members(s)
    BY <2>1, EntryOfList
  <2>3. Neat(g, C)
    BY <2>1, <2>2, TakenIn
  <2>4. g \in Entries
    BY <2>2, IncludeType
  <2> HIDE DEF g
  <2>5. Spliced(s, ReplaceAt(s, i, g), i, 0, g)
    BY <1>1, <2>1, <2>4, ReplaceSplices
  <2>6. ToSet(ReplaceAt(s, i, g)) \subseteq ToSet(s) \cup {g}
    BY <1>1, <2>5, SplicedSet
  <2>7. TimelineInsert(s, r) = ReplaceAt(s, i, g)
    BY <1>5, <1>7 DEF g
  <2> QED
    BY <2>3, <2>6, <2>7
<1> QED
  BY <1>6, <1>7

(* A scheduler takes an entry.                                              *)
LEMMA RemoveRanged ==
  ASSUME NEW s \in Seq(Entries), Ranged(s), NEW i \in 1..Len(s)
  PROVE  Ranged(RemoveAt(s, i))
<1> DEFINE t == RemoveAt(s, i)
           n == Len(s)
<1>1. n \in Nat /\ i \in 1..n
  BY LenProperties
<1>2. /\ Len(t) = n - 1
      /\ \A j \in 1..(n - 1) : t[j] = IF j < i THEN s[j] ELSE s[j + 1]
  BY Removal
<1>3. \A j, k \in 1..n : j < k => End(s[j]) <= s[k].offset
  BY DEF Ranged
<1> HIDE DEF t, n
<1>4. ASSUME NEW j \in 1..(n - 1), NEW k \in 1..(n - 1), j < k
      PROVE  End(t[j]) <= t[k].offset
  <2>1. CASE k < i
    <3>1. j < i /\ j \in 1..n /\ k \in 1..n
      BY <1>1, <1>4, <2>1
    <3> QED
      BY <1>2, <1>3, <1>4, <2>1, <3>1
  <2>2. CASE j < i /\ ~(k < i)
    <3>1. j \in 1..n /\ k + 1 \in 1..n /\ j < k + 1
      BY <1>1, <1>4
    <3> QED
      BY <1>2, <1>3, <2>2, <3>1
  <2>3. CASE ~(j < i)
    <3>1. j + 1 \in 1..n /\ k + 1 \in 1..n /\ j + 1 < k + 1 /\ ~(k < i)
      BY <1>1, <1>4, <2>3
    <3> QED
      BY <1>2, <1>3, <2>3, <3>1
  <2> QED
    BY <2>1, <2>2, <2>3
<1>5. Ranged(t)
  BY <1>2, <1>4 DEF Ranged
<1> QED
  BY <1>5 DEF t

LEMMA RemoveMaximal ==
  ASSUME NoneEmpty, NEW s \in Seq(Entries), Ranged(s), Maximal(s),
         \A e \in ToSet(s) : Fine(e), NEW i \in 1..Len(s)
  PROVE  Maximal(RemoveAt(s, i))
<1> DEFINE t == RemoveAt(s, i)
           n == Len(s)
<1>1. n \in Nat /\ i \in 1..n
  BY LenProperties
<1>2. /\ Len(t) = n - 1
      /\ \A j \in 1..(n - 1) : t[j] = IF j < i THEN s[j] ELSE s[j + 1]
  BY Removal
<1>3. /\ \A j, k \in 1..n : j < k => End(s[j]) <= s[k].offset
      /\ \A j \in 2..n : ~Mergeable(s[j - 1], s[j])
  BY DEF Ranged, Maximal
<1>4. ASSUME NEW j \in 1..n
      PROVE  s[j].offset \in Int /\ End(s[j]) \in Int /\ s[j].offset < End(s[j])
  <2>1. s[j] \in Entries /\ s[j] \in ToSet(s)
    BY LenProperties DEF ToSet
  <2> QED
    BY <2>1, FineHull
<1> HIDE DEF t, n
<1>5. ASSUME NEW j \in 2..(n - 1) PROVE ~Mergeable(t[j - 1], t[j])
  <2>1. j \in 1..(n - 1) /\ j - 1 \in 1..(n - 1) /\ j \in 2..n /\ j \in 1..n
    BY <1>1
  <2>2. CASE j < i
    <3>1. j - 1 < i
      BY <1>1, <2>2
    <3> QED
      BY <1>2, <1>3, <2>1, <2>2, <3>1
  <2>3. CASE j = i
    <3>1. /\ j - 1 < i /\ ~(j < i) /\ i - 1 \in 1..n /\ i \in 1..n /\ i + 1 \in 1..n
          /\ i - 1 < i /\ i < i + 1
      BY <1>1, <2>3
    <3>2. t[j - 1] = s[i - 1] /\ t[j] = s[i + 1]
      BY <1>2, <2>1, <2>3, <3>1
    <3>3. End(s[i - 1]) <= s[i].offset /\ End(s[i]) <= s[i + 1].offset
      BY <1>3, <3>1
    <3>4. End(s[i - 1]) < s[i + 1].offset
      <4>1. /\ End(s[i - 1]) \in Int /\ s[i].offset \in Int /\ End(s[i]) \in Int
            /\ s[i].offset < End(s[i]) /\ s[i + 1].offset \in Int
        BY <1>4, <3>1
      <4> QED
        BY <3>3, <4>1
    <3>5. ~(End(s[i - 1]) >= s[i + 1].offset)
      <4>1. End(s[i - 1]) \in Int /\ s[i + 1].offset \in Int
        BY <1>4, <3>1
      <4> QED
        BY <3>4, <4>1
    <3> QED
      BY <3>2, <3>5 DEF Mergeable, Contiguous
  <2>4. CASE j > i
    <3>1. ~(j < i) /\ ~(j - 1 < i) /\ j + 1 \in 2..n /\ (j - 1) + 1 = (j + 1) - 1
      BY <1>1, <2>4
    <3>2. t[j - 1] = s[(j + 1) - 1] /\ t[j] = s[j + 1]
      BY <1>2, <2>1, <3>1
    <3> QED
      BY <1>3, <3>1, <3>2
  <2> QED
    BY <1>1, <2>2, <2>3, <2>4
<1>6. Maximal(t)
  BY <1>2, <1>5 DEF Maximal
<1> QED
  BY <1>6 DEF t

-----------------------------------------------------------------------------
(* A cancel: what Over makes of members that are in order.                  *)
LEMMA OverFine ==
  ASSUME NoneEmpty, NEW rs \in Seq(Requests), rs # <<>>,
         \A i, j \in 1..Len(rs) : i < j => EndOf(rs[i]) <= Offset[rs[j]]
  PROVE  Over(rs) \in Entries /\ Over(rs).reqs = rs /\ Fine(Over(rs))
<1> DEFINE e == Over(rs)
           n == Len(rs)
<1>1. /\ e \in Entries /\ e.reqs = rs
      /\ e.offset \in {Offset[x] : x \in ToSet(rs)}
      /\ End(e) \in {EndOf(x) : x \in ToSet(rs)}
      /\ \A x \in ToSet(rs) : e.offset <= Offset[x] /\ EndOf(x) <= End(e)
  BY OverCovers
<1>2. n \in Nat \ {0} /\ Size(e) = n /\ ToSet(rs) = {rs[k] : k \in 1..n}
  <2>1. n \in Nat \ {0} /\ DOMAIN rs = 1..n
    BY EmptySeq, LenProperties
  <2> QED
    BY <1>1, <2>1 DEF Size, ToSet
<1>3. ASSUME NEW k \in 1..n
      PROVE  /\ Offset[rs[k]] \in Int /\ EndOf(rs[k]) \in Int
             /\ Offset[rs[k]] < EndOf(rs[k])
  <2>1. rs[k] \in Requests
    BY LenProperties
  <2> QED
    BY <2>1, Extent
<1> HIDE DEF e, n
<1>4. 1 \in 1..n /\ n \in 1..n /\ \A k \in 1..n : (k # 1 => 1 < k) /\ (k # n => k < n)
  BY <1>2
<1>5. e.offset = Offset[rs[1]]
  <2>1. PICK k \in 1..n : e.offset = Offset[rs[k]]
    BY <1>1, <1>2
  <2>2. e.offset <= Offset[rs[1]]
    BY <1>1, <1>2, <1>4
  <2>3. CASE k = 1
    BY <2>1, <2>3
  <2>4. CASE k # 1
    <3>1. EndOf(rs[1]) <= Offset[rs[k]]
      BY <1>4, <2>4 DEF n
    <3>2. /\ Offset[rs[1]] \in Int /\ EndOf(rs[1]) \in Int
          /\ Offset[rs[1]] < EndOf(rs[1]) /\ Offset[rs[k]] \in Int
      BY <1>3, <1>4
    <3> QED
      BY <2>1, <2>2, <3>1, <3>2
  <2> QED
    BY <2>3, <2>4
<1>6. End(e) = EndOf(rs[n])
  <2>1. PICK k \in 1..n : End(e) = EndOf(rs[k])
    BY <1>1, <1>2
  <2>2. EndOf(rs[n]) <= End(e)
    BY <1>1, <1>2, <1>4
  <2>3. CASE k = n
    BY <2>1, <2>3
  <2>4. CASE k # n
    <3>1. EndOf(rs[k]) <= Offset[rs[n]]
      BY <1>4, <2>4 DEF n
    <3>2. /\ Offset[rs[n]] \in Int /\ EndOf(rs[n]) \in Int
          /\ Offset[rs[n]] < EndOf(rs[n]) /\ EndOf(rs[k]) \in Int
      BY <1>3, <1>4
    <3> QED
      BY <2>1, <2>2, <3>1, <3>2
  <2> QED
    BY <2>3, <2>4
<1>7. \A i, j \in 1..n : i < j => EndOf(rs[i]) <= Offset[rs[j]]
  BY DEF n
<1>8. Fine(e)
  BY <1>1, <1>2, <1>5, <1>6, <1>7 DEF Fine
<1> QED
  BY <1>1, <1>8 DEF e

LEMMA FineIsOver ==
  ASSUME NoneEmpty, NEW e \in Entries, Fine(e)
  PROVE  e = Over(e.reqs)
<1> DEFINE d == Over(e.reqs)
<1>1. e.reqs \in Seq(Requests) /\ e.reqs # <<>> /\ Size(e) = Len(e.reqs)
  BY MembersOfEntry DEF Entries
<1>2. d \in Entries /\ d.reqs = e.reqs /\ Fine(d)
  BY <1>1, OverFine DEF Fine
<1> HIDE DEF d
<1>3. d.offset = e.offset /\ End(d) = End(e)
  BY <1>1, <1>2 DEF Fine, Size
<1>4. e.len = End(e) - e.offset /\ d.len = End(d) - d.offset
  BY <1>2, FineHull
<1>5. d.len = e.len
  BY <1>3, <1>4
<1>6. d = e
  BY <1>2, <1>3, <1>5 DEF Entries
<1> QED
  BY <1>6 DEF d

(* The requests that overlap no other: what a tidy client cancels.          *)
Lone == {x \in Requests : \A y \in Requests : x # y => ~Overlap(x, y)}

LEMMA OverNeat ==
  ASSUME NoneEmpty, NEW C, NEW e \in Entries, IsInjective(e.reqs), Fits(e),
         Neat(e, C), Size(e) # 1, NEW x \in ToSet(e.reqs), x \in Lone
  PROVE  LET g == Over(RemoveFirst(e.reqs, x))
         IN  /\ g \in Entries /\ Neat(g, C \cup {x})
             /\ e.offset <= g.offset /\ End(g) <= End(e)
<1> DEFINE t == RemoveFirst(e.reqs, x)
           g == Over(t)
           n == Size(e)
<1>1. /\ e.reqs \in Seq(Requests) /\ n \in Nat \ {0} /\ n = Len(e.reqs)
      /\ DOMAIN e.reqs = 1..n /\ Head(e.reqs) \in ToSet(e.reqs)
      /\ ToSet(e.reqs) \subseteq Requests
  BY MembersOfEntry
<1>2. PICK k \in 1..n : e.reqs[k] = x /\ t = RemoveAt(e.reqs, k)
  BY <1>1, FirstRemoval
<1>3. /\ t \in Seq(Requests) /\ Len(t) = n - 1
      /\ \A j \in 1..(n - 1) : t[j] = IF j < k THEN e.reqs[j] ELSE e.reqs[j + 1]
  <2> DEFINE rs == e.reqs
  <2>1. rs \in Seq(Requests) /\ n = Len(rs) /\ k \in 1..Len(rs) /\ t = RemoveAt(rs, k)
    BY <1>1, <1>2
  <2> HIDE DEF t, n, rs
  <2>2. /\ t \in Seq(Requests) /\ Len(t) = Len(rs) - 1
        /\ \A j \in 1..(Len(rs) - 1) : t[j] = IF j < k THEN rs[j] ELSE rs[j + 1]
    BY <2>1, Removal
  <2> QED
    BY <2>1, <2>2 DEF rs
<1>4. ToSet(t) = ToSet(e.reqs) \ {x}
  BY <1>1, <1>2, DistinctRemoval
<1>5. \A i, j \in 1..n : i < j => EndOf(e.reqs[i]) <= Offset[e.reqs[j]]
  BY DEF Neat, Fine
<1>6. t # <<>>
  <2>1. Len(t) # 0
    BY <1>1, <1>3
  <2> QED
    BY <2>1
<1> HIDE DEF t, n
<1>7. ASSUME NEW i \in 1..(n - 1), NEW j \in 1..(n - 1), i < j
      PROVE  EndOf(t[i]) <= Offset[t[j]]
  <2>1. CASE j < k
    <3>1. i < k /\ i \in 1..n /\ j \in 1..n
      BY <1>1, <1>7, <2>1
    <3> QED
      BY <1>3, <1>5, <1>7, <2>1, <3>1
  <2>2. CASE i < k /\ ~(j < k)
    <3>1. i \in 1..n /\ j + 1 \in 1..n /\ i < j + 1
      BY <1>1, <1>7
    <3> QED
      BY <1>3, <1>5, <2>2, <3>1
  <2>3. CASE ~(i < k)
    <3>1. ~(j < k) /\ i + 1 \in 1..n /\ j + 1 \in 1..n /\ i + 1 < j + 1
      BY <1>1, <1>7, <2>3
    <3> QED
      BY <1>3, <1>5, <2>3, <3>1
  <2> QED
    BY <2>1, <2>2, <2>3
<1>8. g \in Entries /\ g.reqs = t /\ Fine(g)
  BY <1>3, <1>6, <1>7, OverFine
<1>9. /\ g.offset \in {Offset[y] : y \in ToSet(t)}
      /\ End(g) \in {EndOf(y) : y \in ToSet(t)}
  BY <1>3, <1>6, OverCovers
<1> HIDE DEF g
<1>10. /\ e.offset \in Int /\ End(e) \in Int
       /\ \A y \in ToSet(e.reqs) : e.offset <= Offset[y] /\ EndOf(y) <= End(e)
  BY FineHull DEF Neat
<1>11. g.offset \in Int /\ End(g) \in Int
  BY <1>8, FineHull
<1>12. e.offset <= g.offset /\ End(g) <= End(e)
  BY <1>4, <1>9, <1>10
<1>13. QueueOfEntry(g) = QueueOfEntry(e)
  <2>1. Head(g.reqs) \in ToSet(t)
    BY <1>8, MembersOfEntry
  <2> QED
    BY <1>1, <1>4, <2>1 DEF QueueOfEntry, Fits
<1>14. Guarded(g, C \cup {x})
  <2> SUFFICES ASSUME NEW y \in Requests, QueueOf[y] = QueueOfEntry(e), ~Outside(y, g),
                      y # x, y \notin C
               PROVE  \E z \in ToSet(t) : Overlap(z, y)
    BY <1>8, <1>13 DEF Guarded
  <2>1. Offset[y] \in Int /\ EndOf(y) \in Int
    BY Extent
  <2>2. ~Outside(y, e)
    BY <1>10, <1>11, <1>12, <2>1 DEF Outside
  <2>3. PICK z \in ToSet(e.reqs) : Overlap(z, y)
    BY <2>2 DEF Neat, Guarded
  <2>4. z # x
    BY <2>3 DEF Lone
  <2> QED
    BY <1>4, <2>3, <2>4
<1>15. Neat(g, C \cup {x})
  BY <1>8, <1>14 DEF Neat
<1> QED
  BY <1>8, <1>12, <1>15 DEF g, t

LEMMA WithoutNeat ==
  ASSUME NoneEmpty, NEW C, NEW s, Proper(s), \A e \in ToSet(s) : Neat(e, C),
         NEW i \in 1..Len(s), NEW x \in ToSet(s[i].reqs), x \in Lone
  PROVE  /\ \A e \in ToSet(Without(s, i, x)) : Neat(e, C \cup {x})
         /\ Ranged(s) => Ranged(Without(s, i, x))
<1>1. s \in Seq(Entries) /\ s[i] \in Entries /\ s[i] \in ToSet(s)
      /\ IsInjective(s[i].reqs) /\ Fits(s[i]) /\ Neat(s[i], C)
  BY EntryOfList DEF Proper
<1>2. \A e \in ToSet(s) : Neat(e, C \cup {x})
  BY DEF Neat, Guarded
<1>3. CASE Size(s[i]) = 1
  <2>1. Without(s, i, x) = RemoveAt(s, i)
    BY <1>3 DEF Without
  <2>2. ToSet(RemoveAt(s, i)) \subseteq ToSet(s)
    BY <1>1, Removal
  <2> QED
    BY <1>1, <1>2, <2>1, <2>2, RemoveRanged
<1>4. CASE Size(s[i]) # 1
  <2> DEFINE g == Over(RemoveFirst(s[i].reqs, x))
  <2>1. /\ g \in Entries /\ Neat(g, C \cup {x})
        /\ s[i].offset <= g.offset /\ End(g) <= End(s[i])
    BY <1>1, <1>4, OverNeat
  <2>2. Without(s, i, x) = ReplaceAt(s, i, g)
    BY <1>4 DEF Without
  <2> HIDE DEF g
  <2>3. Spliced(s, ReplaceAt(s, i, g), i, 0, g)
    BY <1>1, <2>1, ReplaceSplices
  <2>4. ToSet(ReplaceAt(s, i, g)) \subseteq ToSet(s) \cup {g}
    BY <1>1, <2>3, SplicedSet
  <2>5. ASSUME Ranged(s) PROVE Ranged(ReplaceAt(s, i, g))
    <3>1. /\ g.offset \in Int /\ End(g) \in Int
          /\ s[i].offset \in Int /\ End(s[i]) \in Int
      BY <1>1, <2>1, FineHull DEF Neat
    <3>2. ASSUME NEW j \in 1..Len(s)
          PROVE  s[j].offset \in Int /\ End(s[j]) \in Int
      <4>1. s[j] \in Entries /\ Fine(s[j])
        BY EntryOfList DEF Neat
      <4> QED
        BY <4>1, FineHull
    <3>3. ASSUME NEW j \in 1..Len(s), j < i PROVE End(s[j]) <= g.offset
      <4>1. End(s[j]) <= s[i].offset
        BY <2>5, <3>3 DEF Ranged
      <4> QED
        BY <2>1, <3>1, <3>2, <4>1
    <3>4. ASSUME NEW j \in 1..Len(s), j > i + 0 PROVE End(g) <= s[j].offset
      <4>1. i < j
        BY <3>4
      <4>2. End(s[i]) <= s[j].offset
        BY <2>5, <4>1 DEF Ranged
      <4> QED
        BY <2>1, <3>1, <3>2, <4>2
    <3> QED
      BY <1>1, <2>3, <2>5, <3>3, <3>4, SplicedRanged
  <2> QED
    BY <1>2, <2>1, <2>2, <2>4, <2>5
<1> QED
  BY <1>3, <1>4

-----------------------------------------------------------------------------
(* The migrations.                                                          *)
LEMMA NothingInRow == ASSUME NEW C PROVE AllNeat(<<>>, C) /\ InRow(<<>>, C)
<1>1. Len(<<>>) = 0 /\ ToSet(<<>>) = {} /\ 1..0 = {} /\ 2..0 = {}
  BY DEF ToSet
<1>2. Ranged(<<>>) /\ Maximal(<<>>)
  BY <1>1 DEF Ranged, Maximal
<1> QED
  BY <1>1, <1>2 DEF AllNeat, InRow

LEMMA RehashesNeat ==
  ASSUME NoneEmpty, NEW C, NEW ls \in [Lists -> Seq(Entries)],
         \A q \in Queues : ls[q] = <<>>, NEW rs \in Seq(Requests), IsInjective(rs),
         ToSet(rs) \cap C = {}, Apart(ToSet(rs))
  PROVE  \A q \in Queues : /\ AllNeat(ForEach(Rehash, ls, rs)[q], C)
                           /\ InRow(ForEach(Rehash, ls, rs)[q], C)
<1> DEFINE n == Len(rs)
           Good(h) == \A q \in Queues : AllNeat(h[q], C) /\ InRow(h[q], C)
<1>1. n \in Nat /\ n \in 0..n /\ \A k \in 1..n : rs[k] \in Requests
  BY LenProperties
<1>2. PICK h \in [0..n -> [Lists -> Seq(Entries)]] :
        /\ h[0] = ls
        /\ \A k \in 1..n : h[k] = Rehash(h[k - 1], rs[k])
        /\ ForEach(Rehash, ls, rs) = h[n]
  BY RehashLoop
<1>3. \A k \in 0..n : Rehashed(h[k], Upto(rs, k))
  BY <1>2, RehashSteps
<1> DEFINE P == {k \in 0..n : Good(h[k])}
<1>4. 0 \in P
  BY <1>1, <1>2, NothingInRow
<1>5. ASSUME NEW k \in 1..n, k - 1 \in P PROVE k \in P
  <2> DEFINE r == rs[k]
             a == h[k - 1]
             p == QueueOf[r]
  <2>1. k \in 0..n /\ k - 1 \in 0..n /\ r \in Requests
    BY <1>1
  <2>2. /\ r \in ToSet(rs) /\ r \notin Upto(rs, k - 1)
        /\ Upto(rs, k - 1) \subseteq ToSet(rs)
    BY UptoDistinct
  <2>3. p \in Queues /\ p \in Lists /\ a \in [Lists -> Seq(Entries)]
    <3>1. a \in [Lists -> Seq(Entries)]
      BY <2>1
    <3> QED
      BY <2>1, <3>1, ListOfRequest DEF Lists
  <2>4. Good(a)
    BY <1>5
  <2>5. Proper(a[p]) /\ Members(a[p]) = OfQueue(Upto(rs, k - 1), p)
    BY <1>3, <2>1, <2>3 DEF Rehashed
  <2>6. h[k] = [a EXCEPT ![p] = HashtableInsert(a[p], r)]
    <3>1. h[k] = Rehash(a, r)
      BY <1>2
    <3> QED
      BY <3>1 DEF Rehash
  <2>7. \A x \in Members(a[p]) : QueueOf[x] = QueueOf[r] /\ ~Overlap(x, r)
    BY <2>2, <2>5 DEF OfQueue, Apart
  <2>8. r \notin C /\ AllNeat(a[p], C) /\ InRow(a[p], C)
    BY <2>2, <2>3, <2>4
  <2> DEFINE g == HashtableInsert(a[p], r)
  <2>9. AllNeat(g, C) /\ InRow(g, C)
    BY <2>1, <2>5, <2>7, <2>8, HashtableInsertGood DEF AllNeat
  <2> HIDE DEF g, a
  <2>10. ASSUME NEW q \in Queues PROVE AllNeat(h[k][q], C) /\ InRow(h[k][q], C)
    <3>1. h[k][q] = IF q = p THEN g ELSE a[q]
      BY <2>3, <2>6 DEF Lists, g
    <3> QED
      BY <2>4, <2>9, <3>1
  <2> QED
    BY <2>1, <2>10
<1>6. n \in P
  <2> HIDE DEF P, n
  <2> QED
    BY <1>1, <1>4, <1>5, Interval
<1> QED
  BY <1>2, <1>6

LEMMA TimeInsertsNeat ==
  ASSUME NoneEmpty, NEW C, NEW rs \in Seq(Requests)
  PROVE  AllNeat(ForEach(TimeInsert, <<>>, rs), C)
<1> DEFINE n == Len(rs)
<1>1. n \in Nat /\ n \in 0..n /\ \A k \in 1..n : rs[k] \in Requests
  BY LenProperties
<1>2. <<>> \in Seq(Entries)
  OBVIOUS
<1>3. PICK h \in [0..n -> Seq(Entries)] :
        /\ h[0] = <<>>
        /\ \A k \in 1..n : h[k] = TimeInsert(h[k - 1], rs[k])
        /\ ForEach(TimeInsert, <<>>, rs) = h[n]
  BY <1>2, TimeInsertLoop
<1> DEFINE P == {k \in 0..n : AllNeat(h[k], C)}
<1>4. 0 \in P
  BY <1>1, <1>3, NothingInRow
<1>5. ASSUME NEW k \in 1..n, k - 1 \in P PROVE k \in P
  <2> DEFINE s == h[k - 1]
             r == rs[k]
             e == Single(r)
  <2>1. k \in 0..n /\ k - 1 \in 0..n /\ r \in Requests
    BY <1>1
  <2>2. s \in Seq(Entries) /\ AllNeat(s, C)
    BY <1>5, <2>1
  <2>3. h[k] = TimeInsert(s, r)
    BY <1>3
  <2>4. e \in Entries /\ Neat(e, C)
    BY <2>1, SingleFits, SingleNeat
  <2>5. TimeInsert(s, r) = Append(s, e) \/ \E i \in 1..Len(s) : TimeInsert(s, r) = InsertAt(s, i, e)
    BY <2>1, <2>2, TimePlace
  <2> HIDE DEF s, r, e
  <2>6. CASE TimeInsert(s, r) = Append(s, e)
    <3>1. ToSet(Append(s, e)) = ToSet(s) \cup {e}
      BY <2>2, <2>4, Appended
    <3> QED
      BY <2>1, <2>2, <2>3, <2>4, <2>6, <3>1 DEF AllNeat
  <2>7. CASE \E i \in 1..Len(s) : TimeInsert(s, r) = InsertAt(s, i, e)
    <3>1. PICK i \in 1..Len(s) : TimeInsert(s, r) = InsertAt(s, i, e)
      BY <2>7
    <3>2. i \in 1..(Len(s) + 1)
      BY <2>2, LenProperties
    <3>3. ToSet(InsertAt(s, i, e)) = ToSet(s) \cup {e}
      BY <2>2, <2>4, <3>2, Insertion
    <3> QED
      BY <2>1, <2>2, <2>3, <2>4, <3>1, <3>3 DEF AllNeat
  <2> QED
    BY <2>5, <2>6, <2>7
<1>6. n \in P
  <2> HIDE DEF P, n
  <2> QED
    BY <1>1, <1>4, <1>5, Interval
<1> QED
  BY <1>3, <1>6

LEMMA SinglesNeat ==
  ASSUME NoneEmpty, NEW C, NEW rs \in Seq(Requests)
  PROVE  AllNeat([i \in DOMAIN rs |-> Single(rs[i])], C)
<1>1. \A i \in DOMAIN rs : rs[i] \in Requests
  BY LenProperties
<1>2. \A i \in DOMAIN rs : Neat(Single(rs[i]), C)
  BY <1>1, SingleNeat
<1> QED
  BY <1>2 DEF AllNeat, ToSet

LEMMA ToTimelineNeat ==
  ASSUME NoneEmpty, IInv, NeedsHashtable(alg), NEW a, NEW C
  PROVE  AllNeat(ToTimeline(a)[Timeline], C)
<1>1. AllParts \in Seq(Requests)
  BY AllPartsOf
<1>2. Timeline \in Lists /\ list[Timeline] = <<>>
  BY OtherListsEmpty DEF Lists
<1> DEFINE d == [i \in DOMAIN AllParts |-> Single(AllParts[i])]
           t == ForEach(TimeInsert, <<>>, AllParts)
<1>3. AllNeat(d, C) /\ AllNeat(t, C)
  BY <1>1, SinglesNeat, TimeInsertsNeat
<1>4. ToTimeline(a)[Timeline] = IF a = "NOOP" THEN d ELSE t
  BY <1>2 DEF ToTimeline
<1> HIDE DEF d, t
<1> QED
  BY <1>3, <1>4

LEMMA ToHashtableNeat ==
  ASSUME NoneEmpty, IInv, ~NeedsHashtable(alg), NEW C,
         \A r \in Requests : Queued(r) => r \notin C,
         Apart({r \in Requests : Queued(r)})
  PROVE  \A q \in Queues : AllNeat(ToHashtable[q], C) /\ InRow(ToHashtable[q], C)
<1> DEFINE rs == Parts(list[Timeline])
           ls == ForEach(Rehash, list, rs)
<1>1. list \in [Lists -> Seq(Entries)] /\ Timeline \in Lists
      /\ \A q \in Queues : q \in Lists /\ q # Timeline
  BY StoreAssumption DEF IInv, Typed, Lists
<1>2. \A q \in Queues : list[q] = <<>>
  BY <1>1, OtherListsEmpty
<1>3. Proper(list[Timeline]) /\ Members(list[Timeline]) \subseteq Requests
  <2>1. Proper(list[Timeline])
    BY <1>1 DEF IInv, ListsProper
  <2> QED
    BY <2>1, ProperMembers
<1>4. rs \in Seq(Requests) /\ IsInjective(rs) /\ ToSet(rs) = Members(list[Timeline])
  BY <1>3, PartsOf
<1>5. ToSet(rs) = {r \in Requests : Queued(r)}
  BY <1>3, <1>4 DEF Queued, ListOf
<1> HIDE DEF rs
<1>6. ToSet(rs) \cap C = {} /\ Apart(ToSet(rs))
  BY <1>5
<1>7. \A q \in Queues : AllNeat(ls[q], C) /\ InRow(ls[q], C)
  BY <1>1, <1>2, <1>4, <1>6, RehashesNeat
<1>8. ls \in [Lists -> Seq(Entries)]
  BY <1>1, <1>2, <1>4, Rehashes
<1>9. ToHashtable = [ls EXCEPT ![Timeline] = <<>>]
  BY DEF ToHashtable, rs
<1> HIDE DEF ls
<1>10. \A q \in Queues : ToHashtable[q] = ls[q]
  BY <1>1, <1>8, <1>9
<1> QED
  BY <1>7, <1>10

-----------------------------------------------------------------------------
(* The inductive invariant.  What is queued keeps apart from what is queued,*)
(* but may overlap what was dispatched: Guarded is about what is there, and *)
(* a hole stays empty since what left it overlaps nothing.                  *)
Gone == {r \in Requests : fate[r] = "cancelled"}
InQueues == {r \in Requests : Queued(r)}
OInv ==
  /\ \A l \in Lists : AllNeat(list[l], Gone)
  /\ \A q \in Queues : InRow(list[q], Gone)
  /\ Apart(InQueues) /\ Gone \subseteq Lone

LEMMA InitOInv == ASSUME Init PROVE OInv
<1>1. list = [l \in Lists |-> <<>>] /\ fate = [r \in Requests |-> "new"]
  BY DEF Init
<1>2. \A l \in Lists : AllNeat(list[l], Gone)
  BY <1>1, NothingInRow
<1>3. \A q \in Queues : InRow(list[q], Gone)
  BY <1>1, NothingInRow DEF Lists
<1>4. Gone = {}
  BY <1>1 DEF Gone
<1>5. \A r \in Requests : ~Queued(r)
  BY <1>1, ListOfRequest, NothingProper DEF Queued
<1>6. Apart(InQueues)
  BY <1>5 DEF Apart, InQueues
<1> QED
  BY <1>2, <1>3, <1>4, <1>6 DEF OInv

LEMMA Widens ==
  ASSUME NEW C, NEW D, C \subseteq D, D = {} => C = {}, NEW s
  PROVE  /\ AllNeat(s, C) => AllNeat(s, D)
         /\ InRow(s, C) => InRow(s, D)
<1>1. ASSUME NEW e, Neat(e, C) PROVE Neat(e, D)
  BY <1>1 DEF Neat, Guarded
<1> QED
  BY <1>1 DEF AllNeat, InRow

(* One list changes, and with it what was cancelled.                        *)
LEMMA OneListNeat ==
  ASSUME IInv, OInv, NEW l \in Lists, NEW s, list' = [list EXCEPT ![l] = s],
         NEW D, Gone \subseteq D, D = {} => Gone = {}, AllNeat(s, D),
         l \in Queues => InRow(s, D)
  PROVE  /\ \A m \in Lists : AllNeat(list'[m], D)
         /\ \A q \in Queues : InRow(list'[q], D)
<1>1. \A m \in Lists : list'[m] = IF m = l THEN s ELSE list[m]
  BY DEF IInv, Typed
<1>2. \A m \in Lists : AllNeat(list[m], D)
  BY Widens DEF OInv
<1>3. \A q \in Queues : InRow(list[q], D) /\ q \in Lists
  BY Widens DEF OInv, Lists
<1> QED
  BY <1>1, <1>2, <1>3

LEMMA StayApart ==
  ASSUME IInv, IInv', Apart(InQueues),
         \A x \in Requests : fate'[x] = "accepted" =>
           fate[x] = "accepted" /\ (InDispatch(x) => InDispatch(x)')
  PROVE  Apart(InQueues')
<1>1. ASSUME NEW x \in Requests, Queued(x)' PROVE Queued(x)
  <2>1. fate'[x] = "accepted" /\ ~InDispatch(x)'
    BY <1>1 DEF IInv, Accounted
  <2> QED
    BY <2>1 DEF IInv, Accounted
<1>2. InQueues' \subseteq InQueues
  BY <1>1 DEF InQueues
<1> QED
  BY <1>2 DEF Apart

LEMMA InsertedNeat ==
  ASSUME Tidy, IInv, OInv, NEW r \in Requests, MayAdd(r),
         NEW s \in Inserted(list[ListOf(r)], r)
  PROVE  AllNeat(s, Gone) /\ (ListOf(r) \in Queues => InRow(s, Gone))
<1> DEFINE t == list[ListOf(r)]
           e == Single(r)
<1>1. NoneEmpty /\ \A x \in Requests : Queued(x) => ~Overlap(x, r)
  BY DEF Tidy, NoneEmpty, MayAdd
<1>2. /\ ListOf(r) \in Lists /\ Proper(t) /\ AllNeat(t, Gone)
      /\ \A x \in Members(t) : x \in Requests /\ ListOf(x) = ListOf(r)
  BY ListOfRequest, ProperMembers DEF IInv, ListsProper, OInv
<1>3. \A x \in Members(t) : ~Overlap(x, r)
  BY <1>1, <1>2 DEF Queued
<1>4. r \notin Gone
  BY DEF MayAdd, Gone
<1>5. t \in Seq(Entries) /\ e \in Entries /\ Neat(e, Gone)
  BY <1>1, <1>2, SingleFits, SingleNeat DEF Proper
<1>6. alg # "SJF" => ListOf(r) \notin Queues
  BY StoreAssumption DEF ListOf, NeedsHashtable
<1>7. CASE alg = "SJF"
  <2>1. /\ \A x \in Members(t) : QueueOf[x] = QueueOf[r] /\ ~Overlap(x, r)
        /\ ListOf(r) \in Queues
    BY <1>2, <1>3, <1>7, ListOfRequest DEF ListOf, NeedsHashtable
  <2>2. s = HashtableInsert(t, r)
    BY <1>7 DEF Inserted
  <2>3. InRow(t, Gone)
    BY <2>1 DEF OInv
  <2> HIDE DEF t
  <2> QED
    BY <1>1, <1>2, <1>4, <2>1, <2>2, <2>3, HashtableInsertGood DEF AllNeat
<1>8. CASE alg = "TOAGG"
  <2>1. s = TimelineInsert(t, r)
    BY <1>8 DEF Inserted
  <2> HIDE DEF t
  <2>2. AllNeat(s, Gone)
    BY <1>1, <1>2, <1>3, <1>4, <2>1, TimelineInsertNeat DEF AllNeat
  <2> QED
    BY <1>6, <1>8, <2>2
<1>9. CASE alg = "TO"
  <2>1. s = Append(t, e)
    BY <1>9 DEF Inserted
  <2> HIDE DEF t, e
  <2>2. ToSet(Append(t, e)) = ToSet(t) \cup {e}
    BY <1>5, Appended
  <2> QED
    BY <1>2, <1>5, <1>6, <1>9, <2>1, <2>2 DEF AllNeat
<1>10. CASE alg = "SW"
  <2>1. PICK i \in 1..(Len(t) + 1) : s = InsertAt(t, i, e)
    BY <1>10 DEF Inserted
  <2> HIDE DEF t, e
  <2>2. ToSet(InsertAt(t, i, e)) = ToSet(t) \cup {e}
    BY <1>5, Insertion
  <2> QED
    BY <1>2, <1>5, <1>6, <1>10, <2>1, <2>2 DEF AllNeat
<1> QED
  BY <1>7, <1>8, <1>9, <1>10 DEF Inserted

LEMMA AddOInv == ASSUME Tidy, IInv, OInv, NEW r \in Requests, Add(r) PROVE OInv'
<1>1. MayAdd(r) /\ alg' = alg /\ fate' = [fate EXCEPT ![r] = "accepted"]
  BY DEF Add
<1>2. PICK s \in Inserted(list[ListOf(r)], r) : list' = [list EXCEPT ![ListOf(r)] = s]
  BY DEF Add
<1>3. fate[r] = "new" /\ ~Queued(r) /\ Typed /\ ListsProper
  BY <1>1 DEF MayAdd, IInv, Accounted
<1>4. Gone' = Gone
  BY <1>1, <1>3 DEF Gone, Typed
<1>5. AllNeat(s, Gone) /\ (ListOf(r) \in Queues => InRow(s, Gone))
  BY <1>1, InsertedNeat
<1>6. ListOf(r) \in Lists
  BY ListOfRequest
<1>7. /\ \A l \in Lists : AllNeat(list'[l], Gone)
      /\ \A q \in Queues : InRow(list'[q], Gone)
  BY <1>2, <1>5, <1>6, OneListNeat
<1>8. Apart(InQueues')
  <2>1. Proper(s) /\ Members(s) = Members(list[ListOf(r)]) \cup {r}
    BY <1>3, InsertedAdds
  <2>2. \A x \in Requests : Queued(x)' <=> Queued(x) \/ x = r
    BY <1>1, <1>2, <1>3, <2>1, ListAdds
  <2>3. \A x \in InQueues : ~Overlap(x, r) /\ ~Overlap(r, x)
    BY <1>1 DEF Tidy, MayAdd, InQueues, Overlap
  <2>4. InQueues' \subseteq InQueues \cup {r}
    BY <2>2 DEF InQueues
  <2> QED
    BY <2>3, <2>4 DEF OInv, Apart
<1> QED
  BY <1>4, <1>7, <1>8 DEF OInv

LEMMA CancelOInv == ASSUME Tidy, IInv, OInv, NEW r \in Requests, Cancel(r) PROVE OInv'
<1> DEFINE l == ListOf(r)
           s == list[l]
           i == FindEntry(s, r)
           x == MatchIn(s[i].reqs, r)
           t == Without(s, i, x)
<1>1. /\ alg' = alg /\ dispatch' = dispatch /\ r \in Cancelable
      /\ IF i = 0 THEN list' = list /\ fate' = fate
         ELSE /\ list' = [list EXCEPT ![l] = t]
              /\ fate' = [fate EXCEPT ![x] = "cancelled"]
  BY DEF Cancel
<1>2. IInv'
  BY CancelIInv
<1>3. fate \in [Requests -> {"new", "accepted", "cancelled", "released"}]
  BY DEF IInv, Typed
<1>4. Apart(InQueues')
  <2>1. \A y \in Requests : fate'[y] = "accepted" => fate[y] = "accepted"
    BY <1>1, <1>3
  <2>2. \A y \in Requests : InDispatch(y)' <=> InDispatch(y)
    BY <1>1 DEF InDispatch
  <2> QED
    BY <1>2, <2>1, <2>2, StayApart DEF OInv
<1>5. CASE i = 0
  <2>1. Gone' = Gone /\ list' = list
    BY <1>1, <1>5 DEF Gone
  <2> QED
    BY <1>4, <2>1 DEF OInv
<1>6. CASE i # 0
  <2>1. l \in Lists /\ Proper(s) /\ AllNeat(s, Gone) /\ (l \in Queues => InRow(s, Gone))
    BY ListOfRequest DEF IInv, ListsProper, OInv
  <2>2. i \in 1..Len(s) /\ HasMatch(s[i], r)
    BY <1>6, <2>1, FoundEntry
  <2>3. x \in ToSet(s[i].reqs) /\ SameExtent(x, r)
    <3>1. s[i].reqs \in Seq(Requests)
      BY <2>1, <2>2, EntryOfList, MembersOfEntry
    <3> QED
      BY <2>2, <3>1, FoundMatch DEF HasMatch
  <2>4. x \in Requests
    BY <2>1, <2>2, <2>3, EntryOfList, ProperMembers
  <2> HIDE DEF x, i, s, l
  <2>5. x \in Lone
    BY <1>1, <2>3, <2>4 DEF Tidy, Lone
  <2>6. AllNeat(t, Gone \cup {x}) /\ (Ranged(s) => Ranged(t))
    BY <2>1, <2>2, <2>3, <2>5, WithoutNeat DEF AllNeat, Tidy, NoneEmpty
  <2> DEFINE D == Gone \cup {x}
  <2>7. list' = [list EXCEPT ![l] = t] /\ fate' = [fate EXCEPT ![x] = "cancelled"]
    BY <1>1, <1>6
  <2> HIDE DEF t
  <2>8. Gone' = D /\ D # {} /\ Gone \subseteq D
    BY <1>3, <2>4, <2>7 DEF Gone
  <2> HIDE DEF D
  <2>9. AllNeat(t, D) /\ (l \in Queues => InRow(t, D))
    BY <2>1, <2>6, <2>8 DEF InRow, D
  <2>10. /\ \A m \in Lists : AllNeat(list'[m], D)
         /\ \A q \in Queues : InRow(list'[q], D)
    BY <2>1, <2>7, <2>8, <2>9, OneListNeat
  <2>11. D \subseteq Lone
    BY <2>5 DEF OInv, D
  <2> QED
    BY <1>4, <2>8, <2>10, <2>11 DEF OInv
<1> QED
  BY <1>5, <1>6

LEMMA DispatchOInv ==
  ASSUME Tidy, IInv, OInv, NEW l \in Lists, NEW i \in DOMAIN list[l], Dispatch(l, i)
  PROVE  OInv'
<1>1. fate' = fate /\ list' = [list EXCEPT ![l] = RemoveAt(list[l], i)]
  BY DEF Dispatch
<1>2. IInv' /\ \A x \in Requests : InDispatch(x) => InDispatch(x)'
  BY DispatchIInv
<1> DEFINE s == list[l]
<1>3. i \in 1..Len(s) /\ Proper(s) /\ s \in Seq(Entries)
  BY DispatchedEntry DEF Proper
<1>4. AllNeat(s, Gone) /\ (l \in Queues => InRow(s, Gone)) /\ NoneEmpty
  BY DEF OInv, Tidy, NoneEmpty
<1> HIDE DEF s
<1>5. AllNeat(RemoveAt(s, i), Gone)
  <2>1. ToSet(RemoveAt(s, i)) \subseteq ToSet(s)
    BY <1>3, Removal
  <2> QED
    BY <1>4, <2>1 DEF AllNeat
<1>6. ASSUME l \in Queues PROVE InRow(RemoveAt(s, i), Gone)
  <2>1. Ranged(s) /\ (Gone = {} => Maximal(s)) /\ \A e \in ToSet(s) : Fine(e)
    BY <1>4, <1>6 DEF InRow, AllNeat, Neat
  <2>2. Ranged(RemoveAt(s, i))
    BY <1>3, <2>1, RemoveRanged
  <2>3. Gone = {} => Maximal(RemoveAt(s, i))
    BY <1>3, <1>4, <2>1, RemoveMaximal
  <2> QED
    BY <2>2, <2>3 DEF InRow
<1> DEFINE t == RemoveAt(s, i)
<1>7. list' = [list EXCEPT ![l] = t]
  BY <1>1 DEF s
<1> HIDE DEF t
<1>8. /\ \A m \in Lists : AllNeat(list'[m], Gone)
      /\ \A q \in Queues : InRow(list'[q], Gone)
  BY <1>5, <1>6, <1>7, OneListNeat DEF t
<1>9. Gone' = Gone
  BY <1>1 DEF Gone
<1>10. Apart(InQueues')
  BY <1>1, <1>2, StayApart DEF OInv
<1> QED
  BY <1>8, <1>9, <1>10 DEF OInv

(* The lists and what was cancelled stay.                                   *)
LEMMA SameListsOInv ==
  ASSUME IInv, OInv, alg' = alg, list' = list, Gone' = Gone
  PROVE  OInv'
<1>1. \A x \in Requests : Queued(x)' <=> Queued(x)
  BY DEF Queued, ListOf, NeedsHashtable
<1>2. InQueues' = InQueues
  BY <1>1 DEF InQueues
<1> QED
  BY <1>2 DEF OInv

LEMMA AddNoopOInv ==
  ASSUME IInv, OInv, NEW r \in Requests, AddNoop(r) PROVE OInv'
<1>1. /\ alg' = alg /\ list' = list /\ fate[r] = "new"
      /\ fate' = [fate EXCEPT ![r] = "accepted"]
  BY DEF AddNoop, MayAdd
<1>2. Gone' = Gone
  BY <1>1 DEF Gone, IInv, Typed
<1> QED
  BY <1>1, <1>2, SameListsOInv

LEMMA ReleaseOInv ==
  ASSUME IInv, OInv, NEW r \in Requests, Release(r) PROVE OInv'
<1> DEFINE x == MatchIn(dispatch[QueueOf[r]], r)
<1>1. alg' = alg /\ list' = list /\ fate' = [fate EXCEPT ![x] = "released"]
  BY DEF Release
<1>2. x \in Requests /\ fate[x] = "accepted"
  <2>1. InDispatch(r)
    BY DEF Release
  <2>2. x \in Requests /\ InDispatch(x)
    BY <2>1, ReleaseFound
  <2> QED
    BY <2>2 DEF IInv, Accounted
<1> HIDE DEF x
<1>3. Gone' = Gone
  BY <1>1, <1>2 DEF Gone, IInv, Typed
<1> QED
  BY <1>1, <1>3, SameListsOInv

LEMMA ChangeOInv ==
  ASSUME Tidy, IInv, OInv, NEW a \in Selectable, ChangeScheduler(a)
  PROVE  OInv'
<1>1. /\ list' = IF NeedsHashtable(alg) THEN ToTimeline(a)
                 ELSE IF NeedsHashtable(a) THEN ToHashtable ELSE list
      /\ dispatch' = dispatch /\ fate' = fate
  BY DEF ChangeScheduler
<1>2. NoneEmpty /\ IInv'
  BY ChangeIInv DEF Tidy, NoneEmpty
<1>3. Gone' = Gone
  BY <1>1 DEF Gone
<1>4. Apart(InQueues')
  BY <1>1, <1>2, StayApart DEF OInv, InDispatch
<1>5. Timeline \notin Queues /\ \A l \in Lists : l # Timeline <=> l \in Queues
  BY StoreAssumption DEF Lists
<1>6. /\ \A l \in Lists : AllNeat(list'[l], Gone)
      /\ \A q \in Queues : InRow(list'[q], Gone)
  <2>1. CASE NeedsHashtable(alg)
    <3>1. list' = ToTimeline(a)
      BY <1>1, <2>1
    <3>2. AllNeat(list'[Timeline], Gone)
      BY <1>2, <2>1, <3>1, ToTimelineNeat
    <3>3. \A q \in Queues : list'[q] = <<>>
      <4>1. \A l \in Lists : l # Timeline => list'[l] = <<>>
        BY <2>1, <3>1, ToTimelineMoves
      <4> QED
        BY <1>5, <4>1 DEF Lists
    <3> QED
      BY <1>5, <3>2, <3>3, NothingInRow
  <2>2. CASE ~NeedsHashtable(alg) /\ NeedsHashtable(a)
    <3>1. list' = ToHashtable
      BY <1>1, <2>2
    <3>2. \A r \in Requests : Queued(r) => r \notin Gone
      BY DEF IInv, Accounted, Gone
    <3>3. \A q \in Queues : AllNeat(list'[q], Gone) /\ InRow(list'[q], Gone)
      BY <1>2, <2>2, <3>1, <3>2, ToHashtableNeat DEF OInv, InQueues
    <3>4. list'[Timeline] = <<>>
      BY <2>2, <3>1, ToHashtableMoves
    <3> QED
      BY <1>5, <3>3, <3>4, NothingInRow
  <2>3. CASE ~NeedsHashtable(alg) /\ ~NeedsHashtable(a)
    BY <1>1, <2>3 DEF OInv
  <2> QED
    BY <2>1, <2>2, <2>3
<1> QED
  BY <1>3, <1>4, <1>6 DEF OInv

LEMMA NextOInv == Tidy /\ IInv /\ OInv /\ [Next]_vars => OInv'
<1> SUFFICES ASSUME Tidy, IInv, OInv, [Next]_vars PROVE OInv'
  OBVIOUS
<1>1. ASSUME NEW r \in Requests, Add(r) PROVE OInv'
  BY <1>1, AddOInv
<1>2. ASSUME NEW r \in Requests, AddNoop(r) PROVE OInv'
  BY <1>2, AddNoopOInv
<1>3. ASSUME NEW r \in Requests, Cancel(r) PROVE OInv'
  BY <1>3, CancelOInv
<1>4. ASSUME NEW r \in Requests, Release(r) PROVE OInv'
  BY <1>4, ReleaseOInv
<1>5. ASSUME NEW l \in Lists, NEW i \in DOMAIN list[l], Dispatch(l, i) PROVE OInv'
  BY <1>5, DispatchOInv
<1>6. ASSUME NEW a \in Selectable, ChangeScheduler(a) PROVE OInv'
  BY <1>6, ChangeOInv
<1>7. CASE UNCHANGED vars
  BY <1>7, SameListsOInv DEF vars, Gone
<1>8. CASE Idle
  BY <1>7, <1>8 DEF Idle
<1> QED
  BY <1>1, <1>2, <1>3, <1>4, <1>5, <1>6, <1>7, <1>8 DEF Next

LEMMA AlwaysOInv == Tidy /\ Spec => [](Tidy /\ IInv /\ OInv)
<1>1. Tidy /\ Init => Tidy /\ IInv /\ OInv
  BY InitIInv, InitOInv
<1>2. Tidy /\ IInv /\ OInv /\ [Next]_vars => (Tidy /\ IInv /\ OInv)'
  BY NextIInv, NextOInv DEF Tidy
<1> QED
  BY <1>1, <1>2, PTL DEF Spec

-----------------------------------------------------------------------------
LEMMA EntryIsFine ==
  ASSUME IInv, OInv, NEW l \in Lists, NEW i \in DOMAIN list[l]
  PROVE  /\ i \in 1..Len(list[l]) /\ list[l][i] \in Entries
         /\ Neat(list[l][i], Gone) /\ Fine(list[l][i])
<1>1. i \in 1..Len(list[l]) /\ Proper(list[l])
  BY DispatchedEntry
<1>2. list[l][i] \in Entries /\ list[l][i] \in ToSet(list[l])
  BY <1>1, EntryOfList
<1> QED
  BY <1>1, <1>2 DEF OInv, AllNeat, Neat

LEMMA RangedMeans ==
  ASSUME NoneEmpty, IInv, OInv, NEW q \in Queues, NEW i \in DOMAIN list[q], i > 1
  PROVE  list[q][i - 1].offset <= list[q][i].offset
<1> DEFINE s == list[q]
           d == s[i - 1]
           e == s[i]
<1>1. i \in 1..Len(s) /\ s \in Seq(Entries) /\ q \in Lists /\ DOMAIN s = 1..Len(s)
  BY DispatchedEntry DEF Lists, Proper
<1>2. i - 1 \in 1..Len(s) /\ i - 1 < i
  BY <1>1, LenProperties
<1>3. d \in Entries /\ Fine(d) /\ e \in Entries /\ Fine(e)
  BY <1>1, <1>2, EntryIsFine
<1>4. End(d) <= e.offset
  BY <1>1, <1>2 DEF OInv, InRow, Ranged
<1> HIDE DEF d, e
<1>5. /\ d.offset \in Int /\ End(d) \in Int /\ d.offset < End(d)
      /\ e.offset \in Int
  BY <1>3, FineHull
<1>6. d.offset <= e.offset
  BY <1>4, <1>5
<1> QED
  BY <1>6 DEF d, e

LEMMA MembersSorted ==
  ASSUME NoneEmpty, NEW e \in Entries, Fine(e)
  PROVE  IsSorted(e.reqs, LAMBDA x, y : Offset[x] <= Offset[y])
<1>1. /\ Size(e) = Len(e.reqs) /\ e.reqs \in Seq(Requests)
  BY MembersOfEntry
<1>2. ASSUME NEW i \in 1..Len(e.reqs), NEW j \in 1..Len(e.reqs), i < j
      PROVE  Offset[e.reqs[i]] <= Offset[e.reqs[j]]
  <2> DEFINE x == e.reqs[i]
             y == e.reqs[j]
  <2>1. x \in Requests /\ y \in Requests
    BY <1>1, LenProperties
  <2>2. EndOf(x) <= Offset[y]
    BY <1>1, <1>2 DEF Fine
  <2> HIDE DEF x, y
  <2>3. Offset[x] <= Offset[y]
    BY <2>1, <2>2, Extent
  <2> QED
    BY <2>3 DEF x, y
<1> QED
  BY <1>2 DEF IsSorted

LEMMA OInvMeans == Tidy /\ IInv /\ OInv => InOffsetOrder /\ HullExact
<1> SUFFICES ASSUME Tidy, IInv, OInv PROVE InOffsetOrder /\ HullExact
  OBVIOUS
<1>1. NoneEmpty
  BY DEF Tidy, NoneEmpty
<1>2. ASSUME NEW l \in Lists, NEW i \in DOMAIN list[l]
      PROVE  /\ IsSorted(list[l][i].reqs, LAMBDA x, y : Offset[x] <= Offset[y])
             /\ list[l][i] = Over(list[l][i].reqs)
  <2> DEFINE e == list[l][i]
  <2>1. e \in Entries /\ Fine(e)
    BY EntryIsFine
  <2> HIDE DEF e
  <2>2. IsSorted(e.reqs, LAMBDA x, y : Offset[x] <= Offset[y])
    BY <1>1, <2>1, MembersSorted
  <2>3. e = Over(e.reqs)
    BY <1>1, <2>1, FineIsOver
  <2> QED
    BY <2>2, <2>3 DEF e
<1>3. ASSUME NEW l \in Lists, NEW i \in DOMAIN list[l], l # Timeline, i > 1
      PROVE  list[l][i - 1].offset <= list[l][i].offset
  <2>1. l \in Queues
    BY <1>3 DEF Lists
  <2> QED
    BY <1>1, <1>3, <2>1, RangedMeans
<1>4. InOffsetOrder
  BY <1>2, <1>3 DEF InOffsetOrder
<1>5. HullExact
  BY <1>2 DEF HullExact
<1> QED
  BY <1>4, <1>5

LEMMA UntilACancel == Tidy /\ IInv /\ OInv => NoHoles /\ MaximalAggregation
<1> SUFFICES ASSUME Tidy, IInv, OInv, NoCancelYet PROVE NoHoles /\ MaximalAggregation
  BY DEF NoHoles, MaximalAggregation
<1>1. Gone = {}
  BY DEF NoCancelYet, Gone
<1>2. NoHoles
  <2>1. ASSUME NEW l \in Lists, NEW i \in DOMAIN list[l],
               NEW j \in 1..(Len(list[l][i].reqs) - 1)
        PROVE  EndOf(list[l][i].reqs[j]) = Offset[list[l][i].reqs[j + 1]]
    <3>1. Tight(list[l][i])
      BY <1>1, EntryIsFine DEF Neat
    <3> QED
      BY <3>1 DEF Tight, Size
  <2> QED
    BY <2>1 DEF NoHoles
<1>3. MaximalAggregation
  BY <1>1 DEF MaximalAggregation, OInv, InRow, Maximal
<1> QED
  BY <1>2, <1>3

LEMMA FindsIt == Tidy /\ IInv /\ OInv => CancelFinds
<1> SUFFICES ASSUME Tidy, IInv, OInv, NEW r \in Requests, Queued(r)
             PROVE  FindEntry(list[ListOf(r)], r) # 0
  BY DEF CancelFinds
<1> DEFINE s == list[ListOf(r)]
           I == {j \in 1..Len(s) : HasMatch(s[j], r)}
<1>1. ListOf(r) \in Lists /\ Proper(s) /\ s \in Seq(Entries)
  BY ListOfRequest DEF IInv, ListsProper, Proper
<1>2. PICK e \in ToSet(s) : r \in ToSet(e.reqs)
  BY DEF Queued, Members
<1>3. PICK i \in 1..Len(s) : e = s[i]
  BY <1>1, <1>2, LenProperties DEF ToSet
<1>4. e \in Entries /\ Fine(e)
  BY <1>1, <1>2, <1>3, EntryOfList DEF OInv, AllNeat, Neat
<1>5. HasMatch(e, r)
  <2>1. Covers(e, r)
    <3>1. e.offset <= Offset[r] /\ EndOf(r) <= End(e) /\ End(e) \in Int
      BY <1>2, <1>4, FineHull DEF Tidy, NoneEmpty
    <3>2. EndOf(r) \in Int
      BY Extent DEF Tidy, NoneEmpty
    <3> QED
      BY <3>1, <3>2 DEF Covers
  <2> QED
    BY <1>2, <2>1 DEF HasMatch, SameExtent
<1>6. I # {} /\ I \subseteq Nat
  BY <1>1, <1>3, <1>5, LenProperties
<1>7. FindEntry(s, r) = IF I # {} THEN Min(I) ELSE 0
  BY DEF FindEntry, SelectInSeq
<1>8. Min(I) \in I
  <2> HIDE DEF I
  <2> QED
    BY <1>6, LeastNumber
<1>9. Min(I) # 0
  <2> DEFINE m == Min(I)
  <2>1. m \in 1..Len(s)
    BY <1>8
  <2> HIDE DEF m
  <2>2. m # 0
    BY <2>1
  <2> QED
    BY <2>2 DEF m
<1> QED
  BY <1>6, <1>7, <1>9

(* For a client that keeps what it queues apart, and whose cancels can mean *)
(* no other request: no entry of the hashtable ever begins before the one   *)
(* in front of it, and every virtual request gives its members back in the  *)
(* order of their offsets, whatever was joined, cancelled or migrated.      *)
THEOREM OffsetsInOrder == Tidy /\ Spec => []InOffsetOrder
BY AlwaysOInv, OInvMeans, PTL

(* For such a client the offset and len that include_in_aggregation,        *)
(* join_aggregations and agios_cancel_request leave in a request are those  *)
(* of the range its members cover: none is ever stale.                      *)
THEOREM HullsAreExact == Tidy /\ Spec => []HullExact
BY AlwaysOInv, OInvMeans, PTL

(* Until such a client cancels something, each member of a virtual request  *)
(* ends where the next begins, so that one access serves them all: neither  *)
(* insert_aggregations nor the timeline aggregates what leaves a hole.      *)
THEOREM VirtualRequestsHaveNoHoles == Tidy /\ Spec => []NoHoles
BY AlwaysOInv, UntilACancel, PTL

(* Until such a client cancels something, insert_aggregations, which looks  *)
(* at the two neighbours of a new request only, leaves no two neighbours in *)
(* a queue that could still be aggregated, and no dispatch or migration     *)
(* does either.                                                             *)
THEOREM NothingLeftToAggregate == Tidy /\ Spec => []MaximalAggregation
BY AlwaysOInv, UntilACancel, PTL

(* A cancel of such a client finds the request while it is queued: the test *)
(* by which agios_cancel_request skips a virtual request never skips the    *)
(* one that has it.                                                         *)
THEOREM CancelFindsIt == Tidy /\ Spec => []CancelFinds
BY AlwaysOInv, FindsIt, PTL
=============================================================================
