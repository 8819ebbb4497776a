------------------------- MODULE RequestStoreProofs -------------------------
(***************************************************************************)
(* Proofs about RequestStore: no request is lost or linked twice, the size *)
(* of a queue is what is queued, no group is too large, the queues are a   *)
(* GroupStore, and a migration to TO orders the timeline.  First what the  *)
(* operators of Aggregation do to a list of entries, then the loops of the *)
(* migrations, then one lemma for each action.                             *)
(***************************************************************************)
EXTENDS RequestStore, ListLemmas, FiniteSetTheorems

-----------------------------------------------------------------------------
(* The loops.                                                               *)
LEMMA IncludeType ==
  ASSUME NEW e \in Entries, NEW r \in Requests
  PROVE  /\ Include(e, r) \in Entries
         /\ Include(e, r).reqs = IF Offset[r] <= e.offset THEN <<r>> \o e.reqs
                                 ELSE Append(e.reqs, r)
         /\ ToSet(Include(e, r).reqs) = ToSet(e.reqs) \cup {r}
         /\ Size(Include(e, r)) = Size(e) + 1
<1> DEFINE rs == e.reqs
<1>1. /\ e.offset \in Int /\ e.len \in Int /\ rs \in Seq(Requests)
      /\ Offset[r] \in Int /\ EndOf(r) \in Int
  BY AggregationAssumption DEF Entries, EndOf
<1>2. /\ Append(rs, r) \in Seq(Requests) /\ Append(rs, r) # <<>>
      /\ Len(Append(rs, r)) = Len(rs) + 1
      /\ ToSet(Append(rs, r)) = ToSet(rs) \cup {r}
  <2>1. ToSet(Append(rs, r)) = ToSet(rs) \cup {r}
    BY <1>1, Appended
  <2>2. /\ Append(rs, r) \in Seq(Requests) /\ Append(rs, r) # <<>>
        /\ Len(Append(rs, r)) = Len(rs) + 1
    BY <1>1, AppendProperties
  <2> QED
    BY <2>1, <2>2
<1>3. /\ <<r>> \o rs \in Seq(Requests)
      /\ ToSet(<<r>> \o rs) = ToSet(rs) \cup {r}
  <2>1. <<r>> \o rs \in Seq(Requests)
    BY <1>1
  <2>2. ToSet(<<r>> \o rs) = ToSet(rs) \cup {r}
    BY <1>1, Prefixed
  <2> QED
    BY <2>1, <2>2
<1>4. Len(<<r>> \o rs) = Len(rs) + 1
  <2>1. <<r>> \in Seq(Requests) /\ Len(<<r>>) = 1
    OBVIOUS
  <2>2. Len(<<r>> \o rs) = Len(<<r>>) + Len(rs)
    BY <1>1, <2>1, ConcatProperties
  <2>3. Len(rs) \in Nat
    BY <1>1, LenProperties
  <2> QED
    BY <2>1, <2>2, <2>3
<1>5. <<r>> \o rs # <<>>
  <2>1. Len(<<>>) = 0 /\ Len(rs) \in Nat
    BY <1>1, LenProperties
  <2> QED
    BY <1>4, <2>1
<1> DEFINE a == <<r>> \o rs
           b == Append(rs, r)
<1>6. Include(e, r) =
        IF Offset[r] <= e.offset
        THEN [offset |-> Offset[r], len |-> e.len + (e.offset - Offset[r]), reqs |-> a]
        ELSE [offset |-> e.offset, len |-> EndOf(r) - e.offset, reqs |-> b]
  BY DEF Include
<1>7. /\ a \in Seq(Requests) \ {<<>>} /\ Len(a) = Len(rs) + 1
      /\ ToSet(a) = ToSet(rs) \cup {r}
  BY <1>3, <1>4, <1>5
<1>8. /\ b \in Seq(Requests) \ {<<>>} /\ Len(b) = Len(rs) + 1
      /\ ToSet(b) = ToSet(rs) \cup {r}
  BY <1>2
<1> HIDE DEF a, b
<1>9. CASE Offset[r] <= e.offset
  BY <1>1, <1>6, <1>7, <1>9 DEF Entries, Size, a
<1>10. CASE ~(Offset[r] <= e.offset)
  BY <1>1, <1>6, <1>8, <1>10 DEF Entries, Size, b
<1> QED
  BY <1>9, <1>10

LEMMA IncludeLoop ==
  ASSUME NEW e \in Entries, NEW rs \in Seq(Requests)
  PROVE  \E h \in [0..Len(rs) -> Entries] :
           /\ h[0] = e
           /\ \A k \in 1..Len(rs) : h[k] = Include(h[k - 1], rs[k])
           /\ ForEach(Include, e, rs) = h[Len(rs)]
<1> DEFINE n == Len(rs)
           F == [k \in 1..n |-> [x \in Entries |-> Include(x, rs[k])]]
           Eq(g) == g = [k \in 0..n |-> IF k = 0 THEN e ELSE Include(g[k - 1], rs[k])]
           h == CHOOSE g : Eq(g)
<1>1. n \in Nat /\ \A k \in 1..n : rs[k] \in Requests
  BY LenProperties
<1>2. F \in [1..n -> [Entries -> Entries]]
  BY <1>1, IncludeType
<1>3. PICK g \in [0..n -> Entries] : Climbs(g, n, e, F)
  <2> HIDE DEF F
  <2> QED
    BY <1>1, <1>2, Steps
<1>4. ASSUME NEW k \in 1..n PROVE g[k] = Include(g[k - 1], rs[k])
  <2>1. g[k - 1] \in Entries
    BY <1>1
  <2>2. g[k] = F[k][g[k - 1]]
    BY <1>3 DEF Climbs
  <2> QED
    BY <2>1, <2>2
<1>5. Eq(g)
  BY <1>1, <1>3, <1>4 DEF Climbs
<1>6. Eq(h)
  <2> HIDE DEF Eq
  <2> QED
    BY <1>5
<1>7. ForEach(Include, e, rs) = h[n]
  BY DEF ForEach
<1> HIDE DEF h
<1>8. h = [k \in 0..n |-> h[k]] /\ h[0] = e
  BY <1>1, <1>6
<1>9. \A k \in 1..n : h[k] = Include(h[k - 1], rs[k])
  BY <1>1, <1>6
<1>10. h \in [0..n -> Entries]
  <2>1. ASSUME NEW k \in 1..n, h[k - 1] \in Entries PROVE h[k] \in Entries
    BY <1>1, <1>9, <2>1, IncludeType
  <2> HIDE DEF n
  <2> QED
    BY <1>1, <1>8, <2>1, StaysIn
<1> QED
  BY <1>7, <1>8, <1>9, <1>10

-----------------------------------------------------------------------------
(* Sets of entries, and lists without twice the same: they may share        *)
(* nothing, and each fits.                                                  *)
AllOf(E) == UNION {ToSet(e.reqs) : e \in E}
Sound(E) ==
  /\ E \subseteq Entries
  /\ \A e \in E : IsInjective(e.reqs) /\ Fits(e)
  /\ \A d, e \in E : d # e => ToSet(d.reqs) \cap ToSet(e.reqs) = {}
Proper(s) == s \in Seq(Entries) /\ IsInjective(s) /\ Sound(ToSet(s))

LEMMA MembersOfEntry ==
  ASSUME NEW e \in Entries
  PROVE  /\ e.reqs \in Seq(Requests) /\ e.offset \in Int /\ e.len \in Int
         /\ Len(e.reqs) \in Nat \ {0} /\ Size(e) = Len(e.reqs)
         /\ DOMAIN e.reqs = 1..Len(e.reqs)
         /\ Head(e.reqs) = e.reqs[1] /\ Head(e.reqs) \in ToSet(e.reqs)
         /\ ToSet(e.reqs) \subseteq Requests
<1>1. /\ e.reqs \in Seq(Requests) /\ e.reqs # <<>> /\ e.offset \in Int
      /\ e.len \in Int
  BY DEF Entries
<1>2. /\ Len(e.reqs) \in Nat \ {0} /\ DOMAIN e.reqs = 1..Len(e.reqs)
      /\ \A j \in 1..Len(e.reqs) : e.reqs[j] \in Requests
  BY <1>1, EmptySeq, LenProperties
<1>3. Head(e.reqs) = e.reqs[1]
  BY <1>1
<1>4. e.reqs[1] \in ToSet(e.reqs) /\ ToSet(e.reqs) \subseteq Requests
  BY <1>2 DEF ToSet
<1> QED
  BY <1>1, <1>2, <1>3, <1>4 DEF Size

LEMMA SoundAdd ==
  ASSUME NEW E, Sound(E), NEW e \in Entries, IsInjective(e.reqs), Fits(e),
         ToSet(e.reqs) \cap AllOf(E) = {}
  PROVE  /\ Sound(E \cup {e}) /\ e \notin E
         /\ AllOf(E \cup {e}) = AllOf(E) \cup ToSet(e.reqs)
<1>1. e \notin E
  BY MembersOfEntry DEF AllOf
<1>2. AllOf(E \cup {e}) = AllOf(E) \cup ToSet(e.reqs)
  BY DEF AllOf
<1>3. ASSUME NEW d \in E PROVE ToSet(d.reqs) \cap ToSet(e.reqs) = {}
  BY DEF AllOf
<1>4. Sound(E \cup {e})
  BY <1>3 DEF Sound
<1> QED
  BY <1>1, <1>2, <1>4

LEMMA SoundRemove ==
  ASSUME NEW E, Sound(E), NEW e \in E
  PROVE  /\ Sound(E \ {e})
         /\ AllOf(E \ {e}) = AllOf(E) \ ToSet(e.reqs)
<1>1. Sound(E \ {e})
  BY DEF Sound
<1>2. AllOf(E \ {e}) \subseteq AllOf(E) \ ToSet(e.reqs)
  BY DEF AllOf, Sound
<1>3. AllOf(E) \ ToSet(e.reqs) \subseteq AllOf(E \ {e})
  BY DEF AllOf
<1> QED
  BY <1>1, <1>2, <1>3

LEMMA ProperInsert ==
  ASSUME NEW s, Proper(s), NEW e \in Entries, IsInjective(e.reqs), Fits(e),
         ToSet(e.reqs) \cap Members(s) = {}, NEW i \in 1..(Len(s) + 1)
  PROVE  /\ Proper(InsertAt(s, i, e))
         /\ Members(InsertAt(s, i, e)) = Members(s) \cup ToSet(e.reqs)
<1>1. s \in Seq(Entries) /\ IsInjective(s) /\ Sound(ToSet(s))
  BY DEF Proper
<1>2. Members(s) = AllOf(ToSet(s))
  BY DEF Members, AllOf
<1>3. /\ Sound(ToSet(s) \cup {e}) /\ e \notin ToSet(s)
      /\ AllOf(ToSet(s) \cup {e}) = AllOf(ToSet(s)) \cup ToSet(e.reqs)
  BY <1>1, <1>2, SoundAdd
<1>4. InsertAt(s, i, e) \in Seq(Entries)
  BY <1>1, Insertion
<1>5. ToSet(InsertAt(s, i, e)) = ToSet(s) \cup {e}
  BY <1>1, Insertion
<1>6. IsInjective(InsertAt(s, i, e))
  BY <1>1, <1>3, DistinctInsertion
<1>7. Members(InsertAt(s, i, e)) = AllOf(ToSet(InsertAt(s, i, e)))
  BY DEF Members, AllOf
<1> QED
  BY <1>2, <1>3, <1>4, <1>5, <1>6, <1>7 DEF Proper

LEMMA ProperAppend ==
  ASSUME NEW s, Proper(s), NEW e \in Entries, IsInjective(e.reqs), Fits(e),
         ToSet(e.reqs) \cap Members(s) = {}
  PROVE  /\ Proper(Append(s, e))
         /\ Members(Append(s, e)) = Members(s) \cup ToSet(e.reqs)
<1>1. s \in Seq(Entries) /\ IsInjective(s) /\ Sound(ToSet(s))
  BY DEF Proper
<1>2. Members(s) = AllOf(ToSet(s))
  BY DEF Members, AllOf
<1>3. /\ Sound(ToSet(s) \cup {e}) /\ e \notin ToSet(s)
      /\ AllOf(ToSet(s) \cup {e}) = AllOf(ToSet(s)) \cup ToSet(e.reqs)
  BY <1>1, <1>2, SoundAdd
<1>4. Append(s, e) \in Seq(Entries)
  BY <1>1, AppendProperties
<1>5. ToSet(Append(s, e)) = ToSet(s) \cup {e}
  BY <1>1, Appended
<1>6. IsInjective(Append(s, e))
  BY <1>1, <1>3, DistinctAppend
<1>7. Members(Append(s, e)) = AllOf(ToSet(Append(s, e)))
  BY DEF Members, AllOf
<1> QED
  BY <1>2, <1>3, <1>4, <1>5, <1>6, <1>7 DEF Proper

LEMMA ProperRemove ==
  ASSUME NEW s, Proper(s), NEW i \in 1..Len(s)
  PROVE  /\ Proper(RemoveAt(s, i))
         /\ Members(RemoveAt(s, i)) = Members(s) \ ToSet(s[i].reqs)
         /\ ToSet(RemoveAt(s, i)) = ToSet(s) \ {s[i]}
<1>1. s \in Seq(Entries) /\ IsInjective(s) /\ Sound(ToSet(s))
  BY DEF Proper
<1>2. s[i] \in ToSet(s)
  BY <1>1, LenProperties DEF ToSet
<1>3. /\ Sound(ToSet(s) \ {s[i]})
      /\ AllOf(ToSet(s) \ {s[i]}) = AllOf(ToSet(s)) \ ToSet(s[i].reqs)
  BY <1>1, <1>2, SoundRemove
<1>4. RemoveAt(s, i) \in Seq(Entries)
  BY <1>1, Removal
<1>5. IsInjective(RemoveAt(s, i)) /\ ToSet(RemoveAt(s, i)) = ToSet(s) \ {s[i]}
  BY <1>1, DistinctRemoval
<1>6. /\ Members(s) = AllOf(ToSet(s))
      /\ Members(RemoveAt(s, i)) = AllOf(ToSet(RemoveAt(s, i)))
  BY DEF Members, AllOf
<1> QED
  BY <1>3, <1>4, <1>5, <1>6 DEF Proper

LEMMA ProperReplace ==
  ASSUME NEW s, Proper(s), NEW i \in 1..Len(s),
         NEW e \in Entries, IsInjective(e.reqs), Fits(e), e \notin ToSet(s),
         ToSet(e.reqs) \cap (Members(s) \ ToSet(s[i].reqs)) = {}
  PROVE  /\ Proper(ReplaceAt(s, i, e))
         /\ Members(ReplaceAt(s, i, e)) =
              (Members(s) \ ToSet(s[i].reqs)) \cup ToSet(e.reqs)
<1>1. s \in Seq(Entries) /\ IsInjective(s) /\ Sound(ToSet(s))
  BY DEF Proper
<1>2. s[i] \in ToSet(s)
  BY <1>1, LenProperties DEF ToSet
<1> DEFINE E == ToSet(s) \ {s[i]}
           t == ReplaceAt(s, i, e)
<1>3. Members(s) = AllOf(ToSet(s)) /\ Members(t) = AllOf(ToSet(t))
  BY DEF Members, AllOf
<1>4. Sound(E) /\ AllOf(E) = Members(s) \ ToSet(s[i].reqs)
  BY <1>1, <1>2, <1>3, SoundRemove
<1>5. Sound(E \cup {e}) /\ AllOf(E \cup {e}) = AllOf(E) \cup ToSet(e.reqs)
  <2> HIDE DEF E
  <2> QED
    BY <1>4, SoundAdd
<1>6. t \in Seq(Entries) /\ IsInjective(t) /\ ToSet(t) = E \cup {e}
  BY <1>1, Replacement
<1> HIDE DEF E, t
<1>7. Proper(t) /\ Members(t) = AllOf(E) \cup ToSet(e.reqs)
  BY <1>3, <1>5, <1>6 DEF Proper
<1> QED
  BY <1>4, <1>7 DEF t

-----------------------------------------------------------------------------
(* The entries that insertions make.                                        *)
LEMMA SingleFits ==
  ASSUME NEW r \in Requests
  PROVE  /\ Single(r) \in Entries /\ IsInjective(Single(r).reqs)
         /\ Fits(Single(r)) /\ ToSet(Single(r).reqs) = {r}
         /\ Size(Single(r)) = 1
<1>1. <<r>> \in Seq(Requests) \ {<<>>} /\ Len(<<r>>) = 1 /\ ToSet(<<r>>) = {r}
  BY DEF ToSet
<1>2. IsInjective(<<r>>)
  BY DEF IsInjective
<1>3. Offset[r] \in Int /\ Length[r] \in Int /\ 1 <= MaxAggregSize
  BY AggregationAssumption
<1>4. Single(r).reqs = <<r>>
  BY DEF Single
<1>5. Single(r) \in Entries
  BY <1>1, <1>3 DEF Single, Entries
<1>6. Size(Single(r)) = 1
  BY <1>1, <1>4 DEF Size
<1> QED
  BY <1>1, <1>2, <1>3, <1>4, <1>5, <1>6 DEF Fits

LEMMA IncludeFits ==
  ASSUME NEW e \in Entries, IsInjective(e.reqs), Fits(e), NEW r \in Requests,
         r \notin ToSet(e.reqs), Size(e) + 1 <= MaxAggregSize,
         \A x \in ToSet(e.reqs) : QueueOf[x] = QueueOf[r]
  PROVE  /\ Include(e, r) \in Entries /\ IsInjective(Include(e, r).reqs)
         /\ Fits(Include(e, r))
         /\ ToSet(Include(e, r).reqs) = ToSet(e.reqs) \cup {r}
         /\ Size(Include(e, r)) = Size(e) + 1
<1>1. /\ Include(e, r) \in Entries
      /\ Include(e, r).reqs = IF Offset[r] <= e.offset THEN <<r>> \o e.reqs
                              ELSE Append(e.reqs, r)
      /\ ToSet(Include(e, r).reqs) = ToSet(e.reqs) \cup {r}
      /\ Size(Include(e, r)) = Size(e) + 1
  BY IncludeType
<1>2. e.reqs \in Seq(Requests)
  BY MembersOfEntry
<1>3. IsInjective(Append(e.reqs, r)) /\ IsInjective(<<r>> \o e.reqs)
  BY <1>2, DistinctAppend
<1>4. IsInjective(Include(e, r).reqs)
  BY <1>1, <1>3
<1>5. Fits(Include(e, r))
  BY <1>1 DEF Fits
<1> QED
  BY <1>1, <1>4, <1>5

(* A join keeps all members, each once, and is as large as both.            *)
LEMMA JoinMembers ==
  ASSUME NEW d \in Entries, NEW e \in Entries, IsInjective(d.reqs),
         IsInjective(e.reqs), ToSet(d.reqs) \cap ToSet(e.reqs) = {}
  PROVE  /\ Join(d, e) \in Entries /\ IsInjective(Join(d, e).reqs)
         /\ ToSet(Join(d, e).reqs) = ToSet(d.reqs) \cup ToSet(e.reqs)
         /\ Size(Join(d, e)) = Size(d) + Size(e)
<1> DEFINE rs == e.reqs
           n == Len(rs)
<1>1. rs \in Seq(Requests) /\ n \in Nat /\ Size(e) = n /\ DOMAIN rs = 1..n
  BY MembersOfEntry
<1>2. \A k \in 1..n : rs[k] \in Requests /\ rs[k] \in ToSet(rs)
  BY <1>1, LenProperties DEF ToSet
<1>3. PICK h \in [0..n -> Entries] :
        /\ h[0] = d
        /\ \A k \in 1..n : h[k] = Include(h[k - 1], rs[k])
        /\ ForEach(Include, d, rs) = h[n]
  BY <1>1, IncludeLoop
<1>4. Size(d) \in Nat
  BY MembersOfEntry
<1> DEFINE Ok(k) == /\ IsInjective(h[k].reqs)
                    /\ ToSet(h[k].reqs) = ToSet(d.reqs) \cup {rs[j] : j \in 1..k}
                    /\ Size(h[k]) = Size(d) + k
           P == {k \in 0..n : Ok(k)}
<1>5. 0 \in P
  <2>1. {rs[j] : j \in 1..0} = {}
    OBVIOUS
  <2>2. Ok(0)
    BY <2>1, <1>3, <1>4
  <2> QED
    BY <2>2, <1>1
<1>6. ASSUME NEW k \in 1..n, k - 1 \in P PROVE k \in P
  <2>1. k - 1 \in 0..n /\ k \in 0..n /\ k \in Nat
    BY <1>1
  <2> DEFINE g == h[k - 1]
             r == rs[k]
  <2>2. g \in Entries /\ r \in Requests /\ h[k] = Include(g, r)
    BY <2>1, <1>2, <1>3
  <2>3. /\ IsInjective(g.reqs) /\ Size(g) = Size(d) + (k - 1)
        /\ ToSet(g.reqs) = ToSet(d.reqs) \cup {rs[j] : j \in 1..(k - 1)}
    BY <1>6
  <2>4. r \notin ToSet(g.reqs)
    <3>1. r \notin ToSet(d.reqs)
      BY <1>2
    <3>2. \A j \in 1..(k - 1) : j \in 1..n /\ j # k
      BY <2>1
    <3>3. \A j \in 1..(k - 1) : rs[j] # rs[k]
      BY <3>2, <1>1 DEF IsInjective
    <3> QED
      BY <3>1, <3>3, <2>3
  <2>5. {rs[j] : j \in 1..(k - 1)} \cup {rs[k]} = {rs[j] : j \in 1..k}
    <3>1. \A j : j \in 1..k <=> j \in 1..(k - 1) \/ j = k
      BY <2>1
    <3> QED
      BY <3>1
  <2> HIDE DEF g, r
  <2>6. /\ Include(g, r).reqs = IF Offset[r] <= g.offset THEN <<r>> \o g.reqs
                                ELSE Append(g.reqs, r)
        /\ ToSet(Include(g, r).reqs) = ToSet(g.reqs) \cup {r}
        /\ Size(Include(g, r)) = Size(g) + 1
    BY <2>2, IncludeType
  <2>7. IsInjective(Append(g.reqs, r)) /\ IsInjective(<<r>> \o g.reqs)
    <3>1. g.reqs \in Seq(Requests)
      BY <2>2, MembersOfEntry
    <3> QED
      BY <3>1, <2>2, <2>3, <2>4, DistinctAppend
  <2>8. IsInjective(h[k].reqs)
    BY <2>2, <2>6, <2>7
  <2>9. ToSet(h[k].reqs) = ToSet(d.reqs) \cup {rs[j] : j \in 1..k}
    <3>1. ToSet(h[k].reqs) = ToSet(g.reqs) \cup {rs[k]}
      BY <2>2, <2>6 DEF r
    <3> QED
      BY <3>1, <2>3, <2>5
  <2>10. Size(h[k]) = Size(d) + k
    BY <2>1, <2>2, <2>3, <2>6, <1>4
  <2> QED
    BY <2>1, <2>8, <2>9, <2>10
<1>7. n \in P
  <2> HIDE DEF P
  <2>1. \A k \in 0..n : k \in P
    BY <1>1, <1>5, <1>6, Interval
  <2> QED
    BY <2>1, <1>1
<1>8. ToSet(rs) = {rs[j] : j \in 1..n}
  BY <1>1 DEF ToSet
<1>9. Join(d, e) = h[n]
  BY <1>3 DEF Join
<1>10. h[n] \in Entries
  BY <1>1, <1>3
<1>11. Ok(n)
  BY <1>7
<1> QED
  BY <1>1, <1>8, <1>9, <1>10, <1>11

-----------------------------------------------------------------------------
(* What an insertion does to a list.                                        *)
LEMMA EntryOfList ==
  ASSUME NEW s, Proper(s), NEW i \in 1..Len(s)
  PROVE  /\ s[i] \in ToSet(s) /\ s[i] \in Entries /\ IsInjective(s[i].reqs)
         /\ Fits(s[i]) /\ ToSet(s[i].reqs) \subseteq Members(s)
<1>1. s \in Seq(Entries) /\ Sound(ToSet(s))
  BY DEF Proper
<1>2. s[i] \in ToSet(s)
  BY <1>1, LenProperties DEF ToSet
<1> QED
  BY <1>1, <1>2 DEF Sound, Members

LEMMA NewEntry ==
  ASSUME NEW s, NEW e, NEW r, r \in ToSet(e.reqs), r \notin Members(s)
  PROVE  e \notin ToSet(s)
  BY DEF Members

LEMMA PlaceInQueue ==
  ASSUME NEW s \in Seq(Entries), NEW r \in Requests
  PROVE  Position(s, r) \in 1..(Len(s) + 1)
<1> DEFINE Later(e) == \/ e.offset > Offset[r]
                       \/ e.offset = Offset[r] /\ e.len > Length[r]
           I == {i \in 1..Len(s) : Later(s[i])}
           p == SelectInSeq(s, Later)
<1>1. Len(s) \in Nat
  BY LenProperties
<1>2. p = IF I # {} THEN Min(I) ELSE 0
  BY DEF SelectInSeq
<1>3. Position(s, r) = IF p = 0 THEN Len(s) + 1 ELSE p
  BY DEF Position
<1>4. I # {} => Min(I) \in I
  <2>1. I \subseteq Nat
    BY <1>1
  <2> QED
    BY <2>1, LeastNumber
<1> HIDE DEF p
<1>5. p = 0 \/ p \in 1..Len(s)
  BY <1>2, <1>4
<1> HIDE DEF I, Later
<1> QED
  BY <1>1, <1>3, <1>5

(* hashtable_add_req, with the join of insert_aggregations.                 *)
LEMMA HashtableInsertAdds ==
  ASSUME NEW s, Proper(s), NEW r \in Requests, r \notin Members(s),
         \A x \in Members(s) : QueueOf[x] = QueueOf[r]
  PROVE  /\ Proper(HashtableInsert(s, r))
         /\ Members(HashtableInsert(s, r)) = Members(s) \cup {r}
<1> DEFINE p == Position(s, r)
           previous == Include(s[p - 1], r)
           joined == Join(previous, s[p])
           AfterPrevious == p > 1 /\ Mergeable(s[p - 1], Single(r))
           Joins == p <= Len(s) /\ Mergeable(previous, s[p])
           BeforeNext == p <= Len(s) /\ Mergeable(Single(r), s[p])
<1>1. /\ s \in Seq(Entries) /\ Len(s) \in Nat /\ p \in 1..(Len(s) + 1)
      /\ IsInjective(s)
  BY PlaceInQueue, LenProperties DEF Proper
<1>2. HashtableInsert(s, r) =
        IF AfterPrevious
        THEN IF Joins THEN RemoveAt(ReplaceAt(s, p - 1, joined), p)
             ELSE ReplaceAt(s, p - 1, previous)
        ELSE IF BeforeNext THEN ReplaceAt(s, p, Include(s[p], r))
        ELSE InsertAt(s, p, Single(r))
  BY DEF HashtableInsert
<1> HIDE DEF p
<1>3. MaxAggregSize \in Nat
  BY AggregationAssumption
<1>4. ASSUME NEW i \in 1..Len(s), Size(s[i]) + 1 <= MaxAggregSize
      PROVE  /\ Include(s[i], r) \in Entries
             /\ IsInjective(Include(s[i], r).reqs) /\ Fits(Include(s[i], r))
             /\ ToSet(Include(s[i], r).reqs) = ToSet(s[i].reqs) \cup {r}
             /\ Include(s[i], r) \notin ToSet(s)
  <2>1. /\ s[i] \in Entries /\ IsInjective(s[i].reqs) /\ Fits(s[i])
        /\ ToSet(s[i].reqs) \subseteq Members(s)
    BY EntryOfList
  <2>2. /\ Include(s[i], r) \in Entries
        /\ IsInjective(Include(s[i], r).reqs) /\ Fits(Include(s[i], r))
        /\ ToSet(Include(s[i], r).reqs) = ToSet(s[i].reqs) \cup {r}
    BY <1>4, <2>1, IncludeFits
  <2> QED
    BY <2>2, NewEntry
<1>5. ASSUME NEW i \in 1..Len(s), Size(s[i]) + 1 <= MaxAggregSize
      PROVE  /\ Proper(ReplaceAt(s, i, Include(s[i], r)))
             /\ Members(ReplaceAt(s, i, Include(s[i], r))) = Members(s) \cup {r}
  <2> DEFINE e == Include(s[i], r)
  <2>1. /\ e \in Entries /\ IsInjective(e.reqs) /\ Fits(e)
        /\ ToSet(e.reqs) = ToSet(s[i].reqs) \cup {r} /\ e \notin ToSet(s)
    BY <1>4, <1>5
  <2>2. ToSet(s[i].reqs) \subseteq Members(s)
    BY EntryOfList
  <2> HIDE DEF e
  <2>3. ToSet(e.reqs) \cap (Members(s) \ ToSet(s[i].reqs)) = {}
    BY <2>1
  <2>4. /\ Proper(ReplaceAt(s, i, e))
        /\ Members(ReplaceAt(s, i, e)) =
             (Members(s) \ ToSet(s[i].reqs)) \cup ToSet(e.reqs)
    BY <2>1, <2>3, ProperReplace
  <2>5. Members(ReplaceAt(s, i, e)) = Members(s) \cup {r}
    BY <2>1, <2>2, <2>4
  <2> QED
    BY <2>4, <2>5 DEF e
<1>6. CASE AfterPrevious /\ ~Joins
  <2>1. p - 1 \in 1..Len(s)
    BY <1>1, <1>6
  <2>2. Size(s[p - 1]) + 1 <= MaxAggregSize
    BY <1>6, SingleFits DEF Mergeable
  <2>3. HashtableInsert(s, r) = ReplaceAt(s, p - 1, previous)
    BY <1>2, <1>6
  <2> QED
    BY <2>1, <2>2, <2>3, <1>5
<1>7. CASE ~AfterPrevious /\ BeforeNext
  <2>1. p \in 1..Len(s)
    BY <1>1, <1>7
  <2>2. Size(s[p]) + 1 <= MaxAggregSize
    <3>1. Size(s[p]) \in Nat
      BY <2>1, EntryOfList, MembersOfEntry
    <3>2. 1 + Size(s[p]) <= MaxAggregSize
      BY <1>7, SingleFits DEF Mergeable
    <3> QED
      BY <1>3, <3>1, <3>2
  <2>3. HashtableInsert(s, r) = ReplaceAt(s, p, Include(s[p], r))
    BY <1>2, <1>7
  <2> QED
    BY <2>1, <2>2, <2>3, <1>5
<1>8. CASE ~AfterPrevious /\ ~BeforeNext
  <2>1. HashtableInsert(s, r) = InsertAt(s, p, Single(r))
    BY <1>2, <1>8
  <2>2. /\ Single(r) \in Entries /\ IsInjective(Single(r).reqs)
        /\ Fits(Single(r)) /\ ToSet(Single(r).reqs) = {r}
    BY SingleFits
  <2>3. ToSet(Single(r).reqs) \cap Members(s) = {}
    BY <2>2
  <2>4. /\ Proper(InsertAt(s, p, Single(r)))
        /\ Members(InsertAt(s, p, Single(r))) = Members(s) \cup ToSet(Single(r).reqs)
    BY <1>1, <2>2, <2>3, ProperInsert
  <2> QED
    BY <2>1, <2>2, <2>4
<1>9. CASE AfterPrevious /\ Joins
  <2> DEFINE i == p - 1
             t == ReplaceAt(s, i, joined)
             u == RemoveAt(t, p)
             E == (ToSet(s) \ {s[i]}) \ {s[p]}
  <2>1. i \in 1..Len(s) /\ p \in 1..Len(s) /\ i # p
    BY <1>1, <1>9
  <2>2. /\ s[i] \in ToSet(s) /\ s[i] \in Entries
        /\ ToSet(s[i].reqs) \subseteq Members(s)
    BY <2>1, EntryOfList
  <2>3. /\ s[p] \in ToSet(s) /\ s[p] \in Entries /\ IsInjective(s[p].reqs)
        /\ Fits(s[p]) /\ ToSet(s[p].reqs) \subseteq Members(s)
    BY <2>1, EntryOfList
  <2>4. s[i] # s[p]
    BY <1>1, <2>1, LenProperties DEF IsInjective
  <2>5. Size(s[i]) + 1 <= MaxAggregSize
    BY <1>9, SingleFits DEF Mergeable
  <2>6. /\ previous \in Entries /\ IsInjective(previous.reqs)
        /\ Fits(previous)
        /\ ToSet(previous.reqs) = ToSet(s[i].reqs) \cup {r}
    BY <2>1, <2>5, <1>4
  <2>7. ToSet(s[i].reqs) \cap ToSet(s[p].reqs) = {}
    BY <2>2, <2>3, <2>4 DEF Proper, Sound
  <2>8. ToSet(previous.reqs) \cap ToSet(s[p].reqs) = {}
    BY <2>3, <2>6, <2>7
  <2>9. Size(previous) + Size(s[p]) <= MaxAggregSize
    BY <1>9 DEF Mergeable
  <2> HIDE DEF previous
  <2>10. /\ joined \in Entries /\ IsInjective(joined.reqs)
         /\ ToSet(joined.reqs) = ToSet(previous.reqs) \cup ToSet(s[p].reqs)
         /\ Size(joined) = Size(previous) + Size(s[p])
    BY <2>3, <2>6, <2>8, JoinMembers
  <2> HIDE DEF joined, i
  <2>11. r \in ToSet(joined.reqs) /\ joined \notin ToSet(s)
    BY <2>6, <2>10, NewEntry
  <2>12. Fits(joined)
    <3>1. \A x \in ToSet(joined.reqs) : QueueOf[x] = QueueOf[r]
      BY <2>2, <2>3, <2>6, <2>10
    <3> QED
      BY <3>1, <2>9, <2>10 DEF Fits
  <2>13. /\ t \in Seq(Entries) /\ Len(t) = Len(s) /\ t[p] = s[p]
         /\ IsInjective(t) /\ ToSet(t) = (ToSet(s) \ {s[i]}) \cup {joined}
    BY <1>1, <2>1, <2>10, <2>11, Replacement
  <2> HIDE DEF t
  <2>14. u \in Seq(Entries) /\ IsInjective(u) /\ ToSet(u) = ToSet(t) \ {s[p]}
    BY <2>1, <2>13, Removal, DistinctRemoval
  <2>15. Sound(ToSet(s) \ {s[i]})
         /\ AllOf(ToSet(s) \ {s[i]}) = AllOf(ToSet(s)) \ ToSet(s[i].reqs)
    BY <2>2, SoundRemove DEF Proper
  <2>16. /\ Sound(E)
         /\ AllOf(E) = AllOf(ToSet(s) \ {s[i]}) \ ToSet(s[p].reqs)
    <3>1. s[p] \in ToSet(s) \ {s[i]}
      BY <2>3, <2>4
    <3> QED
      BY <3>1, <2>15, SoundRemove
  <2> HIDE DEF E, u
  <2>17. AllOf(E) = (Members(s) \ ToSet(s[i].reqs)) \ ToSet(s[p].reqs)
    BY <2>15, <2>16 DEF Members, AllOf
  <2>18. ToSet(joined.reqs) \cap AllOf(E) = {}
    BY <2>6, <2>10, <2>17
  <2>19. /\ Sound(E \cup {joined})
         /\ AllOf(E \cup {joined}) = AllOf(E) \cup ToSet(joined.reqs)
    BY <2>10, <2>12, <2>16, <2>18, SoundAdd
  <2>20. ToSet(u) = E \cup {joined}
    BY <2>3, <2>11, <2>13, <2>14 DEF E
  <2>21. Proper(u)
    BY <2>14, <2>19, <2>20 DEF Proper
  <2>22. Members(u) = Members(s) \cup {r}
    <3>1. Members(u) = AllOf(ToSet(u))
      BY DEF Members, AllOf
    <3> QED
      BY <3>1, <2>2, <2>3, <2>6, <2>10, <2>17, <2>19, <2>20
  <2>23. HashtableInsert(s, r) = u
    BY <1>2, <1>9 DEF u, t, i
  <2> QED
    BY <2>21, <2>22, <2>23
<1> QED
  BY <1>6, <1>7, <1>8, <1>9

(* __timeline_add_req under TO-agg.                                         *)
LEMMA TimelineInsertAdds ==
  ASSUME NEW s, Proper(s), NEW r \in Requests, r \notin Members(s)
  PROVE  /\ Proper(TimelineInsert(s, r))
         /\ Members(TimelineInsert(s, r)) = Members(s) \cup {r}
<1> DEFINE I == {j \in 1..Len(s) : TakesIn(s[j], r)}
           i == SelectInSeq(s, LAMBDA e : TakesIn(e, r))
<1>1. s \in Seq(Entries) /\ Len(s) \in Nat
  BY LenProperties DEF Proper
<1>2. i = IF I # {} THEN Min(I) ELSE 0
  BY DEF SelectInSeq
<1>3. I # {} => Min(I) \in I
  <2>1. I \subseteq Nat
    BY <1>1
  <2> QED
    BY <2>1, LeastNumber
<1>4. TimelineInsert(s, r) =
        IF i = 0 THEN Append(s, Single(r)) ELSE ReplaceAt(s, i, Include(s[i], r))
  BY DEF TimelineInsert
<1> HIDE DEF i
<1>5. CASE I = {}
  <2>1. TimelineInsert(s, r) = Append(s, Single(r))
    BY <1>2, <1>4, <1>5
  <2>2. /\ Single(r) \in Entries /\ IsInjective(Single(r).reqs)
        /\ Fits(Single(r)) /\ ToSet(Single(r).reqs) = {r}
    BY SingleFits
  <2>3. ToSet(Single(r).reqs) \cap Members(s) = {}
    BY <2>2
  <2> QED
    BY <2>1, <2>2, <2>3, ProperAppend
<1>6. CASE I # {}
  <2>1. i \in 1..Len(s) /\ TakesIn(s[i], r)
    BY <1>2, <1>3, <1>6
  <2>2. i # 0
    BY <2>1
  <2>3. TimelineInsert(s, r) = ReplaceAt(s, i, Include(s[i], r))
    BY <1>4, <2>2
  <2>4. /\ s[i] \in Entries /\ IsInjective(s[i].reqs) /\ Fits(s[i])
        /\ ToSet(s[i].reqs) \subseteq Members(s)
    BY <2>1, EntryOfList
  <2>5. Size(s[i]) \in Nat /\ Head(s[i].reqs) \in ToSet(s[i].reqs)
    BY <2>4, MembersOfEntry
  <2>6. Size(s[i]) + 1 <= MaxAggregSize
    <3>1. Size(s[i]) < MaxAggregSize
      BY <2>1 DEF TakesIn
    <3> QED
      BY <2>5, <3>1, AggregationAssumption
  <2>7. \A x \in ToSet(s[i].reqs) : QueueOf[x] = QueueOf[r]
    BY <2>1, <2>4, <2>5 DEF TakesIn, QueueOfEntry, Fits
  <2> DEFINE e == Include(s[i], r)
  <2>8. /\ e \in Entries /\ IsInjective(e.reqs) /\ Fits(e)
        /\ ToSet(e.reqs) = ToSet(s[i].reqs) \cup {r}
    BY <2>4, <2>6, <2>7, IncludeFits
  <2> HIDE DEF e
  <2>9. e \notin ToSet(s)
    BY <2>8, NewEntry
  <2>10. ToSet(e.reqs) \cap (Members(s) \ ToSet(s[i].reqs)) = {}
    BY <2>8
  <2>11. /\ Proper(ReplaceAt(s, i, e))
         /\ Members(ReplaceAt(s, i, e)) =
              (Members(s) \ ToSet(s[i].reqs)) \cup ToSet(e.reqs)
    BY <2>1, <2>8, <2>9, <2>10, ProperReplace
  <2>12. Members(ReplaceAt(s, i, e)) = Members(s) \cup {r}
    BY <2>4, <2>8, <2>11
  <2> QED
    BY <2>3, <2>11, <2>12 DEF e
<1> QED
  BY <1>5, <1>6

(* __timeline_add_req for what comes from the hashtable.                    *)
LEMMA TimePlace ==
  ASSUME NEW s \in Seq(Entries), NEW r \in Requests
  PROVE  \/ /\ \A j \in 1..Len(s) : ~(Stamp[Head(s[j].reqs)] > Stamp[r])
            /\ TimeInsert(s, r) = Append(s, Single(r))
         \/ \E i \in 1..Len(s) :
              /\ Stamp[Head(s[i].reqs)] > Stamp[r]
              /\ \A j \in 1..Len(s) : Stamp[Head(s[j].reqs)] > Stamp[r] => i <= j
              /\ TimeInsert(s, r) = InsertAt(s, i, Single(r))
<1> DEFINE I == {j \in 1..Len(s) : Stamp[Head(s[j].reqs)] > Stamp[r]}
           i == SelectInSeq(s, LAMBDA e : Stamp[Head(e.reqs)] > Stamp[r])
<1>1. Len(s) \in Nat
  BY LenProperties
<1>2. i = IF I # {} THEN Min(I) ELSE 0
  BY DEF SelectInSeq
<1>3. I # {} => Min(I) \in I /\ \A j \in I : Min(I) <= j
  <2>1. I \subseteq Nat
    BY <1>1
  <2> QED
    BY <2>1, LeastNumber
<1>4. TimeInsert(s, r) =
        IF i = 0 THEN Append(s, Single(r)) ELSE InsertAt(s, i, Single(r))
  BY DEF TimeInsert
<1> HIDE DEF i
<1>5. CASE I = {}
  <2>1. i = 0
    BY <1>2, <1>5
  <2>2. \A j \in 1..Len(s) : ~(Stamp[Head(s[j].reqs)] > Stamp[r])
    BY <1>5
  <2> QED
    BY <1>4, <2>1, <2>2
<1>6. CASE I # {}
  <2>1. i \in I /\ \A j \in I : i <= j
    BY <1>2, <1>3, <1>6
  <2>2. i \in 1..Len(s) /\ Stamp[Head(s[i].reqs)] > Stamp[r]
    BY <2>1
  <2>3. \A j \in 1..Len(s) : Stamp[Head(s[j].reqs)] > Stamp[r] => i <= j
    BY <2>1
  <2>4. TimeInsert(s, r) = InsertAt(s, i, Single(r))
    BY <1>4, <2>2
  <2> QED
    BY <2>2, <2>3, <2>4
<1> QED
  BY <1>5, <1>6

LEMMA TimeInsertAdds ==
  ASSUME NEW s, Proper(s), NEW r \in Requests, r \notin Members(s)
  PROVE  /\ Proper(TimeInsert(s, r))
         /\ Members(TimeInsert(s, r)) = Members(s) \cup {r}
<1>1. s \in Seq(Entries) /\ Len(s) \in Nat
  BY LenProperties DEF Proper
<1>2. /\ Single(r) \in Entries /\ IsInjective(Single(r).reqs)
      /\ Fits(Single(r)) /\ ToSet(Single(r).reqs) = {r}
  BY SingleFits
<1>3. ToSet(Single(r).reqs) \cap Members(s) = {}
  BY <1>2
<1>4. CASE TimeInsert(s, r) = Append(s, Single(r))
  BY <1>2, <1>3, <1>4, ProperAppend
<1>5. ASSUME NEW i \in 1..Len(s), TimeInsert(s, r) = InsertAt(s, i, Single(r))
      PROVE  /\ Proper(TimeInsert(s, r))
             /\ Members(TimeInsert(s, r)) = Members(s) \cup {r}
  <2>1. i \in 1..(Len(s) + 1)
    BY <1>1
  <2> QED
    BY <1>2, <1>3, <1>5, <2>1, ProperInsert
<1> QED
  BY <1>1, <1>4, <1>5, TimePlace

-----------------------------------------------------------------------------
(* What a cancel does to a list.                                            *)
LEMMA OverCovers ==
  ASSUME NEW rs \in Seq(Requests), rs # <<>>
  PROVE  /\ Over(rs) \in Entries /\ Over(rs).reqs = rs
         /\ Over(rs).offset \in {Offset[x] : x \in ToSet(rs)}
         /\ End(Over(rs)) \in {EndOf(x) : x \in ToSet(rs)}
         /\ \A x \in ToSet(rs) : /\ Over(rs).offset <= Offset[x]
                                 /\ EndOf(x) <= End(Over(rs))
<1> DEFINE n == Len(rs)
           starts == {Offset[x] : x \in ToSet(rs)}
           ends == {EndOf(x) : x \in ToSet(rs)}
<1>1. n \in Nat \ {0} /\ DOMAIN rs = 1..n /\ \A k \in 1..n : rs[k] \in Requests
  BY EmptySeq, LenProperties
<1>2. \A x \in Requests : Offset[x] \in Nat /\ EndOf(x) \in Nat
  BY AggregationAssumption DEF EndOf
<1>3. ToSet(rs) = {rs[k] : k \in 1..n} /\ rs[1] \in ToSet(rs)
  BY <1>1 DEF ToSet
<1>4. starts \subseteq Nat /\ starts # {} /\ ends \subseteq Nat /\ ends # {}
  BY <1>1, <1>2, <1>3
<1>5. Min(starts) \in starts /\ \A y \in starts : Min(starts) <= y
  <2> HIDE DEF starts
  <2> QED
    BY <1>4, LeastNumber
<1>6. PICK b \in Nat : \A y \in ends : y <= b
  <2> DEFINE f == [k \in 1..n |-> EndOf(rs[k])]
  <2>1. f \in [1..n -> Nat] /\ n \in Nat
    BY <1>1, <1>2
  <2>2. PICK b \in Nat : \A k \in 1..n : f[k] <= b
    <3> HIDE DEF f
    <3> QED
      BY <2>1, Bound
  <2>3. \A y \in ends : y <= b
    BY <1>3, <2>2
  <2> QED
    BY <2>3
<1>7. Max(ends) \in ends /\ \A y \in ends : Max(ends) >= y
  <2> HIDE DEF ends
  <2> QED
    BY <1>4, <1>6, GreatestNumber
<1> DEFINE start == Min(starts)
           end == Max(ends)
<1>8. Over(rs) = [offset |-> start, len |-> end - start, reqs |-> rs]
  BY DEF Over
<1>9. start \in Nat /\ end \in Nat
  BY <1>4, <1>5, <1>7
<1>10. (\A x \in ToSet(rs) : start <= Offset[x]) /\ start \in starts
  BY <1>5
<1>11. (\A x \in ToSet(rs) : end >= EndOf(x)) /\ end \in ends
  BY <1>7
<1> HIDE DEF start, end
<1>12. Over(rs) \in Entries /\ Over(rs).reqs = rs /\ Over(rs).offset = start
  BY <1>8, <1>9 DEF Entries
<1>13. End(Over(rs)) = end
  BY <1>8, <1>9 DEF End
<1>14. \A x \in ToSet(rs) : EndOf(x) \in Nat
  BY <1>1, <1>2, <1>3
<1>15. \A x \in ToSet(rs) : EndOf(x) <= end
  BY <1>9, <1>11, <1>14
<1> QED
  BY <1>10, <1>11, <1>12, <1>13, <1>15

LEMMA WithoutRemoves ==
  ASSUME NEW s, Proper(s), NEW i \in 1..Len(s), NEW x \in ToSet(s[i].reqs)
  PROVE  /\ Proper(Without(s, i, x))
         /\ Members(Without(s, i, x)) = Members(s) \ {x}
<1> DEFINE e == s[i]
<1>1. /\ e \in ToSet(s) /\ e \in Entries /\ IsInjective(e.reqs) /\ Fits(e)
      /\ ToSet(e.reqs) \subseteq Members(s)
  BY EntryOfList
<1>2. /\ e.reqs \in Seq(Requests) /\ Len(e.reqs) \in Nat \ {0}
      /\ Size(e) = Len(e.reqs) /\ DOMAIN e.reqs = 1..Len(e.reqs)
  BY <1>1, MembersOfEntry
<1>3. CASE Size(e) = 1
  <2>1. ToSet(e.reqs) = {x}
    <3>1. ToSet(e.reqs) = {e.reqs[k] : k \in 1..1}
      BY <1>2, <1>3 DEF ToSet
    <3>2. 1..1 = {1}
      OBVIOUS
    <3> QED
      BY <3>1, <3>2
  <2>2. Without(s, i, x) = RemoveAt(s, i)
    BY <1>3 DEF Without
  <2> QED
    BY <2>1, <2>2, ProperRemove
<1>4. CASE Size(e) # 1
  <2> DEFINE rs == RemoveFirst(e.reqs, x)
             d == Over(rs)
  <2>1. Without(s, i, x) = ReplaceAt(s, i, d)
    BY <1>4 DEF Without
  <2>2. PICK k \in 1..Len(e.reqs) : e.reqs[k] = x /\ rs = RemoveAt(e.reqs, k)
    BY <1>2, FirstRemoval
  <2>3. rs \in Seq(Requests) /\ Len(rs) = Len(e.reqs) - 1
    BY <1>2, <2>2, Removal
  <2>4. IsInjective(rs) /\ ToSet(rs) = ToSet(e.reqs) \ {x}
    BY <1>1, <1>2, <2>2, DistinctRemoval
  <2>5. rs # <<>>
    <3>1. Len(rs) # 0
      BY <1>2, <1>4, <2>3
    <3> QED
      BY <3>1, EmptySeq
  <2> HIDE DEF rs
  <2>6. d \in Entries /\ d.reqs = rs
    BY <2>3, <2>5, OverCovers
  <2> HIDE DEF d, e
  <2>7. IsInjective(d.reqs) /\ ToSet(d.reqs) = ToSet(e.reqs) \ {x}
    BY <2>4, <2>6
  <2>8. Fits(d)
    <3>1. Size(d) <= Size(e) /\ Size(d) \in Nat /\ Size(e) \in Nat
      BY <1>2, <2>3, <2>6, MembersOfEntry DEF Size
    <3>2. Size(d) <= MaxAggregSize
      BY <1>1, <3>1, AggregationAssumption DEF Fits
    <3> QED
      BY <1>1, <2>7, <3>2 DEF Fits
  <2>9. d \notin ToSet(s)
    <3>1. d # e
      BY <2>7 DEF e
    <3>2. ASSUME d \in ToSet(s) PROVE FALSE
      <4>1. ToSet(d.reqs) \cap ToSet(e.reqs) = {}
        BY <1>1, <3>1, <3>2 DEF Proper, Sound
      <4>2. Head(d.reqs) \in ToSet(d.reqs)
        BY <2>6, MembersOfEntry
      <4> QED
        BY <2>7, <4>1, <4>2
    <3> QED
      BY <3>2
  <2>10. ToSet(d.reqs) \cap (Members(s) \ ToSet(s[i].reqs)) = {}
    BY <2>7 DEF e
  <2>11. /\ Proper(ReplaceAt(s, i, d))
         /\ Members(ReplaceAt(s, i, d)) =
              (Members(s) \ ToSet(s[i].reqs)) \cup ToSet(d.reqs)
    BY <2>6, <2>7, <2>8, <2>9, <2>10, ProperReplace
  <2>12. Members(ReplaceAt(s, i, d)) = Members(s) \ {x}
    BY <1>1, <2>7, <2>11 DEF e
  <2> QED
    BY <2>1, <2>11, <2>12
<1> QED
  BY <1>3, <1>4

LEMMA FoundEntry ==
  ASSUME NEW s, Proper(s), NEW r, FindEntry(s, r) # 0
  PROVE  FindEntry(s, r) \in 1..Len(s) /\ HasMatch(s[FindEntry(s, r)], r)
<1> DEFINE I == {j \in 1..Len(s) : HasMatch(s[j], r)}
<1>1. Len(s) \in Nat
  BY LenProperties DEF Proper
<1>2. FindEntry(s, r) = IF I # {} THEN Min(I) ELSE 0
  BY DEF FindEntry, SelectInSeq
<1>3. I # {} => Min(I) \in I
  <2>1. I \subseteq Nat
    BY <1>1
  <2> QED
    BY <2>1, LeastNumber
<1>4. FindEntry(s, r) \in I
  <2> HIDE DEF I
  <2> QED
    BY <1>2, <1>3
<1> QED
  BY <1>4

LEMMA FoundMatch ==
  ASSUME NEW rs \in Seq(Requests), NEW r, \E x \in ToSet(rs) : SameExtent(x, r)
  PROVE  MatchIn(rs, r) \in ToSet(rs) /\ SameExtent(MatchIn(rs, r), r)
<1> DEFINE I == {j \in 1..Len(rs) : SameExtent(rs[j], r)}
           i == SelectInSeq(rs, LAMBDA x : SameExtent(x, r))
<1>1. Len(rs) \in Nat /\ DOMAIN rs = 1..Len(rs)
  BY LenProperties
<1>2. I # {} /\ I \subseteq Nat
  BY <1>1 DEF ToSet
<1>3. i = Min(I)
  BY <1>2 DEF SelectInSeq
<1>4. Min(I) \in I
  <2> HIDE DEF I
  <2> QED
    BY <1>2, LeastNumber
<1>5. MatchIn(rs, r) = rs[i]
  BY DEF MatchIn
<1> HIDE DEF i
<1>6. i \in 1..Len(rs) /\ SameExtent(rs[i], r)
  BY <1>3, <1>4
<1> QED
  BY <1>1, <1>5, <1>6 DEF ToSet

-----------------------------------------------------------------------------
(* The loops of the migrations.                                             *)
LEMMA HashtableInsertType ==
  ASSUME NEW s \in Seq(Entries), NEW r \in Requests
  PROVE  HashtableInsert(s, r) \in Seq(Entries)
<1> DEFINE p == Position(s, r)
           previous == Include(s[p - 1], r)
           joined == Join(previous, s[p])
<1>1. /\ Len(s) \in Nat /\ p \in 1..(Len(s) + 1)
      /\ \A i \in 1..Len(s) : s[i] \in Entries
  BY PlaceInQueue, LenProperties
<1>2. HashtableInsert(s, r) =
        IF p > 1 /\ Mergeable(s[p - 1], Single(r))
        THEN IF p <= Len(s) /\ Mergeable(previous, s[p])
             THEN RemoveAt(ReplaceAt(s, p - 1, joined), p)
             ELSE ReplaceAt(s, p - 1, previous)
        ELSE IF p <= Len(s) /\ Mergeable(Single(r), s[p])
        THEN ReplaceAt(s, p, Include(s[p], r))
        ELSE InsertAt(s, p, Single(r))
  BY DEF HashtableInsert
<1> HIDE DEF p
<1>3. ASSUME NEW i \in 1..Len(s), NEW e \in Entries
      PROVE  /\ ReplaceAt(s, i, e) \in Seq(Entries)
             /\ Len(ReplaceAt(s, i, e)) = Len(s)
  BY ExceptSeq DEF ReplaceAt
<1>4. ASSUME p > 1 PROVE p - 1 \in 1..Len(s) /\ previous \in Entries
  <2>1. p - 1 \in 1..Len(s)
    BY <1>1, <1>4
  <2> QED
    BY <1>1, <2>1, IncludeType
<1>5. ASSUME p <= Len(s) PROVE p \in 1..Len(s) /\ Include(s[p], r) \in Entries
  <2>1. p \in 1..Len(s)
    BY <1>1, <1>5
  <2> QED
    BY <1>1, <2>1, IncludeType
<1>6. ASSUME p > 1, p <= Len(s) PROVE joined \in Entries
  <2>1. previous \in Entries /\ s[p] \in Entries
    BY <1>1, <1>4, <1>5, <1>6
  <2>2. s[p].reqs \in Seq(Requests) /\ Len(s[p].reqs) \in Nat
    BY <2>1, MembersOfEntry
  <2> HIDE DEF previous
  <2>3. PICK h \in [0..Len(s[p].reqs) -> Entries] :
          ForEach(Include, previous, s[p].reqs) = h[Len(s[p].reqs)]
    BY <2>1, <2>2, IncludeLoop
  <2> QED
    BY <2>2, <2>3 DEF Join
<1>7. ASSUME p > 1, p <= Len(s)
      PROVE  RemoveAt(ReplaceAt(s, p - 1, joined), p) \in Seq(Entries)
  <2> DEFINE t == ReplaceAt(s, p - 1, joined)
  <2> HIDE DEF joined
  <2>1. t \in Seq(Entries) /\ Len(t) = Len(s) /\ p \in 1..Len(s)
    BY <1>3, <1>4, <1>5, <1>6, <1>7
  <2> HIDE DEF t
  <2>2. RemoveAt(t, p) \in Seq(Entries)
    BY <2>1, Removal
  <2> QED
    BY <2>2 DEF t
<1>8. InsertAt(s, p, Single(r)) \in Seq(Entries)
  BY <1>1, SingleFits, Insertion
<1> HIDE DEF previous, joined
<1> QED
  BY <1>2, <1>3, <1>4, <1>5, <1>7, <1>8

LEMMA TimeInsertType ==
  ASSUME NEW s \in Seq(Entries), NEW r \in Requests
  PROVE  TimeInsert(s, r) \in Seq(Entries)
<1>1. Len(s) \in Nat /\ Single(r) \in Entries
  BY SingleFits, LenProperties
<1>2. CASE TimeInsert(s, r) = Append(s, Single(r))
  BY <1>1, <1>2, AppendProperties
<1>3. ASSUME NEW i \in 1..Len(s), TimeInsert(s, r) = InsertAt(s, i, Single(r))
      PROVE  TimeInsert(s, r) \in Seq(Entries)
  <2>1. i \in 1..(Len(s) + 1)
    BY <1>1
  <2>2. InsertAt(s, i, Single(r)) \in Seq(Entries)
    BY <1>1, <2>1, Insertion
  <2> QED
    BY <1>3, <2>2
<1> QED
  BY <1>2, <1>3, TimePlace

LEMMA TimeInsertLoop ==
  ASSUME NEW s \in Seq(Entries), NEW rs \in Seq(Requests)
  PROVE  \E h \in [0..Len(rs) -> Seq(Entries)] :
           /\ h[0] = s
           /\ \A k \in 1..Len(rs) : h[k] = TimeInsert(h[k - 1], rs[k])
           /\ ForEach(TimeInsert, s, rs) = h[Len(rs)]
<1> DEFINE n == Len(rs)
           T == Seq(Entries)
           F == [k \in 1..n |-> [x \in T |-> TimeInsert(x, rs[k])]]
           Eq(g) == g = [k \in 0..n |-> IF k = 0 THEN s
                                       ELSE TimeInsert(g[k - 1], rs[k])]
           h == CHOOSE g : Eq(g)
<1>1. n \in Nat /\ \A k \in 1..n : rs[k] \in Requests
  BY LenProperties
<1>2. ASSUME NEW a \in T, NEW k \in 1..n
      PROVE  TimeInsert(a, rs[k]) \in T
  BY <1>1, TimeInsertType
<1>3. s \in T
  OBVIOUS
<1> HIDE DEF T, n
<1>4. F \in [1..n -> [T -> T]]
  BY <1>2
<1>5. PICK g \in [0..n -> T] : Climbs(g, n, s, F)
  <2> HIDE DEF F
  <2> QED
    BY <1>1, <1>3, <1>4, Steps
<1>6. ASSUME NEW k \in 1..n PROVE g[k] = TimeInsert(g[k - 1], rs[k])
  <2>1. k - 1 \in 0..n
    BY <1>1
  <2>2. g[k - 1] \in T
    BY <2>1
  <2>3. g[k] = F[k][g[k - 1]]
    BY <1>5 DEF Climbs
  <2> QED
    BY <2>2, <2>3
<1>7. g = [k \in 0..n |-> g[k]] /\ g[0] = s
  BY <1>1, <1>5 DEF Climbs
<1>8. Eq(g)
  <2>1. ASSUME NEW k \in 0..n, k # 0 PROVE k \in 1..n
    BY <1>1, <2>1
  <2> QED
    BY <1>6, <1>7, <2>1
<1>9. Eq(h)
  <2> HIDE DEF Eq
  <2> QED
    BY <1>8
<1>10. ForEach(TimeInsert, s, rs) = h[n]
  BY DEF ForEach, n
<1> HIDE DEF h
<1>11. h = [k \in 0..n |-> h[k]] /\ h[0] = s
  BY <1>1, <1>9
<1>12. ASSUME NEW k \in 1..n PROVE h[k] = TimeInsert(h[k - 1], rs[k])
  <2>1. k \in 0..n /\ k # 0
    BY <1>1
  <2> QED
    BY <1>9, <2>1
<1>13. h \in [0..n -> T]
  <2>1. ASSUME NEW k \in 1..n, h[k - 1] \in T PROVE h[k] \in T
    BY <1>2, <1>12, <2>1
  <2> QED
    BY <1>1, <1>3, <1>11, <2>1, StaysIn
<1> QED
  BY <1>10, <1>11, <1>12, <1>13 DEF T, n

LEMMA RehashLoop ==
  ASSUME NEW ls \in [Lists -> Seq(Entries)], NEW rs \in Seq(Requests)
  PROVE  \E h \in [0..Len(rs) -> [Lists -> Seq(Entries)]] :
           /\ h[0] = ls
           /\ \A k \in 1..Len(rs) : h[k] = Rehash(h[k - 1], rs[k])
           /\ ForEach(Rehash, ls, rs) = h[Len(rs)]
<1> DEFINE n == Len(rs)
           T == [Lists -> Seq(Entries)]
           F == [k \in 1..n |-> [x \in T |-> Rehash(x, rs[k])]]
           Eq(g) == g = [k \in 0..n |-> IF k = 0 THEN ls
                                       ELSE Rehash(g[k - 1], rs[k])]
           h == CHOOSE g : Eq(g)
<1>1. n \in Nat /\ \A k \in 1..n : rs[k] \in Requests
  BY LenProperties
<1>2. ASSUME NEW a \in T, NEW k \in 1..n
      PROVE  Rehash(a, rs[k]) \in T
  <2>1. rs[k] \in Requests /\ QueueOf[rs[k]] \in Lists
    BY <1>1, AggregationAssumption DEF Lists
  <2>2. HashtableInsert(a[QueueOf[rs[k]]], rs[k]) \in Seq(Entries)
    BY <2>1, HashtableInsertType
  <2> QED
    BY <2>1, <2>2 DEF Rehash
<1>3. ls \in T
  OBVIOUS
<1> HIDE DEF T, n
<1>4. F \in [1..n -> [T -> T]]
  BY <1>2
<1>5. PICK g \in [0..n -> T] : Climbs(g, n, ls, F)
  <2> HIDE DEF F
  <2> QED
    BY <1>1, <1>3, <1>4, Steps
<1>6. ASSUME NEW k \in 1..n PROVE g[k] = Rehash(g[k - 1], rs[k])
  <2>1. k - 1 \in 0..n
    BY <1>1
  <2>2. g[k - 1] \in T
    BY <2>1
  <2>3. g[k] = F[k][g[k - 1]]
    BY <1>5 DEF Climbs
  <2> QED
    BY <2>2, <2>3
<1>7. g = [k \in 0..n |-> g[k]] /\ g[0] = ls
  BY <1>1, <1>5 DEF Climbs
<1>8. Eq(g)
  <2>1. ASSUME NEW k \in 0..n, k # 0 PROVE k \in 1..n
    BY <1>1, <2>1
  <2> QED
    BY <1>6, <1>7, <2>1
<1>9. Eq(h)
  <2> HIDE DEF Eq
  <2> QED
    BY <1>8
<1>10. ForEach(Rehash, ls, rs) = h[n]
  BY DEF ForEach, n
<1> HIDE DEF h
<1>11. h = [k \in 0..n |-> h[k]] /\ h[0] = ls
  BY <1>1, <1>9
<1>12. ASSUME NEW k \in 1..n PROVE h[k] = Rehash(h[k - 1], rs[k])
  <2>1. k \in 0..n /\ k # 0
    BY <1>1
  <2> QED
    BY <1>9, <2>1
<1>13. h \in [0..n -> T]
  <2>1. ASSUME NEW k \in 1..n, h[k - 1] \in T PROVE h[k] \in T
    BY <1>2, <1>12, <2>1
  <2> QED
    BY <1>1, <1>3, <1>11, <2>1, StaysIn
<1> QED
  BY <1>10, <1>11, <1>12, <1>13 DEF T, n

LEMMA PartsLoop ==
  ASSUME NEW s \in Seq(Entries)
  PROVE  \E h \in [0..Len(s) -> Seq(Requests)] :
           /\ h[0] = <<>>
           /\ \A k \in 1..Len(s) : h[k] = h[k - 1] \o s[k].reqs
           /\ Parts(s) = h[Len(s)]
<1> DEFINE n == Len(s)
           T == Seq(Requests)
           F == [k \in 1..n |-> [x \in T |-> x \o s[k].reqs]]
           Eq(g) == g = [k \in 0..n |-> IF k = 0 THEN <<>>
                                       ELSE g[k - 1] \o s[k].reqs]
           h == CHOOSE g : Eq(g)
<1>1. n \in Nat /\ \A k \in 1..n : s[k] \in Entries
  BY LenProperties
<1>2. ASSUME NEW a \in T, NEW k \in 1..n
      PROVE  a \o s[k].reqs \in T
  <2>1. s[k].reqs \in Seq(Requests)
    BY <1>1, MembersOfEntry
  <2> QED
    BY <2>1, ConcatProperties
<1>3. <<>> \in T
  OBVIOUS
<1> HIDE DEF T, n
<1>4. F \in [1..n -> [T -> T]]
  BY <1>2
<1>5. PICK g \in [0..n -> T] : Climbs(g, n, <<>>, F)
  <2> HIDE DEF F
  <2> QED
    BY <1>1, <1>3, <1>4, Steps
<1>6. ASSUME NEW k \in 1..n PROVE g[k] = g[k - 1] \o s[k].reqs
  <2>1. k - 1 \in 0..n
    BY <1>1
  <2>2. g[k - 1] \in T
    BY <2>1
  <2>3. g[k] = F[k][g[k - 1]]
    BY <1>5 DEF Climbs
  <2> QED
    BY <2>2, <2>3
<1>7. g = [k \in 0..n |-> g[k]] /\ g[0] = <<>>
  BY <1>1, <1>5 DEF Climbs
<1>8. Eq(g)
  <2>1. ASSUME NEW k \in 0..n, k # 0 PROVE k \in 1..n
    BY <1>1, <2>1
  <2> QED
    BY <1>6, <1>7, <2>1
<1>9. Eq(h)
  <2> HIDE DEF Eq
  <2> QED
    BY <1>8
<1>10. Parts(s) = h[n]
  BY DEF Parts, ForEach, n
<1> HIDE DEF h
<1>11. h = [k \in 0..n |-> h[k]] /\ h[0] = <<>>
  BY <1>1, <1>9
<1>12. ASSUME NEW k \in 1..n PROVE h[k] = h[k - 1] \o s[k].reqs
  <2>1. k \in 0..n /\ k # 0
    BY <1>1
  <2> QED
    BY <1>9, <2>1
<1>13. h \in [0..n -> T]
  <2>1. ASSUME NEW k \in 1..n, h[k - 1] \in T PROVE h[k] \in T
    BY <1>2, <1>12, <2>1
  <2> QED
    BY <1>1, <1>3, <1>11, <2>1, StaysIn
<1> QED
  BY <1>10, <1>11, <1>12, <1>13 DEF T, n

LEMMA PartsType ==
  ASSUME NEW s \in Seq(Entries) PROVE Parts(s) \in Seq(Requests)
<1>1. PICK h \in [0..Len(s) -> Seq(Requests)] : Parts(s) = h[Len(s)]
  BY PartsLoop
<1>2. Len(s) \in 0..Len(s)
  BY LenProperties
<1> QED
  BY <1>1, <1>2

LEMMA AllPartsLoop ==
  ASSUME TypeOK
  PROVE  \E h \in [0..Len(QueueOrder) -> Seq(Requests)] :
           /\ h[0] = <<>>
           /\ \A k \in 1..Len(QueueOrder) : h[k] = h[k - 1] \o Parts(list[QueueOrder[k]])
           /\ AllParts = h[Len(QueueOrder)]
<1> DEFINE n == Len(QueueOrder)
           T == Seq(Requests)
           F == [k \in 1..n |-> [x \in T |-> x \o Parts(list[QueueOrder[k]])]]
           Eq(g) == g = [k \in 0..n |-> IF k = 0 THEN <<>>
                                       ELSE g[k - 1] \o Parts(list[QueueOrder[k]])]
           h == CHOOSE g : Eq(g)
<1>1. n \in Nat /\ \A k \in 1..n : QueueOrder[k] \in Queues
  BY StoreAssumption, LenProperties
<1>2. ASSUME NEW a \in T, NEW k \in 1..n
      PROVE  a \o Parts(list[QueueOrder[k]]) \in T
  <2>1. list[QueueOrder[k]] \in Seq(Entries)
    BY <1>1 DEF TypeOK, Lists
  <2>2. Parts(list[QueueOrder[k]]) \in Seq(Requests)
    BY <2>1, PartsType
  <2> QED
    BY <2>2, ConcatProperties
<1>3. <<>> \in T
  OBVIOUS
<1> HIDE DEF T, n
<1>4. F \in [1..n -> [T -> T]]
  BY <1>2
<1>5. PICK g \in [0..n -> T] : Climbs(g, n, <<>>, F)
  <2> HIDE DEF F
  <2> QED
    BY <1>1, <1>3, <1>4, Steps
<1>6. ASSUME NEW k \in 1..n PROVE g[k] = g[k - 1] \o Parts(list[QueueOrder[k]])
  <2>1. k - 1 \in 0..n
    BY <1>1
  <2>2. g[k - 1] \in T
    BY <2>1
  <2>3. g[k] = F[k][g[k - 1]]
    BY <1>5 DEF Climbs
  <2> QED
    BY <2>2, <2>3
<1>7. g = [k \in 0..n |-> g[k]] /\ g[0] = <<>>
  BY <1>1, <1>5 DEF Climbs
<1>8. Eq(g)
  <2>1. ASSUME NEW k \in 0..n, k # 0 PROVE k \in 1..n
    BY <1>1, <2>1
  <2> QED
    BY <1>6, <1>7, <2>1
<1>9. Eq(h)
  <2> HIDE DEF Eq
  <2> QED
    BY <1>8
<1>10. AllParts = h[n]
  BY DEF AllParts, ForEach, n
<1> HIDE DEF h
<1>11. h = [k \in 0..n |-> h[k]] /\ h[0] = <<>>
  BY <1>1, <1>9
<1>12. ASSUME NEW k \in 1..n PROVE h[k] = h[k - 1] \o Parts(list[QueueOrder[k]])
  <2>1. k \in 0..n /\ k # 0
    BY <1>1
  <2> QED
    BY <1>9, <2>1
<1>13. h \in [0..n -> T]
  <2>1. ASSUME NEW k \in 1..n, h[k - 1] \in T PROVE h[k] \in T
    BY <1>2, <1>12, <2>1
  <2> QED
    BY <1>1, <1>3, <1>11, <2>1, StaysIn
<1> QED
  BY <1>10, <1>11, <1>12, <1>13 DEF T, n

-----------------------------------------------------------------------------
(* The bytes of a set of requests, and what a loop that subtracts them one  *)
(* by one leaves.                                                           *)
LEMMA BytesFinite ==
  ASSUME NEW R, R \subseteq Requests
  PROVE  IsFiniteSet(Bytes(R)) /\ Cardinality(Bytes(R)) \in Nat
<1> DEFINE Of(r) == {r} \X (1..Length[r])
           T == {Of(r) : r \in R}
           f == [r \in R |-> Of(r)]
<1>1. IsFiniteSet(R)
  BY AggregationAssumption, FS_Subset
<1>2. ASSUME NEW r \in R PROVE IsFiniteSet(Of(r))
  <2>1. Length[r] \in Int /\ 1 \in Int
    BY AggregationAssumption
  <2>2. IsFiniteSet(1..Length[r])
    BY <2>1, FS_Interval
  <2>3. IsFiniteSet({r})
    BY FS_Singleton
  <2> QED
    BY <2>2, <2>3, FS_Product
<1>3. IsFiniteSet(T)
  <2> HIDE DEF Of
  <2>1. f \in Surjection(R, T)
    BY DEF Surjection
  <2> QED
    BY <1>1, <2>1, FS_Surjection
<1>4. \A X \in T : IsFiniteSet(X)
  BY <1>2
<1>5. IsFiniteSet(UNION T)
  BY <1>3, <1>4, FS_UNION
<1>6. Bytes(R) = UNION T
  BY DEF Bytes
<1> QED
  BY <1>5, <1>6, FS_CardinalityType

LEMMA BytesAdd ==
  ASSUME NEW R, R \subseteq Requests, NEW r \in Requests, r \notin R
  PROVE  Cardinality(Bytes(R \cup {r})) = Cardinality(Bytes(R)) + Length[r]
<1> DEFINE X == {r} \X (1..Length[r])
<1>1. Bytes(R \cup {r}) = Bytes(R) \cup X
  <2>1. Bytes(R \cup {r}) \subseteq Bytes(R) \cup X
    BY DEF Bytes
  <2>2. X \subseteq Bytes(R \cup {r})
    BY DEF Bytes
  <2>3. Bytes(R) \subseteq Bytes(R \cup {r})
    BY DEF Bytes
  <2> QED
    BY <2>1, <2>2, <2>3
<1>2. Bytes(R) \cap X = {}
  <2>1. ASSUME NEW y, y \in Bytes(R), y \in X PROVE FALSE
    <3>1. PICK x \in R : y \in {x} \X (1..Length[x])
      BY <2>1 DEF Bytes
    <3>2. y[1] = x /\ y[1] = r
      BY <2>1, <3>1
    <3> QED
      BY <3>2
  <2> QED
    BY <2>1
<1>3. IsFiniteSet(Bytes(R)) /\ Cardinality(Bytes(R)) \in Nat
  BY BytesFinite
<1>4. IsFiniteSet(X) /\ Cardinality(X) = Length[r]
  <2>1. Length[r] \in Nat
    BY AggregationAssumption
  <2>2. IsFiniteSet(1..Length[r])
    BY <2>1, FS_Interval
  <2>3. Cardinality(1..Length[r]) = Length[r]
    <3>1. Cardinality(1..Length[r]) =
            IF 1 > Length[r] THEN 0 ELSE Length[r] - 1 + 1
      BY <2>1, FS_Interval
    <3> QED
      BY <2>1, <3>1
  <2>4. IsFiniteSet({r}) /\ Cardinality({r}) = 1
    BY FS_Singleton
  <2>5. IsFiniteSet(X)
    BY <2>2, <2>4, FS_Product
  <2>6. Cardinality(X) = Cardinality({r}) * Cardinality(1..Length[r])
    BY <2>2, <2>4, FS_Product
  <2> QED
    BY <2>1, <2>3, <2>4, <2>5, <2>6
<1> HIDE DEF X
<1>5. Cardinality({}) = 0
  BY FS_EmptySet
<1>6. Cardinality(Bytes(R) \cup X) =
        Cardinality(Bytes(R)) + Cardinality(X) - Cardinality(Bytes(R) \cap X)
  BY <1>3, <1>4, FS_Union
<1>7. Length[r] \in Nat
  BY AggregationAssumption
<1>8. Cardinality(Bytes(R) \cap X) = 0
  BY <1>2, <1>5
<1>9. Cardinality(Bytes(R) \cup X) = Cardinality(Bytes(R)) + Length[r]
  BY <1>3, <1>4, <1>6, <1>7, <1>8
<1> QED
  BY <1>1, <1>9

LEMMA BytesRemove ==
  ASSUME NEW R, R \subseteq Requests, NEW r \in R
  PROVE  Cardinality(Bytes(R \ {r})) = Cardinality(Bytes(R)) - Length[r]
<1> DEFINE Q == R \ {r}
<1>1. Q \subseteq Requests /\ r \in Requests /\ r \notin Q /\ R = Q \cup {r}
  OBVIOUS
<1> HIDE DEF Q
<1>2. Cardinality(Bytes(R)) = Cardinality(Bytes(Q)) + Length[r]
  BY <1>1, BytesAdd
<1>3. Cardinality(Bytes(Q)) \in Nat /\ Length[r] \in Nat
  BY <1>1, BytesFinite, AggregationAssumption
<1>4. Cardinality(Bytes(Q)) = Cardinality(Bytes(R)) - Length[r]
  BY <1>2, <1>3
<1> QED
  BY <1>4 DEF Q

LEMMA SizeLoop ==
  ASSUME NEW b \in Int, NEW rs \in Seq(Requests)
  PROVE  \E h \in [0..Len(rs) -> Int] :
           /\ h[0] = b
           /\ \A k \in 1..Len(rs) : h[k] = h[k - 1] - Length[rs[k]]
           /\ ForEach(LAMBDA m, x : m - Length[x], b, rs) = h[Len(rs)]
<1> DEFINE n == Len(rs)
           T == Int
           F == [k \in 1..n |-> [x \in T |-> x - Length[rs[k]]]]
           Eq(g) == g = [k \in 0..n |-> IF k = 0 THEN b
                                       ELSE g[k - 1] - Length[rs[k]]]
           h == CHOOSE g : Eq(g)
<1>1. n \in Nat /\ \A k \in 1..n : rs[k] \in Requests
  BY LenProperties
<1>2. ASSUME NEW a \in T, NEW k \in 1..n
      PROVE  a - Length[rs[k]] \in T
  <2>1. Length[rs[k]] \in Int
    BY <1>1, AggregationAssumption
  <2> QED
    BY <2>1
<1>3. b \in T
  OBVIOUS
<1> HIDE DEF T, n
<1>4. F \in [1..n -> [T -> T]]
  BY <1>2
<1>5. PICK g \in [0..n -> T] : Climbs(g, n, b, F)
  <2> HIDE DEF F
  <2> QED
    BY <1>1, <1>3, <1>4, Steps
<1>6. ASSUME NEW k \in 1..n PROVE g[k] = g[k - 1] - Length[rs[k]]
  <2>1. k - 1 \in 0..n
    BY <1>1
  <2>2. g[k - 1] \in T
    BY <2>1
  <2>3. g[k] = F[k][g[k - 1]]
    BY <1>5 DEF Climbs
  <2> QED
    BY <2>2, <2>3
<1>7. g = [k \in 0..n |-> g[k]] /\ g[0] = b
  BY <1>1, <1>5 DEF Climbs
<1>8. Eq(g)
  <2>1. ASSUME NEW k \in 0..n, k # 0 PROVE k \in 1..n
    BY <1>1, <2>1
  <2> QED
    BY <1>6, <1>7, <2>1
<1>9. Eq(h)
  <2> HIDE DEF Eq
  <2> QED
    BY <1>8
<1>10. ForEach(LAMBDA m, x : m - Length[x], b, rs) = h[n]
  BY DEF ForEach, n
<1> HIDE DEF h
<1>11. h = [k \in 0..n |-> h[k]] /\ h[0] = b
  BY <1>1, <1>9
<1>12. ASSUME NEW k \in 1..n PROVE h[k] = h[k - 1] - Length[rs[k]]
  <2>1. k \in 0..n /\ k # 0
    BY <1>1
  <2> QED
    BY <1>9, <2>1
<1>13. h \in [0..n -> T]
  <2>1. ASSUME NEW k \in 1..n, h[k - 1] \in T PROVE h[k] \in T
    BY <1>2, <1>12, <2>1
  <2> QED
    BY <1>1, <1>3, <1>11, <2>1, StaysIn
<1> QED
  BY <1>10, <1>11, <1>12, <1>13 DEF T, n

LEMMA BytesLoop ==
  ASSUME NEW R, R \subseteq Requests, NEW rs \in Seq(Requests), IsInjective(rs),
         ToSet(rs) \subseteq R
  PROVE  ForEach(LAMBDA m, x : m - Length[x], Cardinality(Bytes(R)), rs)
           = Cardinality(Bytes(R \ ToSet(rs)))
<1> DEFINE n == Len(rs)
           b == Cardinality(Bytes(R))
           Left(k) == R \ Upto(rs, k)
<1>1. n \in Nat /\ b \in Int
  BY BytesFinite, LenProperties
<1>2. PICK h \in [0..n -> Int] :
        /\ h[0] = b
        /\ \A k \in 1..n : h[k] = h[k - 1] - Length[rs[k]]
        /\ ForEach(LAMBDA m, x : m - Length[x], b, rs) = h[n]
  BY <1>1, SizeLoop
<1> DEFINE P == {k \in 0..n : h[k] = Cardinality(Bytes(Left(k)))}
<1> HIDE DEF b
<1>3. 0 \in P
  <2>1. Left(0) = R
    BY UptoSteps
  <2>2. h[0] = Cardinality(Bytes(Left(0)))
    BY <1>2, <2>1 DEF b
  <2>3. 0 \in 0..n
    BY <1>1
  <2> HIDE DEF Left, n
  <2> QED
    BY <2>2, <2>3
<1>4. ASSUME NEW k \in 1..n, k - 1 \in P PROVE k \in P
  <2>1. h[k - 1] = Cardinality(Bytes(Left(k - 1)))
    BY <1>4
  <2>2. /\ Upto(rs, k) = Upto(rs, k - 1) \cup {rs[k]}
        /\ rs[k] \in ToSet(rs) /\ rs[k] \notin Upto(rs, k - 1)
    BY UptoSteps, UptoDistinct
  <2>3. Left(k) = Left(k - 1) \ {rs[k]}
    BY <2>2
  <2>4. rs[k] \in Left(k - 1) /\ Left(k - 1) \subseteq Requests
    BY <2>2
  <2> HIDE DEF Left, n
  <2>5. Cardinality(Bytes(Left(k - 1) \ {rs[k]})) =
          Cardinality(Bytes(Left(k - 1))) - Length[rs[k]]
    BY <2>4, BytesRemove
  <2>6. k \in 0..n
    BY <1>1
  <2> QED
    BY <1>2, <2>1, <2>3, <2>5, <2>6
<1>5. n \in P
  <2> HIDE DEF P
  <2>1. n \in 0..n
    BY <1>1
  <2> HIDE DEF n
  <2> QED
    BY <1>1, <1>3, <1>4, <2>1, Interval
<1>6. Upto(rs, n) = ToSet(rs)
  BY UptoSteps
<1>7. h[n] = Cardinality(Bytes(R \ ToSet(rs)))
  BY <1>5, <1>6
<1> QED
  BY <1>2, <1>7 DEF b

-----------------------------------------------------------------------------
(* The inductive invariant: Conservation, GroupsFit and SizesAgree with the *)
(* types, arranged by what a step changes.                                  *)
Typed ==
  /\ alg \in StartAlgs \cup Selectable
  /\ list \in [Lists -> Seq(Entries)]
  /\ dispatch \in [Queues -> Seq(Requests)]
  /\ size \in [Queues -> Int]
  /\ fate \in [Requests -> {"new", "accepted", "cancelled", "released"}]
ListsProper ==
  \A l \in Lists :
    Proper(list[l]) /\ \A r \in Members(list[l]) : ListOf(r) = l
DispatchProper ==
  \A q \in Queues :
    IsInjective(dispatch[q]) /\ \A r \in ToSet(dispatch[q]) : QueueOf[r] = q
Accounted ==
  \A r \in Requests :
    /\ ~(Queued(r) /\ InDispatch(r))
    /\ fate[r] = "accepted" <=> Queued(r) \/ InDispatch(r)
IInv == Typed /\ ListsProper /\ DispatchProper /\ Accounted /\ SizesAgree

LEMMA IInvMeans == IInv => TypeOK /\ Conservation /\ SizesAgree /\ GroupsFit
<1> SUFFICES ASSUME IInv PROVE TypeOK /\ Conservation /\ SizesAgree /\ GroupsFit
  OBVIOUS
<1>1. TypeOK
  <2>1. ASSUME NEW q \in Queues PROVE size[q] \in Nat
    <3>1. QueuedOf(q) \subseteq Requests
      BY DEF QueuedOf
    <3>2. Cardinality(Bytes(QueuedOf(q))) \in Nat
      BY <3>1, BytesFinite
    <3> QED
      BY <3>2 DEF IInv, SizesAgree
  <2> QED
    BY <2>1 DEF IInv, Typed, TypeOK
<1>2. Conservation
  <2>1. ASSUME NEW l \in Lists PROVE LinkedOnce(list[l])
    BY DEF IInv, ListsProper, Proper, Sound, LinkedOnce
  <2> QED
    BY <2>1 DEF IInv, ListsProper, DispatchProper, Accounted, Conservation
<1>3. GroupsFit
  BY DEF IInv, ListsProper, Proper, Sound, GroupsFit
<1> QED
  BY <1>1, <1>2, <1>3 DEF IInv

LEMMA InitIInv == Init => IInv
<1> SUFFICES ASSUME Init PROVE IInv
  OBVIOUS
<1>1. /\ <<>> \in Seq(Entries) /\ <<>> \in Seq(Requests)
      /\ IsInjective(<<>>) /\ ToSet(<<>>) = {}
  BY DEF IsInjective, ToSet
<1>2. Members(<<>>) = {}
  BY <1>1 DEF Members
<1>3. Proper(<<>>)
  BY <1>1 DEF Proper, Sound
<1>4. Typed
  BY <1>1 DEF Init, Typed
<1>5. ListsProper
  BY <1>2, <1>3 DEF Init, ListsProper
<1>6. DispatchProper
  BY <1>1 DEF Init, DispatchProper
<1>7. \A r \in Requests : ListOf(r) \in Lists /\ QueueOf[r] \in Queues
  BY AggregationAssumption DEF ListOf, Lists
<1>8. \A r \in Requests : ~Queued(r) /\ ~InDispatch(r)
  BY <1>1, <1>2, <1>7 DEF Init, Queued, InDispatch
<1>9. Accounted
  BY <1>8 DEF Init, Accounted
<1>10. SizesAgree
  <2>1. \A q \in Queues : QueuedOf(q) = {}
    BY <1>8 DEF QueuedOf
  <2>2. Bytes({}) = {}
    BY DEF Bytes
  <2>3. Cardinality({}) = 0
    BY FS_EmptySet
  <2> QED
    BY <2>1, <2>2, <2>3 DEF Init, SizesAgree
<1> QED
  BY <1>4, <1>5, <1>6, <1>9, <1>10 DEF IInv

-----------------------------------------------------------------------------
(* What a step that replaces one list, under the same scheduler, does to    *)
(* the requests that are queued.                                            *)
LEMMA ProperMembers ==
  ASSUME NEW s, Proper(s) PROVE s \in Seq(Entries) /\ Members(s) \subseteq Requests
<1>1. \A e \in ToSet(s) : e \in Entries
  BY DEF Proper, Sound
<1>2. \A e \in ToSet(s) : ToSet(e.reqs) \subseteq Requests
  BY <1>1, MembersOfEntry
<1> QED
  BY <1>2 DEF Members, Proper

LEMMA ListOfRequest ==
  ASSUME NEW r \in Requests
  PROVE  ListOf(r) \in Lists /\ QueueOf[r] \in Queues
BY AggregationAssumption DEF ListOf, Lists

LEMMA ListStep ==
  ASSUME Typed, ListsProper, alg' = alg, NEW l \in Lists, NEW s, Proper(s),
         list' = [list EXCEPT ![l] = s], \A r \in Members(s) : ListOf(r) = l
  PROVE  /\ list' \in [Lists -> Seq(Entries)] /\ ListsProper'
         /\ \A r \in Requests :
              Queued(r)' <=> IF ListOf(r) = l THEN r \in Members(s) ELSE Queued(r)
<1>1. list' \in [Lists -> Seq(Entries)] /\ list'[l] = s
      /\ \A k \in Lists \ {l} : list'[k] = list[k]
  BY ProperMembers DEF Typed
<1>2. \A r : ListOf(r)' = ListOf(r)
  BY DEF ListOf
<1>3. ListsProper'
  <2>1. ASSUME NEW k \in Lists
        PROVE  Proper(list'[k]) /\ \A r \in Members(list'[k]) : ListOf(r)' = k
    <3>1. CASE k = l
      BY <1>1, <1>2, <3>1
    <3>2. CASE k # l
      BY <1>1, <1>2, <3>2 DEF ListsProper
    <3> QED
      BY <3>1, <3>2
  <2> QED
    BY <2>1 DEF ListsProper, Proper
<1>4. ASSUME NEW r \in Requests
      PROVE Queued(r)' <=> IF ListOf(r) = l THEN r \in Members(s) ELSE Queued(r)
  <2>1. Queued(r)' <=> r \in Members(list'[ListOf(r)])
    BY <1>2 DEF Queued, Members
  <2>2. ListOf(r) \in Lists
    BY ListOfRequest
  <2> QED
    BY <1>1, <2>1, <2>2 DEF Queued
<1> QED
  BY <1>1, <1>3, <1>4

LEMMA ListAdds ==
  ASSUME Typed, ListsProper, alg' = alg, NEW r \in Requests, NEW s, Proper(s),
         Members(s) = Members(list[ListOf(r)]) \cup {r},
         list' = [list EXCEPT ![ListOf(r)] = s]
  PROVE  /\ list' \in [Lists -> Seq(Entries)] /\ ListsProper'
         /\ \A x \in Requests : Queued(x)' <=> Queued(x) \/ x = r
<1> DEFINE l == ListOf(r)
<1>1. l \in Lists
  BY ListOfRequest
<1>2. \A x \in Members(s) : ListOf(x) = l
  BY <1>1 DEF ListsProper
<1>3. list' \in [Lists -> Seq(Entries)] /\ ListsProper'
  BY <1>1, <1>2, ListStep
<1>4. \A x \in Requests :
        Queued(x)' <=> IF ListOf(x) = l THEN x \in Members(s) ELSE Queued(x)
  BY <1>1, <1>2, ListStep
<1>5. \A x \in Requests : Queued(x)' <=> Queued(x) \/ x = r
  <2> TAKE x \in Requests
  <2>1. CASE ListOf(x) = l
    BY <1>4, <2>1 DEF Queued
  <2>2. CASE ListOf(x) # l
    BY <1>4, <2>2
  <2> QED
    BY <2>1, <2>2
<1> QED
  BY <1>3, <1>5

LEMMA ListLoses ==
  ASSUME Typed, ListsProper, alg' = alg, NEW l \in Lists, NEW s, Proper(s),
         NEW G, Members(s) = Members(list[l]) \ G, G \subseteq Members(list[l]),
         list' = [list EXCEPT ![l] = s]
  PROVE  /\ list' \in [Lists -> Seq(Entries)] /\ ListsProper'
         /\ \A x \in Requests : Queued(x)' <=> Queued(x) /\ x \notin G
<1>1. \A x \in Members(list[l]) : ListOf(x) = l
  BY DEF ListsProper
<1>2. \A x \in Members(s) : ListOf(x) = l
  BY <1>1
<1>3. list' \in [Lists -> Seq(Entries)] /\ ListsProper'
  BY <1>2, ListStep
<1>4. \A x \in Requests :
        Queued(x)' <=> IF ListOf(x) = l THEN x \in Members(s) ELSE Queued(x)
  BY <1>2, ListStep
<1>5. \A x \in Requests : Queued(x)' <=> Queued(x) /\ x \notin G
  <2> TAKE x \in Requests
  <2>1. CASE ListOf(x) = l
    BY <1>4, <2>1 DEF Queued
  <2>2. CASE ListOf(x) # l
    BY <1>1, <1>4, <2>2
  <2> QED
    BY <2>1, <2>2
<1> QED
  BY <1>3, <1>5

LEMMA SizeAdds ==
  ASSUME Typed, SizesAgree, NEW r \in Requests, ~Queued(r),
         \A x \in Requests : Queued(x)' <=> Queued(x) \/ x = r,
         size' = [size EXCEPT ![QueueOf[r]] = @ + Length[r]]
  PROVE  size' \in [Queues -> Int] /\ SizesAgree'
<1> DEFINE q == QueueOf[r]
<1>1. q \in Queues /\ Length[r] \in Int
  BY AggregationAssumption
<1>2. size' \in [Queues -> Int] /\ size'[q] = size[q] + Length[r]
      /\ \A p \in Queues : p # q => size'[p] = size[p]
  BY <1>1 DEF Typed
<1>3. ASSUME NEW p \in Queues PROVE size'[p] = Cardinality(Bytes(QueuedOf(p)'))
  <2>1. CASE p = q
    <3>1. QueuedOf(q)' = QueuedOf(q) \cup {r}
      BY DEF QueuedOf
    <3>2. QueuedOf(q) \subseteq Requests /\ r \notin QueuedOf(q)
      BY DEF QueuedOf
    <3>3. Cardinality(Bytes(QueuedOf(q) \cup {r}))
            = Cardinality(Bytes(QueuedOf(q))) + Length[r]
      BY <3>2, BytesAdd
    <3>4. size[q] = Cardinality(Bytes(QueuedOf(q)))
      BY <1>1 DEF SizesAgree
    <3> QED
      BY <1>2, <2>1, <3>1, <3>3, <3>4
  <2>2. CASE p # q
    <3>1. QueuedOf(p)' = QueuedOf(p)
      BY <2>2 DEF QueuedOf
    <3> QED
      BY <1>2, <2>2, <3>1 DEF SizesAgree
  <2> QED
    BY <2>1, <2>2
<1>4. SizesAgree'
  BY <1>3 DEF SizesAgree, Bytes
<1> QED
  BY <1>2, <1>4

LEMMA SizeLoses ==
  ASSUME Typed, SizesAgree, NEW q \in Queues, NEW G, G \subseteq QueuedOf(q),
         \A x \in Requests : Queued(x)' <=> Queued(x) /\ x \notin G,
         size' = [size EXCEPT ![q] = Cardinality(Bytes(QueuedOf(q) \ G))]
  PROVE  size' \in [Queues -> Int] /\ SizesAgree'
<1>1. QueuedOf(q) \ G \subseteq Requests /\ G \subseteq Requests
  BY DEF QueuedOf
<1>2. Cardinality(Bytes(QueuedOf(q) \ G)) \in Int
  BY <1>1, BytesFinite
<1>3. size' \in [Queues -> Int]
      /\ size'[q] = Cardinality(Bytes(QueuedOf(q) \ G))
      /\ \A p \in Queues : p # q => size'[p] = size[p]
  BY <1>2 DEF Typed
<1>4. ASSUME NEW p \in Queues PROVE size'[p] = Cardinality(Bytes(QueuedOf(p)'))
  <2>1. CASE p = q
    <3>1. QueuedOf(q)' = QueuedOf(q) \ G
      BY DEF QueuedOf
    <3> QED
      BY <1>3, <2>1, <3>1
  <2>2. CASE p # q
    <3>1. QueuedOf(p)' = QueuedOf(p)
      BY <2>2 DEF QueuedOf
    <3> QED
      BY <1>3, <2>2, <3>1 DEF SizesAgree
  <2> QED
    BY <2>1, <2>2
<1>5. SizesAgree'
  BY <1>4 DEF SizesAgree, Bytes
<1> QED
  BY <1>3, <1>5

-----------------------------------------------------------------------------
(* The actions keep the invariant.                                          *)
LEMMA InsertedAdds ==
  ASSUME IInv, NEW r \in Requests, ~Queued(r),
         NEW s \in Inserted(list[ListOf(r)], r)
  PROVE  Proper(s) /\ Members(s) = Members(list[ListOf(r)]) \cup {r}
<1> DEFINE t == list[ListOf(r)]
<1>1. /\ ListOf(r) \in Lists /\ Proper(t) /\ r \notin Members(t)
      /\ \A x \in Members(t) : x \in Requests /\ ListOf(x) = ListOf(r)
  BY ListOfRequest, ProperMembers DEF IInv, ListsProper, Queued
<1>2. /\ Single(r) \in Entries /\ IsInjective(Single(r).reqs) /\ Fits(Single(r))
      /\ ToSet(Single(r).reqs) = {r}
      /\ ToSet(Single(r).reqs) \cap Members(t) = {}
  BY <1>1, SingleFits
<1>3. CASE alg = "SJF"
  <2>1. \A x \in Members(t) : QueueOf[x] = QueueOf[r]
    BY <1>1, <1>3 DEF ListOf, NeedsHashtable
  <2>2. s = HashtableInsert(t, r)
    BY <1>3 DEF Inserted
  <2> QED
    BY <1>1, <2>1, <2>2, HashtableInsertAdds
<1>4. CASE alg = "TOAGG"
  <2>1. s = TimelineInsert(t, r)
    BY <1>4 DEF Inserted
  <2> QED
    BY <1>1, <2>1, TimelineInsertAdds
<1>5. CASE alg = "TO"
  <2>1. s = Append(t, Single(r))
    BY <1>5 DEF Inserted
  <2> HIDE DEF t
  <2>2. Proper(Append(t, Single(r)))
        /\ Members(Append(t, Single(r))) = Members(t) \cup ToSet(Single(r).reqs)
    BY <1>1, <1>2, ProperAppend
  <2> QED
    BY <1>2, <2>1, <2>2 DEF t
<1>6. CASE alg = "SW"
  <2>1. PICK i \in 1..(Len(t) + 1) : s = InsertAt(t, i, Single(r))
    BY <1>6 DEF Inserted
  <2> HIDE DEF t
  <2>2. Proper(InsertAt(t, i, Single(r)))
        /\ Members(InsertAt(t, i, Single(r))) = Members(t) \cup ToSet(Single(r).reqs)
    BY <1>1, <1>2, ProperInsert
  <2> QED
    BY <1>2, <2>1, <2>2 DEF t
<1> QED
  BY <1>3, <1>4, <1>5, <1>6 DEF Inserted

LEMMA AddIInv == ASSUME IInv, NEW r \in Requests, Add(r) PROVE IInv'
<1>1. ~Queued(r) /\ ~InDispatch(r) /\ fate[r] = "new"
  BY DEF Add, MayAdd, IInv, Accounted
<1>2. PICK s \in Inserted(list[ListOf(r)], r) :
        list' = [list EXCEPT ![ListOf(r)] = s]
  BY DEF Add
<1>3. /\ alg' = alg /\ dispatch' = dispatch
      /\ fate' = [fate EXCEPT ![r] = "accepted"]
      /\ size' = [size EXCEPT ![QueueOf[r]] = @ + Length[r]]
  BY DEF Add
<1>4. Proper(s) /\ Members(s) = Members(list[ListOf(r)]) \cup {r}
  BY <1>1, InsertedAdds
<1>5. Typed /\ ListsProper /\ DispatchProper /\ Accounted /\ SizesAgree
  BY DEF IInv
<1>6. /\ list' \in [Lists -> Seq(Entries)] /\ ListsProper'
      /\ \A x \in Requests : Queued(x)' <=> Queued(x) \/ x = r
  BY <1>2, <1>3, <1>4, <1>5, ListAdds
<1>7. size' \in [Queues -> Int] /\ SizesAgree'
  BY <1>1, <1>3, <1>5, <1>6, SizeAdds
<1>8. Typed'
  BY <1>3, <1>5, <1>6, <1>7 DEF Typed
<1>9. DispatchProper'
  BY <1>3, <1>5 DEF DispatchProper
<1>10. Accounted'
  <2>1. \A x \in Requests : InDispatch(x)' <=> InDispatch(x)
    BY <1>3 DEF InDispatch
  <2>2. \A x \in Requests : fate'[x] = IF x = r THEN "accepted" ELSE fate[x]
    BY <1>3, <1>5 DEF Typed
  <2> QED
    BY <1>1, <1>5, <1>6, <2>1, <2>2 DEF Accounted
<1> QED
  BY <1>6, <1>7, <1>8, <1>9, <1>10 DEF IInv

(* A step that leaves the scheduler and the lists as they are.              *)
LEMMA SameLists ==
  ASSUME IInv, alg' = alg, list' = list, size' = size
  PROVE  /\ ListsProper' /\ SizesAgree'
         /\ \A x \in Requests : Queued(x)' <=> Queued(x)
<1>1. \A x : ListOf(x)' = ListOf(x)
  BY DEF ListOf
<1>2. ListsProper'
  BY <1>1 DEF IInv, ListsProper, Proper, Members
<1>3. \A x \in Requests : Queued(x)' <=> Queued(x)
  BY <1>1 DEF Queued, Members
<1>4. SizesAgree'
  BY <1>3 DEF IInv, SizesAgree, QueuedOf, Bytes
<1> QED
  BY <1>2, <1>3, <1>4

(* A step that replaces one dispatch list.                                  *)
LEMMA DispatchStep ==
  ASSUME Typed, DispatchProper, NEW q \in Queues, NEW t \in Seq(Requests),
         IsInjective(t), \A x \in ToSet(t) : QueueOf[x] = q,
         dispatch' = [dispatch EXCEPT ![q] = t]
  PROVE  /\ dispatch' \in [Queues -> Seq(Requests)] /\ DispatchProper'
         /\ \A x \in Requests :
              InDispatch(x)' <=> IF QueueOf[x] = q THEN x \in ToSet(t) ELSE InDispatch(x)
<1>1. dispatch' \in [Queues -> Seq(Requests)] /\ dispatch'[q] = t
      /\ \A p \in Queues : p # q => dispatch'[p] = dispatch[p]
  BY DEF Typed
<1>2. DispatchProper'
  <2>1. ASSUME NEW p \in Queues
        PROVE  IsInjective(dispatch'[p]) /\ \A x \in ToSet(dispatch'[p]) : QueueOf[x] = p
    <3>1. CASE p = q
      BY <1>1, <3>1
    <3>2. CASE p # q
      BY <1>1, <3>2 DEF DispatchProper
    <3> QED
      BY <3>1, <3>2
  <2> QED
    BY <2>1 DEF DispatchProper, IsInjective, ToSet
<1>3. ASSUME NEW x \in Requests
      PROVE  InDispatch(x)' <=> IF QueueOf[x] = q THEN x \in ToSet(t) ELSE InDispatch(x)
  <2>1. InDispatch(x)' <=> x \in ToSet(dispatch'[QueueOf[x]])
    BY DEF InDispatch, ToSet
  <2>2. QueueOf[x] \in Queues
    BY ListOfRequest
  <2> QED
    BY <1>1, <2>1, <2>2 DEF InDispatch
<1> QED
  BY <1>1, <1>2, <1>3

LEMMA AddNoopIInv ==
  ASSUME IInv, NEW r \in Requests, AddNoop(r)
  PROVE  IInv' /\ \A x \in Requests : InDispatch(x)' <=> InDispatch(x) \/ x = r
<1> DEFINE q == QueueOf[r]
           t == Append(dispatch[q], r)
<1>1. ~Queued(r) /\ ~InDispatch(r) /\ fate[r] = "new"
  BY DEF AddNoop, MayAdd, IInv, Accounted
<1>2. /\ alg' = alg /\ list' = list /\ size' = size
      /\ dispatch' = [dispatch EXCEPT ![q] = t]
      /\ fate' = [fate EXCEPT ![r] = "accepted"]
  BY DEF AddNoop
<1>3. /\ ListsProper' /\ SizesAgree'
      /\ \A x \in Requests : Queued(x)' <=> Queued(x)
  BY <1>2, SameLists
<1>4. Typed /\ DispatchProper /\ Accounted /\ q \in Queues
  BY ListOfRequest DEF IInv
<1>5. dispatch[q] \in Seq(Requests) /\ IsInjective(dispatch[q])
      /\ \A x \in ToSet(dispatch[q]) : QueueOf[x] = q
  BY <1>4 DEF Typed, DispatchProper
<1>6. t \in Seq(Requests) /\ IsInjective(t) /\ ToSet(t) = ToSet(dispatch[q]) \cup {r}
  <2>1. r \notin ToSet(dispatch[q])
    BY <1>1 DEF InDispatch
  <2>2. IsInjective(t)
    BY <1>5, <2>1, DistinctAppend
  <2>3. ToSet(t) = ToSet(dispatch[q]) \cup {r}
    BY <1>5, Appended
  <2> QED
    BY <1>5, <2>2, <2>3, AppendProperties
<1>7. \A x \in ToSet(t) : QueueOf[x] = q
  BY <1>5, <1>6
<1> HIDE DEF t
<1>8. /\ dispatch' \in [Queues -> Seq(Requests)] /\ DispatchProper'
      /\ \A x \in Requests :
           InDispatch(x)' <=> IF QueueOf[x] = q THEN x \in ToSet(t) ELSE InDispatch(x)
  BY <1>2, <1>4, <1>6, <1>7, DispatchStep
<1>9. Typed'
  BY <1>2, <1>4, <1>8 DEF Typed
<1>10. \A x \in Requests : InDispatch(x)' <=> InDispatch(x) \/ x = r
  BY <1>6, <1>8 DEF InDispatch
<1>11. Accounted'
  <2>1. \A x \in Requests : fate'[x] = IF x = r THEN "accepted" ELSE fate[x]
    BY <1>2, <1>4 DEF Typed
  <2> QED
    BY <1>1, <1>3, <1>4, <1>10, <2>1 DEF Accounted
<1> QED
  BY <1>3, <1>8, <1>9, <1>10, <1>11 DEF IInv

(* Which request a cancel finds, and which one a release.                   *)
LEMMA CancelFound ==
  ASSUME IInv, NEW r \in Requests, FindEntry(list[ListOf(r)], r) # 0
  PROVE  LET s == list[ListOf(r)]
             i == FindEntry(s, r)
             x == MatchIn(s[i].reqs, r)
         IN  /\ x \in Requests /\ Queued(x) /\ x \in Members(s)
             /\ Proper(Without(s, i, x))
             /\ Members(Without(s, i, x)) = Members(s) \ {x}
<1> DEFINE s == list[ListOf(r)]
           i == FindEntry(s, r)
           x == MatchIn(s[i].reqs, r)
<1>1. ListOf(r) \in Lists /\ Proper(s)
  BY ListOfRequest DEF IInv, ListsProper
<1>2. \A y \in Members(s) : y \in Requests /\ ListOf(y) = ListOf(r)
  BY <1>1, ProperMembers DEF IInv, ListsProper
<1>3. i \in 1..Len(s) /\ HasMatch(s[i], r)
  <2> HIDE DEF s
  <2> QED
    BY <1>1, FoundEntry DEF s
<1> HIDE DEF s, i
<1>4. s[i] \in Entries /\ ToSet(s[i].reqs) \subseteq Members(s)
  BY <1>1, <1>3, EntryOfList
<1>5. s[i].reqs \in Seq(Requests)
  BY <1>4, MembersOfEntry
<1>6. x \in ToSet(s[i].reqs)
  BY <1>3, <1>5, FoundMatch DEF HasMatch
<1> HIDE DEF x
<1>7. /\ Proper(Without(s, i, x))
      /\ Members(Without(s, i, x)) = Members(s) \ {x}
  BY <1>1, <1>3, <1>6, WithoutRemoves
<1>8. x \in Members(s) /\ x \in Requests /\ ListOf(x) = ListOf(r)
  BY <1>2, <1>4, <1>6
<1>9. Queued(x)
  BY <1>8 DEF Queued, s
<1> QED
  BY <1>7, <1>8, <1>9 DEF s, i, x

LEMMA CancelIInv == ASSUME IInv, NEW r \in Requests, Cancel(r) PROVE IInv'
<1> DEFINE l == ListOf(r)
           s == list[l]
           i == FindEntry(s, r)
           x == MatchIn(s[i].reqs, r)
           t == Without(s, i, x)
<1>1. alg' = alg /\ dispatch' = dispatch
  BY DEF Cancel
<1>2. Typed /\ ListsProper /\ DispatchProper /\ Accounted /\ SizesAgree /\ l \in Lists
  BY ListOfRequest DEF IInv
<1>3. \A y \in Requests : InDispatch(y)' <=> InDispatch(y)
  BY <1>1 DEF InDispatch
<1>4. DispatchProper'
  BY <1>1, <1>2 DEF DispatchProper
<1>5. CASE i = 0
  <2>1. list' = list /\ size' = size /\ fate' = fate
    BY <1>5 DEF Cancel
  <2>2. /\ ListsProper' /\ SizesAgree'
        /\ \A y \in Requests : Queued(y)' <=> Queued(y)
    BY <1>1, <2>1, SameLists
  <2>3. Typed'
    BY <1>1, <1>2, <2>1 DEF Typed
  <2>4. Accounted'
    BY <1>2, <1>3, <2>1, <2>2 DEF Accounted
  <2> QED
    BY <1>4, <2>2, <2>3, <2>4 DEF IInv
<1>6. CASE i # 0
  <2>1. /\ list' = [list EXCEPT ![l] = t]
        /\ size' = [size EXCEPT ![QueueOf[x]] = @ - Length[x]]
        /\ fate' = [fate EXCEPT ![x] = "cancelled"]
    BY <1>6 DEF Cancel
  <2>2. /\ x \in Requests /\ Queued(x) /\ x \in Members(s)
        /\ Proper(t) /\ Members(t) = Members(s) \ {x}
    BY <1>6, CancelFound
  <2> DEFINE q == QueueOf[x]
  <2> HIDE DEF t, x, i
  <2>3. /\ list' \in [Lists -> Seq(Entries)] /\ ListsProper'
        /\ \A y \in Requests : Queued(y)' <=> Queued(y) /\ y \notin {x}
    <3> DEFINE G == {x}
    <3>1. Members(t) = Members(s) \ G /\ G \subseteq Members(s)
      BY <2>2
    <3> HIDE DEF G
    <3>2. /\ list' \in [Lists -> Seq(Entries)] /\ ListsProper'
          /\ \A y \in Requests : Queued(y)' <=> Queued(y) /\ y \notin G
      BY <1>1, <1>2, <2>1, <2>2, <3>1, ListLoses
    <3> QED
      BY <3>2 DEF G
  <2>4. q \in Queues /\ x \in QueuedOf(q) /\ QueuedOf(q) \subseteq Requests
    BY <2>2, ListOfRequest DEF QueuedOf
  <2>5. size[q] - Length[x] = Cardinality(Bytes(QueuedOf(q) \ {x}))
    <3>1. Cardinality(Bytes(QueuedOf(q) \ {x}))
            = Cardinality(Bytes(QueuedOf(q))) - Length[x]
      BY <2>4, BytesRemove
    <3> QED
      BY <1>2, <2>4, <3>1 DEF SizesAgree
  <2>6. size' = [size EXCEPT ![q] = Cardinality(Bytes(QueuedOf(q) \ {x}))]
    BY <2>1, <2>5
  <2>7. size' \in [Queues -> Int] /\ SizesAgree'
    <3> HIDE DEF q
    <3> QED
      BY <1>2, <2>3, <2>4, <2>6, SizeLoses
  <2>8. Typed'
    BY <1>1, <1>2, <2>1, <2>2, <2>3, <2>7 DEF Typed
  <2>9. Accounted'
    <3>1. \A y \in Requests : fate'[y] = IF y = x THEN "cancelled" ELSE fate[y]
      BY <1>2, <2>1 DEF Typed
    <3> QED
      BY <1>2, <1>3, <2>2, <2>3, <3>1 DEF Accounted
  <2> QED
    BY <1>4, <2>3, <2>7, <2>8, <2>9 DEF IInv
<1> QED
  BY <1>5, <1>6

LEMMA DispatchedEntry ==
  ASSUME IInv, NEW l \in Lists, NEW i \in DOMAIN list[l]
  PROVE  LET e == list[l][i]
             q == QueueOfEntry(e)
         IN  /\ i \in 1..Len(list[l]) /\ Proper(list[l]) /\ q \in Queues
             /\ e.reqs \in Seq(Requests) /\ IsInjective(e.reqs)
             /\ ToSet(e.reqs) # {} /\ Len(e.reqs) <= MaxAggregSize
             /\ ToSet(e.reqs) \subseteq QueuedOf(q)
             /\ ToSet(e.reqs) \subseteq Members(list[l])
<1> DEFINE s == list[l]
           e == s[i]
           q == QueueOfEntry(e)
<1>1. Proper(s) /\ s \in Seq(Entries)
      /\ \A r \in Members(s) : r \in Requests /\ Queued(r)
  <2>1. Proper(s) /\ \A r \in Members(s) : ListOf(r) = l
    BY DEF IInv, ListsProper
  <2>2. s \in Seq(Entries) /\ Members(s) \subseteq Requests
    BY <2>1, ProperMembers
  <2> QED
    BY <2>1, <2>2 DEF Queued
<1>2. i \in 1..Len(s)
  BY <1>1, LenProperties
<1> HIDE DEF s
<1>3. /\ e \in Entries /\ IsInjective(e.reqs) /\ Fits(e)
      /\ ToSet(e.reqs) \subseteq Members(s)
  BY <1>1, <1>2, EntryOfList
<1> HIDE DEF e
<1>4. /\ e.reqs \in Seq(Requests) /\ Head(e.reqs) \in ToSet(e.reqs)
      /\ Len(e.reqs) <= MaxAggregSize
  BY <1>3, MembersOfEntry DEF Fits
<1>5. \A x \in ToSet(e.reqs) : QueueOf[x] = q
  BY <1>3, <1>4 DEF Fits, QueueOfEntry
<1>6. q \in Queues
  BY <1>1, <1>3, <1>4, ListOfRequest DEF QueueOfEntry
<1>7. ToSet(e.reqs) \subseteq QueuedOf(q)
  <2> HIDE DEF q
  <2> QED
    BY <1>1, <1>3, <1>5 DEF QueuedOf
<1> QED
  BY <1>1, <1>2, <1>3, <1>4, <1>6, <1>7 DEF s, e

LEMMA DispatchIInv ==
  ASSUME IInv, NEW l \in Lists, NEW i \in DOMAIN list[l], Dispatch(l, i)
  PROVE  /\ IInv'
         /\ \A x \in Requests :
              IF x \in ToSet(list[l][i].reqs) THEN InDispatch(x)'
              ELSE InDispatch(x)' <=> InDispatch(x)
<1> DEFINE s == list[l]
           e == s[i]
           q == QueueOfEntry(e)
           G == ToSet(e.reqs)
           t == RemoveAt(s, i)
           d == dispatch[q] \o e.reqs
<1>1. /\ i \in 1..Len(s) /\ Proper(s) /\ q \in Queues
      /\ e.reqs \in Seq(Requests) /\ IsInjective(e.reqs)
      /\ G \subseteq QueuedOf(q) /\ G \subseteq Members(s)
  BY DispatchedEntry
<1>2. /\ alg' = alg /\ fate' = fate
      /\ list' = [list EXCEPT ![l] = t]
      /\ dispatch' = [dispatch EXCEPT ![q] = d]
      /\ size' = [size EXCEPT ![q] =
                    ForEach(LAMBDA n, x : n - Length[x], size[q], e.reqs)]
  BY DEF Dispatch
<1>3. Typed /\ ListsProper /\ DispatchProper /\ Accounted /\ SizesAgree
  BY DEF IInv
<1>4. Proper(t) /\ Members(t) = Members(s) \ G
  BY <1>1, ProperRemove
<1>5. \A x \in G : x \in Requests /\ Queued(x) /\ QueueOf[x] = q
  BY <1>1 DEF QueuedOf
<1> HIDE DEF t, G, e, q
<1>6. /\ list' \in [Lists -> Seq(Entries)] /\ ListsProper'
      /\ \A x \in Requests : Queued(x)' <=> Queued(x) /\ x \notin G
  BY <1>1, <1>2, <1>3, <1>4, ListLoses
<1>7. ForEach(LAMBDA n, x : n - Length[x], size[q], e.reqs)
        = Cardinality(Bytes(QueuedOf(q) \ G))
  <2>1. size[q] = Cardinality(Bytes(QueuedOf(q)))
    BY <1>1, <1>3 DEF SizesAgree
  <2>2. QueuedOf(q) \subseteq Requests
    BY DEF QueuedOf
  <2> QED
    BY <1>1, <2>1, <2>2, BytesLoop DEF G
<1>8. size' \in [Queues -> Int] /\ SizesAgree'
  <2>1. size' = [size EXCEPT ![q] = Cardinality(Bytes(QueuedOf(q) \ G))]
    BY <1>2, <1>7
  <2> QED
    BY <1>1, <1>3, <1>6, <2>1, SizeLoses
<1>9. /\ dispatch[q] \in Seq(Requests) /\ IsInjective(dispatch[q])
      /\ \A x \in ToSet(dispatch[q]) : x \in Requests /\ QueueOf[x] = q
  <2>1. dispatch[q] \in Seq(Requests)
    BY <1>1, <1>3 DEF Typed
  <2>2. ToSet(dispatch[q]) \subseteq Requests
    BY <2>1, LenProperties DEF ToSet
  <2> QED
    BY <1>1, <1>3, <2>1, <2>2 DEF DispatchProper
<1>10. ToSet(dispatch[q]) \cap G = {}
  BY <1>3, <1>5, <1>9 DEF Accounted, InDispatch
<1>11. d \in Seq(Requests) /\ IsInjective(d) /\ ToSet(d) = ToSet(dispatch[q]) \cup G
  <2>1. IsInjective(d)
    BY <1>1, <1>9, <1>10, DistinctConcatenation DEF G
  <2>2. ToSet(d) = ToSet(dispatch[q]) \cup G
    BY <1>1, <1>9, Concatenation DEF G
  <2> QED
    BY <1>1, <1>9, <2>1, <2>2, ConcatProperties
<1>12. \A x \in ToSet(d) : QueueOf[x] = q
  BY <1>5, <1>9, <1>11
<1> HIDE DEF d
<1>13. /\ dispatch' \in [Queues -> Seq(Requests)] /\ DispatchProper'
       /\ \A x \in Requests :
            InDispatch(x)' <=> IF QueueOf[x] = q THEN x \in ToSet(d) ELSE InDispatch(x)
  BY <1>1, <1>2, <1>3, <1>11, <1>12, DispatchStep
<1>14. \A x \in Requests : InDispatch(x)' <=> InDispatch(x) \/ x \in G
  BY <1>5, <1>11, <1>13 DEF InDispatch
<1>15. Typed'
  BY <1>2, <1>3, <1>6, <1>8, <1>13 DEF Typed
<1>16. Accounted'
  BY <1>2, <1>3, <1>5, <1>6, <1>14 DEF Accounted
<1>17. IInv'
  BY <1>6, <1>8, <1>13, <1>15, <1>16 DEF IInv
<1> QED
  BY <1>14, <1>17 DEF G, e

(* The request that a release frees.                                        *)
LEMMA ReleaseFound ==
  ASSUME IInv, NEW r \in Requests, InDispatch(r)
  PROVE  LET q == QueueOf[r]
             x == MatchIn(dispatch[q], r)
             t == RemoveFirst(dispatch[q], x)
         IN  /\ x \in Requests /\ InDispatch(x) /\ QueueOf[x] = q /\ q \in Queues
             /\ t \in Seq(Requests) /\ IsInjective(t)
             /\ ToSet(t) = ToSet(dispatch[q]) \ {x}
<1> DEFINE q == QueueOf[r]
           d == dispatch[q]
           x == MatchIn(d, r)
           t == RemoveFirst(d, x)
<1>1. q \in Queues
  BY ListOfRequest
<1>2. d \in Seq(Requests) /\ IsInjective(d) /\ \A y \in ToSet(d) : QueueOf[y] = q
  BY <1>1 DEF IInv, Typed, DispatchProper
<1>3. ToSet(d) \subseteq Requests /\ r \in ToSet(d)
  BY <1>2, LenProperties DEF ToSet, InDispatch
<1> HIDE DEF d
<1>4. x \in ToSet(d)
  <2>1. SameExtent(r, r)
    BY DEF SameExtent
  <2> QED
    BY <1>2, <1>3, <2>1, FoundMatch
<1> HIDE DEF x
<1>5. PICK i \in 1..Len(d) : d[i] = x /\ t = RemoveAt(d, i)
  BY <1>2, <1>4, FirstRemoval
<1>6. RemoveAt(d, i) \in Seq(Requests)
  BY <1>2, Removal
<1>7. IsInjective(RemoveAt(d, i)) /\ ToSet(RemoveAt(d, i)) = ToSet(d) \ {d[i]}
  BY <1>2, DistinctRemoval
<1>8. x \in Requests /\ QueueOf[x] = q /\ InDispatch(x)
  BY <1>2, <1>3, <1>4 DEF InDispatch, d
<1> QED
  BY <1>1, <1>5, <1>6, <1>7, <1>8 DEF d, x

LEMMA ReleaseIInv ==
  ASSUME IInv, NEW r \in Requests, Release(r)
  PROVE  /\ IInv'
         /\ \A y \in Requests :
              InDispatch(y)' <=> InDispatch(y) /\ y # MatchIn(dispatch[QueueOf[r]], r)
<1> DEFINE q == QueueOf[r]
           x == MatchIn(dispatch[q], r)
           t == RemoveFirst(dispatch[q], x)
<1>1. /\ alg' = alg /\ list' = list /\ size' = size
      /\ dispatch' = [dispatch EXCEPT ![q] = t]
      /\ fate' = [fate EXCEPT ![x] = "released"]
  BY DEF Release
<1>2. /\ x \in Requests /\ InDispatch(x) /\ QueueOf[x] = q /\ q \in Queues
      /\ t \in Seq(Requests) /\ IsInjective(t)
      /\ ToSet(t) = ToSet(dispatch[q]) \ {x}
  BY ReleaseFound DEF Release
<1>3. Typed /\ DispatchProper /\ Accounted
  BY DEF IInv
<1>4. /\ ListsProper' /\ SizesAgree'
      /\ \A y \in Requests : Queued(y)' <=> Queued(y)
  BY <1>1, SameLists
<1> HIDE DEF t, x, q
<1>5. \A y \in ToSet(t) : QueueOf[y] = q
  BY <1>2, <1>3 DEF DispatchProper
<1>6. /\ dispatch' \in [Queues -> Seq(Requests)] /\ DispatchProper'
      /\ \A y \in Requests :
           InDispatch(y)' <=> IF QueueOf[y] = q THEN y \in ToSet(t) ELSE InDispatch(y)
  BY <1>1, <1>2, <1>3, <1>5, DispatchStep
<1>7. \A y \in Requests : InDispatch(y)' <=> InDispatch(y) /\ y # x
  BY <1>2, <1>6 DEF InDispatch
<1>8. Typed'
  BY <1>1, <1>3, <1>6 DEF Typed
<1>9. Accounted'
  <2>1. \A y \in Requests : fate'[y] = IF y = x THEN "released" ELSE fate[y]
    BY <1>1, <1>3 DEF Typed
  <2> QED
    BY <1>2, <1>3, <1>4, <1>7, <2>1 DEF Accounted
<1>10. IInv'
  BY <1>4, <1>6, <1>8, <1>9 DEF IInv
<1> QED
  BY <1>7, <1>10 DEF x, q

-----------------------------------------------------------------------------
(* What the loops of the migrations gather and where they put it.           *)
LEMMA NoMembers ==
  ASSUME NEW s, Proper(s), Members(s) = {} PROVE s = <<>>
<1>1. s \in Seq(Entries) /\ Len(s) \in Nat
  BY LenProperties DEF Proper
<1>2. ASSUME Len(s) # 0 PROVE FALSE
  <2>1. 1 \in 1..Len(s)
    BY <1>1, <1>2
  <2>2. s[1] \in Entries /\ ToSet(s[1].reqs) \subseteq Members(s)
    BY <2>1, EntryOfList
  <2>3. Head(s[1].reqs) \in ToSet(s[1].reqs)
    BY <2>2, MembersOfEntry
  <2> QED
    BY <2>2, <2>3
<1> QED
  BY <1>1, <1>2, EmptySeq

LEMMA PartsOf ==
  ASSUME NEW s, Proper(s)
  PROVE  /\ Parts(s) \in Seq(Requests) /\ IsInjective(Parts(s))
         /\ ToSet(Parts(s)) = Members(s)
<1> DEFINE n == Len(s)
           Of(E) == UNION {ToSet(e.reqs) : e \in E}
<1>1. s \in Seq(Entries) /\ IsInjective(s) /\ n \in Nat /\ n \in 0..n
      /\ \A d, e \in ToSet(s) : d # e => ToSet(d.reqs) \cap ToSet(e.reqs) = {}
  <2>1. s \in Seq(Entries)
    BY DEF Proper
  <2>2. n \in Nat /\ n \in 0..n
    BY <2>1, LenProperties
  <2> QED
    BY <2>1, <2>2 DEF Proper, Sound
<1>2. PICK h \in [0..n -> Seq(Requests)] :
        /\ h[0] = <<>>
        /\ \A k \in 1..n : h[k] = h[k - 1] \o s[k].reqs
        /\ Parts(s) = h[n]
  BY <1>1, PartsLoop
<1> DEFINE P == {k \in 0..n : IsInjective(h[k]) /\ ToSet(h[k]) = Of(Upto(s, k))}
<1>3. 0 \in P
  <2>1. IsInjective(h[0]) /\ ToSet(h[0]) = {}
    BY <1>2 DEF IsInjective, ToSet
  <2>2. Upto(s, 0) = {}
    BY <1>1, UptoSteps
  <2> QED
    BY <1>1, <2>1, <2>2
<1>4. ASSUME NEW k \in 1..n, k - 1 \in P PROVE k \in P
  <2>1. /\ Upto(s, k) = Upto(s, k - 1) \cup {s[k]}
        /\ s[k] \in ToSet(s) /\ s[k] \notin Upto(s, k - 1)
        /\ Upto(s, k - 1) \subseteq ToSet(s)
    BY <1>1, UptoSteps, UptoDistinct
  <2>2. k - 1 \in 0..n /\ k \in 0..n
    BY <1>1
  <2> DEFINE a == h[k - 1]
             b == s[k].reqs
  <2>3. a \in Seq(Requests) /\ IsInjective(a) /\ ToSet(a) = Of(Upto(s, k - 1))
    BY <1>4, <2>2
  <2>4. b \in Seq(Requests) /\ IsInjective(b)
    <3>1. s[k] \in Entries /\ IsInjective(s[k].reqs)
      BY EntryOfList
    <3> QED
      BY <3>1, MembersOfEntry
  <2>5. \A e \in Upto(s, k - 1) : ToSet(e.reqs) \cap ToSet(b) = {}
    BY <1>1, <2>1
  <2>6. ToSet(a) \cap ToSet(b) = {}
    BY <2>3, <2>5
  <2>7. h[k] = a \o b
    BY <1>2
  <2>8. Of(Upto(s, k)) = Of(Upto(s, k - 1)) \cup ToSet(b)
    BY <2>1
  <2> HIDE DEF a, b, Of
  <2>9. IsInjective(a \o b)
    BY <2>3, <2>4, <2>6, DistinctConcatenation
  <2>10. ToSet(a \o b) = ToSet(a) \cup ToSet(b)
    BY <2>3, <2>4, Concatenation
  <2> QED
    BY <2>2, <2>3, <2>7, <2>8, <2>9, <2>10
<1>5. n \in P
  <2> HIDE DEF P, n
  <2> QED
    BY <1>1, <1>3, <1>4, Interval
<1>6. Upto(s, n) = ToSet(s)
  BY <1>1, UptoSteps
<1> QED
  BY <1>1, <1>2, <1>5, <1>6, PartsType DEF Members

LEMMA AllPartsOf ==
  ASSUME IInv, NeedsHashtable(alg)
  PROVE  /\ AllParts \in Seq(Requests) /\ IsInjective(AllParts)
         /\ ToSet(AllParts) = {r \in Requests : Queued(r)}
<1> DEFINE n == Len(QueueOrder)
           Of(Q) == UNION {Members(list[q]) : q \in Q}
<1>1. QueueOrder \in Seq(Queues) /\ IsInjective(QueueOrder)
      /\ ToSet(QueueOrder) = Queues /\ n \in Nat /\ n \in 0..n
  BY StoreAssumption, LenProperties
<1>2. \A q \in Queues : Proper(list[q]) /\ \A r \in Members(list[q]) : QueueOf[r] = q
  BY DEF IInv, ListsProper, Lists, ListOf
<1>3. PICK h \in [0..n -> Seq(Requests)] :
        /\ h[0] = <<>>
        /\ \A k \in 1..n : h[k] = h[k - 1] \o Parts(list[QueueOrder[k]])
        /\ AllParts = h[n]
  BY IInvMeans, AllPartsLoop
<1> DEFINE P == {k \in 0..n :
                   IsInjective(h[k]) /\ ToSet(h[k]) = Of(Upto(QueueOrder, k))}
<1>4. 0 \in P
  <2>1. IsInjective(h[0]) /\ ToSet(h[0]) = {}
    BY <1>3 DEF IsInjective, ToSet
  <2>2. Upto(QueueOrder, 0) = {}
    BY <1>1, UptoSteps
  <2> QED
    BY <1>1, <2>1, <2>2
<1>5. ASSUME NEW k \in 1..n, k - 1 \in P PROVE k \in P
  <2> DEFINE q == QueueOrder[k]
             a == h[k - 1]
             b == Parts(list[q])
  <2>1. /\ Upto(QueueOrder, k) = Upto(QueueOrder, k - 1) \cup {q}
        /\ q \in Queues /\ q \notin Upto(QueueOrder, k - 1)
        /\ Upto(QueueOrder, k - 1) \subseteq Queues
    BY <1>1, UptoSteps, UptoDistinct
  <2>2. k - 1 \in 0..n /\ k \in 0..n
    BY <1>1
  <2>3. a \in Seq(Requests) /\ IsInjective(a) /\ ToSet(a) = Of(Upto(QueueOrder, k - 1))
    BY <1>5, <2>2
  <2>4. b \in Seq(Requests) /\ IsInjective(b) /\ ToSet(b) = Members(list[q])
    BY <1>2, <2>1, PartsOf
  <2>5. ToSet(a) \cap ToSet(b) = {}
    <3>1. \A p \in Upto(QueueOrder, k - 1) : \A r \in Members(list[p]) : QueueOf[r] # q
      BY <1>2, <2>1
    <3>2. \A r \in Members(list[q]) : QueueOf[r] = q
      BY <1>2, <2>1
    <3> QED
      BY <2>3, <2>4, <3>1, <3>2
  <2>6. h[k] = a \o b
    BY <1>3
  <2>7. Of(Upto(QueueOrder, k)) = Of(Upto(QueueOrder, k - 1)) \cup ToSet(b)
    BY <2>1, <2>4
  <2> HIDE DEF a, b, Of, q
  <2>8. IsInjective(a \o b)
    BY <2>3, <2>4, <2>5, DistinctConcatenation
  <2>9. ToSet(a \o b) = ToSet(a) \cup ToSet(b)
    BY <2>3, <2>4, Concatenation
  <2> QED
    BY <2>2, <2>3, <2>6, <2>7, <2>8, <2>9
<1>6. n \in P
  <2> HIDE DEF P, n
  <2> QED
    BY <1>1, <1>4, <1>5, Interval
<1>7. Upto(QueueOrder, n) = Queues
  BY <1>1, UptoSteps
<1>8. IsInjective(AllParts) /\ ToSet(AllParts) = Of(Queues)
  BY <1>3, <1>6, <1>7
<1>9. Of(Queues) = {r \in Requests : Queued(r)}
  <2>1. ASSUME NEW q \in Queues, NEW r \in Members(list[q])
        PROVE  r \in Requests /\ Queued(r)
    BY <1>2, ProperMembers DEF Queued, ListOf
  <2>2. ASSUME NEW r \in Requests, Queued(r) PROVE r \in Of(Queues)
    BY <2>2, ListOfRequest DEF Queued, ListOf
  <2> QED
    BY <2>1, <2>2
<1> QED
  BY <1>1, <1>3, <1>8, <1>9

LEMMA TimeInserts ==
  ASSUME NEW s, Proper(s), NEW rs \in Seq(Requests), IsInjective(rs),
         ToSet(rs) \cap Members(s) = {}
  PROVE  /\ Proper(ForEach(TimeInsert, s, rs))
         /\ Members(ForEach(TimeInsert, s, rs)) = Members(s) \cup ToSet(rs)
<1> DEFINE n == Len(rs)
<1>1. s \in Seq(Entries) /\ n \in Nat /\ n \in 0..n /\ \A k \in 1..n : rs[k] \in Requests
  BY LenProperties DEF Proper
<1>2. PICK h \in [0..n -> Seq(Entries)] :
        /\ h[0] = s
        /\ \A k \in 1..n : h[k] = TimeInsert(h[k - 1], rs[k])
        /\ ForEach(TimeInsert, s, rs) = h[n]
  BY <1>1, TimeInsertLoop
<1> DEFINE P == {k \in 0..n : Proper(h[k]) /\ Members(h[k]) = Members(s) \cup Upto(rs, k)}
<1>3. 0 \in P
  <2>1. Upto(rs, 0) = {}
    BY UptoSteps
  <2> QED
    BY <1>1, <1>2, <2>1
<1>4. ASSUME NEW k \in 1..n, k - 1 \in P PROVE k \in P
  <2>1. /\ Upto(rs, k) = Upto(rs, k - 1) \cup {rs[k]}
        /\ rs[k] \in ToSet(rs) /\ rs[k] \notin Upto(rs, k - 1)
    BY UptoSteps, UptoDistinct
  <2>2. k \in 0..n
    BY <1>1
  <2>3. Proper(h[k - 1]) /\ Members(h[k - 1]) = Members(s) \cup Upto(rs, k - 1)
    BY <1>4
  <2>4. rs[k] \in Requests /\ rs[k] \notin Members(h[k - 1])
    BY <1>1, <2>1, <2>3
  <2>5. /\ Proper(TimeInsert(h[k - 1], rs[k]))
        /\ Members(TimeInsert(h[k - 1], rs[k])) = Members(h[k - 1]) \cup {rs[k]}
    BY <2>3, <2>4, TimeInsertAdds
  <2> QED
    BY <1>2, <2>1, <2>2, <2>3, <2>5
<1>5. n \in P
  <2> HIDE DEF P, n
  <2> QED
    BY <1>1, <1>3, <1>4, Interval
<1>6. Upto(rs, n) = ToSet(rs)
  BY UptoSteps
<1> QED
  BY <1>2, <1>5, <1>6

LEMMA Singles ==
  ASSUME NEW rs \in Seq(Requests), IsInjective(rs)
  PROVE  LET s == [i \in DOMAIN rs |-> Single(rs[i])]
         IN  Proper(s) /\ Members(s) = ToSet(rs)
<1> DEFINE n == Len(rs)
           s == [i \in DOMAIN rs |-> Single(rs[i])]
<1>1. n \in Nat /\ DOMAIN rs = 1..n /\ \A i \in 1..n : rs[i] \in Requests
  BY LenProperties
<1>2. ASSUME NEW i \in 1..n
      PROVE  /\ Single(rs[i]) \in Entries /\ IsInjective(Single(rs[i]).reqs)
             /\ Fits(Single(rs[i])) /\ ToSet(Single(rs[i]).reqs) = {rs[i]}
  BY <1>1, SingleFits
<1>3. s \in Seq(Entries) /\ DOMAIN s = 1..n /\ \A i \in 1..n : s[i] = Single(rs[i])
  <2>1. s = [i \in 1..n |-> Single(rs[i])]
    BY <1>1
  <2>2. s \in [1..n -> Entries]
    BY <1>2, <2>1
  <2> QED
    BY <1>1, <2>1, <2>2, SeqDef
<1>4. ToSet(s) = {s[i] : i \in 1..n} /\ ToSet(rs) = {rs[i] : i \in 1..n}
  BY <1>1, <1>3 DEF ToSet
<1> HIDE DEF s
<1>5. \A i, j \in 1..n : i # j => ToSet(s[i].reqs) \cap ToSet(s[j].reqs) = {}
  <2>1. \A i, j \in 1..n : i # j => rs[i] # rs[j]
    BY <1>1 DEF IsInjective
  <2> QED
    BY <1>2, <1>3, <2>1
<1>6. IsInjective(s)
  <2>1. ASSUME NEW i \in 1..n, NEW j \in 1..n, s[i] = s[j] PROVE i = j
    <3>1. ToSet(s[i].reqs) = {rs[i]} /\ ToSet(s[j].reqs) = {rs[j]}
      BY <1>2, <1>3
    <3>2. rs[i] = rs[j]
      BY <2>1, <3>1
    <3> QED
      BY <1>1, <3>2 DEF IsInjective
  <2> QED
    BY <1>3, <2>1 DEF IsInjective
<1>7. Sound(ToSet(s))
  <2>1. ToSet(s) \subseteq Entries
    BY <1>2, <1>3, <1>4
  <2>2. \A e \in ToSet(s) : IsInjective(e.reqs) /\ Fits(e)
    BY <1>2, <1>3, <1>4
  <2>3. \A d, e \in ToSet(s) : d # e => ToSet(d.reqs) \cap ToSet(e.reqs) = {}
    BY <1>4, <1>5
  <2> QED
    BY <2>1, <2>2, <2>3 DEF Sound
<1>8. Members(s) = ToSet(rs)
  <2>1. \A i \in 1..n : ToSet(s[i].reqs) = {rs[i]}
    BY <1>2, <1>3
  <2>2. ASSUME NEW r \in Members(s) PROVE r \in ToSet(rs)
    <3>1. PICK e \in ToSet(s) : r \in ToSet(e.reqs)
      BY <2>2 DEF Members
    <3>2. PICK i \in 1..n : e = s[i]
      BY <1>4
    <3> QED
      BY <1>4, <2>1, <3>1, <3>2
  <2>3. ASSUME NEW r \in ToSet(rs) PROVE r \in Members(s)
    <3>1. PICK i \in 1..n : r = rs[i]
      BY <1>4
    <3>2. s[i] \in ToSet(s) /\ r \in ToSet(s[i].reqs)
      BY <1>4, <2>1, <3>1
    <3> QED
      BY <3>2 DEF Members
  <2> QED
    BY <2>2, <2>3
<1>9. Proper(s)
  BY <1>3, <1>6, <1>7 DEF Proper
<1> QED
  BY <1>8, <1>9 DEF s

OfQueue(R, q) == {r \in R : QueueOf[r] = q}
Rehashed(ls, R) ==
  \A q \in Queues : Proper(ls[q]) /\ Members(ls[q]) = OfQueue(R, q)

LEMMA RehashSteps ==
  ASSUME NEW rs \in Seq(Requests), IsInjective(rs),
         NEW h \in [0..Len(rs) -> [Lists -> Seq(Entries)]],
         \A q \in Queues : h[0][q] = <<>>,
         \A k \in 1..Len(rs) : h[k] = Rehash(h[k - 1], rs[k])
  PROVE  \A k \in 0..Len(rs) : Rehashed(h[k], Upto(rs, k))
<1> DEFINE n == Len(rs)
<1>1. n \in Nat /\ n \in 0..n /\ \A k \in 1..n : rs[k] \in Requests
  BY LenProperties
<1> DEFINE P == {k \in 0..n : Rehashed(h[k], Upto(rs, k))}
<1>2. 0 \in P
  <2>1. Upto(rs, 0) = {}
    BY UptoSteps
  <2>2. Proper(<<>>) /\ Members(<<>>) = {}
    <3>1. <<>> \in Seq(Entries) /\ IsInjective(<<>>) /\ ToSet(<<>>) = {}
      BY DEF IsInjective, ToSet
    <3> QED
      BY <3>1 DEF Proper, Sound, Members
  <2>3. Rehashed(h[0], Upto(rs, 0))
    BY <2>1, <2>2 DEF Rehashed, OfQueue
  <2> QED
    BY <1>1, <2>3
<1>3. ASSUME NEW k \in 1..n, k - 1 \in P PROVE k \in P
  <2> DEFINE r == rs[k]
             a == h[k - 1]
             q == QueueOf[r]
  <2>1. /\ Upto(rs, k) = Upto(rs, k - 1) \cup {r}
        /\ r \notin Upto(rs, k - 1)
    BY UptoSteps, UptoDistinct
  <2>2. k \in 0..n /\ k - 1 \in 0..n /\ r \in Requests
    BY <1>1
  <2>3. q \in Queues /\ q \in Lists /\ a \in [Lists -> Seq(Entries)]
    <3>1. a \in [Lists -> Seq(Entries)]
      BY <2>2
    <3> QED
      BY <2>2, <3>1, ListOfRequest DEF Lists
  <2>4. \A p \in Queues : Proper(a[p]) /\ Members(a[p]) = OfQueue(Upto(rs, k - 1), p)
    BY <1>3 DEF Rehashed
  <2>5. /\ Proper(a[q]) /\ r \notin Members(a[q])
        /\ \A x \in Members(a[q]) : QueueOf[x] = QueueOf[r]
    BY <2>1, <2>3, <2>4 DEF OfQueue
  <2>6. h[k] = [a EXCEPT ![q] = HashtableInsert(a[q], r)]
    <3>1. h[k] = Rehash(a, r)
      OBVIOUS
    <3> QED
      BY <3>1 DEF Rehash
  <2>7. ASSUME NEW p \in Queues
        PROVE  Proper(h[k][p]) /\ Members(h[k][p]) = OfQueue(Upto(rs, k), p)
    <3>1. CASE p = q
      <4>1. h[k][p] = HashtableInsert(a[q], r)
        BY <2>3, <2>6, <3>1
      <4>2. /\ Proper(HashtableInsert(a[q], r))
            /\ Members(HashtableInsert(a[q], r)) = Members(a[q]) \cup {r}
        BY <2>2, <2>5, HashtableInsertAdds
      <4>3. OfQueue(Upto(rs, k), p) = OfQueue(Upto(rs, k - 1), p) \cup {r}
        BY <2>1, <3>1 DEF OfQueue
      <4> QED
        BY <2>3, <2>4, <3>1, <4>1, <4>2, <4>3
    <3>2. CASE p # q
      <4>1. h[k][p] = a[p]
        BY <2>3, <2>6, <3>2 DEF Lists
      <4>2. OfQueue(Upto(rs, k), p) = OfQueue(Upto(rs, k - 1), p)
        BY <2>1, <3>2 DEF OfQueue
      <4> QED
        BY <2>4, <4>1, <4>2
    <3> QED
      BY <3>1, <3>2
  <2>8. Rehashed(h[k], Upto(rs, k))
    BY <2>7 DEF Rehashed
  <2> QED
    BY <2>2, <2>8
<1>4. \A k \in 0..n : k \in P
  <2> HIDE DEF P, n
  <2> QED
    BY <1>1, <1>2, <1>3, Interval
<1> QED
  BY <1>4

LEMMA Rehashes ==
  ASSUME NEW ls \in [Lists -> Seq(Entries)], \A q \in Queues : ls[q] = <<>>,
         NEW rs \in Seq(Requests), IsInjective(rs)
  PROVE  /\ ForEach(Rehash, ls, rs) \in [Lists -> Seq(Entries)]
         /\ Rehashed(ForEach(Rehash, ls, rs), ToSet(rs))
<1> DEFINE n == Len(rs)
<1>1. n \in Nat /\ n \in 0..n
  BY LenProperties
<1>2. PICK h \in [0..n -> [Lists -> Seq(Entries)]] :
        /\ h[0] = ls
        /\ \A k \in 1..n : h[k] = Rehash(h[k - 1], rs[k])
        /\ ForEach(Rehash, ls, rs) = h[n]
  BY RehashLoop
<1>3. Rehashed(h[n], Upto(rs, n))
  BY <1>1, <1>2, RehashSteps
<1>4. Upto(rs, n) = ToSet(rs)
  BY UptoSteps
<1>5. h[n] \in [Lists -> Seq(Entries)]
  BY <1>1
<1> QED
  BY <1>2, <1>3, <1>4, <1>5

-----------------------------------------------------------------------------
(* The migrations.                                                          *)
LEMMA OtherListsEmpty ==
  ASSUME IInv, NEW l \in Lists, NeedsHashtable(alg) <=> l = Timeline
  PROVE  list[l] = <<>>
<1>1. Proper(list[l]) /\ Members(list[l]) \subseteq Requests
      /\ \A r \in Members(list[l]) : ListOf(r) = l
  <2>1. Proper(list[l]) /\ \A r \in Members(list[l]) : ListOf(r) = l
    BY DEF IInv, ListsProper
  <2> QED
    BY <2>1, ProperMembers
<1>2. \A r \in Requests : ListOf(r) # l
  BY ListOfRequest, StoreAssumption DEF ListOf, Lists
<1>3. Members(list[l]) = {}
  BY <1>1, <1>2
<1> QED
  BY <1>1, <1>3, NoMembers

LEMMA NothingProper ==
  Proper(<<>>) /\ Members(<<>>) = {} /\ <<>> \in Seq(Entries)
<1>1. <<>> \in Seq(Entries) /\ IsInjective(<<>>) /\ ToSet(<<>>) = {}
  BY DEF IsInjective, ToSet
<1> QED
  BY <1>1 DEF Proper, Sound, Members

LEMMA ToTimelineMoves ==
  ASSUME IInv, NeedsHashtable(alg), NEW a
  PROVE  /\ ToTimeline(a) \in [Lists -> Seq(Entries)]
         /\ \A l \in Lists : l # Timeline => ToTimeline(a)[l] = <<>>
         /\ Proper(ToTimeline(a)[Timeline])
         /\ Members(ToTimeline(a)[Timeline]) = {r \in Requests : Queued(r)}
<1>1. AllParts \in Seq(Requests) /\ IsInjective(AllParts)
      /\ ToSet(AllParts) = {r \in Requests : Queued(r)}
  BY AllPartsOf
<1>2. Timeline \in Lists /\ list[Timeline] = <<>>
  BY OtherListsEmpty DEF Lists
<1> DEFINE s == IF a = "NOOP" THEN [i \in DOMAIN AllParts |-> Single(AllParts[i])]
                ELSE ForEach(TimeInsert, list[Timeline], AllParts)
<1>3. Proper(s) /\ Members(s) = ToSet(AllParts)
  <2>1. CASE a = "NOOP"
    <3> DEFINE t == [i \in DOMAIN AllParts |-> Single(AllParts[i])]
    <3>1. Proper(t) /\ Members(t) = ToSet(AllParts)
      BY <1>1, Singles
    <3>2. s = t
      BY <2>1
    <3> HIDE DEF s, t
    <3> QED
      BY <3>1, <3>2
  <2>2. CASE a # "NOOP"
    <3> DEFINE t == ForEach(TimeInsert, <<>>, AllParts)
    <3>1. Proper(t) /\ Members(t) = {} \cup ToSet(AllParts)
      BY <1>1, NothingProper, TimeInserts
    <3>2. s = t
      BY <1>2, <2>2
    <3> HIDE DEF s, t
    <3> QED
      BY <3>1, <3>2
  <2> QED
    BY <2>1, <2>2
<1>4. ToTimeline(a) = [l \in Lists |-> IF l # Timeline THEN <<>> ELSE s]
  BY DEF ToTimeline
<1> HIDE DEF s
<1>5. s \in Seq(Entries)
  BY <1>3, ProperMembers
<1> QED
  BY <1>1, <1>2, <1>3, <1>4, <1>5, NothingProper

LEMMA ToHashtableMoves ==
  ASSUME IInv, ~NeedsHashtable(alg)
  PROVE  /\ ToHashtable \in [Lists -> Seq(Entries)]
         /\ ToHashtable[Timeline] = <<>>
         /\ \A q \in Queues :
              /\ Proper(ToHashtable[q])
              /\ Members(ToHashtable[q]) = {r \in Requests : QueueOf[r] = q /\ Queued(r)}
<1> DEFINE rs == Parts(list[Timeline])
           ls == ForEach(Rehash, list, rs)
<1>1. list \in [Lists -> Seq(Entries)] /\ Timeline \in Lists
      /\ \A q \in Queues : q \in Lists /\ q # Timeline
  BY StoreAssumption DEF IInv, Typed, Lists
<1>2. \A q \in Queues : list[q] = <<>>
  BY <1>1, OtherListsEmpty
<1>3. Proper(list[Timeline]) /\ Members(list[Timeline]) \subseteq Requests
  <2>1. Proper(list[Timeline])
    BY <1>1 DEF IInv, ListsProper
  <2> QED
    BY <2>1, ProperMembers
<1>4. rs \in Seq(Requests) /\ IsInjective(rs) /\ ToSet(rs) = Members(list[Timeline])
  BY <1>3, PartsOf
<1>5. ToSet(rs) = {r \in Requests : Queued(r)}
  BY <1>3, <1>4 DEF Queued, ListOf
<1> HIDE DEF rs
<1>6. ls \in [Lists -> Seq(Entries)] /\ Rehashed(ls, ToSet(rs))
  BY <1>1, <1>2, <1>4, Rehashes
<1>7. ToHashtable = [ls EXCEPT ![Timeline] = <<>>]
  BY DEF ToHashtable, rs
<1> HIDE DEF ls
<1>8. /\ ToHashtable \in [Lists -> Seq(Entries)] /\ ToHashtable[Timeline] = <<>>
      /\ \A q \in Queues : ToHashtable[q] = ls[q]
  BY <1>1, <1>6, <1>7, NothingProper
<1>9. \A q \in Queues :
        OfQueue(ToSet(rs), q) = {r \in Requests : QueueOf[r] = q /\ Queued(r)}
  BY <1>5 DEF OfQueue
<1> QED
  BY <1>6, <1>8, <1>9 DEF Rehashed

LEMMA ChangeIInv ==
  ASSUME IInv, NEW a \in Selectable, ChangeScheduler(a)
  PROVE  IInv'
<1>1. /\ alg' = a /\ a # alg
      /\ list' = IF NeedsHashtable(alg) THEN ToTimeline(a)
                 ELSE IF NeedsHashtable(a) THEN ToHashtable ELSE list
      /\ dispatch' = dispatch /\ size' = size /\ fate' = fate
  BY DEF ChangeScheduler
<1>2. Typed /\ ListsProper /\ DispatchProper /\ Accounted /\ SizesAgree
  BY DEF IInv
<1>3. NeedsHashtable(alg) => ~NeedsHashtable(a)
  BY <1>1 DEF NeedsHashtable
<1>4. \A r : ListOf(r)' = IF NeedsHashtable(a) THEN QueueOf[r] ELSE Timeline
  BY <1>1 DEF ListOf, NeedsHashtable
<1>5. Timeline \in Lists /\ \A l \in Lists : l # Timeline => l \in Queues
  BY DEF Lists
<1>6. \A r : Queued(r)' <=> r \in Members(list'[ListOf(r)'])
  BY DEF Queued, Members
<1>7. /\ list' \in [Lists -> Seq(Entries)]
      /\ \A l \in Lists : Proper(list'[l]) /\ \A r \in Members(list'[l]) : ListOf(r)' = l
      /\ \A r \in Requests : Queued(r)' <=> Queued(r)
  <2>1. CASE NeedsHashtable(alg)
    <3>1. list' = ToTimeline(a)
      BY <1>1, <2>1
    <3>2. /\ list' \in [Lists -> Seq(Entries)]
          /\ \A l \in Lists : l # Timeline => list'[l] = <<>>
          /\ Proper(list'[Timeline])
          /\ Members(list'[Timeline]) = {r \in Requests : Queued(r)}
      BY <2>1, <3>1, ToTimelineMoves
    <3>3. \A r : ListOf(r)' = Timeline
      BY <1>3, <1>4, <2>1
    <3>4. \A r \in Requests : Queued(r)' <=> Queued(r)
      BY <1>6, <3>2, <3>3
    <3>5. ASSUME NEW l \in Lists
          PROVE  Proper(list'[l]) /\ \A r \in Members(list'[l]) : ListOf(r)' = l
      <4>1. CASE l = Timeline
        BY <3>2, <3>3, <4>1
      <4>2. CASE l # Timeline
        BY <3>2, <4>2, NothingProper
      <4> QED
        BY <4>1, <4>2
    <3> QED
      BY <3>2, <3>4, <3>5
  <2>2. CASE ~NeedsHashtable(alg) /\ NeedsHashtable(a)
    <3>1. list' = ToHashtable
      BY <1>1, <2>2
    <3>2. /\ list' \in [Lists -> Seq(Entries)] /\ list'[Timeline] = <<>>
          /\ \A q \in Queues :
               /\ Proper(list'[q])
               /\ Members(list'[q]) = {r \in Requests : QueueOf[r] = q /\ Queued(r)}
      BY <2>2, <3>1, ToHashtableMoves
    <3>3. \A r : ListOf(r)' = QueueOf[r]
      BY <1>4, <2>2
    <3>4. \A r \in Requests : Queued(r)' <=> Queued(r)
      <4> TAKE r \in Requests
      <4>1. QueueOf[r] \in Queues
        BY ListOfRequest
      <4> QED
        BY <1>6, <3>2, <3>3, <4>1
    <3>5. ASSUME NEW l \in Lists
          PROVE  Proper(list'[l]) /\ \A r \in Members(list'[l]) : ListOf(r)' = l
      <4>1. CASE l = Timeline
        BY <3>2, <4>1, NothingProper
      <4>2. CASE l # Timeline
        BY <1>5, <3>2, <3>3, <4>2
      <4> QED
        BY <4>1, <4>2
    <3> QED
      BY <3>2, <3>4, <3>5
  <2>3. CASE ~NeedsHashtable(alg) /\ ~NeedsHashtable(a)
    <3>1. list' = list
      BY <1>1, <2>3
    <3>2. \A r : ListOf(r)' = ListOf(r)
      BY <1>4, <2>3 DEF ListOf
    <3>3. \A r \in Requests : Queued(r)' <=> Queued(r)
      BY <1>6, <3>1, <3>2 DEF Queued
    <3> QED
      BY <1>2, <3>1, <3>2, <3>3 DEF Typed, ListsProper
  <2> QED
    BY <2>1, <2>2, <2>3
<1>8. Typed'
  BY <1>1, <1>2, <1>7 DEF Typed
<1>9. ListsProper'
  BY <1>7 DEF ListsProper, Proper, Members
<1>10. DispatchProper' /\ \A r \in Requests : InDispatch(r)' <=> InDispatch(r)
  BY <1>1, <1>2 DEF DispatchProper, InDispatch
<1>11. Accounted'
  BY <1>1, <1>2, <1>7, <1>10 DEF Accounted
<1>12. SizesAgree'
  <2>1. \A q : QueuedOf(q)' = QueuedOf(q)
    BY <1>7 DEF QueuedOf
  <2> QED
    BY <1>1, <1>2, <2>1 DEF SizesAgree, Bytes
<1> QED
  BY <1>7, <1>8, <1>9, <1>10, <1>11, <1>12 DEF IInv

-----------------------------------------------------------------------------
LEMMA StutterIInv == ASSUME IInv, UNCHANGED vars PROVE IInv'
<1>1. /\ alg' = alg /\ list' = list /\ dispatch' = dispatch
      /\ size' = size /\ fate' = fate
  BY DEF vars
<1>2. /\ ListsProper' /\ SizesAgree'
      /\ \A x \in Requests : Queued(x)' <=> Queued(x)
  BY <1>1, SameLists
<1>3. Typed' /\ DispatchProper'
  BY <1>1 DEF IInv, Typed, DispatchProper
<1>4. Accounted'
  BY <1>1, <1>2 DEF IInv, Accounted, InDispatch
<1> QED
  BY <1>2, <1>3, <1>4 DEF IInv

LEMMA NextIInv == IInv /\ [Next]_vars => IInv'
<1> SUFFICES ASSUME IInv, [Next]_vars PROVE IInv'
  OBVIOUS
<1>1. ASSUME NEW r \in Requests, Add(r) PROVE IInv'
  BY <1>1, AddIInv
<1>2. ASSUME NEW r \in Requests, AddNoop(r) PROVE IInv'
  BY <1>2, AddNoopIInv
<1>3. ASSUME NEW r \in Requests, Cancel(r) PROVE IInv'
  BY <1>3, CancelIInv
<1>4. ASSUME NEW r \in Requests, Release(r) PROVE IInv'
  BY <1>4, ReleaseIInv
<1>5. ASSUME NEW l \in Lists, NEW i \in DOMAIN list[l], Dispatch(l, i) PROVE IInv'
  BY <1>5, DispatchIInv
<1>6. ASSUME NEW a \in Selectable, ChangeScheduler(a) PROVE IInv'
  BY <1>6, ChangeIInv
<1>7. CASE UNCHANGED vars
  BY <1>7, StutterIInv
<1>8. CASE Idle
  BY <1>7, <1>8 DEF Idle
<1> QED
  BY <1>1, <1>2, <1>3, <1>4, <1>5, <1>6, <1>7, <1>8 DEF Next

LEMMA AlwaysIInv == Spec => []IInv
BY InitIInv, NextIInv, PTL DEF Spec

(* The lists, the dispatch lists, the sizes and the fates have their types: *)
(* no size of a queue ever goes below zero.                                 *)
THEOREM TypeCorrect == Spec => []TypeOK
BY AlwaysIInv, IInvMeans, PTL

(* Whatever is added, aggregated, cancelled, dispatched, migrated and       *)
(* released, no request is lost or linked twice.                            *)
THEOREM RequestsConserved == Spec => []Conservation
BY AlwaysIInv, IInvMeans, PTL

(* The size of a queue is the data that is queued, also after aggregations, *)
(* cancels and migrations.                                                  *)
THEOREM SizesAreExact == Spec => []SizesAgree
BY AlwaysIInv, IInvMeans, PTL

(* No group is larger than the scheduler allows, and none mixes queues,     *)
(* also when two are joined.                                                *)
THEOREM EveryGroupFits == Spec => []GroupsFit
BY AlwaysIInv, IInvMeans, PTL

-----------------------------------------------------------------------------
(* The queues implement GroupStore, step by step.                           *)
LEMMA PlaceMeans ==
  ASSUME IInv, NEW r \in Requests
  PROVE  /\ fate[r] = "new" => placeOf[r] = "new"
         /\ Queued(r) => placeOf[r] = "queued"
         /\ InDispatch(r) => placeOf[r] = "dispatch"
BY DEF IInv, Accounted, placeOf

(* What becomes of the places when the fates and the dispatch lists change. *)
LEMMA MoveStep ==
  ASSUME NEW G, NEW p,
         \A x \in Requests \ G : fate'[x] = fate[x] /\ (InDispatch(x)' <=> InDispatch(x)),
         \A x \in G : p = IF fate'[x] # "accepted" THEN fate'[x]
                          ELSE IF InDispatch(x)' THEN "dispatch" ELSE "queued"
  PROVE  Groups!Move(G, p)
<1>1. placeOf' = [x \in Requests |-> IF fate'[x] # "accepted" THEN fate'[x]
                                    ELSE IF InDispatch(x)' THEN "dispatch" ELSE "queued"]
  BY DEF placeOf
<1>2. ASSUME NEW x \in Requests
      PROVE  (IF fate'[x] # "accepted" THEN fate'[x]
              ELSE IF InDispatch(x)' THEN "dispatch" ELSE "queued")
               = IF x \in G THEN p ELSE placeOf[x]
  BY DEF placeOf
<1> QED
  BY <1>1, <1>2 DEF Groups!Move

LEMMA PlacesStay ==
  ASSUME fate' = fate, \A x \in Requests : InDispatch(x)' <=> InDispatch(x)
  PROVE  placeOf' = placeOf
<1>1. placeOf' = [x \in Requests |-> IF fate'[x] # "accepted" THEN fate'[x]
                                    ELSE IF InDispatch(x)' THEN "dispatch" ELSE "queued"]
  BY DEF placeOf
<1> QED
  BY <1>1 DEF placeOf

LEMMA AddPuts == ASSUME IInv, NEW r \in Requests, Add(r) PROVE Groups!Put
<1>1. /\ fate[r] = "new" /\ dispatch' = dispatch
      /\ fate' = [fate EXCEPT ![r] = "accepted"]
  BY DEF Add, MayAdd
<1>2. \A x : InDispatch(x)' <=> InDispatch(x)
  BY <1>1 DEF InDispatch
<1>3. ~InDispatch(r)
  BY <1>1 DEF IInv, Accounted
<1>4. \A x \in Requests : fate'[x] = IF x = r THEN "accepted" ELSE fate[x]
  BY <1>1 DEF IInv, Typed
<1>5. Groups!Move({r}, "queued")
  BY <1>2, <1>3, <1>4, MoveStep
<1>6. r \in Groups!In("new")
  BY <1>1, PlaceMeans DEF Groups!In
<1> QED
  BY <1>5, <1>6 DEF Groups!Put

LEMMA AddNoopPasses == ASSUME IInv, NEW r \in Requests, AddNoop(r) PROVE Groups!Pass
<1>1. fate[r] = "new" /\ fate' = [fate EXCEPT ![r] = "accepted"]
  BY DEF AddNoop, MayAdd
<1>2. \A x \in Requests : InDispatch(x)' <=> InDispatch(x) \/ x = r
  BY AddNoopIInv
<1>3. \A x \in Requests : fate'[x] = IF x = r THEN "accepted" ELSE fate[x]
  BY <1>1 DEF IInv, Typed
<1>4. Groups!Move({r}, "dispatch")
  BY <1>2, <1>3, MoveStep
<1>5. r \in Groups!In("new")
  BY <1>1, PlaceMeans DEF Groups!In
<1> QED
  BY <1>4, <1>5 DEF Groups!Pass

LEMMA CancelDrops ==
  ASSUME IInv, NEW r \in Requests, Cancel(r) PROVE Groups!Drop \/ placeOf' = placeOf
<1> DEFINE s == list[ListOf(r)]
           i == FindEntry(s, r)
           x == MatchIn(s[i].reqs, r)
<1>1. dispatch' = dispatch
  BY DEF Cancel
<1>2. \A y : InDispatch(y)' <=> InDispatch(y)
  BY <1>1 DEF InDispatch
<1>3. CASE i = 0
  <2>1. fate' = fate
    BY <1>3 DEF Cancel
  <2> QED
    BY <1>2, <2>1, PlacesStay
<1>4. CASE i # 0
  <2>1. fate' = [fate EXCEPT ![x] = "cancelled"]
    BY <1>4 DEF Cancel
  <2>2. x \in Requests /\ Queued(x)
    BY <1>4, CancelFound
  <2> HIDE DEF x
  <2>3. \A y \in Requests : fate'[y] = IF y = x THEN "cancelled" ELSE fate[y]
    BY <2>1 DEF IInv, Typed
  <2>4. Groups!Move({x}, "cancelled")
    BY <1>2, <2>2, <2>3, MoveStep
  <2>5. x \in Groups!In("queued")
    BY <2>2, PlaceMeans DEF Groups!In
  <2> QED
    BY <2>4, <2>5 DEF Groups!Drop
<1> QED
  BY <1>3, <1>4

LEMMA DispatchTakes ==
  ASSUME IInv, NEW l \in Lists, NEW i \in DOMAIN list[l], Dispatch(l, i)
  PROVE  Groups!Take
<1> DEFINE e == list[l][i]
           q == QueueOfEntry(e)
           G == ToSet(e.reqs)
           n == Len(e.reqs)
<1>1. /\ q \in Queues /\ e.reqs \in Seq(Requests) /\ G # {}
      /\ n <= MaxAggregSize /\ G \subseteq QueuedOf(q)
  BY DispatchedEntry
<1>2. \A x \in Requests :
        IF x \in G THEN InDispatch(x)' ELSE InDispatch(x)' <=> InDispatch(x)
  BY DispatchIInv
<1>3. fate' = fate
  BY DEF Dispatch
<1> HIDE DEF e, q
<1>4. G \subseteq Requests /\ \A x \in G : Queued(x) /\ QueueOf[x] = q
  BY <1>1 DEF QueuedOf
<1>5. \A x \in G : fate[x] = "accepted"
  BY <1>4 DEF IInv, Accounted
<1>6. Groups!Move(G, "dispatch")
  <2> HIDE DEF G
  <2> QED
    BY <1>2, <1>3, <1>4, <1>5, MoveStep
<1>7. Cardinality(G) <= MaxAggregSize
  <2>1. n \in Nat /\ DOMAIN e.reqs = 1..n /\ e.reqs = [j \in 1..n |-> e.reqs[j]]
    BY <1>1, LenProperties
  <2>2. G = {e.reqs[j] : j \in 1..n}
    BY <2>1 DEF ToSet
  <2>3. e.reqs \in Surjection(1..n, G)
    <3> HIDE DEF n, G
    <3> QED
      BY <2>1, <2>2 DEF Surjection
  <2> HIDE DEF n, G
  <2>4. Cardinality(G) <= n
    BY <2>1, <2>3, FS_SurjCardinalityBound DEF ExistsSurjection
  <2>5. IsFiniteSet(G)
    BY <1>4, AggregationAssumption, FS_Subset
  <2>6. Cardinality(G) \in Nat
    BY <2>5, FS_CardinalityType
  <2>7. MaxAggregSize \in Nat
    BY AggregationAssumption
  <2> QED
    BY <1>1, <2>1, <2>4, <2>6, <2>7
<1>8. G \in SUBSET {r \in Groups!In("queued") : QueueOf[r] = q}
  BY <1>4, PlaceMeans DEF Groups!In
<1>9. Groups!Cardinality(G) = Cardinality(G)
  BY DEF Groups!Cardinality, Cardinality
<1> HIDE DEF G
<1> QED
  BY <1>1, <1>6, <1>7, <1>8, <1>9 DEF Groups!Take

LEMMA ReleaseFrees == ASSUME IInv, NEW r \in Requests, Release(r) PROVE Groups!Free
<1> DEFINE x == MatchIn(dispatch[QueueOf[r]], r)
<1>1. InDispatch(r) /\ fate' = [fate EXCEPT ![x] = "released"]
  BY DEF Release
<1>2. x \in Requests /\ InDispatch(x)
  BY <1>1, ReleaseFound
<1>3. \A y \in Requests : InDispatch(y)' <=> InDispatch(y) /\ y # x
  BY ReleaseIInv
<1> HIDE DEF x
<1>4. \A y \in Requests : fate'[y] = IF y = x THEN "released" ELSE fate[y]
  BY <1>1 DEF IInv, Typed
<1>5. Groups!Move({x}, "released")
  BY <1>2, <1>3, <1>4, MoveStep
<1>6. x \in Groups!In("dispatch")
  BY <1>2, PlaceMeans DEF Groups!In
<1> QED
  BY <1>5, <1>6 DEF Groups!Free

LEMMA NextIsGroupStep ==
  IInv /\ [Next]_vars =>
    [Groups!Put \/ Groups!Pass \/ Groups!Take \/ Groups!Drop \/ Groups!Free]_placeOf
<1> DEFINE Step == \/ Groups!Put \/ Groups!Pass \/ Groups!Take \/ Groups!Drop
                   \/ Groups!Free \/ placeOf' = placeOf
<1> SUFFICES ASSUME IInv, [Next]_vars PROVE Step
  OBVIOUS
<1>1. ASSUME NEW r \in Requests, Add(r) PROVE Step
  BY <1>1, AddPuts
<1>2. ASSUME NEW r \in Requests, AddNoop(r) PROVE Step
  BY <1>2, AddNoopPasses
<1>3. ASSUME NEW r \in Requests, Cancel(r) PROVE Step
  BY <1>3, CancelDrops
<1>4. ASSUME NEW r \in Requests, Release(r) PROVE Step
  BY <1>4, ReleaseFrees
<1>5. ASSUME NEW l \in Lists, NEW i \in DOMAIN list[l], Dispatch(l, i) PROVE Step
  BY <1>5, DispatchTakes
<1>6. ASSUME dispatch' = dispatch, fate' = fate PROVE Step
  <2>1. \A x \in Requests : InDispatch(x)' <=> InDispatch(x)
    BY <1>6 DEF InDispatch
  <2> QED
    BY <1>6, <2>1, PlacesStay
<1>7. ASSUME NEW a \in Selectable, ChangeScheduler(a) PROVE Step
  BY <1>6, <1>7 DEF ChangeScheduler
<1>8. CASE UNCHANGED vars
  BY <1>6, <1>8 DEF vars
<1>9. CASE Idle
  BY <1>8, <1>9 DEF Idle
<1> HIDE DEF Step
<1> QED
  BY <1>1, <1>2, <1>3, <1>4, <1>5, <1>7, <1>8, <1>9 DEF Next

(* The queues are a GroupStore: each request put in is taken out once, in a *)
(* group of its own queue that is not too large, or cancelled, and released *)
(* at most once; a migration between the structures is not to be seen.      *)
THEOREM QueuesImplementGroups == Spec => ImplementsGroups
<1>1. Init => Groups!GroupInit
  BY DEF Init, placeOf, Groups!GroupInit
<1> QED
  BY <1>1, AlwaysIInv, NextIsGroupStep, PTL DEF Spec, ImplementsGroups, Groups!GroupSpec

-----------------------------------------------------------------------------
(* The order in which a migration leaves the timeline.                      *)
Time(e) == Stamp[Head(e.reqs)]

LEMMA TimeOrderMeans ==
  ASSUME NEW s
  PROVE  InTimeOrder(s) <=>
           \A i, j \in 1..Len(s) : i < j => Time(s[i]) <= Time(s[j])
BY DEF InTimeOrder, IsSorted, Time

LEMMA TimeOfEntry ==
  ASSUME NEW e \in Entries PROVE Time(e) \in Nat
<1>1. Head(e.reqs) \in Requests
  BY MembersOfEntry
<1> QED
  BY <1>1, AggregationAssumption DEF Time

LEMMA TimeInsertOrder ==
  ASSUME NEW s \in Seq(Entries), NEW r \in Requests, InTimeOrder(s)
  PROVE  InTimeOrder(TimeInsert(s, r))
<1> DEFINE n == Len(s)
           e == Single(r)
<1>1. n \in Nat /\ \A j \in 1..n : s[j] \in Entries
  BY LenProperties
<1>2. \A j \in 1..n : Time(s[j]) \in Nat
  BY <1>1, TimeOfEntry
<1>3. \A i, j \in 1..n : i < j => Time(s[i]) <= Time(s[j])
  BY TimeOrderMeans
<1>4. e \in Entries /\ Time(e) = Stamp[r] /\ Stamp[r] \in Nat
  <2>1. e \in Entries
    BY SingleFits
  <2>2. Head(e.reqs) = r
    BY DEF Single
  <2> QED
    BY <2>1, <2>2, AggregationAssumption DEF Time
<1>5. CASE /\ \A j \in 1..n : ~(Time(s[j]) > Stamp[r])
           /\ TimeInsert(s, r) = Append(s, e)
  <2> DEFINE t == Append(s, e)
  <2>1. Len(t) = n + 1 /\ \A j \in 1..(n + 1) : t[j] = IF j <= n THEN s[j] ELSE e
    BY <1>1, <1>4, AppendProperties
  <2> HIDE DEF t, e, n
  <2>2. ASSUME NEW i \in 1..(n + 1), NEW j \in 1..(n + 1), i < j
        PROVE  Time(t[i]) <= Time(t[j])
    <3>1. i \in 1..n /\ t[i] = s[i]
      BY <1>1, <2>1, <2>2
    <3>2. CASE j <= n
      BY <1>1, <1>3, <2>1, <2>2, <3>1, <3>2
    <3>3. CASE ~(j <= n)
      <4>1. t[j] = e
        BY <2>1, <3>3
      <4>2. ~(Time(s[i]) > Stamp[r])
        BY <1>5, <3>1
      <4> QED
        BY <1>2, <1>4, <3>1, <4>1, <4>2
    <3> QED
      BY <3>2, <3>3
  <2>3. InTimeOrder(t)
    BY <2>1, <2>2, TimeOrderMeans
  <2> QED
    BY <1>5, <2>3 DEF t
<1>6. ASSUME NEW i \in 1..n, Time(s[i]) > Stamp[r],
             \A j \in 1..n : Time(s[j]) > Stamp[r] => i <= j,
             TimeInsert(s, r) = InsertAt(s, i, e)
      PROVE  InTimeOrder(TimeInsert(s, r))
  <2> DEFINE t == InsertAt(s, i, e)
  <2>1. /\ Len(t) = n + 1
        /\ \A j \in 1..(n + 1) :
             t[j] = IF j < i THEN s[j] ELSE IF j = i THEN e ELSE s[j - 1]
    <3>1. i \in 1..(n + 1)
      BY <1>1
    <3> QED
      BY <1>4, <3>1, Insertion
  <2> HIDE DEF t, e, n
  <2>2. \A j \in 1..n : j < i => Time(s[j]) <= Stamp[r]
    <3> TAKE j \in 1..n
    <3> HAVE j < i
    <3>1. ~(Time(s[j]) > Stamp[r])
      BY <1>1, <1>6
    <3> QED
      BY <1>2, <1>4, <3>1
  <2>3. \A j \in 1..n : i <= j => Stamp[r] <= Time(s[j])
    <3> TAKE j \in 1..n
    <3> HAVE i <= j
    <3>1. Time(s[i]) <= Time(s[j])
      <4>1. CASE i = j
        BY <1>2, <4>1
      <4>2. CASE i # j
        <5>1. i < j
          BY <1>1, <4>2
        <5> QED
          BY <1>3, <5>1
      <4> QED
        BY <4>1, <4>2
    <3> QED
      BY <1>2, <1>4, <1>6, <3>1
  <2>4. ASSUME NEW j \in 1..(n + 1), NEW k \in 1..(n + 1), j < k
        PROVE  Time(t[j]) <= Time(t[k])
    <3>1. CASE k < i
      <4>1. t[j] = s[j] /\ t[k] = s[k] /\ j \in 1..n /\ k \in 1..n
        BY <1>1, <2>1, <2>4, <3>1
      <4> QED
        BY <1>3, <2>4, <4>1
    <3>2. CASE k = i
      <4>1. t[j] = s[j] /\ t[k] = e /\ j \in 1..n /\ j < i
        BY <1>1, <2>1, <2>4, <3>2
      <4> QED
        BY <1>4, <2>2, <4>1
    <3>3. CASE k > i /\ j < i
      <4>1. t[j] = s[j] /\ t[k] = s[k - 1] /\ j \in 1..n /\ k - 1 \in 1..n /\ j < k - 1
        BY <1>1, <2>1, <2>4, <3>3
      <4> QED
        BY <1>3, <4>1
    <3>4. CASE k > i /\ j = i
      <4>1. t[j] = e /\ t[k] = s[k - 1] /\ k - 1 \in 1..n /\ i <= k - 1
        BY <1>1, <2>1, <2>4, <3>4
      <4> QED
        BY <1>4, <2>3, <4>1
    <3>5. CASE k > i /\ j > i
      <4>1. /\ t[j] = s[j - 1] /\ t[k] = s[k - 1] /\ j - 1 \in 1..n
            /\ k - 1 \in 1..n /\ j - 1 < k - 1
        BY <1>1, <2>1, <2>4, <3>5
      <4> QED
        BY <1>3, <4>1
    <3>6. k < i \/ k = i \/ (k > i /\ j < i) \/ (k > i /\ j = i) \/ (k > i /\ j > i)
      BY <1>1
    <3> QED
      BY <3>1, <3>2, <3>3, <3>4, <3>5, <3>6
  <2>5. InTimeOrder(t)
    BY <2>1, <2>4, TimeOrderMeans
  <2> QED
    BY <1>6, <2>5 DEF t
<1>7. \/ /\ \A j \in 1..n : ~(Time(s[j]) > Stamp[r])
         /\ TimeInsert(s, r) = Append(s, e)
      \/ \E i \in 1..n :
           /\ Time(s[i]) > Stamp[r]
           /\ \A j \in 1..n : Time(s[j]) > Stamp[r] => i <= j
           /\ TimeInsert(s, r) = InsertAt(s, i, e)
  BY TimePlace DEF Time
<1> QED
  BY <1>5, <1>6, <1>7

LEMMA TimeInsertsOrder ==
  ASSUME NEW rs \in Seq(Requests)
  PROVE  InTimeOrder(ForEach(TimeInsert, <<>>, rs))
<1> DEFINE n == Len(rs)
<1>1. /\ <<>> \in Seq(Entries) /\ n \in Nat /\ n \in 0..n
      /\ \A k \in 1..n : rs[k] \in Requests
  BY NothingProper, LenProperties
<1>2. PICK h \in [0..n -> Seq(Entries)] :
        /\ h[0] = <<>>
        /\ \A k \in 1..n : h[k] = TimeInsert(h[k - 1], rs[k])
        /\ ForEach(TimeInsert, <<>>, rs) = h[n]
  BY <1>1, TimeInsertLoop
<1> DEFINE P == {k \in 0..n : InTimeOrder(h[k])}
<1>3. 0 \in P
  <2>1. InTimeOrder(<<>>)
    BY TimeOrderMeans
  <2> QED
    BY <1>1, <1>2, <2>1
<1>4. ASSUME NEW k \in 1..n, k - 1 \in P PROVE k \in P
  <2>1. k \in 0..n /\ k - 1 \in 0..n /\ rs[k] \in Requests
    BY <1>1
  <2>2. h[k - 1] \in Seq(Entries) /\ InTimeOrder(h[k - 1])
    BY <1>4, <2>1
  <2>3. InTimeOrder(TimeInsert(h[k - 1], rs[k]))
    BY <2>1, <2>2, TimeInsertOrder
  <2> QED
    BY <1>2, <2>1, <2>3
<1>5. n \in P
  <2> HIDE DEF P, n
  <2> QED
    BY <1>1, <1>3, <1>4, Interval
<1> QED
  BY <1>2, <1>5

(* When the scheduler becomes TO, what was in the queues of the hashtable   *)
(* is in the timeline in the order in which it was requested.               *)
THEOREM MigrationOrdersByTime == Spec => TimeOrderAfterMigration
<1> DEFINE Ordered == NeedsHashtable(alg) /\ alg' = "TO" => InTimeOrder(list'[Timeline])
<1>1. ASSUME IInv, Next PROVE Ordered
  <2> SUFFICES ASSUME NeedsHashtable(alg), alg' = "TO" PROVE InTimeOrder(list'[Timeline])
    OBVIOUS
  <2>1. alg' # alg
    BY DEF NeedsHashtable
  <2>2. PICK a \in Selectable : ChangeScheduler(a)
    BY <1>1, <2>1 DEF Next, Add, AddNoop, Cancel, Release, Dispatch, Idle, vars
  <2>3. list' = ToTimeline("TO")
    BY <2>2 DEF ChangeScheduler
  <2>4. Timeline \in Lists /\ list[Timeline] = <<>>
    BY <1>1, OtherListsEmpty DEF Lists
  <2>5. list'[Timeline] = ForEach(TimeInsert, <<>>, AllParts)
    BY <2>3, <2>4 DEF ToTimeline
  <2>6. AllParts \in Seq(Requests)
    BY <1>1, AllPartsOf
  <2> QED
    BY <2>5, <2>6, TimeInsertsOrder
<1>2. IInv /\ [Next]_vars => [Ordered]_vars
  BY <1>1
<1> HIDE DEF Ordered
<1>3. Spec => [][Ordered]_vars
  BY <1>2, AlwaysIInv, PTL DEF Spec
<1> QED
  BY <1>3 DEF Ordered, TimeOrderAfterMigration
=============================================================================
