----------------------------- MODULE ListLemmas -----------------------------
(***************************************************************************)
(* Facts about sequences and loops over them that the proofs share.        *)
(***************************************************************************)
EXTENDS Lists, SequencesExt, SequenceTheorems, WellFoundedInduction, TLAPS

-----------------------------------------------------------------------------
(* A nonempty set of numbers has a least one.                               *)
LEMMA LeastNumber ==
  ASSUME NEW S, S \subseteq Nat, S # {}
  PROVE  Min(S) \in S /\ \A y \in S : Min(S) <= y
<1>1. PICK x \in S : \A y \in S : ~(<<y, x>> \in OpToRel(<, Nat))
  BY NatLessThanWellFounded, WFMin
<1>2. \A y \in S : x <= y
  <2> TAKE y \in S
  <2>1. <<y, x>> \notin OpToRel(<, Nat)
    BY <1>1
  <2>2. ~(y < x)
    BY <2>1 DEF OpToRel
  <2> QED
    BY <2>2
<1> QED
  BY <1>2 DEF Min

(* The sequences: what an insertion and a removal do to the elements, and   *)
(* where a list is cut.                                                     *)
LEMMA Insertion ==
  ASSUME NEW S, NEW s \in Seq(S), NEW i \in 1..(Len(s) + 1), NEW e \in S
  PROVE  /\ InsertAt(s, i, e) \in Seq(S)
         /\ Len(InsertAt(s, i, e)) = Len(s) + 1
         /\ \A j \in 1..(Len(s) + 1) : InsertAt(s, i, e)[j] =
              IF j < i THEN s[j] ELSE IF j = i THEN e ELSE s[j - 1]
         /\ ToSet(InsertAt(s, i, e)) = ToSet(s) \cup {e}
         /\ InsertAt(s, i, e) # <<>>
         /\ \/ Head(InsertAt(s, i, e)) = e
            \/ s # <<>> /\ Head(InsertAt(s, i, e)) = Head(s)
<1> DEFINE a == SubSeq(s, 1, i - 1)
           b == SubSeq(s, i, Len(s))
           t == InsertAt(s, i, e)
<1>1. /\ Len(s) \in Nat /\ DOMAIN s = 1..Len(s) /\ i \in Nat
      /\ \A j \in 1..Len(s) : s[j] \in S
  BY LenProperties
<1>2. /\ a \in Seq(S) /\ Len(a) = i - 1
      /\ \A j \in 1..(i - 1) : a[j] = s[j]
  <2>1. \A j \in 1..(i - 1) : s[j] \in S
    BY <1>1
  <2>2. /\ a \in Seq(S) /\ Len(a) = IF 1 <= i - 1 THEN (i - 1) - 1 + 1 ELSE 0
        /\ \A j \in 1..((i - 1) - 1 + 1) : a[j] = s[1 + j - 1]
    BY <1>1, <2>1, SubSeqProperties
  <2>3. (i - 1) - 1 + 1 = i - 1 /\ \A j \in 1..(i - 1) : 1 + j - 1 = j
    BY <1>1
  <2>4. Len(a) = i - 1
    BY <2>2, <2>3, <1>1
  <2> QED
    BY <2>2, <2>3, <2>4
<1>3. /\ b \in Seq(S) /\ Len(b) = Len(s) - i + 1
      /\ \A j \in 1..(Len(s) - i + 1) : b[j] = s[i + j - 1]
  <2>1. \A j \in i..Len(s) : s[j] \in S
    BY <1>1
  <2>2. /\ b \in Seq(S) /\ Len(b) = IF i <= Len(s) THEN Len(s) - i + 1 ELSE 0
        /\ \A j \in 1..(Len(s) - i + 1) : b[j] = s[i + j - 1]
    BY <1>1, <2>1, SubSeqProperties
  <2>3. Len(b) = Len(s) - i + 1
    BY <2>2, <1>1
  <2> QED
    BY <2>2, <2>3
<1>4. /\ <<e>> \in Seq(S) /\ Len(<<e>>) = 1 /\ <<e>>[1] = e
  OBVIOUS
<1>5. /\ a \o <<e>> \in Seq(S) /\ Len(a \o <<e>>) = i
      /\ \A j \in 1..i : (a \o <<e>>)[j] = IF j <= i - 1 THEN s[j] ELSE e
  <2> HIDE DEF a
  <2>1. /\ a \o <<e>> \in Seq(S) /\ Len(a \o <<e>>) = (i - 1) + 1
        /\ \A j \in 1..((i - 1) + 1) :
             (a \o <<e>>)[j] = IF j <= i - 1 THEN a[j] ELSE <<e>>[j - (i - 1)]
    BY <1>2, <1>4, ConcatProperties
  <2>2. (i - 1) + 1 = i
    BY <1>1
  <2>3. ASSUME NEW j \in 1..i
        PROVE  (a \o <<e>>)[j] = IF j <= i - 1 THEN s[j] ELSE e
    <3>1. CASE j <= i - 1
      <4>1. j \in 1..(i - 1)
        BY <3>1
      <4> QED
        BY <2>1, <2>2, <3>1, <4>1, <1>2
    <3>2. CASE ~(j <= i - 1)
      <4>1. j = i /\ j - (i - 1) = 1
        BY <3>2, <1>1
      <4> QED
        BY <2>1, <2>2, <3>2, <4>1, <1>4
    <3> QED
      BY <3>1, <3>2
  <2> QED
    BY <2>1, <2>2, <2>3
<1>6. /\ t \in Seq(S) /\ Len(t) = Len(s) + 1
      /\ \A j \in 1..(Len(s) + 1) :
           t[j] = IF j < i THEN s[j] ELSE IF j = i THEN e ELSE s[j - 1]
  <2>1. t = (a \o <<e>>) \o b
    BY DEF InsertAt
  <2>2. i + (Len(s) - i + 1) = Len(s) + 1
    BY <1>1
  <2> DEFINE c == a \o <<e>>
  <2> HIDE DEF a, b, c, t
  <2>3. /\ c \in Seq(S) /\ Len(c) = i
        /\ \A j \in 1..i : c[j] = IF j <= i - 1 THEN s[j] ELSE e
    BY <1>5 DEF c
  <2>4. /\ t \in Seq(S) /\ Len(t) = Len(s) + 1
        /\ \A j \in 1..(Len(s) + 1) : t[j] = IF j <= i THEN c[j] ELSE b[j - i]
    <3>1. t = c \o b
      BY <2>1 DEF c
    <3>2. /\ c \o b \in Seq(S) /\ Len(c \o b) = Len(c) + Len(b)
          /\ \A j \in 1..(Len(c) + Len(b)) :
               (c \o b)[j] = IF j <= Len(c) THEN c[j] ELSE b[j - Len(c)]
      BY <2>3, <1>3, ConcatProperties
    <3>3. Len(c) + Len(b) = Len(s) + 1
      BY <2>2, <2>3, <1>3
    <3> QED
      BY <3>1, <3>2, <3>3, <2>3
  <2>5. ASSUME NEW j \in 1..(Len(s) + 1)
        PROVE  t[j] = IF j < i THEN s[j] ELSE IF j = i THEN e ELSE s[j - 1]
    <3>1. CASE j < i
      <4>1. j \in 1..i /\ j <= i - 1 /\ j <= i
        BY <3>1, <1>1
      <4> QED
        BY <3>1, <4>1, <2>3, <2>4
    <3>2. CASE j = i
      <4>1. j \in 1..i /\ ~(j <= i - 1) /\ j <= i /\ ~(j < i)
        BY <3>2, <1>1
      <4> QED
        BY <3>2, <4>1, <2>3, <2>4
    <3>3. CASE j > i
      <4>1. j - i \in 1..(Len(s) - i + 1) /\ ~(j <= i) /\ ~(j < i) /\ j # i
        BY <3>3, <1>1
      <4>2. i + (j - i) - 1 = j - 1
        BY <1>1
      <4>3. b[j - i] = s[j - 1]
        BY <4>1, <4>2, <1>3
      <4> QED
        BY <4>1, <4>3, <2>4
    <3> QED
      BY <3>1, <3>2, <3>3, <1>1
  <2> QED
    BY <2>4, <2>5
<1> HIDE DEF a, b, t
<1>7. DOMAIN t = 1..(Len(s) + 1)
  BY <1>6, LenProperties
<1>8. ToSet(t) \subseteq ToSet(s) \cup {e}
  <2> SUFFICES ASSUME NEW j \in 1..(Len(s) + 1)
               PROVE  t[j] \in ToSet(s) \cup {e}
    BY <1>7 DEF ToSet
  <2>1. CASE j < i
    <3>1. j \in 1..Len(s)
      BY <2>1, <1>1
    <3> QED
      BY <2>1, <3>1, <1>6, <1>1 DEF ToSet
  <2>2. CASE j = i
    BY <2>2, <1>6, <1>1
  <2>3. CASE j > i
    <3>1. j - 1 \in 1..Len(s) /\ ~(j < i) /\ j # i
      BY <2>3, <1>1
    <3> QED
      BY <3>1, <1>6, <1>1 DEF ToSet
  <2> QED
    BY <2>1, <2>2, <2>3, <1>1
<1>9. e \in ToSet(t)
  <2>1. i \in 1..(Len(s) + 1) /\ ~(i < i)
    BY <1>1
  <2>2. t[i] = e
    BY <2>1, <1>6
  <2> QED
    BY <2>1, <2>2, <1>7 DEF ToSet
<1>10. ASSUME NEW j \in 1..Len(s) PROVE s[j] \in ToSet(t)
  <2>1. CASE j < i
    <3>1. j \in 1..(Len(s) + 1) /\ t[j] = s[j]
      BY <2>1, <1>1, <1>6
    <3> QED
      BY <3>1, <1>7 DEF ToSet
  <2>2. CASE j >= i
    <3>1. j + 1 \in 1..(Len(s) + 1) /\ ~(j + 1 < i) /\ j + 1 # i /\ (j + 1) - 1 = j
      BY <2>2, <1>1
    <3>2. t[j + 1] = s[j]
      BY <3>1, <1>6
    <3> QED
      BY <3>1, <3>2, <1>7 DEF ToSet
  <2> QED
    BY <2>1, <2>2, <1>1
<1>11. ToSet(t) = ToSet(s) \cup {e}
  <2>1. ToSet(s) \subseteq ToSet(t)
    BY <1>10, <1>1 DEF ToSet
  <2> QED
    BY <2>1, <1>8, <1>9
<1>12. t # <<>> /\ Head(t) = t[1]
  <2>1. Len(t) # 0
    BY <1>6, <1>1
  <2>2. Len(<<>>) = 0
    BY EmptySeq
  <2>3. t # <<>>
    BY <2>1, <2>2
  <2> QED
    BY <2>3, <1>6
<1>13. Head(t) = e \/ (s # <<>> /\ Head(t) = Head(s))
  <2>1. 1 \in 1..(Len(s) + 1)
    BY <1>1
  <2>2. CASE i = 1
    BY <2>1, <2>2, <1>6, <1>12
  <2>3. CASE i > 1
    <3>1. t[1] = s[1]
      BY <2>1, <2>3, <1>6
    <3>2. Len(s) # 0
      BY <2>3, <1>1
    <3>3. s # <<>>
      BY <3>2, EmptySeq
    <3> QED
      BY <3>1, <3>3, <1>12
  <2> QED
    BY <2>2, <2>3, <1>1
<1> QED
  BY <1>6, <1>11, <1>12, <1>13 DEF t

LEMMA Cut ==
  ASSUME NEW S, NEW s \in Seq(S), NEW n \in 1..Len(s), NEW m \in {n, n - 1}
  PROVE  /\ SubSeq(s, 1, m) \in Seq(S) /\ SubSeq(s, n + 1, Len(s)) \in Seq(S)
         /\ ToSet(SubSeq(s, 1, m)) = {s[j] : j \in 1..m}
         /\ ToSet(SubSeq(s, n + 1, Len(s))) = {s[j] : j \in (n + 1)..Len(s)}
<1> DEFINE a == SubSeq(s, 1, m)
           b == SubSeq(s, n + 1, Len(s))
<1>1. /\ Len(s) \in Nat /\ n \in Nat /\ m \in Nat /\ n <= Len(s) /\ m <= Len(s)
      /\ \A j \in 1..Len(s) : s[j] \in S
  BY LenProperties
<1>2. /\ a \in Seq(S) /\ Len(a) = m
      /\ \A j \in 1..m : a[j] = s[j]
  <2>1. \A j \in 1..m : s[j] \in S
    BY <1>1
  <2>2. /\ a \in Seq(S) /\ Len(a) = IF 1 <= m THEN m - 1 + 1 ELSE 0
        /\ \A j \in 1..(m - 1 + 1) : a[j] = s[1 + j - 1]
    BY <1>1, <2>1, SubSeqProperties
  <2>3. m - 1 + 1 = m /\ \A j \in 1..m : 1 + j - 1 = j
    BY <1>1
  <2>4. Len(a) = m
    BY <2>2, <2>3, <1>1
  <2> QED
    BY <2>2, <2>3, <2>4
<1>3. /\ b \in Seq(S) /\ Len(b) = Len(s) - n
      /\ \A j \in 1..(Len(s) - n) : b[j] = s[n + j]
  <2>1. \A j \in (n + 1)..Len(s) : s[j] \in S
    BY <1>1
  <2>2. /\ b \in Seq(S)
        /\ Len(b) = IF n + 1 <= Len(s) THEN Len(s) - (n + 1) + 1 ELSE 0
        /\ \A j \in 1..(Len(s) - (n + 1) + 1) : b[j] = s[(n + 1) + j - 1]
    BY <1>1, <2>1, SubSeqProperties
  <2>3. /\ Len(s) - (n + 1) + 1 = Len(s) - n
        /\ \A j \in 1..(Len(s) - n) : (n + 1) + j - 1 = n + j
    BY <1>1
  <2> HIDE DEF b
  <2>4. Len(b) = Len(s) - n
    <3>1. n + 1 <= Len(s) \/ (n = Len(s) /\ Len(s) - n = 0)
      BY <1>1
    <3>2. Len(b) = IF n + 1 <= Len(s) THEN Len(s) - n ELSE 0
      BY <2>2, <2>3
    <3> QED
      BY <1>1, <3>1, <3>2
  <2> QED
    BY <2>2, <2>3, <2>4
<1> HIDE DEF a, b
<1>4. DOMAIN a = 1..m /\ DOMAIN b = 1..(Len(s) - n)
  BY <1>2, <1>3, LenProperties
<1>5. ToSet(a) = {s[j] : j \in 1..m}
  BY <1>4, <1>2 DEF ToSet
<1>6. ToSet(b) = {s[j] : j \in (n + 1)..Len(s)}
  <2>1. ASSUME NEW j \in 1..(Len(s) - n)
        PROVE  n + j \in (n + 1)..Len(s) /\ b[j] = s[n + j]
    BY <1>1, <1>3
  <2>2. ASSUME NEW j \in (n + 1)..Len(s)
        PROVE  j - n \in 1..(Len(s) - n) /\ b[j - n] = s[j]
    <3>1. j - n \in 1..(Len(s) - n) /\ n + (j - n) = j
      BY <1>1
    <3> QED
      BY <3>1, <1>3
  <2> QED
    BY <2>1, <2>2, <1>4 DEF ToSet
<1> QED
  BY <1>2, <1>3, <1>5, <1>6 DEF a, b

LEMMA Concatenation ==
  ASSUME NEW S, NEW a \in Seq(S), NEW b \in Seq(S)
  PROVE  ToSet(a \o b) = ToSet(a) \cup ToSet(b)
<1>1. /\ Len(a) \in Nat /\ Len(b) \in Nat
      /\ DOMAIN a = 1..Len(a) /\ DOMAIN b = 1..Len(b)
  BY LenProperties
<1>2. /\ a \o b \in Seq(S) /\ Len(a \o b) = Len(a) + Len(b)
      /\ \A j \in 1..(Len(a) + Len(b)) :
           (a \o b)[j] = IF j <= Len(a) THEN a[j] ELSE b[j - Len(a)]
  BY ConcatProperties
<1>3. DOMAIN (a \o b) = 1..(Len(a) + Len(b))
  BY <1>2, LenProperties
<1>4. ASSUME NEW j \in 1..(Len(a) + Len(b))
      PROVE  (a \o b)[j] \in ToSet(a) \cup ToSet(b)
  <2>1. CASE j <= Len(a)
    <3>1. j \in 1..Len(a)
      BY <2>1, <1>1
    <3> QED
      BY <2>1, <3>1, <1>1, <1>2 DEF ToSet
  <2>2. CASE ~(j <= Len(a))
    <3>1. j - Len(a) \in 1..Len(b)
      BY <2>2, <1>1
    <3> QED
      BY <2>2, <3>1, <1>1, <1>2 DEF ToSet
  <2> QED
    BY <2>1, <2>2
<1>5. ASSUME NEW j \in 1..Len(a) PROVE a[j] \in ToSet(a \o b)
  <2>1. j \in 1..(Len(a) + Len(b)) /\ j <= Len(a)
    BY <1>1
  <2> QED
    BY <2>1, <1>2, <1>3 DEF ToSet
<1>6. ASSUME NEW j \in 1..Len(b) PROVE b[j] \in ToSet(a \o b)
  <2>1. /\ Len(a) + j \in 1..(Len(a) + Len(b)) /\ ~(Len(a) + j <= Len(a))
        /\ (Len(a) + j) - Len(a) = j
    BY <1>1
  <2>2. (a \o b)[Len(a) + j] = b[j]
    BY <2>1, <1>2
  <2> QED
    BY <2>1, <2>2, <1>3 DEF ToSet
<1>7. ToSet(a \o b) \subseteq ToSet(a) \cup ToSet(b)
  BY <1>3, <1>4 DEF ToSet
<1>8. ToSet(a) \subseteq ToSet(a \o b)
  BY <1>1, <1>5 DEF ToSet
<1>9. ToSet(b) \subseteq ToSet(a \o b)
  BY <1>1, <1>6 DEF ToSet
<1> QED
  BY <1>7, <1>8, <1>9

(* Without twice the same in either, and nothing in both, nothing is twice  *)
(* in the whole.                                                            *)
LEMMA DistinctConcatenation ==
  ASSUME NEW S, NEW a \in Seq(S), NEW b \in Seq(S), IsInjective(a),
         IsInjective(b), ToSet(a) \cap ToSet(b) = {}
  PROVE  IsInjective(a \o b)
<1>1. /\ Len(a) \in Nat /\ Len(b) \in Nat
      /\ DOMAIN a = 1..Len(a) /\ DOMAIN b = 1..Len(b)
  BY LenProperties
<1>2. /\ a \o b \in Seq(S) /\ Len(a \o b) = Len(a) + Len(b)
      /\ \A j \in 1..(Len(a) + Len(b)) :
           (a \o b)[j] = IF j <= Len(a) THEN a[j] ELSE b[j - Len(a)]
  BY ConcatProperties
<1>3. DOMAIN (a \o b) = 1..(Len(a) + Len(b))
  BY <1>2, LenProperties
<1>4. ASSUME NEW i \in 1..(Len(a) + Len(b)), NEW j \in 1..(Len(a) + Len(b)),
             (a \o b)[i] = (a \o b)[j], i <= Len(a), ~(j <= Len(a))
      PROVE  FALSE
  <2>1. i \in 1..Len(a) /\ j - Len(a) \in 1..Len(b)
    BY <1>1, <1>4
  <2>2. a[i] \in ToSet(a) /\ b[j - Len(a)] \in ToSet(b)
    BY <1>1, <2>1 DEF ToSet
  <2>3. a[i] = b[j - Len(a)]
    BY <1>2, <1>4
  <2> QED
    BY <2>2, <2>3
<1> SUFFICES ASSUME NEW i \in 1..(Len(a) + Len(b)), NEW j \in 1..(Len(a) + Len(b)),
                    (a \o b)[i] = (a \o b)[j]
             PROVE  i = j
  BY <1>3 DEF IsInjective
<1>5. CASE i <= Len(a) /\ j <= Len(a)
  <2>1. i \in 1..Len(a) /\ j \in 1..Len(a) /\ a[i] = a[j]
    BY <1>1, <1>2, <1>5
  <2> QED
    BY <1>1, <2>1 DEF IsInjective
<1>6. CASE ~(i <= Len(a)) /\ ~(j <= Len(a))
  <2>1. /\ i - Len(a) \in 1..Len(b) /\ j - Len(a) \in 1..Len(b)
        /\ b[i - Len(a)] = b[j - Len(a)]
    BY <1>1, <1>2, <1>6
  <2>2. i - Len(a) = j - Len(a)
    BY <1>1, <2>1 DEF IsInjective
  <2> QED
    BY <1>1, <2>2
<1> QED
  BY <1>4, <1>5, <1>6

LEMMA Removal ==
  ASSUME NEW S, NEW s \in Seq(S), NEW i \in 1..Len(s)
  PROVE  /\ RemoveAt(s, i) \in Seq(S) /\ Len(RemoveAt(s, i)) = Len(s) - 1
         /\ \A j \in 1..(Len(s) - 1) :
              RemoveAt(s, i)[j] = IF j < i THEN s[j] ELSE s[j + 1]
         /\ ToSet(RemoveAt(s, i)) = {s[j] : j \in (1..Len(s)) \ {i}}
         /\ ToSet(RemoveAt(s, i)) \subseteq ToSet(s)
         /\ ToSet(s) \subseteq ToSet(RemoveAt(s, i)) \cup {s[i]}
<1> DEFINE a == SubSeq(s, 1, i - 1)
           b == SubSeq(s, i + 1, Len(s))
           t == RemoveAt(s, i)
<1>0. Len(s) \in Nat /\ i \in Nat /\ 1 <= i /\ i <= Len(s)
  BY LenProperties
<1>1. /\ Len(s) \in Nat /\ i \in Nat /\ i <= Len(s) /\ 1 <= i
      /\ DOMAIN s = 1..Len(s) /\ \A j \in 1..Len(s) : s[j] \in S
  BY <1>0, LenProperties
<1>2. /\ a \in Seq(S) /\ Len(a) = i - 1
      /\ \A j \in 1..(i - 1) : a[j] = s[j]
  <2>1. \A j \in 1..(i - 1) : s[j] \in S
    BY <1>1
  <2>2. /\ a \in Seq(S) /\ Len(a) = IF 1 <= i - 1 THEN (i - 1) - 1 + 1 ELSE 0
        /\ \A j \in 1..((i - 1) - 1 + 1) : a[j] = s[1 + j - 1]
    BY <1>1, <2>1, SubSeqProperties
  <2>3. (i - 1) - 1 + 1 = i - 1 /\ \A j \in 1..(i - 1) : 1 + j - 1 = j
    BY <1>1
  <2>4. Len(a) = i - 1
    BY <2>2, <2>3, <1>1
  <2> QED
    BY <2>2, <2>3, <2>4
<1>3. /\ b \in Seq(S) /\ Len(b) = Len(s) - i
      /\ \A j \in 1..(Len(s) - i) : b[j] = s[i + j]
  <2>1. \A j \in (i + 1)..Len(s) : s[j] \in S
    BY <1>1
  <2>2. /\ b \in Seq(S)
        /\ Len(b) = IF i + 1 <= Len(s) THEN Len(s) - (i + 1) + 1 ELSE 0
        /\ \A j \in 1..(Len(s) - (i + 1) + 1) : b[j] = s[(i + 1) + j - 1]
    BY <1>1, <2>1, SubSeqProperties
  <2>3. /\ Len(s) - (i + 1) + 1 = Len(s) - i
        /\ \A j \in 1..(Len(s) - i) : (i + 1) + j - 1 = i + j
    BY <1>1
  <2> HIDE DEF b
  <2>4. Len(b) = Len(s) - i
    <3>1. i + 1 <= Len(s) \/ (i = Len(s) /\ Len(s) - i = 0)
      BY <1>0
    <3>2. Len(b) = IF i + 1 <= Len(s) THEN Len(s) - i ELSE 0
      BY <2>2, <2>3
    <3> QED
      BY <1>1, <3>1, <3>2
  <2> QED
    BY <2>2, <2>3, <2>4
<1>4. t = a \o b
  BY DEF RemoveAt
<1> HIDE DEF a, b, t
<1>5. /\ t \in Seq(S) /\ Len(t) = Len(s) - 1
      /\ \A j \in 1..(Len(s) - 1) :
           t[j] = IF j <= i - 1 THEN a[j] ELSE b[j - (i - 1)]
  <2>1. Len(a) + Len(b) = Len(s) - 1
    BY <1>1, <1>2, <1>3
  <2>2. /\ a \o b \in Seq(S) /\ Len(a \o b) = Len(a) + Len(b)
        /\ \A j \in 1..(Len(a) + Len(b)) :
             (a \o b)[j] = IF j <= Len(a) THEN a[j] ELSE b[j - Len(a)]
    BY <1>2, <1>3, ConcatProperties
  <2> QED
    BY <2>1, <2>2, <1>2, <1>4
<1>6. ASSUME NEW j \in 1..(Len(s) - 1)
      PROVE  t[j] = IF j < i THEN s[j] ELSE s[j + 1]
  <2>1. CASE j < i
    <3>1. j <= i - 1 /\ j \in 1..(i - 1)
      BY <2>1, <1>1
    <3> QED
      BY <2>1, <3>1, <1>2, <1>5
  <2>2. CASE ~(j < i)
    <3>1. /\ ~(j <= i - 1) /\ j - (i - 1) \in 1..(Len(s) - i)
          /\ i + (j - (i - 1)) = j + 1
      BY <2>2, <1>1
    <3> QED
      BY <2>2, <3>1, <1>3, <1>5
  <2> QED
    BY <2>1, <2>2
<1>7. DOMAIN t = 1..(Len(s) - 1)
  BY <1>5, LenProperties
<1>8. ToSet(t) = {s[j] : j \in (1..Len(s)) \ {i}}
  <2>1. ASSUME NEW j \in 1..(Len(s) - 1)
        PROVE  \E m \in (1..Len(s)) \ {i} : t[j] = s[m]
    <3>1. CASE j < i
      <4>1. j \in (1..Len(s)) \ {i}
        BY <3>1, <1>1
      <4> QED
        BY <3>1, <4>1, <1>6
    <3>2. CASE ~(j < i)
      <4>1. j + 1 \in (1..Len(s)) \ {i}
        BY <3>2, <1>1
      <4> QED
        BY <3>2, <4>1, <1>6
    <3> QED
      BY <3>1, <3>2
  <2>2. ASSUME NEW m \in (1..Len(s)) \ {i}
        PROVE  \E j \in 1..(Len(s) - 1) : t[j] = s[m]
    <3>1. CASE m < i
      <4>1. m \in 1..(Len(s) - 1)
        BY <3>1, <1>1
      <4> QED
        BY <3>1, <4>1, <1>6
    <3>2. CASE m > i
      <4>1. m - 1 \in 1..(Len(s) - 1) /\ ~(m - 1 < i) /\ (m - 1) + 1 = m
        BY <3>2, <1>1
      <4>2. t[m - 1] = s[m]
        BY <4>1, <1>6
      <4> QED
        BY <4>1, <4>2
    <3> QED
      BY <3>1, <3>2, <1>1
  <2>3. ToSet(t) = {t[j] : j \in 1..(Len(s) - 1)}
    BY <1>7 DEF ToSet
  <2>4. ToSet(t) \subseteq {s[j] : j \in (1..Len(s)) \ {i}}
    BY <2>1, <2>3
  <2>5. {s[j] : j \in (1..Len(s)) \ {i}} \subseteq ToSet(t)
    BY <2>2, <2>3
  <2> QED
    BY <2>4, <2>5
<1>9. ToSet(s) = {s[j] : j \in 1..Len(s)}
  BY <1>1 DEF ToSet
<1>10. ToSet(t) \subseteq ToSet(s)
  BY <1>8, <1>9
<1>11. ToSet(s) \subseteq ToSet(t) \cup {s[i]}
  BY <1>8, <1>9
<1> QED
  BY <1>5, <1>6, <1>8, <1>10, <1>11 DEF t

(* The first element that is x goes.                                        *)
LEMMA FirstRemoval ==
  ASSUME NEW S, NEW s \in Seq(S), NEW x \in ToSet(s)
  PROVE  \E i \in 1..Len(s) : s[i] = x /\ RemoveFirst(s, x) = RemoveAt(s, i)
<1> DEFINE I == {i \in 1..Len(s) : s[i] = x}
<1>1. Len(s) \in Nat /\ DOMAIN s = 1..Len(s)
  BY LenProperties
<1>2. PICK j \in 1..Len(s) : s[j] = x
  BY <1>1 DEF ToSet
<1>3. I # {} /\ I \subseteq Nat
  BY <1>1, <1>2
<1>4. Min(I) \in I
  BY <1>3, LeastNumber
<1>5. SelectInSeq(s, LAMBDA v : v = x) = Min(I)
  BY <1>3 DEF SelectInSeq
<1>6. RemoveFirst(s, x) = RemoveAt(s, Min(I))
  BY <1>2, <1>5 DEF RemoveFirst
<1> QED
  BY <1>4, <1>6

LEMMA DistinctRemoval ==
  ASSUME NEW S, NEW s \in Seq(S), NEW i \in 1..Len(s), IsInjective(s)
  PROVE  /\ IsInjective(RemoveAt(s, i))
         /\ ToSet(RemoveAt(s, i)) = ToSet(s) \ {s[i]}
<1> DEFINE t == RemoveAt(s, i)
<1>1. Len(s) \in Nat /\ i \in Nat
  BY LenProperties
<1>2. /\ t \in Seq(S) /\ Len(t) = Len(s) - 1
      /\ \A j \in 1..(Len(s) - 1) : t[j] = IF j < i THEN s[j] ELSE s[j + 1]
      /\ ToSet(t) = {s[j] : j \in (1..Len(s)) \ {i}}
  <2>1. t \in Seq(S) /\ Len(t) = Len(s) - 1
    BY Removal
  <2>2. \A j \in 1..(Len(s) - 1) : t[j] = IF j < i THEN s[j] ELSE s[j + 1]
    BY Removal
  <2>3. ToSet(t) = {s[j] : j \in (1..Len(s)) \ {i}}
    BY Removal
  <2> QED
    BY <2>1, <2>2, <2>3
<1>3. \A j, k \in 1..Len(s) : s[j] = s[k] => j = k
  <2>1. DOMAIN s = 1..Len(s)
    BY LenProperties
  <2> QED
    BY <2>1 DEF IsInjective
<1>4. ToSet(s) = {s[j] : j \in 1..Len(s)}
  <2>1. DOMAIN s = 1..Len(s)
    BY LenProperties
  <2> QED
    BY <2>1 DEF ToSet
<1>5. DOMAIN t = 1..(Len(s) - 1)
  BY <1>2, LenProperties
<1> HIDE DEF t
<1>6. ToSet(t) = ToSet(s) \ {s[i]}
  BY <1>2, <1>3, <1>4
<1>7. ASSUME NEW j \in 1..(Len(s) - 1), NEW k \in 1..(Len(s) - 1), t[j] = t[k]
      PROVE  j = k
  <2> DEFINE from(m) == IF m < i THEN m ELSE m + 1
  <2>1. from(j) \in 1..Len(s) /\ from(k) \in 1..Len(s)
    BY <1>1
  <2>2. t[j] = s[from(j)] /\ t[k] = s[from(k)]
    BY <1>2
  <2>3. from(j) = from(k)
    BY <1>3, <1>7, <2>1, <2>2
  <2> QED
    BY <1>1, <2>3
<1>8. IsInjective(t)
  BY <1>5, <1>7 DEF IsInjective
<1> QED
  BY <1>6, <1>8 DEF t

LEMMA DistinctInsertion ==
  ASSUME NEW S, NEW s \in Seq(S), NEW i \in 1..(Len(s) + 1), NEW e \in S,
         IsInjective(s), e \notin ToSet(s)
  PROVE  IsInjective(InsertAt(s, i, e))
<1> DEFINE t == InsertAt(s, i, e)
<1>1. Len(s) \in Nat /\ i \in Nat
  BY LenProperties
<1>2. /\ \A j, k \in 1..Len(s) : s[j] = s[k] => j = k
      /\ \A j \in 1..Len(s) : s[j] # e
  <2>1. DOMAIN s = 1..Len(s)
    BY LenProperties
  <2> QED
    BY <2>1 DEF IsInjective, ToSet
<1>3. t \in Seq(S) /\ Len(t) = Len(s) + 1
  BY Insertion
<1>4. \A j \in 1..(Len(s) + 1) :
        t[j] = IF j < i THEN s[j] ELSE IF j = i THEN e ELSE s[j - 1]
  BY Insertion
<1>5. DOMAIN t = 1..(Len(s) + 1)
  BY <1>3, LenProperties
<1> HIDE DEF t
<1>6. ASSUME NEW j \in 1..(Len(s) + 1), j # i
      PROVE  LET m == IF j < i THEN j ELSE j - 1
             IN m \in 1..Len(s) /\ t[j] = s[m]
  BY <1>1, <1>4, <1>6
<1>7. ASSUME NEW j \in 1..(Len(s) + 1), NEW k \in 1..(Len(s) + 1), t[j] = t[k]
      PROVE  j = k
  <2>1. t[i] = e
    BY <1>1, <1>4
  <2>2. CASE j # i /\ k # i
    <3> DEFINE m == IF j < i THEN j ELSE j - 1
               n == IF k < i THEN k ELSE k - 1
    <3>1. m \in 1..Len(s) /\ t[j] = s[m]
      BY <2>2, <1>6
    <3>2. n \in 1..Len(s) /\ t[k] = s[n]
      BY <2>2, <1>6
    <3>3. m = n
      BY <1>2, <1>7, <3>1, <3>2
    <3> QED
      BY <1>1, <2>2, <3>3
  <2>3. CASE j = i /\ k # i
    BY <1>2, <1>6, <1>7, <2>1, <2>3
  <2>4. CASE j # i /\ k = i
    BY <1>2, <1>6, <1>7, <2>1, <2>4
  <2> QED
    BY <2>2, <2>3, <2>4
<1>8. IsInjective(t)
  BY <1>5, <1>7 DEF IsInjective
<1> QED
  BY <1>8 DEF t

LEMMA Replacement ==
  ASSUME NEW S, NEW s \in Seq(S), NEW i \in 1..Len(s), NEW e \in S,
         IsInjective(s), e \notin ToSet(s)
  PROVE  /\ ReplaceAt(s, i, e) \in Seq(S)
         /\ Len(ReplaceAt(s, i, e)) = Len(s)
         /\ \A j \in 1..Len(s) :
              ReplaceAt(s, i, e)[j] = IF j = i THEN e ELSE s[j]
         /\ IsInjective(ReplaceAt(s, i, e))
         /\ ToSet(ReplaceAt(s, i, e)) = (ToSet(s) \ {s[i]}) \cup {e}
<1> DEFINE t == ReplaceAt(s, i, e)
<1>1. /\ t \in Seq(S) /\ Len(t) = Len(s)
      /\ \A j \in 1..Len(s) : t[j] = IF j = i THEN e ELSE s[j]
  BY ExceptSeq DEF ReplaceAt
<1>2. DOMAIN s = 1..Len(s) /\ DOMAIN t = 1..Len(s)
  <2> HIDE DEF t
  <2> QED
    BY <1>1, LenProperties
<1> HIDE DEF t
<1>3. /\ \A j, k \in 1..Len(s) : s[j] = s[k] => j = k
      /\ \A j \in 1..Len(s) : s[j] # e
  BY <1>2 DEF IsInjective, ToSet
<1>4. \A j, k \in 1..Len(s) : t[j] = t[k] => j = k
  BY <1>1, <1>3
<1>5. IsInjective(t)
  BY <1>2, <1>4 DEF IsInjective
<1>6. ToSet(s) = {s[j] : j \in 1..Len(s)} /\ ToSet(t) = {t[j] : j \in 1..Len(s)}
  BY <1>2 DEF ToSet
<1>7. ToSet(t) \subseteq (ToSet(s) \ {s[i]}) \cup {e}
  BY <1>1, <1>3, <1>6
<1>8. (ToSet(s) \ {s[i]}) \cup {e} \subseteq ToSet(t)
  BY <1>1, <1>6
<1>9. ToSet(t) = (ToSet(s) \ {s[i]}) \cup {e}
  BY <1>7, <1>8
<1> QED
  BY <1>1, <1>5, <1>9 DEF t

LEMMA DistinctAppend ==
  ASSUME NEW S, NEW s \in Seq(S), NEW x \in S, IsInjective(s), x \notin ToSet(s)
  PROVE  IsInjective(Append(s, x)) /\ IsInjective(<<x>> \o s)
<1>1. <<x>> \in Seq(S) /\ IsInjective(<<x>>) /\ ToSet(<<x>>) = {x}
  BY DEF IsInjective, ToSet
<1>2. Append(s, x) = s \o <<x>>
  BY AppendIsConcat
<1>3. ToSet(s) \cap {x} = {} /\ {x} \cap ToSet(s) = {}
  OBVIOUS
<1>4. IsInjective(s \o <<x>>)
  BY <1>1, <1>3, DistinctConcatenation
<1>5. IsInjective(<<x>> \o s)
  BY <1>1, <1>3, DistinctConcatenation
<1> QED
  BY <1>2, <1>4, <1>5

LEMMA Appended ==
  ASSUME NEW S, NEW s \in Seq(S), NEW x \in S
  PROVE  ToSet(Append(s, x)) = ToSet(s) \cup {x}
<1> DEFINE a == <<x>>
<1>1. a \in Seq(S) /\ ToSet(a) = {x}
  BY DEF ToSet
<1>2. Append(s, x) = s \o a
  BY AppendIsConcat
<1> HIDE DEF a
<1>3. ToSet(s \o a) = ToSet(s) \cup ToSet(a)
  BY <1>1, Concatenation
<1> QED
  BY <1>1, <1>2, <1>3

LEMMA Prefixed ==
  ASSUME NEW S, NEW s \in Seq(S), NEW x \in S
  PROVE  ToSet(<<x>> \o s) = ToSet(s) \cup {x}
<1> DEFINE a == <<x>>
<1>1. a \in Seq(S) /\ ToSet(a) = {x}
  BY DEF ToSet
<1> HIDE DEF a
<1>2. ToSet(a \o s) = ToSet(a) \cup ToSet(s)
  BY <1>1, Concatenation
<1> QED
  BY <1>1, <1>2 DEF a

-----------------------------------------------------------------------------
(* Induction over the positions of a list: what is true of 0, and of k when *)
(* it is true of k - 1.                                                     *)
LEMMA Interval ==
  ASSUME NEW n \in Nat, NEW P, 0 \in P, \A k \in 1..n : k - 1 \in P => k \in P
  PROVE  \A k \in 0..n : k \in P
<1> DEFINE Bad == {k \in 0..n : k \notin P}
<1> SUFFICES ASSUME Bad # {} PROVE FALSE
  OBVIOUS
<1>1. Bad \subseteq Nat
  OBVIOUS
<1>2. Min(Bad) \in Bad /\ \A y \in Bad : Min(Bad) <= y
  <2> HIDE DEF Bad
  <2> QED
    BY <1>1, LeastNumber
<1>3. PICK x \in Bad : \A y \in Bad : x <= y
  BY <1>2
<1>4. x \in 1..n /\ x - 1 \in 0..n /\ ~(x <= x - 1)
  BY <1>3
<1>5. x - 1 \in P
  BY <1>3, <1>4
<1> QED
  BY <1>3, <1>4, <1>5

(* A recursive function whose steps stay in S exists.  With this the lemmas *)
(* about the loops of a model show what ForEach makes: the provers cannot   *)
(* instantiate a lemma about an arbitrary operator.                         *)
Climbs(g, n, b, F) == g[0] = b /\ \A k \in 1..n : g[k] = F[k][g[k - 1]]

LEMMA Steps ==
  ASSUME NEW S, NEW n \in Nat, NEW b \in S, NEW F \in [1..n -> [S -> S]]
  PROVE  \E g \in [0..n -> S] : Climbs(g, n, b, F)
<1> DEFINE Ok(m) == \E g \in [0..n -> S] :
                      g[0] = b /\ \A k \in 1..m : g[k] = F[k][g[k - 1]]
           P == {m \in 0..n : Ok(m)}
<1>1. 0 \in P
  <2> DEFINE g == [k \in 0..n |-> b]
  <2>1. 0 \in 0..n
    OBVIOUS
  <2>2. g \in [0..n -> S] /\ g[0] = b
    BY <2>1
  <2>3. \A k \in 1..0 : g[k] = F[k][g[k - 1]]
    OBVIOUS
  <2> HIDE DEF g
  <2>4. Ok(0)
    BY <2>2, <2>3
  <2> QED
    BY <2>1, <2>4
<1>2. ASSUME NEW m \in 1..n, m - 1 \in P PROVE m \in P
  <2>1. PICK g \in [0..n -> S] :
          g[0] = b /\ \A k \in 1..(m - 1) : g[k] = F[k][g[k - 1]]
    BY <1>2
  <2> DEFINE v == F[m][g[m - 1]]
             h == [g EXCEPT ![m] = v]
  <2>2. m - 1 \in 0..n /\ m \in 0..n /\ m # 0 /\ m \in 1..n
    OBVIOUS
  <2>3. v \in S
    <3>1. F[m] \in [S -> S] /\ g[m - 1] \in S
      BY <2>2
    <3> QED
      BY <3>1
  <2> HIDE DEF v
  <2>4. h \in [0..n -> S] /\ h[0] = b /\ h[m] = v
    BY <2>1, <2>2, <2>3
  <2>5. \A k \in 0..n : k # m => h[k] = g[k]
    BY <2>2
  <2> HIDE DEF h
  <2>6. ASSUME NEW k \in 1..m PROVE h[k] = F[k][h[k - 1]]
    <3>1. k \in 0..n /\ k - 1 \in 0..n /\ k - 1 # m
      BY <2>2
    <3>2. h[k - 1] = g[k - 1]
      BY <2>5, <3>1
    <3>3. CASE k = m
      BY <2>4, <3>2, <3>3 DEF v
    <3>4. CASE k # m
      <4>1. k \in 1..(m - 1) /\ h[k] = g[k]
        BY <2>5, <3>1, <3>4
      <4> QED
        BY <4>1, <3>2, <2>1
    <3> QED
      BY <3>3, <3>4
  <2>7. Ok(m)
    BY <2>4, <2>6
  <2> QED
    BY <2>2, <2>7
<1>3. \A k \in 0..n : k \in P
  <2> HIDE DEF P
  <2> QED
    BY <1>1, <1>2, Interval
<1>4. Ok(n)
  BY <1>3
<1> QED
  BY <1>4 DEF Climbs

LEMMA StaysIn ==
  ASSUME NEW S, NEW n \in Nat, NEW h, h = [k \in 0..n |-> h[k]], h[0] \in S,
         \A k \in 1..n : h[k - 1] \in S => h[k] \in S
  PROVE  h \in [0..n -> S]
<1> DEFINE P == {k \in 0..n : h[k] \in S}
<1>1. 0 \in P
  OBVIOUS
<1>2. ASSUME NEW k \in 1..n, k - 1 \in P PROVE k \in P
  <2>1. k \in 0..n /\ h[k - 1] \in S
    BY <1>2
  <2> QED
    BY <2>1
<1>3. \A k \in 0..n : k \in P
  <2> HIDE DEF P
  <2> QED
    BY <1>1, <1>2, Interval
<1> QED
  BY <1>3

-----------------------------------------------------------------------------
(* The numbers of a list have a bound, and what has one has a greatest.     *)
LEMMA Bound ==
  ASSUME NEW n \in Nat, NEW f \in [1..n -> Nat]
  PROVE  \E b \in Nat : \A k \in 1..n : f[k] <= b
<1> DEFINE Ok(m) == \E b \in Nat : \A k \in 1..m : f[k] <= b
           P == {m \in 0..n : Ok(m)}
<1>1. 0 \in P
  <2>1. Ok(0)
    OBVIOUS
  <2> QED
    BY <2>1
<1>2. ASSUME NEW m \in 1..n, m - 1 \in P PROVE m \in P
  <2>1. PICK b \in Nat : \A k \in 1..(m - 1) : f[k] <= b
    BY <1>2
  <2>2. f[m] \in Nat
    OBVIOUS
  <2>3. PICK c \in Nat : b <= c /\ f[m] <= c
    <3>1. CASE b <= f[m]
      BY <2>2, <3>1
    <3>2. CASE ~(b <= f[m])
      BY <2>2, <3>2
    <3> QED
      BY <3>1, <3>2
  <2>4. \A k \in 1..m : f[k] <= c
    <3> TAKE k \in 1..m
    <3>1. k \in 1..n /\ f[k] \in Nat
      OBVIOUS
    <3>2. k = m \/ k \in 1..(m - 1)
      OBVIOUS
    <3> QED
      BY <2>1, <2>2, <2>3, <3>1, <3>2
  <2>5. Ok(m)
    BY <2>4
  <2> QED
    BY <2>5
<1>3. \A m \in 0..n : m \in P
  <2> HIDE DEF P
  <2> QED
    BY <1>1, <1>2, Interval
<1>4. Ok(n)
  <2>1. n \in P
    <3>1. n \in 0..n
      OBVIOUS
    <3> HIDE DEF P
    <3> QED
      BY <1>3, <3>1
  <2> QED
    BY <2>1
<1> QED
  BY <1>4

LEMMA GreatestNumber ==
  ASSUME NEW S, S \subseteq Nat, S # {}, NEW b \in Nat, \A y \in S : y <= b
  PROVE  Max(S) \in S /\ \A y \in S : Max(S) >= y
<1> DEFINE T == {m \in Nat : \A y \in S : y <= m}
<1>1. T # {} /\ T \subseteq Nat
  OBVIOUS
<1>2. Min(T) \in T /\ \A m \in T : Min(T) <= m
  <2> HIDE DEF T
  <2> QED
    BY <1>1, LeastNumber
<1>3. PICK m \in Nat : (\A y \in S : y <= m) /\ \A k \in T : m <= k
  BY <1>2
<1>4. m \in S
  <2> SUFFICES ASSUME m \notin S PROVE FALSE
    OBVIOUS
  <2>1. \A y \in S : y \in Nat /\ y < m
    <3> TAKE y \in S
    <3>1. y \in Nat /\ y <= m /\ y # m
      BY <1>3
    <3> QED
      BY <3>1
  <2>2. m # 0
    <3> PICK y \in S : TRUE
      OBVIOUS
    <3>1. y \in Nat /\ y < m
      BY <2>1
    <3> QED
      BY <3>1
  <2>3. m - 1 \in Nat
    BY <2>2
  <2>4. \A y \in S : y <= m - 1
    <3> TAKE y \in S
    <3>1. y \in Nat /\ y < m
      BY <2>1
    <3> QED
      BY <3>1
  <2>5. m - 1 \in T
    BY <2>3, <2>4
  <2>6. m <= m - 1
    BY <1>3, <2>5
  <2> QED
    BY <2>6
<1>5. \A y \in S : m >= y
  BY <1>3
<1> QED
  BY <1>4, <1>5 DEF Max

-----------------------------------------------------------------------------
(* What a loop over a list has gone through after k steps.                  *)
Upto(s, k) == {s[j] : j \in 1..k}

LEMMA UptoSteps ==
  ASSUME NEW S, NEW s \in Seq(S)
  PROVE  /\ Upto(s, 0) = {} /\ Upto(s, Len(s)) = ToSet(s)
         /\ \A k \in 1..Len(s) : Upto(s, k) = Upto(s, k - 1) \cup {s[k]}
<1>1. Len(s) \in Nat /\ DOMAIN s = 1..Len(s)
  BY LenProperties
<1>2. Upto(s, 0) = {}
  BY DEF Upto
<1>3. Upto(s, Len(s)) = ToSet(s)
  BY <1>1 DEF Upto, ToSet
<1>4. ASSUME NEW k \in 1..Len(s) PROVE Upto(s, k) = Upto(s, k - 1) \cup {s[k]}
  <2>1. \A j \in 1..k : j = k \/ j \in 1..(k - 1)
    BY <1>1
  <2>2. k \in 1..k /\ \A j \in 1..(k - 1) : j \in 1..k
    BY <1>1
  <2> QED
    BY <2>1, <2>2 DEF Upto
<1> QED
  BY <1>2, <1>3, <1>4

LEMMA UptoDistinct ==
  ASSUME NEW S, NEW s \in Seq(S), IsInjective(s), NEW k \in 1..Len(s)
  PROVE  s[k] \in ToSet(s) /\ s[k] \notin Upto(s, k - 1)
         /\ Upto(s, k - 1) \subseteq ToSet(s)
<1>1. Len(s) \in Nat /\ DOMAIN s = 1..Len(s)
  BY LenProperties
<1>2. \A j \in 1..(k - 1) : j \in 1..Len(s) /\ j # k
  BY <1>1
<1>3. \A j \in 1..(k - 1) : s[j] # s[k]
  BY <1>1, <1>2 DEF IsInjective
<1> QED
  BY <1>1, <1>2, <1>3 DEF Upto, ToSet
=============================================================================
