--------------------------- MODULE WaitingProofs ---------------------------
(***************************************************************************)
(* Proofs about WaitingSchedulers: a file is never served while it waits,   *)
(* aIOLi is FIFO between the files, and every variable has its type.  They  *)
(* rest on what the queues hold, on the factors of the requests that come   *)
(* and go, and on what is selected staying selectable while the clients add *)
(* requests.                                                                *)
(***************************************************************************)
EXTENDS WaitingSchedulers, ListLemmas, FiniteSetTheorems

-----------------------------------------------------------------------------
(* The operators of the model.                                              *)
LEMMA PlaceInQueue ==
  ASSUME NEW s \in Seq(Requests), NEW r \in Requests
  PROVE  Place(s, r) \in 1..(Len(s) + 1)
<1> DEFINE Further(x) == \/ Offset[x] > Offset[r]
                         \/ Offset[x] = Offset[r] /\ Length[x] > Length[r]
           I == {i \in 1..Len(s) : Further(s[i])}
           p == SelectInSeq(s, Further)
<1>1. Len(s) \in Nat
  BY LenProperties
<1>2. p = IF I # {} THEN Min(I) ELSE 0
  BY DEF SelectInSeq
<1>3. Place(s, r) = IF p = 0 THEN Len(s) + 1 ELSE p
  BY DEF Place
<1>4. I # {} => Min(I) \in I
  <2>1. I \subseteq Nat
    BY <1>1
  <2> QED
    BY <2>1, LeastNumber
<1> HIDE DEF p
<1>5. p = 0 \/ p \in 1..Len(s)
  BY <1>2, <1>4
<1> HIDE DEF I, Further
<1> QED
  BY <1>1, <1>3, <1>5

LEMMA OfferPlace ==
  ASSUME NEW q, Len(list[q]) \in Nat
  PROVE  LET i == SelectInSeq(list[q], WithinQuantum)
         IN /\ i \in 0..Len(list[q])
            /\ i = 0 => \A j \in 1..Len(list[q]) : ~WithinQuantum(list[q][j])
            /\ i # 0 => /\ WithinQuantum(list[q][i])
                        /\ \A j \in 1..Len(list[q]) :
                             WithinQuantum(list[q][j]) => i <= j
<1> DEFINE i == SelectInSeq(list[q], WithinQuantum)
           I == {j \in 1..Len(list[q]) : WithinQuantum(list[q][j])}
<1>1. i = IF I # {} THEN Min(I) ELSE 0
  BY DEF SelectInSeq
<1>2. I # {} => Min(I) \in I /\ \A y \in I : Min(I) <= y
  <2>1. I \subseteq Nat
    OBVIOUS
  <2> QED
    BY <2>1, LeastNumber
<1>3. CASE I = {}
  <2>1. i = 0
    BY <1>1, <1>3
  <2>2. \A j \in 1..Len(list[q]) : ~WithinQuantum(list[q][j])
    BY <1>3
  <2> QED
    BY <2>1, <2>2
<1>4. CASE I # {}
  <2>1. i \in I /\ \A y \in I : i <= y
    BY <1>1, <1>2, <1>4
  <2>2. i \in 1..Len(list[q]) /\ WithinQuantum(list[q][i])
    BY <2>1
  <2>3. i # 0 /\ i \in 0..Len(list[q])
    BY <2>2
  <2>4. \A j \in 1..Len(list[q]) : WithinQuantum(list[q][j]) => i <= j
    BY <2>1
  <2>5. /\ i \in 0..Len(list[q])
        /\ i = 0 => \A j \in 1..Len(list[q]) : ~WithinQuantum(list[q][j])
        /\ i # 0 => /\ WithinQuantum(list[q][i])
                    /\ \A j \in 1..Len(list[q]) :
                         WithinQuantum(list[q][j]) => i <= j
    <3> HIDE DEF i, I
    <3> QED
      BY <2>2, <2>3, <2>4
  <2> QED
    BY <2>5
<1> QED
  BY <1>3, <1>4

(* What a queue offers is one of its requests.                              *)
LEMMA OfferIsQueued ==
  ASSUME NEW q \in Queues, list[q] \in Seq(Requests), Offer(q) # NoRequest
  PROVE  /\ PlaceOfOffer(q) \in 1..Len(list[q])
         /\ Offer(q) = list[q][PlaceOfOffer(q)]
         /\ Offer(q) \in ToSet(list[q])
<1>1. Len(list[q]) \in Nat /\ DOMAIN list[q] = 1..Len(list[q])
  BY LenProperties
<1>2. SelectInSeq(list[q], WithinQuantum) \in 0..Len(list[q])
  BY <1>1, OfferPlace
<1>3. PlaceOfOffer(q) \in 0..Len(list[q])
  BY <1>1, <1>2 DEF PlaceOfOffer
<1>4. PlaceOfOffer(q) # 0 /\ Offer(q) = list[q][PlaceOfOffer(q)]
  BY DEF Offer
<1> QED
  BY <1>1, <1>3, <1>4 DEF ToSet

(* The first request of a queue is offered when it is within its quantum.   *)
LEMMA FirstIsOffered ==
  ASSUME NEW q \in Queues, list[q] \in Seq(Requests), list[q] # <<>>,
         WithinQuantum(Head(list[q]))
  PROVE  Offer(q) = Head(list[q])
<1> DEFINE i == SelectInSeq(list[q], WithinQuantum)
<1>1. Len(list[q]) \in Nat \ {0} /\ Head(list[q]) = list[q][1]
  BY EmptySeq
<1>2. /\ i \in 0..Len(list[q])
      /\ i = 0 => \A j \in 1..Len(list[q]) : ~WithinQuantum(list[q][j])
      /\ i # 0 => \A j \in 1..Len(list[q]) : WithinQuantum(list[q][j]) => i <= j
  BY <1>1, OfferPlace
<1>3. 1 \in 1..Len(list[q]) /\ WithinQuantum(list[q][1])
  BY <1>1
<1>4. PlaceOfOffer(q) = IF algorithm = "aIOLi" /\ i > 1 THEN 0 ELSE i
  BY DEF PlaceOfOffer
<1> HIDE DEF i
<1>5. i = 1
  BY <1>1, <1>2, <1>3
<1>6. PlaceOfOffer(q) = 1
  BY <1>4, <1>5
<1> QED
  BY <1>1, <1>6 DEF Offer

LEMMA NothingOffered ==
  ASSUME NEW q, list[q] = <<>>
  PROVE  Offer(q) = NoRequest
<1>1. Len(list[q]) = 0
  BY EmptySeq
<1>2. SelectInSeq(list[q], WithinQuantum) = 0
  <2>1. SelectInSeq(list[q], WithinQuantum) \in 0..Len(list[q])
    BY <1>1, OfferPlace
  <2> QED
    BY <1>1, <2>1
<1> QED
  BY <1>2 DEF PlaceOfOffer, Offer

(* A turn takes at least one request, and no more than the queue has.       *)
LEMMA TurnWithin ==
  ASSUME NEW s \in Seq(Requests), s # <<>>, NEW quantum
  PROVE  TurnOf(s, quantum) \in 1..Len(s)
<1> DEFINE Cuts == {n \in 1..Len(s) :
                      \/ n = Len(s)
                      \/ SizeOf(SubSeq(s, 1, n)) >= quantum
                      \/ Length[s[n + 1]] > quantum - SizeOf(SubSeq(s, 1, n))}
<1>1. Len(s) \in Nat \ {0}
  BY EmptySeq
<1>2. Len(s) \in Cuts /\ Cuts \subseteq 1..Len(s)
  BY <1>1
<1>3. TurnOf(s, quantum) = Min(Cuts)
  BY DEF TurnOf
<1> HIDE DEF Cuts
<1>4. Cuts \subseteq Nat /\ Cuts # {}
  BY <1>1, <1>2
<1>5. Min(Cuts) \in Cuts
  BY <1>4, LeastNumber
<1> QED
  BY <1>2, <1>3, <1>5

(* A number that fits is not changed by the width of an integer.            *)
LEMMA WrapFits ==
  ASSUME NEW n \in 0..INT_MAX
  PROVE  Wrap(n) = n
<1>1. INT_MAX \in Nat
  BY WaitingAssumption
<1> HIDE DEF INT_MAX
<1>2. (n + INT_MAX + 1) % (2 * (INT_MAX + 1)) = n + INT_MAX + 1
  BY <1>1
<1> QED
  BY <1>1, <1>2 DEF Wrap

LEMMA IncrementIsInt ==
  ASSUME NEW n \in Int
  PROVE  Increment(n) \in Int
<1>1. INT_MAX \in Nat
  BY WaitingAssumption
<1> HIDE DEF INT_MAX
<1> QED
  BY <1>1 DEF Increment, Wrap

LEMMA WaitingNowFacts ==
  ASSUME NEW f \in Files, waiting \in [Files -> Nat], elapsed \in [Files -> Nat]
  PROVE  /\ WaitingNow(f) \in Nat
         /\ waiting[f] = 0 => WaitingNow(f) = 0
  BY DEF WaitingNow

LEMMA NextLineInLines ==
  ASSUME line \in Lines
  PROVE  (line % NLines) + 1 \in Lines
  BY WaitingAssumption DEF Lines

-----------------------------------------------------------------------------
(* The queues.                                                              *)
LEMMA Members ==
  ASSUME ListsOwn, NEW q \in Queues, NEW r \in ToSet(list[q])
  PROVE  /\ r \in Requests /\ QueueOf(r) = q /\ FileOf[r] = q[1]
         /\ r \in Queued /\ list[q] # <<>>
<1>1. list[q] \in Seq(Requests) /\ QueueOf(r) = q
  BY DEF ListsOwn
<1>2. r \in Requests /\ list[q] # <<>>
  <2>1. DOMAIN list[q] = 1..Len(list[q])
    BY <1>1, LenProperties
  <2>2. PICK i \in 1..Len(list[q]) : r = list[q][i]
    BY <2>1 DEF ToSet
  <2>3. r \in Requests
    BY <1>1, <2>2, ElementOfSeq
  <2>4. Len(list[q]) # 0
    BY <1>1, <2>2, LenProperties
  <2> QED
    BY <2>3, <2>4, EmptySeq
<1>3. FileOf[r] = q[1]
  BY <1>1 DEF QueueOf
<1>4. r \in Queued
  BY DEF Queued
<1> QED
  BY <1>1, <1>2, <1>3, <1>4

LEMMA QueueParts ==
  ASSUME NEW q \in Queues
  PROVE  /\ q[1] \in Files /\ LineOf[q[1]] \in Lines
         /\ q = <<q[1], q[2]>>
  BY WaitingAssumption DEF Queues

LEMMA RequestParts ==
  ASSUME NEW r \in Requests
  PROVE  /\ QueueOf(r) \in Queues /\ QueueOf(r)[1] = FileOf[r]
         /\ FileOf[r] \in Files /\ LineOf[FileOf[r]] \in Lines
         /\ Timestamp[r] \in Nat \ {0} /\ r # NoRequest
<1>1. /\ FileOf[r] \in Files /\ TypeOf[r] \in Types
      /\ Timestamp[r] \in Nat \ {0} /\ r # NoRequest
  BY WaitingAssumption
<1>2. LineOf[FileOf[r]] \in Lines
  BY <1>1, WaitingAssumption
<1>3. QueueOf(r) \in Queues /\ QueueOf(r)[1] = FileOf[r]
  BY <1>1 DEF QueueOf, Queues
<1> QED
  BY <1>1, <1>2, <1>3

(* The request that a file offers is one of its own.                        *)
LEMMA OfferOfFileIsOwn ==
  ASSUME ListsOwn, NEW f \in Files, OfferOfFile(f) # NoRequest
  PROVE  /\ OfferOfFile(f) \in Requests
         /\ FileOf[OfferOfFile(f)] = f
         /\ list[QueueOf(OfferOfFile(f))] # <<>>
<1>1. PICK q \in {<<f, "read">>, <<f, "write">>} :
        OfferOfFile(f) = Offer(q)
  BY DEF OfferOfFile
<1>2. q \in Queues /\ q[1] = f
  BY DEF Queues, Types
<1>3. Offer(q) \in ToSet(list[q])
  BY <1>1, <1>2, OfferIsQueued DEF ListsOwn
<1> QED
  BY <1>1, <1>2, <1>3, Members

(* The turn of aIOLi leaves its queue, and nothing else does.               *)
LEMMA ServeTakes ==
  ASSUME ListsOwn, Selecting, Serve
  PROVE  /\ selected \in Queues /\ waiting[selected[1]] = 0
         /\ list' \in [Queues -> Seq(Requests)]
         /\ \A q \in Queues : q # selected => list'[q] = list[q]
         /\ \E turn : /\ given' = given \cup turn
                      /\ ToSet(list[selected]) = turn \cup ToSet(list'[selected])
<1>1. selected \in Queues /\ waiting[selected[1]] = 0 /\ list[selected] # <<>>
  BY DEF Serve, Selecting
<1> DEFINE s == list[selected]
           n == TurnOf(s, info[selected].nextquantum)
<1>2. s \in Seq(Requests)
  BY <1>1 DEF ListsOwn
<1>3. n \in 1..Len(s)
  BY <1>1, <1>2, TurnWithin
<1>4. /\ list' = [list EXCEPT ![selected] = SubSeq(s, n + 1, Len(s))]
      /\ given' = given \cup ToSet(SubSeq(s, 1, n))
  BY DEF Serve
<1> HIDE DEF n
<1>5. /\ SubSeq(s, n + 1, Len(s)) \in Seq(Requests)
      /\ ToSet(SubSeq(s, 1, n)) = {s[j] : j \in 1..n}
      /\ ToSet(SubSeq(s, n + 1, Len(s))) = {s[j] : j \in (n + 1)..Len(s)}
  BY <1>2, <1>3, Cut
<1>6. ToSet(s) = ToSet(SubSeq(s, 1, n)) \cup ToSet(SubSeq(s, n + 1, Len(s)))
  <2>1. Len(s) \in Nat /\ DOMAIN s = 1..Len(s)
    BY <1>2, LenProperties
  <2>2. 1..Len(s) = (1..n) \cup ((n + 1)..Len(s))
    BY <2>1, <1>3
  <2>3. ToSet(s) = {s[j] : j \in (1..n) \cup ((n + 1)..Len(s))}
    BY <2>1, <2>2 DEF ToSet
  <2> HIDE DEF s
  <2> QED
    BY <2>3, <1>5
<1>7. list'[selected] = SubSeq(s, n + 1, Len(s))
  BY <1>1, <1>4 DEF ListsOwn
<1>8. ToSet(list[selected]) = ToSet(SubSeq(s, 1, n)) \cup ToSet(list'[selected])
  BY <1>6, <1>7
<1>9. /\ list' \in [Queues -> Seq(Requests)]
      /\ \A q \in Queues : q # selected => list'[q] = list[q]
  BY <1>1, <1>4, <1>5 DEF ListsOwn
<1> QED
  BY <1>1, <1>4, <1>8, <1>9

(* A round of MLF takes some of the requests its files offer.               *)
LEMMA WorkTakes ==
  ASSUME ListsOwn, WorkLine
  PROVE  /\ list' \in [Queues -> Seq(Requests)]
         /\ \A q \in Queues : ToSet(list'[q]) \subseteq ToSet(list[q])
         /\ \E F \in SUBSET Files :
              /\ given' = given \cup Taken(F)
              /\ waiting' = [f \in Files |-> IF f \in F THEN WaitingAfter(f)
                                             ELSE waiting[f]]
              /\ \A q \in Queues :
                   ToSet(list[q]) \subseteq ToSet(list'[q]) \cup Taken(F)
              /\ factor' = [r \in Requests |->
                              IF r \in Taken(F) THEN 0
                              ELSE IF r \in UNION {LookedAt(f) : f \in F}
                                   THEN Increment(factor[r]) ELSE factor[r]]
<1>1. PICK F \in SUBSET Files :
        /\ given' = given \cup Taken(F)
        /\ waiting' = [f \in Files |-> IF f \in F THEN WaitingAfter(f)
                                       ELSE waiting[f]]
        /\ list' = [q \in Queues |->
                      IF Offer(q) \in Taken(F)
                      THEN RemoveAt(list[q], PlaceOfOffer(q)) ELSE list[q]]
        /\ factor' = [r \in Requests |->
                        IF r \in Taken(F) THEN 0
                        ELSE IF r \in UNION {LookedAt(f) : f \in F}
                             THEN Increment(factor[r]) ELSE factor[r]]
  <2> DEFINE F == IF \E r \in Queued : LineOf[FileOf[r]] = line
                  THEN FilesOf(line) ELSE {}
  <2>1. F \in SUBSET Files
    BY DEF FilesOf
  <2>2. PICK looked \in {UNION {LookedAt(f) : f \in F}},
             taken \in {Taken(F)},
             after \in {[f \in Files |-> IF f \in F THEN WaitingAfter(f)
                                         ELSE waiting[f]]} :
          /\ given' = given \cup taken
          /\ factor' = [r \in Requests |->
                          IF r \in taken THEN 0
                          ELSE IF r \in looked THEN Increment(factor[r])
                          ELSE factor[r]]
          /\ waiting' = after
          /\ list' = [q \in Queues |->
                        IF Offer(q) \in taken
                        THEN RemoveAt(list[q], PlaceOfOffer(q)) ELSE list[q]]
    BY DEF WorkLine
  <2>3. /\ looked = UNION {LookedAt(f) : f \in F} /\ taken = Taken(F)
        /\ after = [f \in Files |-> IF f \in F THEN WaitingAfter(f)
                                    ELSE waiting[f]]
    OBVIOUS
  <2> HIDE DEF F
  <2>4. /\ given' = given \cup Taken(F)
        /\ waiting' = [f \in Files |-> IF f \in F THEN WaitingAfter(f)
                                       ELSE waiting[f]]
        /\ list' = [q \in Queues |->
                      IF Offer(q) \in Taken(F)
                      THEN RemoveAt(list[q], PlaceOfOffer(q)) ELSE list[q]]
    BY <2>2, <2>3
  <2>5. factor' = [r \in Requests |->
                     IF r \in Taken(F) THEN 0
                     ELSE IF r \in UNION {LookedAt(f) : f \in F}
                          THEN Increment(factor[r]) ELSE factor[r]]
    BY <2>2, <2>3
  <2> QED
    BY <2>1, <2>4, <2>5
<1>2. ASSUME NEW q \in Queues
      PROVE  /\ list'[q] \in Seq(Requests)
             /\ ToSet(list'[q]) \subseteq ToSet(list[q])
             /\ ToSet(list[q]) \subseteq ToSet(list'[q]) \cup Taken(F)
  <2>1. list[q] \in Seq(Requests)
    BY DEF ListsOwn
  <2>2. CASE Offer(q) \in Taken(F)
    <3>1. Offer(q) # NoRequest
      BY <2>2 DEF Taken
    <3>2. /\ PlaceOfOffer(q) \in 1..Len(list[q])
          /\ Offer(q) = list[q][PlaceOfOffer(q)]
      BY <2>1, <3>1, OfferIsQueued
    <3>3. list'[q] = RemoveAt(list[q], PlaceOfOffer(q))
      BY <1>1, <2>2
    <3> QED
      BY <2>1, <2>2, <3>2, <3>3, Removal
  <2>3. CASE Offer(q) \notin Taken(F)
    <3>1. list'[q] = list[q]
      BY <1>1, <2>3
    <3> QED
      BY <2>1, <3>1
  <2> QED
    BY <2>2, <2>3
<1>3. list' \in [Queues -> Seq(Requests)]
  <2>1. DOMAIN list' = Queues /\ list' = [q \in Queues |-> list'[q]]
    BY <1>1
  <2> QED
    BY <2>1, <1>2
<1> QED
  BY <1>1, <1>2, <1>3

(* An add puts its request in its own queue.                                *)
LEMMA LinkAdds ==
  ASSUME ListsOwn, NEW r \in Requests, Link(r)
  PROVE  /\ list' \in [Queues -> Seq(Requests)]
         /\ \A q \in Queues :
              \/ list'[q] = list[q]
              \/ /\ q = QueueOf(r)
                 /\ ToSet(list'[q]) = ToSet(list[q]) \cup {r}
                 /\ list'[q] # <<>>
                 /\ \/ Head(list'[q]) = r
                    \/ list[q] # <<>> /\ Head(list'[q]) = Head(list[q])
         /\ r \in ToSet(list'[QueueOf(r)])
<1> DEFINE k == QueueOf(r)
           p == Place(list[k], r)
<1>1. k \in Queues /\ list[k] \in Seq(Requests)
  BY RequestParts DEF ListsOwn
<1>2. list' = [list EXCEPT ![k] = InsertAt(list[k], p, r)]
  BY DEF Link
<1>3. p \in 1..(Len(list[k]) + 1)
  BY <1>1, PlaceInQueue
<1> HIDE DEF k, p
<1>4. /\ InsertAt(list[k], p, r) \in Seq(Requests)
      /\ ToSet(InsertAt(list[k], p, r)) = ToSet(list[k]) \cup {r}
      /\ InsertAt(list[k], p, r) # <<>>
      /\ \/ Head(InsertAt(list[k], p, r)) = r
         \/ list[k] # <<>> /\ Head(InsertAt(list[k], p, r)) = Head(list[k])
  BY <1>1, <1>3, Insertion
<1>5. /\ list'[k] = InsertAt(list[k], p, r)
      /\ \A q \in Queues : q # k => list'[q] = list[q]
  BY <1>1, <1>2 DEF ListsOwn
<1>6. list' \in [Queues -> Seq(Requests)]
  BY <1>1, <1>2, <1>4 DEF ListsOwn
<1>7. ASSUME NEW q \in Queues
      PROVE  \/ list'[q] = list[q]
             \/ /\ q = k
                /\ ToSet(list'[q]) = ToSet(list[q]) \cup {r}
                /\ list'[q] # <<>>
                /\ \/ Head(list'[q]) = r
                   \/ list[q] # <<>> /\ Head(list'[q]) = Head(list[q])
  <2>1. CASE q = k
    BY <2>1, <1>4, <1>5
  <2>2. CASE q # k
    BY <2>2, <1>5
  <2> QED
    BY <2>1, <2>2
<1>8. r \in ToSet(list'[k])
  BY <1>4, <1>5
<1> QED
  BY <1>6, <1>7, <1>8 DEF k

(* A queue holds requests of its own.                                       *)
LEMMA ListsInitially == Init => ListsOwn
<1> SUFFICES ASSUME Init PROVE ListsOwn
  OBVIOUS
<1>1. <<>> \in Seq(Requests) /\ ToSet(<<>>) = {}
  BY DEF ToSet
<1>2. list = [q \in Queues |-> <<>>]
  BY DEF Init
<1> QED
  BY <1>1, <1>2 DEF ListsOwn

LEMMA ListsStep == ListsOwn /\ Selecting /\ [Next]_vars => ListsOwn'
<1> SUFFICES ASSUME ListsOwn, Selecting, [Next]_vars PROVE ListsOwn'
  OBVIOUS
<1>1. CASE \E r \in Requests : Link(r)
  <2>1. PICK r \in Requests : Link(r)
    BY <1>1
  <2>2. ASSUME NEW q \in Queues, NEW x \in ToSet(list'[q])
        PROVE  QueueOf(x) = q
    <3>1. x \in ToSet(list[q]) \/ (x = r /\ q = QueueOf(r))
      BY <2>1, LinkAdds
    <3> QED
      BY <3>1, Members
  <2>3. list' \in [Queues -> Seq(Requests)]
    BY <2>1, LinkAdds
  <2> QED
    BY <2>2, <2>3 DEF ListsOwn, QueueOf
<1>2. CASE Serve
  <2>1. ASSUME NEW q \in Queues, NEW x \in ToSet(list'[q])
        PROVE  QueueOf(x) = q
    <3>1. x \in ToSet(list[q])
      BY <1>2, ServeTakes
    <3> QED
      BY <3>1, Members
  <2>2. list' \in [Queues -> Seq(Requests)]
    BY <1>2, ServeTakes
  <2> QED
    BY <2>1, <2>2 DEF ListsOwn, QueueOf
<1>3. CASE WorkLine
  <2>1. ASSUME NEW q \in Queues, NEW x \in ToSet(list'[q])
        PROVE  QueueOf(x) = q
    <3>1. x \in ToSet(list[q])
      BY <1>3, WorkTakes
    <3> QED
      BY <3>1, Members
  <2>2. list' \in [Queues -> Seq(Requests)]
    BY <1>3, WorkTakes
  <2> QED
    BY <2>1, <2>2 DEF ListsOwn, QueueOf
<1>4. CASE UNCHANGED list
  BY <1>4 DEF ListsOwn, QueueOf
<1>5. \/ \E r \in Requests : Link(r)
      \/ Serve \/ WorkLine \/ UNCHANGED list
  BY DEF Next, aIOLi, MLF, Client, Lock, Tick, CallaIOLi, StartScan, Scan,
     CheckSelected, NothingSelected, CallMLF, EndMLF, SkipLine, vars, store
<1> QED
  BY <1>1, <1>2, <1>3, <1>4, <1>5

-----------------------------------------------------------------------------
(* What the scan of a line selects: an offer of a file that does not wait,  *)
(* as old as every other one, or what it had selected before.               *)
LEMMA ScanSelects ==
  ASSUME ListsOwn, Selecting, Scan
  PROVE  /\ \/ \E f \in FilesOf(line) :
                 /\ WaitingNow(f) = 0 /\ OfferOfFile(f) # NoRequest
                 /\ selected' = QueueOf(OfferOfFile(f))
                 /\ selectedStamp' = Timestamp[OfferOfFile(f)]
            \/ selected' = selected /\ selectedStamp' = selectedStamp
         /\ selected # NoQueue =>
              selected' # NoQueue /\ selectedStamp' <= selectedStamp
         /\ \A f \in FilesOf(line) :
              WaitingNow(f) = 0 /\ OfferOfFile(f) # NoRequest =>
                /\ selected' # NoQueue
                /\ selectedStamp' <= Timestamp[OfferOfFile(f)]
<1> DEFINE open == {f \in FilesOf(line) : WaitingNow(f) = 0}
           offers == {OfferOfFile(f) : f \in open} \ {NoRequest}
<1>1. \/ \E r \in offers :
           /\ \A s \in offers : Timestamp[r] <= Timestamp[s]
           /\ Earlier(r)
           /\ selected' = QueueOf(r) /\ selectedStamp' = Timestamp[r]
      \/ /\ \A r \in offers : ~Earlier(r)
         /\ selected' = selected /\ selectedStamp' = selectedStamp
  BY DEF Scan
<1>2. /\ \A r \in offers : r \in Requests
      /\ \A r \in offers : \E f \in FilesOf(line) :
           WaitingNow(f) = 0 /\ OfferOfFile(f) # NoRequest /\ r = OfferOfFile(f)
      /\ \A f \in FilesOf(line) : WaitingNow(f) = 0 /\ OfferOfFile(f) # NoRequest
                                    => OfferOfFile(f) \in offers
  <2>1. \A f \in FilesOf(line) : f \in Files
    BY DEF FilesOf
  <2>2. \A f \in Files : OfferOfFile(f) # NoRequest => OfferOfFile(f) \in Requests
    BY OfferOfFileIsOwn
  <2> QED
    BY <2>1, <2>2
<1>3. /\ \A r \in Requests : /\ Timestamp[r] \in Nat \ {0}
                             /\ QueueOf(r) \in Queues
      /\ NoQueue \notin Queues
  BY RequestParts, WaitingAssumption
<1>4. selectedStamp \in Nat /\ ((selected = NoQueue) <=> (selectedStamp = 0))
  BY DEF Selecting
<1> HIDE DEF open, offers
<1>5. CASE \E r \in offers :
             /\ \A s \in offers : Timestamp[r] <= Timestamp[s]
             /\ Earlier(r)
             /\ selected' = QueueOf(r) /\ selectedStamp' = Timestamp[r]
  <2>1. PICK r \in offers :
          /\ \A s \in offers : Timestamp[r] <= Timestamp[s]
          /\ Earlier(r)
          /\ selected' = QueueOf(r) /\ selectedStamp' = Timestamp[r]
    BY <1>5
  <2>2. r \in Requests /\ selected' # NoQueue
    BY <1>2, <1>3, <2>1
  <2>3. selected # NoQueue => selectedStamp' <= selectedStamp
    BY <1>3, <1>4, <2>1, <2>2 DEF Earlier
  <2>4. \A f \in FilesOf(line) :
          WaitingNow(f) = 0 /\ OfferOfFile(f) # NoRequest =>
            selectedStamp' <= Timestamp[OfferOfFile(f)]
    BY <1>2, <2>1
  <2>5. \E f \in FilesOf(line) :
          /\ WaitingNow(f) = 0 /\ OfferOfFile(f) # NoRequest
          /\ selected' = QueueOf(OfferOfFile(f))
          /\ selectedStamp' = Timestamp[OfferOfFile(f)]
    BY <1>2, <2>1
  <2> QED
    BY <2>2, <2>3, <2>4, <2>5
<1>6. CASE /\ \A r \in offers : ~Earlier(r)
           /\ selected' = selected /\ selectedStamp' = selectedStamp
  <2>1. \A r \in offers : selectedStamp # 0 /\ selectedStamp <= Timestamp[r]
    BY <1>6, <1>2, <1>3, <1>4 DEF Earlier
  <2>2. selected # NoQueue =>
          selected' # NoQueue /\ selectedStamp' <= selectedStamp
    BY <1>4, <1>6
  <2>3. \A f \in FilesOf(line) :
          WaitingNow(f) = 0 /\ OfferOfFile(f) # NoRequest =>
            /\ selected' # NoQueue
            /\ selectedStamp' <= Timestamp[OfferOfFile(f)]
    BY <1>2, <1>4, <1>6, <2>1
  <2> QED
    BY <1>6, <2>2, <2>3
<1> QED
  BY <1>1, <1>5, <1>6

(* The rest of the scan of a line.                                          *)
LEMMA ScanMoves ==
  ASSUME Scan
  PROVE  /\ pc = "scan" /\ UNCHANGED <<algorithm, owner, list, given, elapsed>>
         /\ waiting' = [f \in Files |-> IF f \in FilesOf(line) THEN WaitingNow(f)
                                        ELSE waiting[f]]
         /\ \/ line = NLines /\ pc' = "check" /\ line' = line
            \/ line # NLines /\ pc' = "scan" /\ line' = line + 1
         /\ factor' = [r \in Requests |->
                         IF r \in UNION {LookedAt(f) : f \in
                                    {g \in FilesOf(line) : WaitingNow(g) = 0}}
                         THEN Increment(factor[r]) ELSE factor[r]]
<1> DEFINE open == {f \in FilesOf(line) : WaitingNow(f) = 0}
<1>1. /\ pc = "scan" /\ UNCHANGED <<algorithm, owner, list, given, elapsed>>
      /\ waiting' = [f \in Files |-> IF f \in FilesOf(line) THEN WaitingNow(f)
                                     ELSE waiting[f]]
      /\ IF line = NLines THEN pc' = "check" /\ line' = line
         ELSE pc' = pc /\ line' = line + 1
  BY DEF Scan, store
<1>2. PICK looked \in {UNION {LookedAt(f) : f \in open}} :
        factor' = [r \in Requests |-> IF r \in looked THEN Increment(factor[r])
                                      ELSE factor[r]]
  BY DEF Scan
<1>3. looked = UNION {LookedAt(f) : f \in open}
  OBVIOUS
<1> QED
  BY <1>1, <1>2, <1>3

(* What is selected can be served.                                          *)
LEMMA SelectingInitially == Init => Selecting
<1> SUFFICES ASSUME Init PROVE Selecting
  OBVIOUS
<1>1. 1 \in Lines
  BY WaitingAssumption DEF Lines
<1>2. waiting \in [Files -> Nat] /\ elapsed \in [Files -> Nat]
  BY DEF Init
<1> QED
  BY <1>1, <1>2 DEF Init, Selecting

LEMMA SelectingStep == ListsOwn /\ Selecting /\ [Next]_vars => Selecting'
<1> SUFFICES ASSUME ListsOwn, Selecting, [Next]_vars PROVE Selecting'
  OBVIOUS
<1>a. /\ waiting \in [Files -> Nat] /\ elapsed \in [Files -> Nat]
      /\ line \in Lines /\ 1 \in Lines
      /\ selected \in Queues \cup {NoQueue} /\ selectedStamp \in Nat
      /\ WaitingTime \in Nat /\ NLines \in Nat \ {0} /\ NoQueue \notin Queues
  <2>1. WaitingTime \in Nat /\ NLines \in Nat \ {0} /\ NoQueue \notin Queues
    BY WaitingAssumption
  <2> QED
    BY <2>1 DEF Selecting, Lines
<1>b. ASSUME UNCHANGED <<waiting, elapsed, selected, selectedStamp, list>>,
             line' \in Lines, UNCHANGED algorithm,
             pc' \in {"call", "loop", "round"} => selected = NoQueue,
             pc' = "serve" => selected # NoQueue,
             pc' = "round" => algorithm = "MLF",
             pc' \in {"loop", "scan", "check", "serve"} => algorithm = "aIOLi",
             (algorithm = "aIOLi" /\ pc' \in {"call", "loop"}) => line' = 1
      PROVE  Selecting'
  BY <1>a, <1>b DEF Selecting
<1>1. CASE CallaIOLi
  <2>1. /\ UNCHANGED <<waiting, elapsed, selected, selectedStamp, list, line,
                       algorithm>>
        /\ pc = "call" /\ pc' = "loop" /\ algorithm = "aIOLi"
    BY <1>1 DEF CallaIOLi, store
  <2> QED
    BY <1>a, <1>b, <2>1 DEF Selecting
<1>2. CASE StartScan
  <2>1. /\ UNCHANGED <<waiting, elapsed, selected, selectedStamp, list, line,
                       algorithm>>
        /\ pc = "loop" /\ pc' \in {"scan", "call"}
    BY <1>2 DEF StartScan, store, aIOLiVars
  <2>2. algorithm = "aIOLi" /\ line = 1 /\ selected = NoQueue
    BY <2>1 DEF Selecting
  <2> QED
    BY <1>a, <1>b, <2>1, <2>2
<1>3. CASE Scan
  <2>1. /\ pc = "scan" /\ UNCHANGED <<algorithm, list, elapsed>>
        /\ waiting' = [f \in Files |-> IF f \in FilesOf(line) THEN WaitingNow(f)
                                       ELSE waiting[f]]
        /\ pc' \in {"check", "scan"} /\ line' \in Lines /\ algorithm = "aIOLi"
    <3>1. line + 1 \in Lines \/ line = NLines
      BY <1>a DEF Lines
    <3>2. algorithm = "aIOLi"
      BY <1>3, ScanMoves DEF Selecting
    <3> QED
      BY <1>3, <1>a, <3>1, <3>2, ScanMoves
  <2>2. \A f \in Files : /\ waiting'[f] \in Nat
                         /\ waiting[f] = 0 => waiting'[f] = 0
                         /\ f \in FilesOf(line) /\ WaitingNow(f) = 0
                              => waiting'[f] = 0
    BY <1>a, <2>1, WaitingNowFacts
  <2>3. waiting' \in [Files -> Nat]
    <3>1. waiting' = [f \in Files |-> waiting'[f]]
      BY <2>1
    <3> QED
      BY <3>1, <2>2
  <2>4. /\ selected' \in Queues \cup {NoQueue} /\ selectedStamp' \in Nat
        /\ (selected' = NoQueue) <=> (selectedStamp' = 0)
        /\ selected' # NoQueue => /\ waiting'[selected'[1]] = 0
                                  /\ list'[selected'] # <<>>
    <3>1. CASE selected' = selected /\ selectedStamp' = selectedStamp
      <4>1. selected # NoQueue => /\ waiting[selected[1]] = 0
                                  /\ list[selected] # <<>>
                                  /\ selected[1] \in Files
        BY QueueParts DEF Selecting
      <4>2. (selected = NoQueue) <=> (selectedStamp = 0)
        BY DEF Selecting
      <4> QED
        BY <1>a, <2>1, <2>2, <3>1, <4>1, <4>2
    <3>2. CASE \E f \in FilesOf(line) :
                 /\ WaitingNow(f) = 0 /\ OfferOfFile(f) # NoRequest
                 /\ selected' = QueueOf(OfferOfFile(f))
                 /\ selectedStamp' = Timestamp[OfferOfFile(f)]
      <4>1. PICK f \in FilesOf(line) :
              /\ WaitingNow(f) = 0 /\ OfferOfFile(f) # NoRequest
              /\ selected' = QueueOf(OfferOfFile(f))
              /\ selectedStamp' = Timestamp[OfferOfFile(f)]
        BY <3>2
      <4>2. f \in Files
        BY DEF FilesOf
      <4>3. /\ OfferOfFile(f) \in Requests /\ FileOf[OfferOfFile(f)] = f
            /\ list[QueueOf(OfferOfFile(f))] # <<>>
        BY <4>1, <4>2, OfferOfFileIsOwn
      <4>4. /\ QueueOf(OfferOfFile(f)) \in Queues
            /\ QueueOf(OfferOfFile(f))[1] = f
            /\ Timestamp[OfferOfFile(f)] \in Nat \ {0}
        BY <4>3, RequestParts
      <4> QED
        BY <1>a, <2>1, <2>2, <4>1, <4>2, <4>3, <4>4
    <3> QED
      BY <1>3, <3>1, <3>2, ScanSelects
  <2> QED
    BY <1>a, <2>1, <2>3, <2>4 DEF Selecting
<1>4. CASE CheckSelected
  <2> DEFINE r == Head(list[selected])
  <2>1. /\ pc = "check" /\ selected # NoQueue /\ UNCHANGED <<algorithm, list>>
        /\ IF Refuse(r).wait
           THEN /\ waiting' = [waiting EXCEPT ![FileOf[r]] = WaitingTime]
                /\ elapsed' = [elapsed EXCEPT ![FileOf[r]] = 0]
                /\ pc' = "loop" /\ ForgetScan
           ELSE /\ pc' = "serve"
                /\ UNCHANGED <<waiting, elapsed, line, selected, selectedStamp>>
    BY <1>4 DEF CheckSelected, store, aIOLiVars
  <2> HIDE DEF r
  <2>2. algorithm = "aIOLi"
    BY <2>1 DEF Selecting
  <2>3. CASE Refuse(r).wait
    <3>1. waiting' \in [Files -> Nat] /\ elapsed' \in [Files -> Nat]
      BY <1>a, <2>1, <2>3
    <3>2. /\ line' = 1 /\ selected' = NoQueue /\ selectedStamp' = 0
          /\ pc' = "loop" /\ UNCHANGED <<algorithm, list>>
      BY <2>1, <2>3 DEF ForgetScan
    <3> QED
      BY <1>a, <2>2, <3>1, <3>2 DEF Selecting
  <2>4. CASE ~Refuse(r).wait
    <3>1. /\ pc' = "serve" /\ UNCHANGED <<algorithm, list>>
          /\ UNCHANGED <<waiting, elapsed, line, selected, selectedStamp>>
      BY <2>1, <2>4
    <3> QED
      BY <1>a, <1>b, <2>1, <2>2, <3>1
  <2> QED
    BY <2>3, <2>4
<1>5. CASE NothingSelected
  <2>1. /\ pc = "check" /\ pc' \in {"call", "loop"}
        /\ UNCHANGED <<algorithm, list, waiting, elapsed>>
        /\ line' = 1 /\ selected' = NoQueue /\ selectedStamp' = 0
    BY <1>5 DEF NothingSelected, ForgetScan, store
  <2>2. algorithm = "aIOLi"
    BY <2>1 DEF Selecting
  <2> QED
    BY <1>a, <2>1, <2>2 DEF Selecting
<1>6. CASE Serve
  <2>1. /\ pc = "serve" /\ pc' = "loop"
        /\ UNCHANGED <<algorithm, waiting, elapsed>>
        /\ line' = 1 /\ selected' = NoQueue /\ selectedStamp' = 0
    BY <1>6 DEF Serve, ForgetScan
  <2>2. algorithm = "aIOLi"
    BY <2>1 DEF Selecting
  <2> QED
    BY <1>a, <2>1, <2>2 DEF Selecting
<1>7. CASE CallMLF \/ EndMLF
  <2>1. /\ UNCHANGED <<waiting, elapsed, selected, selectedStamp, list, line,
                       algorithm>>
        /\ \/ pc = "call" /\ algorithm = "MLF" /\ pc' = "round"
           \/ pc = "round" /\ pc' = "call"
    BY <1>7 DEF CallMLF, EndMLF, store, aIOLiVars
  <2>2. selected = NoQueue /\ algorithm = "MLF"
    BY <2>1 DEF Selecting
  <2> QED
    BY <1>a, <1>b, <2>1, <2>2
<1>8. CASE SkipLine
  <2>1. /\ UNCHANGED <<waiting, elapsed, selected, selectedStamp, list,
                       algorithm>>
        /\ pc = "round" /\ pc' \in {"call", "round"}
        /\ line' = (line % NLines) + 1
    BY <1>8 DEF SkipLine, NextLine, store, aIOLiVars
  <2>2. selected = NoQueue /\ algorithm = "MLF" /\ line' \in Lines
    BY <1>a, <2>1, NextLineInLines DEF Selecting
  <2> QED
    BY <1>a, <1>b, <2>1, <2>2
<1>9. CASE WorkLine
  <2>1. /\ UNCHANGED <<selected, selectedStamp, algorithm>>
        /\ pc = "round" /\ pc' \in {"call", "round"}
        /\ line' = (line % NLines) + 1
    BY <1>9 DEF WorkLine, NextLine, aIOLiVars
  <2>2. selected = NoQueue /\ algorithm = "MLF" /\ line' \in Lines
    BY <1>a, <2>1, NextLineInLines DEF Selecting
  <2>3. waiting' \in [Files -> Nat]
    <3>1. PICK F \in SUBSET Files :
            waiting' = [f \in Files |-> IF f \in F THEN WaitingAfter(f)
                                        ELSE waiting[f]]
      BY <1>9, WorkTakes
    <3>2. \A f \in Files : WaitingAfter(f) \in Nat
      BY <1>a, WaitingNowFacts DEF WaitingAfter
    <3> QED
      BY <1>a, <3>1, <3>2
  <2>4. elapsed' \in [Files -> Nat]
    <3>1. \E X : elapsed' = [f \in Files |-> IF f \in X THEN 0 ELSE elapsed[f]]
      <4> DEFINE F == IF \E r \in Queued : LineOf[FileOf[r]] = line
                      THEN FilesOf(line) ELSE {}
      <4>1. PICK offers \in {{OfferOfFile(f) : f \in F} \ {NoRequest}},
                 after \in {[f \in Files |-> IF f \in F THEN WaitingAfter(f)
                                             ELSE waiting[f]]} :
              elapsed' = [f \in Files |->
                            IF after[f] > 0 /\ \E r \in offers : FileOf[r] = f
                            THEN 0 ELSE elapsed[f]]
        BY <1>9 DEF WorkLine
      <4>2. elapsed' = [f \in Files |->
                          IF f \in {g \in Files : after[g] > 0 /\
                                       \E r \in offers : FileOf[r] = g}
                          THEN 0 ELSE elapsed[f]]
        BY <4>1
      <4> QED
        BY <4>2
    <3> QED
      BY <1>a, <3>1
  <2>5. (selected = NoQueue) <=> (selectedStamp = 0)
    BY DEF Selecting
  <2> QED
    BY <1>a, <2>1, <2>2, <2>3, <2>4, <2>5 DEF Selecting
<1>10. CASE Tick
  <2>1. /\ UNCHANGED <<algorithm, list, waiting, pc, line, selected,
                       selectedStamp>>
        /\ elapsed' = [f \in Files |->
                         IF waiting[f] > 0 /\ elapsed[f] < WaitingTime
                         THEN elapsed[f] + 1 ELSE elapsed[f]]
    BY <1>10 DEF Tick, store, aIOLiVars
  <2>2. elapsed' \in [Files -> Nat]
    BY <1>a, <2>1
  <2> QED
    BY <2>1, <2>2 DEF Selecting
<1>11. CASE \E r \in Requests : Lock(r)
  BY <1>11 DEF Lock, store, aIOLiVars, Selecting
<1>12. CASE \E r \in Requests : Link(r)
  <2>1. PICK r \in Requests : Link(r)
    BY <1>12
  <2>2. UNCHANGED <<algorithm, waiting, elapsed, pc, line, selected,
                    selectedStamp>>
    BY <2>1 DEF Link, aIOLiVars
  <2>3. selected # NoQueue => list'[selected] # <<>>
    <3>1. selected # NoQueue => selected \in Queues /\ list[selected] # <<>>
      BY DEF Selecting
    <3> QED
      BY <2>1, <3>1, LinkAdds
  <2> QED
    BY <2>2, <2>3 DEF Selecting
<1>13. CASE UNCHANGED vars
  BY <1>13 DEF vars, store, aIOLiVars, Selecting
<1> QED
  BY <1>1, <1>2, <1>3, <1>4, <1>5, <1>6, <1>7, <1>8, <1>9, <1>10, <1>11,
     <1>12, <1>13 DEF Next, aIOLi, MLF, Client

-----------------------------------------------------------------------------
(* The factors of the requests that are in no queue.                        *)
LEMMA FreshInitially == Init => FreshFactors
<1> SUFFICES ASSUME Init PROVE FreshFactors
  OBVIOUS
<1>1. factor \in [Requests -> Int]
  BY DEF Init
<1>2. /\ owner \in [Lines -> Requests \cup {NoRequest}]
      /\ \A l \in Lines : owner[l] = NoRequest
  BY DEF Init
<1> QED
  BY <1>1, <1>2 DEF Init, FreshFactors

(* Only what leaves its queue needs a factor of 0.                          *)
LEMMA FactorsWhenTaken ==
  ASSUME FreshFactors, owner' = owner, factor' \in [Requests -> Int],
         Queued' \subseteq Queued,
         \A r \in Requests : r \notin Queued' =>
           factor'[r] = 0 \/ (r \notin Queued /\ factor'[r] = factor[r])
  PROVE  FreshFactors'
<1>1. owner' \in [Lines -> Requests \cup {NoRequest}]
  BY DEF FreshFactors
<1>2. ASSUME NEW r \in Requests, r \notin Queued' PROVE factor'[r] = 0
  BY <1>2 DEF FreshFactors
<1>3. ASSUME NEW l \in Lines, owner'[l] # NoRequest
      PROVE  owner'[l] \notin Queued' /\ LineOf[FileOf[owner'[l]]] = l
  BY <1>3 DEF FreshFactors
<1> QED
  BY <1>1, <1>2, <1>3 DEF FreshFactors

LEMMA FreshStep ==
  ListsOwn /\ Selecting /\ FreshFactors /\ [Next]_vars => FreshFactors'
<1> SUFFICES ASSUME ListsOwn, Selecting, FreshFactors, [Next]_vars
             PROVE  FreshFactors'
  OBVIOUS
<1>a. /\ factor \in [Requests -> Int]
      /\ owner \in [Lines -> Requests \cup {NoRequest}]
  BY DEF FreshFactors
<1>1. CASE \E r \in Requests : Lock(r)
  <2>1. PICK r \in Requests : Lock(r)
    BY <1>1
  <2> DEFINE k == LineOf[FileOf[r]]
  <2>2. /\ r \notin Queued /\ owner' = [owner EXCEPT ![k] = r]
        /\ factor' = factor /\ list' = list
    BY <2>1 DEF Lock
  <2>3. k \in Lines
    BY RequestParts
  <2>4. Queued' = Queued
    BY <2>2 DEF Queued
  <2>5. owner' \in [Lines -> Requests \cup {NoRequest}]
    BY <1>a, <2>2, <2>3
  <2>6. ASSUME NEW l \in Lines, owner'[l] # NoRequest
        PROVE  owner'[l] \notin Queued' /\ LineOf[FileOf[owner'[l]]] = l
    <3>1. CASE l = k
      BY <1>a, <2>2, <2>3, <2>4, <3>1
    <3>2. CASE l # k
      <4>1. owner'[l] = owner[l]
        BY <1>a, <2>2, <3>2
      <4> QED
        BY <2>4, <2>6, <4>1 DEF FreshFactors
    <3> QED
      BY <3>1, <3>2
  <2> QED
    BY <2>2, <2>4, <2>5, <2>6 DEF FreshFactors
<1>2. CASE \E r \in Requests : Link(r)
  <2>1. PICK r \in Requests : Link(r)
    BY <1>2
  <2> DEFINE k == LineOf[FileOf[r]]
  <2>2. /\ owner[k] = r /\ owner' = [owner EXCEPT ![k] = NoRequest]
        /\ factor' = factor
    BY <2>1 DEF Link
  <2>3. k \in Lines
    BY RequestParts
  <2>4. owner' \in [Lines -> Requests \cup {NoRequest}]
    BY <1>a, <2>2, <2>3
  <2>5. \A q \in Queues : /\ ToSet(list[q]) \subseteq ToSet(list'[q])
                          /\ ToSet(list'[q]) \subseteq ToSet(list[q]) \cup {r}
    BY <2>1, LinkAdds
  <2>6. Queued \subseteq Queued' /\ Queued' \subseteq Queued \cup {r}
    BY <2>5 DEF Queued
  <2>7. \A x \in Requests : x \notin Queued' => factor'[x] = 0
    BY <2>2, <2>6 DEF FreshFactors
  <2>8. ASSUME NEW l \in Lines, owner'[l] # NoRequest
        PROVE  owner'[l] \notin Queued' /\ LineOf[FileOf[owner'[l]]] = l
    <3>1. l # k /\ owner'[l] = owner[l]
      BY <1>a, <2>2, <2>3, <2>8
    <3>2. owner[l] \notin Queued /\ LineOf[FileOf[owner[l]]] = l
      BY <2>8, <3>1 DEF FreshFactors
    <3>3. owner[l] # r
      BY <3>1, <3>2
    <3> QED
      BY <2>6, <3>1, <3>2, <3>3
  <2> QED
    BY <2>2, <1>a, <2>4, <2>7, <2>8 DEF FreshFactors
<1>3. CASE Scan
  <2> DEFINE looked == UNION {LookedAt(f) : f \in
                                {g \in FilesOf(line) : WaitingNow(g) = 0}}
  <2>1. /\ owner' = owner /\ list' = list
        /\ factor' = [r \in Requests |-> IF r \in looked
                                         THEN Increment(factor[r])
                                         ELSE factor[r]]
    BY <1>3, ScanMoves
  <2>2. looked \subseteq Queued
    <3>1. ASSUME NEW f \in FilesOf(line) PROVE LookedAt(f) \subseteq Queued
      <4>1. <<f, "read">> \in Queues /\ <<f, "write">> \in Queues
        BY DEF FilesOf, Queues, Types
      <4> QED
        BY <4>1 DEF LookedAt, Queued
    <3> QED
      BY <3>1
  <2> HIDE DEF looked
  <2>3. factor' \in [Requests -> Int]
    BY <1>a, <2>1, IncrementIsInt
  <2>4. Queued' = Queued
    BY <2>1 DEF Queued
  <2> QED
    BY <2>1, <2>2, <2>3, <2>4, FactorsWhenTaken
<1>4. CASE Serve
  <2>1. PICK turn : /\ given' = given \cup turn
                    /\ ToSet(list[selected]) = turn \cup ToSet(list'[selected])
    BY <1>4, ServeTakes
  <2>2. /\ owner' = owner
        /\ factor' = [r \in Requests |-> IF r \in given' THEN 0 ELSE factor[r]]
    BY <1>4 DEF Serve
  <2>3. factor' \in [Requests -> Int]
    BY <1>a, <2>2
  <2>4. /\ selected \in Queues
        /\ \A q \in Queues : q # selected => list'[q] = list[q]
    BY <1>4, ServeTakes
  <2>5. \A q \in Queues : /\ ToSet(list'[q]) \subseteq ToSet(list[q])
                          /\ ToSet(list[q]) \subseteq turn \cup ToSet(list'[q])
    BY <2>1, <2>4
  <2>6. Queued' \subseteq Queued /\ Queued \subseteq turn \cup Queued'
    BY <2>5 DEF Queued
  <2>7. ASSUME NEW r \in Requests, r \notin Queued'
        PROVE  factor'[r] = 0 \/ (r \notin Queued /\ factor'[r] = factor[r])
    BY <2>1, <2>2, <2>6, <2>7
  <2> QED
    BY <2>2, <2>3, <2>6, <2>7, FactorsWhenTaken
<1>5. CASE WorkLine
  <2>1. PICK F \in SUBSET Files :
          /\ \A q \in Queues :
               ToSet(list[q]) \subseteq ToSet(list'[q]) \cup Taken(F)
          /\ factor' = [r \in Requests |->
                          IF r \in Taken(F) THEN 0
                          ELSE IF r \in UNION {LookedAt(f) : f \in F}
                               THEN Increment(factor[r]) ELSE factor[r]]
    BY <1>5, WorkTakes
  <2>2. owner' = owner /\ \A q \in Queues : ToSet(list'[q]) \subseteq ToSet(list[q])
    BY <1>5, WorkTakes DEF WorkLine
  <2> DEFINE taken == Taken(F)
             looked == UNION {LookedAt(f) : f \in F}
  <2>3. looked \subseteq Queued
    <3>1. ASSUME NEW f \in F PROVE LookedAt(f) \subseteq Queued
      <4>1. <<f, "read">> \in Queues /\ <<f, "write">> \in Queues
        BY DEF Queues, Types
      <4> QED
        BY <4>1 DEF LookedAt, Queued
    <3> QED
      BY <3>1
  <2> HIDE DEF taken, looked
  <2>4. /\ \A q \in Queues : ToSet(list[q]) \subseteq ToSet(list'[q]) \cup taken
        /\ factor' = [r \in Requests |->
                        IF r \in taken THEN 0
                        ELSE IF r \in looked THEN Increment(factor[r])
                        ELSE factor[r]]
    BY <2>1 DEF taken, looked
  <2>5. factor' \in [Requests -> Int]
    BY <1>a, <2>4, IncrementIsInt
  <2>6. Queued' \subseteq Queued /\ Queued \subseteq taken \cup Queued'
    BY <2>2, <2>4 DEF Queued
  <2>7. ASSUME NEW r \in Requests, r \notin Queued'
        PROVE  factor'[r] = 0 \/ (r \notin Queued /\ factor'[r] = factor[r])
    BY <2>3, <2>4, <2>6, <2>7
  <2> QED
    BY <2>2, <2>5, <2>6, <2>7, FactorsWhenTaken
<1>6. CASE UNCHANGED <<owner, list, factor>>
  <2>1. Queued' = Queued
    BY <1>6 DEF Queued
  <2> QED
    BY <1>6, <2>1 DEF FreshFactors
<1>7. \/ \E r \in Requests : Lock(r) \/ Link(r)
      \/ Scan \/ Serve \/ WorkLine \/ UNCHANGED <<owner, list, factor>>
  BY DEF Next, aIOLi, MLF, Client, Tick, CallaIOLi, StartScan, CheckSelected,
     NothingSelected, CallMLF, EndMLF, SkipLine, vars, store
<1> QED
  BY <1>1, <1>2, <1>3, <1>4, <1>5, <1>6, <1>7

-----------------------------------------------------------------------------
(* A request whose new factor makes it fit is within its quantum.           *)
LEMMA FitsItsQuantum ==
  ASSUME NEW h \in Requests, factor[h] \in Int,
         0 < Increment(factor[h]) * Quantum,
         Increment(factor[h]) * Quantum <= INT_MAX,
         Length[h] <= Increment(factor[h]) * Quantum
  PROVE  WithinQuantum(h)
<1> DEFINE n == Increment(factor[h]) * Quantum
<1>1. n \in Int /\ INT_MAX \in Nat
  <2>1. Increment(factor[h]) \in Int
    BY IncrementIsInt
  <2> QED
    BY <2>1, WaitingAssumption
<1>2. 0 < n /\ n <= INT_MAX
  OBVIOUS
<1>3. n \in 0..INT_MAX
  <2> HIDE DEF n, INT_MAX
  <2> QED
    BY <1>1, <1>2
<1>4. Wrap(n) = n
  BY <1>3, WrapFits
<1> QED
  BY <1>4 DEF WithinQuantum

(* FIFO between the files.  A queue that is ready after its line is scanned *)
(* made its file offer its first request.                                   *)
LEMMA ReadyOffers ==
  ASSUME ListsOwn, FreshFactors, Scan, NEW q \in Queues,
         LineOf[q[1]] = line, Ready(q)'
  PROVE  /\ q[1] \in FilesOf(line) /\ WaitingNow(q[1]) = 0
         /\ OfferOfFile(q[1]) = Head(list[q]) /\ Head(list[q]) \in Requests
<1> DEFINE f == q[1]
           h == Head(list[q])
           open == {g \in FilesOf(line) : WaitingNow(g) = 0}
<1>1. /\ list' = list
      /\ waiting' = [g \in Files |-> IF g \in FilesOf(line) THEN WaitingNow(g)
                                     ELSE waiting[g]]
      /\ factor' = [r \in Requests |-> IF r \in UNION {LookedAt(g) : g \in open}
                                       THEN Increment(factor[r]) ELSE factor[r]]
  BY ScanMoves
<1>2. /\ list[q] # <<>> /\ waiting'[f] = 0
      /\ q[2] = "write" => list[<<f, "read">>] = <<>>
      /\ 0 < factor'[h] * Quantum /\ factor'[h] * Quantum <= INT_MAX
      /\ Length[h] <= factor'[h] * Quantum
  BY <1>1 DEF Ready
<1>3. f \in Files /\ f \in FilesOf(line) /\ q \in {<<f, "read">>, <<f, "write">>}
  BY QueueParts DEF FilesOf, Queues, Types
<1>4. WaitingNow(f) = 0 /\ f \in open
  BY <1>1, <1>2, <1>3
<1>5. list[q] \in Seq(Requests) /\ h \in Requests /\ h \in ToSet(list[q])
  <2>1. list[q] \in Seq(Requests)
    BY DEF ListsOwn
  <2>2. h = list[q][1] /\ 1 \in DOMAIN list[q]
    BY <1>2, <2>1, EmptySeq, LenProperties
  <2> QED
    BY <2>1, <2>2, ElementOfSeq DEF ToSet
<1>6. CASE q = <<f, "read">>
  <2>1. h \in LookedAt(f)
    BY <1>5, <1>6 DEF LookedAt
  <2>2. factor'[h] = Increment(factor[h])
    BY <1>1, <1>4, <1>5, <2>1
  <2>3. WithinQuantum(h)
    <3>1. factor[h] \in Int
      BY <1>5 DEF FreshFactors
    <3> QED
      BY <1>2, <1>5, <2>2, <3>1, FitsItsQuantum
  <2>4. Offer(q) = h
    BY <1>2, <1>5, <2>3, FirstIsOffered
  <2>5. h # NoRequest
    BY <1>5, RequestParts
  <2> QED
    BY <1>3, <1>4, <1>5, <1>6, <2>4, <2>5 DEF OfferOfFile
<1>7. CASE q = <<f, "write">>
  <2>1. Offer(<<f, "read">>) = NoRequest
    BY <1>2, <1>7, NothingOffered
  <2>2. h \in LookedAt(f)
    BY <1>5, <1>7, <2>1 DEF LookedAt
  <2>3. factor'[h] = Increment(factor[h])
    BY <1>1, <1>4, <1>5, <2>2
  <2>4. WithinQuantum(h)
    <3>1. factor[h] \in Int
      BY <1>5 DEF FreshFactors
    <3> QED
      BY <1>2, <1>5, <2>3, <3>1, FitsItsQuantum
  <2>5. Offer(q) = h
    BY <1>2, <1>5, <2>4, FirstIsOffered
  <2> QED
    BY <1>3, <1>4, <1>5, <1>7, <2>1, <2>5 DEF OfferOfFile
<1> QED
  BY <1>3, <1>6, <1>7

(* The scan of a line leaves the queues of other lines as they were.        *)
LEMMA OthersStayReady ==
  ASSUME ListsOwn, Scan, NEW q \in Queues, LineOf[q[1]] # line, Ready(q)'
  PROVE  /\ Ready(q) /\ list'[q] = list[q]
<1> DEFINE h == Head(list[q])
           looked == UNION {LookedAt(f) : f \in
                              {g \in FilesOf(line) : WaitingNow(g) = 0}}
<1>1. /\ list' = list
      /\ waiting' = [f \in Files |-> IF f \in FilesOf(line) THEN WaitingNow(f)
                                     ELSE waiting[f]]
      /\ factor' = [r \in Requests |-> IF r \in looked THEN Increment(factor[r])
                                       ELSE factor[r]]
  BY ScanMoves
<1>2. q[1] \in Files /\ q[1] \notin FilesOf(line)
  BY QueueParts DEF FilesOf
<1>3. waiting'[q[1]] = waiting[q[1]]
  BY <1>1, <1>2
<1>4. list[q] # <<>>
  BY <1>1 DEF Ready
<1>5. h \in ToSet(list[q])
  <2>1. list[q] \in Seq(Requests)
    BY DEF ListsOwn
  <2>2. h = list[q][1] /\ 1 \in DOMAIN list[q]
    BY <1>4, <2>1, EmptySeq, LenProperties
  <2> QED
    BY <2>2 DEF ToSet
<1>6. h \in Requests /\ FileOf[h] = q[1]
  BY <1>5, Members
<1>7. \A r \in looked : FileOf[r] \in FilesOf(line)
  <2>1. ASSUME NEW f \in FilesOf(line), NEW r \in LookedAt(f)
        PROVE  FileOf[r] = f
    <3>1. /\ <<f, "read">> \in Queues /\ <<f, "write">> \in Queues
          /\ <<f, "read">>[1] = f /\ <<f, "write">>[1] = f
      BY DEF FilesOf, Queues, Types
    <3>2. r \in ToSet(list[<<f, "read">>]) \/ r \in ToSet(list[<<f, "write">>])
      BY DEF LookedAt
    <3> QED
      BY <3>1, <3>2, Members
  <2> QED
    BY <2>1
<1>8. h \notin looked
  BY <1>2, <1>6, <1>7
<1> HIDE DEF looked
<1>9. factor'[h] = factor[h]
  BY <1>1, <1>6, <1>8
<1> QED
  BY <1>1, <1>3, <1>9 DEF Ready

LEMMA FifoInitially == Init => FifoSoFar
  BY DEF Init, FifoSoFar, Scanned

LEMMA FifoStep ==
  ListsOwn /\ Selecting /\ FreshFactors /\ FifoSoFar /\ [Next]_vars
    => FifoSoFar'
<1> SUFFICES ASSUME ListsOwn, Selecting, FreshFactors, FifoSoFar, [Next]_vars
             PROVE  FifoSoFar'
  OBVIOUS
<1>1. CASE Scan
  <2>1. SUFFICES ASSUME NEW q \in Queues, Scanned(LineOf[q[1]])', Ready(q)'
                 PROVE  Preceded(q)'
    BY DEF FifoSoFar
  <2>2. list' = list /\ pc = "scan"
    BY <1>1, ScanMoves
  <2>3. CASE LineOf[q[1]] = line
    <3>1. /\ q[1] \in FilesOf(line) /\ WaitingNow(q[1]) = 0
          /\ OfferOfFile(q[1]) = Head(list[q]) /\ Head(list[q]) \in Requests
      BY <1>1, <2>1, <2>3, ReadyOffers
    <3>2. Head(list[q]) # NoRequest
      BY <3>1, RequestParts
    <3>3. selected' # NoQueue /\ selectedStamp' <= Timestamp[Head(list[q])]
      BY <1>1, <3>1, <3>2, ScanSelects
    <3> QED
      BY <2>2, <3>3 DEF Preceded
  <2>4. CASE LineOf[q[1]] # line
    <3>1. Ready(q)
      BY <1>1, <2>1, <2>4, OthersStayReady
    <3>2. Scanned(LineOf[q[1]])
      <4>1. LineOf[q[1]] \in Lines /\ line \in Lines /\ NLines \in Nat
        BY QueueParts, WaitingAssumption DEF Selecting
      <4>2. pc' = "check" => line = NLines
        BY <1>1, ScanMoves
      <4>3. pc' = "scan" => line' = line + 1
        BY <1>1, ScanMoves
      <4>4. LineOf[q[1]] < line
        BY <2>1, <2>4, <4>1, <4>2, <4>3 DEF Scanned, Lines
      <4> QED
        BY <2>2, <4>4 DEF Scanned
    <3>3. selected # NoQueue /\ selectedStamp <= Timestamp[Head(list[q])]
      BY <3>1, <3>2 DEF FifoSoFar, Preceded
    <3>4. selected' # NoQueue /\ selectedStamp' <= selectedStamp
      BY <1>1, <3>3, ScanSelects
    <3>5. selectedStamp \in Nat /\ selectedStamp' \in Nat
      BY SelectingStep DEF Selecting
    <3>6. Timestamp[Head(list[q])] \in Nat
      <4>1. list[q] # <<>> /\ list[q] \in Seq(Requests)
        BY <3>1 DEF Ready, ListsOwn
      <4>2. Head(list[q]) \in Requests
        BY <4>1, HeadTailProperties
      <4> QED
        BY <4>2, RequestParts
    <3> QED
      BY <2>2, <3>3, <3>4, <3>5, <3>6 DEF Preceded
  <2> QED
    BY <2>3, <2>4
<1>2. CASE StartScan
  <2>1. \A q \in Queues : ~Scanned(LineOf[q[1]])'
    <3> SUFFICES ASSUME NEW q \in Queues PROVE ~Scanned(LineOf[q[1]])'
      OBVIOUS
    <3>1. /\ pc = "loop" /\ pc' \in {"scan", "call"} /\ line' = line
      BY <1>2 DEF StartScan
    <3>2. line' = 1
      BY <3>1 DEF Selecting
    <3>3. LineOf[q[1]] \in 1..NLines
      BY QueueParts DEF Lines
    <3> QED
      BY <3>1, <3>2, <3>3, WaitingAssumption DEF Scanned
  <2> QED
    BY <2>1 DEF FifoSoFar
<1>3. CASE \/ CallaIOLi \/ CheckSelected \/ NothingSelected \/ Serve
           \/ MLF
  <2>1. pc' \in {"call", "loop", "serve", "round"}
    BY <1>3 DEF CallaIOLi, CheckSelected, NothingSelected, Serve, MLF, CallMLF,
       EndMLF, SkipLine, WorkLine, NextLine
  <2> QED
    BY <2>1 DEF FifoSoFar, Scanned
<1>4. CASE UNCHANGED <<list, factor, waiting, pc, line, selected, selectedStamp>>
  BY <1>4 DEF FifoSoFar, Scanned, Ready, Preceded
<1>5. CASE \E r \in Requests : Link(r)
  <2>1. PICK r \in Requests : Link(r)
    BY <1>5
  <2>2. UNCHANGED <<factor, waiting, pc, line, selected, selectedStamp>>
    BY <2>1 DEF Link, aIOLiVars
  <2>3. factor[r] = 0
    <3>1. owner[LineOf[FileOf[r]]] = r
      BY <2>1 DEF Link
    <3>2. LineOf[FileOf[r]] \in Lines /\ r # NoRequest
      BY RequestParts
    <3>3. r \notin Queued
      BY <3>1, <3>2 DEF FreshFactors
    <3> QED
      BY <3>3 DEF FreshFactors
  <2>4. SUFFICES ASSUME NEW q \in Queues, Scanned(LineOf[q[1]])', Ready(q)'
                 PROVE  Preceded(q)'
    BY DEF FifoSoFar
  <2>5. Scanned(LineOf[q[1]])
    BY <2>2, <2>4 DEF Scanned
  <2>6. Head(list'[q]) # r
    <3>1. Quantum \in Nat
      BY WaitingAssumption
    <3>2. 0 < factor'[Head(list'[q])] * Quantum
      BY <2>4 DEF Ready
    <3> QED
      BY <2>2, <2>3, <3>1, <3>2
  <2>7. list[q] # <<>> /\ Head(list'[q]) = Head(list[q])
    <3>1. list'[q] # <<>>
      BY <2>4 DEF Ready
    <3> QED
      BY <2>1, <2>6, <3>1, LinkAdds
  <2>8. list'[<<q[1], "read">>] = <<>> => list[<<q[1], "read">>] = <<>>
    <3>1. <<q[1], "read">> \in Queues
      BY QueueParts DEF Queues, Types
    <3> QED
      BY <2>1, <3>1, LinkAdds
  <2>9. Ready(q)
    BY <2>2, <2>4, <2>7, <2>8 DEF Ready
  <2> QED
    BY <2>2, <2>5, <2>7, <2>9 DEF FifoSoFar, Preceded
<1> QED
  BY <1>1, <1>2, <1>3, <1>4, <1>5
  DEF Next, aIOLi, Client, Lock, Tick, vars, store, aIOLiVars

-----------------------------------------------------------------------------
(* FIFO between files: after aIOLi has looked at every line, each file that *)
(* was ready is preceded by a selection at least as old, whatever the       *)
(* clients linked in the lines meanwhile.                                   *)
THEOREM FifoHolds == Spec => []FifoBetweenFiles
<1> DEFINE Inv == ListsOwn /\ Selecting /\ FreshFactors /\ FifoSoFar
<1>1. Init => Inv
  BY ListsInitially, SelectingInitially, FreshInitially, FifoInitially
<1>2. Inv /\ [Next]_vars => Inv'
  BY ListsStep, SelectingStep, FreshStep, FifoStep
<1>3. Inv => FifoBetweenFiles
  BY DEF FifoSoFar, Scanned, FifoBetweenFiles
<1> QED
  BY <1>1, <1>2, <1>3, PTL DEF Spec

(* A request is given back only when its file does not wait.                *)
LEMMA GivenWhenNotWaiting ==
  ListsOwn /\ Selecting /\ [Next]_vars
    => [\A r \in given' \ given : waiting'[FileOf[r]] = 0]_vars
<1> SUFFICES ASSUME ListsOwn, Selecting, Next, NEW r \in given' \ given
             PROVE  waiting'[FileOf[r]] = 0
  OBVIOUS
<1>1. CASE Serve
  <2>1. PICK turn : /\ given' = given \cup turn
                    /\ ToSet(list[selected]) = turn \cup ToSet(list'[selected])
    BY <1>1, ServeTakes
  <2>2. selected \in Queues /\ waiting[selected[1]] = 0
    BY <1>1, ServeTakes
  <2>3. r \in ToSet(list[selected])
    BY <2>1
  <2>4. FileOf[r] = selected[1]
    BY <2>2, <2>3, Members
  <2>5. waiting' = waiting
    BY <1>1 DEF Serve
  <2> QED
    BY <2>2, <2>4, <2>5
<1>2. CASE WorkLine
  <2>1. PICK F \in SUBSET Files :
          /\ given' = given \cup Taken(F)
          /\ waiting' = [f \in Files |-> IF f \in F THEN WaitingAfter(f)
                                         ELSE waiting[f]]
    BY <1>2, WorkTakes
  <2>2. PICK f \in F : WaitingAfter(f) = 0 /\ r = OfferOfFile(f) /\ r # NoRequest
    BY <2>1 DEF Taken
  <2>3. f \in Files /\ FileOf[r] = f
    BY <2>1, <2>2, OfferOfFileIsOwn
  <2> QED
    BY <2>1, <2>2, <2>3
<1>3. CASE given' = given
  BY <1>3
<1> QED
  BY <1>1, <1>2, <1>3
  DEF Next, aIOLi, MLF, Client, Lock, Link, Tick, CallaIOLi, StartScan, Scan,
      CheckSelected, NothingSelected, CallMLF, EndMLF, SkipLine

(* A request is given back only when its file does not wait, although aIOLi *)
(* chooses, checks and takes in three critical sections, between which the  *)
(* clients add requests and the time of waiting files passes.               *)
THEOREM WaitingIsRespected == Spec => NotWhileWaiting
<1> DEFINE Inv == ListsOwn /\ Selecting
<1>1. Init => Inv
  BY ListsInitially, SelectingInitially
<1>2. Inv /\ [Next]_vars => Inv'
  BY ListsStep, SelectingStep
<1>3. Inv /\ [Next]_vars
        => [\A r \in given' \ given : waiting'[FileOf[r]] = 0]_vars
  BY GivenWhenNotWaiting
<1> QED
  BY <1>1, <1>2, <1>3, PTL DEF Spec, NotWhileWaiting

-----------------------------------------------------------------------------
(* The types.  An integer that is wrapped has Width bits.                   *)
LEMMA Bounds ==
  /\ INT_MAX \in Nat /\ INT_MAX >= 2
  /\ WaitingTime \in 1..INT_MAX
  /\ Quantum \in Nat /\ MaxQuantum \in Nat /\ MaxLockTries \in Nat
  /\ 1 \in Lines
<1>1. INT_MAX \in Nat /\ WaitingTime \in 1..(INT_MAX - 1) /\ NLines \in Nat \ {0}
  BY WaitingAssumption
<1>2. Quantum \in Nat /\ MaxQuantum \in Nat /\ MaxLockTries \in Nat
  BY WaitingAssumption
<1> HIDE DEF INT_MAX
<1> QED
  BY <1>1, <1>2 DEF Lines

LEMMA IncrementFits ==
  ASSUME NEW n \in Int
  PROVE  Increment(n) \in -(INT_MAX + 1)..INT_MAX
<1> DEFINE M == INT_MAX + 1
<1>1. INT_MAX \in Nat /\ INT_MAX >= 1 /\ M \in Nat /\ M > 0
  BY Bounds
<1>2. Increment(n) = IF n = 0 THEN 1 ELSE ((2 * n + INT_MAX + 1) % (2 * M)) - M
  BY DEF Increment, Wrap
<1>3. 2 * n + INT_MAX + 1 \in Int /\ 2 * M \in Nat /\ 2 * M > 0
  BY <1>1
<1>4. (2 * n + INT_MAX + 1) % (2 * M) \in 0..(2 * M - 1)
  <2> DEFINE a == 2 * n + INT_MAX + 1
             b == 2 * M
  <2>1. a \in Int /\ b \in Nat /\ b > 0
    BY <1>3
  <2> HIDE DEF a, b
  <2>2. a % b \in 0..(b - 1)
    BY <2>1
  <2> QED
    BY <2>2 DEF a, b
<1>5. -(INT_MAX + 1) = -M /\ INT_MAX = M - 1
  BY <1>1
<1> HIDE DEF M
<1> QED
  BY <1>1, <1>2, <1>4, <1>5

(* The time a file has left, and the shortest of them.                      *)
LEMMA TimeLeft ==
  ASSUME waiting \in [Files -> 0..WaitingTime],
         elapsed \in [Files -> 0..WaitingTime], NEW f \in Files
  PROVE  WaitingNow(f) \in 0..WaitingTime /\ WaitingAfter(f) \in 0..WaitingTime
<1>1. WaitingTime \in Nat /\ waiting[f] \in 0..WaitingTime /\ elapsed[f] \in Nat
  BY Bounds
<1>2. WaitingNow(f) \in 0..WaitingTime
  BY <1>1 DEF WaitingNow
<1> QED
  BY <1>1, <1>2 DEF WaitingAfter

LEMMA ShortestFits ==
  ASSUME waiting \in [Files -> 0..WaitingTime],
         elapsed \in [Files -> 0..WaitingTime],
         shortest \in 1..INT_MAX, NEW F \in SUBSET Files
  PROVE  ShortestOf(F) \in 1..INT_MAX
<1> DEFINE times == {WaitingNow(f) : f \in F} \ {0}
           S == {shortest} \cup times
<1>1. WaitingTime \in 1..INT_MAX /\ INT_MAX \in Nat
  BY Bounds
<1>2. \A f \in F : WaitingNow(f) \in 0..WaitingTime
  BY TimeLeft
<1>3. times \subseteq 1..INT_MAX
  <2>1. ASSUME NEW t \in times PROVE t \in 1..INT_MAX
    <3>1. t \in 0..WaitingTime /\ t # 0
      BY <1>2
    <3> QED
      BY <1>1, <3>1
  <2> QED
    BY <2>1
<1>4. S \subseteq 1..INT_MAX /\ S # {}
  <2> HIDE DEF times
  <2> QED
    BY <1>3
<1>5. S \subseteq Nat
  BY <1>1, <1>4
<1>6. ShortestOf(F) = Min(S)
  BY DEF ShortestOf
<1> HIDE DEF S
<1>7. Min(S) \in S
  BY <1>4, <1>5, LeastNumber
<1> QED
  BY <1>4, <1>6, <1>7

(* What a queue remembers.                                                  *)
LEMMA RequestNumbers ==
  ASSUME NEW r \in Requests
  PROVE  Offset[r] \in Nat /\ Length[r] \in Nat /\ Reqnb[r] \in Nat
  BY WaitingAssumption

LEMMA RefuseType ==
  ASSUME info \in [Queues -> Info], NEW r \in Requests
  PROVE  Refuse(r).info \in Info
<1> DEFINE i == info[QueueOf(r)]
<1>1. i \in Info
  BY RequestParts
<1>2. Refuse(r).info \in {[i EXCEPT !.predictedoff = 0],
                          [i EXCEPT !.lastaggregation = 0], i}
  BY DEF Refuse
<1> HIDE DEF i
<1>3. /\ [i EXCEPT !.predictedoff = 0] \in Info
      /\ [i EXCEPT !.lastaggregation = 0] \in Info
  BY <1>1 DEF Info
<1> QED
  BY <1>1, <1>2, <1>3

LEMMA PostProcessType ==
  ASSUME NEW i \in Info, NEW r \in Requests
  PROVE  PostProcess(i, r) \in Info
<1> DEFINE final == Offset[r] + Length[r]
           predicted == IF Offset[r] < i.laststartoff /\ i.predictedoff = 0
                        THEN final ELSE i.predictedoff
<1>1. /\ Offset[r] \in Nat /\ final \in Nat /\ Reqnb[r] \in Nat
      /\ predicted \in Nat
  BY RequestNumbers DEF Info
<1>2. PostProcess(i, r) = [i EXCEPT !.lastfinaloff = final,
                                    !.predictedoff = predicted,
                                    !.laststartoff = Offset[r],
                                    !.lastaggregation = Reqnb[r]]
  BY DEF PostProcess, Info
<1> HIDE DEF final, predicted
<1> QED
  BY <1>1, <1>2 DEF Info

(* A turn does that for each of its requests.                               *)
LEMMA PostProcessLoop ==
  ASSUME NEW i \in Info, NEW rs \in Seq(Requests)
  PROVE  ForEach(PostProcess, i, rs) \in Info
<1> DEFINE n == Len(rs)
           F == [k \in 1..n |-> [x \in Info |-> PostProcess(x, rs[k])]]
           Eq(g) == g = [k \in 0..n |-> IF k = 0 THEN i
                                       ELSE PostProcess(g[k - 1], rs[k])]
           h == CHOOSE g : Eq(g)
<1>1. n \in Nat /\ \A k \in 1..n : rs[k] \in Requests
  BY LenProperties
<1>2. ASSUME NEW a \in Info, NEW k \in 1..n
      PROVE  PostProcess(a, rs[k]) \in Info
  BY <1>1, PostProcessType
<1> HIDE DEF n
<1>3. F \in [1..n -> [Info -> Info]]
  BY <1>2
<1>4. PICK g \in [0..n -> Info] : Climbs(g, n, i, F)
  <2> HIDE DEF F
  <2> QED
    BY <1>1, <1>3, Steps
<1>5. ASSUME NEW k \in 1..n PROVE g[k] = PostProcess(g[k - 1], rs[k])
  <2>1. k - 1 \in 0..n
    BY <1>1
  <2>2. g[k - 1] \in Info
    BY <2>1
  <2>3. g[k] = F[k][g[k - 1]]
    BY <1>4 DEF Climbs
  <2> QED
    BY <2>2, <2>3
<1>6. g = [k \in 0..n |-> g[k]] /\ g[0] = i
  BY <1>1, <1>4 DEF Climbs
<1>7. Eq(g)
  <2>1. ASSUME NEW k \in 0..n, k # 0 PROVE k \in 1..n
    BY <1>1, <2>1
  <2> QED
    BY <1>5, <1>6, <2>1
<1>8. Eq(h)
  <2> HIDE DEF Eq
  <2> QED
    BY <1>7
<1>9. ForEach(PostProcess, i, rs) = h[n]
  BY DEF ForEach, n
<1> HIDE DEF h
<1>10. h = [k \in 0..n |-> h[k]] /\ h[0] = i
  BY <1>1, <1>8
<1>11. ASSUME NEW k \in 1..n PROVE h[k] = PostProcess(h[k - 1], rs[k])
  <2>1. k \in 0..n /\ k # 0
    BY <1>1
  <2> QED
    BY <1>8, <2>1
<1>12. h \in [0..n -> Info]
  <2>1. ASSUME NEW k \in 1..n, h[k - 1] \in Info PROVE h[k] \in Info
    BY <1>2, <1>11, <2>1
  <2> QED
    BY <1>1, <1>10, <2>1, StaysIn
<1>13. n \in 0..n
  BY <1>1
<1> QED
  BY <1>9, <1>12, <1>13

LEMMA AdjustQuantumType ==
  ASSUME NEW used, NEW quantum \in Nat
  PROVE  AdjustQuantum(used, quantum) \in Nat
<1> DEFINE rate == (used * 100) \div quantum
           required == CASE rate >= 175 -> quantum * 2
                         [] rate >= 125 /\ rate < 175 -> (quantum * 15) \div 10
                         [] rate >= 75 /\ rate < 125 -> quantum
                         [] OTHER -> quantum \div 2
<1>1. Quantum \in Nat /\ MaxQuantum \in Nat
  BY Bounds
<1>2. /\ quantum * 2 \in Nat /\ (quantum * 15) \div 10 \in Nat
      /\ quantum \div 2 \in Nat
  OBVIOUS
<1>3. required \in Nat
  <2> HIDE DEF rate
  <2>1. required \in {quantum * 2, (quantum * 15) \div 10, quantum, quantum \div 2}
    OBVIOUS
  <2> HIDE DEF required
  <2> QED
    BY <1>2, <2>1
<1>4. AdjustQuantum(used, quantum)
        = IF required = 0 THEN Quantum ELSE Min({required, MaxQuantum})
  BY DEF AdjustQuantum
<1> HIDE DEF required
<1>5. Min({required, MaxQuantum}) \in {required, MaxQuantum}
  <2> DEFINE S == {required, MaxQuantum}
  <2>1. S \subseteq Nat /\ S # {}
    BY <1>1, <1>3
  <2> HIDE DEF S
  <2>2. Min(S) \in S
    BY <2>1, LeastNumber
  <2> QED
    BY <2>2 DEF S
<1> QED
  BY <1>1, <1>3, <1>4, <1>5

-----------------------------------------------------------------------------
(* The options that aIOLi counts.                                           *)
LEMMA DisjointUnion ==
  ASSUME NEW A, NEW B, IsFiniteSet(A), IsFiniteSet(B), A \cap B = {}
  PROVE  /\ Cardinality(A) \in Nat /\ Cardinality(B) \in Nat
         /\ Cardinality(A \cup B) = Cardinality(A) + Cardinality(B)
<1> DEFINE a == Cardinality(A)
           b == Cardinality(B)
           c == Cardinality(A \cup B)
<1>1. a \in Nat
  BY FS_CardinalityType
<1>2. b \in Nat
  BY FS_CardinalityType
<1>3. Cardinality(A \cap B) = 0
  BY FS_EmptySet
<1>4. c = a + b - 0
  BY <1>3, FS_Union
<1> HIDE DEF a, b, c
<1>5. c = a + b
  BY <1>1, <1>2, <1>4
<1> QED
  BY <1>1, <1>2, <1>5 DEF a, b, c

LEMMA OptionsInitially == Init => OptionsCounted
  BY DEF Init, OptionsCounted

LEMMA OptionsStep == OptionsCounted /\ Selecting /\ [Next]_vars => OptionsCounted'
<1> SUFFICES ASSUME OptionsCounted, Selecting, [Next]_vars PROVE OptionsCounted'
  OBVIOUS
<1> DEFINE Before(l) == {f \in Files : LineOf[f] < l}
<1>a. /\ IsFiniteSet(Files) /\ Cardinality(Files) \in Nat
      /\ options \in Nat /\ line \in Nat
  <2>1. IsFiniteSet(Files)
    BY WaitingAssumption
  <2>2. line \in Nat
    BY WaitingAssumption DEF Selecting, Lines
  <2> QED
    BY <2>1, <2>2, FS_CardinalityType DEF OptionsCounted
<1>b. ASSUME options' = 0 PROVE OptionsCounted'
  <2>1. ASSUME NEW S \in SUBSET Files PROVE Cardinality(S) \in Nat
    BY <1>a, FS_Subset, FS_CardinalityType
  <2>2. Cardinality({f \in Files : LineOf[f] < line'}) \in Nat
    BY <2>1
  <2> QED
    BY <1>a, <1>b, <2>2 DEF OptionsCounted
<1>1. CASE Scan
  <2> DEFINE here == FilesOf(line)
             closed == here \ {f \in here : WaitingNow(f) = 0}
  <2>1. /\ options' = options + Cardinality(closed) /\ pc = "scan"
        /\ \/ pc' = "check" /\ line' = line
           \/ pc' = "scan" /\ line' = line + 1
    <3>1. options' = options + Cardinality(closed)
      BY <1>1 DEF Scan
    <3> QED
      BY <1>1, <3>1, ScanMoves
  <2>2. options <= Cardinality(Before(line))
    BY <2>1 DEF OptionsCounted
  <2>3. /\ Before(line) \in SUBSET Files /\ here \in SUBSET Files
        /\ closed \in SUBSET here /\ Before(line) \cap here = {}
        /\ Before(line + 1) = Before(line) \cup here
    <3>1. \A f \in Files : LineOf[f] \in Nat
      BY WaitingAssumption DEF Lines
    <3> QED
      BY <1>a, <3>1 DEF FilesOf
  <2> HIDE DEF Before, here, closed
  <2>4. IsFiniteSet(Before(line)) /\ IsFiniteSet(here) /\ IsFiniteSet(closed)
    BY <1>a, <2>3, FS_Subset
  <2>5. Cardinality(closed) <= Cardinality(here)
    BY <2>3, <2>4, FS_Subset
  <2>6. Cardinality(closed) \in Nat
    BY <2>4, FS_CardinalityType
  <2>7. /\ Cardinality(Before(line)) \in Nat /\ Cardinality(here) \in Nat
        /\ Cardinality(Before(line + 1))
             = Cardinality(Before(line)) + Cardinality(here)
    BY <2>3, <2>4, DisjointUnion
  <2>8. options' \in Nat /\ options' <= Cardinality(Before(line + 1))
    <3> DEFINE a == Cardinality(Before(line))
               b == Cardinality(here)
               c == Cardinality(closed)
    <3>1. a \in Nat /\ b \in Nat /\ c \in Nat /\ c <= b /\ options \in Nat
      BY <1>a, <2>5, <2>6, <2>7
    <3>2. /\ options <= a /\ options' = options + c
          /\ Cardinality(Before(line + 1)) = a + b
      BY <2>1, <2>2, <2>7
    <3> HIDE DEF a, b, c
    <3>3. options + c \in Nat /\ options + c <= a + b
      BY <3>1, <3>2
    <3> QED
      BY <3>2, <3>3
  <2>9. Cardinality(Before(line + 1)) <= Cardinality(Files)
    <3>1. Before(line + 1) \in SUBSET Files
      BY <2>3
    <3> QED
      BY <1>a, <3>1, FS_Subset
  <2>10. CASE pc' = "scan" /\ line' = line + 1
    <3>1. {f \in Files : LineOf[f] < line'} = Before(line + 1)
      BY <2>10 DEF Before
    <3> QED
      BY <2>8, <2>10, <3>1 DEF OptionsCounted
  <2>11. CASE pc' = "check"
    <3>1. options' <= Cardinality(Files)
      <4> DEFINE all == Cardinality(Files)
                 some == Cardinality(Before(line + 1))
      <4>1. all \in Nat /\ some \in Nat /\ options' \in Nat
        BY <1>a, <2>6, <2>7, <2>8
      <4> HIDE DEF all, some
      <4>2. options' <= some /\ some <= all
        BY <2>8, <2>9 DEF all, some
      <4>3. options' <= all
        BY <4>1, <4>2
      <4> QED
        BY <4>3 DEF all
    <3> QED
      BY <2>8, <2>11, <3>1 DEF OptionsCounted
  <2> QED
    BY <2>1, <2>10, <2>11
<1>2. CASE CheckSelected
  <2>1. \/ options' = 0
        \/ options' = options /\ pc = "check" /\ pc' = "serve"
    BY <1>2 DEF CheckSelected, ForgetScan, aIOLiVars
  <2> QED
    BY <1>a, <1>b, <2>1 DEF OptionsCounted
<1>3. CASE NothingSelected \/ Serve
  BY <1>b, <1>3 DEF NothingSelected, Serve, ForgetScan
<1>4. CASE CallaIOLi \/ StartScan \/ MLF
  <2>1. options' = options /\ pc \in {"call", "loop", "round"}
    BY <1>4 DEF CallaIOLi, StartScan, MLF, CallMLF, EndMLF, SkipLine, WorkLine,
       aIOLiVars
  <2> QED
    BY <1>b, <2>1 DEF OptionsCounted
<1>5. CASE UNCHANGED <<options, pc, line>>
  BY <1>5 DEF OptionsCounted
<1>6. \/ Scan \/ CheckSelected \/ NothingSelected \/ Serve
      \/ CallaIOLi \/ StartScan \/ MLF \/ UNCHANGED <<options, pc, line>>
  <2>1. ASSUME NEW r \in Requests, Client(r)
        PROVE  UNCHANGED <<options, pc, line>>
    BY <2>1 DEF Client, Lock, Link, aIOLiVars
  <2>2. Tick \/ UNCHANGED vars => UNCHANGED <<options, pc, line>>
    BY DEF Tick, vars, aIOLiVars
  <2> QED
    BY <2>1, <2>2 DEF Next, aIOLi
<1> QED
  BY <1>1, <1>2, <1>3, <1>4, <1>5, <1>6

-----------------------------------------------------------------------------
(* The types of what the other invariants do not bound, part by part.       *)
TimesTyped ==
  /\ waiting \in [Files -> 0..WaitingTime]
  /\ elapsed \in [Files -> 0..WaitingTime]
  /\ shortest \in 1..INT_MAX
FactorsTyped == factor \in [Requests -> -(INT_MAX + 1)..INT_MAX]
InfoTyped == info \in [Queues -> Info]
GivenTyped == given \subseteq Requests
StampTyped == selectedStamp \in {0} \cup {Timestamp[r] : r \in Requests}
PlaceTyped ==
  /\ algorithm \in Algorithms
  /\ pc \in {"call", "loop", "scan", "check", "serve", "round"}
  /\ start \in Lines /\ timeout \in 0..INT_MAX /\ processed \in BOOLEAN
  /\ tries \in [Lines -> 0..MaxLockTries]
Typed == /\ TimesTyped /\ FactorsTyped /\ InfoTyped /\ GivenTyped
         /\ StampTyped /\ PlaceTyped

LEMMA TypedInitially == Init => Typed
<1> SUFFICES ASSUME Init PROVE Typed
  OBVIOUS
<1>1. TimesTyped
  <2>1. 0 \in 0..WaitingTime /\ INT_MAX \in 1..INT_MAX
    BY Bounds
  <2> QED
    BY <2>1 DEF Init, TimesTyped
<1>2. FactorsTyped
  <2>1. 0 \in -(INT_MAX + 1)..INT_MAX
    BY Bounds
  <2> QED
    BY <2>1 DEF Init, FactorsTyped
<1>3. InfoTyped
  BY DEF Init, InfoTyped, Info
<1>4. PlaceTyped
  <2>1. 0 \in 0..MaxLockTries /\ 0 \in 0..INT_MAX /\ 1 \in Lines
    BY Bounds
  <2> QED
    BY <2>1 DEF Init, PlaceTyped
<1> QED
  BY <1>1, <1>2, <1>3, <1>4 DEF Init, GivenTyped, StampTyped, Typed

LEMMA TimesStep == TimesTyped /\ [Next]_vars => TimesTyped'
<1> SUFFICES ASSUME TimesTyped, [Next]_vars PROVE TimesTyped'
  OBVIOUS
<1>a. /\ waiting \in [Files -> 0..WaitingTime]
      /\ elapsed \in [Files -> 0..WaitingTime]
      /\ shortest \in 1..INT_MAX
      /\ WaitingTime \in Nat /\ INT_MAX \in Nat /\ INT_MAX \in 1..INT_MAX
  BY Bounds DEF TimesTyped
<1>b. \A f \in Files : /\ WaitingNow(f) \in 0..WaitingTime
                       /\ WaitingAfter(f) \in 0..WaitingTime
  BY <1>a, TimeLeft
<1>c. \A F \in SUBSET Files : ShortestOf(F) \in 1..INT_MAX
  BY <1>a, ShortestFits
<1>1. CASE Tick
  <2>1. /\ UNCHANGED <<waiting, shortest>>
        /\ elapsed' = [f \in Files |-> IF waiting[f] > 0 /\ elapsed[f] < WaitingTime
                                       THEN elapsed[f] + 1 ELSE elapsed[f]]
    BY <1>1 DEF Tick
  <2>2. elapsed' \in [Files -> 0..WaitingTime]
    BY <1>a, <2>1
  <2> QED
    BY <1>a, <2>1, <2>2 DEF TimesTyped
<1>2. CASE Scan
  <2>1. /\ elapsed' = elapsed /\ shortest' = ShortestOf(FilesOf(line))
        /\ waiting' = [f \in Files |-> IF f \in FilesOf(line) THEN WaitingNow(f)
                                       ELSE waiting[f]]
    BY <1>2 DEF Scan
  <2>2. waiting' \in [Files -> 0..WaitingTime]
    BY <1>a, <1>b, <2>1
  <2>3. shortest' \in 1..INT_MAX
    BY <1>c, <2>1 DEF FilesOf
  <2> QED
    BY <1>a, <2>1, <2>2, <2>3 DEF TimesTyped
<1>3. CASE WorkLine
  <2> DEFINE F == IF \E r \in Queued : LineOf[FileOf[r]] = line
                  THEN FilesOf(line) ELSE {}
             after == [f \in Files |-> IF f \in F THEN WaitingAfter(f)
                                       ELSE waiting[f]]
  <2>1. PICK offers \in {{OfferOfFile(f) : f \in F} \ {NoRequest}} :
          /\ waiting' = after
          /\ elapsed' = [f \in Files |->
                           IF after[f] > 0 /\ \E r \in offers : FileOf[r] = f
                           THEN 0 ELSE elapsed[f]]
    BY <1>3 DEF WorkLine
  <2>2. shortest' = ShortestOf(F)
    BY <1>3 DEF WorkLine
  <2>3. F \in SUBSET Files
    BY DEF FilesOf
  <2>4. waiting' \in [Files -> 0..WaitingTime]
    BY <1>a, <1>b, <2>1
  <2> HIDE DEF F, after
  <2>5. elapsed' \in [Files -> 0..WaitingTime]
    BY <1>a, <2>1
  <2>6. shortest' \in 1..INT_MAX
    BY <1>c, <2>2, <2>3
  <2> QED
    BY <2>4, <2>5, <2>6 DEF TimesTyped
<1>4. CASE CheckSelected
  <2> DEFINE f == FileOf[Head(list[selected])]
  <2>1. \/ /\ waiting' = [waiting EXCEPT ![f] = WaitingTime]
           /\ elapsed' = [elapsed EXCEPT ![f] = 0]
           /\ shortest' = INT_MAX
        \/ UNCHANGED <<waiting, elapsed, shortest>>
    BY <1>4 DEF CheckSelected, ForgetScan
  <2> HIDE DEF f
  <2> QED
    BY <1>a, <2>1 DEF TimesTyped
<1>5. CASE /\ UNCHANGED <<waiting, elapsed>>
           /\ shortest' = shortest \/ shortest' = INT_MAX
  BY <1>a, <1>5 DEF TimesTyped
<1>6. CASE \E r \in Requests : Client(r)
  BY <1>5, <1>6 DEF Client, Lock, Link
<1> QED
  BY <1>1, <1>2, <1>3, <1>4, <1>5, <1>6
  DEF Next, aIOLi, MLF, CallaIOLi, StartScan, NothingSelected, Serve, ForgetScan,
      CallMLF, EndMLF, SkipLine, vars

LEMMA FactorsStep ==
  FactorsTyped /\ ListsOwn /\ [Next]_vars => FactorsTyped'
<1> SUFFICES ASSUME FactorsTyped, ListsOwn, [Next]_vars PROVE FactorsTyped'
  OBVIOUS
<1> DEFINE Bits == -(INT_MAX + 1)..INT_MAX
<1>a. factor \in [Requests -> Bits] /\ 0 \in Bits
  BY Bounds DEF FactorsTyped
<1>b. \A r \in Requests : Increment(factor[r]) \in Bits
  <2>1. \A r \in Requests : factor[r] \in Int
    BY <1>a, Bounds
  <2> QED
    BY <2>1, IncrementFits
<1>c. FactorsTyped' <=> factor' \in [Requests -> Bits]
  BY DEF FactorsTyped
<1> HIDE DEF Bits
<1>1. CASE Scan
  <2> DEFINE looked == UNION {LookedAt(f) : f \in
                                {g \in FilesOf(line) : WaitingNow(g) = 0}}
  <2>1. factor' = [r \in Requests |-> IF r \in looked THEN Increment(factor[r])
                                      ELSE factor[r]]
    BY <1>1, ScanMoves
  <2> HIDE DEF looked
  <2> QED
    BY <1>a, <1>b, <1>c, <2>1
<1>2. CASE Serve
  <2>1. factor' = [r \in Requests |-> IF r \in given' THEN 0 ELSE factor[r]]
    BY <1>2 DEF Serve
  <2> QED
    BY <1>a, <1>c, <2>1
<1>3. CASE WorkLine
  <2>1. PICK F \in SUBSET Files :
          factor' = [r \in Requests |->
                       IF r \in Taken(F) THEN 0
                       ELSE IF r \in UNION {LookedAt(f) : f \in F}
                            THEN Increment(factor[r]) ELSE factor[r]]
    BY <1>3, WorkTakes
  <2> DEFINE looked == UNION {LookedAt(f) : f \in F}
  <2>2. factor' = [r \in Requests |->
                     IF r \in Taken(F) THEN 0
                     ELSE IF r \in looked THEN Increment(factor[r])
                     ELSE factor[r]]
    BY <2>1
  <2> HIDE DEF looked
  <2> QED
    BY <1>a, <1>b, <1>c, <2>2
<1>4. CASE UNCHANGED factor
  BY <1>a, <1>c, <1>4
<1> QED
  BY <1>1, <1>2, <1>3, <1>4
  DEF Next, aIOLi, MLF, Client, Lock, Link, Tick, CallaIOLi, StartScan,
      CheckSelected, NothingSelected, CallMLF, EndMLF, SkipLine, vars

LEMMA InfoStep ==
  InfoTyped /\ ListsOwn /\ Selecting /\ [Next]_vars => InfoTyped'
<1> SUFFICES ASSUME InfoTyped, ListsOwn, Selecting, [Next]_vars
             PROVE  InfoTyped'
  OBVIOUS
<1>a. info \in [Queues -> Info]
  BY DEF InfoTyped
<1>b. InfoTyped' <=> info' \in [Queues -> Info]
  BY DEF InfoTyped
<1>1. CASE CheckSelected
  <2> DEFINE r == Head(list[selected])
  <2>1. /\ info' = [info EXCEPT ![selected] = Refuse(r).info]
        /\ selected # NoQueue
    BY <1>1 DEF CheckSelected
  <2>2. r \in Requests
    <3>1. /\ list[selected] # <<>> /\ selected \in Queues
          /\ list[selected] \in Seq(Requests)
      BY <2>1 DEF Selecting, ListsOwn
    <3> QED
      BY <3>1, HeadTailProperties
  <2> HIDE DEF r
  <2>3. Refuse(r).info \in Info
    BY <1>a, <2>2, RefuseType
  <2> QED
    BY <1>a, <1>b, <2>1, <2>3
<1>2. CASE Serve
  <2> DEFINE s == list[selected]
             quantum == info[selected].nextquantum
             turn == SubSeq(s, 1, TurnOf(s, quantum))
             next == IF quantum = 0 THEN Quantum
                     ELSE AdjustQuantum(SizeOf(turn), quantum)
             after == ForEach(PostProcess, info[selected], turn)
  <2>1. info' = [info EXCEPT ![selected] = [after EXCEPT !.nextquantum = next]]
    BY <1>2 DEF Serve
  <2>2. selected \in Queues /\ s # <<>> /\ s \in Seq(Requests)
    BY <1>2 DEF Serve, Selecting, ListsOwn
  <2>3. info[selected] \in Info
    BY <1>a, <2>2
  <2>4. turn \in Seq(Requests)
    <3> DEFINE n == TurnOf(s, quantum)
    <3>1. n \in 1..Len(s)
      BY <2>2, TurnWithin
    <3> HIDE DEF n, s
    <3>2. SubSeq(s, 1, n) \in Seq(Requests)
      BY <2>2, <3>1, Cut
    <3> QED
      BY <3>2 DEF n
  <2>5. next \in Nat
    <3>1. quantum \in Nat
      BY <2>3 DEF Info
    <3> HIDE DEF quantum, turn
    <3> QED
      BY <3>1, AdjustQuantumType, Bounds
  <2>6. after \in Info
    <3> HIDE DEF turn
    <3> QED
      BY <2>3, <2>4, PostProcessLoop
  <2> HIDE DEF after, next
  <2>7. [after EXCEPT !.nextquantum = next] \in Info
    BY <2>5, <2>6 DEF Info
  <2> QED
    BY <1>a, <1>b, <2>1, <2>7
<1>3. CASE WorkLine
  <2> DEFINE F == IF \E r \in Queued : LineOf[FileOf[r]] = line
                  THEN FilesOf(line) ELSE {}
  <2>1. PICK offers \in {{OfferOfFile(f) : f \in F} \ {NoRequest}},
             taken \in {Taken(F)} :
          info' = [q \in Queues |->
                     IF \E r \in offers : QueueOf(r) = q
                     THEN Remembered(CHOOSE r \in offers : QueueOf(r) = q, taken)
                     ELSE info[q]]
    BY <1>3 DEF WorkLine
  <2>2. \A r \in offers : r \in Requests
    <3>1. \A f \in F : OfferOfFile(f) # NoRequest => OfferOfFile(f) \in Requests
      BY OfferOfFileIsOwn DEF FilesOf
    <3> HIDE DEF F
    <3> QED
      BY <2>1, <3>1
  <2> HIDE DEF F
  <2>3. ASSUME NEW r \in Requests PROVE Remembered(r, taken) \in Info
    <3>1. Refuse(r).info \in Info
      BY <1>a, RefuseType
    <3>2. PostProcess(Refuse(r).info, r) \in Info
      BY <3>1, PostProcessType
    <3> QED
      BY <3>1, <3>2 DEF Remembered
  <2>4. ASSUME NEW q \in Queues PROVE info'[q] \in Info
    <3>1. CASE \E r \in offers : QueueOf(r) = q
      <4> DEFINE x == CHOOSE r \in offers : QueueOf(r) = q
      <4>1. x \in offers
        BY <3>1
      <4>2. info'[q] = Remembered(x, taken)
        BY <2>1, <3>1
      <4> HIDE DEF x
      <4> QED
        BY <2>2, <2>3, <4>1, <4>2
    <3>2. CASE ~\E r \in offers : QueueOf(r) = q
      <4>1. info'[q] = info[q]
        BY <2>1, <3>2
      <4> QED
        BY <1>a, <4>1
    <3> QED
      BY <3>1, <3>2
  <2>5. info' = [q \in Queues |-> info'[q]]
    BY <2>1
  <2> QED
    BY <1>b, <2>4, <2>5
<1>4. CASE UNCHANGED info
  BY <1>a, <1>b, <1>4
<1> QED
  BY <1>1, <1>2, <1>3, <1>4
  DEF Next, aIOLi, MLF, Client, Lock, Link, Tick, CallaIOLi, StartScan, Scan,
      NothingSelected, CallMLF, EndMLF, SkipLine, vars

(* Requests are given back, nothing else.                                   *)
LEMMA GivenStep ==
  GivenTyped /\ ListsOwn /\ Selecting /\ [Next]_vars => GivenTyped'
<1> SUFFICES ASSUME GivenTyped, ListsOwn, Selecting, [Next]_vars
             PROVE  GivenTyped'
  OBVIOUS
<1>1. CASE Serve
  <2>1. PICK turn : /\ given' = given \cup turn
                    /\ ToSet(list[selected]) = turn \cup ToSet(list'[selected])
    BY <1>1, ServeTakes
  <2>2. selected \in Queues
    BY <1>1, ServeTakes
  <2>3. turn \subseteq Requests
    BY <2>1, <2>2, Members
  <2> QED
    BY <2>1, <2>3 DEF GivenTyped
<1>2. CASE WorkLine
  <2>1. PICK F \in SUBSET Files : given' = given \cup Taken(F)
    BY <1>2, WorkTakes
  <2>2. Taken(F) \subseteq Requests
    BY OfferOfFileIsOwn DEF Taken
  <2> QED
    BY <2>1, <2>2 DEF GivenTyped
<1>3. CASE UNCHANGED given
  BY <1>3 DEF GivenTyped
<1> QED
  BY <1>1, <1>2, <1>3
  DEF Next, aIOLi, MLF, Client, Lock, Link, Tick, CallaIOLi, StartScan, Scan,
      CheckSelected, NothingSelected, CallMLF, EndMLF, SkipLine, vars

LEMMA StampStep ==
  StampTyped /\ ListsOwn /\ Selecting /\ [Next]_vars => StampTyped'
<1> SUFFICES ASSUME StampTyped, ListsOwn, Selecting, [Next]_vars
             PROVE  StampTyped'
  OBVIOUS
<1>1. CASE Scan
  <2>1. CASE \E f \in FilesOf(line) :
               /\ OfferOfFile(f) # NoRequest
               /\ selectedStamp' = Timestamp[OfferOfFile(f)]
    <3>1. \A f \in FilesOf(line) :
            OfferOfFile(f) # NoRequest => OfferOfFile(f) \in Requests
      BY OfferOfFileIsOwn DEF FilesOf
    <3> QED
      BY <2>1, <3>1 DEF StampTyped
  <2>2. CASE selectedStamp' = selectedStamp
    BY <2>2 DEF StampTyped
  <2> QED
    BY <1>1, <2>1, <2>2, ScanSelects
<1>2. CASE selectedStamp' \in {0, selectedStamp}
  BY <1>2 DEF StampTyped
<1>3. CASE \E r \in Requests : Client(r)
  BY <1>2, <1>3 DEF Client, Lock, Link, aIOLiVars
<1> QED
  BY <1>1, <1>2, <1>3
  DEF Next, aIOLi, MLF, Tick, CallaIOLi, StartScan, CheckSelected, Serve,
      NothingSelected, ForgetScan, CallMLF, EndMLF, SkipLine, WorkLine, vars,
      aIOLiVars

LEMMA PlaceStep ==
  PlaceTyped /\ TimesTyped /\ Selecting /\ [Next]_vars => PlaceTyped'
<1> SUFFICES ASSUME PlaceTyped, TimesTyped, Selecting, [Next]_vars
             PROVE  PlaceTyped'
  OBVIOUS
<1>a. /\ line \in Lines /\ INT_MAX \in Nat /\ MaxLockTries \in Nat
      /\ shortest \in 1..INT_MAX /\ tries \in [Lines -> 0..MaxLockTries]
  BY Bounds DEF Selecting, TimesTyped, PlaceTyped
<1>1. CASE SkipLine
  <2>1. /\ UNCHANGED <<algorithm, start, timeout>>
        /\ tries[line] < MaxLockTries
        /\ tries' = [tries EXCEPT ![line] = @ + 1]
        /\ pc' \in {"call", "round"} /\ processed' = (processed /\ line' # start)
    BY <1>1 DEF SkipLine, MayTry, NextLine, aIOLiVars
  <2>2. tries' \in [Lines -> 0..MaxLockTries]
    BY <1>a, <2>1
  <2> QED
    BY <2>1, <2>2 DEF PlaceTyped
<1>2. CASE WorkLine
  <2>1. /\ UNCHANGED <<algorithm, start, timeout>>
        /\ tries' = [tries EXCEPT ![line] = 0]
        /\ pc' \in {"call", "round"} /\ processed' \in BOOLEAN
    BY <1>2 DEF WorkLine, NextLine, aIOLiVars
  <2>2. tries' \in [Lines -> 0..MaxLockTries]
    BY <1>a, <2>1
  <2> QED
    BY <2>1, <2>2 DEF PlaceTyped
<1>3. CASE Scan
  <2>1. UNCHANGED <<algorithm, start, timeout, processed, tries>>
    BY <1>3 DEF Scan, MLFVars
  <2> QED
    BY <1>3, <2>1, ScanMoves DEF PlaceTyped
<1>4. CASE CheckSelected
  <2>1. /\ UNCHANGED <<algorithm, start, processed, tries>>
        /\ pc' \in {"loop", "serve"} /\ timeout' \in {0, timeout}
    BY <1>4 DEF CheckSelected, MLFVars, aIOLiVars
  <2> QED
    BY <1>a, <2>1 DEF PlaceTyped
<1>5. CASE NothingSelected
  <2>1. /\ UNCHANGED <<algorithm, start, processed, tries>>
        /\ pc' \in {"call", "loop"} /\ timeout' \in {shortest, timeout}
    BY <1>5 DEF NothingSelected, MLFVars
  <2> QED
    BY <1>a, <2>1 DEF PlaceTyped
<1>6. CASE CallMLF
  <2>1. /\ UNCHANGED <<algorithm, timeout, tries>>
        /\ start' = line /\ processed' = FALSE /\ pc' = "round"
    BY <1>6 DEF CallMLF, aIOLiVars
  <2> QED
    BY <1>a, <2>1 DEF PlaceTyped
<1>7. CASE CallaIOLi
  <2>1. /\ UNCHANGED <<algorithm, start, processed, tries>>
        /\ timeout' \in {0, INT_MAX} /\ pc' = "loop"
    BY <1>7 DEF CallaIOLi, MLFVars
  <2> QED
    BY <1>a, <2>1 DEF PlaceTyped
<1>8. CASE StartScan \/ Serve \/ EndMLF
  <2>1. /\ UNCHANGED <<algorithm, start, timeout, processed, tries>>
        /\ pc' \in {"scan", "call", "loop"}
    BY <1>8 DEF StartScan, Serve, EndMLF, aIOLiVars, MLFVars
  <2> QED
    BY <2>1 DEF PlaceTyped
<1>9. CASE UNCHANGED <<algorithm, pc, start, timeout, processed, tries>>
  BY <1>9 DEF PlaceTyped
<1>10. \/ SkipLine \/ WorkLine \/ Scan \/ CheckSelected \/ NothingSelected
       \/ CallMLF \/ CallaIOLi \/ StartScan \/ Serve \/ EndMLF
       \/ UNCHANGED <<algorithm, pc, start, timeout, processed, tries>>
  <2>1. ASSUME NEW r \in Requests, Client(r)
        PROVE  UNCHANGED <<algorithm, pc, start, timeout, processed, tries>>
    BY <2>1 DEF Client, Lock, Link, aIOLiVars, MLFVars
  <2>2. Tick \/ UNCHANGED vars
          => UNCHANGED <<algorithm, pc, start, timeout, processed, tries>>
    BY DEF Tick, vars, aIOLiVars, MLFVars
  <2> QED
    BY <2>1, <2>2 DEF Next, aIOLi, MLF
<1> QED
  BY <1>1, <1>2, <1>3, <1>4, <1>5, <1>6, <1>7, <1>8, <1>9, <1>10

(* Every variable has its type: the factor wraps within Width bits, no time *)
(* is negative or over WaitingTime, the offsets and quanta that a queue     *)
(* remembers are natural numbers after any turn, a line is left for later   *)
(* MaxLockTries times at most, and the files that aIOLi waits for are       *)
(* counted once each (waiting_common.c:15-78, aIOLi.c:82, MLF.c:105).       *)
THEOREM WaitingTyped == Spec => []TypeOK
<1> DEFINE Inv == /\ ListsOwn /\ Selecting /\ FreshFactors
                  /\ OptionsCounted /\ Typed
<1>1. Init => Inv
  BY ListsInitially, SelectingInitially, FreshInitially, OptionsInitially,
     TypedInitially
<1>2. Typed /\ ListsOwn /\ Selecting /\ [Next]_vars => Typed'
  BY TimesStep, FactorsStep, InfoStep, GivenStep, StampStep, PlaceStep DEF Typed
<1>3. Inv /\ [Next]_vars => Inv'
  BY <1>2, ListsStep, SelectingStep, FreshStep, OptionsStep
<1>4. Inv => TypeOK
  <2> SUFFICES ASSUME Inv PROVE TypeOK
    OBVIOUS
  <2>1. options \in 0..Cardinality(Files)
    <3>1. Cardinality(Files) \in Nat /\ IsFiniteSet(Files)
      BY WaitingAssumption, FS_CardinalityType
    <3>2. Cardinality({f \in Files : LineOf[f] < line}) <= Cardinality(Files)
      BY <3>1, FS_Subset
    <3>3. Cardinality({f \in Files : LineOf[f] < line}) \in Nat
      BY <3>1, FS_Subset, FS_CardinalityType
    <3>4. pc \in {"call", "loop", "scan", "check", "serve", "round"}
      BY DEF Typed, PlaceTyped
    <3> QED
      BY <3>1, <3>2, <3>3, <3>4 DEF OptionsCounted
  <2>2. owner \in [Lines -> Requests \cup {NoRequest}]
    BY DEF FreshFactors
  <2>3. list \in [Queues -> Seq(Requests)]
    BY DEF ListsOwn
  <2>4. line \in Lines /\ selected \in Queues \cup {NoQueue}
    BY DEF Selecting
  <2> QED
    BY <2>1, <2>2, <2>3, <2>4
    DEF TypeOK, Typed, TimesTyped, FactorsTyped, InfoTyped, GivenTyped,
        StampTyped, PlaceTyped
<1> QED
  BY <1>1, <1>3, <1>4, PTL DEF Spec
=============================================================================
