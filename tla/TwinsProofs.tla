----------------------------- MODULE TwinsProofs -----------------------------
(***************************************************************************)
(* Theorems about TWINS for every number of servers and requests, every    *)
(* length of the window and every assignment of requests to servers.       *)
(***************************************************************************)
EXTENDS Twins, SequenceTheorems, FiniteSetTheorems, TLAPS

TwinsInv == TypeOK /\ ListsOK /\ CountAgrees

(* The servers, and the size of every set of requests.                     *)
LEMMA ServerFacts ==
  /\ multi_timeline_size \in Nat /\ multi_timeline_size >= 2
  /\ Servers = 0..(multi_timeline_size - 1) /\ 0 \in Servers
  /\ \A r \in Requests : ServerOf[r] \in Servers
  /\ \A S \in SUBSET Requests : IsFiniteSet(S) /\ Cardinality(S) \in Nat
  /\ IsFiniteSet(LinkedSet) /\ Cardinality(LinkedSet) \in Nat
<1>1. \A S \in SUBSET Requests : IsFiniteSet(S) /\ Cardinality(S) \in Nat
  BY TwinsAssumption, FS_Subset, FS_CardinalityType
<1>2. LinkedSet \in SUBSET Requests
  BY DEF LinkedSet
<1> QED
  BY <1>1, <1>2, TwinsAssumption DEF multi_timeline_size, Servers

(* The bounds of the counter follow from what it counts.                   *)
LEMMA CountBounds ==
  ASSUME reqnb \in Int, CountAgrees, owner \in Requests \cup {NoRequest},
         owner # NoRequest => Linked(owner)
  PROVE  reqnb \in 0..Cardinality(Requests)
<1>1. /\ IsFiniteSet(LinkedSet) /\ Cardinality(LinkedSet) \in Nat
      /\ Cardinality(Requests) \in Nat
      /\ Cardinality(LinkedSet) <= Cardinality(Requests)
  BY ServerFacts, FS_Subset, TwinsAssumption DEF LinkedSet
<1>2. owner # NoRequest => Cardinality(LinkedSet) # 0
  BY <1>1, FS_EmptySet DEF LinkedSet
<1> QED
  BY <1>1, <1>2 DEF CountAgrees, LinkedSet

-----------------------------------------------------------------------------
(* What a step does to the lists: an add appends a request that is nowhere *)
(* to the list of its server, a window takes the first of its server.      *)
Unlinks(s) ==
  /\ multi_timeline[s] # <<>>
  /\ taken' = Head(multi_timeline[s])
  /\ multi_timeline' = [multi_timeline EXCEPT ![s] = Tail(@)]

LEMMA LinkLists ==
  ASSUME TypeOK, ListsOK, NEW r \in Requests, Link(r)
  PROVE  /\ multi_timeline' \in [Servers -> Seq(Requests)]
         /\ LinkedSet' = LinkedSet \cup {r} /\ r \notin LinkedSet
         /\ \A s \in Servers : \A i, j \in DOMAIN multi_timeline'[s] :
              /\ ServerOf[multi_timeline'[s][i]] = s
              /\ multi_timeline'[s][i] = multi_timeline'[s][j] => i = j
<1> DEFINE s == ServerOf[r]
           old == multi_timeline[s]
           new == multi_timeline'[s]
<1>1. s \in Servers /\ old \in Seq(Requests)
  BY ServerFacts DEF TypeOK
<1>2. new = Append(old, r) /\ \A t \in Servers \ {s} : multi_timeline'[t] = multi_timeline[t]
  BY <1>1 DEF Link, TypeOK
<1>3. /\ new \in Seq(Requests) /\ Len(new) = Len(old) + 1 /\ Len(old) \in Nat
      /\ DOMAIN old = 1..Len(old) /\ DOMAIN new = 1..(Len(old) + 1)
      /\ \A i \in 1..Len(old) : new[i] = old[i]
      /\ new[Len(old) + 1] = r
  BY <1>1, <1>2, AppendProperties, LenProperties
<1>4. multi_timeline' \in [Servers -> Seq(Requests)]
  BY <1>1, <1>2, <1>3 DEF Link, TypeOK
<1>5. ~Linked(r) /\ \A i \in DOMAIN old : old[i] # r
  BY DEF Link, Linked
<1>6. ASSUME NEW x \in Requests PROVE Linked(x)' <=> Linked(x) \/ x = r
  <2>1. CASE ServerOf[x] # s
    BY <1>2, <2>1, ServerFacts DEF Linked
  <2>2. CASE ServerOf[x] = s
    <3>1. Linked(x)' <=> \E i \in DOMAIN new : new[i] = x
      BY <2>2 DEF Linked
    <3>2. Linked(x) <=> \E i \in DOMAIN old : old[i] = x
      BY <2>2 DEF Linked
    <3>3. Linked(x)' <=> (\E i \in 1..Len(old) : new[i] = x) \/ new[Len(old) + 1] = x
      BY <1>3, <3>1
    <3> QED
      BY <1>3, <3>2, <3>3
  <2> QED
    BY <2>1, <2>2
<1>7. ASSUME NEW t \in Servers,
             NEW i \in DOMAIN multi_timeline'[t], NEW j \in DOMAIN multi_timeline'[t]
      PROVE  /\ ServerOf[multi_timeline'[t][i]] = t
             /\ multi_timeline'[t][i] = multi_timeline'[t][j] => i = j
  <2>1. CASE t # s
    BY <1>2, <1>7, <2>1 DEF ListsOK
  <2>2. CASE t = s
    <3>1. /\ i \in 1..(Len(old) + 1) /\ j \in 1..(Len(old) + 1)
          /\ \A m \in 1..Len(old) : ServerOf[old[m]] = s /\ old[m] # r
          /\ \A m, n \in 1..Len(old) : old[m] = old[n] => m = n
      BY <1>1, <1>3, <1>5, <1>7, <2>2 DEF ListsOK
    <3>2. \A m \in 1..(Len(old) + 1) :
            new[m] = IF m = Len(old) + 1 THEN r ELSE old[m]
      BY <1>3
    <3>3. \A m \in 1..(Len(old) + 1) : m = Len(old) + 1 \/ m \in 1..Len(old)
      BY <1>3
    <3> QED
      BY <2>2, <3>1, <3>2, <3>3
  <2> QED
    BY <2>1, <2>2
<1> QED
  BY <1>4, <1>5, <1>6, <1>7 DEF LinkedSet

LEMMA UnlinkLists ==
  ASSUME TypeOK, ListsOK, NEW s \in Servers, Unlinks(s)
  PROVE  /\ multi_timeline' \in [Servers -> Seq(Requests)]
         /\ taken' \in LinkedSet /\ LinkedSet' = LinkedSet \ {taken'}
         /\ ServerOf[taken'] = s
         /\ \A t \in Servers \ {s} : multi_timeline'[t] = multi_timeline[t]
         /\ DOMAIN multi_timeline'[s] = 1..(Len(multi_timeline[s]) - 1)
         /\ DOMAIN multi_timeline[s] = 1..Len(multi_timeline[s])
         /\ Len(multi_timeline[s]) \in Nat
         /\ \A i \in DOMAIN multi_timeline'[s] :
              multi_timeline'[s][i] = multi_timeline[s][i + 1]
         /\ \A i \in DOMAIN multi_timeline'[s] : multi_timeline'[s][i] # taken'
         /\ \A t \in Servers : \A i, j \in DOMAIN multi_timeline'[t] :
              /\ ServerOf[multi_timeline'[t][i]] = t
              /\ multi_timeline'[t][i] = multi_timeline'[t][j] => i = j
<1> DEFINE old == multi_timeline[s]
           new == multi_timeline'[s]
<1>1. old \in Seq(Requests) /\ old # <<>>
  BY DEF TypeOK, Unlinks
<1>2. new = Tail(old) /\ \A t \in Servers \ {s} : multi_timeline'[t] = multi_timeline[t]
  BY DEF Unlinks, TypeOK
<1>3. /\ new \in Seq(Requests) /\ Len(new) = Len(old) - 1 /\ Len(old) \in Nat \ {0}
      /\ DOMAIN old = 1..Len(old) /\ DOMAIN new = 1..(Len(old) - 1)
      /\ \A i \in 1..(Len(old) - 1) : new[i] = old[i + 1]
      /\ taken' = old[1] /\ taken' \in Requests
  <2>1. /\ new \in Seq(Requests) /\ Len(new) = Len(old) - 1 /\ Len(old) \in Nat \ {0}
        /\ \A i \in 1..Len(new) : new[i] = old[i + 1]
    BY <1>1, <1>2, HeadTailProperties, EmptySeq
  <2>2. DOMAIN old = 1..Len(old) /\ DOMAIN new = 1..Len(new)
    BY <1>1, <2>1, LenProperties
  <2>3. taken' = old[1] /\ taken' \in Requests
    BY <1>1, HeadTailProperties DEF Unlinks
  <2> QED
    BY <2>1, <2>2, <2>3
<1>4. multi_timeline' \in [Servers -> Seq(Requests)]
  <2>1. Tail(old) \in Seq(Requests)
    BY <1>1, HeadTailProperties
  <2> QED
    BY <2>1 DEF Unlinks, TypeOK
<1>5. ServerOf[taken'] = s /\ Linked(taken')
  <2>1. 1 \in DOMAIN old
    BY <1>3
  <2>2. ServerOf[old[1]] = s
    BY <2>1 DEF ListsOK
  <2> QED
    BY <1>3, <2>1, <2>2 DEF Linked
<1>6. ASSUME NEW x \in Requests PROVE Linked(x)' <=> Linked(x) /\ x # taken'
  <2>1. CASE ServerOf[x] # s
    BY <1>2, <1>5, <2>1, ServerFacts DEF Linked
  <2>2. CASE ServerOf[x] = s
    <3>1. Linked(x)' <=> \E i \in 1..(Len(old) - 1) : old[i + 1] = x
      BY <1>3, <2>2 DEF Linked
    <3>2. Linked(x) <=> \E i \in 1..Len(old) : old[i] = x
      BY <1>3, <2>2 DEF Linked
    <3>3. \A i, j \in 1..Len(old) : old[i] = old[j] => i = j
      BY <1>3 DEF ListsOK
    <3>4. ASSUME Linked(x), x # taken' PROVE Linked(x)'
      <4>1. PICK i \in 1..Len(old) : old[i] = x
        BY <3>2, <3>4
      <4>2. i - 1 \in 1..(Len(old) - 1) /\ (i - 1) + 1 = i
        BY <1>3, <3>4, <4>1
      <4> QED
        BY <3>1, <4>1, <4>2
    <3>5. ASSUME Linked(x)' PROVE Linked(x) /\ x # taken'
      <4>1. PICK i \in 1..(Len(old) - 1) : old[i + 1] = x
        BY <3>1, <3>5
      <4>2. i + 1 \in 1..Len(old) /\ i + 1 # 1 /\ 1 \in 1..Len(old)
        BY <1>3
      <4> QED
        BY <1>3, <3>2, <3>3, <4>1, <4>2
    <3> QED
      BY <3>4, <3>5
  <2> QED
    BY <2>1, <2>2
<1>7. ASSUME NEW t \in Servers,
             NEW i \in DOMAIN multi_timeline'[t], NEW j \in DOMAIN multi_timeline'[t]
      PROVE  /\ ServerOf[multi_timeline'[t][i]] = t
             /\ multi_timeline'[t][i] = multi_timeline'[t][j] => i = j
  <2>1. CASE t # s
    BY <1>2, <1>7, <2>1 DEF ListsOK
  <2>2. CASE t = s
    <3>1. /\ i + 1 \in DOMAIN old /\ j + 1 \in DOMAIN old
          /\ new[i] = old[i + 1] /\ new[j] = old[j + 1]
          /\ i \in Int /\ j \in Int
      <4>1. i \in 1..(Len(old) - 1) /\ j \in 1..(Len(old) - 1)
        BY <1>3, <1>7, <2>2
      <4> QED
        BY <1>3, <4>1
    <3>2. ServerOf[old[i + 1]] = s /\ (old[i + 1] = old[j + 1] => i + 1 = j + 1)
      BY <3>1 DEF ListsOK
    <3> QED
      BY <2>2, <3>1, <3>2
  <2> QED
    BY <2>1, <2>2
<1>8. ASSUME NEW i \in DOMAIN new PROVE new[i] # taken'
  <2>1. i + 1 \in 1..Len(old) /\ i + 1 # 1 /\ 1 \in 1..Len(old) /\ new[i] = old[i + 1]
    BY <1>3
  <2>2. \A j, k \in 1..Len(old) : old[j] = old[k] => j = k
    BY <1>3 DEF ListsOK
  <2> QED
    BY <1>3, <2>1, <2>2
<1> QED
  BY <1>2, <1>3, <1>4, <1>5, <1>6, <1>7, <1>8 DEF LinkedSet

-----------------------------------------------------------------------------
(* Serve: which server's window it is.                                      *)
LEMMA CurrentServerFacts ==
  ASSUME TypeOK
  PROVE  CurrentServer \in Servers
BY ServerFacts DEF CurrentServer, NextServer, TypeOK

(* A step of Serve gives the thread the first request of that server, or    *)
(* finds none.                                                              *)
LEMMA ServeCases ==
  ASSUME TypeOK, Serve
  PROVE  /\ server' = CurrentServer /\ CurrentServer \in Servers
         /\ pc = "serve" /\ owner = NoRequest
         /\ firstReq' = FALSE
         /\ elapsed' = IF firstReq \/ Ended THEN 0 ELSE elapsed
         /\ \/ /\ Unlinks(CurrentServer) /\ reqnb' = reqnb - 1 /\ pc' = "step2"
            \/ UNCHANGED <<taken, multi_timeline, reqnb>> /\ pc' = "wait"
         /\ UNCHANGED <<owner, given, refused>>
BY CurrentServerFacts DEF Serve, WindowStep, Unlinks

(* Every other step leaves the lists alone, or is an add that links.        *)
LEMMA ListSteps ==
  ASSUME [Next]_vars
  PROVE  \/ Serve
         \/ \E r \in Requests : Link(r)
         \/ UNCHANGED <<multi_timeline, due, server, firstReq>>
<1>1. ASSUME NEW r \in Requests, Count(r) \/ Cancel(r)
      PROVE  UNCHANGED <<multi_timeline, due, server, firstReq>>
  BY <1>1 DEF Count, Cancel, twinsVars
<1>2. Call \/ Wait \/ Test \/ CallBack \/ Tick \/ UNCHANGED vars =>
        UNCHANGED <<multi_timeline, due, server, firstReq>>
  BY DEF Call, Wait, Test, CallBack, Tick, vars, threadVars
<1> QED
  BY <1>1, <1>2 DEF Next, Thread

-----------------------------------------------------------------------------
(* The initial states are typed, with empty lists.                          *)
LEMMA TwinsInit == Init => TwinsInv
<1> SUFFICES ASSUME Init PROVE TwinsInv
  OBVIOUS
<1>1. \A s \in Servers : multi_timeline[s] = <<>> /\ DOMAIN multi_timeline[s] = {}
  BY DEF Init
<1>2. TypeOK
  <2>1. multi_timeline \in [Servers -> Seq(Requests)]
    BY EmptySeq DEF Init
  <2>2. Cardinality(Requests) \in Nat
    BY ServerFacts
  <2> QED
    BY <2>1, <2>2, ServerFacts, TwinsAssumption DEF Init, TypeOK
<1>3. ListsOK
  BY <1>1 DEF Init, ListsOK
<1>4. LinkedSet = {}
  BY <1>1, ServerFacts DEF LinkedSet, Linked
<1>5. CountAgrees
  BY <1>4, FS_EmptySet DEF CountAgrees, Init
<1> QED
  BY <1>2, <1>3, <1>5 DEF TwinsInv

(* Whatever keeps the lists keeps what the lists and the counter say of     *)
(* each other, if it keeps the counter.                                     *)
LEMMA SameLists ==
  ASSUME TwinsInv, UNCHANGED <<multi_timeline, owner, reqnb>>,
         pc' = "step2" <=> taken' # NoRequest
  PROVE  ListsOK' /\ CountAgrees'
BY DEF TwinsInv, ListsOK, CountAgrees, LinkedSet, Linked

LEMMA LinkKeeps ==
  ASSUME TwinsInv, NEW r \in Requests, Link(r)
  PROVE  TwinsInv'
<1> USE DEF TwinsInv
<1>1. /\ multi_timeline' \in [Servers -> Seq(Requests)]
      /\ LinkedSet' = LinkedSet \cup {r} /\ r \notin LinkedSet
      /\ \A s \in Servers : \A i, j \in DOMAIN multi_timeline'[s] :
           /\ ServerOf[multi_timeline'[s][i]] = s
           /\ multi_timeline'[s][i] = multi_timeline'[s][j] => i = j
  BY LinkLists
<1>2. /\ owner = NoRequest /\ owner' = r
      /\ UNCHANGED <<reqnb, given, refused, firstReq, server, elapsed, pc, taken>>
  BY DEF Link, twinsVars
<1>3. Linked(r)'
  BY <1>1 DEF LinkedSet
<1>4. ListsOK'
  BY <1>1, <1>2, <1>3 DEF ListsOK
<1>5. due' \in [Requests -> Nat]
  <2>1. multi_timeline[ServerOf[r]] \in Seq(Requests)
    BY ServerFacts DEF TypeOK
  <2>2. Len(multi_timeline[ServerOf[r]]) \in Nat
    BY <2>1, LenProperties
  <2>3. multi_timeline_size * (Len(multi_timeline[ServerOf[r]]) + 1) \in Nat
    BY <2>2, ServerFacts
  <2> QED
    BY <2>3 DEF Link, TypeOK
<1>6. Cardinality(LinkedSet') = Cardinality(LinkedSet) + 1
  BY <1>1, FS_AddElement, ServerFacts
<1>7. CountAgrees'
  <2>1. reqnb = Cardinality(LinkedSet) /\ reqnb \in Int
    BY <1>2 DEF CountAgrees, TypeOK
  <2>2. r # NoRequest
    BY TwinsAssumption
  <2> QED
    BY <1>2, <1>6, <2>1, <2>2 DEF CountAgrees
<1>8. TypeOK'
  BY <1>1, <1>2, <1>5 DEF TypeOK
<1> QED
  BY <1>4, <1>7, <1>8

LEMMA ServeKeeps ==
  ASSUME TwinsInv, Serve
  PROVE  TwinsInv'
<1> USE DEF TwinsInv
<1>1. due' \in [Requests -> Nat]
  <2>1. due \in [Requests -> Nat]
    BY DEF TypeOK
  <2>2. due' = [r \in Requests |->
                  IF r = taken' \/ due[r] = 0 THEN 0
                  ELSE IF firstReq \/ Ended THEN due[r] - 1 ELSE due[r]]
    BY DEF Serve
  <2> QED
    BY <2>1, <2>2
<1>2. /\ server' \in Servers /\ firstReq' \in BOOLEAN /\ elapsed' \in 0..Window
      /\ owner' = NoRequest /\ owner = NoRequest /\ UNCHANGED <<given, refused>>
  <2>1. elapsed \in 0..Window /\ 0 \in 0..Window
    BY TwinsAssumption DEF TypeOK
  <2> QED
    BY <2>1, ServeCases
<1>3. CASE UNCHANGED <<taken, multi_timeline, reqnb>> /\ pc' = "wait"
  <2>1. pc = "serve" /\ taken = NoRequest
    BY ServeCases DEF ListsOK
  <2>2. ListsOK' /\ CountAgrees'
    BY <1>2, <1>3, <2>1, SameLists
  <2>3. TypeOK'
    BY <1>1, <1>2, <1>3 DEF TypeOK
  <2> QED
    BY <2>2, <2>3
<1>4. CASE Unlinks(CurrentServer) /\ reqnb' = reqnb - 1 /\ pc' = "step2"
  <2>1. /\ multi_timeline' \in [Servers -> Seq(Requests)]
        /\ taken' \in LinkedSet /\ LinkedSet' = LinkedSet \ {taken'}
        /\ \A t \in Servers : \A i, j \in DOMAIN multi_timeline'[t] :
              /\ ServerOf[multi_timeline'[t][i]] = t
              /\ multi_timeline'[t][i] = multi_timeline'[t][j] => i = j
    BY <1>4, UnlinkLists, ServeCases
  <2>2. taken' \in Requests /\ taken' # NoRequest
    BY <2>1, TwinsAssumption DEF LinkedSet
  <2>3. ListsOK'
    BY <1>2, <1>4, <2>1, <2>2 DEF ListsOK
  <2>4. Cardinality(LinkedSet') = Cardinality(LinkedSet) - 1
    BY <2>1, FS_RemoveElement, ServerFacts
  <2>5. CountAgrees'
    <3>1. reqnb = Cardinality(LinkedSet) /\ reqnb \in Int
      BY <1>2 DEF CountAgrees, TypeOK
    <3> QED
      BY <1>2, <1>4, <2>4, <3>1 DEF CountAgrees
  <2>6. reqnb' \in 0..Cardinality(Requests)
    <3>1. reqnb = Cardinality(LinkedSet) /\ LinkedSet # {}
      BY <1>2, <2>1 DEF CountAgrees, TypeOK
    <3>2. Cardinality(LinkedSet) \in Nat /\ Cardinality(LinkedSet) # 0
      BY <3>1, FS_EmptySet, ServerFacts
    <3> QED
      BY <1>4, <3>1, <3>2, ServerFacts DEF TypeOK
  <2>7. TypeOK'
    BY <1>1, <1>2, <1>4, <2>1, <2>2, <2>6 DEF TypeOK
  <2> QED
    BY <2>3, <2>5, <2>7
<1> QED
  BY <1>3, <1>4, ServeCases

LEMMA CountKeeps ==
  ASSUME TwinsInv, NEW r \in Requests, Count(r)
  PROVE  TwinsInv'
<1> USE DEF TwinsInv
<1>1. /\ owner = r /\ owner' = NoRequest /\ reqnb' = reqnb + 1
      /\ UNCHANGED <<multi_timeline, given, refused, due, firstReq, server,
                     elapsed, pc, taken>>
  BY DEF Count, twinsVars
<1>2. r # NoRequest
  BY TwinsAssumption
<1>3. ListsOK'
  BY <1>1 DEF ListsOK
<1>4. CountAgrees'
  <2>1. reqnb + 1 = Cardinality(LinkedSet) /\ LinkedSet' = LinkedSet
    BY <1>1, <1>2 DEF CountAgrees, LinkedSet, Linked
  <2> QED
    BY <1>1, <2>1 DEF CountAgrees, TypeOK
<1>5. reqnb' \in 0..Cardinality(Requests)
  <2>1. reqnb' \in Int
    BY <1>1, ServerFacts DEF TypeOK
  <2>2. /\ IsFiniteSet(LinkedSet') /\ Cardinality(LinkedSet') <= Cardinality(Requests)
        /\ Cardinality(LinkedSet') \in Nat
    BY ServerFacts, TwinsAssumption, FS_Subset DEF LinkedSet
  <2>3. reqnb' = Cardinality(LinkedSet')
    BY <1>1, <1>4, <2>1 DEF CountAgrees
  <2> QED
    BY <2>2, <2>3, ServerFacts
<1>6. TypeOK'
  BY <1>1, <1>5 DEF TypeOK
<1> QED
  BY <1>3, <1>4, <1>6

LEMMA OthersKeep ==
  ASSUME TwinsInv,
         \/ \E r \in Requests : Cancel(r)
         \/ Call \/ Wait \/ Test \/ CallBack \/ Tick
         \/ UNCHANGED vars
  PROVE  TwinsInv'
<1> USE DEF TwinsInv
<1>1. UNCHANGED <<multi_timeline, owner, reqnb, due>>
  BY DEF Cancel, Call, Wait, Test, CallBack, Tick, vars, threadVars
<1>2. pc' = "step2" <=> taken' # NoRequest
  BY DEF Cancel, Call, Wait, Test, CallBack, Tick, vars, threadVars, twinsVars,
         ListsOK, TypeOK
<1>3. TypeOK'
  <2>1. CASE \E r \in Requests : Cancel(r)
    BY <1>1, <2>1 DEF Cancel, twinsVars, TypeOK
  <2>2. CASE Call \/ Wait \/ Test \/ UNCHANGED vars
    BY <1>1, <2>2 DEF Call, Wait, Test, vars, threadVars, TypeOK
  <2>3. CASE CallBack
    <3>1. taken \in Requests
      BY <2>3 DEF CallBack, ListsOK, TypeOK
    <3> QED
      BY <1>1, <2>3, <3>1 DEF CallBack, TypeOK
  <2>4. CASE Tick
    BY <1>1, <2>4, TwinsAssumption DEF Tick, threadVars, TypeOK
  <2> QED
    BY <2>1, <2>2, <2>3, <2>4
<1> QED
  BY <1>1, <1>2, <1>3, SameLists

LEMMA TwinsStep == TwinsInv /\ [Next]_vars => TwinsInv'
BY LinkKeeps, ServeKeeps, CountKeeps, OthersKeep DEF Next, Thread

(* Lists, counter and types, for any number of servers and requests.        *)
LEMMA TwinsInvariant == Spec => []TwinsInv
BY TwinsInit, TwinsStep, PTL DEF Spec

(* Every variable keeps its type; the counter never falls below zero nor    *)
(* above the number of requests.                                            *)
THEOREM TwinsTyped == Spec => []TypeOK
<1>1. TwinsInv => TypeOK
  BY DEF TwinsInv
<1> QED
  BY <1>1, TwinsInvariant, PTL

(* The counter that decides whether TWINS works is that of the linked       *)
(* requests, but for the one being added, whatever is cancelled.            *)
THEOREM TwinsCounted == Spec => []CountAgrees
<1>1. TwinsInv => CountAgrees
  BY DEF TwinsInv
<1> QED
  BY <1>1, TwinsInvariant, PTL

-----------------------------------------------------------------------------
(* Whatever leaves the lists belongs to the server of the window, and the   *)
(* window is not over.                                                      *)
THEOREM TwinsWindows == Spec => TakenInWindow
<1>1. ASSUME TwinsInv, [Next]_vars, NEW r \in Requests, Linked(r), ~Linked(r)'
      PROVE  ServerOf[r] = server' /\ elapsed' < Window
  <2>1. CASE Serve
    <3>1. server' = CurrentServer /\ CurrentServer \in Servers
      BY <1>1, <2>1, ServeCases DEF TwinsInv
    <3>2. CASE Unlinks(CurrentServer)
      <4>1. LinkedSet' = LinkedSet \ {taken'} /\ ServerOf[taken'] = CurrentServer
        BY <1>1, <3>1, <3>2, UnlinkLists DEF TwinsInv
      <4>2. r = taken'
        BY <1>1, <4>1 DEF LinkedSet
      <4>3. elapsed' = (IF firstReq \/ elapsed >= Window THEN 0 ELSE elapsed)
        BY <2>1 DEF Serve, WindowStep, Ended
      <4>4. elapsed \in Int /\ Window \in Int /\ Window > 0
        BY <1>1, TwinsAssumption DEF TwinsInv, TypeOK
      <4> QED
        BY <3>1, <4>1, <4>2, <4>3, <4>4
    <3>3. CASE UNCHANGED multi_timeline
      BY <1>1, <3>3 DEF Linked
    <3> QED
      BY <1>1, <2>1, <3>2, <3>3, ServeCases DEF TwinsInv
  <2>2. CASE \E x \in Requests : Link(x)
    <3>1. PICK x \in Requests : Link(x)
      BY <2>2
    <3>2. LinkedSet' = LinkedSet \cup {x}
      BY <1>1, <3>1, LinkLists DEF TwinsInv
    <3> QED
      BY <1>1, <3>2 DEF LinkedSet
  <2>3. CASE UNCHANGED multi_timeline
    BY <1>1, <2>3 DEF Linked
  <2> QED
    BY <1>1, <2>1, <2>2, <2>3, ListSteps
<1>2. TwinsInv /\ [Next]_vars =>
        [\A r \in Requests :
           Linked(r) /\ ~Linked(r)' => ServerOf[r] = server' /\ elapsed' < Window]_vars
  BY <1>1
<1> QED
  BY <1>2, TwinsInvariant, PTL DEF Spec, TakenInWindow

-----------------------------------------------------------------------------
(* Rounds of windows.                                                       *)
LEMMA RoundFacts ==
  /\ \A i \in Nat : i * multi_timeline_size \in Nat
  /\ \A i \in Nat : (i + 1) * multi_timeline_size =
                      i * multi_timeline_size + multi_timeline_size
<1>1. multi_timeline_size \in Nat
  BY ServerFacts
<1> QED
  BY <1>1

(* Every server has its window within one round, ...                        *)
LEMMA WindowBounds ==
  ASSUME TypeOK, NEW s \in Servers
  PROVE  WindowsUntil(s) \in 1..multi_timeline_size
BY ServerFacts DEF WindowsUntil, TypeOK

(* ... a new window brings every other server one window closer, and the    *)
(* server whose it is starts a new round.                                   *)
LEMMA WindowAdvances ==
  ASSUME TypeOK, Serve, firstReq \/ Ended, NEW s \in Servers
  PROVE  IF s = CurrentServer
         THEN WindowsUntil(s) = 1 /\ WindowsUntil(s)' = multi_timeline_size
         ELSE WindowsUntil(s)' = WindowsUntil(s) - 1
<1>1. server' = CurrentServer /\ firstReq' = FALSE /\ server \in Servers
      /\ firstReq \in BOOLEAN
  BY ServeCases DEF TypeOK
<1>2. WindowsUntil(s)' = IF s > CurrentServer THEN s - CurrentServer
                         ELSE s - CurrentServer + multi_timeline_size
  BY <1>1 DEF WindowsUntil
<1>3. CASE firstReq
  BY <1>1, <1>2, <1>3, ServerFacts DEF WindowsUntil, CurrentServer
<1>4. CASE ~firstReq /\ Ended
  <2>1. CurrentServer = IF server + 1 >= multi_timeline_size THEN 0 ELSE server + 1
    BY <1>4 DEF CurrentServer, NextServer
  <2>2. WindowsUntil(s) = IF s > server THEN s - server
                          ELSE s - server + multi_timeline_size
    BY <1>4 DEF WindowsUntil
  <2> QED
    BY <1>1, <1>2, <2>1, <2>2, ServerFacts
<1> QED
  BY <1>1, <1>3, <1>4

LEMMA WindowStays ==
  ASSUME TypeOK, Serve, ~firstReq, ~Ended, NEW s \in Servers
  PROVE  WindowsUntil(s)' = WindowsUntil(s)
<1>1. server' = server /\ firstReq' = firstReq
  BY ServeCases DEF CurrentServer, TypeOK
<1> QED
  BY <1>1 DEF WindowsUntil

(* A window takes the first request of its server, so that the others of it *)
(* lose one round at a time, and those of the other servers one window.     *)
LEMMA ServeInTurn ==
  ASSUME TwinsInv, InTurn, Serve
  PROVE  InTurn'
<1> USE DEF TwinsInv
<1> DEFINE cur == CurrentServer
<1>0. cur \in Servers /\ multi_timeline_size \in Nat /\ multi_timeline_size >= 2
  BY CurrentServerFacts, ServerFacts
<1> SUFFICES ASSUME NEW s \in Servers, NEW i \in DOMAIN multi_timeline'[s]
             PROVE  due'[multi_timeline'[s][i]] >=
                      WindowsUntil(s)' + (i - 1) * multi_timeline_size
  BY DEF InTurn, multi_timeline_size
<1> DEFINE x == multi_timeline'[s][i]
<1>1. WindowsUntil(s) \in 1..multi_timeline_size
  BY WindowBounds
<1>2. due' = [r \in Requests |->
                IF r = taken' \/ due[r] = 0 THEN 0
                ELSE IF firstReq \/ Ended THEN due[r] - 1 ELSE due[r]]
  BY DEF Serve
<1>3. CASE multi_timeline'[s] = multi_timeline[s] /\ x # taken'
           /\ (s = cur => ~(firstReq \/ Ended))
  <2>1. /\ i \in DOMAIN multi_timeline[s] /\ x = multi_timeline[s][i]
        /\ multi_timeline[s] \in Seq(Requests)
    BY <1>3 DEF TypeOK
  <2>2. x \in Requests /\ i \in Nat \ {0}
    BY <2>1, LenProperties, ElementOfSeq
  <2>3. due[x] >= WindowsUntil(s) + (i - 1) * multi_timeline_size
    BY <2>1 DEF InTurn
  <2>4. (i - 1) * multi_timeline_size \in Nat /\ due[x] \in Nat
    <3>1. i - 1 \in Nat
      BY <2>2
    <3> QED
      BY <2>2, <3>1, RoundFacts DEF TypeOK
  <2> HIDE DEF x
  <2>5. due'[x] = IF firstReq \/ Ended THEN due[x] - 1 ELSE due[x]
    BY <1>1, <1>2, <1>3, <2>2, <2>3, <2>4
  <2>6. WindowsUntil(s)' =
          IF firstReq \/ Ended THEN WindowsUntil(s) - 1 ELSE WindowsUntil(s)
    BY <1>3, WindowAdvances, WindowStays
  <2>7. due'[x] >= WindowsUntil(s)' + (i - 1) * multi_timeline_size
    BY <1>1, <2>3, <2>4, <2>5, <2>6
  <2> QED
    BY <2>7 DEF x
<1>4. CASE s = cur /\ Unlinks(cur)
  <2>1. /\ DOMAIN multi_timeline'[s] = 1..(Len(multi_timeline[s]) - 1)
        /\ DOMAIN multi_timeline[s] = 1..Len(multi_timeline[s])
        /\ Len(multi_timeline[s]) \in Nat
        /\ \A j \in DOMAIN multi_timeline'[s] :
             multi_timeline'[s][j] = multi_timeline[s][j + 1]
        /\ multi_timeline' \in [Servers -> Seq(Requests)]
    BY <1>4, UnlinkLists
  <2>2. /\ i + 1 \in DOMAIN multi_timeline[s] /\ x = multi_timeline[s][i + 1]
        /\ i \in Nat \ {0}
    BY <2>1
  <2>3. x \in Requests
    BY <2>1, ElementOfSeq
  <2>4. x # taken'
    <3>1. Unlinks(s)
      BY <1>4
    <3>2. \A j \in DOMAIN multi_timeline'[s] : multi_timeline'[s][j] # taken'
      BY <3>1, UnlinkLists
    <3> QED
      BY <3>2
  <2>5. due[x] >= WindowsUntil(s) + i * multi_timeline_size
    <3>1. due[x] >= WindowsUntil(s) + ((i + 1) - 1) * multi_timeline_size
      BY <2>2 DEF InTurn
    <3>2. (i + 1) - 1 = i
      BY <2>2
    <3> QED
      BY <3>1, <3>2
  <2>6. /\ i * multi_timeline_size \in Nat /\ due[x] \in Nat
        /\ (i - 1) * multi_timeline_size \in Nat
        /\ i * multi_timeline_size =
             (i - 1) * multi_timeline_size + multi_timeline_size
    <3>1. i - 1 \in Nat /\ (i - 1) + 1 = i
      BY <2>2
    <3>2. ((i - 1) + 1) * multi_timeline_size =
            (i - 1) * multi_timeline_size + multi_timeline_size
      BY <3>1, RoundFacts
    <3> QED
      BY <2>2, <2>3, <3>1, <3>2, RoundFacts DEF TypeOK
  <2> HIDE DEF x
  <2>7. due'[x] = IF firstReq \/ Ended THEN due[x] - 1 ELSE due[x]
    BY <1>1, <1>2, <2>3, <2>4, <2>5, <2>6
  <2>8. IF firstReq \/ Ended
        THEN WindowsUntil(s) = 1 /\ WindowsUntil(s)' = multi_timeline_size
        ELSE WindowsUntil(s)' = WindowsUntil(s)
    BY <1>4, WindowAdvances, WindowStays
  <2>9. due'[x] >= WindowsUntil(s)' + (i - 1) * multi_timeline_size
    BY <1>0, <1>1, <2>5, <2>6, <2>7, <2>8
  <2> QED
    BY <2>9 DEF x
<1>5. CASE s # cur /\ Unlinks(cur)
  <2>1. multi_timeline'[s] = multi_timeline[s] /\ ServerOf[taken'] = cur
    BY <1>0, <1>5, UnlinkLists
  <2>2. ServerOf[x] = s
    BY <2>1 DEF ListsOK
  <2> QED
    BY <1>3, <1>5, <2>1, <2>2
<1>6. CASE UNCHANGED <<taken, multi_timeline>> /\ pc' = "wait"
  <2>1. taken' = NoRequest
    BY <1>6, ServeCases DEF ListsOK
  <2>2. /\ i \in DOMAIN multi_timeline[s] /\ x = multi_timeline[s][i]
        /\ multi_timeline[s] \in Seq(Requests)
    BY <1>6 DEF TypeOK
  <2>3. x \in Requests
    BY <2>2, LenProperties, ElementOfSeq
  <2>4. s # cur
    <3>1. multi_timeline'[cur] = <<>>
      BY <1>6, ServeCases DEF Serve
    <3> QED
      BY <3>1
  <2> QED
    BY <1>3, <1>6, <2>1, <2>3, <2>4, TwinsAssumption
<1> QED
  BY <1>4, <1>5, <1>6, ServeCases

LEMMA LinkInTurn ==
  ASSUME TwinsInv, InTurn, NEW r \in Requests, Link(r)
  PROVE  InTurn'
<1> USE DEF TwinsInv
<1> DEFINE q == ServerOf[r]
<1>1. /\ q \in Servers /\ multi_timeline[q] \in Seq(Requests)
      /\ multi_timeline_size \in Nat
  BY ServerFacts DEF TypeOK
<1>2. /\ multi_timeline' = [multi_timeline EXCEPT ![q] = Append(@, r)]
      /\ due' = [due EXCEPT ![r] = multi_timeline_size * (Len(multi_timeline[q]) + 1)]
      /\ UNCHANGED <<server, firstReq>>
  BY DEF Link, twinsVars
<1> SUFFICES ASSUME NEW s \in Servers, NEW i \in DOMAIN multi_timeline'[s]
             PROVE  due'[multi_timeline'[s][i]] >=
                      WindowsUntil(s) + (i - 1) * multi_timeline_size
  BY <1>2 DEF InTurn, WindowsUntil, multi_timeline_size
<1>3. WindowsUntil(s) \in 1..multi_timeline_size
  BY WindowBounds
<1>4. CASE i \in DOMAIN multi_timeline[s] /\ multi_timeline'[s][i] = multi_timeline[s][i]
  <2>1. multi_timeline[s] \in Seq(Requests)
    BY DEF TypeOK
  <2>2. multi_timeline[s][i] \in Requests
    BY <1>4, <2>1, LenProperties, ElementOfSeq
  <2>3. ServerOf[multi_timeline[s][i]] = s
    BY <1>4 DEF ListsOK
  <2>4. Linked(multi_timeline[s][i])
    BY <1>4, <2>3 DEF Linked
  <2>5. multi_timeline[s][i] # r
    BY <2>4 DEF Link
  <2>6. due'[multi_timeline[s][i]] = due[multi_timeline[s][i]]
    BY <1>2, <2>2, <2>5 DEF TypeOK
  <2>7. due[multi_timeline[s][i]] >= WindowsUntil(s) + (i - 1) * multi_timeline_size
    BY <1>4 DEF InTurn
  <2> QED
    BY <1>4, <2>6, <2>7
<1>5. CASE s # q
  <2>1. multi_timeline'[s] = multi_timeline[s]
    BY <1>1, <1>2, <1>5 DEF TypeOK
  <2> QED
    BY <1>4, <2>1
<1>6. CASE s = q
  <2> DEFINE n == Len(multi_timeline[q])
  <2>1. multi_timeline'[s] = Append(multi_timeline[s], r)
    BY <1>1, <1>2, <1>6 DEF TypeOK
  <2>2. /\ n \in Nat /\ Len(multi_timeline'[s]) = n + 1
        /\ \A j \in 1..n : multi_timeline'[s][j] = multi_timeline[s][j]
        /\ multi_timeline'[s][n + 1] = r
        /\ DOMAIN multi_timeline[s] = 1..n /\ DOMAIN multi_timeline'[s] = 1..(n + 1)
    BY <1>1, <1>6, <2>1, AppendProperties, LenProperties
  <2>3. CASE i \in 1..n
    BY <1>4, <2>2, <2>3
  <2>4. CASE i = n + 1
    <3>1. due'[r] = multi_timeline_size * (n + 1)
      BY <1>2 DEF TypeOK
    <3>2. /\ n * multi_timeline_size \in Nat
          /\ (n + 1) * multi_timeline_size = n * multi_timeline_size + multi_timeline_size
      BY <2>2, RoundFacts
    <3>3. multi_timeline_size * (n + 1) = (n + 1) * multi_timeline_size
          /\ i - 1 = n
      BY <1>1, <2>2, <2>4
    <3> HIDE DEF n
    <3>4. due'[r] >= WindowsUntil(s) + n * multi_timeline_size
      BY <1>1, <1>3, <3>1, <3>2, <3>3
    <3> QED
      BY <2>2, <2>4, <3>3, <3>4
  <2>5. i \in 1..n \/ i = n + 1
    BY <2>2
  <2> QED
    BY <2>3, <2>4, <2>5
<1> QED
  BY <1>5, <1>6

(* A request behind k others of its server is taken before k + 1 rounds of  *)
(* windows have begun, for any number of servers and whatever arrives.      *)
THEOREM TwinsServedInTurn == Spec => []ServedInTurn
<1>1. Init => InTurn
  <2>1. ASSUME Init, NEW s \in Servers PROVE DOMAIN multi_timeline[s] = {}
    BY <2>1 DEF Init
  <2> QED
    BY <2>1 DEF InTurn
<1>2. TwinsInv /\ InTurn /\ [Next]_vars => InTurn'
  <2>1. UNCHANGED <<multi_timeline, due, server, firstReq>> /\ InTurn => InTurn'
    BY DEF InTurn, WindowsUntil, multi_timeline_size
  <2> QED
    BY <2>1, ListSteps, ServeInTurn, LinkInTurn
<1>3. TwinsInv /\ InTurn => ServedInTurn
  <2> SUFFICES ASSUME TwinsInv, InTurn, NEW r \in Requests, Linked(r)
               PROVE  due[r] > 0
    BY DEF ServedInTurn
  <2> DEFINE s == ServerOf[r]
  <2>1. PICK i \in DOMAIN multi_timeline[s] : multi_timeline[s][i] = r
    BY DEF Linked
  <2>2. s \in Servers /\ multi_timeline[s] \in Seq(Requests)
    BY ServerFacts DEF TwinsInv, TypeOK
  <2>3. i - 1 \in Nat
    BY <2>1, <2>2, LenProperties
  <2>4. (i - 1) * multi_timeline_size \in Nat
    BY <2>3, RoundFacts
  <2>5. WindowsUntil(s) \in Nat /\ WindowsUntil(s) >= 1
    BY <2>2, WindowBounds, ServerFacts DEF TwinsInv
  <2>6. due[r] >= WindowsUntil(s) + (i - 1) * multi_timeline_size
    BY <2>1, <2>2 DEF InTurn
  <2>7. due[r] \in Nat
    BY DEF TwinsInv, TypeOK
  <2> QED
    BY <2>4, <2>5, <2>6, <2>7
<1> QED
  BY <1>1, <1>2, <1>3, TwinsInvariant, PTL DEF Spec
=============================================================================
