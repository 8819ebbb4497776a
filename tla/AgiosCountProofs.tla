--------------------------- MODULE AgiosCountProofs ---------------------------
(***************************************************************************)
(* The counters: that they agree with what is queued, and what the agios   *)
(* thread may conclude from reading them with no lock.                     *)
(***************************************************************************)
EXTENDS AgiosProofs

(* The four sets whose sizes the counters are.                             *)
OnFile(f) == {r \in Counted(Requests) : FileOf[QueueOf[r]] = f}
OnLine(l) == {r \in Counted(Requests) : Line(r) = l}
Past == {r \in Counted(Requests) : pc[<<"add", r>>] # "count"}
Active == {f \in Files : fileReqs[f] > 0}

LEMMA CountedSets ==
  /\ \A f \in Files : IsFiniteSet(OnFile(f)) /\ OnFile(f) \subseteq Requests
  /\ \A l \in Lines : IsFiniteSet(OnLine(l)) /\ OnLine(l) \subseteq Requests
  /\ IsFiniteSet(Past) /\ Past \subseteq Requests
  /\ IsFiniteSet(Active)
<1>1. \A S \in SUBSET Requests : IsFiniteSet(S)
  BY StateAssumption, FS_Subset
<1>2. IsFiniteSet(Active)
  BY StateAssumption, FS_Subset DEF Active
<1> QED
  BY <1>1, <1>2 DEF OnFile, OnLine, Past, Counted

(* No counter and no set changes.                                          *)
LEMMA CountsStay ==
  ASSUME CountersAgree, UNCHANGED counters,
         Counted(Requests)' = Counted(Requests),
         \A r \in Counted(Requests) :
           pc'[<<"add", r>>] = "count" <=> pc[<<"add", r>>] = "count"
  PROVE  CountersAgree'
<1>1. Past' = Past
  BY DEF Past
<1>2. \A f \in Files : OnFile(f)' = OnFile(f)
  BY DEF OnFile
<1>3. \A l \in Lines : OnLine(l)' = OnLine(l)
  BY DEF OnLine, Line
<1>4. UNCHANGED <<reqnb, filenb, lineReqs, fileReqs>>
  BY DEF counters
<1> QED
  BY <1>1, <1>2, <1>3, <1>4 DEF CountersAgree, Past, OnFile, OnLine

(* A request is linked: its line and its file count it, the total does not *)
(* yet.                                                                    *)
LEMMA CountsEnter ==
  ASSUME TypeOK, CountersAgree, NEW r \in Requests, r \notin Counted(Requests),
         Counted(Requests)' = Counted(Requests) \cup {r},
         CountFile(FileOf[QueueOf[r]]),
         lineReqs' = [lineReqs EXCEPT ![Line(r)] = @ + 1],
         reqnb' = reqnb, Past' = Past
  PROVE  CountersAgree'
<1> DEFINE f == FileOf[QueueOf[r]]
<1>1. f \in Files /\ Line(r) \in Lines
  BY StateAssumption, LockFacts
<1>2. r \notin OnFile(f) /\ OnFile(f)' = OnFile(f) \cup {r}
      /\ \A g \in Files \ {f} : OnFile(g)' = OnFile(g)
  BY DEF OnFile
<1>3. r \notin OnLine(Line(r)) /\ OnLine(Line(r))' = OnLine(Line(r)) \cup {r}
      /\ \A l \in Lines \ {Line(r)} : OnLine(l)' = OnLine(l)
  BY DEF OnLine, Line
<1>4. Cardinality(OnFile(f)') = Cardinality(OnFile(f)) + 1
  <2>1. IsFiniteSet(OnFile(f))
    BY <1>1, CountedSets
  <2> QED
    BY <1>2, <2>1, FS_AddElement
<1>5. Cardinality(OnLine(Line(r))') = Cardinality(OnLine(Line(r))) + 1
  <2>1. IsFiniteSet(OnLine(Line(r)))
    BY <1>1, CountedSets
  <2> QED
    BY <1>3, <2>1, FS_AddElement
<1>6. /\ \A g \in Files : fileReqs[g] = Cardinality(OnFile(g))
      /\ \A l \in Lines : lineReqs[l] = Cardinality(OnLine(l))
      /\ reqnb = Cardinality(Past) /\ filenb = Cardinality(Active)
  BY DEF CountersAgree, OnFile, OnLine, Past, Active
<1>7. /\ fileReqs'[f] = fileReqs[f] + 1 /\ fileReqs[f] \in Nat
      /\ \A g \in Files \ {f} : fileReqs'[g] = fileReqs[g]
      /\ lineReqs'[Line(r)] = lineReqs[Line(r)] + 1
      /\ \A l \in Lines \ {Line(r)} : lineReqs'[l] = lineReqs[l]
      /\ filenb' = IF fileReqs[f] = 0 THEN filenb + 1 ELSE filenb
  <2>1. fileReqs[f] \in Nat
    BY <1>1, <1>6, CountedSets, FS_CardinalityType
  <2> QED
    BY <1>1, <2>1 DEF CountFile, TypeOK, StateTypeOK
<1>8. \A g \in Files : fileReqs'[g] = Cardinality(OnFile(g)')
  <2> TAKE g \in Files
  <2>1. CASE g = f
    BY <1>1, <1>4, <1>6, <1>7, <2>1
  <2>2. CASE g # f
    <3>1. OnFile(g)' = OnFile(g) /\ fileReqs'[g] = fileReqs[g]
      BY <1>2, <1>7, <2>2
    <3> QED
      BY <1>6, <3>1
  <2> QED
    BY <2>1, <2>2
<1>9. \A l \in Lines : lineReqs'[l] = Cardinality(OnLine(l)')
  BY <1>3, <1>5, <1>6, <1>7
<1>10. filenb' = Cardinality(Active')
  <2>1. Active' = Active \cup {f} /\ (f \in Active <=> fileReqs[f] # 0)
    BY <1>1, <1>7 DEF Active
  <2>2. Cardinality(Active \cup {f}) = IF f \in Active THEN Cardinality(Active)
                                       ELSE Cardinality(Active) + 1
    BY CountedSets, FS_AddElement
  <2> QED
    BY <1>6, <1>7, <2>1, <2>2
<1>11. reqnb' = Cardinality(Past')
  BY <1>6
<1> QED
  BY <1>8, <1>9, <1>10, <1>11 DEF CountersAgree, OnFile, OnLine, Past, Active

(* A group of counted requests of one file and line leaves.                *)
LEMMA RemoveGroup ==
  ASSUME NEW S, IsFiniteSet(S), NEW G \in SUBSET S
  PROVE  /\ Cardinality(S \ G) = Cardinality(S) - Cardinality(G)
         /\ Cardinality(G) <= Cardinality(S)
<1>1. S \cap G = G
  OBVIOUS
<1> QED
  BY <1>1, FS_Difference, FS_Subset

LEMMA CountsLeave ==
  ASSUME TypeOK, CountersAgree, NEW G \in SUBSET Past, G # {},
         NEW f \in Files, NEW l \in Lines,
         \A r \in G : FileOf[QueueOf[r]] = f /\ Line(r) = l,
         Uncount(f, l, Cardinality(G)),
         Counted(Requests)' = Counted(Requests) \ G,
         \A r \in Counted(Requests) \ G :
           pc'[<<"add", r>>] = "count" <=> pc[<<"add", r>>] = "count"
  PROVE  CountersAgree'
<1> DEFINE n == Cardinality(G)
<1>1. G \subseteq Counted(Requests) /\ IsFiniteSet(G)
  BY CountedSets, FS_Subset DEF Past
<1>2. n \in Nat /\ n > 0
  BY <1>1, FS_CardinalityType, FS_EmptySet
<1>3. /\ OnFile(f)' = OnFile(f) \ G /\ G \in SUBSET OnFile(f)
      /\ \A g \in Files \ {f} : OnFile(g)' = OnFile(g)
  BY <1>1 DEF OnFile
<1>4. /\ OnLine(l)' = OnLine(l) \ G /\ G \in SUBSET OnLine(l)
      /\ \A m \in Lines \ {l} : OnLine(m)' = OnLine(m)
  BY <1>1 DEF OnLine, Line
<1>5. Past' = Past \ G
  BY <1>1 DEF Past
<1>6. /\ \A g \in Files : fileReqs[g] = Cardinality(OnFile(g))
      /\ \A m \in Lines : lineReqs[m] = Cardinality(OnLine(m))
      /\ reqnb = Cardinality(Past) /\ filenb = Cardinality(Active)
  BY DEF CountersAgree, OnFile, OnLine, Past, Active
<1>7. /\ fileReqs'[f] = fileReqs[f] - n
      /\ \A g \in Files \ {f} : fileReqs'[g] = fileReqs[g]
      /\ lineReqs'[l] = lineReqs[l] - n
      /\ \A m \in Lines \ {l} : lineReqs'[m] = lineReqs[m]
      /\ filenb' = IF fileReqs[f] = n THEN filenb - 1 ELSE filenb
      /\ reqnb' = reqnb - n
  BY DEF Uncount, TypeOK, StateTypeOK
<1>8. reqnb' = Cardinality(Past')
  BY <1>5, <1>6, <1>7, CountedSets, RemoveGroup
<1>9. \A g \in Files : fileReqs'[g] = Cardinality(OnFile(g)')
  <2>1. Cardinality(OnFile(f) \ G) = Cardinality(OnFile(f)) - n
    BY <1>3, CountedSets, RemoveGroup
  <2> QED
    BY <1>3, <1>6, <1>7, <2>1
<1>10. \A m \in Lines : lineReqs'[m] = Cardinality(OnLine(m)')
  <2>1. Cardinality(OnLine(l) \ G) = Cardinality(OnLine(l)) - n
    BY <1>4, CountedSets, RemoveGroup
  <2> QED
    BY <1>4, <1>6, <1>7, <2>1
<1>11. filenb' = Cardinality(Active')
  <2>1. fileReqs[f] \in Int /\ fileReqs[f] >= n
    <3>1. n <= Cardinality(OnFile(f))
      BY <1>3, CountedSets, RemoveGroup
    <3> QED
      BY <1>6, <3>1 DEF TypeOK, StateTypeOK
  <2>2. f \in Active
    BY <1>2, <2>1 DEF Active
  <2>3. Active' = IF fileReqs[f] = n THEN Active \ {f} ELSE Active
    BY <1>2, <1>7, <2>1 DEF Active
  <2>4. Cardinality(Active \ {f}) = Cardinality(Active) - 1
    BY <2>2, CountedSets, FS_RemoveElement
  <2> QED
    BY <1>6, <1>7, <2>3, <2>4
<1> QED
  BY <1>8, <1>9, <1>10, <1>11 DEF CountersAgree, OnFile, OnLine, Past, Active

-----------------------------------------------------------------------------
(* Nobody takes or cancels a request while its add still works on it: both *)
(* need the lock the add holds.                                            *)
LEMMA AddingHasLock ==
  ASSUME TypeOK, LockInv, NEW r \in Requests, Adding(r)
  PROVE  owner[AdequateLock(r)] = <<"add", r>>
<1>1. InBody(<<"add", r>>) /\ HoldsLock(<<"add", r>>) /\ <<"add", r>> \in Calls
  BY CallFacts DEF Adding, InBody, HoldsLock
<1> QED
  BY <1>1 DEF LockInv, CallLocks, AdequateLock

LEMMA CancelLocksMatches ==
  ASSUME TypeOK, LockInv, NEW r \in Requests, CancelBody(r), CancelsOwnLine,
         r \in Cancelable, NEW x \in CancelMatches(r)
  PROVE  x \in Requests /\ Queued(x) /\ Line(x) = Line(r) /\ ~Adding(x)
<1>1. x \in Requests /\ Queued(x) /\ ExtentOf[x] = ExtentOf[r]
  BY DEF CancelMatches, Queued
<1>2. Line(x) = Line(r)
  BY <1>1 DEF CancelsOwnLine
<1>3. <<"cancel", r>> \in Calls /\ InBody(<<"cancel", r>>) /\ HoldsLock(<<"cancel", r>>)
  BY CallFacts DEF CancelBody, InBody, HoldsLock
<1>4. owner[AdequateLock(r)] = <<"cancel", r>>
  BY <1>3 DEF LockInv, CallLocks, AdequateLock
<1>5. AdequateLock(x) = AdequateLock(r)
  BY <1>2 DEF AdequateLock, LockFor
<1> QED
  BY <1>1, <1>2, <1>4, <1>5, AddingHasLock

LEMMA TakeLocksGroup ==
  ASSUME TypeOK, LockInv, NEW in \in {"timeline", "hashtable"}, NEW q \in Queues,
         NEW G \in Groups(in, q), apc = "take",
         NeedsHashtable(alg) => q = chosen
  PROVE  \A r \in G : r \in Requests /\ Queued(r) /\ QueueOf[r] = q /\ ~Adding(r)
<1> SUFFICES ASSUME NEW r \in G
             PROVE  r \in Requests /\ Queued(r) /\ QueueOf[r] = q /\ ~Adding(r)
  OBVIOUS
<1>1. r \in Requests /\ Queued(r) /\ QueueOf[r] = q
  BY DEF Groups, Queued
<1>2. owner[TakeLockIndex] = Thread
  BY DEF LockInv, ThreadLocks
<1>3. AdequateLock(r) = TakeLockIndex
  BY <1>1 DEF AdequateLock, LockFor, TakeLockIndex, Line
<1> QED
  BY <1>1, <1>2, <1>3, AddingHasLock, CallFacts, NamesAssumption

-----------------------------------------------------------------------------
(* The two parts of CountInv beside the counters themselves.               *)
CallsOK ==
  \A r \in Requests : /\ Adding(r) => r \in Counted(Requests)
                      /\ pc[<<"cancel", r>>] # "idle" => r \in Cancelable

(* The counters: the bodies of the calls.                                  *)
LEMMA AddLinkCounts ==
  ASSUME TypeOK, LockInv, Delivery, CountInv, NEW s \in Requests, AddLink(s)
  PROVE  CountInv'
<1> USE CallFacts
<1>1. /\ pc[<<"add", s>>] = "body" /\ pc' = [pc EXCEPT ![<<"add", s>>] = "count"]
      /\ place' = [place EXCEPT ![s] = IF NeedsHashtable(alg) THEN "hashtable"
                                       ELSE IF alg = "NOOP" THEN "held"
                                       ELSE "timeline"]
  BY DEF AddLink, Goto
<1>2. place[s] = "new"
  BY <1>1 DEF Delivery, DeliveryOf, NotYetAdded
<1>3. /\ s \notin Counted(Requests)
      /\ Counted(Requests)' = Counted(Requests) \cup {s}
  BY <1>1, <1>2 DEF Counted, Queued, TypeOK, StateTypeOK
<1>4. \A c \in Calls : c # <<"add", s>> => pc'[c] = pc[c]
  BY <1>1 DEF TypeOK, ClientTypeOK
<1>5. pc'[<<"add", s>>] = "count"
  BY <1>1 DEF TypeOK, ClientTypeOK
<1>6. Past' = Past
  BY <1>3, <1>4, <1>5 DEF Past, Counted
<1>7. CountersAgree'
  BY <1>3, <1>6, CountsEnter DEF AddLink, CountInv
<1>8. CallsOK'
  BY <1>3, <1>4, <1>5 DEF CallsOK, CountInv, Adding
<1> QED
  BY <1>7, <1>8 DEF CountInv, CallsOK

LEMMA AddCountCounts ==
  ASSUME TypeOK, CountInv, NEW s \in Requests, AddCount(s)
  PROVE  CountInv'
<1> USE CallFacts
<1>1. /\ pc[<<"add", s>>] = "count" /\ pc' = [pc EXCEPT ![<<"add", s>>] = "finish"]
      /\ reqnb' = reqnb + 1 /\ UNCHANGED <<place, filenb, lineReqs, fileReqs>>
  BY DEF AddCount, Goto
<1>2. \A c \in Calls : c # <<"add", s>> => pc'[c] = pc[c]
  BY <1>1 DEF TypeOK, ClientTypeOK
<1>3. pc'[<<"add", s>>] = "finish"
  BY <1>1 DEF TypeOK, ClientTypeOK
<1>4. Counted(Requests)' = Counted(Requests) /\ s \in Counted(Requests)
  BY <1>1 DEF Counted, Queued, CountInv, Adding
<1>5. s \notin Past /\ Past' = Past \cup {s}
  BY <1>1, <1>2, <1>3, <1>4 DEF Past, Counted
<1>6. Cardinality(Past') = Cardinality(Past) + 1
  BY <1>5, CountedSets, FS_AddElement
<1>7. CountersAgree'
  BY <1>1, <1>4, <1>6 DEF CountInv, CountersAgree, Past, Line
<1>8. CallsOK'
  BY <1>1, <1>2, <1>3, <1>4 DEF CallsOK, CountInv, Adding
<1> QED
  BY <1>7, <1>8 DEF CountInv, CallsOK

LEMMA AddNoopCounts ==
  ASSUME TypeOK, LockInv, Delivery, CountInv, NEW s \in Requests, AddNoop(s)
  PROVE  CountInv'
<1> USE CallFacts
<1>1. /\ pc[<<"add", s>>] = "finish" /\ alg = "NOOP"
      /\ pc' = [pc EXCEPT ![<<"add", s>>] = "callback"]
      /\ place' = [r \in Requests |-> IF r \in {s} THEN "dispatch" ELSE place[r]]
      /\ Uncount(FileOf[QueueOf[s]], LineOf[FileOf[QueueOf[s]]], Cardinality({s}))
  BY DEF AddNoop, Return, Goto, ProcessStep1
<1>2. \A c \in Calls : c # <<"add", s>> => pc'[c] = pc[c]
  BY <1>1 DEF TypeOK, ClientTypeOK
<1>3. pc'[<<"add", s>>] = "callback"
  BY <1>1 DEF TypeOK, ClientTypeOK
<1>4. s \in Past
  BY <1>1 DEF CountInv, Adding, Past
<1>5. Counted(Requests)' = Counted(Requests) \ {s}
  BY <1>1 DEF Counted, Queued
<1>6. /\ FileOf[QueueOf[s]] \in Files /\ Line(s) \in Lines
      /\ LineOf[FileOf[QueueOf[s]]] = Line(s)
  BY StateAssumption, LockFacts DEF Line
<1>7. \A r \in Counted(Requests) \ {s} :
        pc'[<<"add", r>>] = "count" <=> pc[<<"add", r>>] = "count"
  BY <1>2 DEF Counted
<1>8. CountersAgree'
  BY <1>1, <1>4, <1>5, <1>6, <1>7, CountsLeave DEF CountInv
<1>9. CallsOK'
  BY <1>2, <1>3, <1>5 DEF CallsOK, CountInv, Adding
<1> QED
  BY <1>8, <1>9 DEF CountInv, CallsOK

LEMMA CancelCounts ==
  ASSUME TypeOK, LockInv, CountInv, CancelsOwnLine,
         NEW s \in Requests, CancelBody(s)
  PROVE  CountInv'
<1> USE CallFacts
<1>1. /\ pc[<<"cancel", s>>] = "body"
      /\ pc' = [pc EXCEPT ![<<"cancel", s>>] = "done"]
  BY DEF CancelBody, Return, Goto
<1>2. \A r \in Requests : pc'[<<"add", r>>] = pc[<<"add", r>>]
  BY <1>1 DEF TypeOK, ClientTypeOK
<1>3. s \in Cancelable
  BY <1>1 DEF CountInv
<1>4. \A r \in Requests : pc'[<<"cancel", r>>] # "idle" => r \in Cancelable
  BY <1>1, <1>3 DEF CountInv, TypeOK, ClientTypeOK
<1>5. CASE UNCHANGED <<place, counters>>
  <2>1. Counted(Requests)' = Counted(Requests)
    BY <1>5 DEF Counted, Queued
  <2>2. CountersAgree'
    BY <1>2, <1>5, <2>1, CountsStay DEF CountInv, Counted
  <2> QED
    BY <1>2, <1>4, <2>1, <2>2 DEF CountInv, Adding
<1>6. ASSUME NEW x \in CancelMatches(s),
             place' = [place EXCEPT ![x] = "cancelled"],
             Uncount(FileOf[QueueOf[x]], Line(s), 1)
      PROVE  CountInv'
  <2>1. x \in Requests /\ Queued(x) /\ Line(x) = Line(s) /\ ~Adding(x)
    BY <1>3, CancelLocksMatches
  <2>2. Counted(Requests)' = Counted(Requests) \ {x} /\ x \in Past
    BY <1>6, <2>1 DEF Counted, Queued, Past, Adding, TypeOK, StateTypeOK
  <2>3. FileOf[QueueOf[x]] \in Files /\ Line(x) \in Lines
    BY <2>1, StateAssumption, LockFacts
  <2>4. Uncount(FileOf[QueueOf[x]], Line(x), Cardinality({x}))
    <3>1. Cardinality({x}) = 1
      BY FS_Singleton
    <3> QED
      BY <1>6, <2>1, <3>1
  <2>5. CountersAgree'
    BY <1>2, <2>2, <2>3, <2>4, CountsLeave DEF CountInv, Counted
  <2> QED
    BY <1>2, <1>4, <2>1, <2>2, <2>5 DEF CountInv, Adding
<1> QED
  BY <1>5, <1>6 DEF CancelBody

(* Steps that leave counters and counted requests alone.                   *)
LEMMA SameCounts ==
  ASSUME CountInv, UNCHANGED counters,
         \A r \in Requests : r \in Counted(Requests)' <=> r \in Counted(Requests),
         \A r \in Requests :
           /\ pc'[<<"add", r>>] = "count" <=> pc[<<"add", r>>] = "count"
           /\ Adding(r)' => Adding(r)
           /\ pc'[<<"cancel", r>>] # "idle" => r \in Cancelable
  PROVE  CountInv'
<1>1. Counted(Requests)' = Counted(Requests)
  BY DEF Counted
<1>2. CountersAgree'
  BY <1>1, CountsStay DEF CountInv, Counted
<1> QED
  BY <1>1, <1>2 DEF CountInv

LEMMA RequestActionCounts ==
  ASSUME TypeOK, LockInv, Delivery, CountInv, CancelsOwnLine,
         NEW s \in Requests, RequestAction(s)
  PROVE  CountInv'
<1>1. CASE AddSignal(s) \/ AddCallback(s)
  <2>1. UNCHANGED <<place, counters>>
    BY <1>1 DEF AddSignal, AddCallback
  <2>2. pc[<<"add", s>>] # "count" /\ pc' = [pc EXCEPT ![<<"add", s>>] = "done"]
    BY <1>1 DEF AddSignal, AddCallback, Return, Goto
  <2>3. \A r \in Requests :
          /\ pc'[<<"add", r>>] = "count" <=> pc[<<"add", r>>] = "count"
          /\ Adding(r)' => Adding(r)
          /\ pc'[<<"cancel", r>>] # "idle" => r \in Cancelable
    BY <2>2, CallFacts DEF Adding, CountInv, TypeOK, ClientTypeOK
  <2> QED
    BY <2>1, <2>3, SameCounts DEF Counted, Queued
<1>2. CASE ReleaseBody(s)
  <2>1. UNCHANGED counters
    BY <1>2 DEF ReleaseBody
  <2>2. \A r \in Requests : r \in Counted(Requests)' <=> r \in Counted(Requests)
    BY <1>2 DEF ReleaseBody, ReleaseMatches, Counted, Queued, TypeOK, StateTypeOK
  <2>3. \A r \in Requests : /\ pc'[<<"add", r>>] = pc[<<"add", r>>]
                            /\ pc'[<<"cancel", r>>] = pc[<<"cancel", r>>]
    BY <1>2, CallFacts DEF ReleaseBody, Return, Goto, TypeOK, ClientTypeOK
  <2> QED
    BY <2>1, <2>2, <2>3, SameCounts DEF Adding, CountInv
<1> QED
  BY <1>1, <1>2, AddLinkCounts, AddCountCounts, AddNoopCounts, CancelCounts
     DEF RequestAction

LEMMA ClientActionCounts ==
  ASSUME TypeOK, CountInv, NEW c \in Calls, ClientAction(c)
  PROVE  CountInv'
<1>1. UNCHANGED <<place, counters>>
  BY DEF ClientAction, Call, ReadScheduler, Lock, Recheck, stateVars
<1>2. \A r \in Requests :
        /\ pc'[<<"add", r>>] = "count" <=> pc[<<"add", r>>] = "count"
        /\ Adding(r)' => Adding(r)
        /\ pc'[<<"cancel", r>>] # "idle" => r \in Cancelable
  <2> SUFFICES ASSUME NEW r \in Requests
               PROVE  /\ pc'[<<"add", r>>] = "count" <=> pc[<<"add", r>>] = "count"
                      /\ Adding(r)' => Adding(r)
                      /\ pc'[<<"cancel", r>>] # "idle" => r \in Cancelable
    OBVIOUS
  <2>1. \/ pc' = pc
        \/ \E label \in {"read", "lock", "check", "body"} :
             pc' = [pc EXCEPT ![c] = label]
    BY DEF ClientAction, Call, ReadScheduler, Lock, Recheck, Goto, clientVars
  <2>2. pc[c] \in {"idle", "read", "lock", "check"} \/ pc' = pc
    BY DEF ClientAction, Call, MayCall, ReadScheduler, Lock, Recheck, clientVars
  <2>3. c = <<"cancel", r>> /\ pc[c] = "idle" /\ pc' # pc => r \in Cancelable
    BY CallFacts DEF ClientAction, Call, MayCall, ReadScheduler, Lock, Recheck
  <2>4. pc[<<"cancel", r>>] # "idle" => r \in Cancelable
    BY DEF CountInv
  <2> QED
    BY <2>1, <2>2, <2>3, <2>4, CallFacts DEF Adding, TypeOK, ClientTypeOK
<1> QED
  BY <1>1, <1>2, SameCounts DEF Counted, Queued

(* The counters: the agios thread counts down exactly what it takes.       *)
LEMMA TakeFromCounts ==
  ASSUME TypeOK, LockInv, CountInv, UNCHANGED pc, apc = "take",
         NEW in \in {"timeline", "hashtable"}, NEW qs \in SUBSET Queues,
         TakeFrom(in, qs), NeedsHashtable(alg) => qs = {chosen}
  PROVE  CountInv'
<1>1. PICK q \in qs : \E G \in Groups(in, q) : ProcessStep1(G, q)
  BY DEF TakeFrom
<1>2. PICK G \in Groups(in, q) : ProcessStep1(G, q)
  BY <1>1
<1>3. \A r \in G : r \in Requests /\ Queued(r) /\ QueueOf[r] = q /\ ~Adding(r)
  BY TakeLocksGroup
<1>4. G \in SUBSET Past /\ G # {}
  BY <1>3 DEF Past, Counted, Adding, Groups
<1>5. Counted(Requests)' = Counted(Requests) \ G
  BY <1>2 DEF ProcessStep1, Counted, Queued
<1>6. FileOf[q] \in Files /\ LineOf[FileOf[q]] \in Lines
  BY StateAssumption
<1>7. \A r \in G : FileOf[QueueOf[r]] = FileOf[q] /\ Line(r) = LineOf[FileOf[q]]
  BY <1>3 DEF Line
<1>8. CountersAgree'
  BY <1>2, <1>4, <1>5, <1>6, <1>7, CountsLeave DEF CountInv, ProcessStep1
<1> QED
  BY <1>3, <1>5, <1>8 DEF CountInv, Adding

LEMMA ThreadActionCounts ==
  ASSUME TypeOK, LockInv, CountInv, ThreadAction
  PROVE  CountInv'
<1>1. UNCHANGED pc
  BY DEF ThreadAction, clientVars
<1>2. ASSUME UNCHANGED <<place, counters>> PROVE CountInv'
  BY <1>1, <1>2, SameCounts DEF Counted, Queued, CountInv, Adding
<1>3. CASE TakeTO
  <2>1. apc = "take" /\ ~NeedsHashtable(alg)
    BY <1>3 DEF TakeTO, NeedsHashtable
  <2> QED
    BY <1>1, <1>2, <1>3, <2>1, TakeFromCounts DEF TakeTO
<1>4. CASE TakeSJF
  <2>1. apc = "take" /\ {chosen} \in SUBSET Queues
    BY <1>4 DEF TakeSJF, LockInv, ThreadLocks
  <2> QED
    BY <1>1, <1>2, <1>4, <2>1, TakeFromCounts DEF TakeSJF
<1>5. CASE TakeNOOP
  <2>1. apc = "take" /\ ~NeedsHashtable(alg)
    BY <1>5 DEF TakeNOOP, NeedsHashtable
  <2> QED
    BY <1>1, <1>2, <1>5, <2>1, TakeFromCounts DEF TakeNOOP
<1>6. CASE Migrate
  <2>1. UNCHANGED counters
    BY <1>6 DEF Migrate
  <2>2. \A r \in Requests : r \in Counted(Requests)' <=> r \in Counted(Requests)
    BY <1>6 DEF Migrate, Counted, Queued
  <2> QED
    BY <1>1, <2>1, <2>2, SameCounts DEF CountInv, Adding
<1>7. CASE ~(TakeTO \/ TakeSJF \/ TakeNOOP \/ Migrate)
  <2>1. UNCHANGED <<place, counters>>
    BY <1>7 DEF ThreadAction, ThreadStep, ChangeStep, ScheduleStep, SleepStep,
       ChooseScheduler, UnlockAll, Loop, LockAll, Switch, Check, Test, ScanLock,
       Scan, ScanNext, TakeLock, CallBack, FallAsleep, Woken, Timeout, LoopEnd,
       stateVars
  <2> QED
    BY <1>2, <2>1
<1> QED
  BY <1>3, <1>4, <1>5, <1>6, <1>7

LEMMA NextCounts ==
  TypeOK /\ LockInv /\ Delivery /\ CountInv /\ CancelsOwnLine /\ [Next]_vars
    => CountInv'
<1> SUFFICES ASSUME TypeOK, LockInv, Delivery, CountInv, CancelsOwnLine, [Next]_vars
             PROVE  CountInv'
  OBVIOUS
<1>1. CASE ExitAction \/ UNCHANGED vars
  <2>1. UNCHANGED <<place, counters, pc>>
    BY <1>1 DEF ExitAction, Exit, vars, stateVars, clientVars
  <2> QED
    BY <2>1, SameCounts DEF Counted, Queued, CountInv, Adding
<1> QED
  BY <1>1, NextCases, ClientActionCounts, RequestActionCounts, ThreadActionCounts

LEMMA InitCounts == Init => CountInv
<1> SUFFICES ASSUME Init PROVE CountInv
  OBVIOUS
<1>1. Counted(Requests) = {}
  BY DEF Init, InitState, Counted, Queued
<1>2. Active = {} /\ reqnb = 0 /\ filenb = 0
      /\ (\A f \in Files : fileReqs[f] = 0) /\ (\A l \in Lines : lineReqs[l] = 0)
  BY DEF Init, InitState, Active
<1>3. CountersAgree
  BY <1>1, <1>2, FS_EmptySet DEF CountersAgree, Active
<1>4. \A c \in Calls : pc[c] = "idle"
  BY DEF Init, ClientInit
<1> QED
  BY <1>3, <1>4, CallFacts DEF CountInv, Adding

(* The counters agree with what is queued, however calls, the thread and   *)
(* changes of the scheduler interleave, as long as a cancel cannot free a  *)
(* twin of its request on another line.                                    *)
THEOREM CountsAgree == CancelsOwnLine /\ Spec => []CountersAgree
<1>1. Init => CountInv
  BY InitCounts
<1>2. TypeOK /\ LockInv /\ Delivery /\ CountInv /\ CancelsOwnLine /\ [Next]_vars
        => CountInv'
  BY NextCounts
<1>3. CancelsOwnLine => CancelsOwnLine'
  BY DEF CancelsOwnLine, Line
<1>4. CountInv => CountersAgree
  BY DEF CountInv
<1> QED
  BY <1>1, <1>2, <1>3, <1>4, TypeCorrect, LockingCorrect, DeliveryCorrect, PTL
     DEF Spec

-----------------------------------------------------------------------------
(* Nothing is held but by an add under NOOP, for the scheduler does not    *)
(* change under it.                                                        *)
LEMMA NextHeld == TypeOK /\ LockInv /\ HeldInv /\ [Next]_vars => HeldInv'
<1> SUFFICES ASSUME TypeOK, LockInv, HeldInv, [Next]_vars,
                    NEW r \in Requests, place'[r] = "held"
             PROVE  Adding(r)' /\ alg' = "NOOP"
  BY DEF HeldInv
<1> USE CallFacts DEF Adding, TypeOK, ClientTypeOK, StateTypeOK
<1>1. ASSUME NEW c \in Calls, ClientAction(c) PROVE Adding(r)' /\ alg' = "NOOP"
  <2>1. UNCHANGED <<place, alg>>
    BY <1>1 DEF ClientAction, Call, ReadScheduler, Lock, Recheck, stateVars
  <2>2. \/ pc' = pc
        \/ /\ pc[c] \in {"idle", "read", "lock", "check"}
           /\ \E label : pc' = [pc EXCEPT ![c] = label]
    BY <1>1 DEF ClientAction, Call, MayCall, ReadScheduler, Lock, Recheck, Goto,
       clientVars
  <2> QED
    BY <2>1, <2>2 DEF HeldInv
<1>2. ASSUME NEW s \in Requests, RequestAction(s)
      PROVE  Adding(r)' /\ alg' = "NOOP"
  <2>1. alg' = alg
    BY <1>2 DEF RequestAction, AddLink, AddCount, AddSignal, AddNoop,
       AddCallback, CancelBody, ReleaseBody
  <2>2. CASE AddLink(s)
    BY <2>1, <2>2 DEF AddLink, Goto, HeldInv, NeedsHashtable
  <2>3. CASE AddCount(s)
    BY <2>1, <2>3 DEF AddCount, Goto, HeldInv
  <2>4. CASE AddSignal(s)
    BY <2>1, <2>4 DEF AddSignal, Return, Goto, HeldInv
  <2>5. CASE AddNoop(s)
    BY <2>1, <2>5 DEF AddNoop, ProcessStep1, Return, Goto, HeldInv
  <2>6. CASE AddCallback(s)
    BY <2>1, <2>6 DEF AddCallback, Goto, HeldInv
  <2>7. CASE CancelBody(s)
    <3>1. place[r] = "held"
      BY <2>7 DEF CancelBody, CancelMatches
    <3>2. pc'[<<"add", r>>] = pc[<<"add", r>>]
      BY <2>7 DEF CancelBody, Return, Goto
    <3> QED
      BY <2>1, <3>1, <3>2 DEF HeldInv
  <2>8. CASE ReleaseBody(s)
    <3>1. place[r] = "held"
      BY <2>8 DEF ReleaseBody, ReleaseMatches
    <3>2. pc'[<<"add", r>>] = pc[<<"add", r>>]
      BY <2>8 DEF ReleaseBody, Return, Goto
    <3> QED
      BY <2>1, <3>1, <3>2 DEF HeldInv
  <2> QED
    BY <1>2, <2>2, <2>3, <2>4, <2>5, <2>6, <2>7, <2>8 DEF RequestAction
<1>3. CASE ThreadAction
  <2>1. place[r] = "held"
    BY <1>3, ThreadActionPlaces DEF Migrate
  <2>2. Adding(r) /\ alg = "NOOP" /\ HoldsLock(<<"add", r>>)
    BY <2>1 DEF HeldInv, HoldsLock, InBody
  <2>3. alg' = alg
    BY <1>3, <2>2, ThreadActionAlg, AllHeldNoBody
  <2> QED
    BY <1>3, <2>2, <2>3 DEF ThreadAction, clientVars
<1>4. CASE ExitAction \/ UNCHANGED vars
  BY <1>4 DEF ExitAction, Exit, vars, stateVars, clientVars, HeldInv
<1> QED
  BY <1>1, <1>2, <1>3, <1>4, NextCases

-----------------------------------------------------------------------------
(* Without cancels, a queued request stays where it is until the thread    *)
(* takes it or migrates it.                                                *)
LEMMA CallsKeepQueued ==
  ASSUME TypeOK, LockInv, Delivery, CountInv, Cancelable = {},
         NEW s \in Requests, RequestAction(s)
  PROVE  \A r \in Requests : Queued(r) => place'[r] = place[r]
<1> SUFFICES ASSUME NEW r \in Requests, Queued(r) PROVE place'[r] = place[r]
  OBVIOUS
<1>1. CASE AddLink(s)
  <2>1. place[s] = "new"
    BY <1>1, CallFacts DEF AddLink, Delivery, DeliveryOf, NotYetAdded
  <2> QED
    BY <1>1, <2>1 DEF AddLink, Queued, TypeOK, StateTypeOK
<1>2. CASE AddNoop(s)
  <2>1. place[s] = "held"
    BY <1>2, CallFacts DEF AddNoop, Delivery, DeliveryOf
  <2> QED
    BY <1>2, <2>1 DEF AddNoop, ProcessStep1, Queued, TypeOK, StateTypeOK
<1>3. CASE CancelBody(s)
  BY <1>3 DEF CancelBody, CountInv
<1>4. CASE ReleaseBody(s)
  BY <1>4 DEF ReleaseBody, ReleaseMatches, Queued, TypeOK, StateTypeOK
<1> QED
  BY <1>1, <1>2, <1>3, <1>4, RequestActionPlaces

(* The size of a queue tells whether it has requests.                      *)
LEMMA QueueSizes ==
  ASSUME ZeroLength = {}, NEW q \in Queues
  PROVE  /\ QueueSize(q) \in Nat /\ QueueSize(q) < LONG_MAX
         /\ QueueSize(q) > 0 <=>
              \E r \in Requests : InHashtable(r) /\ QueueOf[r] = q
<1> DEFINE S == {r \in Requests \ ZeroLength :
                   place[r] = "hashtable" /\ QueueOf[r] = q}
<1>1. S \in SUBSET Requests /\ IsFiniteSet(Requests)
  BY StateAssumption
<1>2. /\ IsFiniteSet(S) /\ Cardinality(S) <= Cardinality(Requests)
      /\ Cardinality(S) \in Nat /\ Cardinality(Requests) \in Nat
  BY <1>1, FS_Subset, FS_CardinalityType
<1>3. Cardinality(S) = 0 <=> S = {}
  BY <1>2, FS_EmptySet
<1>4. S = {} <=> ~ \E r \in Requests : InHashtable(r) /\ QueueOf[r] = q
  BY DEF InHashtable
<1>5. QueueSize(q) = Cardinality(S)
  BY DEF QueueSize
<1> HIDE DEF S
<1> QED
  BY <1>2, <1>3, <1>4, <1>5 DEF LONG_MAX

(* The files on the lines behind the scan, as it moves on.                 *)
LEMMA FilesBeforeFinite ==
  \A l \in Int : /\ IsFiniteSet(FilesBefore(l))
                 /\ Cardinality(FilesBefore(l)) \in Nat
<1>1. \A l \in Int : IsFiniteSet(FilesBefore(l))
  BY StateAssumption, FS_Subset DEF FilesBefore
<1> QED
  BY <1>1, FS_CardinalityType

LEMMA FilesBeforeMonotone ==
  ASSUME TypeOK, NEW l \in Int,
         \A r \in Requests : InHashtable(r) => InHashtable(r)'
  PROVE  Cardinality(FilesBefore(l)) <= Cardinality(FilesBefore(l)')
<1>1. FilesBefore(l) \in SUBSET FilesBefore(l)'
  BY DEF FilesBefore
<1>2. IsFiniteSet(FilesBefore(l)')
  BY StateAssumption, FS_Subset DEF FilesBefore
<1> QED
  BY <1>1, <1>2, FS_Subset

LEMMA FilesBeforeNext ==
  ASSUME NEW l \in Lines
  PROVE  Cardinality(FilesBefore(l + 1)) =
           Cardinality(FilesBefore(l)) + Cardinality(FilesOnLine(l))
<1>1. l \in Int /\ l + 1 \in Int
  BY DEF Lines
<1>2. FilesBefore(l + 1) = FilesBefore(l) \cup FilesOnLine(l)
  <2>1. \A f \in Files : LineOf[f] < l + 1 <=> LineOf[f] < l \/ LineOf[f] = l
    BY <1>1, StateAssumption DEF Lines
  <2> QED
    BY <2>1 DEF FilesBefore, FilesOnLine, InHashtable
<1>3. FilesBefore(l) \cap FilesOnLine(l) = {}
  BY <1>1, StateAssumption DEF FilesBefore, FilesOnLine, Lines
<1>4. IsFiniteSet(FilesBefore(l)) /\ IsFiniteSet(FilesOnLine(l))
  BY StateAssumption, FS_Subset DEF FilesBefore, FilesOnLine
<1>5. /\ Cardinality(FilesBefore(l)) \in Nat
      /\ Cardinality(FilesOnLine(l)) \in Nat /\ Cardinality({}) = 0
  BY <1>4, FS_CardinalityType, FS_EmptySet
<1>6. Cardinality(FilesBefore(l + 1)) =
        Cardinality(FilesBefore(l)) + Cardinality(FilesOnLine(l)) - Cardinality({})
  BY <1>2, <1>3, <1>4, FS_Union
<1> QED
  BY <1>5, <1>6

-----------------------------------------------------------------------------
(* The thread's knowledge survives every step of the clients, ...          *)
LEMMA ClientsKeepWork ==
  ASSUME TypeOK, WorkInv, UNCHANGED <<alg, threadVars>>, CalledLate',
         \A r \in Requests : Queued(r) => place'[r] = place[r]
  PROVE  WorkInv'
<1>1. UNCHANGED <<apc, k, chosen, minSize, evaluated>>
  BY DEF threadVars, scan
<1>2. /\ \A r \in Requests : place[r] = "timeline" => place'[r] = "timeline"
      /\ \A r \in Requests : InHashtable(r) => InHashtable(r)'
  BY DEF Queued, InHashtable
<1>3. TimelineHas' /\ ChosenHas'
  BY <1>1, <1>2 DEF WorkInv, TimelineHas, ChosenHas, Taking, Scanning, InHashtable
<1>4. Ahead' = Ahead /\ Ahead \in Int
  BY <1>1 DEF Ahead, TypeOK, ThreadTypeOK, Locks
<1>5. Cardinality(FilesBefore(Ahead)) <= Cardinality(FilesBefore(Ahead)')
  BY <1>2, <1>4, FilesBeforeMonotone
<1>6. /\ Cardinality(FilesBefore(Ahead)) \in Nat /\ evaluated \in Int
      /\ Cardinality(FilesBefore(Ahead)') \in Nat
  <2>1. IsFiniteSet(FilesBefore(Ahead)')
    BY StateAssumption, FS_Subset DEF FilesBefore
  <2> QED
    BY <1>4, <2>1, FilesBeforeFinite, FS_CardinalityType DEF TypeOK, ThreadTypeOK
<1>7. ScanInv'
  <2>1. Scanning => evaluated' <= Cardinality(FilesBefore(Ahead)')
    BY <1>1, <1>5, <1>6 DEF WorkInv, ScanInv
  <2> QED
    BY <1>1, <1>2, <1>4, <2>1 DEF WorkInv, ScanInv, Scanning, FilesBefore,
       InHashtable, Line, LONG_MAX
<1> QED
  BY <1>3, <1>7 DEF WorkInv

(* ... and a counter above zero, read with no lock, tells the thread that  *)
(* the structure it is about to look at holds a request.                   *)
LEMMA CountedIsThere ==
  ASSUME TypeOK, GhostInv, CountInv, HeldInv, reqnb > 0, apc # "migrate", alg # "NOOP"
  PROVE  \E r \in Requests : place[r] = IF NeedsHashtable(alg) THEN "hashtable"
                                       ELSE "timeline"
<1>1. Past # {}
  <2>1. reqnb = Cardinality(Past)
    BY DEF CountInv, CountersAgree, Past
  <2> QED
    BY <2>1, FS_EmptySet
<1>2. PICK r \in Requests : Queued(r) \/ place[r] = "held"
  BY <1>1 DEF Past, Counted
<1>3. Queued(r)
  BY <1>2 DEF HeldInv
<1> QED
  BY <1>3 DEF GhostInv, NoGhostRequest

LEMMA TestWork ==
  ASSUME TypeOK, LockInv, GhostInv, CountInv, HeldInv, WorkInv, Test,
         UNCHANGED clientVars
  PROVE  WorkInv'
<1>1. /\ apc = "test" /\ UNCHANGED <<alg, place, pc>>
  BY DEF Test, stateVars, clientVars
<1>2. CalledLate'
  BY <1>1 DEF WorkInv, CalledLate
<1>3. CASE reqnb <= 0
  <2>1. apc' = "loop_end"
    BY <1>3 DEF Test
  <2> QED
    BY <1>2, <2>1 DEF WorkInv, TimelineHas, ChosenHas, ScanInv, Scanning, Taking
<1>4. CASE reqnb > 0 /\ ~(reqnb <= 0) /\ alg = "SJF"
  <2>1. /\ apc' = "scan_lock" /\ k' = 1 /\ chosen' = NoQueue
        /\ minSize' = LONG_MAX /\ evaluated' = 0
    BY <1>4 DEF Test
  <2>2. PICK r \in Requests : place[r] = "hashtable"
    BY <1>1, <1>4, CountedIsThere DEF NeedsHashtable
  <2>3. Line(r) >= 1
    BY LockFacts DEF Lines
  <2>4. Ahead' = 1 /\ FilesBefore(1)' = FilesBefore(1) /\ LONG_MAX' = LONG_MAX
    BY <1>1, <2>1 DEF Ahead, FilesBefore, InHashtable, LONG_MAX
  <2>5. Cardinality(FilesBefore(1)) >= 0
    BY FilesBeforeFinite
  <2>6. ScanInv'
    BY <1>1, <1>4, <2>1, <2>2, <2>3, <2>4, <2>5 DEF ScanInv, InHashtable, Line
  <2> QED
    BY <1>2, <2>1, <2>6 DEF WorkInv, TimelineHas, ChosenHas, Taking
<1>5. CASE reqnb > 0 /\ ~(reqnb <= 0) /\ alg # "SJF"
  <2>1. apc' = "take_lock"
    BY <1>5 DEF Test
  <2>2. alg \in {"TO", "TOAGG"} => \E r \in Requests : place[r] = "timeline"
    BY <1>1, <1>5, CountedIsThere DEF NeedsHashtable
  <2> QED
    BY <1>1, <1>2, <1>5, <2>1, <2>2
       DEF WorkInv, TimelineHas, ChosenHas, ScanInv, Scanning, Taking
<1>6. reqnb <= 0 \/ (reqnb > 0 /\ ~(reqnb <= 0))
  BY DEF TypeOK, StateTypeOK
<1> QED
  BY <1>3, <1>4, <1>5, <1>6

(* A line of the scan: whatever is on it is evaluated, and if it holds     *)
(* anything a queue is chosen.                                             *)
LEMMA ScanWork ==
  ASSUME TypeOK, LockInv, WorkInv, ZeroLength = {}, Scan, UNCHANGED clientVars
  PROVE  WorkInv'
<1>1. /\ apc = "scan" /\ UNCHANGED <<alg, place, pc, k>> /\ k \in Lines /\ alg = "SJF"
  BY DEF Scan, clientVars, LockInv, ThreadLocks, WorkInv, ScanInv, Scanning
<1>2. CalledLate'
  BY <1>1 DEF WorkInv, CalledLate
<1>3. CASE ~ \A f \in FilesOnLine(k) : Sane(f)
  <2>1. UNCHANGED <<apc, chosen, minSize, evaluated>>
    BY <1>3 DEF Scan, scan
  <2> QED
    BY <1>1, <1>2, <2>1 DEF WorkInv, TimelineHas, ChosenHas, ScanInv, Scanning,
       Taking, Ahead, FilesBefore, InHashtable, Line, LONG_MAX
<1>4. CASE \A f \in FilesOnLine(k) : Sane(f)
  <2>1. /\ apc' = "scan_next" /\ Ahead' = k + 1 /\ Ahead = k
        /\ evaluated' = evaluated + Cardinality(FilesOnLine(k))
    BY <1>1, <1>4 DEF Scan, Ahead
  <2>2. /\ evaluated <= Cardinality(FilesBefore(k)) /\ evaluated \in Int
        /\ Cardinality(FilesBefore(k)) \in Nat
        /\ Cardinality(FilesOnLine(k)) \in Nat
    BY <1>1, <2>1, FilesBeforeFinite, CountFacts
       DEF WorkInv, ScanInv, Scanning, TypeOK, ThreadTypeOK, Lines
  <2>3. evaluated' <= Cardinality(FilesBefore(Ahead)')
    <3>1. FilesBefore(Ahead)' = FilesBefore(k + 1)
      BY <1>1, <2>1 DEF FilesBefore, InHashtable
    <3> QED
      BY <1>1, <2>1, <2>2, <3>1, FilesBeforeNext
  <2>4. CASE Shorter(k) = {}
    <3>1. chosen' = chosen /\ minSize' = minSize
      BY <1>4, <2>4 DEF Scan
    <3>2. ASSUME chosen = NoQueue
          PROVE  /\ FilesOnLine(k) = {}
                 /\ \A r \in Requests : InHashtable(r) => Line(r) # k
      <4>1. minSize = LONG_MAX
        BY <1>1, <3>2 DEF WorkInv, ScanInv, Scanning
      <4>2. ASSUME NEW r \in Requests, InHashtable(r), Line(r) = k PROVE FALSE
        <5>1. QueueOf[r] \in Queues
          BY StateAssumption
        <5>2. QueueSize(QueueOf[r]) > 0 /\ QueueSize(QueueOf[r]) < LONG_MAX
          BY <4>2, <5>1, QueueSizes
        <5> QED
          BY <2>4, <4>1, <4>2, <5>1, <5>2 DEF Shorter, Line
      <4> QED
        BY <4>2 DEF FilesOnLine, InHashtable, Line
    <3>3. ChosenHas'
      BY <1>1, <2>1, <3>1 DEF WorkInv, ChosenHas, Scanning, InHashtable
    <3>4. chosen = NoQueue =>
            /\ minSize = LONG_MAX /\ evaluated' = 0
            /\ \E r \in Requests : InHashtable(r) /\ Line(r) >= k + 1
      <4> SUFFICES ASSUME chosen = NoQueue
                   PROVE  /\ minSize = LONG_MAX /\ evaluated' = 0
                          /\ \E r \in Requests : InHashtable(r) /\ Line(r) >= k + 1
        OBVIOUS
      <4>1. /\ minSize = LONG_MAX /\ evaluated = 0
            /\ \E r \in Requests : InHashtable(r) /\ Line(r) >= k
        BY <1>1, <2>1 DEF WorkInv, ScanInv, Scanning
      <4>2. evaluated' = 0
        BY <2>1, <3>2, <4>1, FS_EmptySet
      <4>3. PICK r \in Requests : InHashtable(r) /\ Line(r) >= k
        BY <4>1
      <4>4. Line(r) >= k + 1
        BY <1>1, <3>2, <4>3, LockFacts DEF Lines
      <4> QED
        BY <4>1, <4>2, <4>3, <4>4
    <3>5. ScanInv'
      BY <1>1, <2>1, <2>3, <3>1, <3>4 DEF ScanInv, InHashtable, Line, LONG_MAX
    <3> QED
      BY <1>2, <2>1, <3>3, <3>5 DEF WorkInv, TimelineHas, Taking
  <2>5. CASE Shorter(k) # {}
    <3>1. PICK q \in Shorter(k) : chosen' = q
      BY <1>4, <2>5 DEF Scan, Shortest
    <3>2. q \in Queues /\ q # NoQueue /\ QueueSize(q) > 0
      BY <3>1, NamesAssumption DEF Shorter
    <3>3. \E r \in Requests : InHashtable(r)' /\ QueueOf[r] = q
      BY <1>1, <3>2, QueueSizes DEF InHashtable
    <3>4. ScanInv'
      BY <1>1, <2>1, <2>3, <3>1, <3>2 DEF ScanInv
    <3> QED
      BY <1>2, <2>1, <3>1, <3>3, <3>4 DEF WorkInv, TimelineHas, ChosenHas, Taking
  <2> QED
    BY <2>4, <2>5
<1> QED
  BY <1>3, <1>4

(* The thread's own steps.                                                 *)
LEMMA ThreadActionWork ==
  ASSUME TypeOK, LockInv, GhostInv, CountInv, HeldInv, WorkInv, ZeroLength = {},
         ThreadAction
  PROVE  WorkInv'
<1>1. pc' = pc
  BY DEF ThreadAction, clientVars
<1>2. CalledLate'
  <2>1. alg' = alg \/ alg' \in Algorithms
    BY ThreadActionAlg, AlgAssumption DEF ChooseScheduler, Switch
  <2> QED
    BY <1>1, <2>1 DEF WorkInv, CalledLate, Algorithms, NoAlg
<1>3. CASE Test \/ Scan
  BY <1>3, TestWork, ScanWork DEF ThreadAction
<1>4. CASE ScanLock \/ TakeLock
  <2>1. /\ UNCHANGED <<alg, place, k, chosen, minSize, evaluated>>
        /\ \/ apc = "scan_lock" /\ apc' = "scan"
           \/ apc = "take_lock" /\ apc' = "take"
    BY <1>4 DEF ScanLock, TakeLock, scan
  <2> QED
    BY <1>1, <1>2, <2>1 DEF WorkInv, TimelineHas, ChosenHas, ScanInv, Scanning,
       Taking, Ahead, FilesBefore, InHashtable, Line, LONG_MAX
<1>5. CASE ScanNext
  <2>1. /\ UNCHANGED <<alg, place, chosen, minSize, evaluated>>
        /\ apc = "scan_next" /\ alg = "SJF"
        /\ \/ apc' = "scan_lock" /\ k' = k + 1
           \/ apc' = "test"
           \/ apc' = "take_lock" /\ chosen # NoQueue
    BY <1>5 DEF ScanNext, stateVars, scan, WorkInv, ScanInv, Scanning
  <2>2. apc' = "scan_lock" => Ahead' = Ahead
    BY <2>1 DEF Ahead
  <2>3. TimelineHas' /\ ChosenHas'
    BY <2>1 DEF WorkInv, TimelineHas, ChosenHas, Scanning, Taking, InHashtable
  <2>4. ScanInv'
    BY <2>1, <2>2 DEF WorkInv, ScanInv, Scanning, FilesBefore, InHashtable,
       Line, LONG_MAX
  <2> QED
    BY <1>2, <2>3, <2>4 DEF WorkInv
<1>6. CASE TakeTO \/ TakeSJF \/ TakeNOOP
  <2>1. CASE apc' = "take"
    <3>1. UNCHANGED <<alg, place, chosen>>
      BY <1>6, <2>1 DEF TakeTO, TakeSJF, TakeNOOP, TakeFrom, scan
    <3> QED
      BY <1>2, <1>6, <2>1, <3>1 DEF WorkInv, TimelineHas, ChosenHas, ScanInv,
         Scanning, Taking, InHashtable, TakeTO, TakeSJF, TakeNOOP
  <2>2. CASE apc' # "take"
    <3>1. apc' \in {"callback", "loop_end"}
      BY <1>6, <2>2 DEF TakeTO, TakeSJF, TakeNOOP, TakeFrom
    <3> QED
      BY <1>2, <3>1 DEF WorkInv, TimelineHas, ChosenHas, ScanInv, Scanning, Taking
  <2> QED
    BY <2>1, <2>2
<1>7. CASE ~(Test \/ Scan \/ ScanLock \/ TakeLock \/ ScanNext
               \/ TakeTO \/ TakeSJF \/ TakeNOOP)
  <2>1. apc' \notin {"scan_lock", "scan", "scan_next", "take"}
        /\ (apc' = "take_lock" => alg' = "NOOP")
    BY <1>7 DEF ThreadAction, ThreadStep, ChangeStep, ScheduleStep, SleepStep,
       ChooseScheduler, UnlockAll, Loop, LockAll, Switch, Migrate, Check,
       CallBack, FallAsleep, Woken, Timeout, LoopEnd, stateVars
  <2> QED
    BY <1>2, <2>1 DEF WorkInv, TimelineHas, ChosenHas, ScanInv, Scanning, Taking
<1> QED
  BY <1>3, <1>4, <1>5, <1>6, <1>7

LEMMA NextWork ==
  PlainClient /\ TypeOK /\ LockInv /\ Delivery /\ GhostInv
      /\ CountInv /\ HeldInv /\ WorkInv /\ [Next]_vars
    => WorkInv'
<1> SUFFICES ASSUME PlainClient, TypeOK, LockInv, Delivery, GhostInv,
                    CountInv, HeldInv, WorkInv, [Next]_vars
             PROVE  WorkInv'
  OBVIOUS
<1>1. ASSUME NEW c \in Calls, ClientAction(c) PROVE WorkInv'
  <2>1. UNCHANGED <<alg, place, threadVars>>
    BY <1>1 DEF ClientAction, Call, ReadScheduler, Lock, Recheck, stateVars
  <2>2. CalledLate'
    <3>1. \/ pc' = pc
          \/ alg # NoAlg
      BY <1>1 DEF ClientAction, Call, MayCall, ReadScheduler, Lock, Recheck,
         clientVars, PlainClient, WorkInv, CalledLate
    <3> QED
      BY <2>1, <3>1 DEF WorkInv, CalledLate
  <2> QED
    BY <2>1, <2>2, ClientsKeepWork
<1>2. ASSUME NEW s \in Requests, RequestAction(s) PROVE WorkInv'
  <2>1. UNCHANGED <<alg, threadVars>>
    BY <1>2 DEF RequestAction, AddLink, AddCount, AddSignal, AddNoop,
       AddCallback, CancelBody, ReleaseBody
  <2>2. \A r \in Requests : Queued(r) => place'[r] = place[r]
    BY <1>2, CallsKeepQueued DEF PlainClient
  <2>3. PICK c \in Calls : pc[c] # "idle"
    BY <1>2, CallFacts DEF RequestAction, AddLink, AddCount, AddSignal, AddNoop,
       AddCallback, CancelBody, ReleaseBody
  <2>4. CalledLate'
    BY <2>1, <2>3 DEF WorkInv, CalledLate
  <2> QED
    BY <2>1, <2>2, <2>4, ClientsKeepWork
<1>3. CASE ExitAction \/ UNCHANGED vars
  <2>1. UNCHANGED <<alg, place, pc, threadVars>>
    BY <1>3 DEF ExitAction, Exit, vars, stateVars, clientVars
  <2>2. CalledLate'
    BY <2>1 DEF WorkInv, CalledLate
  <2> QED
    BY <2>1, <2>2, ClientsKeepWork
<1> QED
  BY <1>1, <1>2, <1>3, NextCases, ThreadActionWork DEF PlainClient

-----------------------------------------------------------------------------
(* Everything that is known of a run with a plain client.                  *)
PlainInv ==
  /\ TypeOK /\ LockInv /\ Delivery /\ GhostInv
  /\ CountInv /\ HeldInv /\ WorkInv

LEMMA PlainInvariant == PlainClient /\ Spec => []PlainInv
<1>1. Init => GhostInv /\ HeldInv /\ WorkInv
  <2> SUFFICES ASSUME Init PROVE GhostInv /\ HeldInv /\ WorkInv
    OBVIOUS
  <2>1. apc = "init" /\ (\A c \in Calls : pc[c] = "idle")
        /\ (\A r \in Requests : place[r] = "new")
    BY DEF Init, InitState, ClientInit, ThreadInit
  <2> QED
    BY <2>1 DEF GhostInv, NoGhostRequest, Queued, HeldInv, WorkInv, CalledLate,
       TimelineHas, ChosenHas, ScanInv, Scanning, Taking
<1>2. PlainClient => CancelsOwnLine
  BY DEF PlainClient, CancelsOwnLine
<1>3. PlainClient => PlainClient'
  BY DEF PlainClient
<1>4. CancelsOwnLine => CancelsOwnLine'
  BY DEF CancelsOwnLine, Line
<1> QED
  BY <1>1, <1>2, <1>3, <1>4, InitCounts, TypeCorrect, LockingCorrect,
     DeliveryCorrect, NextGhost, NextCounts, NextHeld, NextWork, PTL
     DEF Spec, PlainInv

(* No assert fails and no pointer is used before it is set, when the       *)
(* client never cancels, always sends data and waits for agios_init.       *)
THEOREM NeverFaults == PlainClient /\ Spec => []NoFault
<1>1. Init => NoFault
  BY DEF Init, InitState, NoFault
<1>2. PlainClient /\ PlainInv /\ NoFault /\ [Next]_vars => NoFault'
  <2> SUFFICES ASSUME PlainClient, PlainInv, fault = "none", [Next]_vars
               PROVE  fault' = "none"
    BY DEF NoFault
  <2>1. ASSUME NEW c \in Calls, ClientAction(c) PROVE fault' = fault
    <3>1. pc[c] = "read" => alg # NoAlg
      BY DEF PlainInv, WorkInv, CalledLate
    <3> QED
      BY <2>1, <3>1 DEF ClientAction, Call, ReadScheduler, Lock, Recheck, stateVars
  <2>2. ASSUME NEW s \in Requests, RequestAction(s) PROVE fault' = fault
    BY <2>2 DEF RequestAction, AddLink, AddCount, AddSignal, AddNoop,
       AddCallback, CancelBody, ReleaseBody
  <2>3. CASE ThreadAction
    <3>1. CASE TakeTO
      <4>1. \E r \in Requests : place[r] = "timeline"
        BY <3>1 DEF TakeTO, PlainInv, WorkInv, TimelineHas, Taking
      <4> QED
        BY <3>1, <4>1 DEF TakeTO, TakeFrom
    <3>2. CASE TakeSJF
      <4>1. chosen \in Queues
        BY <3>2 DEF TakeSJF, PlainInv, LockInv, ThreadLocks
      <4>2. \E r \in Requests : place[r] = "hashtable" /\ QueueOf[r] = chosen
        BY <3>2, <4>1, NamesAssumption
           DEF TakeSJF, PlainInv, WorkInv, ChosenHas, Taking, InHashtable
      <4> QED
        BY <3>2, <4>2 DEF TakeSJF, TakeFrom
    <3>3. CASE Scan
      <4>1. ASSUME NEW f \in FilesOnLine(k) PROVE Sane(f)
        <5>1. PICK r \in Requests : InHashtable(r) /\ FileOf[QueueOf[r]] = f
          BY <4>1 DEF FilesOnLine, InHashtable
        <5>2. QueueOf[r] \in Queues /\ QueueSize(QueueOf[r]) > 0
          BY <5>1, QueueSizes, StateAssumption DEF PlainClient
        <5> QED
          BY <5>1, <5>2 DEF Sane
      <4> QED
        BY <3>3, <4>1 DEF Scan
    <3>4. CASE TakeNOOP
      BY <3>4 DEF TakeNOOP, TakeFrom
    <3>5. CASE ~(TakeTO \/ TakeSJF \/ TakeNOOP \/ Scan)
      BY <2>3, <3>5 DEF ThreadAction, ThreadStep, ChangeStep, ScheduleStep,
         SleepStep, ChooseScheduler, UnlockAll, Loop, LockAll, Switch, Migrate,
         Check, Test, ScanLock, ScanNext, TakeLock, CallBack, FallAsleep, Woken,
         Timeout, LoopEnd, stateVars
    <3> QED
      BY <3>1, <3>2, <3>3, <3>4, <3>5
  <2>4. CASE ExitAction \/ UNCHANGED vars
    BY <2>4 DEF ExitAction, Exit, vars, stateVars
  <2> QED
    BY <2>1, <2>2, <2>3, <2>4, NextCases
<1>3. PlainClient => PlainClient'
  BY DEF PlainClient
<1> QED
  BY <1>1, <1>2, <1>3, PlainInvariant, PTL DEF Spec

-----------------------------------------------------------------------------
(* A file with a request in the hashtable is counted.                      *)
LEMMA HashtableCounted ==
  ASSUME CountInv, NEW r \in Requests, InHashtable(r)
  PROVE  FileOf[QueueOf[r]] \in Active
<1> DEFINE f == FileOf[QueueOf[r]]
<1>1. f \in Files
  BY StateAssumption
<1>2. r \in OnFile(f)
  BY DEF InHashtable, OnFile, Counted, Queued
<1>3. IsFiniteSet(OnFile(f))
  BY <1>1, CountedSets
<1>4. Cardinality(OnFile(f)) \in Nat /\ Cardinality(OnFile(f)) # 0
  BY <1>2, <1>3, FS_CardinalityType, FS_EmptySet
<1>5. fileReqs[f] = Cardinality(OnFile(f))
  BY <1>1 DEF CountInv, CountersAgree, OnFile
<1> QED
  BY <1>1, <1>4, <1>5 DEF Active

LEMMA FilenbCounts == CountInv => filenb = Cardinality(Active)
BY DEF CountInv, CountersAgree, Active

(* The scan of SJF is cut short only when no request is left on the lines  *)
(* it has not looked at, although requests arrive behind it and ahead of   *)
(* it while it runs: "we know the rest of the hashtable is empty".         *)
THEOREM ShortcutIsSound == PlainClient /\ Spec => []ShortcutSound
<1>1. PlainInv => ShortcutSound
  <2> SUFFICES ASSUME PlainInv, apc = "scan_next", evaluated >= filenb,
                      NEW l \in Lines, l > k, NEW f \in FilesOnLine(l)
               PROVE  FALSE
    BY DEF ShortcutSound
  <2> DEFINE behind == FilesBefore(k + 1)
  <2>1. k \in Int /\ k + 1 \in Int /\ l \in Int
    BY DEF PlainInv, TypeOK, ThreadTypeOK, Locks, Lines
  <2>2. evaluated <= Cardinality(behind)
    BY DEF PlainInv, WorkInv, ScanInv, Scanning, Ahead
  <2>3. \A g \in behind : g \in Active
    BY HashtableCounted DEF PlainInv, FilesBefore
  <2>4. f \in Active
    BY HashtableCounted DEF PlainInv, FilesOnLine, InHashtable
  <2>5. behind = Active
    <3>1. /\ IsFiniteSet(Active) /\ behind \in SUBSET Active
          /\ IsFiniteSet(behind)
      BY <2>1, <2>3, CountedSets, FilesBeforeFinite
    <3>2. /\ Cardinality(behind) <= Cardinality(Active)
          /\ Cardinality(Active) = Cardinality(behind) => Active = behind
      BY <3>1, FS_Subset
    <3>3. Cardinality(behind) \in Nat /\ Cardinality(Active) \in Nat
      BY <3>1, FS_CardinalityType
    <3>4. filenb = Cardinality(Active) /\ evaluated \in Int
      BY FilenbCounts DEF PlainInv, TypeOK, ThreadTypeOK
    <3> HIDE DEF behind
    <3> QED
      BY <2>2, <3>2, <3>3, <3>4
  <2>6. LineOf[f] < k + 1 /\ LineOf[f] = l
    BY <2>4, <2>5 DEF FilesBefore, FilesOnLine
  <2> QED
    BY <2>1, <2>6
<1> QED
  BY <1>1, PlainInvariant, PTL

(* A scan that ends, early or at the last line, has found a queue: SJF     *)
(* never goes round without taking a request.                              *)
THEOREM ScanSucceeds == PlainClient /\ Spec => []ScanFindsQueue
<1>1. PlainInv => ScanFindsQueue
  <2> SUFFICES ASSUME PlainInv, apc = "scan_next", chosen = NoQueue,
                      evaluated >= filenb \/ k = NLines
               PROVE  FALSE
    BY DEF ScanFindsQueue
  <2>1. evaluated = 0 /\ \E r \in Requests : InHashtable(r) /\ Line(r) >= k + 1
    BY DEF PlainInv, WorkInv, ScanInv, Scanning, Ahead
  <2>2. PICK r \in Requests : InHashtable(r) /\ Line(r) >= k + 1
    BY <2>1
  <2>3. k # NLines
    <3>1. Line(r) \in 1..NLines /\ NLines \in Nat
      BY LockFacts, StateAssumption DEF Lines
    <3> QED
      BY <2>2, <3>1
  <2>4. filenb # 0 /\ filenb \in Nat
    <3>1. Active # {} /\ IsFiniteSet(Active)
      BY <2>2, HashtableCounted, CountedSets DEF PlainInv
    <3> QED
      BY <3>1, FilenbCounts, FS_EmptySet, FS_CardinalityType DEF PlainInv
  <2> QED
    BY <2>1, <2>3, <2>4
<1> QED
  BY <1>1, PlainInvariant, PTL
=============================================================================
