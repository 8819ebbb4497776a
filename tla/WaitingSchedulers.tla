------------------------- MODULE WaitingSchedulers -------------------------
(***************************************************************************)
(* aIOLi and MLF, the two schedulers that give each request a quantum that *)
(* grows while it waits (sched_factor) and make a file wait when they      *)
(* expect better requests for it (waiting_common.c).  The thread runs one  *)
(* of them, without change, while clients add requests.                    *)
(*                                                                         *)
(* A request here is an entry of a queue: a (virtual) request of Reqnb     *)
(* members that arrives in one piece.  Time passes by Tick.                *)
(***************************************************************************)
EXTENDS Lists, SequencesExt

CONSTANTS
  Requests, NoRequest,
  Files, NoQueue,
  NLines,          \* AGIOS_HASH_ENTRIES
  LineOf,          \* [Files -> Lines]
  FileOf, TypeOf, Offset, Length, Reqnb,   \* attributes of the requests
  Timestamp,       \* the order in which their structs were made
  Workloads,       \* bound: the sets of requests clients may come with
  Algorithms,      \* of "aIOLi", "MLF"
  Quantum,         \* config_aioli_quantum, config_mlf_quantum
  MaxQuantum,      \* the bound of adjust_quantum: MAX_AGGREG_SIZE
  WaitingTime,     \* config_waiting_time, in ticks
  MaxLockTries,    \* MAX_MLF_LOCK_TRIES
  Width            \* bits of the integer sched_factor

Lines == 1..NLines
Types == {"read", "write"}
Queues == Files \X Types
INT_MAX == 2 ^ (Width - 1) - 1
Info == [nextquantum : Nat, predictedoff : Nat, lastfinaloff : Nat,
         laststartoff : Nat, lastaggregation : Nat]

ASSUME WaitingAssumption ==
  /\ NLines \in Nat \ {0} /\ Width \in Nat \ {0} /\ IsFiniteSet(Files)
  /\ LineOf \in [Files -> Lines] /\ FileOf \in [Requests -> Files]
  /\ TypeOf \in [Requests -> Types]
  /\ Offset \in [Requests -> Nat] /\ Length \in [Requests -> Nat]
  /\ Reqnb \in [Requests -> Nat \ {0}] /\ Timestamp \in [Requests -> Nat \ {0}]
  /\ Workloads \subseteq SUBSET Requests
  /\ Algorithms \subseteq {"aIOLi", "MLF"}
  /\ Quantum \in Nat \ {0} /\ MaxQuantum \in Nat \ {0} /\ MaxLockTries \in Nat
  /\ INT_MAX \in Nat /\ WaitingTime \in 1..(INT_MAX - 1)
  /\ NoRequest \notin Requests /\ NoQueue \notin Queues

VARIABLES
  algorithm,  \* the scheduler in use
  owner,      \* the request whose add holds the lock of each line
  list,       \* queue_t.list
  given,      \* the requests given back to the client
  factor,     \* request_t.sched_factor
  info,       \* what a queue remembers of the requests it gave
  waiting,    \* file_t.waiting_time
  elapsed,    \* ticks since file_t.waiting_start, WaitingTime at most
  pc,         \* where the thread is
  line,       \* the line a loop of the thread is at
  shortest,   \* shortest_waiting_time
  options,    \* aIOLi: waiting_options
  selected,   \* aIOLi: the queue selected so far, or NoQueue
  selectedStamp, \* aIOLi: selected_timestamp, 0 for none
  timeout,    \* aIOLi: waiting_time, which starts uninitialised
  start,      \* MLF: starting_hash
  processed,  \* MLF: processed_requests
  tries       \* MLF: MLF_lock_tries

store == <<owner, list>>
aIOLiVars == <<options, selected, selectedStamp, timeout>>
MLFVars == <<start, processed, tries>>
vars == <<algorithm, store, given, factor, info, waiting, elapsed, pc, line,
          shortest, aIOLiVars, MLFVars>>

QueueOf(r) == <<FileOf[r], TypeOf[r]>>
FilesOf(l) == {f \in Files : LineOf[f] = l}
Queued == UNION {ToSet(list[q]) : q \in Queues}
Came == Queued \cup given \cup (ToSet(owner) \ {NoRequest})

TypeOK ==
  /\ algorithm \in Algorithms
  /\ owner \in [Lines -> Requests \cup {NoRequest}]
  /\ list \in [Queues -> Seq(Requests)]
  /\ given \subseteq Requests
  /\ factor \in [Requests -> -(INT_MAX + 1)..INT_MAX]
  /\ info \in [Queues -> Info]
  /\ waiting \in [Files -> 0..WaitingTime]
  /\ elapsed \in [Files -> 0..WaitingTime]
  /\ pc \in {"call", "loop", "scan", "check", "serve", "round"}
  /\ line \in Lines /\ start \in Lines
  /\ shortest \in 1..INT_MAX /\ timeout \in 0..INT_MAX
  /\ options \in 0..Cardinality(Files)
  /\ selected \in Queues \cup {NoQueue}
  /\ selectedStamp \in {0} \cup {Timestamp[r] : r \in Requests}
  /\ processed \in BOOLEAN
  /\ tries \in [Lines -> 0..MaxLockTries]

Init ==
  /\ algorithm \in Algorithms
  /\ owner = [l \in Lines |-> NoRequest]
  /\ list = [q \in Queues |-> <<>>]
  /\ given = {}
  /\ factor = [r \in Requests |-> 0]
  /\ info = [q \in Queues |-> [nextquantum |-> 0, predictedoff |-> 0,
               lastfinaloff |-> 0, laststartoff |-> 0, lastaggregation |-> 0]]
  /\ waiting = [f \in Files |-> 0] /\ elapsed = [f \in Files |-> 0]
  /\ pc = "call" /\ line = 1 /\ shortest = INT_MAX
  /\ options = 0 /\ selected = NoQueue /\ selectedStamp = 0 /\ timeout = 0
  /\ start = 1 /\ processed = FALSE /\ tries = [l \in Lines |-> 0]

-----------------------------------------------------------------------------
(* The clients: an add gets the lock of its line, then it links its request *)
(* in the sorted queue.  The timestamp dates from before the lock: requests *)
(* come in any order of their timestamps.  Workloads bounds the instances.  *)
Lock(r) ==
  LET l == LineOf[FileOf[r]] IN
  /\ r \notin Queued \cup given /\ owner[l] = NoRequest
  /\ \E W \in Workloads : Came \cup {r} \subseteq W
  /\ owner' = [owner EXCEPT ![l] = r]
  /\ UNCHANGED <<algorithm, list, given, factor, info, waiting, elapsed, pc,
                 line, shortest, aIOLiVars, MLFVars>>

(* Where a request goes: before the first one that is further, or as far    *)
(* and longer.                                                              *)
Place(s, r) ==
  LET Further(x) == \/ Offset[x] > Offset[r]
                    \/ Offset[x] = Offset[r] /\ Length[x] > Length[r]
      p == SelectInSeq(s, Further)
  IN IF p = 0 THEN Len(s) + 1 ELSE p

Link(r) ==
  LET l == LineOf[FileOf[r]] IN
  /\ owner[l] = r
  /\ list' = [list EXCEPT ![QueueOf(r)] = InsertAt(@, Place(@, r), r)]
  /\ owner' = [owner EXCEPT ![l] = NoRequest]
  /\ UNCHANGED <<algorithm, given, factor, info, waiting, elapsed, pc,
                 line, shortest, aIOLiVars, MLFVars>>

(* Time passes for the files that wait.                                     *)
Tick ==
  /\ \E f \in Files : waiting[f] > 0 /\ elapsed[f] < WaitingTime
  /\ elapsed' = [f \in Files |-> IF waiting[f] > 0 /\ elapsed[f] < WaitingTime
                                 THEN elapsed[f] + 1 ELSE elapsed[f]]
  /\ UNCHANGED <<algorithm, store, given, factor, info, waiting, pc, line,
                 shortest, aIOLiVars, MLFVars>>

-----------------------------------------------------------------------------
Wrap(n) == ((n + INT_MAX + 1) % (2 * (INT_MAX + 1))) - (INT_MAX + 1)

(* increment_sched_factor: the shift loses its highest bit.                 *)
Increment(n) == IF n = 0 THEN 1 ELSE Wrap(2 * n)

(* Is the request, with its factor incremented, within its quantum?         *)
WithinQuantum(r) == Length[r] <= Wrap(Increment(factor[r]) * Quantum)

(* The request a queue offers: aIOLi only looks at the first.               *)
PlaceOfOffer(q) ==
  LET i == SelectInSeq(list[q], WithinQuantum)
  IN IF algorithm = "aIOLi" /\ i > 1 THEN 0 ELSE i
Offer(q) ==
  IF PlaceOfOffer(q) = 0 THEN NoRequest ELSE list[q][PlaceOfOffer(q)]

(* A file offers a read, or else a write.                                   *)
OfferOfFile(f) ==
  IF Offer(<<f, "read">>) # NoRequest
  THEN Offer(<<f, "read">>) ELSE Offer(<<f, "write">>)

(* The requests whose factor looking at file f increments.                  *)
LookedAt(f) ==
  ToSet(list[<<f, "read">>]) \cup
  IF Offer(<<f, "read">>) # NoRequest THEN {} ELSE ToSet(list[<<f, "write">>])

(* update_waiting_time_counters; waiting_start is not moved.                *)
WaitingNow(f) ==
  IF waiting[f] > elapsed[f] THEN waiting[f] - elapsed[f] ELSE 0

ShortestOf(F) ==
  LET times == {WaitingNow(f) : f \in F} \ {0}
  IN Min({shortest} \cup times)

(* Mutant: the reason to wait is not forgotten.                             *)
RefuseAgain(r) ==
  LET i == info[QueueOf(r)] IN
  [wait |-> IF i.predictedoff # 0 THEN Offset[r] > i.predictedoff
            ELSE Offset[r] > i.lastfinaloff /\ i.lastaggregation > Reqnb[r],
   info |-> IF i.predictedoff # 0 THEN [i EXCEPT !.predictedoff = 0] ELSE i]

(* check_selection: must the file wait, and what does its queue forget?     *)
Refuse(r) ==
  LET i == info[QueueOf(r)]
      better == Offset[r] > i.lastfinaloff /\ i.lastaggregation > Reqnb[r]
  IN IF i.predictedoff # 0
     THEN [wait |-> Offset[r] > i.predictedoff,
           info |-> [i EXCEPT !.predictedoff = 0]]
     ELSE [wait |-> better,
           info |-> IF better THEN [i EXCEPT !.lastaggregation = 0] ELSE i]

(* waiting_algorithms_postprocess, with lastaggregation.                    *)
PostProcess(i, r) ==
  [i EXCEPT !.lastfinaloff = Offset[r] + Length[r],
            !.predictedoff = IF Offset[r] < i.laststartoff /\ @ = 0
                             THEN Offset[r] + Length[r] ELSE @,
            !.laststartoff = Offset[r],
            !.lastaggregation = Reqnb[r]]

-----------------------------------------------------------------------------
(* The thread calls the scheduler when something is queued.                 *)
CallaIOLi ==
  /\ algorithm = "aIOLi" /\ pc = "call" /\ Queued # {}
  /\ timeout' \in {0, INT_MAX}
  /\ pc' = "loop"
  /\ UNCHANGED <<algorithm, store, given, factor, info, waiting, elapsed, line,
                 shortest, options, selected, selectedStamp, MLFVars>>

(* The locals of aIOLi_select_queue have their first values.                *)
ForgetScan ==
  /\ line' = 1 /\ shortest' = INT_MAX /\ options' = 0
  /\ selected' = NoQueue /\ selectedStamp' = 0

(* The loop of aIOLi: it looks at every line, or there is nothing queued.   *)
StartScan ==
  /\ pc = "loop"
  /\ pc' = IF Queued # {} THEN "scan" ELSE "call"
  /\ UNCHANGED <<algorithm, store, given, factor, info, waiting, elapsed, line,
                 shortest, aIOLiVars, MLFVars>>

(* Mutant: a later line always wins.                                        *)
EarlierAlways(r) == TRUE

Earlier(r) == selectedStamp = 0 \/ Timestamp[r] < selectedStamp

(* aIOLi_select_queue, for one line under its lock.                         *)
Scan ==
  LET open == {f \in FilesOf(line) : WaitingNow(f) = 0} IN
  /\ pc = "scan" /\ owner[line] = NoRequest
  /\ \E offers \in {{OfferOfFile(f) : f \in open} \ {NoRequest}},
        looked \in {UNION {LookedAt(f) : f \in open}} :
       /\ factor' = [r \in Requests |-> IF r \in looked
                                        THEN Increment(factor[r])
                                        ELSE factor[r]]
       /\ \/ \E r \in offers :
               /\ \A s \in offers : Timestamp[r] <= Timestamp[s]
               /\ Earlier(r)
               /\ selected' = QueueOf(r) /\ selectedStamp' = Timestamp[r]
          \/ /\ \A r \in offers : ~Earlier(r)
             /\ UNCHANGED <<selected, selectedStamp>>
  /\ waiting' = [f \in Files |-> IF f \in FilesOf(line) THEN WaitingNow(f)
                                 ELSE waiting[f]]
  /\ options' = options + Cardinality(FilesOf(line) \ open)
  /\ shortest' = ShortestOf(FilesOf(line))
  /\ IF line = NLines THEN pc' = "check" /\ line' = line
     ELSE pc' = pc /\ line' = line + 1
  /\ UNCHANGED <<algorithm, store, given, info, elapsed, timeout, MLFVars>>

(* The end of aIOLi_select_queue: the first request of the selected queue   *)
(* may make its file wait.                                                  *)
CheckSelected ==
  LET r == Head(list[selected]) IN
  /\ pc = "check" /\ selected # NoQueue
  /\ owner[LineOf[FileOf[r]]] = NoRequest
  /\ info' = [info EXCEPT ![selected] = Refuse(r).info]
  /\ IF Refuse(r).wait
     THEN /\ waiting' = [waiting EXCEPT ![FileOf[r]] = WaitingTime]
          /\ elapsed' = [elapsed EXCEPT ![FileOf[r]] = 0]
          /\ timeout' = 0 /\ pc' = "loop" /\ ForgetScan
     ELSE /\ pc' = "serve"
          /\ UNCHANGED <<waiting, elapsed, line, shortest, aIOLiVars>>
  /\ UNCHANGED <<algorithm, store, given, factor, MLFVars>>

(* Nothing to select: aIOLi returns if it has, or seems to have, a timeout. *)
NothingSelected ==
  /\ pc = "check" /\ selected = NoQueue
  /\ timeout' = IF options > 0 THEN shortest ELSE timeout
  /\ pc' = IF timeout' > 0 THEN "call" ELSE "loop"
  /\ ForgetScan
  /\ UNCHANGED <<algorithm, store, given, factor, info, waiting, elapsed,
                 MLFVars>>

(* adjust_quantum, for a quantum that is not zero.                          *)
AdjustQuantum(used, quantum) ==
  LET rate == (used * 100) \div quantum
      required == CASE rate >= 175 -> quantum * 2
                    [] rate >= 125 /\ rate < 175 -> (quantum * 15) \div 10
                    [] rate >= 75 /\ rate < 125 -> quantum
                    [] OTHER -> quantum \div 2
  IN IF required = 0 THEN Quantum ELSE Min({required, MaxQuantum})

SizeOf(s) == ForEach(LAMBDA sum, r : sum + Length[r], 0, s)

(* How many requests a turn takes from queue s: the first in any case.      *)
TurnOf(s, quantum) ==
  Min({n \in 1..Len(s) :
         \/ n = Len(s)
         \/ SizeOf(SubSeq(s, 1, n)) >= quantum
         \/ Length[s[n + 1]] > quantum - SizeOf(SubSeq(s, 1, n))})

(* aIOLi takes the turn of the selected queue under the lock of its line.   *)
Serve ==
  LET s == list[selected]
      quantum == info[selected].nextquantum
      n == TurnOf(s, quantum)
      turn == SubSeq(s, 1, n)
      next == IF quantum = 0 THEN Quantum
              ELSE AdjustQuantum(SizeOf(turn), quantum)
  IN
  /\ pc = "serve" /\ owner[LineOf[selected[1]]] = NoRequest
  /\ list' = [list EXCEPT ![selected] = SubSeq(s, n + 1, Len(s))]
  /\ given' = given \cup ToSet(turn)
  /\ info' = [info EXCEPT ![selected] =
                [ForEach(PostProcess, @, turn) EXCEPT !.nextquantum = next]]
  /\ factor' = [r \in Requests |-> IF r \in given' THEN 0 ELSE factor[r]]
  /\ pc' = "loop" /\ ForgetScan
  /\ UNCHANGED <<algorithm, owner, waiting, elapsed, timeout, MLFVars>>

-----------------------------------------------------------------------------
CallMLF ==
  /\ algorithm = "MLF" /\ pc = "call" /\ Queued # {}
  /\ pc' = "round"
  /\ start' = line /\ shortest' = INT_MAX /\ processed' = FALSE
  /\ UNCHANGED <<algorithm, store, given, factor, info, waiting, elapsed, line,
                 aIOLiVars, tries>>

(* MLF returns when nothing is queued.                                      *)
EndMLF ==
  /\ pc = "round" /\ Queued = {}
  /\ pc' = "call"
  /\ UNCHANGED <<algorithm, store, given, factor, info, waiting, elapsed, line,
                 shortest, aIOLiVars, MLFVars>>

(* The round robin; it returns after a round without any request, and then  *)
(* so much has been processed is counted anew.                              *)
NextLine(done) ==
  LET next == (line % NLines) + 1 IN
  /\ line' = next
  /\ pc' = IF next = start /\ ~done THEN "call" ELSE "round"
  /\ processed' = (done /\ next # start)

(* Mutant: the line is never waited for.                                    *)
MayTryLater(l) == TRUE

MayTry(l) == tries[l] < MaxLockTries

(* A line whose lock is taken is left for later, MaxLockTries times.        *)
SkipLine ==
  /\ pc = "round" /\ Queued # {} /\ owner[line] # NoRequest
  /\ MayTry(line)
  /\ tries' = [tries EXCEPT ![line] = @ + 1]
  /\ NextLine(processed)
  /\ UNCHANGED <<algorithm, store, given, factor, info, waiting, elapsed,
                 shortest, aIOLiVars, start>>

(* What MLF does to each file of a line: a request that is offered is       *)
(* taken, unless the file waits or has to wait from now on.                 *)
Refused(f) == OfferOfFile(f) # NoRequest /\ Refuse(OfferOfFile(f)).wait
WaitingAfter(f) == IF Refused(f) THEN WaitingTime ELSE WaitingNow(f)

(* Mutant: a file that waits gives its request all the same.                *)
TakenThough(F) == {OfferOfFile(f) : f \in {g \in F : ~Refused(g)}} \ {NoRequest}

Taken(F) == {OfferOfFile(f) : f \in {g \in F : WaitingAfter(g) = 0}} \ {NoRequest}

(* What the queue of an offered request knows afterwards.                   *)
Remembered(r, taken) ==
  IF r \in taken THEN PostProcess(Refuse(r).info, r) ELSE Refuse(r).info

(* One line of the round, under its lock.                                   *)
WorkLine ==
  LET F == IF \E r \in Queued : LineOf[FileOf[r]] = line
           THEN FilesOf(line) ELSE {}
  IN
  /\ pc = "round" /\ Queued # {} /\ owner[line] = NoRequest
  /\ tries' = [tries EXCEPT ![line] = 0]
  /\ \E offers \in {{OfferOfFile(f) : f \in F} \ {NoRequest}},
        looked \in {UNION {LookedAt(f) : f \in F}},
        taken \in {Taken(F)},
        after \in {[f \in Files |-> IF f \in F THEN WaitingAfter(f)
                                    ELSE waiting[f]]} :
       /\ given' = given \cup taken
       /\ factor' = [r \in Requests |-> IF r \in taken THEN 0
                        ELSE IF r \in looked THEN Increment(factor[r])
                        ELSE factor[r]]
       /\ waiting' = after
       /\ elapsed' = [f \in Files |->
                        IF after[f] > 0 /\ \E r \in offers : FileOf[r] = f
                        THEN 0 ELSE elapsed[f]]
       /\ info' = [q \in Queues |->
                     IF \E r \in offers : QueueOf(r) = q
                     THEN Remembered(CHOOSE r \in offers : QueueOf(r) = q, taken)
                     ELSE info[q]]
       /\ list' = [q \in Queues |->
                     IF Offer(q) \in taken THEN RemoveAt(list[q], PlaceOfOffer(q))
                     ELSE list[q]]
       /\ NextLine(processed \/ taken # {})
  /\ shortest' = ShortestOf(F)
  /\ UNCHANGED <<algorithm, owner, aIOLiVars, start>>

-----------------------------------------------------------------------------
aIOLi == CallaIOLi \/ StartScan \/ Scan \/ CheckSelected \/ NothingSelected
           \/ Serve
MLF == CallMLF \/ EndMLF \/ SkipLine \/ WorkLine
Client(r) == Lock(r) \/ Link(r)
Next == aIOLi \/ MLF \/ Tick \/ \E r \in Requests : Client(r)

(* The thread runs, time passes, and an add that has a lock releases it.    *)
Fairness ==
  WF_vars(aIOLi \/ MLF) /\ WF_vars(Tick) /\ WF_vars(\E r \in Requests : Link(r))
Spec == Init /\ [][Next]_vars /\ Fairness

-----------------------------------------------------------------------------
(* FIFO between files (aIOLi.c:96).  When aIOLi has looked at every line, a *)
(* file that does not wait and whose first read, or first write if it has   *)
(* no reads, was within its quantum makes it select a request at least as   *)
(* old, whatever was added to the lines meanwhile.                          *)
Ready(q) ==
  LET factored == factor[Head(list[q])] * Quantum IN
  /\ list[q] # <<>> /\ waiting[q[1]] = 0
  /\ q[2] = "write" => list[<<q[1], "read">>] = <<>>
  /\ 0 < factored /\ factored <= INT_MAX
  /\ Length[Head(list[q])] <= factored
Preceded(q) == selected # NoQueue /\ selectedStamp <= Timestamp[Head(list[q])]
FifoBetweenFiles ==
  pc = "check" => \A q \in Queues : Ready(q) => Preceded(q)

(* A request is given back only when its file does not wait, although in    *)
(* aIOLi the choice, the check and the turn are three critical sections and *)
(* both queues of a file share one waiting time (aIOLi.c:91, MLF.c:120).    *)
NotWhileWaiting ==
  [][\A r \in given' \ given : waiting'[FileOf[r]] = 0]_vars

(* A length has 64 bits, a factor times a quantum Width bits: a request that *)
(* is longer than every product its factor goes through is never within its *)
(* quantum (aIOLi.c:37, MLF.c:60); only aIOLi gives it back, when it gets   *)
(* in front of what was selected.  aIOLi only looks at the first request of *)
(* a queue, so that those behind it are stuck as well.                      *)
TooLong == {r \in Requests :
              \A k \in 0..Width : Length[r] > Wrap(2 ^ k * Quantum)}
Behind(r) ==
  LET s == list[QueueOf(r)]
  IN \E i, j \in DOMAIN s : i < j /\ s[i] \in TooLong /\ s[j] = r
Stuck(r) == r \in TooLong \/ (algorithm = "aIOLi" /\ Behind(r))

(* No request starves but those: waits are not imposed for ever             *)
(* (waiting_common.c:41, 47), a quantum that overflows comes back, a line   *)
(* whose lock is taken is tried again (MLF.c:105).  There are finitely many *)
(* requests: each is given back, or stuck for good, when, as often as one   *)
(* looks, only stuck ones are queued later on.                              *)
Progress == []<>(\A r \in Queued : Stuck(r))

-----------------------------------------------------------------------------
(* What makes the safety properties inductive.  A queue holds requests of   *)
(* its own.                                                                 *)
ListsOwn ==
  /\ list \in [Queues -> Seq(Requests)]
  /\ \A q \in Queues : \A r \in ToSet(list[q]) : QueueOf(r) = q

(* A request comes to its queue with a factor of 0, and leaves it with one. *)
FreshFactors ==
  /\ factor \in [Requests -> Int]
  /\ owner \in [Lines -> Requests \cup {NoRequest}]
  /\ \A r \in Requests : r \notin Queued => factor[r] = 0
  /\ \A l \in Lines : owner[l] # NoRequest =>
       /\ owner[l] \notin Queued
       /\ LineOf[FileOf[owner[l]]] = l

(* Whatever is selected can be served: its file does not wait, whatever     *)
(* files later lines make wait, and the queue has a request.                *)
Selecting ==
  /\ waiting \in [Files -> Nat] /\ elapsed \in [Files -> Nat]
  /\ line \in Lines
  /\ selected \in Queues \cup {NoQueue} /\ selectedStamp \in Nat
  /\ (selected = NoQueue) <=> (selectedStamp = 0)
  /\ selected # NoQueue =>
       /\ waiting[selected[1]] = 0
       /\ list[selected] # <<>>
  /\ pc \in {"call", "loop", "round"} => selected = NoQueue
  /\ pc = "serve" => selected # NoQueue
  /\ pc = "round" => algorithm = "MLF"
  /\ pc \in {"loop", "scan", "check", "serve"} => algorithm = "aIOLi"
  /\ (algorithm = "aIOLi" /\ pc \in {"call", "loop"}) => line = 1

(* Each file that waits is counted once.                                    *)
OptionsCounted ==
  /\ options \in Nat
  /\ pc \in {"call", "loop", "round"} => options = 0
  /\ pc = "scan" => options <= Cardinality({f \in Files : LineOf[f] < line})
  /\ pc \in {"check", "serve"} => options <= Cardinality(Files)

(* FIFO between the files of the lines that the scan has passed.            *)
Scanned(l) ==
  \/ pc = "check"
  \/ pc = "scan" /\ l < line
FifoSoFar ==
  \A q \in Queues : (Scanned(LineOf[q[1]]) /\ Ready(q)) => Preceded(q)
=============================================================================
