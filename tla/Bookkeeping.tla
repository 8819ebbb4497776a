----------------------------- MODULE Bookkeeping -----------------------------
(***************************************************************************)
(* What AGIOS writes down about requests: statistics, performance of the   *)
(* scheduling algorithms, trace.  Client threads add and release, the      *)
(* agios thread dispatches and changes the scheduler; each holds the locks *)
(* it holds in the code (module Agios has the protocol by which they are   *)
(* acquired).  Time passes by Tick.                                        *)
(***************************************************************************)
EXTENDS Statistics, Performance, Trace

CONSTANTS
  Free,        \* a lock that nobody holds
  LockOf,      \* [Queues -> ...], the lock of each queue's structure
  Period_ns,   \* config_agios_select_algorithm_period, in ticks
  MinRequests, \* config_agios_select_algorithm_min_reqnumber
  MaxTime,     \* bound of the clock
  MaxPeriods   \* bound of the number of periods

ASSUME BookkeepingAssumption ==
  /\ Free \notin Requests /\ Traceable = Requests
  /\ Period_ns \in Nat /\ MinRequests \in Nat
  /\ MaxTime \in Nat /\ MaxPeriods \in Nat

VARIABLES
  now,          \* the clock
  owner,        \* the request whose add holds each lock
  stage,        \* how far each request is
  arrival,      \* request_t.arrival_time
  dispatchTime, \* request_t.dispatch_timestamp
  dispatchedIn, \* history: the period in which a request was dispatched
  rate,         \* history: the bandwidth of a released request
  counted       \* history: the period it was accounted to, 0 for none

requestVars == <<stage, arrival, dispatchTime, dispatchedIn, rate, counted>>
vars == <<now, owner, requestVars, statsVars, perfVars, traceVars>>

Locks == {LockOf[q] : q \in Queues}
Lock(r) == LockOf[QueueOf[r]]
Stages == {"new", "stamped", "received", "measured", "queued", "dispatch",
           "released"}

TypeOK ==
  /\ StatisticsTypeOK /\ PerformanceTypeOK /\ TraceTypeOK
  /\ now \in 0..MaxTime
  /\ owner \in [Locks -> Requests \cup {Free}]
  /\ stage \in [Requests -> Stages]
  /\ arrival \in [Requests -> Nat] /\ dispatchTime \in [Requests -> Nat]
  /\ dispatchedIn \in [Requests -> Nat] /\ counted \in [Requests -> Nat]
  /\ rate \in [Requests -> Nat]

Init ==
  /\ StatisticsInit /\ PerformanceInit /\ TraceInit
  /\ now = 0 /\ owner = [l \in Locks |-> Free]
  /\ stage = [r \in Requests |-> "new"]
  /\ arrival = [r \in Requests |-> 0] /\ dispatchTime = arrival
  /\ dispatchedIn = arrival /\ counted = arrival /\ rate = arrival

-----------------------------------------------------------------------------
Goes(r, from, to) == stage[r] = from /\ stage' = [stage EXCEPT ![r] = to]

(* agios_add_request reads the clock before it asks for its lock.           *)
Stamp(r) ==
  /\ Goes(r, "new", "stamped") /\ ~closed
  /\ arrival' = [arrival EXCEPT ![r] = now]
  /\ UNCHANGED <<now, owner, dispatchTime, dispatchedIn, rate, counted,
                 statsVars, perfVars, traceVars>>

(* With the lock: the request is linked and counted for its queue, ...      *)
Receive(r) ==
  /\ Goes(r, "stamped", "received")
  /\ owner[Lock(r)] = Free /\ owner' = [owner EXCEPT ![Lock(r)] = r]
  /\ CountReceived(QueueOf[r])
  /\ UNCHANGED <<now, arrival, dispatchTime, dispatchedIn, rate, counted,
                 perfVars, traceVars>>

(* ... then the averages, under the mutex of the global ones, ...           *)
Measure(r) ==
  /\ Goes(r, "received", "measured")
  /\ UpdateAverages(r)
  /\ UNCHANGED <<now, owner, arrival, dispatchTime, dispatchedIn, rate, counted,
                 perfVars, traceVars>>

(* ... then its line in the trace; the lock is given back.                  *)
TraceArrival(r) ==
  /\ Goes(r, "measured", "queued")
  /\ agios_trace_add_request(r)
  /\ owner' = [owner EXCEPT ![Lock(r)] = Free]
  /\ UNCHANGED <<now, arrival, dispatchTime, dispatchedIn, rate, counted,
                 statsVars, perfVars>>

(* A scheduler takes the request under its lock; step 1 stamps it.          *)
Dispatch(r) ==
  /\ Goes(r, "queued", "dispatch") /\ owner[Lock(r)] = Free /\ ~closed
  /\ dispatchTime' = [dispatchTime EXCEPT ![r] = now]
  /\ dispatchedIn' = [dispatchedIn EXCEPT ![r] = Period]
  /\ UNCHANGED <<now, owner, arrival, rate, counted, statsVars, perfVars,
                 traceVars>>

(* agios_release_request.  The bandwidth divides by the time since the      *)
(* arrival: a client releases no request in the tick in which it came.  The *)
(* struct is freed.                                                         *)
Release(r) ==
  /\ Goes(r, "dispatch", "released") /\ owner[Lock(r)] = Free /\ ~closed
  /\ now > arrival[r]
  /\ LET bandwidth == Length[r] \div (now - arrival[r])
         i == get_request_entry(dispatchTime[r])
     IN /\ CountReleased(QueueOf[r], bandwidth)
        /\ Account(i, Length[r], bandwidth)
        /\ rate' = [rate EXCEPT ![r] = bandwidth]
        /\ counted' = [counted EXCEPT ![r] =
                         IF i = 0 THEN 0 ELSE performance_info[i].period]
  /\ arrival' = [arrival EXCEPT ![r] = 0]
  /\ dispatchTime' = [dispatchTime EXCEPT ![r] = 0]
  /\ dispatchedIn' = [dispatchedIn EXCEPT ![r] = 0]
  /\ UNCHANGED <<now, owner, traceVars>>

is_time_to_change_scheduler ==
  /\ agios_processed_reqnb >= MinRequests
  /\ now - begun[Period] >= Period_ns

(* Mutant: the calls that are under way are not waited for.                 *)
ChangeUnlocked ==
  /\ ~closed /\ Period < MaxPeriods
  /\ is_time_to_change_scheduler
  /\ performance_set_new_algorithm(now) /\ reset_all_statistics
  /\ UNCHANGED <<now, owner, requestVars, traceVars>>

(* The thread holds all locks from change_selected_alg until the new period *)
(* has its entry and the statistics are reset.                              *)
Change ==
  /\ ~closed /\ Period < MaxPeriods
  /\ is_time_to_change_scheduler
  /\ \A l \in Locks : owner[l] = Free
  /\ performance_set_new_algorithm(now) /\ reset_all_statistics
  /\ UNCHANGED <<now, owner, requestVars, traceVars>>

(* agios_exit, once no call is under way.                                   *)
Exit ==
  /\ ~closed
  /\ \A r \in Requests : stage[r] \notin {"stamped", "received", "measured"}
  /\ close_agios_trace
  /\ UNCHANGED <<now, owner, requestVars, statsVars, perfVars>>

Tick ==
  /\ now < MaxTime /\ ~closed /\ now' = now + 1
  /\ UNCHANGED <<owner, requestVars, statsVars, perfVars, traceVars>>

Ended == closed /\ UNCHANGED vars

Next ==
  \/ \E r \in Requests : \/ Stamp(r) \/ Receive(r) \/ Measure(r)
                         \/ TraceArrival(r) \/ Dispatch(r) \/ Release(r)
  \/ Change \/ Exit \/ Tick \/ Ended

Spec == Init /\ [][Next]_vars

-----------------------------------------------------------------------------
Released == {r \in Requests : stage[r] = "released"}
CountedTo(p) == {r \in Released : counted[r] = p}

(* release: "we want to relate its performance to the scheduling algorithm  *)
(* who choose to process the request": a release is accounted to the period *)
(* that dispatched its request, unless the clock had not moved when the     *)
(* next period began, or to none if that period is forgotten.               *)
Attributed(r) ==
  LET c == counted'[r]
      d == dispatchedIn[r]
  IN \/ c = d
     \/ c > d /\ begun[c] = dispatchTime[r]
     \/ c = 0 /\ d < performance_info[1].period
Attribution ==
  [][\A r \in Requests :
       stage[r] = "dispatch" /\ stage'[r] = "released" => Attributed(r)]_vars

(* "relative to the most recently selected scheduling algorithm only": what *)
(* decides whether the scheduler may change again counts the releases of    *)
(* this period's requests and no others, whatever comes back late.          *)
ProcessedExact ==
  agios_processed_reqnb = Cardinality(CountedTo(Period))

(* update_iterative_average: the bandwidth of an entry lies between those   *)
(* of the requests it counts; the averages of a queue, which start again at *)
(* every change while requests from before it are still out, stay between   *)
(* what was averaged.                                                       *)
Between(x, S) == \E low, high \in S : x \in low..high
Rates(R) == {rate[r] : r \in R}
Own(q) == {r \in Requests : QueueOf[r] = q}
Lengths(q) == {Length[r] : r \in Own(q)}
EntryPlausible(e) ==
  CountedTo(e.period) # {} => Between(e.bandwidth, Rates(CountedTo(e.period)))
QueuePlausible(q) ==
  /\ stats[q].receivedreq_nb > 0 /\ owner[LockOf[q]] = Free =>
       Between(stats[q].avg_req_size, Lengths(q))
  /\ stats[q].releasedreq_nb > 0 =>
       Between(stats[q].processed_bandwidth, Rates(Own(q) \cap Released))
AveragesPlausible ==
  /\ \A i \in DOMAIN performance_info : EntryPlausible(performance_info[i])
  /\ \A q \in Queues : QueuePlausible(q)

(* statistics_newreq counts a request for its queue and for all in two      *)
(* steps, and a change resets both: they agree but for the calls in between *)
(* (and no average is ever updated with a count of zero).                   *)
Receiving == {r \in Requests : stage[r] = "received"}
Receipts == UNION {{q} \X (1..stats[q].receivedreq_nb) : q \in Queues}
TotalsAgree ==
  /\ global.total_reqnb + Cardinality(Receiving) = Cardinality(Receipts)
  /\ ~asserted

-----------------------------------------------------------------------------
(* What makes these inductive.  The lock of a structure is with the request *)
(* whose add is counting.                                                   *)
HolderInv ==
  \A r \in Requests :
    stage[r] \in {"received", "measured"} => owner[Lock(r)] = r

(* A queue that is being measured has been counted.                         *)
TotalsInv ==
  /\ IsFiniteSet(Receiving) /\ IsFiniteSet(Receipts)
  /\ \A r \in Receiving : stats[QueueOf[r]].receivedreq_nb > 0
  /\ TotalsAgree

(* The entries are those of the latest periods, which began in order.       *)
PeriodInv ==
  /\ Len(performance_info) <= Period
  /\ \A i \in DOMAIN performance_info :
       /\ performance_info[i].period = Period - (Len(performance_info) - i)
       /\ performance_info[i].timestamp = begun[performance_info[i].period]
  /\ \A i, j \in 1..Period : i <= j => begun[i] <= begun[j]
  /\ \A i \in 1..Period : begun[i] <= now

(* A request was dispatched while its period lasted.                        *)
DispatchInv ==
  \A r \in Requests : stage[r] = "dispatch" =>
    /\ dispatchedIn[r] \in 1..Period
    /\ begun[dispatchedIn[r]] <= dispatchTime[r] /\ dispatchTime[r] <= now
    /\ dispatchedIn[r] < Period => dispatchTime[r] <= begun[dispatchedIn[r] + 1]

(* No release was accounted to a period that has not begun.                 *)
ProcessedInv ==
  /\ \A r \in Released : counted[r] <= Period
  /\ IsFiniteSet(CountedTo(Period))
  /\ ProcessedExact

(* An entry without a bandwidth has no releases; the size of the request    *)
(* that is being counted is not in the average yet.                         *)
EntryAveraged(e) ==
  IF e.reqnb = 0 THEN CountedTo(e.period) = {}
  ELSE Between(e.bandwidth, Rates(CountedTo(e.period)))
SizeAveraged(q) ==
  stats[q].receivedreq_nb >
      (IF \E r \in Receiving : QueueOf[r] = q THEN 1 ELSE 0) =>
    Between(stats[q].avg_req_size, Lengths(q))
BandwidthAveraged(q) ==
  stats[q].releasedreq_nb > 0 =>
    Between(stats[q].processed_bandwidth, Rates(Own(q) \cap Released))
EntriesAveraged ==
  \A i \in 1..Len(performance_info) : EntryAveraged(performance_info[i])
SizesAveraged == \A q \in Queues : SizeAveraged(q)
BandwidthsAveraged == \A q \in Queues : BandwidthAveraged(q)
AveragesInv == EntriesAveraged /\ SizesAveraged /\ BandwidthsAveraged

(* The buffer is empty only before the first line and after the end, and    *)
(* nothing is traced after the end.                                         *)
TraceInv ==
  /\ closed => \A r \in Requests :
                 stage[r] \notin {"stamped", "received", "measured"}
  /\ ~closed /\ bufferSize = 0 => logged = <<>> /\ file = <<>>
  /\ bufferSize > 0 => logged # <<>>
  /\ TraceComplete
=============================================================================
