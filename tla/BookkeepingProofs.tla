-------------------------- MODULE BookkeepingProofs --------------------------
(***************************************************************************)
(* What TLAPS proves of module Bookkeeping.                                *)
(***************************************************************************)
EXTENDS Bookkeeping, FiniteSetTheorems, SequenceTheorems,
        WellFoundedInduction, TLAPS

(* The division of C has its remainder: it goes no further from zero than   *)
(* its dividend.                                                            *)
LEMMA DivisionBounds ==
  ASSUME NEW n \in Nat, NEW d \in Nat \ {0}
  PROVE  n \div d \in 0..n
<1>1. /\ n \div d \in Int /\ n % d \in 0..(d - 1)
      /\ n = (d * (n \div d)) + (n % d)
  BY Z3
<1>2. n \div d >= 0
  BY <1>1, Z3
<1>3. n \div d <= n
  BY <1>1, <1>2, Z3
<1> QED
  BY <1>1, <1>2, <1>3

LEMMA QuotientBounds ==
  ASSUME NEW n \in Int, NEW d \in Nat \ {0}
  PROVE  /\ Quotient(n, d) \in Int
         /\ n >= 0 => Quotient(n, d) \in 0..n
         /\ n <= 0 => Quotient(n, d) \in n..0
<1>1. CASE n >= 0
  BY <1>1, DivisionBounds DEF Quotient
<1>2. CASE n < 0
  <2>1. -n \in Nat
    BY <1>2
  <2>2. (-n) \div d \in 0..(-n)
    BY <2>1, DivisionBounds
  <2> QED
    BY <1>2, <2>2 DEF Quotient
<1> QED
  BY <1>1, <1>2

(* update_iterative_average moves the average towards the value, and not    *)
(* beyond it.                                                               *)
LEMMA AverageBetween ==
  ASSUME NEW avg \in Int, NEW value \in Int, NEW count \in Nat \ {0}
  PROVE  LET new == update_iterative_average(avg, value, count)
         IN /\ new \in Int
            /\ count = 1 => new = value
            /\ avg <= value => new \in avg..value \/ new = value
            /\ avg >= value => new \in value..avg \/ new = value
<1> DEFINE q == Quotient(value - avg, count)
<1>1. /\ q \in Int
      /\ value - avg >= 0 => q \in 0..(value - avg)
      /\ value - avg <= 0 => q \in (value - avg)..0
  BY QuotientBounds
<1> HIDE DEF q
<1>2. update_iterative_average(avg, value, count) =
        IF count = 1 THEN value ELSE avg + q
  BY DEF update_iterative_average, q
<1> QED
  BY <1>1, <1>2

LEMMA AverageType ==
  ASSUME NEW avg \in Int, NEW value \in Int, NEW count \in Nat \ {0}
  PROVE  update_iterative_average(avg, value, count) \in Int
BY AverageBetween

(* What is between values stays there when one more of them is averaged.    *)
LEMMA BetweenUpdated ==
  ASSUME NEW S, NEW T, S \subseteq Int, T \subseteq Int, S \subseteq T,
         NEW avg \in Int, NEW value \in T, NEW count \in Nat \ {0},
         count > 1 => Between(avg, S)
  PROVE  Between(update_iterative_average(avg, value, count), T)
<1> DEFINE new == update_iterative_average(avg, value, count)
<1>1. /\ new \in Int
      /\ count = 1 => new = value
      /\ avg <= value => new \in avg..value \/ new = value
      /\ avg >= value => new \in value..avg \/ new = value
  BY AverageBetween
<1> HIDE DEF new
<1>2. CASE new = value
  BY <1>1, <1>2 DEF Between, new
<1>3. CASE new # value
  <2>1. PICK low, high \in S : avg \in low..high
    BY <1>1, <1>3 DEF Between
  <2>2. CASE avg <= value
    <3>1. new \in low..value
      BY <1>1, <1>3, <2>1, <2>2
    <3> QED
      BY <3>1 DEF Between, new
  <2>3. CASE avg > value
    <3>1. new \in value..high
      BY <1>1, <1>3, <2>1, <2>3
    <3> QED
      BY <3>1 DEF Between, new
  <2> QED
    BY <2>2, <2>3
<1> QED
  BY <1>2, <1>3

(* The entry of a time is an entry that began by then, and the last one; 0  *)
(* if there is none.                                                        *)
LEMMA RequestEntry ==
  ASSUME NEW time \in Nat, Len(performance_info) \in Nat
  PROVE  LET i == get_request_entry(time)
             last == Len(performance_info)
         IN \/ /\ i = 0
               /\ \A j \in 1..last : ~(performance_info[j].timestamp <= time)
            \/ /\ i \in 1..last /\ performance_info[i].timestamp <= time
               /\ \A j \in (i + 1)..last : ~(performance_info[j].timestamp <= time)
<1> DEFINE n == Len(performance_info)
           I == {i \in 1..n : performance_info[i].timestamp <= time}
<1>1. get_request_entry(time) = IF I # {} THEN Max(I) ELSE 0
  BY DEF get_request_entry, SelectLastInSeq
<1>2. I = {} => get_request_entry(time) = 0
  BY <1>1
<1>3. ASSUME I # {}
      PROVE  /\ get_request_entry(time) \in I
             /\ \A j \in I : get_request_entry(time) >= j
  <2> DEFINE D == {d \in Nat : n - d \in I}
  <2>1. PICK i0 \in I : TRUE
    BY <1>3
  <2>2. n - i0 \in D
    <3>1. n - (n - i0) = i0 /\ n - i0 \in Nat
      BY <2>1
    <3> QED
      BY <3>1, <2>1
  <2>3. PICK d \in D : \A e \in D : ~(e < d)
    <3>1. PICK d \in D : \A e \in D : ~(<<e, d>> \in OpToRel(<, Nat))
      BY <2>2, NatLessThanWellFounded, WFMin
    <3> QED
      BY <3>1 DEF OpToRel
  <2>4. \A j \in I : n - d >= j
    <3> SUFFICES ASSUME NEW j \in I PROVE n - d >= j
      OBVIOUS
    <3>1. n - (n - j) = j /\ n - j \in Nat
      OBVIOUS
    <3>2. n - j \in D
      BY <3>1
    <3>3. ~(n - j < d)
      BY <3>2, <2>3
    <3>4. n \in Nat /\ j \in Nat /\ d \in Nat
      OBVIOUS
    <3> HIDE DEF n, I, D
    <3> QED
      BY <3>3, <3>4
  <2>5. n - d \in I
    BY <2>3
  <2>6. Max(I) \in I /\ \A j \in I : Max(I) >= j
    BY <2>4, <2>5 DEF Max
  <2> QED
    BY <1>1, <1>3, <2>6
<1>4. \/ /\ get_request_entry(time) = 0
         /\ \A j \in 1..n : ~(performance_info[j].timestamp <= time)
      \/ /\ get_request_entry(time) \in 1..n
         /\ performance_info[get_request_entry(time)].timestamp <= time
         /\ \A j \in (get_request_entry(time) + 1)..n :
              ~(performance_info[j].timestamp <= time)
  <2>1. CASE I = {}
    BY <1>2, <2>1
  <2>2. CASE I # {}
    <3>1. /\ get_request_entry(time) \in I
          /\ \A j \in I : get_request_entry(time) >= j
      BY <1>3, <2>2
    <3> QED
      BY <3>1
  <2> QED
    BY <2>1, <2>2
<1> QED
  BY <1>4

(* performance_set_new_algorithm appends the entry of the new period and    *)
(* drops the first one when there is no room for both.                      *)
LEMMA NewAlgorithm ==
  ASSUME PerformanceTypeOK, NEW time \in Nat,
         performance_set_new_algorithm(time)
  PROVE  /\ PerformanceTypeOK'
         /\ Len(begun') = Len(begun) + 1
         /\ \A p \in 1..Len(begun) : begun'[p] = begun[p]
         /\ begun'[Len(begun) + 1] = time
         /\ agios_processed_reqnb' = 0
         /\ \E k \in 0..1 :
              /\ Len(performance_info') = Len(performance_info) + 1 - k
              /\ \A i \in 1..(Len(performance_info) - k) :
                   performance_info'[i] = performance_info[i + k]
              /\ performance_info'[Len(performance_info')] =
                   Entry(Len(begun) + 1, time)
<1> DEFINE n == Len(performance_info)
           new == Entry(Len(begun) + 1, time)
           longer == Append(performance_info, new)
<1>1. /\ performance_info \in Seq(PerformanceEntries) /\ begun \in Seq(Nat)
      /\ n \in 1..PerformanceValues /\ PerformanceValues \in Nat \ {0}
  BY PerformanceAssumption DEF PerformanceTypeOK
<1>2. new \in PerformanceEntries
  BY <1>1 DEF Entry, PerformanceEntries
<1>3. /\ begun' = Append(begun, time) /\ agios_processed_reqnb' = 0
      /\ performance_info' =
           IF Len(longer) - PerformanceValues > 0
           THEN SubSeq(longer, Len(longer) - PerformanceValues + 1, Len(longer))
           ELSE longer
  BY DEF performance_set_new_algorithm, Period
<1>4. /\ begun' \in Seq(Nat) /\ Len(begun') = Len(begun) + 1
      /\ \A p \in 1..Len(begun) : begun'[p] = begun[p]
      /\ begun'[Len(begun) + 1] = time
  BY <1>1, <1>3, AppendProperties
<1> HIDE DEF new
<1>5. /\ longer \in Seq(PerformanceEntries) /\ Len(longer) = n + 1
      /\ \A i \in 1..n : longer[i] = performance_info[i]
      /\ longer[n + 1] = new
  BY <1>1, <1>2, AppendProperties
<1> HIDE DEF longer
<1>6. CASE n < PerformanceValues
  <2>1. performance_info' = longer
    BY <1>1, <1>3, <1>5, <1>6
  <2>2. PerformanceTypeOK'
    BY <1>1, <1>3, <1>4, <1>5, <1>6, <2>1 DEF PerformanceTypeOK
  <2>3. /\ Len(performance_info') = n + 1 - 0
        /\ \A i \in 1..(n - 0) : performance_info'[i] = performance_info[i + 0]
        /\ performance_info'[Len(performance_info')] = new
    BY <1>1, <1>5, <2>1
  <2>4. \E k \in 0..1 :
          /\ Len(performance_info') = n + 1 - k
          /\ \A i \in 1..(n - k) : performance_info'[i] = performance_info[i + k]
          /\ performance_info'[Len(performance_info')] = new
    <3> HIDE DEF n
    <3>1. 0 \in 0..1
      OBVIOUS
    <3> QED
      BY <2>3, <3>1
  <2> QED
    BY <1>3, <1>4, <2>2, <2>4 DEF new
<1>7. CASE n = PerformanceValues
  <2>1. performance_info' = SubSeq(longer, 2, n + 1)
    BY <1>1, <1>3, <1>5, <1>7
  <2>2. /\ performance_info' \in Seq(PerformanceEntries)
        /\ Len(performance_info') = n
        /\ \A i \in 1..n : performance_info'[i] = longer[i + 1]
    <3>1. \A i \in 2..(n + 1) : longer[i] \in PerformanceEntries
      BY <1>1, <1>5, ElementOfSeq
    <3>2. /\ SubSeq(longer, 2, n + 1) \in Seq(PerformanceEntries)
          /\ Len(SubSeq(longer, 2, n + 1)) = IF 2 <= n + 1 THEN n + 1 - 2 + 1 ELSE 0
          /\ \A i \in 1..(n + 1 - 2 + 1) :
               SubSeq(longer, 2, n + 1)[i] = longer[2 + i - 1]
      BY <1>1, <3>1, SubSeqProperties
    <3> QED
      BY <1>1, <2>1, <3>2
  <2>3. PerformanceTypeOK'
    BY <1>1, <1>3, <1>4, <1>7, <2>2 DEF PerformanceTypeOK
  <2>4. /\ Len(performance_info') = n + 1 - 1
        /\ \A i \in 1..(n - 1) : performance_info'[i] = performance_info[i + 1]
        /\ performance_info'[Len(performance_info')] = new
    <3>1. \A i \in 1..(n - 1) : i \in 1..n /\ i + 1 \in 1..n
      BY <1>1
    <3>2. \A i \in 1..(n - 1) : performance_info'[i] = performance_info[i + 1]
      BY <1>5, <2>2, <3>1
    <3>3. n \in 1..n /\ n + 1 - 1 = n
      BY <1>1
    <3>4. performance_info'[n] = new
      BY <1>5, <2>2, <3>3
    <3> QED
      BY <2>2, <3>2, <3>3, <3>4
  <2>5. \E k \in 0..1 :
          /\ Len(performance_info') = n + 1 - k
          /\ \A i \in 1..(n - k) : performance_info'[i] = performance_info[i + k]
          /\ performance_info'[Len(performance_info')] = new
    <3> HIDE DEF n
    <3>1. 1 \in 0..1
      OBVIOUS
    <3> QED
      BY <2>4, <3>1
  <2> QED
    BY <1>3, <1>4, <2>3, <2>5 DEF new
<1> QED
  BY <1>1, <1>6, <1>7

(* Account adds a request to one entry and leaves the others alone.         *)
LEMMA Accounted ==
  ASSUME PerformanceTypeOK, NEW len \in Nat, NEW value \in Nat,
         NEW i \in 1..Len(performance_info), Account(i, len, value)
  PROVE  /\ PerformanceTypeOK'
         /\ begun' = begun
         /\ Len(performance_info') = Len(performance_info)
         /\ \A j \in 1..Len(performance_info) :
              /\ performance_info'[j].period = performance_info[j].period
              /\ performance_info'[j].timestamp = performance_info[j].timestamp
              /\ j # i => performance_info'[j] = performance_info[j]
         /\ performance_info'[i].reqnb = performance_info[i].reqnb + 1
         /\ performance_info'[i].bandwidth =
              update_iterative_average(performance_info[i].bandwidth, value,
                                       performance_info[i].reqnb + 1)
         /\ agios_processed_reqnb' =
              IF i = Len(performance_info) THEN agios_processed_reqnb + 1
              ELSE agios_processed_reqnb
<1> DEFINE e == performance_info[i]
           average == update_iterative_average(e.bandwidth, value, e.reqnb + 1)
           requested == [e EXCEPT !.reqnb = @ + 1]
           sized == [requested EXCEPT !.size = @ + len]
           new == [sized EXCEPT !.bandwidth = average]
<1>1. performance_info \in Seq(PerformanceEntries)
  BY DEF PerformanceTypeOK
<1>2. e \in PerformanceEntries
  BY <1>1, ElementOfSeq
<1>3. performance_info' =
        [performance_info EXCEPT
           ![i] = [e EXCEPT !.reqnb = @ + 1, !.size = @ + len,
                            !.bandwidth = average]]
  <2>1. i # 0
    BY <1>1
  <2>2. performance_info' =
          [performance_info EXCEPT
             ![i].reqnb = @ + 1, ![i].size = @ + len, ![i].bandwidth = average]
    BY <2>1, Zenon DEF Account
  <2> HIDE DEF average
  <2> QED
    BY <1>1, <2>2
<1> HIDE DEF e
<1>4. average \in Int
  <2>1. /\ e.bandwidth \in Int /\ value \in Int
        /\ e.reqnb + 1 \in Nat \ {0}
    BY <1>2 DEF PerformanceEntries
  <2> QED
    BY <2>1, AverageType
<1> HIDE DEF average
<1>5. performance_info' = [performance_info EXCEPT ![i] = new]
  <2>1. [e EXCEPT !.reqnb = @ + 1, !.size = @ + len, !.bandwidth = average] = new
    <3>1. requested.size = e.size
      BY <1>2 DEF PerformanceEntries
    <3> QED
      BY <3>1
  <2> QED
    BY <1>3, <2>1
<1>6. /\ new \in PerformanceEntries
      /\ new.period = e.period /\ new.timestamp = e.timestamp
      /\ new.reqnb = e.reqnb + 1 /\ new.bandwidth = average
  <2>1. /\ requested \in PerformanceEntries
        /\ requested.period = e.period /\ requested.timestamp = e.timestamp
        /\ requested.reqnb = e.reqnb + 1
    BY <1>2 DEF PerformanceEntries
  <2> HIDE DEF requested
  <2>2. /\ sized \in PerformanceEntries
        /\ sized.period = e.period /\ sized.timestamp = e.timestamp
        /\ sized.reqnb = e.reqnb + 1
    BY <2>1 DEF PerformanceEntries
  <2> HIDE DEF sized
  <2> QED
    BY <1>4, <2>2 DEF PerformanceEntries
<1> HIDE DEF new
<1>7. /\ performance_info' \in Seq(PerformanceEntries)
      /\ Len(performance_info') = Len(performance_info)
      /\ \A j \in 1..Len(performance_info) :
           performance_info'[j] = IF j = i THEN new ELSE performance_info[j]
  BY <1>1, <1>5, <1>6, ExceptSeq
<1>8. /\ begun' = begun
      /\ agios_processed_reqnb' =
           IF i = Len(performance_info) THEN agios_processed_reqnb + 1
           ELSE agios_processed_reqnb
  BY DEF Account
<1>9. PerformanceTypeOK'
  BY <1>7, <1>8 DEF PerformanceTypeOK
<1> QED
  BY <1>6, <1>7, <1>8, <1>9 DEF average, e

(* What the operations on the statistics do to those of each queue.         *)
LEMMA Received ==
  ASSUME StatisticsTypeOK, NEW q \in Queues, CountReceived(q)
  PROVE  /\ StatisticsTypeOK'
         /\ global' = global /\ asserted' = asserted
         /\ stats'[q].receivedreq_nb = stats[q].receivedreq_nb + 1
         /\ stats'[q].avg_req_size = stats[q].avg_req_size
         /\ stats'[q].releasedreq_nb = stats[q].releasedreq_nb
         /\ stats'[q].processed_bandwidth = stats[q].processed_bandwidth
         /\ \A p \in Queues \ {q} : stats'[p] = stats[p]
<1> DEFINE s == stats[q]
           new == [s EXCEPT !.receivedreq_nb = @ + 1]
<1>1. stats \in [Queues -> QueueStatistics] /\ s \in QueueStatistics
  BY DEF StatisticsTypeOK
<1>2. stats' = [stats EXCEPT ![q] = new] /\ global' = global /\ asserted' = asserted
  BY <1>1 DEF CountReceived
<1>3. /\ new \in QueueStatistics
      /\ new.receivedreq_nb = s.receivedreq_nb + 1
      /\ new.avg_req_size = s.avg_req_size
      /\ new.releasedreq_nb = s.releasedreq_nb
      /\ new.processed_bandwidth = s.processed_bandwidth
  <2> HIDE DEF s
  <2> QED
    BY <1>1 DEF QueueStatistics
<1> HIDE DEF new
<1>4. /\ stats' \in [Queues -> QueueStatistics] /\ stats'[q] = new
      /\ \A p \in Queues \ {q} : stats'[p] = stats[p]
  BY <1>1, <1>2, <1>3
<1>5. StatisticsTypeOK'
  BY <1>2, <1>4 DEF StatisticsTypeOK
<1> QED
  BY <1>2, <1>3, <1>4, <1>5

LEMMA Measured ==
  ASSUME StatisticsTypeOK, NEW r \in Requests, UpdateAverages(r),
         stats[QueueOf[r]].receivedreq_nb > 0
  PROVE  LET q == QueueOf[r]
         IN /\ StatisticsTypeOK'
            /\ global'.total_reqnb = global.total_reqnb + 1
            /\ asserted' = asserted
            /\ stats'[q].receivedreq_nb = stats[q].receivedreq_nb
            /\ stats'[q].avg_req_size =
                 update_iterative_average(stats[q].avg_req_size, Length[r],
                                          stats[q].receivedreq_nb)
            /\ stats'[q].releasedreq_nb = stats[q].releasedreq_nb
            /\ stats'[q].processed_bandwidth = stats[q].processed_bandwidth
            /\ \A p \in Queues \ {q} : stats'[p] = stats[p]
<1> DEFINE q == QueueOf[r]
           s == stats[q]
           average == update_iterative_average(s.avg_req_size, Length[r],
                                               s.receivedreq_nb)
           overall == update_iterative_average(global.avg_request_size, Length[r],
                                               global.total_reqnb + 1)
           new == [s EXCEPT !.avg_req_size = average]
<1>1. /\ q \in Queues /\ Length[r] \in Nat
      /\ stats \in [Queues -> QueueStatistics] /\ s \in QueueStatistics
  BY StatisticsAssumption DEF StatisticsTypeOK
<1>2. global.total_reqnb \in Nat /\ global.avg_request_size \in Int
  BY DEF StatisticsTypeOK
<1>3. /\ s.receivedreq_nb \in Nat \ {0} /\ s.avg_req_size \in Int
  <2>1. s.receivedreq_nb > 0
    OBVIOUS
  <2> HIDE DEF s
  <2> QED
    BY <1>1, <2>1 DEF QueueStatistics
<1>4. average \in Int
  <2> HIDE DEF s
  <2>1. Length[r] \in Int
    BY <1>1
  <2> QED
    BY <1>3, <2>1, AverageType
<1>5. overall \in Int
  <2>1. Length[r] \in Int /\ global.total_reqnb + 1 \in Nat \ {0}
    BY <1>1, <1>2
  <2> QED
    BY <1>2, <2>1, AverageType
<1>6. /\ stats' = [stats EXCEPT ![q] = new]
      /\ global' = [total_reqnb |-> global.total_reqnb + 1,
                    avg_request_size |-> overall]
      /\ asserted' = asserted
  <2>1. s.receivedreq_nb # 0
    BY <1>3
  <2>2. /\ stats' = [stats EXCEPT ![q].avg_req_size = average]
        /\ global' = [total_reqnb |-> global.total_reqnb + 1,
                      avg_request_size |-> overall]
        /\ asserted' = asserted
    BY <2>1, Zenon DEF UpdateAverages
  <2> HIDE DEF average, overall
  <2> QED
    BY <1>1, <2>2
<1> HIDE DEF average, overall
<1>7. /\ new \in QueueStatistics
      /\ new.receivedreq_nb = s.receivedreq_nb
      /\ new.avg_req_size = average
      /\ new.releasedreq_nb = s.releasedreq_nb
      /\ new.processed_bandwidth = s.processed_bandwidth
  <2> HIDE DEF s
  <2> QED
    BY <1>1, <1>4 DEF QueueStatistics
<1> HIDE DEF new
<1>8. /\ stats' \in [Queues -> QueueStatistics] /\ stats'[q] = new
      /\ \A p \in Queues \ {q} : stats'[p] = stats[p]
  BY <1>1, <1>6, <1>7
<1>9. StatisticsTypeOK'
  BY <1>2, <1>5, <1>6, <1>8 DEF StatisticsTypeOK
<1> QED
  BY <1>6, <1>7, <1>8, <1>9 DEF average

LEMMA ReleaseCounted ==
  ASSUME StatisticsTypeOK, NEW q \in Queues, NEW value \in Nat,
         CountReleased(q, value)
  PROVE  /\ StatisticsTypeOK'
         /\ global' = global /\ asserted' = asserted
         /\ stats'[q].receivedreq_nb = stats[q].receivedreq_nb
         /\ stats'[q].avg_req_size = stats[q].avg_req_size
         /\ stats'[q].releasedreq_nb = stats[q].releasedreq_nb + 1
         /\ stats'[q].processed_bandwidth =
              update_iterative_average(stats[q].processed_bandwidth, value,
                                       stats[q].releasedreq_nb + 1)
         /\ \A p \in Queues \ {q} : stats'[p] = stats[p]
<1> DEFINE s == stats[q]
           average == update_iterative_average(s.processed_bandwidth, value,
                                               s.releasedreq_nb + 1)
           more == [s EXCEPT !.releasedreq_nb = s.releasedreq_nb + 1]
           new == [more EXCEPT !.processed_bandwidth = average]
<1>1. stats \in [Queues -> QueueStatistics] /\ s \in QueueStatistics
  BY DEF StatisticsTypeOK
<1>2. /\ global' = global /\ asserted' = asserted
      /\ stats' = [stats EXCEPT ![q] =
                     [s EXCEPT !.releasedreq_nb = s.releasedreq_nb + 1,
                               !.processed_bandwidth = average]]
  <2>1. /\ global' = global /\ asserted' = asserted
        /\ stats' = [stats EXCEPT ![q].releasedreq_nb = s.releasedreq_nb + 1,
                                  ![q].processed_bandwidth = average]
    BY Zenon DEF CountReleased
  <2> HIDE DEF average
  <2> QED
    BY <1>1, <2>1
<1> HIDE DEF s
<1>3. average \in Int
  <2>1. /\ s.processed_bandwidth \in Int /\ s.releasedreq_nb + 1 \in Nat \ {0}
        /\ value \in Int
    BY <1>1 DEF QueueStatistics
  <2> QED
    BY <2>1, AverageType
<1> HIDE DEF average
<1>4. stats' = [stats EXCEPT ![q] = new]
  BY <1>2
<1>5. /\ new \in QueueStatistics
      /\ new.receivedreq_nb = s.receivedreq_nb
      /\ new.avg_req_size = s.avg_req_size
      /\ new.releasedreq_nb = s.releasedreq_nb + 1
      /\ new.processed_bandwidth = average
  <2>1. /\ more \in QueueStatistics
        /\ more.receivedreq_nb = s.receivedreq_nb
        /\ more.avg_req_size = s.avg_req_size
        /\ more.releasedreq_nb = s.releasedreq_nb + 1
    BY <1>1 DEF QueueStatistics
  <2> HIDE DEF more
  <2> QED
    BY <1>3, <2>1 DEF QueueStatistics
<1> HIDE DEF new
<1>6. /\ stats' \in [Queues -> QueueStatistics] /\ stats'[q] = new
      /\ \A p \in Queues \ {q} : stats'[p] = stats[p]
  BY <1>1, <1>4, <1>5
<1>7. StatisticsTypeOK'
  BY <1>2, <1>6 DEF StatisticsTypeOK
<1> QED
  BY <1>2, <1>5, <1>6, <1>7 DEF average, s

LEMMA StatisticsReset ==
  ASSUME reset_all_statistics, asserted \in BOOLEAN
  PROVE  /\ StatisticsTypeOK'
         /\ global'.total_reqnb = 0 /\ asserted' = asserted
         /\ \A q \in Queues : /\ stats'[q].receivedreq_nb = 0
                              /\ stats'[q].releasedreq_nb = 0
<1>1. NoStats \in QueueStatistics
  BY DEF NoStats, QueueStatistics
<1>2. NoGlobal \in [total_reqnb : Nat, avg_request_size : Int]
  BY DEF NoGlobal
<1>3. /\ stats' = [q \in Queues |-> NoStats] /\ global' = NoGlobal
      /\ asserted' = asserted
  BY DEF reset_all_statistics
<1>4. StatisticsTypeOK'
  BY <1>1, <1>2, <1>3 DEF StatisticsTypeOK
<1> QED
  BY <1>3, <1>4 DEF NoStats, NoGlobal

(* The operations of the trace keep its types.                              *)
LEMMA Traced ==
  ASSUME TraceTypeOK, NEW r \in Traceable, agios_trace_add_request(r)
  PROVE  TraceTypeOK' /\ closed' = closed
<1> DEFINE Line == Traceable \cup {Garbage}
<1>1. /\ buffer \in Seq(Line) /\ file \in Seq(Line) /\ logged \in Seq(Traceable)
      /\ bufferSize \in 0..(MaxBuffer - 1) /\ closed \in BOOLEAN
  BY DEF TraceTypeOK
<1>2. /\ LineSize[r] \in Nat \ {0} /\ LineSize[r] < MaxBuffer /\ MaxBuffer \in Nat
  BY TraceAssumption
<1>3. /\ logged' = Append(logged, r) /\ closed' = closed /\ WriteToBuffer(r)
  BY DEF agios_trace_add_request
<1>4. /\ <<r>> \in Seq(Line) /\ Append(buffer, r) \in Seq(Line)
      /\ file \o buffer \in Seq(Line) /\ Append(logged, r) \in Seq(Traceable)
  BY <1>1, AppendProperties, ConcatProperties
<1>5. buffer' \in Seq(Line) /\ file' \in Seq(Line)
  BY <1>1, <1>3, <1>4 DEF WriteToBuffer
<1>6. bufferSize' \in 0..(MaxBuffer - 1)
  BY <1>1, <1>2, <1>3 DEF WriteToBuffer
<1> QED
  BY <1>1, <1>3, <1>4, <1>5, <1>6 DEF TraceTypeOK

LEMMA TraceClosed ==
  ASSUME TraceTypeOK, close_agios_trace
  PROVE  TraceTypeOK'
<1> DEFINE Line == Traceable \cup {Garbage}
<1>1. /\ buffer \in Seq(Line) /\ file \in Seq(Line) /\ logged \in Seq(Traceable)
  BY DEF TraceTypeOK
<1>2. file \o buffer \in Seq(Line)
  BY <1>1, ConcatProperties
<1>3. 0 \in 0..(MaxBuffer - 1)
  BY TraceAssumption
<1> QED
  BY <1>1, <1>2, <1>3 DEF TraceTypeOK, close_agios_trace

(* The bandwidth of a request is a natural number, and the entry it is      *)
(* accounted to exists.                                                     *)
LEMMA Bandwidth ==
  ASSUME TypeOK, NEW r \in Requests, now > arrival[r]
  PROVE  Length[r] \div (now - arrival[r]) \in Nat
<1>1. Length[r] \in Nat /\ now - arrival[r] \in Nat \ {0}
  BY StatisticsAssumption, BookkeepingAssumption DEF TypeOK
<1> HIDE DEF TypeOK
<1>2. Length[r] \div (now - arrival[r]) \in 0..Length[r]
  BY <1>1, DivisionBounds
<1> QED
  BY <1>1, <1>2

-----------------------------------------------------------------------------
LEMMA BooksTypedInitially == Init => TypeOK
<1> SUFFICES ASSUME Init PROVE TypeOK
  OBVIOUS
<1>1. StatisticsTypeOK
  <2>1. NoStats \in QueueStatistics
    BY DEF NoStats, QueueStatistics
  <2>2. NoGlobal \in [total_reqnb : Nat, avg_request_size : Int]
    BY DEF NoGlobal
  <2>3. /\ stats = [q \in Queues |-> NoStats] /\ global = NoGlobal
        /\ asserted = FALSE
    BY DEF Init, StatisticsInit
  <2> QED
    BY <2>1, <2>2, <2>3 DEF StatisticsTypeOK
<1>2. PerformanceTypeOK
  <2>1. Entry(1, 0) \in PerformanceEntries
    BY DEF Entry, PerformanceEntries
  <2>2. /\ <<Entry(1, 0)>> \in Seq(PerformanceEntries)
        /\ Len(<<Entry(1, 0)>>) = 1
    BY <2>1
  <2>3. /\ performance_info = <<Entry(1, 0)>> /\ agios_processed_reqnb = 0
        /\ begun = <<0>>
    BY DEF Init, PerformanceInit
  <2> QED
    BY <2>2, <2>3, PerformanceAssumption DEF PerformanceTypeOK
<1>3. TraceTypeOK
  <2>1. /\ buffer = <<>> \/ buffer = <<Garbage>>
        /\ bufferSize = 0 /\ file = <<>> /\ closed = FALSE /\ logged = <<>>
    BY DEF Init, TraceInit
  <2>2. /\ <<>> \in Seq(Traceable \cup {Garbage}) /\ <<>> \in Seq(Traceable)
        /\ <<Garbage>> \in Seq(Traceable \cup {Garbage})
    OBVIOUS
  <2>3. bufferSize \in 0..(MaxBuffer - 1)
    BY <2>1, TraceAssumption
  <2> QED
    BY <2>1, <2>2, <2>3 DEF TraceTypeOK
<1>4. /\ now \in 0..MaxTime
      /\ owner \in [Locks -> Requests \cup {Free}]
      /\ stage \in [Requests -> Stages]
  BY BookkeepingAssumption DEF Init, Stages
<1>5. /\ arrival \in [Requests -> Nat] /\ dispatchTime \in [Requests -> Nat]
      /\ dispatchedIn \in [Requests -> Nat] /\ counted \in [Requests -> Nat]
      /\ rate \in [Requests -> Nat]
  BY DEF Init
<1> QED
  BY <1>1, <1>2, <1>3, <1>4, <1>5 DEF TypeOK

LEMMA BooksTypedStep == TypeOK /\ [Next]_vars => TypeOK'
<1> SUFFICES ASSUME TypeOK, [Next]_vars PROVE TypeOK'
  OBVIOUS
<1>a. /\ StatisticsTypeOK /\ PerformanceTypeOK /\ TraceTypeOK
      /\ now \in 0..MaxTime /\ MaxTime \in Nat
      /\ owner \in [Locks -> Requests \cup {Free}]
      /\ stage \in [Requests -> Stages]
      /\ arrival \in [Requests -> Nat] /\ dispatchTime \in [Requests -> Nat]
      /\ dispatchedIn \in [Requests -> Nat] /\ counted \in [Requests -> Nat]
      /\ rate \in [Requests -> Nat]
  BY BookkeepingAssumption DEF TypeOK
<1>b. \A r \in Requests : QueueOf[r] \in Queues /\ Lock(r) \in Locks
  BY StatisticsAssumption DEF Lock, Locks
<1>c. now \in Nat
  BY <1>a
<1>d. Len(begun) \in Nat
  BY <1>a DEF PerformanceTypeOK
<1>s. ASSUME UNCHANGED statsVars PROVE StatisticsTypeOK'
  BY <1>a, <1>s DEF statsVars, StatisticsTypeOK
<1>p. ASSUME UNCHANGED perfVars PROVE PerformanceTypeOK'
  BY <1>a, <1>p DEF perfVars, PerformanceTypeOK
<1>t. ASSUME UNCHANGED traceVars PROVE TraceTypeOK'
  BY <1>a, <1>t DEF traceVars, TraceTypeOK
<1>g. ASSUME NEW r \in Requests, NEW from \in Stages, NEW to \in Stages,
             Goes(r, from, to)
      PROVE  stage' \in [Requests -> Stages]
  BY <1>a, <1>g DEF Goes
<1>1. ASSUME NEW r \in Requests, Stamp(r) PROVE TypeOK'
  BY <1>1, <1>a, <1>c, <1>s, <1>p, <1>t, <1>g DEF Stamp, TypeOK, Stages
<1>2. ASSUME NEW r \in Requests, Receive(r) PROVE TypeOK'
  <2>1. StatisticsTypeOK'
    BY <1>2, <1>a, <1>b, Received DEF Receive
  <2> QED
    BY <1>2, <2>1, <1>a, <1>p, <1>t, <1>g DEF Receive, TypeOK, Stages
<1>3. ASSUME NEW r \in Requests, Measure(r) PROVE TypeOK'
  <2>1. StatisticsTypeOK'
    <3>1. CASE stats[QueueOf[r]].receivedreq_nb = 0
      BY <1>3, <1>a, <3>1 DEF Measure, UpdateAverages, StatisticsTypeOK
    <3>2. CASE stats[QueueOf[r]].receivedreq_nb > 0
      BY <1>3, <1>a, <3>2, Measured DEF Measure
    <3>3. stats[QueueOf[r]].receivedreq_nb \in Nat
      BY <1>a, <1>b DEF StatisticsTypeOK, QueueStatistics
    <3> QED
      BY <3>1, <3>2, <3>3
  <2> QED
    BY <1>3, <2>1, <1>a, <1>p, <1>t, <1>g DEF Measure, TypeOK, Stages
<1>4. ASSUME NEW r \in Requests, TraceArrival(r) PROVE TypeOK'
  <2>1. TraceTypeOK'
    BY <1>4, <1>a, Traced, BookkeepingAssumption DEF TraceArrival
  <2> QED
    BY <1>4, <2>1, <1>a, <1>s, <1>p, <1>g DEF TraceArrival, TypeOK, Stages
<1>5. ASSUME NEW r \in Requests, Dispatch(r) PROVE TypeOK'
  BY <1>5, <1>a, <1>c, <1>d, <1>s, <1>p, <1>t, <1>g
  DEF Dispatch, TypeOK, Stages, Period
<1>6. ASSUME NEW r \in Requests, Release(r) PROVE TypeOK'
  <2> DEFINE bandwidth == Length[r] \div (now - arrival[r])
             i == get_request_entry(dispatchTime[r])
  <2>1. /\ now > arrival[r] /\ Goes(r, "dispatch", "released")
        /\ CountReleased(QueueOf[r], bandwidth)
        /\ Account(i, Length[r], bandwidth)
        /\ rate' = [rate EXCEPT ![r] = bandwidth]
        /\ counted' = [counted EXCEPT ![r] =
                         IF i = 0 THEN 0 ELSE performance_info[i].period]
        /\ arrival' = [arrival EXCEPT ![r] = 0]
        /\ dispatchTime' = [dispatchTime EXCEPT ![r] = 0]
        /\ dispatchedIn' = [dispatchedIn EXCEPT ![r] = 0]
        /\ UNCHANGED <<now, owner, traceVars>>
    BY <1>6 DEF Release
  <2>2. bandwidth \in Nat /\ Length[r] \in Nat
    BY <2>1, Bandwidth, StatisticsAssumption
  <2>3. i = 0 \/ i \in 1..Len(performance_info)
    <3>1. Len(performance_info) \in Nat /\ dispatchTime[r] \in Nat
      BY <1>a DEF PerformanceTypeOK
    <3> QED
      BY <3>1, RequestEntry
  <2> HIDE DEF bandwidth, i
  <2>4. StatisticsTypeOK'
    BY <1>a, <1>b, <2>1, <2>2, ReleaseCounted
  <2>5. PerformanceTypeOK'
    <3>1. CASE i = 0
      BY <1>p, <2>1, <3>1 DEF Account
    <3>2. CASE i \in 1..Len(performance_info)
      BY <1>a, <2>1, <2>2, <3>2, Accounted
    <3> QED
      BY <2>3, <3>1, <3>2
  <2>6. i = 0 \/ performance_info[i].period \in Nat
    <3>1. i = 0 \/ performance_info[i] \in PerformanceEntries
      BY <1>a, <2>3, ElementOfSeq DEF PerformanceTypeOK
    <3> QED
      BY <3>1 DEF PerformanceEntries
  <2>7. stage' \in [Requests -> Stages]
    BY <1>g, <2>1 DEF Stages
  <2>8. /\ rate' \in [Requests -> Nat] /\ counted' \in [Requests -> Nat]
        /\ arrival' \in [Requests -> Nat] /\ dispatchTime' \in [Requests -> Nat]
        /\ dispatchedIn' \in [Requests -> Nat]
    BY <1>a, <2>1, <2>2, <2>6
  <2> QED
    BY <1>a, <1>t, <2>1, <2>4, <2>5, <2>7, <2>8 DEF TypeOK
<1>7. CASE Change
  <2>1. StatisticsTypeOK'
    BY <1>7, <1>a, StatisticsReset DEF Change, StatisticsTypeOK
  <2>2. PerformanceTypeOK'
    BY <1>7, <1>a, <1>c, NewAlgorithm DEF Change
  <2> QED
    BY <1>7, <2>1, <2>2, <1>a, <1>t DEF Change, TypeOK, requestVars
<1>8. CASE Exit
  <2>1. TraceTypeOK'
    BY <1>8, <1>a, TraceClosed DEF Exit
  <2> QED
    BY <1>8, <2>1, <1>a, <1>s, <1>p DEF Exit, TypeOK, requestVars
<1>9. CASE Tick
  BY <1>9, <1>a, <1>s, <1>p, <1>t DEF Tick, TypeOK, requestVars
<1>10. CASE UNCHANGED vars
  BY <1>10, <1>a, <1>s, <1>p, <1>t DEF vars, TypeOK, requestVars
<1> QED
  BY <1>1, <1>2, <1>3, <1>4, <1>5, <1>6, <1>7, <1>8, <1>9, <1>10 DEF Next, Ended

(* The statistics, the entries, which are never more than configured and    *)
(* never none, and the buffer of the trace, which never overflows, have     *)
(* their types whatever the threads do.                                     *)
THEOREM BooksTyped == Spec => []TypeOK
<1> QED
  BY BooksTypedInitially, BooksTypedStep, PTL DEF Spec

-----------------------------------------------------------------------------
LEMMA HolderInitially == Init => HolderInv
BY DEF Init, HolderInv

LEMMA HolderStep == TypeOK /\ HolderInv /\ [Next]_vars => HolderInv'
<1> SUFFICES ASSUME TypeOK, HolderInv, [Next]_vars PROVE HolderInv'
  OBVIOUS
<1>a. /\ owner \in [Locks -> Requests \cup {Free}]
      /\ stage \in [Requests -> Stages]
      /\ \A r \in Requests : Lock(r) \in Locks
      /\ Free \notin Requests
  BY BookkeepingAssumption, StatisticsAssumption DEF TypeOK, Lock, Locks
<1>b. \A r \in Requests :
        stage[r] \in {"received", "measured"} => owner[Lock(r)] = r
  BY DEF HolderInv
<1>c. \A r \in Requests : Lock(r)' = Lock(r)
  BY DEF Lock
<1>d. ASSUME NEW r \in Requests, NEW from, NEW to,
             Goes(r, from, to), to \notin {"received", "measured"},
             owner' = owner
      PROVE  HolderInv'
  BY <1>a, <1>b, <1>c, <1>d DEF Goes, HolderInv
<1>1. ASSUME NEW r \in Requests, Stamp(r) PROVE HolderInv'
  BY <1>1, <1>d DEF Stamp
<1>2. ASSUME NEW r \in Requests, Receive(r) PROVE HolderInv'
  BY <1>2, <1>a, <1>b, <1>c DEF Receive, Goes, HolderInv
<1>3. ASSUME NEW r \in Requests, Measure(r) PROVE HolderInv'
  BY <1>3, <1>a, <1>b, <1>c DEF Measure, Goes, HolderInv
<1>4. ASSUME NEW r \in Requests, TraceArrival(r) PROVE HolderInv'
  BY <1>4, <1>a, <1>b, <1>c DEF TraceArrival, Goes, HolderInv
<1>5. ASSUME NEW r \in Requests, Dispatch(r) PROVE HolderInv'
  BY <1>5, <1>d DEF Dispatch
<1>6. ASSUME NEW r \in Requests, Release(r) PROVE HolderInv'
  BY <1>6, <1>d DEF Release
<1>7. CASE UNCHANGED <<owner, stage>>
  BY <1>7, <1>b, <1>c DEF HolderInv
<1>8. CASE Change \/ Exit \/ Tick \/ Ended \/ UNCHANGED vars
  BY <1>7, <1>8 DEF Change, Exit, Tick, Ended, vars, requestVars
<1> QED
  BY <1>1, <1>2, <1>3, <1>4, <1>5, <1>6, <1>8 DEF Next

(* Receipts is a function of the counters of the queues.                    *)
LEMMA ReceiptsDef ==
  \A x : x \in Receipts <=>
          \E q \in Queues : \E k \in 1..stats[q].receivedreq_nb : x = <<q, k>>
BY DEF Receipts

LEMMA ReceiptsKept ==
  ASSUME \A q \in Queues : stats'[q].receivedreq_nb = stats[q].receivedreq_nb
  PROVE  Receipts' = Receipts
BY DEF Receipts

LEMMA ReceiptAdded ==
  ASSUME StatisticsTypeOK, NEW q \in Queues, CountReceived(q)
  PROVE  \E x : x \notin Receipts /\ Receipts' = Receipts \cup {x}
<1> DEFINE n == stats[q].receivedreq_nb
           x == <<q, n + 1>>
<1>1. \A p \in Queues : stats[p].receivedreq_nb \in Nat
  BY DEF StatisticsTypeOK, QueueStatistics
<1>2. /\ stats'[q].receivedreq_nb = n + 1
      /\ \A p \in Queues \ {q} : stats'[p] = stats[p]
  BY Received
<1>3. x \notin Receipts
  BY <1>1, ReceiptsDef
<1>4. \A y : y \in Receipts' <=>
        \E p \in Queues : \E k \in 1..stats'[p].receivedreq_nb : y = <<p, k>>
  BY DEF Receipts
<1>5. Receipts' = Receipts \cup {x}
  <2>1. ASSUME NEW y \in Receipts' PROVE y \in Receipts \cup {x}
    <3>0. PICK p \in Queues :
            \E k \in 1..stats'[p].receivedreq_nb : y = <<p, k>>
      BY <1>4
    <3>1. PICK k \in 1..stats'[p].receivedreq_nb : y = <<p, k>>
      BY <3>0
    <3>2. CASE p = q /\ k = n + 1
      BY <3>1, <3>2
    <3>3. CASE ~(p = q /\ k = n + 1)
      <4>1. k \in 1..stats[p].receivedreq_nb
        BY <1>1, <1>2, <3>3
      <4> QED
        BY <3>1, <4>1, ReceiptsDef
    <3> QED
      BY <3>2, <3>3
  <2>2. ASSUME NEW y \in Receipts PROVE y \in Receipts'
    <3>0. PICK p \in Queues :
            \E k \in 1..stats[p].receivedreq_nb : y = <<p, k>>
      BY ReceiptsDef
    <3>1. PICK k \in 1..stats[p].receivedreq_nb : y = <<p, k>>
      BY <3>0
    <3>2. k \in 1..stats'[p].receivedreq_nb
      BY <1>1, <1>2
    <3> QED
      BY <1>4, <3>1, <3>2
  <2>3. x \in Receipts'
    <3>1. n + 1 \in 1..stats'[q].receivedreq_nb
      BY <1>1, <1>2
    <3> QED
      BY <1>4, <3>1
  <2> QED
    BY <2>1, <2>2, <2>3
<1> QED
  BY <1>3, <1>5

LEMMA TotalsInitially == Init => TotalsInv
<1> SUFFICES ASSUME Init PROVE TotalsInv
  OBVIOUS
<1>1. Receiving = {}
  BY DEF Init, Receiving
<1>2. Receipts = {}
  <2>1. \A q \in Queues : stats[q].receivedreq_nb = 0
    BY DEF Init, StatisticsInit, NoStats
  <2> QED
    BY <2>1, ReceiptsDef
<1>3. global.total_reqnb = 0 /\ ~asserted
  BY DEF Init, StatisticsInit, NoGlobal
<1> QED
  BY <1>1, <1>2, <1>3, FS_EmptySet DEF TotalsInv, TotalsAgree

LEMMA TotalsStep ==
  TypeOK /\ HolderInv /\ TotalsInv /\ [Next]_vars => TotalsInv'
<1> SUFFICES ASSUME TypeOK, HolderInv, TotalsInv, [Next]_vars PROVE TotalsInv'
  OBVIOUS
<1>a. /\ StatisticsTypeOK
      /\ owner \in [Locks -> Requests \cup {Free}]
      /\ stage \in [Requests -> Stages]
      /\ \A r \in Requests : QueueOf[r] \in Queues
      /\ global.total_reqnb \in Nat /\ asserted \in BOOLEAN
      /\ \A q \in Queues : stats[q].receivedreq_nb \in Nat
  BY StatisticsAssumption DEF TypeOK, StatisticsTypeOK, QueueStatistics
<1>b. /\ IsFiniteSet(Receiving) /\ IsFiniteSet(Receipts)
      /\ \A r \in Receiving : stats[QueueOf[r]].receivedreq_nb > 0
      /\ global.total_reqnb + Cardinality(Receiving) = Cardinality(Receipts)
      /\ ~asserted
  BY DEF TotalsInv, TotalsAgree
<1>c. Cardinality(Receiving) \in Nat /\ Cardinality(Receipts) \in Nat
  BY <1>b, FS_CardinalityType
<1>d. ASSUME Receiving' = Receiving, global' = global, asserted' = asserted,
             \A q \in Queues : stats'[q].receivedreq_nb = stats[q].receivedreq_nb
      PROVE  TotalsInv'
  <2>1. Receipts' = Receipts
    BY <1>d, ReceiptsKept
  <2>2. \A r \in Receiving' : stats'[QueueOf[r]].receivedreq_nb > 0
    BY <1>a, <1>b, <1>d DEF Receiving
  <2> QED
    BY <1>b, <1>d, <2>1, <2>2 DEF TotalsInv, TotalsAgree
<1>e. ASSUME NEW r \in Requests, NEW from, NEW to, Goes(r, from, to),
             from # "received", to # "received"
      PROVE  Receiving' = Receiving
  BY <1>a, <1>e DEF Goes, Receiving
<1>1. ASSUME NEW r \in Requests, Stamp(r) PROVE TotalsInv'
  BY <1>1, <1>d, <1>e DEF Stamp, statsVars
<1>2. ASSUME NEW r \in Requests, Receive(r) PROVE TotalsInv'
  <2>1. Goes(r, "stamped", "received") /\ CountReceived(QueueOf[r])
    BY <1>2 DEF Receive
  <2>2. r \notin Receiving /\ Receiving' = Receiving \cup {r}
    BY <1>a, <2>1 DEF Goes, Receiving
  <2>3. PICK x : x \notin Receipts /\ Receipts' = Receipts \cup {x}
    BY <1>a, <2>1, ReceiptAdded
  <2>4. /\ IsFiniteSet(Receiving') /\ IsFiniteSet(Receipts')
        /\ Cardinality(Receiving') = Cardinality(Receiving) + 1
        /\ Cardinality(Receipts') = Cardinality(Receipts) + 1
    BY <1>b, <2>2, <2>3, FS_AddElement
  <2>5. /\ global' = global /\ asserted' = asserted
        /\ \A q \in Queues : stats'[q].receivedreq_nb >= stats[q].receivedreq_nb
        /\ stats'[QueueOf[r]].receivedreq_nb = stats[QueueOf[r]].receivedreq_nb + 1
        /\ \A q \in Queues : stats'[q].receivedreq_nb \in Nat
    BY <1>a, <2>1, Received
  <2>6. \A s \in Receiving' : stats'[QueueOf[s]].receivedreq_nb > 0
    <3>1. \A s \in Receiving : stats'[QueueOf[s]].receivedreq_nb > 0
      BY <1>a, <1>b, <2>5 DEF Receiving
    <3> QED
      BY <1>a, <2>2, <2>5, <3>1
  <2>7. global'.total_reqnb + Cardinality(Receiving') = Cardinality(Receipts')
    BY <1>a, <1>b, <1>c, <2>4, <2>5
  <2> QED
    BY <1>b, <2>4, <2>5, <2>6, <2>7 DEF TotalsInv, TotalsAgree
<1>3. ASSUME NEW r \in Requests, Measure(r) PROVE TotalsInv'
  <2>1. Goes(r, "received", "measured") /\ UpdateAverages(r)
    BY <1>3 DEF Measure
  <2>2. r \in Receiving /\ Receiving' = Receiving \ {r}
    BY <1>a, <2>1 DEF Goes, Receiving
  <2>3. /\ global'.total_reqnb = global.total_reqnb + 1 /\ asserted' = asserted
        /\ \A q \in Queues : stats'[q].receivedreq_nb = stats[q].receivedreq_nb
    BY <1>a, <1>b, <2>1, <2>2, Measured
  <2>4. Receipts' = Receipts
    BY <2>3, ReceiptsKept
  <2>5. /\ IsFiniteSet(Receiving')
        /\ Cardinality(Receiving') = Cardinality(Receiving) - 1
    BY <1>b, <2>2, FS_RemoveElement
  <2>6. \A s \in Receiving' : stats'[QueueOf[s]].receivedreq_nb > 0
    BY <1>a, <1>b, <2>2, <2>3 DEF Receiving
  <2>7. global'.total_reqnb + Cardinality(Receiving') = Cardinality(Receipts')
    BY <1>a, <1>b, <1>c, <2>3, <2>4, <2>5
  <2> QED
    BY <1>b, <2>3, <2>4, <2>5, <2>6, <2>7 DEF TotalsInv, TotalsAgree
<1>4. ASSUME NEW r \in Requests, TraceArrival(r) PROVE TotalsInv'
  BY <1>4, <1>d, <1>e DEF TraceArrival, statsVars
<1>5. ASSUME NEW r \in Requests, Dispatch(r) PROVE TotalsInv'
  BY <1>5, <1>d, <1>e DEF Dispatch, statsVars
<1>6. ASSUME NEW r \in Requests, Release(r) PROVE TotalsInv'
  <2> DEFINE bandwidth == Length[r] \div (now - arrival[r])
  <2>1. /\ Goes(r, "dispatch", "released") /\ now > arrival[r]
        /\ CountReleased(QueueOf[r], bandwidth)
    BY <1>6 DEF Release
  <2>2. bandwidth \in Nat
    BY <2>1, Bandwidth
  <2> HIDE DEF bandwidth
  <2>3. /\ global' = global /\ asserted' = asserted
        /\ \A q \in Queues : stats'[q].receivedreq_nb = stats[q].receivedreq_nb
    BY <1>a, <2>1, <2>2, ReleaseCounted
  <2> QED
    BY <1>d, <1>e, <2>1, <2>3
<1>7. CASE Change
  <2>1. Receiving = {} /\ Receiving' = {}
    <3>1. \A r \in Requests : owner[Lock(r)] = Free
      BY <1>7, StatisticsAssumption DEF Change, Lock, Locks
    <3>2. Receiving = {}
      BY <3>1, BookkeepingAssumption DEF HolderInv, Receiving
    <3>3. Receiving' = Receiving
      BY <1>7 DEF Change, requestVars, Receiving
    <3> QED
      BY <3>2, <3>3
  <2>2. /\ global'.total_reqnb = 0 /\ asserted' = asserted
        /\ \A q \in Queues : stats'[q].receivedreq_nb = 0
    BY <1>7, <1>a, StatisticsReset DEF Change
  <2>3. Receipts' = {}
    <3>1. \A q \in Queues : 1..stats'[q].receivedreq_nb = {}
      BY <2>2
    <3> QED
      BY <3>1 DEF Receipts
  <2> QED
    BY <1>b, <2>1, <2>2, <2>3, FS_EmptySet DEF TotalsInv, TotalsAgree
<1>8. CASE UNCHANGED <<stage, statsVars>>
  BY <1>8, <1>d DEF statsVars, Receiving
<1>9. CASE Exit \/ Tick \/ Ended \/ UNCHANGED vars
  BY <1>8, <1>9 DEF Exit, Tick, Ended, vars, requestVars
<1> QED
  BY <1>1, <1>2, <1>3, <1>4, <1>5, <1>6, <1>7, <1>9 DEF Next

(* The counters of the queues and the global one never drift apart, and no  *)
(* average is updated with a count of zero, however the calls and the       *)
(* changes of scheduler interleave.                                         *)
THEOREM BooksBalance == Spec => []TotalsAgree
<1>1. Init => TypeOK /\ HolderInv /\ TotalsInv
  BY BooksTypedInitially, HolderInitially, TotalsInitially
<1>2. TypeOK /\ HolderInv /\ TotalsInv /\ [Next]_vars
        => (TypeOK /\ HolderInv /\ TotalsInv)'
  BY BooksTypedStep, HolderStep, TotalsStep
<1>3. TotalsInv => TotalsAgree
  BY DEF TotalsInv
<1> QED
  BY <1>1, <1>2, <1>3, PTL DEF Spec

-----------------------------------------------------------------------------
(* A call of the trace: what is in the file and in the buffer together is   *)
(* longer by its line.                                                      *)
LEMMA LineTraced ==
  ASSUME TraceTypeOK, NEW r \in Traceable, agios_trace_add_request(r),
         bufferSize = 0 => logged = <<>> /\ file = <<>>,
         bufferSize > 0 => logged # <<>> /\ file \o buffer = logged
  PROVE  bufferSize' > 0 /\ logged' # <<>> /\ file' \o buffer' = logged'
<1> DEFINE Line == Traceable \cup {Garbage}
<1>1. /\ buffer \in Seq(Line) /\ file \in Seq(Line) /\ logged \in Seq(Line)
      /\ bufferSize \in Nat /\ <<r>> \in Seq(Line) /\ r \in Line
  BY SeqMonotonic DEF TraceTypeOK
<1>2. /\ LineSize[r] \in Nat \ {0} /\ LineSize[r] < MaxBuffer /\ MaxBuffer \in Nat
  BY TraceAssumption
<1>3. logged' = Append(logged, r) /\ WriteToBuffer(r)
  BY DEF agios_trace_add_request
<1> HIDE DEF Line
<1>4. logged' = logged \o <<r>> /\ logged' # <<>>
  <2>1. Append(logged, r) = logged \o <<r>>
    BY <1>1, AppendIsConcat
  <2>2. Len(Append(logged, r)) = Len(logged) + 1 /\ Len(logged) \in Nat
    BY <1>1, AppendProperties, LenProperties
  <2> QED
    BY <1>3, <2>1, <2>2
<1>5. bufferSize' > 0
  BY <1>1, <1>2, <1>3 DEF WriteToBuffer
<1>6. CASE bufferSize + LineSize[r] >= MaxBuffer
  <2>1. bufferSize > 0
    BY <1>1, <1>2, <1>6
  <2>2. file' = file \o buffer /\ buffer' = <<r>>
    BY <1>3, <1>6 DEF WriteToBuffer
  <2> QED
    BY <1>4, <1>5, <2>1, <2>2
<1>7. CASE ~(bufferSize + LineSize[r] >= MaxBuffer)
  <2>1. /\ file' = file
        /\ buffer' = IF bufferSize = 0 THEN <<r>> ELSE Append(buffer, r)
    BY <1>3, <1>7 DEF WriteToBuffer
  <2>2. CASE bufferSize = 0
    <3>1. /\ file = <<>> /\ logged = <<>> /\ buffer' = <<r>>
      BY <2>1, <2>2
    <3> QED
      BY <1>4, <1>5, <2>1, <3>1
  <2>3. CASE bufferSize > 0
    <3>1. buffer' = buffer \o <<r>>
      BY <1>1, <2>1, <2>3, AppendIsConcat
    <3>2. file \o (buffer \o <<r>>) = (file \o buffer) \o <<r>>
      BY <1>1, ConcatAssociative
    <3> QED
      BY <1>4, <1>5, <2>1, <2>3, <3>1, <3>2
  <2> QED
    BY <1>1, <2>2, <2>3
<1> QED
  BY <1>6, <1>7

LEMMA TraceInitially == Init => TraceInv
<1> SUFFICES ASSUME Init PROVE TraceInv
  OBVIOUS
<1>1. bufferSize = 0 /\ file = <<>> /\ logged = <<>> /\ closed = FALSE
  BY DEF Init, TraceInit
<1> QED
  BY <1>1 DEF TraceInv, TraceComplete

LEMMA TraceStep == TypeOK /\ TraceInv /\ [Next]_vars => TraceInv'
<1> SUFFICES ASSUME TypeOK, TraceInv, [Next]_vars PROVE TraceInv'
  OBVIOUS
<1> DEFINE Adding(r) == stage[r] \in {"stamped", "received", "measured"}
<1>a. /\ stage \in [Requests -> Stages] /\ TraceTypeOK
      /\ bufferSize \in Nat /\ closed \in BOOLEAN
  <2>1. bufferSize \in 0..(MaxBuffer - 1) /\ closed \in BOOLEAN
    BY DEF TypeOK, TraceTypeOK
  <2> QED
    BY <2>1 DEF TypeOK
<1>b. /\ closed => \A r \in Requests : ~Adding(r)
      /\ ~closed /\ bufferSize = 0 => logged = <<>> /\ file = <<>>
      /\ bufferSize > 0 => logged # <<>> /\ file \o buffer = logged
      /\ bufferSize = 0 /\ logged # <<>> => file \o <<>> = logged
  <2>1. /\ closed => \A r \in Requests : ~Adding(r)
        /\ ~closed /\ bufferSize = 0 => logged = <<>> /\ file = <<>>
        /\ bufferSize > 0 => logged # <<>>
    BY Zenon DEF TraceInv
  <2>2. logged # <<>> =>
          file \o (IF bufferSize = 0 THEN <<>> ELSE buffer) = logged
    BY DEF TraceInv, TraceComplete
  <2>3. bufferSize > 0 => bufferSize # 0
    BY <1>a
  <2> HIDE DEF Adding
  <2>4. bufferSize > 0 => file \o buffer = logged
    BY <2>1, <2>2, <2>3
  <2>5. bufferSize = 0 /\ logged # <<>> => file \o <<>> = logged
    BY <2>2
  <2> QED
    BY <2>1, <2>4, <2>5
<1>c. ASSUME UNCHANGED traceVars, closed => \A r \in Requests : ~Adding(r)'
      PROVE  TraceInv'
  <2>1. TraceComplete'
    BY <1>c DEF TraceInv, TraceComplete, traceVars
  <2> QED
    BY <1>b, <1>c, <2>1 DEF TraceInv, traceVars
<1>d. ASSUME NEW r \in Requests, NEW from, NEW to, Goes(r, from, to),
             UNCHANGED traceVars,
             to \in {"stamped", "received", "measured"} => ~closed \/ Adding(r)
      PROVE  TraceInv'
  BY <1>a, <1>b, <1>c, <1>d DEF Goes
<1>1. ASSUME NEW r \in Requests, Stamp(r) PROVE TraceInv'
  BY <1>1, <1>d DEF Stamp
<1>2. ASSUME NEW r \in Requests, Receive(r) PROVE TraceInv'
  <2>1. Adding(r)
    BY <1>2 DEF Receive, Goes
  <2> QED
    BY <1>2, <1>d, <2>1 DEF Receive
<1>3. ASSUME NEW r \in Requests, Measure(r) PROVE TraceInv'
  <2>1. Adding(r)
    BY <1>3 DEF Measure, Goes
  <2> QED
    BY <1>3, <1>d, <2>1 DEF Measure
<1>4. ASSUME NEW r \in Requests, TraceArrival(r) PROVE TraceInv'
  <2>1. Adding(r) /\ agios_trace_add_request(r)
    BY <1>4 DEF TraceArrival, Goes
  <2>2. ~closed
    BY <1>b, <2>1
  <2>3. r \in Traceable
    BY BookkeepingAssumption
  <2>4. bufferSize' > 0 /\ logged' # <<>> /\ file' \o buffer' = logged'
    BY <1>a, <1>b, <2>1, <2>2, <2>3, LineTraced
  <2>5. closed' = closed
    BY <2>1 DEF agios_trace_add_request
  <2>6. bufferSize' # 0
    BY <2>4
  <2> QED
    BY <2>2, <2>4, <2>5, <2>6 DEF TraceInv, TraceComplete
<1>5. ASSUME NEW r \in Requests, Dispatch(r) PROVE TraceInv'
  BY <1>5, <1>d DEF Dispatch
<1>6. ASSUME NEW r \in Requests, Release(r) PROVE TraceInv'
  BY <1>6, <1>d DEF Release
<1>7. CASE Exit
  <2>1. /\ ~closed /\ \A r \in Requests : ~Adding(r)
        /\ file' = file \o buffer /\ bufferSize' = 0 /\ closed' = TRUE
        /\ logged' = logged /\ UNCHANGED stage
    BY <1>7 DEF Exit, close_agios_trace, requestVars
  <2>2. ASSUME logged # <<>> PROVE file' \o <<>> = logged'
    <3>1. file \o buffer = logged
      BY <1>a, <1>b, <2>1, <2>2
    <3>2. logged \o <<>> = logged
      BY <1>a, ConcatEmptySeq DEF TraceTypeOK
    <3> QED
      BY <2>1, <3>1, <3>2
  <2> QED
    BY <2>1, <2>2 DEF TraceInv, TraceComplete
<1>8. CASE UNCHANGED <<stage, traceVars>>
  BY <1>8, <1>b, <1>c
<1>9. CASE Change \/ Tick \/ Ended \/ UNCHANGED vars
  BY <1>8, <1>9 DEF Change, Tick, Ended, vars, requestVars
<1> QED
  BY <1>1, <1>2, <1>3, <1>4, <1>5, <1>6, <1>7, <1>9 DEF Next

(* The trace loses no line and repeats none: what the file holds and the    *)
(* buffer will add is what was traced, in order.                            *)
THEOREM TraceIsComplete == Spec => []TraceComplete
<1>1. Init => TypeOK /\ TraceInv
  BY BooksTypedInitially, TraceInitially
<1>2. TypeOK /\ TraceInv /\ [Next]_vars => (TypeOK /\ TraceInv)'
  BY BooksTypedStep, TraceStep
<1>3. TraceInv => TraceComplete
  BY DEF TraceInv
<1> QED
  BY <1>1, <1>2, <1>3, PTL DEF Spec

-----------------------------------------------------------------------------
(* What a release does to the entries: it adds the request to the entry of  *)
(* the time at which the request was dispatched, if there is one.           *)
LEMMA ReleaseAccounted ==
  ASSUME TypeOK, NEW r \in Requests, Release(r)
  PROVE  LET i == get_request_entry(dispatchTime[r])
             n == Len(performance_info)
         IN /\ begun' = begun /\ Len(performance_info') = n
            /\ \A j \in 1..n :
                 /\ performance_info'[j].period = performance_info[j].period
                 /\ performance_info'[j].timestamp = performance_info[j].timestamp
                 /\ j # i => performance_info'[j] = performance_info[j]
            /\ \/ /\ i = 0
                  /\ \A j \in 1..n : performance_info[j].timestamp > dispatchTime[r]
                  /\ counted'[r] = 0
                  /\ agios_processed_reqnb' = agios_processed_reqnb
               \/ /\ i \in 1..n
                  /\ performance_info[i].timestamp <= dispatchTime[r]
                  /\ \A j \in (i + 1)..n :
                       performance_info[j].timestamp > dispatchTime[r]
                  /\ counted'[r] = performance_info[i].period
                  /\ performance_info'[i].reqnb = performance_info[i].reqnb + 1
                  /\ performance_info'[i].bandwidth =
                       update_iterative_average(performance_info[i].bandwidth,
                                                rate'[r],
                                                performance_info[i].reqnb + 1)
                  /\ agios_processed_reqnb' =
                       IF i = n THEN agios_processed_reqnb + 1
                       ELSE agios_processed_reqnb
<1> DEFINE i == get_request_entry(dispatchTime[r])
           n == Len(performance_info)
           bandwidth == Length[r] \div (now - arrival[r])
<1>1. /\ now > arrival[r]
      /\ Account(i, Length[r], bandwidth)
      /\ rate' = [rate EXCEPT ![r] = bandwidth]
      /\ counted' = [counted EXCEPT ![r] =
                       IF i = 0 THEN 0 ELSE performance_info[i].period]
  BY DEF Release
<1>2. /\ PerformanceTypeOK /\ Length[r] \in Nat /\ bandwidth \in Nat
      /\ dispatchTime[r] \in Nat /\ r \in DOMAIN rate /\ r \in DOMAIN counted
  BY <1>1, Bandwidth, StatisticsAssumption DEF TypeOK
<1>3. /\ n \in Nat
      /\ \A j \in 1..n : performance_info[j].timestamp \in Nat
  <2>1. n \in Nat /\ performance_info \in Seq(PerformanceEntries)
    BY <1>2 DEF PerformanceTypeOK
  <2>2. \A j \in 1..n : performance_info[j] \in PerformanceEntries
    BY <2>1, ElementOfSeq
  <2> QED
    BY <2>1, <2>2 DEF PerformanceEntries
<1>4. \/ /\ i = 0
         /\ \A j \in 1..n : ~(performance_info[j].timestamp <= dispatchTime[r])
      \/ /\ i \in 1..n /\ performance_info[i].timestamp <= dispatchTime[r]
         /\ \A j \in (i + 1)..n :
              ~(performance_info[j].timestamp <= dispatchTime[r])
  BY <1>2, <1>3, RequestEntry
<1>5. rate'[r] = bandwidth
      /\ counted'[r] = IF i = 0 THEN 0 ELSE performance_info[i].period
  BY <1>1, <1>2
<1> HIDE DEF i, bandwidth
<1>6. CASE i = 0
  <2>1. UNCHANGED perfVars
    BY <1>1, <1>6 DEF Account
  <2>2. \A j \in 1..n : performance_info[j].timestamp > dispatchTime[r]
    <3>1. \A j \in 1..n : ~(performance_info[j].timestamp <= dispatchTime[r])
      BY <1>3, <1>4, <1>6
    <3> HIDE DEF n
    <3> QED
      BY <1>2, <1>3, <3>1
  <2> QED
    BY <1>5, <1>6, <2>1, <2>2 DEF perfVars, i
<1>7. CASE i \in 1..n
  <2>1. i # 0
    BY <1>3, <1>7
  <2>2. \A j \in (i + 1)..n : performance_info[j].timestamp > dispatchTime[r]
    <3>1. \A j \in (i + 1)..n : ~(performance_info[j].timestamp <= dispatchTime[r])
      BY <1>4, <2>1
    <3>2. \A j \in (i + 1)..n : j \in 1..n
      BY <1>3, <1>7
    <3> HIDE DEF n
    <3> QED
      BY <1>2, <1>3, <3>1, <3>2
  <2>3. performance_info[i].timestamp <= dispatchTime[r]
    BY <1>4, <2>1
  <2>4. /\ begun' = begun
        /\ Len(performance_info') = n
        /\ \A j \in 1..n :
             /\ performance_info'[j].period = performance_info[j].period
             /\ performance_info'[j].timestamp = performance_info[j].timestamp
             /\ j # i => performance_info'[j] = performance_info[j]
        /\ performance_info'[i].reqnb = performance_info[i].reqnb + 1
        /\ performance_info'[i].bandwidth =
             update_iterative_average(performance_info[i].bandwidth, bandwidth,
                                      performance_info[i].reqnb + 1)
        /\ agios_processed_reqnb' =
             IF i = n THEN agios_processed_reqnb + 1 ELSE agios_processed_reqnb
    BY <1>1, <1>2, <1>7, Accounted
  <2> QED
    BY <1>5, <1>7, <2>1, <2>2, <2>3, <2>4 DEF i
<1> QED
  BY <1>4, <1>6, <1>7 DEF i

LEMMA PeriodInitially == Init => PeriodInv
<1> SUFFICES ASSUME Init PROVE PeriodInv
  OBVIOUS
<1>1. /\ performance_info = <<Entry(1, 0)>> /\ begun = <<0>> /\ now = 0
  BY DEF Init, PerformanceInit
<1>2. /\ Len(performance_info) = 1 /\ performance_info[1] = Entry(1, 0)
      /\ DOMAIN performance_info = {1}
      /\ Len(begun) = 1 /\ begun[1] = 0
  BY <1>1
<1>3. Entry(1, 0).period = 1 /\ Entry(1, 0).timestamp = 0
  BY DEF Entry
<1> QED
  BY <1>1, <1>2, <1>3 DEF PeriodInv, Period

LEMMA PeriodStep == TypeOK /\ PeriodInv /\ [Next]_vars => PeriodInv'
<1> SUFFICES ASSUME TypeOK, PeriodInv, [Next]_vars PROVE PeriodInv'
  OBVIOUS
<1> DEFINE n == Len(performance_info)
           P == Len(begun)
<1>a. /\ PerformanceTypeOK /\ n \in Nat \ {0} /\ P \in Nat /\ now \in Nat
      /\ \A i \in 1..P : begun[i] \in Nat
      /\ DOMAIN performance_info = 1..n
  BY ElementOfSeq, LenProperties DEF TypeOK, PerformanceTypeOK
<1>b. /\ n <= P
      /\ \A i \in 1..n :
           /\ performance_info[i].period = P - (n - i)
           /\ performance_info[i].timestamp = begun[performance_info[i].period]
      /\ \A i, j \in 1..P : i <= j => begun[i] <= begun[j]
      /\ \A i \in 1..P : begun[i] <= now
  BY <1>a DEF PeriodInv, Period
<1>c. ASSUME begun' = begun, Len(performance_info') = n, now' >= now, now' \in Nat,
             \A i \in 1..n :
               /\ performance_info'[i].period = performance_info[i].period
               /\ performance_info'[i].timestamp = performance_info[i].timestamp
      PROVE  PeriodInv'
  <2>1. DOMAIN performance_info' = 1..n
    <3>1. PerformanceTypeOK'
      BY BooksTypedStep DEF TypeOK
    <3> QED
      BY <1>c, <3>1, LenProperties DEF PerformanceTypeOK
  <2>2. \A i \in 1..P : begun'[i] <= now'
    BY <1>a, <1>b, <1>c
  <2>3. \A i \in 1..n :
          /\ performance_info'[i].period = P - (n - i)
          /\ performance_info'[i].timestamp = begun[performance_info'[i].period]
    BY <1>b, <1>c
  <2> HIDE DEF n, P
  <2>4. Len(begun') = P
    BY <1>c DEF P
  <2> QED
    BY <1>b, <1>c, <2>1, <2>2, <2>3, <2>4 DEF PeriodInv, Period
<1>1. ASSUME NEW r \in Requests, Release(r) PROVE PeriodInv'
  <2>1. now' >= now /\ now' \in Nat
    BY <1>1, <1>a DEF Release
  <2>2. /\ begun' = begun /\ Len(performance_info') = n
        /\ \A j \in 1..n :
             /\ performance_info'[j].period = performance_info[j].period
             /\ performance_info'[j].timestamp = performance_info[j].timestamp
    BY <1>1, ReleaseAccounted
  <2> QED
    BY <1>c, <2>1, <2>2
<1>2. CASE Change
  <2>1. performance_set_new_algorithm(now)
    BY <1>2 DEF Change
  <2>2. /\ PerformanceTypeOK' /\ Len(begun') = P + 1
        /\ \A p \in 1..P : begun'[p] = begun[p]
        /\ begun'[P + 1] = now
    BY <1>a, <2>1, NewAlgorithm
  <2>3. PICK k \in 0..1 :
          /\ Len(performance_info') = n + 1 - k
          /\ \A i \in 1..(n - k) : performance_info'[i] = performance_info[i + k]
          /\ performance_info'[Len(performance_info')] = Entry(P + 1, now)
    BY <1>a, <2>1, NewAlgorithm
  <2>4. DOMAIN performance_info' = 1..(n + 1 - k)
    BY <2>2, <2>3, LenProperties DEF PerformanceTypeOK
  <2>5. Entry(P + 1, now).period = P + 1 /\ Entry(P + 1, now).timestamp = now
    BY DEF Entry
  <2>6. now' = now
    BY <1>2 DEF Change
  <2> HIDE DEF n, P
  <2>7. ASSUME NEW i \in 1..(n + 1 - k)
        PROVE  /\ performance_info'[i].period = P + 1 - (n + 1 - k - i)
               /\ performance_info'[i].timestamp = begun'[performance_info'[i].period]
    <3>1. CASE i = n + 1 - k
      <4>1. performance_info'[i] = Entry(P + 1, now)
        BY <2>3, <3>1
      <4>2. P + 1 - (n + 1 - k - i) = P + 1
        BY <1>a, <3>1
      <4> QED
        BY <2>2, <2>5, <4>1, <4>2
    <3>2. CASE i # n + 1 - k
      <4>1. i \in 1..(n - k) /\ i + k \in 1..n
        BY <1>a, <3>2
      <4>2. performance_info'[i] = performance_info[i + k]
        BY <2>3, <4>1
      <4>3. performance_info[i + k].period = P - (n - (i + k))
        BY <1>b, <4>1
      <4>4. /\ P - (n - (i + k)) = P + 1 - (n + 1 - k - i)
            /\ P - (n - (i + k)) \in 1..P
        BY <1>a, <1>b, <4>1
      <4>5. performance_info[i + k].timestamp = begun[P - (n - (i + k))]
        BY <1>b, <4>1, <4>3
      <4> QED
        BY <2>2, <4>2, <4>3, <4>4, <4>5
    <3> QED
      BY <3>1, <3>2
  <2>8. n + 1 - k <= P + 1
    BY <1>a, <1>b
  <2>9. \A i, j \in 1..(P + 1) : i <= j => begun'[i] <= begun'[j]
    <3> SUFFICES ASSUME NEW i \in 1..(P + 1), NEW j \in 1..(P + 1), i <= j
                 PROVE  begun'[i] <= begun'[j]
      OBVIOUS
    <3>1. CASE j = P + 1
      BY <1>a, <1>b, <2>2, <3>1
    <3>2. CASE j # P + 1
      BY <1>a, <1>b, <2>2, <3>2
    <3> QED
      BY <3>1, <3>2
  <2>10. \A i \in 1..(P + 1) : begun'[i] <= now'
    <3> SUFFICES ASSUME NEW i \in 1..(P + 1) PROVE begun'[i] <= now
      BY <2>6
    <3>1. CASE i = P + 1
      BY <1>a, <2>2, <3>1
    <3>2. CASE i # P + 1
      BY <1>a, <1>b, <2>2, <3>2
    <3> QED
      BY <3>1, <3>2
  <2> DEFINE m == n + 1 - k
             Q == P + 1
  <2>11. /\ Len(performance_info') = m /\ DOMAIN performance_info' = 1..m
         /\ Len(begun') = Q /\ m <= Q
         /\ \A i \in 1..m :
              /\ performance_info'[i].period = Q - (m - i)
              /\ performance_info'[i].timestamp = begun'[performance_info'[i].period]
         /\ \A i, j \in 1..Q : i <= j => begun'[i] <= begun'[j]
         /\ \A i \in 1..Q : begun'[i] <= now'
    <3>1. /\ Len(performance_info') = m /\ DOMAIN performance_info' = 1..m
          /\ Len(begun') = Q /\ m <= Q
      BY <2>2, <2>3, <2>4, <2>8
    <3>2. \A i \in 1..m :
            /\ performance_info'[i].period = Q - (m - i)
            /\ performance_info'[i].timestamp = begun'[performance_info'[i].period]
      <4> SUFFICES ASSUME NEW i \in 1..m
                   PROVE  /\ performance_info'[i].period = Q - (m - i)
                          /\ performance_info'[i].timestamp =
                               begun'[performance_info'[i].period]
        OBVIOUS
      <4>1. P + 1 - (n + 1 - k - i) = Q - (m - i)
        BY <1>a
      <4> QED
        BY <2>7, <4>1
    <3>3. /\ \A i, j \in 1..Q : i <= j => begun'[i] <= begun'[j]
          /\ \A i \in 1..Q : begun'[i] <= now'
      BY <2>9, <2>10
    <3> QED
      BY <3>1, <3>2, <3>3
  <2> HIDE DEF m, Q
  <2> QED
    BY <2>11 DEF PeriodInv, Period
<1>3. CASE UNCHANGED perfVars /\ now' >= now /\ now' \in Nat
  BY <1>3, <1>c DEF perfVars
<1>4. ASSUME NEW r \in Requests,
             Stamp(r) \/ Receive(r) \/ Measure(r) \/ TraceArrival(r) \/ Dispatch(r)
      PROVE  PeriodInv'
  BY <1>4, <1>3, <1>a DEF Stamp, Receive, Measure, TraceArrival, Dispatch
<1>5. CASE Exit \/ Tick \/ Ended \/ UNCHANGED vars
  BY <1>5, <1>3, <1>a DEF Exit, Tick, Ended, vars
<1> QED
  BY <1>1, <1>2, <1>4, <1>5 DEF Next

LEMMA DispatchInitially == Init => DispatchInv
BY DEF Init, DispatchInv

LEMMA DispatchStep ==
  TypeOK /\ PeriodInv /\ DispatchInv /\ [Next]_vars => DispatchInv'
<1> SUFFICES ASSUME TypeOK, PeriodInv, DispatchInv, [Next]_vars
             PROVE  DispatchInv'
  OBVIOUS
<1> DEFINE P == Len(begun)
<1>a. /\ PerformanceTypeOK /\ P \in Nat \ {0} /\ now \in Nat
      /\ \A i \in 1..P : begun[i] \in Nat
      /\ \A i \in 1..P : begun[i] <= now
      /\ stage \in [Requests -> Stages]
      /\ dispatchTime \in [Requests -> Nat] /\ dispatchedIn \in [Requests -> Nat]
  <2>1. /\ PerformanceTypeOK /\ now \in Nat /\ stage \in [Requests -> Stages]
        /\ dispatchTime \in [Requests -> Nat] /\ dispatchedIn \in [Requests -> Nat]
    BY DEF TypeOK
  <2>2. /\ begun \in Seq(Nat) /\ Len(performance_info) \in Nat \ {0}
    BY <2>1 DEF PerformanceTypeOK
  <2>3. P \in Nat /\ \A i \in 1..P : begun[i] \in Nat
    BY <2>2, ElementOfSeq, LenProperties
  <2>4. Len(performance_info) <= P /\ \A i \in 1..P : begun[i] <= now
    BY DEF PeriodInv, Period
  <2>5. P # 0
    BY <2>2, <2>3, <2>4
  <2> QED
    BY <2>1, <2>3, <2>4, <2>5
<1>b. \A r \in Requests : stage[r] = "dispatch" =>
        /\ dispatchedIn[r] \in 1..P
        /\ begun[dispatchedIn[r]] <= dispatchTime[r] /\ dispatchTime[r] <= now
        /\ dispatchedIn[r] < P => dispatchTime[r] <= begun[dispatchedIn[r] + 1]
  BY DEF DispatchInv, Period
<1>c. ASSUME begun' = begun, now' >= now, now' \in Nat,
             \A r \in Requests : stage'[r] = "dispatch" =>
               /\ stage[r] = "dispatch"
               /\ dispatchTime'[r] = dispatchTime[r]
               /\ dispatchedIn'[r] = dispatchedIn[r]
      PROVE  DispatchInv'
  <2> SUFFICES ASSUME NEW r \in Requests, stage'[r] = "dispatch"
               PROVE  /\ dispatchedIn[r] \in 1..P
                      /\ begun[dispatchedIn[r]] <= dispatchTime[r]
                      /\ dispatchTime[r] <= now'
                      /\ dispatchedIn[r] < P =>
                           dispatchTime[r] <= begun[dispatchedIn[r] + 1]
    BY <1>c DEF DispatchInv, Period
  <2>1. stage[r] = "dispatch"
    BY <1>c
  <2> QED
    BY <1>a, <1>b, <1>c, <2>1
<1>1. ASSUME NEW r \in Requests, NEW from, NEW to, Goes(r, from, to),
             to # "dispatch", begun' = begun, now' = now,
             \A s \in Requests \ {r} : /\ dispatchTime'[s] = dispatchTime[s]
                                      /\ dispatchedIn'[s] = dispatchedIn[s]
      PROVE  DispatchInv'
  BY <1>1, <1>a, <1>c DEF Goes
<1>2. ASSUME NEW r \in Requests,
             Stamp(r) \/ Receive(r) \/ Measure(r) \/ TraceArrival(r)
      PROVE  DispatchInv'
  BY <1>2, <1>1 DEF Stamp, Receive, Measure, TraceArrival, perfVars
<1>3. ASSUME NEW r \in Requests, Dispatch(r) PROVE DispatchInv'
  <2>1. /\ Goes(r, "queued", "dispatch") /\ begun' = begun /\ now' = now
        /\ dispatchTime' = [dispatchTime EXCEPT ![r] = now]
        /\ dispatchedIn' = [dispatchedIn EXCEPT ![r] = P]
    BY <1>3 DEF Dispatch, perfVars, Period
  <2> SUFFICES ASSUME NEW s \in Requests, stage'[s] = "dispatch"
               PROVE  /\ dispatchedIn'[s] \in 1..P
                      /\ begun[dispatchedIn'[s]] <= dispatchTime'[s]
                      /\ dispatchTime'[s] <= now
                      /\ dispatchedIn'[s] < P =>
                           dispatchTime'[s] <= begun[dispatchedIn'[s] + 1]
    BY <2>1 DEF DispatchInv, Period
  <2> HIDE DEF P
  <2>2. CASE s = r
    <3>1. dispatchTime'[s] = now /\ dispatchedIn'[s] = P
      BY <1>a, <2>1, <2>2
    <3> QED
      BY <1>a, <3>1
  <2>3. CASE s # r
    <3>1. /\ stage[s] = "dispatch" /\ dispatchTime'[s] = dispatchTime[s]
          /\ dispatchedIn'[s] = dispatchedIn[s]
      BY <1>a, <2>1, <2>3 DEF Goes
    <3> QED
      BY <1>b, <3>1
  <2> QED
    BY <2>2, <2>3
<1>4. ASSUME NEW r \in Requests, Release(r) PROVE DispatchInv'
  <2>1. begun' = begun
    BY <1>4, ReleaseAccounted
  <2>2. /\ Goes(r, "dispatch", "released") /\ now' = now
        /\ \A s \in Requests \ {r} : /\ dispatchTime'[s] = dispatchTime[s]
                                     /\ dispatchedIn'[s] = dispatchedIn[s]
    BY <1>4, <1>a DEF Release
  <2> QED
    BY <1>1, <2>1, <2>2
<1>5. CASE Change
  <2>1. performance_set_new_algorithm(now) /\ now' = now /\ UNCHANGED requestVars
    BY <1>5 DEF Change
  <2>2. /\ Len(begun') = P + 1
        /\ \A p \in 1..P : begun'[p] = begun[p]
        /\ begun'[P + 1] = now
    BY <1>a, <2>1, NewAlgorithm
  <2> SUFFICES ASSUME NEW r \in Requests, stage[r] = "dispatch"
               PROVE  /\ dispatchedIn[r] \in 1..(P + 1)
                      /\ begun'[dispatchedIn[r]] <= dispatchTime[r]
                      /\ dispatchTime[r] <= now
                      /\ dispatchedIn[r] < P + 1 =>
                           dispatchTime[r] <= begun'[dispatchedIn[r] + 1]
    BY <2>1, <2>2 DEF DispatchInv, Period, requestVars
  <2> HIDE DEF P
  <2>3. /\ dispatchedIn[r] \in 1..P
        /\ begun[dispatchedIn[r]] <= dispatchTime[r] /\ dispatchTime[r] <= now
        /\ dispatchedIn[r] < P => dispatchTime[r] <= begun[dispatchedIn[r] + 1]
    BY <1>b
  <2>4. begun'[dispatchedIn[r]] <= dispatchTime[r]
    BY <2>2, <2>3
  <2>5. dispatchTime[r] <= begun'[dispatchedIn[r] + 1]
    <3>1. CASE dispatchedIn[r] = P
      BY <2>2, <2>3, <3>1
    <3>2. CASE dispatchedIn[r] # P
      <4>1. dispatchedIn[r] < P /\ dispatchedIn[r] + 1 \in 1..P
        BY <1>a, <2>3, <3>2
      <4> QED
        BY <2>2, <2>3, <4>1
    <3> QED
      BY <3>1, <3>2
  <2> QED
    BY <1>a, <2>3, <2>4, <2>5
<1>6. CASE Exit \/ Tick \/ Ended \/ UNCHANGED vars
  BY <1>6, <1>a, <1>c DEF Exit, Tick, Ended, vars, requestVars, perfVars
<1> QED
  BY <1>2, <1>3, <1>4, <1>5, <1>6 DEF Next

(* The requests that a period is credited with: a release adds its request  *)
(* to one period and to no other.                                           *)
LEMMA ReleaseCredited ==
  ASSUME TypeOK, NEW r \in Requests, Release(r)
  PROVE  /\ Released' = Released \cup {r} /\ r \notin Released
         /\ \A s \in Released : counted'[s] = counted[s] /\ rate'[s] = rate[s]
         /\ \A p : CountedTo(p)' = IF counted'[r] = p THEN CountedTo(p) \cup {r}
                                    ELSE CountedTo(p)
<1>1. /\ stage \in [Requests -> Stages] /\ counted \in [Requests -> Nat]
      /\ rate \in [Requests -> Nat]
  BY DEF TypeOK
<1>2. /\ stage[r] = "dispatch" /\ stage' = [stage EXCEPT ![r] = "released"]
      /\ \A s \in Requests \ {r} : counted'[s] = counted[s] /\ rate'[s] = rate[s]
  BY <1>1 DEF Release, Goes
<1>3. Released' = Released \cup {r} /\ r \notin Released
  BY <1>1, <1>2 DEF Released
<1>4. \A s \in Released : counted'[s] = counted[s] /\ rate'[s] = rate[s]
  BY <1>2, <1>3 DEF Released
<1>5. ASSUME NEW p
      PROVE  CountedTo(p)' = IF counted'[r] = p THEN CountedTo(p) \cup {r}
                             ELSE CountedTo(p)
  BY <1>3, <1>4 DEF CountedTo
<1> QED
  BY <1>3, <1>4, <1>5

LEMMA ProcessedInitially == Init => ProcessedInv
<1> SUFFICES ASSUME Init PROVE ProcessedInv
  OBVIOUS
<1>1. Released = {} /\ CountedTo(Period) = {} /\ agios_processed_reqnb = 0
  BY DEF Init, PerformanceInit, Released, CountedTo
<1> QED
  BY <1>1, FS_EmptySet DEF ProcessedInv, ProcessedExact

LEMMA ProcessedStep ==
  TypeOK /\ PeriodInv /\ ProcessedInv /\ [Next]_vars => ProcessedInv'
<1> SUFFICES ASSUME TypeOK, PeriodInv, ProcessedInv, [Next]_vars
             PROVE  ProcessedInv'
  OBVIOUS
<1> DEFINE n == Len(performance_info)
<1>a. /\ PerformanceTypeOK /\ n \in Nat \ {0} /\ Period \in Nat
      /\ stage \in [Requests -> Stages] /\ counted \in [Requests -> Nat]
      /\ now \in Nat /\ agios_processed_reqnb \in Nat
      /\ DOMAIN performance_info = 1..n
  BY LenProperties DEF TypeOK, PerformanceTypeOK, Period
<1>b. /\ n <= Period
      /\ \A i \in 1..n : performance_info[i].period = Period - (n - i)
  BY <1>a DEF PeriodInv
<1>c. /\ \A r \in Released : counted[r] <= Period
      /\ IsFiniteSet(CountedTo(Period))
      /\ agios_processed_reqnb = Cardinality(CountedTo(Period))
  BY DEF ProcessedInv, ProcessedExact
<1>d. ASSUME Released' = Released, UNCHANGED <<counted, perfVars>>
      PROVE  ProcessedInv'
  <2>1. Period' = Period /\ CountedTo(Period)' = CountedTo(Period)
    BY <1>d DEF Period, perfVars, CountedTo
  <2>2. agios_processed_reqnb' = agios_processed_reqnb
    BY <1>d DEF perfVars
  <2> QED
    BY <1>c, <1>d, <2>1, <2>2 DEF ProcessedInv, ProcessedExact
<1>1. ASSUME NEW r \in Requests, NEW from, NEW to, Goes(r, from, to),
             from # "released", to # "released", UNCHANGED <<counted, perfVars>>
      PROVE  ProcessedInv'
  <2>1. Released' = Released
    BY <1>1, <1>a DEF Goes, Released
  <2> QED
    BY <1>1, <1>d, <2>1
<1>2. ASSUME NEW r \in Requests,
             Stamp(r) \/ Receive(r) \/ Measure(r) \/ TraceArrival(r) \/ Dispatch(r)
      PROVE  ProcessedInv'
  BY <1>2, <1>1 DEF Stamp, Receive, Measure, TraceArrival, Dispatch
<1>3. ASSUME NEW r \in Requests, Release(r) PROVE ProcessedInv'
  <2> DEFINE i == get_request_entry(dispatchTime[r])
  <2>1. begun' = begun
    BY <1>3, ReleaseAccounted
  <2>2. \/ counted'[r] = 0 /\ agios_processed_reqnb' = agios_processed_reqnb
        \/ /\ i \in 1..n /\ counted'[r] = performance_info[i].period
           /\ agios_processed_reqnb' = IF i = n THEN agios_processed_reqnb + 1
                                       ELSE agios_processed_reqnb
    BY <1>3, ReleaseAccounted
  <2> HIDE DEF i, n
  <2>3. /\ counted'[r] <= Period
        /\ agios_processed_reqnb' =
             IF counted'[r] = Period THEN agios_processed_reqnb + 1
             ELSE agios_processed_reqnb
    <3>1. CASE counted'[r] = 0 /\ agios_processed_reqnb' = agios_processed_reqnb
      BY <1>a, <1>b, <3>1
    <3>2. CASE /\ i \in 1..n /\ counted'[r] = performance_info[i].period
               /\ agios_processed_reqnb' =
                    IF i = n THEN agios_processed_reqnb + 1
                    ELSE agios_processed_reqnb
      <4>1. counted'[r] = Period - (n - i)
        BY <1>b, <3>2
      <4> QED
        BY <1>a, <3>2, <4>1
    <3> QED
      BY <2>2, <3>1, <3>2
  <2>4. Period' = Period
    BY <2>1 DEF Period
  <2>5. PICK P : P = Period
    OBVIOUS
  <2>6. CountedTo(P)' = IF counted'[r] = P THEN CountedTo(P) \cup {r}
                        ELSE CountedTo(P)
    BY <1>3, ReleaseCredited
  <2>7. CountedTo(Period)' = CountedTo(P)'
    BY <2>4, <2>5 DEF CountedTo
  <2>8. r \notin CountedTo(P)
    BY <1>3, ReleaseCredited DEF CountedTo
  <2>9. /\ IsFiniteSet(CountedTo(Period)')
        /\ Cardinality(CountedTo(Period)') =
             IF counted'[r] = P THEN Cardinality(CountedTo(P)) + 1
             ELSE Cardinality(CountedTo(P))
    <3>1. IsFiniteSet(CountedTo(P))
      BY <1>c, <2>5
    <3>2. /\ IsFiniteSet(CountedTo(P) \cup {r})
          /\ Cardinality(CountedTo(P) \cup {r}) = Cardinality(CountedTo(P)) + 1
      BY <2>8, <3>1, FS_AddElement
    <3>3. CASE counted'[r] = P
      BY <2>6, <2>7, <3>2, <3>3
    <3>4. CASE counted'[r] # P
      BY <2>6, <2>7, <3>1, <3>4
    <3> QED
      BY <3>3, <3>4
  <2>10. \A s \in Released' : counted'[s] <= Period
    BY <1>3, <1>c, <2>3, ReleaseCredited
  <2>11. agios_processed_reqnb' = Cardinality(CountedTo(Period)')
    BY <1>c, <2>3, <2>5, <2>9
  <2> QED
    BY <2>4, <2>9, <2>10, <2>11 DEF ProcessedInv, ProcessedExact
<1>4. CASE Change
  <2>1. performance_set_new_algorithm(now) /\ UNCHANGED requestVars
    BY <1>4 DEF Change
  <2>2. Period' = Period + 1 /\ agios_processed_reqnb' = 0
    BY <1>a, <2>1, NewAlgorithm DEF Period
  <2>3. Released' = Released /\ counted' = counted
    BY <2>1 DEF requestVars, Released
  <2>4. \A r \in Released : counted[r] \in Nat /\ counted[r] <= Period
    BY <1>a, <1>c DEF Released
  <2>5. \A r \in Released' : counted'[r] <= Period' /\ counted'[r] # Period'
    BY <1>a, <2>2, <2>3, <2>4
  <2>6. CountedTo(Period)' = {}
    BY <2>5 DEF CountedTo
  <2> QED
    BY <2>2, <2>5, <2>6, FS_EmptySet DEF ProcessedInv, ProcessedExact
<1>5. CASE Exit \/ Tick \/ Ended \/ UNCHANGED vars
  BY <1>5, <1>d DEF Exit, Tick, Ended, vars, requestVars, Released
<1> QED
  BY <1>2, <1>3, <1>4, <1>5 DEF Next

(* What decides whether the scheduler may change again counts the releases  *)
(* of the requests of this period, each once, and no late ones.             *)
THEOREM ProcessedIsExact == Spec => []ProcessedExact
<1>1. Init => TypeOK /\ PeriodInv /\ ProcessedInv
  BY BooksTypedInitially, PeriodInitially, ProcessedInitially
<1>2. TypeOK /\ PeriodInv /\ ProcessedInv /\ [Next]_vars
        => (TypeOK /\ PeriodInv /\ ProcessedInv)'
  BY BooksTypedStep, PeriodStep, ProcessedStep
<1>3. ProcessedInv => ProcessedExact
  BY DEF ProcessedInv
<1> QED
  BY <1>1, <1>2, <1>3, PTL DEF Spec

-----------------------------------------------------------------------------
LEMMA ReleaseAttributed ==
  ASSUME TypeOK, PeriodInv, DispatchInv, NEW r \in Requests, Release(r)
  PROVE  Attributed(r)
<1> DEFINE n == Len(performance_info)
           P == Len(begun)
           i == get_request_entry(dispatchTime[r])
           d == dispatchedIn[r]
           time == dispatchTime[r]
<1>a. /\ n \in Nat \ {0} /\ P \in Nat /\ time \in Nat
      /\ \A j \in 1..P : begun[j] \in Nat
      /\ DOMAIN performance_info = 1..n
  BY ElementOfSeq, LenProperties DEF TypeOK, PerformanceTypeOK
<1>b. /\ n <= P
      /\ \A j \in 1..n :
           /\ performance_info[j].period = P - (n - j)
           /\ performance_info[j].timestamp = begun[performance_info[j].period]
      /\ \A j, k \in 1..P : j <= k => begun[j] <= begun[k]
  BY <1>a DEF PeriodInv, Period
<1>c. /\ d \in 1..P /\ begun[d] <= time
      /\ d < P => time <= begun[d + 1]
  BY DEF DispatchInv, Period, Release, Goes
<1>d. \A j \in 1..n : P - (n - j) \in 1..P
  BY <1>a, <1>b
<1>e. \A j \in 1..n : performance_info[j].timestamp = begun[P - (n - j)]
  BY <1>b
<1>1. \/ /\ i = 0
         /\ \A j \in 1..n : performance_info[j].timestamp > time
         /\ counted'[r] = 0
      \/ /\ i \in 1..n
         /\ performance_info[i].timestamp <= time
         /\ \A j \in (i + 1)..n : performance_info[j].timestamp > time
         /\ counted'[r] = performance_info[i].period
  BY ReleaseAccounted
<1> HIDE DEF n, P, i, d, time
<1>2. CASE /\ i = 0 /\ counted'[r] = 0
           /\ \A j \in 1..n : performance_info[j].timestamp > time
  <2>1. begun[P - (n - 1)] > time
    BY <1>a, <1>e, <1>2
  <2>2. P - (n - 1) \in 1..P
    BY <1>a, <1>d
  <2>3. ~(P - (n - 1) <= d)
    <3>1. ASSUME P - (n - 1) <= d PROVE FALSE
      <4>1. begun[P - (n - 1)] <= begun[d]
        BY <1>b, <1>c, <2>2, <3>1
      <4> QED
        BY <1>a, <1>c, <2>1, <2>2, <4>1
    <3> QED
      BY <3>1
  <2>4. performance_info[1].period = P - (n - 1)
    BY <1>a, <1>b
  <2>5. d < performance_info[1].period
    BY <1>c, <2>2, <2>3, <2>4
  <2> QED
    BY <1>2, <2>5 DEF Attributed, d
<1>3. CASE /\ i \in 1..n
           /\ performance_info[i].timestamp <= time
           /\ \A j \in (i + 1)..n : performance_info[j].timestamp > time
           /\ counted'[r] = performance_info[i].period
  <2> DEFINE c == P - (n - i)
  <2>1. c \in 1..P /\ counted'[r] = c /\ begun[c] <= time
    BY <1>b, <1>d, <1>e, <1>3
  <2>2. CASE c < d
    <3>1. i + 1 \in (i + 1)..n /\ i + 1 \in 1..n /\ P - (n - (i + 1)) = c + 1
      BY <1>a, <1>b, <1>c, <1>3, <2>2
    <3>2. begun[c + 1] > time
      BY <1>e, <1>3, <3>1
    <3>3. c + 1 \in 1..P /\ c + 1 <= d
      BY <1>a, <1>c, <2>1, <2>2
    <3>4. begun[c + 1] <= begun[d]
      BY <1>b, <1>c, <3>3
    <3> QED
      BY <1>a, <1>c, <3>2, <3>3, <3>4
  <2>3. CASE c = d
    BY <2>1, <2>3 DEF Attributed, d
  <2>4. CASE c > d
    <3>1. d < P /\ d + 1 \in 1..P /\ d + 1 <= c
      BY <1>a, <1>c, <2>1, <2>4
    <3>2. time <= begun[d + 1] /\ begun[d + 1] <= begun[c]
      BY <1>b, <1>c, <2>1, <3>1
    <3>3. begun[c] = time
      BY <1>a, <2>1, <3>1, <3>2
    <3> HIDE DEF c
    <3> QED
      BY <2>1, <2>4, <3>3 DEF Attributed, d, time
  <2>5. c < d \/ c = d \/ c > d
    BY <1>c, <2>1
  <2> QED
    BY <2>2, <2>3, <2>4, <2>5
<1> QED
  BY <1>1, <1>2, <1>3

(* A release is accounted to the algorithm that dispatched its request, or  *)
(* to one that began in the very tick of the dispatch, or to none when that *)
(* period is forgotten; never to another.                                   *)
THEOREM ReleasesAttributed == Spec => Attribution
<1> DEFINE Inv == TypeOK /\ PeriodInv /\ DispatchInv
           Step == \A r \in Requests :
                     stage[r] = "dispatch" /\ stage'[r] = "released" => Attributed(r)
<1>1. Init => Inv
  BY BooksTypedInitially, PeriodInitially, DispatchInitially
<1>2. Inv /\ [Next]_vars => Inv'
  BY BooksTypedStep, PeriodStep, DispatchStep
<1>3. Inv /\ [Next]_vars => [Step]_vars
  <2> SUFFICES ASSUME Inv, Next, NEW r \in Requests,
                      stage[r] = "dispatch", stage'[r] = "released"
               PROVE  Attributed(r)
    OBVIOUS
  <2>1. stage \in [Requests -> Stages]
    BY DEF TypeOK
  <2>2. ASSUME NEW s \in Requests,
               Stamp(s) \/ Receive(s) \/ Measure(s) \/ TraceArrival(s) \/ Dispatch(s)
        PROVE  FALSE
    BY <2>1, <2>2 DEF Stamp, Receive, Measure, TraceArrival, Dispatch, Goes
  <2>3. ~(Change \/ Exit \/ Tick \/ Ended)
    BY DEF Change, Exit, Tick, Ended, vars, requestVars
  <2>4. PICK s \in Requests : Release(s)
    BY <2>2, <2>3 DEF Next
  <2>5. s = r
    BY <2>1, <2>4 DEF Release, Goes
  <2> QED
    BY <2>4, <2>5, ReleaseAttributed
<1> QED
  BY <1>1, <1>2, <1>3, PTL DEF Spec, Attribution

-----------------------------------------------------------------------------
LEMMA EntriesInitially == Init => EntriesAveraged
<1> SUFFICES ASSUME Init PROVE EntriesAveraged
  OBVIOUS
<1>1. performance_info = <<Entry(1, 0)>> /\ Entry(1, 0).reqnb = 0
  BY DEF Init, PerformanceInit, Entry
<1>2. Len(performance_info) = 1 /\ performance_info[1] = Entry(1, 0)
  BY <1>1
<1>3. \A p : CountedTo(p) = {}
  BY DEF Init, Released, CountedTo
<1> QED
  BY <1>1, <1>2, <1>3 DEF EntriesAveraged, EntryAveraged

(* The rates of what was released before do not change.                     *)
LEMMA RatesKept ==
  ASSUME NEW R, NEW r, NEW new,
         \A s \in R : rate'[s] = rate[s], rate'[r] = new
  PROVE  /\ Rates(R)' = Rates(R)
         /\ Rates(R \cup {r})' = Rates(R) \cup {new}
BY DEF Rates

LEMMA EntriesStep ==
  TypeOK /\ PeriodInv /\ ProcessedInv /\ EntriesAveraged /\ [Next]_vars
    => EntriesAveraged'
<1> SUFFICES ASSUME TypeOK, PeriodInv, ProcessedInv, EntriesAveraged, [Next]_vars
             PROVE  EntriesAveraged'
  OBVIOUS
<1> DEFINE n == Len(performance_info)
<1>a. /\ PerformanceTypeOK /\ n \in Nat \ {0} /\ Period \in Nat
      /\ stage \in [Requests -> Stages] /\ counted \in [Requests -> Nat]
      /\ rate \in [Requests -> Nat] /\ now \in Nat
      /\ DOMAIN performance_info = 1..n
  BY LenProperties DEF TypeOK, PerformanceTypeOK, Period
<1>b. /\ n <= Period
      /\ \A i \in 1..n : performance_info[i].period = Period - (n - i)
  BY <1>a DEF PeriodInv
<1>c. \A i \in 1..n : EntryAveraged(performance_info[i])
  BY DEF EntriesAveraged
<1>d. ASSUME Released' = Released, UNCHANGED <<counted, rate, performance_info>>
      PROVE  EntriesAveraged'
  <2> SUFFICES ASSUME NEW i \in 1..n PROVE EntryAveraged(performance_info[i])'
    BY <1>d DEF EntriesAveraged
  <2>1. PICK e : e = performance_info[i]
    OBVIOUS
  <2>2. EntryAveraged(e)
    BY <1>c, <2>1
  <2>3. performance_info'[i] = e
    BY <1>d, <2>1
  <2> QED
    BY <1>d, <2>2, <2>3 DEF EntryAveraged, CountedTo, Rates
<1>1. ASSUME NEW r \in Requests, NEW from, NEW to, Goes(r, from, to),
             from # "released", to # "released",
             UNCHANGED <<counted, rate, perfVars>>
      PROVE  EntriesAveraged'
  <2>1. Released' = Released
    BY <1>1, <1>a DEF Goes, Released
  <2> QED
    BY <1>1, <1>d, <2>1 DEF perfVars
<1>2. ASSUME NEW r \in Requests,
             Stamp(r) \/ Receive(r) \/ Measure(r) \/ TraceArrival(r) \/ Dispatch(r)
      PROVE  EntriesAveraged'
  BY <1>2, <1>1 DEF Stamp, Receive, Measure, TraceArrival, Dispatch
<1>3. ASSUME NEW r \in Requests, Release(r) PROVE EntriesAveraged'
  <2> DEFINE i == get_request_entry(dispatchTime[r])
  <2>1. /\ Len(performance_info') = n
        /\ \A j \in 1..n :
             /\ performance_info'[j].period = performance_info[j].period
             /\ j # i => performance_info'[j] = performance_info[j]
    BY <1>3, ReleaseAccounted
  <2>2. \/ i = 0 /\ counted'[r] = 0
        \/ /\ i \in 1..n
           /\ counted'[r] = performance_info[i].period
           /\ performance_info'[i].reqnb = performance_info[i].reqnb + 1
           /\ performance_info'[i].bandwidth =
                update_iterative_average(performance_info[i].bandwidth, rate'[r],
                                         performance_info[i].reqnb + 1)
    BY <1>3, ReleaseAccounted
  <2>3. /\ \A s \in Released : rate'[s] = rate[s]
        /\ \A p : CountedTo(p)' = IF counted'[r] = p THEN CountedTo(p) \cup {r}
                                   ELSE CountedTo(p)
    BY <1>3, ReleaseCredited
  <2>4. rate' \in [Requests -> Nat]
    BY BooksTypedStep DEF TypeOK
  <2>5. \A p : Rates(CountedTo(p)) \subseteq Int
    BY <1>a DEF Rates, CountedTo, Released
  <2> HIDE DEF i, n
  <2> SUFFICES ASSUME NEW j \in 1..n
               PROVE  EntryAveraged(performance_info[j])'
    BY <2>1 DEF EntriesAveraged, n
  <2>6. PICK p : p = performance_info[j].period
    OBVIOUS
  <2>7. CountedTo(performance_info[j].period)' = CountedTo(p)'
    BY <2>1, <2>6 DEF CountedTo
  <2>8. performance_info[j] \in PerformanceEntries
    BY <1>a, ElementOfSeq DEF PerformanceTypeOK, n
  <2>9. /\ performance_info[j].reqnb \in Nat /\ performance_info[j].bandwidth \in Int
    BY <2>8 DEF PerformanceEntries
  <2>10. IF performance_info[j].reqnb = 0 THEN CountedTo(p) = {}
         ELSE Between(performance_info[j].bandwidth, Rates(CountedTo(p)))
    BY <1>c, <2>6 DEF EntryAveraged
  <2>11. CASE j # i
    <3>1. performance_info'[j] = performance_info[j]
      BY <2>1, <2>11
    <3>2. counted'[r] # p
      <4>1. p = Period - (n - j)
        BY <1>b, <2>6
      <4>2. CASE i = 0 /\ counted'[r] = 0
        BY <1>a, <1>b, <4>1, <4>2
      <4>3. CASE i \in 1..n /\ counted'[r] = performance_info[i].period
        <5>1. counted'[r] = Period - (n - i)
          BY <1>b, <4>3
        <5> QED
          BY <1>a, <2>11, <4>1, <4>3, <5>1
      <4> QED
        BY <2>2, <4>2, <4>3
    <3>3. CountedTo(p)' = CountedTo(p)
      BY <2>3, <3>2
    <3>4. Rates(CountedTo(p))' = Rates(CountedTo(p))
      BY <2>3, <3>3 DEF Rates, CountedTo
    <3>5. Rates(CountedTo(performance_info[j].period))' = Rates(CountedTo(p))
      BY <2>7, <3>4 DEF Rates
    <3> QED
      BY <2>7, <2>10, <3>1, <3>3, <3>5 DEF EntryAveraged, Between
  <2>12. CASE j = i
    <3>1. /\ counted'[r] = p
          /\ performance_info'[j].reqnb = performance_info[j].reqnb + 1
          /\ performance_info'[j].bandwidth =
               update_iterative_average(performance_info[j].bandwidth, rate'[r],
                                        performance_info[j].reqnb + 1)
      BY <1>a, <2>2, <2>6, <2>12 DEF n
    <3>2. CountedTo(p)' = CountedTo(p) \cup {r}
      BY <2>3, <3>1
    <3> DEFINE S == Rates(CountedTo(p))
               T == Rates(CountedTo(p))'
    <3>3. T = S \cup {rate'[r]}
      BY <2>3, <3>2 DEF Rates, CountedTo
    <3>4. S \subseteq Int /\ T \subseteq Int /\ S \subseteq T /\ rate'[r] \in T
      BY <2>4, <2>5, <3>3
    <3>5. Rates(CountedTo(performance_info[j].period))' = T
      BY <2>7 DEF Rates
    <3> HIDE DEF S, T
    <3>6. performance_info[j].reqnb + 1 > 1
            => Between(performance_info[j].bandwidth, S)
      BY <2>9, <2>10 DEF S
    <3>7. performance_info[j].reqnb + 1 \in Nat \ {0}
      BY <2>9
    <3>8. Between(performance_info'[j].bandwidth, T)
      <4>1. ASSUME NEW avg \in Int, NEW value \in T, NEW count \in Nat \ {0},
                   count > 1 => Between(avg, S)
            PROVE  Between(update_iterative_average(avg, value, count), T)
        BY <3>4, <4>1, BetweenUpdated
      <4> QED
        BY <2>9, <3>1, <3>4, <3>6, <3>7, <4>1
    <3>9. performance_info'[j].reqnb # 0
      BY <3>1, <3>7
    <3> QED
      BY <3>5, <3>8, <3>9 DEF EntryAveraged, Between
  <2> QED
    BY <2>11, <2>12
<1>4. CASE Change
  <2>1. performance_set_new_algorithm(now) /\ UNCHANGED requestVars
    BY <1>4 DEF Change
  <2>2. PICK k \in 0..1 :
          /\ Len(performance_info') = n + 1 - k
          /\ \A i \in 1..(n - k) : performance_info'[i] = performance_info[i + k]
          /\ performance_info'[Len(performance_info')] = Entry(Period + 1, now)
    BY <1>a, <2>1, NewAlgorithm DEF Period
  <2>3. Released' = Released /\ counted' = counted /\ rate' = rate
    BY <2>1 DEF requestVars, Released
  <2>4. \A p : /\ CountedTo(p)' = CountedTo(p)
               /\ Rates(CountedTo(p))' = Rates(CountedTo(p))
    BY <2>3 DEF CountedTo, Rates
  <2>5. CountedTo(Period + 1) = {}
    <3>1. \A r \in Released : counted[r] <= Period /\ counted[r] \in Nat
      BY <1>a DEF ProcessedInv, Released
    <3>2. \A r \in Released : counted[r] # Period + 1
      BY <1>a, <3>1
    <3> QED
      BY <3>2 DEF CountedTo
  <2>6. Entry(Period + 1, now).reqnb = 0 /\ Entry(Period + 1, now).period = Period + 1
    BY DEF Entry
  <2>7. ASSUME NEW e, EntryAveraged(e), NEW j \in 1..Len(performance_info'),
               performance_info'[j] = e
        PROVE  EntryAveraged(performance_info[j])'
    BY <2>3, <2>7 DEF EntryAveraged, CountedTo, Rates
  <2>8. EntryAveraged(Entry(Period + 1, now))
    BY <2>5, <2>6 DEF EntryAveraged
  <2> HIDE DEF n
  <2> SUFFICES ASSUME NEW j \in 1..(n + 1 - k)
               PROVE  EntryAveraged(performance_info[j])'
    BY <2>2 DEF EntriesAveraged
  <2>9. CASE j = n + 1 - k
    BY <2>2, <2>7, <2>8, <2>9
  <2>10. CASE j # n + 1 - k
    <3>1. j \in 1..(n - k) /\ j + k \in 1..n
      BY <1>a, <2>10
    <3>2. /\ performance_info'[j] = performance_info[j + k]
          /\ EntryAveraged(performance_info[j + k])
      BY <1>c, <2>2, <3>1
    <3> QED
      BY <2>2, <2>7, <3>2
  <2> QED
    BY <2>9, <2>10
<1>5. CASE Exit \/ Tick \/ Ended \/ UNCHANGED vars
  BY <1>5, <1>d DEF Exit, Tick, Ended, vars, requestVars, perfVars, Released
<1> QED
  BY <1>2, <1>3, <1>4, <1>5 DEF Next

LEMMA QueuesInitially == Init => SizesAveraged /\ BandwidthsAveraged
<1> SUFFICES ASSUME Init, NEW q \in Queues
             PROVE  SizeAveraged(q) /\ BandwidthAveraged(q)
  BY DEF SizesAveraged, BandwidthsAveraged
<1>1. stats[q].receivedreq_nb = 0 /\ stats[q].releasedreq_nb = 0
  BY DEF Init, StatisticsInit, NoStats
<1> QED
  BY <1>1 DEF SizeAveraged, BandwidthAveraged

LEMMA LengthsTyped ==
  ASSUME NEW q PROVE Lengths(q) \subseteq Int
BY StatisticsAssumption DEF Lengths, Own

LEMMA SizesStep ==
  TypeOK /\ HolderInv /\ TotalsInv /\ SizesAveraged /\ [Next]_vars
    => SizesAveraged'
<1> SUFFICES ASSUME TypeOK, HolderInv, TotalsInv, SizesAveraged, [Next]_vars
             PROVE  SizesAveraged'
  OBVIOUS
<1> DEFINE Pending(q) == \E r \in Receiving : QueueOf[r] = q
<1>a. /\ StatisticsTypeOK /\ asserted \in BOOLEAN
      /\ stage \in [Requests -> Stages]
      /\ \A r \in Requests : QueueOf[r] \in Queues /\ Length[r] \in Nat
      /\ \A q \in Queues : /\ stats[q].receivedreq_nb \in Nat
                           /\ stats[q].avg_req_size \in Int
  BY StatisticsAssumption DEF TypeOK, StatisticsTypeOK, QueueStatistics
<1>b. \A q \in Queues :
        stats[q].receivedreq_nb > (IF Pending(q) THEN 1 ELSE 0) =>
          Between(stats[q].avg_req_size, Lengths(q))
  BY DEF SizesAveraged, SizeAveraged
<1>c. ASSUME NEW q \in Queues, Pending(q)' = Pending(q),
             stats'[q].receivedreq_nb = stats[q].receivedreq_nb,
             stats'[q].avg_req_size = stats[q].avg_req_size
      PROVE  SizeAveraged(q)'
  <2>1. stats'[q].receivedreq_nb > (IF Pending(q)' THEN 1 ELSE 0) =>
          Between(stats'[q].avg_req_size, Lengths(q))
    BY <1>b, <1>c
  <2> QED
    BY <2>1 DEF SizeAveraged, Lengths, Own, Between
<1>d. ASSUME Receiving' = Receiving,
             \A q \in Queues : /\ stats'[q].receivedreq_nb = stats[q].receivedreq_nb
                              /\ stats'[q].avg_req_size = stats[q].avg_req_size
      PROVE  SizesAveraged'
  BY <1>c, <1>d DEF SizesAveraged
<1>e. ASSUME NEW r \in Requests, NEW from, NEW to, Goes(r, from, to),
             from # "received", to # "received"
      PROVE  Receiving' = Receiving
  BY <1>a, <1>e DEF Goes, Receiving
<1>1. ASSUME NEW r \in Requests, Stamp(r) \/ TraceArrival(r) \/ Dispatch(r)
      PROVE  SizesAveraged'
  BY <1>1, <1>d, <1>e DEF Stamp, TraceArrival, Dispatch, statsVars
<1>2. ASSUME NEW r \in Requests, Receive(r) PROVE SizesAveraged'
  <2> DEFINE q == QueueOf[r]
  <2>1. /\ Goes(r, "stamped", "received") /\ CountReceived(q)
        /\ owner[Lock(r)] = Free
    BY <1>2 DEF Receive
  <2>2. Receiving' = Receiving \cup {r}
    BY <1>a, <2>1 DEF Goes, Receiving
  <2>3. /\ q \in Queues
        /\ stats'[q].receivedreq_nb = stats[q].receivedreq_nb + 1
        /\ stats'[q].avg_req_size = stats[q].avg_req_size
        /\ \A p \in Queues \ {q} : stats'[p] = stats[p]
    BY <1>a, <2>1, Received
  <2>4. ~Pending(q)
    <3>1. ASSUME NEW s \in Receiving, QueueOf[s] = q PROVE FALSE
      <4>1. s \in Requests /\ stage[s] = "received" /\ Lock(s) = Lock(r)
        BY <3>1 DEF Receiving, Lock
      <4>2. owner[Lock(s)] = s
        BY <4>1 DEF HolderInv
      <4> QED
        BY <2>1, <4>1, <4>2, BookkeepingAssumption
    <3> QED
      BY <3>1
  <2>5. Pending(q)'
    BY <2>2
  <2>6. SizeAveraged(q)'
    <3>1. stats[q].receivedreq_nb + 1 > 1 =>
            Between(stats[q].avg_req_size, Lengths(q))
      <4>1. stats[q].receivedreq_nb > 0 => Between(stats[q].avg_req_size, Lengths(q))
        BY <1>b, <2>3, <2>4
      <4>2. stats[q].receivedreq_nb \in Nat
        BY <1>a
      <4> QED
        BY <4>1, <4>2
    <3> QED
      BY <2>3, <2>5, <3>1 DEF SizeAveraged, Lengths, Own, Between
  <2>7. ASSUME NEW p \in Queues \ {q} PROVE SizeAveraged(p)'
    <3>1. Pending(p)' = Pending(p)
      BY <2>2
    <3> QED
      BY <1>c, <2>3, <3>1
  <2> QED
    BY <2>6, <2>7 DEF SizesAveraged
<1>3. ASSUME NEW r \in Requests, Measure(r) PROVE SizesAveraged'
  <2> DEFINE q == QueueOf[r]
  <2>1. Goes(r, "received", "measured") /\ UpdateAverages(r)
    BY <1>3 DEF Measure
  <2>2. r \in Receiving /\ Receiving' = Receiving \ {r}
    BY <1>a, <2>1 DEF Goes, Receiving
  <2>3. stats[q].receivedreq_nb > 0
    BY <2>2 DEF TotalsInv
  <2>4. /\ stats'[q].receivedreq_nb = stats[q].receivedreq_nb
        /\ stats'[q].avg_req_size =
             update_iterative_average(stats[q].avg_req_size, Length[r],
                                      stats[q].receivedreq_nb)
        /\ \A p \in Queues \ {q} : stats'[p] = stats[p]
    BY <1>a, <2>1, <2>3, Measured
  <2>5. Between(stats'[q].avg_req_size, Lengths(q))
    <3>1. stats[q].receivedreq_nb > 1 => Between(stats[q].avg_req_size, Lengths(q))
      BY <1>a, <1>b, <2>2
    <3>2. Length[r] \in Lengths(q) /\ Lengths(q) \subseteq Int
      BY LengthsTyped DEF Lengths, Own
    <3>3. /\ stats[q].receivedreq_nb \in Nat \ {0}
          /\ stats[q].avg_req_size \in Int
      BY <1>a, <2>3
    <3>4. ASSUME NEW avg \in Int, NEW value \in Lengths(q), NEW count \in Nat \ {0},
                 count > 1 => Between(avg, Lengths(q))
          PROVE  Between(update_iterative_average(avg, value, count), Lengths(q))
      BY <3>2, <3>4, BetweenUpdated
    <3> QED
      BY <2>4, <3>1, <3>2, <3>3, <3>4
  <2>6. SizeAveraged(q)'
    BY <2>5 DEF SizeAveraged, Lengths, Own, Between
  <2>7. ASSUME NEW p \in Queues \ {q} PROVE SizeAveraged(p)'
    <3>1. Pending(p)' = Pending(p)
      BY <2>2
    <3> QED
      BY <1>c, <2>4, <3>1
  <2> QED
    BY <2>6, <2>7 DEF SizesAveraged
<1>4. ASSUME NEW r \in Requests, Release(r) PROVE SizesAveraged'
  <2> DEFINE bandwidth == Length[r] \div (now - arrival[r])
  <2>1. /\ Goes(r, "dispatch", "released") /\ now > arrival[r]
        /\ CountReleased(QueueOf[r], bandwidth)
    BY <1>4 DEF Release
  <2>2. bandwidth \in Nat
    BY <2>1, Bandwidth
  <2> HIDE DEF bandwidth
  <2>3. \A q \in Queues : /\ stats'[q].receivedreq_nb = stats[q].receivedreq_nb
                          /\ stats'[q].avg_req_size = stats[q].avg_req_size
    BY <1>a, <2>1, <2>2, ReleaseCounted
  <2> QED
    BY <1>d, <1>e, <2>1, <2>3
<1>5. CASE Change
  <2>1. \A q \in Queues : stats'[q].receivedreq_nb = 0
    BY <1>5, <1>a, StatisticsReset DEF Change
  <2>2. \A q \in Queues : SizeAveraged(q)'
    BY <2>1 DEF SizeAveraged
  <2> QED
    BY <2>2 DEF SizesAveraged
<1>6. CASE UNCHANGED <<stage, statsVars>>
  BY <1>6, <1>d DEF statsVars, Receiving
<1>7. CASE Exit \/ Tick \/ Ended \/ UNCHANGED vars
  BY <1>6, <1>7 DEF Exit, Tick, Ended, vars, requestVars
<1> QED
  BY <1>1, <1>2, <1>3, <1>4, <1>5, <1>7 DEF Next

LEMMA BandwidthsStep ==
  TypeOK /\ BandwidthsAveraged /\ TotalsInv /\ [Next]_vars => BandwidthsAveraged'
<1> SUFFICES ASSUME TypeOK, BandwidthsAveraged, TotalsInv, [Next]_vars
             PROVE  BandwidthsAveraged'
  OBVIOUS
<1> DEFINE Back(q) == Own(q) \cap Released
<1>a. /\ StatisticsTypeOK /\ asserted \in BOOLEAN
      /\ stage \in [Requests -> Stages] /\ rate \in [Requests -> Nat]
      /\ \A r \in Requests : QueueOf[r] \in Queues
      /\ \A q \in Queues : /\ stats[q].releasedreq_nb \in Nat
                           /\ stats[q].processed_bandwidth \in Int
  BY StatisticsAssumption DEF TypeOK, StatisticsTypeOK, QueueStatistics
<1>b. \A q \in Queues : stats[q].releasedreq_nb > 0 =>
        Between(stats[q].processed_bandwidth, Rates(Back(q)))
  BY DEF BandwidthsAveraged, BandwidthAveraged
<1>c. ASSUME NEW q \in Queues, Rates(Back(q))' = Rates(Back(q)),
             stats'[q].releasedreq_nb = stats[q].releasedreq_nb,
             stats'[q].processed_bandwidth = stats[q].processed_bandwidth
      PROVE  BandwidthAveraged(q)'
  BY <1>b, <1>c DEF BandwidthAveraged, Between
<1>d. ASSUME Released' = Released, rate' = rate,
             \A q \in Queues :
               /\ stats'[q].releasedreq_nb = stats[q].releasedreq_nb
               /\ stats'[q].processed_bandwidth = stats[q].processed_bandwidth
      PROVE  BandwidthsAveraged'
  <2>1. \A q \in Queues : Rates(Back(q))' = Rates(Back(q))
    BY <1>d DEF Rates, Own
  <2> QED
    BY <1>c, <1>d, <2>1 DEF BandwidthsAveraged
<1>e. ASSUME NEW r \in Requests, NEW from, NEW to, Goes(r, from, to),
             from # "released", to # "released"
      PROVE  Released' = Released
  BY <1>a, <1>e DEF Goes, Released
<1>1. ASSUME NEW r \in Requests, Stamp(r) \/ TraceArrival(r) \/ Dispatch(r)
      PROVE  BandwidthsAveraged'
  BY <1>1, <1>d, <1>e DEF Stamp, TraceArrival, Dispatch, statsVars
<1>2. ASSUME NEW r \in Requests, Receive(r) PROVE BandwidthsAveraged'
  <2>1. \A q \in Queues :
          /\ stats'[q].releasedreq_nb = stats[q].releasedreq_nb
          /\ stats'[q].processed_bandwidth = stats[q].processed_bandwidth
    BY <1>2, <1>a, Received DEF Receive
  <2> QED
    BY <1>2, <1>d, <1>e, <2>1 DEF Receive
<1>3. ASSUME NEW r \in Requests, Measure(r) PROVE BandwidthsAveraged'
  <2>1. stats[QueueOf[r]].receivedreq_nb > 0
    BY <1>3 DEF Measure, Goes, TotalsInv, Receiving
  <2>2. \A q \in Queues :
          /\ stats'[q].releasedreq_nb = stats[q].releasedreq_nb
          /\ stats'[q].processed_bandwidth = stats[q].processed_bandwidth
    BY <1>3, <1>a, <2>1, Measured DEF Measure
  <2> QED
    BY <1>3, <1>d, <1>e, <2>2 DEF Measure
<1>4. ASSUME NEW r \in Requests, Release(r) PROVE BandwidthsAveraged'
  <2> DEFINE bandwidth == Length[r] \div (now - arrival[r])
             q == QueueOf[r]
  <2>1. /\ now > arrival[r] /\ CountReleased(q, bandwidth)
        /\ rate' = [rate EXCEPT ![r] = bandwidth]
    BY <1>4 DEF Release
  <2>2. bandwidth \in Nat /\ rate'[r] = bandwidth
    BY <1>a, <2>1, Bandwidth
  <2> HIDE DEF bandwidth
  <2>3. /\ stats'[q].releasedreq_nb = stats[q].releasedreq_nb + 1
        /\ stats'[q].processed_bandwidth =
             update_iterative_average(stats[q].processed_bandwidth, bandwidth,
                                      stats[q].releasedreq_nb + 1)
        /\ \A p \in Queues \ {q} : stats'[p] = stats[p]
    BY <1>a, <2>1, <2>2, ReleaseCounted
  <2>4. /\ Released' = Released \cup {r}
        /\ \A s \in Released : rate'[s] = rate[s]
    BY <1>4, ReleaseCredited
  <2>5. BandwidthAveraged(q)'
    <3> DEFINE S == Rates(Back(q))
               T == Rates(Back(q))'
    <3>1. T = S \cup {bandwidth}
      <4>1. Back(q)' = Back(q) \cup {r}
        BY <2>4 DEF Own
      <4> QED
        BY <2>2, <2>4, <4>1 DEF Rates
    <3>2. S \subseteq Int
      BY <1>a DEF Rates, Own
    <3>3. T \subseteq Int /\ S \subseteq T /\ bandwidth \in T
      BY <2>2, <3>1, <3>2
    <3>4. stats[q].releasedreq_nb + 1 > 1 => Between(stats[q].processed_bandwidth, S)
      BY <1>a, <1>b
    <3>5. /\ stats[q].releasedreq_nb + 1 \in Nat \ {0}
          /\ stats[q].processed_bandwidth \in Int
      BY <1>a
    <3> HIDE DEF S, T
    <3>6. ASSUME NEW avg \in Int, NEW value \in T, NEW count \in Nat \ {0},
                 count > 1 => Between(avg, S)
          PROVE  Between(update_iterative_average(avg, value, count), T)
      BY <3>2, <3>3, <3>6, BetweenUpdated
    <3>7. Between(stats'[q].processed_bandwidth, T)
      BY <2>3, <3>3, <3>4, <3>5, <3>6
    <3> QED
      BY <3>7 DEF BandwidthAveraged, Between, T
  <2>6. ASSUME NEW p \in Queues \ {q} PROVE BandwidthAveraged(p)'
    <3>1. Back(p)' = Back(p)
      BY <2>4, <2>6 DEF Own
    <3>2. Rates(Back(p))' = Rates(Back(p))
      BY <2>4, <3>1 DEF Rates
    <3> HIDE DEF q, Back
    <3> QED
      BY <1>c, <2>3, <3>2
  <2> QED
    BY <2>5, <2>6 DEF BandwidthsAveraged
<1>5. CASE Change
  <2>1. \A q \in Queues : stats'[q].releasedreq_nb = 0
    BY <1>5, <1>a, StatisticsReset DEF Change
  <2>2. \A q \in Queues : BandwidthAveraged(q)'
    BY <2>1 DEF BandwidthAveraged
  <2> QED
    BY <2>2 DEF BandwidthsAveraged
<1>6. CASE UNCHANGED <<requestVars, statsVars>>
  BY <1>6, <1>d DEF requestVars, statsVars, Released
<1>7. CASE Exit \/ Tick \/ Ended \/ UNCHANGED vars
  BY <1>6, <1>7 DEF Exit, Tick, Ended, vars
<1> QED
  BY <1>1, <1>2, <1>3, <1>4, <1>5, <1>7 DEF Next

LEMMA AveragesAreSound ==
  TypeOK /\ HolderInv /\ AveragesInv => AveragesPlausible
<1> SUFFICES ASSUME TypeOK, HolderInv, AveragesInv PROVE AveragesPlausible
  OBVIOUS
<1>1. ASSUME NEW i \in DOMAIN performance_info
      PROVE  EntryPlausible(performance_info[i])
  <2>1. i \in 1..Len(performance_info)
    BY LenProperties DEF TypeOK, PerformanceTypeOK
  <2>2. EntryAveraged(performance_info[i])
    BY <2>1 DEF AveragesInv, EntriesAveraged
  <2> QED
    BY <2>2 DEF EntryAveraged, EntryPlausible
<1>2. ASSUME NEW q \in Queues PROVE QueuePlausible(q)
  <2>1. SizeAveraged(q) /\ BandwidthAveraged(q)
    BY DEF AveragesInv, SizesAveraged, BandwidthsAveraged
  <2>2. ASSUME stats[q].receivedreq_nb > 0, owner[LockOf[q]] = Free
        PROVE  Between(stats[q].avg_req_size, Lengths(q))
    <3>1. ~(\E r \in Receiving : QueueOf[r] = q)
      BY <2>2, BookkeepingAssumption DEF HolderInv, Receiving, Lock
    <3> QED
      BY <2>1, <2>2, <3>1 DEF SizeAveraged
  <2> QED
    BY <2>1, <2>2 DEF BandwidthAveraged, QueuePlausible
<1> QED
  BY <1>1, <1>2 DEF AveragesPlausible

(* The averages stay between what was averaged: those of an entry between   *)
(* the bandwidths of its requests, though they come back long after its     *)
(* period; those of a queue, though they start again at every change while  *)
(* requests from before are still out.                                      *)
THEOREM AveragesArePlausible == Spec => []AveragesPlausible
<1> DEFINE Inv == /\ TypeOK /\ HolderInv /\ TotalsInv
                  /\ PeriodInv /\ ProcessedInv /\ AveragesInv
<1>1. Init => Inv
  BY BooksTypedInitially, HolderInitially, TotalsInitially, PeriodInitially,
     ProcessedInitially, EntriesInitially, QueuesInitially DEF AveragesInv
<1>2. Inv /\ [Next]_vars => Inv'
  BY BooksTypedStep, HolderStep, TotalsStep, PeriodStep, ProcessedStep,
     EntriesStep, SizesStep, BandwidthsStep DEF AveragesInv
<1>3. Inv => AveragesPlausible
  BY AveragesAreSound
<1> QED
  BY <1>1, <1>2, <1>3, PTL DEF Spec
=============================================================================
