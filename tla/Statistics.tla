----------------------------- MODULE Statistics -----------------------------
(***************************************************************************)
(* statistics.c: what is counted and averaged for each queue and for all   *)
(* of them, since the scheduler last changed.  The statistics of a queue   *)
(* are guarded by the lock of its structure, the global ones by a mutex.   *)
(***************************************************************************)
EXTENDS Averages, FiniteSets

CONSTANTS
  Requests, Queues,
  QueueOf,     \* [Requests -> Queues]
  Length       \* [Requests -> Nat]

ASSUME StatisticsAssumption ==
  QueueOf \in [Requests -> Queues] /\ Length \in [Requests -> Nat]

VARIABLES
  stats,       \* queue_t.stats
  global,      \* global_stats
  asserted     \* assert(count > 0) of update_iterative_average failed

statsVars == <<stats, global, asserted>>

QueueStatistics == [receivedreq_nb : Nat, avg_req_size : Int,
                    releasedreq_nb : Nat, processed_bandwidth : Int]
StatisticsTypeOK ==
  /\ stats \in [Queues -> QueueStatistics]
  /\ global \in [total_reqnb : Nat, avg_request_size : Int]
  /\ asserted \in BOOLEAN

NoStats == [receivedreq_nb |-> 0, avg_req_size |-> -1,
            releasedreq_nb |-> 0, processed_bandwidth |-> -1]
NoGlobal == [total_reqnb |-> 0, avg_request_size |-> -1]

(* init_queue_statistics and reset_global_stats.                            *)
StatisticsInit ==
  stats = [q \in Queues |-> NoStats] /\ global = NoGlobal /\ asserted = FALSE

(* statistics_newreq: first the counter of the queue, ...                   *)
CountReceived(q) ==
  /\ stats' = [stats EXCEPT ![q].receivedreq_nb = @ + 1]
  /\ UNCHANGED <<global, asserted>>

(* ... then the global statistics, then the averages of the queue.          *)
UpdateAverages(r) ==
  LET q == QueueOf[r]
      n == stats[q].receivedreq_nb
      total == global.total_reqnb + 1
  IN IF n = 0 THEN asserted' = TRUE /\ UNCHANGED <<stats, global>>
     ELSE /\ global' =
               [total_reqnb |-> total,
                avg_request_size |-> update_iterative_average(
                                       global.avg_request_size, Length[r], total)]
          /\ stats' = [stats EXCEPT ![q].avg_req_size =
                         update_iterative_average(@, Length[r], n)]
          /\ UNCHANGED asserted

(* agios_release_request counts the release and averages its bandwidth.     *)
CountReleased(q, bandwidth) ==
  LET n == stats[q].releasedreq_nb + 1
  IN /\ stats' = [stats EXCEPT
                    ![q].releasedreq_nb = n,
                    ![q].processed_bandwidth =
                       update_iterative_average(@, bandwidth, n)]
     /\ UNCHANGED <<global, asserted>>

(* Mutant: how many were released is not set back.                          *)
ResetKeepsReleased ==
  /\ stats' = [q \in Queues |->
                 [NoStats EXCEPT !.releasedreq_nb = stats[q].releasedreq_nb]]
  /\ global' = NoGlobal
  /\ UNCHANGED asserted

reset_all_statistics ==
  /\ stats' = [q \in Queues |-> NoStats] /\ global' = NoGlobal
  /\ UNCHANGED asserted
=============================================================================
