----------------------------- MODULE Performance -----------------------------
(***************************************************************************)
(* performance.c: one entry for each of the latest periods in which a      *)
(* scheduling algorithm was in use.  A release is accounted to the entry   *)
(* of the time at which its request was dispatched.  performance_mutex     *)
(* makes each operation one step.                                          *)
(***************************************************************************)
EXTENDS Averages, SequencesExt

CONSTANT PerformanceValues   \* config_agios_performance_values

(* With 0 the list would lose the entry in use.                             *)
ASSUME PerformanceAssumption == PerformanceValues \in Nat \ {0}

VARIABLES
  performance_info,     \* the entries, the last is current_performance_entry
  agios_processed_reqnb,
  begun                 \* history: when each period began

perfVars == <<performance_info, agios_processed_reqnb, begun>>

PerformanceEntries ==
  [period : Nat, timestamp : Nat, reqnb : Nat, size : Nat, bandwidth : Int]
PerformanceTypeOK ==
  /\ performance_info \in Seq(PerformanceEntries)
  /\ Len(performance_info) \in 1..PerformanceValues
  /\ agios_processed_reqnb \in Nat /\ begun \in Seq(Nat)

(* An entry; its period, which has no field in the code, numbers it.        *)
Entry(p, time) ==
  [period |-> p, timestamp |-> time, reqnb |-> 0, size |-> 0, bandwidth |-> 0]
Period == Len(begun)

(* The thread sets the first algorithm before any request can be added.     *)
PerformanceInit ==
  /\ performance_info = <<Entry(1, 0)>> /\ agios_processed_reqnb = 0
  /\ begun = <<0>>

(* Mutants: the counter goes on; no entry ever goes.                        *)
NewAlgorithmKeepsCount(now) ==
  LET longer == Append(performance_info, Entry(Period + 1, now))
      excess == Len(longer) - PerformanceValues
  IN /\ performance_info' =
          IF excess > 0 THEN SubSeq(longer, excess + 1, Len(longer)) ELSE longer
     /\ begun' = Append(begun, now)
     /\ UNCHANGED agios_processed_reqnb
NewAlgorithmNoEviction(now) ==
  /\ performance_info' = Append(performance_info, Entry(Period + 1, now))
  /\ begun' = Append(begun, now)
  /\ agios_processed_reqnb' = 0

(* The new entry is last; the first ones go while there are too many.       *)
performance_set_new_algorithm(now) ==
  LET longer == Append(performance_info, Entry(Period + 1, now))
      excess == Len(longer) - PerformanceValues
  IN /\ performance_info' =
          IF excess > 0 THEN SubSeq(longer, excess + 1, Len(longer)) ELSE longer
     /\ begun' = Append(begun, now)
     /\ agios_processed_reqnb' = 0

(* Mutant: off by one tick.                                                 *)
get_request_entry_before(time) ==
  SelectLastInSeq(performance_info, LAMBDA e : e.timestamp < time)

(* From the latest entry back to the first that began no later than the     *)
(* request was dispatched; 0 if there is none any more.                     *)
get_request_entry(time) ==
  SelectLastInSeq(performance_info, LAMBDA e : e.timestamp <= time)

(* agios_release_request: only what the current algorithm dispatched counts *)
(* for the next change.                                                     *)
Account(i, len, bandwidth) ==
  IF i = 0 THEN UNCHANGED perfVars
  ELSE /\ performance_info' =
            [performance_info EXCEPT
               ![i].reqnb = @ + 1, ![i].size = @ + len,
               ![i].bandwidth = update_iterative_average(
                                  @, bandwidth, performance_info[i].reqnb + 1)]
       /\ agios_processed_reqnb' =
            IF i = Len(performance_info) THEN agios_processed_reqnb + 1
            ELSE agios_processed_reqnb
       /\ UNCHANGED begun
=============================================================================
