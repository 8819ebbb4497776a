------------------------------ MODULE Lifecycle ------------------------------
(***************************************************************************)
(* agios_init and agios_exit, life after life of the library in one        *)
(* process: what each step of an init allocates, what a failed init or an  *)
(* exit cleans up, and which global variables keep their values.  Within a *)
(* life the client adds and releases requests, and the thread makes its    *)
(* passes.                                                                 *)
(***************************************************************************)
EXTENDS Naturals

CONSTANTS
  Failures,    \* of "config", "memory", "trace", "thread": what init may meet
  PerformanceValues,  \* config_agios_performance_values
  MaxLives     \* bound of the number of calls of agios_init

VARIABLES
  lives,     \* calls of agios_init so far
  pc,        \* the client's place: "down", a step of agios_init, "up",
             \* "join" in agios_exit, or "cleanup"
  tracing,   \* config_trace_agios
  pointer,   \* where each global pointer points: "null", "live", "freed", or
             \* "failed": null with the size of what could not be allocated
  locked,    \* does the timeline's lock belong to someone?
  info_len,  \* performance_info_len
  stop,      \* g_agios_thread_stop
  thread,    \* the agios thread: "none", "starting", "running", "ended"
  request,   \* the one request of the model: "none", "queued", "given" back
  fault      \* what made the process fail, or "none"

vars == <<lives, pc, tracing, pointer, locked, info_len, stop, thread, request,
          fault>>

Pointers == {"prefix", "hashlist", "multi_timeline", "tracefile",
             "tracefile_buffer", "performance_entry"}
(* A pointer that was freed and not set to NULL dangles.                    *)
Dangling(ps) == \E p \in ps : pointer[p] = "freed"
Allocated(ps) == [p \in Pointers |-> IF p \in ps THEN "live" ELSE pointer[p]]
Freed(ps) ==
  [p \in Pointers |-> IF p \in ps /\ pointer[p] = "live" THEN "freed" ELSE pointer[p]]

Init ==
  /\ lives = 0 /\ pc = "down" /\ tracing = FALSE
  /\ pointer = [p \in Pointers |-> "null"]
  /\ locked = FALSE /\ info_len = 0
  /\ stop = FALSE /\ thread = "none" /\ request = "none" /\ fault = "none"

-----------------------------------------------------------------------------
Goto(from, to) == fault = "none" /\ pc = from /\ pc' = to

(* read_configuration_file: a file that cannot be read changes nothing; one *)
(* that names an unknown algorithm fails after the options before it.       *)
ReadConfig ==
  /\ lives < MaxLives /\ lives' = lives + 1
  /\ \/ Goto("down", "allocate") /\ UNCHANGED <<tracing, pointer>>
     \/ /\ \/ Goto("down", "allocate")
           \/ "config" \in Failures /\ Goto("down", "cleanup")
        /\ tracing' \in BOOLEAN
        /\ pointer' = Allocated({"prefix"})
  /\ UNCHANGED <<locked, info_len, stop, thread, request, fault>>

(* allocate_data_structures, with or without the timelines of TWINS; the    *)
(* locks stay taken for the agios thread.  The timeline's lock is static: if *)
(* it is still taken, init waits for ever.  Memory may be exhausted in      *)
(* timeline_init, which keeps multi_timeline_size, or after it in           *)
(* hashtable_init, which frees what it has.                                 *)
Allocate ==
  /\ \/ /\ Goto("allocate", "trace") /\ ~locked /\ locked' = TRUE
        /\ pointer' \in {Allocated({"hashlist"}),
                         Allocated({"hashlist", "multi_timeline"})}
     \/ /\ "memory" \in Failures /\ Goto("allocate", "cleanup")
        /\ \/ pointer' = [pointer EXCEPT !["multi_timeline"] = "failed"]
           \/ \E what \in {"null", "freed"}, timelines \in {{}, {"multi_timeline"}} :
                pointer' = [Allocated(timelines) EXCEPT !["hashlist"] = what]
        /\ UNCHANGED locked
  /\ UNCHANGED <<lives, tracing, info_len, stop, thread, request, fault>>

(* init_trace_module keeps a buffer that is there already.                  *)
OpenTrace ==
  /\ tracing
  /\ \/ /\ Goto("trace", "create")
        /\ pointer' = IF pointer["tracefile_buffer"] = "null"
                      THEN Allocated({"tracefile", "tracefile_buffer"})
                      ELSE Allocated({"tracefile"})
     \/ /\ "trace" \in Failures /\ Goto("trace", "cleanup")
        /\ pointer' = [pointer EXCEPT !["tracefile"] = "null"]
  /\ UNCHANGED <<lives, tracing, locked, info_len, stop, thread, request,
                 fault>>

NoTrace ==
  /\ ~tracing /\ Goto("trace", "create")
  /\ UNCHANGED <<lives, tracing, pointer, locked, info_len, stop,
                 thread, request, fault>>

CreateThread ==
  /\ \/ Goto("create", "up") /\ thread' = "starting"
     \/ "thread" \in Failures /\ Goto("create", "cleanup") /\ UNCHANGED thread
  /\ UNCHANGED <<lives, tracing, pointer, locked, info_len, stop,
                 request, fault>>

-----------------------------------------------------------------------------
(* The thread chooses the scheduler, adds its entry to performance_info and *)
(* unlocks.  The list is empty, but its length is what it was in the life   *)
(* before: at the limit the first entry is freed, which is the new one.     *)
Start ==
  /\ fault = "none" /\ thread = "starting" /\ thread' = "running"
  /\ pointer' = [pointer EXCEPT !["performance_entry"] =
                   IF info_len < PerformanceValues THEN "live" ELSE "freed"]
  /\ info_len' = IF info_len < PerformanceValues THEN info_len + 1 ELSE info_len
  /\ locked' = FALSE
  /\ UNCHANGED <<lives, pc, tracing, stop, request, fault>>

(* One pass of the loop: what is queued is given back; then the stop flag.  *)
Pass ==
  /\ fault = "none" /\ thread = "running"
  /\ request' = IF request = "queued" THEN "given" ELSE request
  /\ thread' = IF stop THEN "ended" ELSE "running"
  /\ UNCHANGED <<lives, pc, tracing, pointer, locked, info_len, stop,
                 fault>>

(* The client may call as soon as a scheduler is chosen.                    *)
Add ==
  /\ Goto("up", "up") /\ ~locked /\ request = "none" /\ request' = "queued"
  /\ fault' = IF tracing /\ Dangling({"tracefile_buffer"}) THEN "use_after_free"
              ELSE fault
  /\ UNCHANGED <<lives, tracing, pointer, locked, info_len, stop, thread>>

Release ==
  /\ Goto("up", "up") /\ request = "given" /\ request' = "none"
  /\ fault' = IF Dangling({"performance_entry"}) THEN "use_after_free" ELSE fault
  /\ UNCHANGED <<lives, tracing, pointer, locked, info_len, stop, thread>>

-----------------------------------------------------------------------------
(* agios_exit: stop_the_agios_thread, then pthread_join.                    *)
Exit ==
  /\ Goto("up", "join") /\ stop' = TRUE
  /\ UNCHANGED <<lives, tracing, pointer, locked, info_len, thread,
                 request, fault>>

Join ==
  /\ Goto("join", "cleanup") /\ thread = "ended" /\ thread' = "none"
  /\ UNCHANGED <<lives, tracing, pointer, locked, info_len, stop,
                 request, fault>>

(* cleanup_agios, called by exit and by an init that failed: every pointer  *)
(* that is not NULL is freed, none is set to NULL, and no lock is touched.  *)
Cleanup ==
  /\ Goto("cleanup", "down")
  /\ LET always == {"prefix", "hashlist", "multi_timeline"}
         buffers == {"tracefile", "tracefile_buffer"}
     IN /\ fault' = CASE pointer["multi_timeline"] = "failed" -> "null_timelines"
                      [] Dangling(always) -> "double_free"
                      [] tracing /\ Dangling(buffers) -> "double_free"
                      [] tracing /\ (\E p \in buffers : pointer[p] = "null") ->
                           "null_trace_file"
                      [] OTHER -> fault
        /\ pointer' = Freed(always \cup {"performance_entry"} \cup
                            IF tracing THEN buffers ELSE {})
  /\ request' = "none"
  /\ UNCHANGED <<lives, tracing, locked, info_len, stop, thread>>

Next ==
  \/ ReadConfig \/ Allocate \/ OpenTrace \/ NoTrace \/ CreateThread
  \/ Start \/ Pass \/ Add \/ Release \/ Exit \/ Join \/ Cleanup

Spec == Init /\ [][Next]_vars

-----------------------------------------------------------------------------
(* Property (agios_exit: "AGIOS can be used again by calling agios_init").  *)
(* In every life the thread works until the exit of that life, and no call  *)
(* meets memory of a life before.                                           *)
ReusableAfterExit == fault = "none" /\ (pc = "up" => thread # "ended")
=============================================================================
