----------------------------- MODULE AgiosState -----------------------------
(***************************************************************************)
(* The state AGIOS keeps for queued requests, and the helpers every part   *)
(* of the library uses on it: the locks of the two request structures, the *)
(* counters, and the two steps by which a request leaves a structure.      *)
(*                                                                         *)
(* A request is a member of Requests.  Its data is what the properties     *)
(* tell apart: the queue it belongs to (a file and READ or WRITE), its     *)
(* extent (offset and length, the key of cancel and release), and whether  *)
(* its length is zero.  Lengths are counted in units of one, so the        *)
(* current_size of a queue is the number of its requests with data.  The   *)
(* order of requests inside a structure, and which of them are contiguous, *)
(* are abstracted: a scheduler takes any request, or any group an          *)
(* aggregation could hold, of the right queue.                             *)
(***************************************************************************)
EXTENDS Integers, FiniteSets

CONSTANTS
  Requests,      \* the requests the client ever adds
  Queues,        \* the read and write queues of the files (struct queue_t)
  Files,         \* the files (struct file_t)
  QueueOf,       \* [Requests -> Queues]
  FileOf,        \* [Queues -> Files]
  NLines,        \* AGIOS_HASH_ENTRIES, 64 in the code
  LineOf,        \* [Files -> 1..NLines], get_hashtable_position
  Extents,       \* the (offset, length) pairs the client uses
  ExtentOf,      \* [Requests -> Extents]
  ZeroLength,    \* the requests of length zero
  MaxAggreg,     \* MAX_AGGREG_SIZE, 16 in the code
  StartAlgs,     \* what the configuration file may name as the algorithm
  Selectable,    \* what a dynamic scheduler selects among; {}: static
  Cancelable,    \* the requests the client may cancel
  EarlyClients,  \* may the client call before a scheduler is chosen?
  ListCallback,  \* did agios_init get a process_requests callback?
  Thread, Free, NoQueue

VARIABLES
  alg,           \* current_alg, and current_scheduler with it
  owner,         \* who holds each lock
  place,         \* where each request is
  reqnb,         \* current_reqnb
  filenb,        \* current_filenb
  lineReqs,      \* hashlist_reqcounter
  fileReqs,      \* timeline_reqnb of each file
  handed,        \* how often the callback was called for each request
  asleep,        \* does the thread wait on g_request_added_cond?
  stop,          \* g_agios_thread_stop
  fault          \* what made the process abort, or "none"

counters == <<reqnb, filenb, lineReqs, fileReqs>>
stateVars == <<alg, owner, place, counters, handed, asleep, stop, fault>>

-----------------------------------------------------------------------------
Algorithms == {"TO", "TOAGG", "SJF", "NOOP"}
NoAlg == "unset"
NeedsHashtable(a) == a = "SJF"
MaxAggregSize(a) == IF a \in {"TOAGG", "SJF"} THEN MaxAggreg ELSE 1

Lines == 1..NLines
Timeline == 0
Locks == 0..NLines
Line(r) == LineOf[FileOf[QueueOf[r]]]

(* Every call runs in a client thread of its own. *)
Calls == {"add", "cancel", "release"} \X Requests
Owners == Calls \cup {Thread, Free}

(* "held" is a request in no list yet, on its way through NOOP. *)
Places == {"new", "held", "timeline", "hashtable", "dispatch", "cancelled",
           "released"}
Queued(r) == place[r] \in {"timeline", "hashtable"}

ASSUME StateAssumption ==
  /\ IsFiniteSet(Requests) /\ IsFiniteSet(Files)
  /\ NLines \in Nat \ {0} /\ MaxAggreg \in Nat \ {0}
  /\ QueueOf \in [Requests -> Queues] /\ FileOf \in [Queues -> Files]
  /\ LineOf \in [Files -> Lines] /\ ExtentOf \in [Requests -> Extents]
  /\ ZeroLength \subseteq Requests /\ Cancelable \subseteq Requests
  /\ EarlyClients \in BOOLEAN /\ ListCallback \in BOOLEAN

ASSUME AlgAssumption ==
  /\ StartAlgs \subseteq Algorithms /\ StartAlgs # {}
  \* TO-agg is used only statically: migrating virtual requests is not modelled
  /\ Selectable \subseteq Algorithms \ {"TOAGG"}
  /\ "TOAGG" \in StartAlgs => Selectable = {}

ASSUME NamesAssumption ==
  /\ Thread \notin Calls /\ Free \notin Calls /\ Thread # Free
  /\ NoQueue \notin Queues

-----------------------------------------------------------------------------
(* agios_init: allocate_data_structures leaves every lock held, for the    *)
(* thread it then creates, and no scheduler is chosen yet.                 *)
InitState ==
  /\ alg = NoAlg
  /\ owner = [l \in Locks |-> Thread]
  /\ place = [r \in Requests |-> "new"]
  /\ reqnb = 0 /\ filenb = 0
  /\ lineReqs = [l \in Lines |-> 0]
  /\ fileReqs = [f \in Files |-> 0]
  /\ handed = [r \in Requests |-> 0]
  /\ asleep = FALSE /\ stop = FALSE
  /\ fault = "none"

Acquire(p, l) == owner[l] = Free /\ owner' = [owner EXCEPT ![l] = p]
Release(l) == owner' = [owner EXCEPT ![l] = Free]

(* The lock under which the structures of request r may be touched. *)
LockFor(r, hashtable) == IF hashtable THEN Line(r) ELSE Timeline
AdequateLock(r) == LockFor(r, NeedsHashtable(alg))

(* Mutant: the file counter is never raised. *)
CountFileForgets(f) ==
  filenb' = filenb /\ fileReqs' = [fileReqs EXCEPT ![f] = @ + 1]

(* find_req_file with the file counters that agios_add_request updates. *)
CountFile(f) ==
  /\ filenb' = IF fileReqs[f] = 0 THEN filenb + 1 ELSE filenb
  /\ fileReqs' = [fileReqs EXCEPT ![f] = @ + 1]

(* Mutants: the file is uncounted one request too early, or never. *)
UncountEarly(f, l, n) ==
  /\ fileReqs' = [fileReqs EXCEPT ![f] = @ - n]
  /\ filenb' = IF fileReqs[f] = n + 1 THEN filenb - 1 ELSE filenb
  /\ reqnb' = reqnb - n
  /\ lineReqs' = [lineReqs EXCEPT ![l] = @ - n]

UncountKeepsFile(f, l, n) ==
  /\ fileReqs' = [fileReqs EXCEPT ![f] = @ - n]
  /\ filenb' = filenb
  /\ reqnb' = reqnb - n
  /\ lineReqs' = [lineReqs EXCEPT ![l] = @ - n]

(* n queued requests of file f leave, counted on hashtable line l. *)
Uncount(f, l, n) ==
  /\ fileReqs' = [fileReqs EXCEPT ![f] = @ - n]
  /\ filenb' = IF fileReqs[f] = n THEN filenb - 1 ELSE filenb
  /\ reqnb' = reqnb - n
  /\ lineReqs' = [lineReqs EXCEPT ![l] = @ - n]

(* A (virtual) request with members G, all of queue q, goes to dispatch. *)
ProcessStep1(G, q) ==
  /\ place' = [r \in Requests |-> IF r \in G THEN "dispatch" ELSE place[r]]
  /\ Uncount(FileOf[q], LineOf[FileOf[q]], Cardinality(G))

(* The callback is called for the members of G. *)
ProcessStep2(G) ==
  handed' = [r \in Requests |-> IF r \in G THEN handed[r] + 1 ELSE handed[r]]

(* signal_new_req_to_agios_thread: only a thread already waiting hears it. *)
Signal == asleep' = FALSE

(* What one pass may take: members of one queue that one aggregation holds. *)
Groups(in, q) ==
  {G \in SUBSET {r \in Requests : place[r] = in /\ QueueOf[r] = q} :
      G # {} /\ Cardinality(G) <= MaxAggregSize(alg)}

QueueSize(q) ==
  Cardinality({r \in Requests \ ZeroLength :
                  place[r] = "hashtable" /\ QueueOf[r] = q})
FilesOnLine(l) ==
  {f \in Files : LineOf[f] = l /\
      \E r \in Requests : place[r] = "hashtable" /\ FileOf[QueueOf[r]] = f}

(* Initial states are typed, and the type of every variable. *)
StateTypeOK ==
  /\ alg \in Algorithms \cup {NoAlg}
  /\ owner \in [Locks -> Owners]
  /\ place \in [Requests -> Places]
  /\ reqnb \in Int /\ filenb \in Int
  /\ lineReqs \in [Lines -> Int]
  /\ fileReqs \in [Files -> Int]
  /\ handed \in [Requests -> Nat]
  /\ asleep \in BOOLEAN /\ stop \in BOOLEAN
  /\ fault \in {"none", "null_scheduler", "TO_empty", "SJF_empty", "SJF_size"}
=============================================================================
