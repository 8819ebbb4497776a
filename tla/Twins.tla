-------------------------------- MODULE Twins --------------------------------
(***************************************************************************)
(* TWINS: one timeline per server (multi_timeline, by the queue_id of the  *)
(* request) and time windows in which only one server's requests are given *)
(* back, in round robin.  The agios thread runs it statically, while the   *)
(* clients add and cancel and time passes.                                 *)
(*                                                                         *)
(* The wait between two calls is min(time left of the window, 0) with a    *)
(* static scheduler, so it ends at once; it may end at any time here.      *)
(***************************************************************************)
EXTENDS Integers, Sequences, FiniteSets

CONSTANTS
  Requests, NoRequest,
  ServerOf,       \* [Requests -> Servers], the queue_id of agios_add_request
  MaxQueueId,     \* of agios_init; 0 would leave multi_timeline unallocated
  Cancelable,     \* the requests the client tries to cancel
  Window          \* config_twins_window, in ticks

multi_timeline_size == MaxQueueId + 1
Servers == 0..MaxQueueId

ASSUME TwinsAssumption ==
  /\ MaxQueueId \in Nat \ {0} /\ Window \in Nat \ {0}
  /\ ServerOf \in [Requests -> Servers]
  /\ Cancelable \subseteq Requests
  /\ IsFiniteSet(Requests) /\ NoRequest \notin Requests

VARIABLES
  owner,          \* the request whose add holds the lock of the timelines
  multi_timeline, \* [Servers -> Seq(Requests)]
  reqnb,          \* current_reqnb
  given,          \* the requests given back
  refused,        \* the requests whose cancel returned false
  firstReq,       \* g_twins_first_req
  server,         \* g_current_twins_server
  elapsed,        \* ticks since g_window_start, Window at most
  pc,             \* where the agios thread is
  taken,          \* the request step 1 handed to step 2
  due             \* history: windows that may begin until the request is taken

vars == <<owner, multi_timeline, reqnb, given, refused, firstReq, server,
          elapsed, pc, taken, due>>

Linked(r) == \E i \in DOMAIN multi_timeline[ServerOf[r]] :
               multi_timeline[ServerOf[r]][i] = r

TypeOK ==
  /\ owner \in Requests \cup {NoRequest}
  /\ multi_timeline \in [Servers -> Seq(Requests)]
  /\ reqnb \in 0..Cardinality(Requests)
  /\ given \subseteq Requests /\ refused \subseteq Requests
  /\ firstReq \in BOOLEAN /\ server \in Servers /\ elapsed \in 0..Window
  /\ pc \in {"call", "test", "serve", "step2", "wait"}
  /\ taken \in Requests \cup {NoRequest}
  /\ due \in [Requests -> Nat]

(* timeline_init and TWINS_init. *)
Init ==
  /\ owner = NoRequest
  /\ multi_timeline = [s \in Servers |-> <<>>]
  /\ reqnb = 0 /\ given = {} /\ refused = {}
  /\ firstReq = TRUE /\ server = 0 /\ elapsed = 0
  /\ pc = "call" /\ taken = NoRequest
  /\ due = [r \in Requests |-> 0]

-----------------------------------------------------------------------------
twinsVars == <<firstReq, server, elapsed, pc, taken>>

(* agios_add_request under the lock: the request is linked in the list of   *)
(* its server, and then counted.                                            *)
Link(r) ==
  LET s == ServerOf[r] IN
  /\ owner = NoRequest /\ ~Linked(r) /\ r \notin given /\ r # taken
  /\ owner' = r
  /\ multi_timeline' = [multi_timeline EXCEPT ![s] = Append(@, r)]
  /\ due' = [due EXCEPT ![r] = multi_timeline_size * (Len(multi_timeline[s]) + 1)]
  /\ UNCHANGED <<reqnb, given, refused, twinsVars>>

Count(r) ==
  /\ owner = r
  /\ reqnb' = reqnb + 1
  /\ owner' = NoRequest
  /\ UNCHANGED <<multi_timeline, given, refused, due, twinsVars>>

(* Mutant: the cancel counts the request down although it is not there.     *)
CancelCounts(r) ==
  /\ owner = NoRequest /\ Linked(r) /\ r \in Cancelable \ refused
  /\ refused' = refused \cup {r}
  /\ reqnb' = reqnb - 1
  /\ UNCHANGED <<owner, multi_timeline, given, due, twinsVars>>

(* agios_cancel_request looks in the one timeline, which TWINS never uses:  *)
(* no cancel finds its request.                                             *)
Cancel(r) ==
  /\ owner = NoRequest /\ Linked(r) /\ r \in Cancelable \ refused
  /\ refused' = refused \cup {r}
  /\ UNCHANGED <<owner, multi_timeline, reqnb, given, due, twinsVars>>

-----------------------------------------------------------------------------
threadVars == <<owner, multi_timeline, reqnb, given, refused, due>>

(* The main loop calls TWINS if something is queued, else it waits.         *)
Call ==
  /\ pc = "call"
  /\ pc' = IF reqnb > 0 THEN "test" ELSE "wait"
  /\ UNCHANGED <<threadVars, firstReq, server, elapsed, taken>>

Wait ==
  /\ pc = "wait" /\ pc' = "call"
  /\ UNCHANGED <<threadVars, firstReq, server, elapsed, taken>>

(* Mutant: off by one.                                                      *)
TestOffByOne ==
  /\ pc = "test"
  /\ pc' = IF reqnb > 1 THEN "serve" ELSE "wait"
  /\ UNCHANGED <<threadVars, firstReq, server, elapsed, taken>>

(* The loop of TWINS reads current_reqnb with no lock.                      *)
Test ==
  /\ pc = "test"
  /\ pc' = IF reqnb > 0 THEN "serve" ELSE "wait"
  /\ UNCHANGED <<threadVars, firstReq, server, elapsed, taken>>

(* Mutant: the last server is forgotten.                                    *)
NextServerShort(s) == IF s + 2 >= multi_timeline_size THEN 0 ELSE s + 1

NextServer(s) == IF s + 1 >= multi_timeline_size THEN 0 ELSE s + 1

(* Under the lock: the first window begins, or the next one if this one is  *)
(* over.                                                                    *)
Ended == elapsed >= Window
CurrentServer ==
  IF firstReq THEN 0 ELSE IF Ended THEN NextServer(server) ELSE server

(* Mutant: only the start of the first window is noted.                     *)
WindowNoRestart ==
  /\ server' = CurrentServer /\ firstReq' = FALSE
  /\ elapsed' = IF firstReq THEN 0 ELSE elapsed

WindowStep ==
  /\ server' = CurrentServer /\ firstReq' = FALSE
  /\ elapsed' = IF firstReq \/ Ended THEN 0 ELSE elapsed

(* The first request of the server of the window is taken (step 1), or the  *)
(* thread has nothing to do until something changes.                        *)
Serve ==
  /\ pc = "serve" /\ owner = NoRequest
  /\ WindowStep
  /\ IF multi_timeline[server'] # <<>>
     THEN /\ taken' = Head(multi_timeline[server'])
          /\ multi_timeline' = [multi_timeline EXCEPT ![server'] = Tail(@)]
          /\ reqnb' = reqnb - 1
          /\ pc' = "step2"
     ELSE pc' = "wait" /\ UNCHANGED <<taken, multi_timeline, reqnb>>
  /\ due' = [r \in Requests |->
               IF r = taken' \/ due[r] = 0 THEN 0
               ELSE IF firstReq \/ Ended THEN due[r] - 1 ELSE due[r]]
  /\ UNCHANGED <<owner, given, refused>>

(* process_requests_step2, however long the callback takes.                 *)
CallBack ==
  /\ pc = "step2" /\ pc' = "test"
  /\ given' = given \cup {taken}
  /\ taken' = NoRequest
  /\ UNCHANGED <<owner, multi_timeline, reqnb, refused, firstReq, server,
                 elapsed, due>>

Tick ==
  /\ elapsed < Window /\ elapsed' = elapsed + 1
  /\ UNCHANGED <<threadVars, firstReq, server, pc, taken>>

Thread == Call \/ Wait \/ Test \/ Serve \/ CallBack
Next == Thread \/ Tick \/ \E r \in Requests : Link(r) \/ Count(r) \/ Cancel(r)

Spec == Init /\ [][Next]_vars
FairSpec ==
  /\ Spec /\ WF_vars(Thread) /\ WF_vars(Tick)
  /\ \A r \in Requests : WF_vars(Count(r))

-----------------------------------------------------------------------------
(* TWINS.c, "round robin!": a request behind k others of its server is      *)
(* taken before k + 1 rounds of windows have begun, however long callbacks  *)
(* take, and even if the thread finds nothing to do in most windows.        *)
ServedInTurn == \A r \in Requests : Linked(r) => due[r] > 0

(* "we can only process requests from the current app_id": whatever is      *)
(* taken belongs to the server of the window, and the window is not over.   *)
TakenInWindow ==
  [][\A r \in Requests :
       Linked(r) /\ ~Linked(r)' => ServerOf[r] = server' /\ elapsed' < Window]_vars

LinkedSet == {r \in Requests : Linked(r)}
(* The unlocked counter the thread trusts is that of the linked requests,   *)
(* but for the one being added: no cancel and no window upsets it.          *)
CountAgrees ==
  reqnb + (IF owner = NoRequest THEN 0 ELSE 1) = Cardinality(LinkedSet)

(* Whatever is queued is given back, also what the client tried to cancel.  *)
AllServed == []<>(\A r \in Requests : ~Linked(r))
-----------------------------------------------------------------------------
(* The lists: each request in that of its server, and once.                 *)
ListsOK ==
  /\ \A s \in Servers : \A i, j \in DOMAIN multi_timeline[s] :
       /\ ServerOf[multi_timeline[s][i]] = s
       /\ multi_timeline[s][i] = multi_timeline[s][j] => i = j
  /\ owner # NoRequest => Linked(owner)
  /\ pc = "step2" <=> taken # NoRequest

(* How many windows may begin until one of server s does.                   *)
WindowsUntil(s) ==
  IF firstReq THEN s + 1
  ELSE IF s > server THEN s - server ELSE s - server + multi_timeline_size

(* Each full round of windows brings a list forward by one request at       *)
(* least: the inductive core of ServedInTurn.                               *)
InTurn ==
  \A s \in Servers : \A i \in DOMAIN multi_timeline[s] :
    due[multi_timeline[s][i]] >=
      WindowsUntil(s) + (i - 1) * multi_timeline_size
=============================================================================
