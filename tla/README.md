# AGIOS in TLA+

AGIOS is a C library that schedules the I/O requests of its client. The client
adds requests to it; the library keeps them in queues, a scheduling algorithm
chooses their order, and each request is given back through a callback when it
is its turn; the client then does the I/O and releases the request. This
directory holds a TLA+ model of the library, its TLC runs and its TLAPS proofs.

## The system

### Components

| Component | State | Operations | What makes it correct |
|---|---|---|---|
| Client calls (`agios_add_request.c`, `agios_cancel_request.c`, `agios_release_request.c`) | none of their own: program counter and the result of `acquire_adequate_lock` | add, cancel, release, in the client's threads | they work on the structure in use, under its lock; a request is where its calls say |
| Locks and migration (`data_structures.c`) | one mutex per hashtable line, one for the timeline | `acquire_adequate_lock`, `lock_all`, `unlock_all`, migration | no request in a structure nobody looks at |
| Hashtable (`req_hashtable.c`) | 64 lines of files; per file a read and a write queue sorted by offset, and their dispatch lists | add with aggregation, remove | conservation of requests, order, aggregations that cover their members |
| Timeline (`req_timeline.c`) | one list of requests in arrival order (or one per server with TWINS) | add with or without aggregation, oldest, reorder | order, conservation |
| Counters (`agios_counters.c`) | `current_reqnb`, `current_filenb`, `hashlist_reqcounter`, `timeline_reqnb` | increments, decrements, unlocked reads | they agree with the queues |
| Agios thread (`agios_thread.c`) | scheduler in use, stop flag, condition variable | main loop, sleep, change of scheduler, stop | works while something is queued, ends after `agios_exit` |
| Request processing (`process_request.c`) | dispatch lists | step 1 (under the lock), step 2 (callbacks, no lock) | every request given back once |
| Scheduler table (`scheduling_algorithms.c`) | eight schedulers | change of scheduler, post-processing | every request migrates |
| Schedulers (`TO.c`, `SJF.c`, `NOOP.c`, `MLF.c`, `aIOLi.c`, `TWINS.c`, `SW.c`, `waiting_common.c`) | quanta, factors, windows | `schedule` | each pass takes requests that exist; nothing waits for ever |
| Performance, statistics (`performance.c`, `statistics.c`) | bandwidth per period of a scheduler; counters and averages per queue and for all | arrival, release, new period, reset, cleanup | a release counts for the scheduler that dispatched it; counters agree |
| Life cycle (`agios.c`) | everything | init, exit, init again | fresh state after init |
| Trace (`trace.c`) | a buffer, a file | open, append, flush, close | every arrival once, in order |
| Configuration, hash (`agios_config.c`, `hash.c`) | parameters | parse | |

### How they interact

Client threads call add, cancel and release. Each call locks the timeline or
one hashtable line, depending on the scheduler in use, which it reads before it
has a lock and again once it has one. The agios thread runs `schedule` of the
current scheduler as long as `current_reqnb`, read with no lock, is positive: it
takes requests under a lock (step 1), unlocks, and calls the callbacks (step
2). With NOOP the client thread does both steps itself. When nothing is queued
the thread waits on a condition variable with a timeout. A dynamic scheduler
makes the thread lock everything, change `current_scheduler`, move every queued
request to the other structure, and unlock.

What is hard: scheduler and counters are read with no lock and used under one;
a change of structure races every call; signals are lost; the callback runs
while other calls go on; a cancel removes what a scheduler has already decided
to take; aggregation and cancel inside an aggregation are pointer code with
many cases. `PROJECT.json` lists these hazards at their lines.

## The modules

| Module | Models | In the code |
|---|---|---|
| `AgiosState` | the shared state and the helpers used on it | locks, counters, `process_request.c`, scheduler table |
| `ClientCalls` | add, cancel, release and exit, one action per step between which another thread can do something visible | `acquire_adequate_lock` and the three calls |
| `AgiosThread` | the thread's main loop, scheduler change, TO, TO-agg, SJF, NOOP | `agios_thread.c`, `scheduling_algorithms.c`, `TO.c`, `SJF.c`, `NOOP.c` |
| `Agios` | the composition, its fairness and its properties | the library |
| `AgiosService` | the abstract specification: what a client is promised | |
| `AgiosInductive` | the strengthenings that make the invariants inductive | |
| `MCAgios` | small instances | |
| `Aggregation` | pure operators: what adding a request to a queue, or cancelling one in it, makes of the (virtual) requests of the queue | `agios_add_request.c` (`include_in_aggregation`, `join_aggregations`, `insert_aggregations`), `hashtable_add_req`, `timeline_add_req`, `agios_cancel_request.c` |
| `Lists` | the loop over a list | `agios_list_for_each_entry` |
| `RequestStore` | the queues, the timeline and the dispatch lists with offsets and lengths, and the migrations between them | the same, `process_request.c`, `agios_release_request.c`, `data_structures.c`, `change_selected_alg` |
| `GroupStore` | the abstract store that `RequestStore` implements and the core model uses | |
| `MCRequestStore` | small instances | |
| `WaitingSchedulers` | aIOLi and MLF, with clients that add and time that passes | `aIOLi.c`, `MLF.c`, `waiting_common.c` |
| `MCWaitingSchedulers` | small instances | |
| `Twins` | TWINS with its timelines and windows, adds, cancels, and time that passes | `TWINS.c`, the TWINS cases of `req_timeline.c`, the loop of `agios_thread.c` |
| `MCTwins` | a small instance | |
| `Averages` | the iterative average | `update_iterative_average` |
| `Statistics`, `Performance`, `Trace` | the state and the operations of the three modules, each operation one step under its mutex | `statistics.c`; `performance.c`; `trace.c` |
| `Bookkeeping` | what an arrival, a dispatch, a release, a change of scheduler and the exit do to these three, under the locks they hold | `agios_add_request`, `agios_release_request`, `put_this_request_in_dispatch`, the loop of `agios_thread` |
| `MCBookkeeping` | a small instance | |
| `Lifecycle` | lives of the library in one process: what init allocates, what a failed init and an exit clean up, what keeps its value | `agios.c`, `agios_config.c`, `allocate_data_structures` and the cleanup functions, `init_trace_module`, `stop_the_agios_thread` |
| `AgiosProofs`, `AgiosCountProofs` | theorems and proofs about `Agios`: types, locks, deliveries, releases and the refinement; counters and what the thread concludes from them | |
| `TwinsProofs`, `BookkeepingProofs`, `WaitingProofs`, `RequestStoreProofs` | theorems and proofs about these modules | |
| `RequestOrderProofs` | theorems and proofs about the order and the extents of what `RequestStore` keeps | |
| `ListLemmas` | lemmas about lists and loops for `WaitingProofs` and `RequestStoreProofs`: insertion, removal, replacement, concatenation, induction over the positions of a list | |

### State and code

`alg` is `current_alg` together with `current_scheduler` (they are written in
adjacent statements with every lock held, or before any lock is released).
`owner` holds the owner of each mutex: index 0 is the timeline, `1..NLines` the
hashtable lines. `place[r]` says in which list request `r` is: in none yet, in
the timeline or in its queue of the hashtable, in its dispatch list, freed by
cancel or by release; `held` is the moment in NOOP when a request is counted but
in no list. `reqnb`, `filenb`, `lineReqs` and `fileReqs` are the four counters.
`handed[r]` counts the callbacks. `asleep` tells whether the thread is in
`pthread_cond_timedwait`: a signal only clears it, so a signal sent before the
wait is lost, as in the code. `fault` names what would have ended the process:
an assert or a null pointer; nothing happens after it.

`pc` is the program counter of each call (every call may run in a thread of its
own), `need` the local `previous_needs_hashtable`. `apc`, `k`, `chosen`,
`minSize`, `evaluated` and `taken` are the thread's program counter, its loop
index, SJF's local variables and the list step 1 hands to step 2.

Steps that are merged: the body of a cancel or of a release and its unlock
(everything it changes is guarded by the lock it holds, but for the counters:
between the two decrements of a cancel the thread could see `current_filenb`
lowered and `current_reqnb` not yet, which costs SJF one more empty scan and
nothing else); the signal of an add and its unlock; step 1 of a schedule function
and its unlock. The locks that `agios_init` takes belong to the thread in the
model, which releases them; in the code the initialising thread takes them and
the agios thread releases them.
Steps that are kept apart: the read of the scheduler, the lock, the second read;
the link of a request and the increment of `current_reqnb`; each lock of
`lock_all` and each unlock of `unlock_all`; each line SJF scans and each read of
`current_filenb`; the test of `current_reqnb` and the lock that follows; step 1
and step 2; the check of the counter and the wait.

In `RequestStore` each operation is one step, since each runs under the lock of
its structure, and a change of scheduler under all of them. `ChangeScheduler` is
`change_selected_alg` with the whole migration: to the timeline every virtual
request is broken into its members, inserted by timestamp (`TimeInsert`) or, for
NOOP, appended; to the hashtable every request is added anew. `Stamp` is
`request_t.timestamp`; requests are added in any order of it, and two have the
same, because `g_last_timestamp` is incremented before any lock is taken. An entry of a queue is one `struct request_t`, virtual when it has
several members, with the `offset` and `len` the code keeps in the struct: they
are computed as the code does and are not always what the members cover, which
is what `HullExact` and `CancelFinds` are about. `size` is `current_size`, `fate`
what became of the struct.

In `WaitingSchedulers` `pc` and `line` are the thread's place, `info` the fields
of `queue_t` that aIOLi and MLF remember, `waiting` and `elapsed` the file's
`waiting_time` and the time since `waiting_start`. The scan of a line, the check
of the selected queue and the turn are three critical sections of aIOLi and three
actions; MLF handles a line in one. An `\E x \in {e}` in an action only computes
`e` once. Locals of a function have their first values again after it.

In `Twins` `pc` is the thread's place in `agios_thread` and `TWINS`, `server` and
`firstReq` the two globals, `elapsed` the time since `g_window_start`, which
stops at the length of the window because only `>=` is asked. `due` is a history
variable: when a request is linked behind `k` others of its server, it is set to
the number of windows in `k + 1` rounds, and counts down at each new window.

In `Bookkeeping` `stage` is how far a request is: its arrival time is read
before its lock (`stamped`), then come the three steps of its add under the lock,
of which the middle one is `statistics_newreq` between its two counters.
`AveragesPlausible` compares the average of a queue with the sizes of all its
requests, or the bandwidths of all those released, and not only with those averaged
since the last reset; it leaves out the averages over all queues.
`performance_info` is the list with `current_performance_entry` at its end;
`period`, `begun`, `dispatchedIn`, `rate` and `counted` are history variables,
which the properties compare with the fields. In `Trace` a line is the request it
tells of, with a size; `buffer` is the string up to its NUL, which a flush leaves
in place, so that `bufferSize` 0 and a full `buffer` go together.

In `Lifecycle` `pointer` says of each global pointer whether it is null, live,
freed, or null with the size of what could not be allocated. `fault` is what the
process would end of.

### What is abstracted

In the core, the order of requests in a queue, and which of them are contiguous:
a scheduler takes any request, or, when it aggregates, any group of at most
`max_aggreg_size` requests of one queue. `RequestStore` has the order and the
extents, and the run `pile` shows that it implements `GroupStore`, whose groups
are those the core takes. Lengths are one, or zero for the members of
`ZeroLength`. The period of a dynamic scheduler may be over whenever the code
looks (`Bookkeeping` has its clock and its counter). TO-agg and SW are used only
as static schedulers: what their migration would do to virtual requests and to
the order of the timeline is left out. The eight schedulers of the repository all
have `is_dynamic` false: `Selectable` nonempty models a ninth one, as the code
foresees it (`config_agios_starting_algorithm`, `select_algorithm`). Under SW a
new request may end up anywhere in the timeline: the code compares
`sw_priority`, a field that it never sets.
In `Twins` a wait may end at any time: the thread asks for `agios_min(rest of the
window, remaining)` and `remaining` is 0 with a static scheduler.
In `Bookkeeping` a client releases no request in the tick in which it arrived,
since `agios_release_request` divides by the time in between; distances, times
between requests and sizes of aggregations, which `statistics.c` averages as it
does sizes, are left out. `MaxTime` and `MaxPeriods` bound the clock and the
number of periods.
In `Lifecycle` the client waits until a scheduler is chosen before it calls,
there is one request at a time, and of the configuration only the trace option and
the strings it allocates remain.
In `WaitingSchedulers` a request is an entry that arrives in one piece with its
number of members; the scheduler never changes, so that step 2 never asks to
stop; nobody cancels; `waiting_time`, which aIOLi may read uninitialised, is
either 0 or large; the arithmetic of `sched_factor` wraps at `Width` bits (a shift
out of the sign bit is what gcc builds), the other integers do not overflow at
these sizes. The sleep that aIOLi or MLF asks for is `agios_min(waiting,
remaining)`, and `remaining` is 0 with a static scheduler, so the thread does not
sleep. Memory exhaustion is modelled in `Lifecycle` only, for init. In `Trace`
writing to the file succeeds; when it fails the code prints a message and the
buffered lines are lost (`trace.c:33`). `Line` is a constant of the core: which line
`get_hashtable_position` hashes a file to makes no difference to it.
In the core a cancel finds any queued request of its queue and extent; that the
range of an aggregation, which is looked at first (`agios_cancel_request.c:83`), may
no longer cover a member is in `RequestStore` and the run `refill`.

### The client

The client is any program that follows these rules: one call of each kind per
request; a cancel after the add returned and before a release; a release after
the callback began; `agios_exit` when no call is under way and nothing after
it. A cancel may race the dispatch of its request, as in any client that cancels
at all. With `EarlyClients` the client may call as soon as `agios_init` returned.

## The runs

The instances of `MCAgios` have two hashtable lines with one file on each, so
that the loops over lines, the shortcut and calls on the wrong line all happen,
and `MAX_AGGREG_SIZE` 2, so that a group, and a group that is full, happen with
three requests.

| Run | Instance | Shows |
|---|---|---|
| `dynamic` | 3 requests of distinct extents, one cancelable, change among TO, SJF and NOOP, callbacks one by one | locking, no ghost requests, counters, at most one callback, the inductive invariants of the proofs, and that `Agios` implements `AgiosService` |
| `no_cancel` | 3 requests, two of the same extent and queue, dynamic, no cancel | the asserts of the schedulers hold, every release finds its request, SJF's shortcut and scan are sound |
| `live` | 2 requests, static schedulers, so that `lock_all` never runs against a call; fair threads | calls return, queued requests are given back, exit ends |
| `pile` | 6 requests that overlap, contain and repeat each other, one of them of the other queue; groups of at most 3; cancel; under TO-agg, under SW, or with changes among TO, SJF and NOOP | requests are conserved, also by migrations, groups are bounded, `current_size` agrees, `RequestStore` implements `GroupStore` |
| `row` | 5 requests, 4 of them neighbours without overlap, at most 3 to a group, two of them with one timestamp; cancel; changes of scheduler | queues are in offset order, an entry covers exactly its members, so that a cancel finds what is queued; before any cancel, groups have no holes and are as large as they may be; a migration to TO restores the order of time |
| `waiting` | 3 queues of 2 files on 2 lines, with 5 requests that fit a quantum, or with 3 of them and one too long for any; aIOLi and MLF, `sched_factor` in 3 bits, a wait of one tick, one failed try for a lock | FIFO between files, no file served while it waits, nothing starves but the request that is too long and, under aIOLi, those behind it |
| `twins` | 5 requests of 3 servers, one of them cancelled, windows of two ticks | only the server of an open window is served, a request waits a bounded number of windows, counters agree although cancels fail, all is given back |
| `books` | 3 requests in 2 queues, 2 performance entries, up to 4 periods, two lines in the trace buffer | releases are accounted to the right period or to none that is kept, `agios_processed_reqnb` is exact, averages of a queue and totals are plausible over resets, the trace is complete |

A cancel behind SJF's scan makes `ShortcutSound` false: SJF then skips a line
that has requests. A later scan finds them, so this costs time and is no run.

The other four runs show a disagreement between the code and what it says; each
is quoted under `findings` in `PROJECT.json`:

| Run | What happens |
|---|---|
| `early` | a call right after `agios_init` follows a null `current_scheduler` |
| `other_file` | in the timeline a cancel removes a request of another file |
| `refill` | a request added where one was cancelled in the middle of a group shortens the group, and a cancel no longer finds a request in it |
| `reuse` | the agios thread of a second `agios_init` ends after one pass, because the stop flag is never reset |

More disagreements are met by changing one constant of these runs, or by adding
one property:

* `no_cancel` with `Cancelable` not empty: a cancel between TO's unlocked look at
  `current_reqnb` and its lock makes the sanity assert of `TO.c:30` fail, and SJF
  has the same race at `SJF.c:91`. aIOLi assumes the same at `aIOLi.c:168`.
* `no_cancel` with `ZeroLength` not empty: a request without data makes SJF's
  sanity assert (`SJF.c:52`) fail.
* `waiting`: under aIOLi a file's wait ends before the waiting time is over, since
  each scan subtracts all the time since its start again
  (`waiting_common.c:20`): with `WaitingTime` 2 (a wait of one tick cannot end
  early) `waiting[f]` becomes 0 while `elapsed[f] < WaitingTime`.
* `waiting` with `[]<>(Queued = {})`: the eligibility test compares the 64-bit length
  of a request with the 32-bit product of its factor and the quantum (`aIOLi.c:37`,
  `MLF.c:60`), which is doubled up to 2^30 with the default quantum, then is
  negative, then 0. A (virtual) request that is longer is never eligible. MLF passes
  by it; aIOLi, which looks only at the first of a queue, leaves those behind it
  queued as well, and gives it back only if it is put in front of a request that
  was just selected. `Progress` excepts these (`TooLong`, `Stuck`).
* `reuse` with `MaxLives` 2 or more: with tracing, the second life writes into the
  trace buffer the first one freed; a second life without a configuration file, or
  with `max_queue_id` 0 after one with TWINS, frees again at its exit what the
  first one freed; and once `performance_info_len`, which no cleanup lowers, has
  reached `performance_values` (in the sixth life, by default), the new entry is
  the one that is evicted and the first release follows a freed pointer.
* `reuse` with `Failures` not empty: an `agios_init` that fails while tracing is on,
  before the trace file is open, closes a null file; one that runs out of memory in
  `timeline_init` follows a null `multi_timeline` (its size is set already,
  `req_timeline.c:194`), and in `hashtable_init` it frees the table twice; one that fails after
  `allocate_data_structures` leaves the timeline locked, and the next `agios_init`
  waits for ever.
* TWINS: `agios_cancel_request` searches the single timeline and never finds a
  request (`Cancel` in `Twins`).
* Read in the code and not modelled: `reorder_timeline` leaves `timeline.prev`
  pointing to freed memory when the timeline is empty (`req_timeline.c:162`,
  reached only by a dynamic scheduler that selects SW); a change SJF, NOOP, TO
  leaves the timeline in the order of the hashtable, since the second change moves
  nothing (`scheduling_algorithms.c:163`; this one `ChangeScheduler` has).

Bounds. Locks, calls and places of two requests are enough for a race of a call
with the migration or with the thread; a third gives a queue behind another and
a full group. Six requests and groups of three give every case of an insertion
(before, after, inside, joining two groups, too large to join), and a cancel at
each place of a group. In `waiting` three reads of one file are what it takes to
see a shift (far, low, farther) and a wait for a better aggregation, the read of
the other file is the rival, and the write the queue that is looked at last;
three bits make the factor overflow after three passes, with 2 the largest product,
so that the length 3 of `huge` is too long; `Workloads` keeps it out of the larger
set of requests, which alone has a shift, for the time of the run. In `twins` two servers have
two requests each, so that one is behind another, and the third server, with one,
is the one that round robin could forget. In `books` two kept entries and four
periods make a release find its entry as the last, as the first, or evicted.

Every property of a passing run has a mutant in `PROJECT.json`: an operator with
a plausible bug (a guard dropped, a bound off by one, a counter not updated),
defined next to the one it would replace, which makes TLC refute the property.

### Fairness

`FairSpec` assumes weak fairness of the agios thread and of every call once it
was made: the operating system runs a thread that can run. A thread that waits
for a mutex is only promised to get it if the mutex stays free, which is what a
pthread mutex gives. Nothing makes the client call, cancel or exit. The timeout of
the wait is a step of the thread, so it happens. Liveness is checked under
static schedulers only: with a dynamic one the thread could take and give back
all locks for ever while a call never gets its lock, which the code does not
exclude (`agios_processed_reqnb`, which `Bookkeeping` models, bounds how often it
changes while nothing is released). So `live` says nothing of `lock_all`; that
nobody waits for ever for it is what the deadlock check of `dynamic` shows.

`Twins` assumes weak fairness of the thread, of the clock, and of an add that has
the lock. The window ends and the thread looks again, which is all that
`AllServed` needs: nothing makes a client add.

`WaitingSchedulers` assumes weak fairness of its thread, of time, and of an add
that has a lock (it releases it after finitely many steps). Nothing makes a
client add.

## The proofs

Every theorem holds for all values of the constants that meet the named
assumptions of its modules (finite sets of requests and files, at least one
line, names that differ, a buffer that is not empty, and the like). Ten
theorems need a hypothesis about the instance; it stands in the theorem.

### Agios

The assumptions are those of `AgiosState`; a TO-agg is only static. The
strengthenings are in `AgiosInductive`.

* `TypeCorrect` (`AgiosProofs`): `Spec => []TypeOK`. One lemma per group of
  actions, by the operators of `AgiosState` they are made of; `NextCases` splits
  a step into client actions, thread actions and exit for every later proof.
* `LockingCorrect` (`AgiosProofs`): `Spec => []LockInv`. `AdequateLockHeld`
  is not inductive: it must say which locks the thread has got so far at each
  index of its two loops over the locks, and that a call past its recheck still
  has the structure it recorded in use (`CallLocks`). The scheduler changes only
  with all locks held, a call between recheck and unlock holds one: both cannot
  be, hence the invariant. `AdequateLocking` and `StableScheduler` follow.
* `NoGhosts` (`AgiosProofs`): `Spec => []NoGhostRequest`, from `LockInv`
  and the fact that nothing is queued before a scheduler is chosen (`GhostInv`).
* `DeliveryCorrect` and `DeliveredOnce` (`AgiosProofs`): `Delivery`
  relates a request's place, callbacks and the stage of its add, and implies
  `HandedOnce`. It needs `LockInv`: between the two steps of an add under NOOP
  the scheduler must not change.
* `ReleasesFind` (`AgiosProofs`): `Spec => []ReleaseFinds`, with cancels
  and with requests of the same extent. A release may free a twin whose callback
  is still to come; what is invariant is a count (`ReleaseInv`): as many requests
  of an extent are freed as releases of it returned, and each release was called
  after a callback of its own, so one is left.
* `ServiceImplemented` (`AgiosProofs`):
  `DistinctExtents /\ Spec => ImplementsService`, step by step: every step maps to
  one of `AgiosService` or to a stutter. The hypothesis says that what a release is
  given (queue, offset, length) names one request. Without it a release may free a
  twin before its callback, which the abstract service has no step for.
* `CountsAgree` (`AgiosCountProofs`): `CancelsOwnLine /\ Spec => []CountersAgree`,
  an argument about cardinalities (`CountInv`): each counter is the size of a set
  that every step changes by one request or one group. The hypothesis excludes what
  the run `other_file` shows: a cancel that frees a request of another file counts
  it down on the wrong line. It holds when requests that a cancel could confuse
  share their line, also when nothing is cancelled.
* `NeverFaults`, `ShortcutIsSound`, `ScanSucceeds` (`AgiosCountProofs`): under
  `PlainClient` (no cancel, no request without data, no call before a scheduler is
  chosen), the asserts hold, SJF leaves its scan only when nothing is ahead, and a
  scan finds a queue. `WorkInv` says what the thread knows after its unlocked
  reads: once it saw a request counted, one stays to be taken; the scan has
  evaluated at most as many files as there are behind it. Each part of the
  hypothesis is needed: see the runs and the disagreements above.

### Twins

`TwinsTyped`, `TwinsCounted`, `TwinsWindows` and `TwinsServedInTurn`
(`TwinsProofs`) prove `TypeOK`, `CountAgrees`, `TakenInWindow` and `ServedInTurn`.
`ListsOK` says that a list has only its server's requests, each once; `InTurn`
that a request in position `i` is due no earlier than its server's next window
and `i - 1` rounds: it rests on each full round taking at least the first
request of a server's list.

### Bookkeeping

`BooksTyped`, `BooksBalance`, `TraceIsComplete`, `ProcessedIsExact`,
`ReleasesAttributed` and `AveragesArePlausible` (`BookkeepingProofs`) prove all
properties of the run `books`, for any clock bound, number of periods, window and
buffer. The invariant has a part per matter: who holds the lock while a request is
counted (`HolderInv`), counters as cardinalities (`TotalsInv`, `ProcessedInv`),
the entries as the latest periods in the order they began (`PeriodInv`), the period
in which a request was dispatched (`DispatchInv`), averages between what they
averaged (`AveragesInv`, on `AverageBetween`, a lemma about C division), and what
an empty buffer means (`TraceInv`). `get_request_entry`, a search from the end, is
characterised once in `RequestEntry`.

### WaitingSchedulers

* `WaitingIsRespected` (`WaitingProofs`): `Spec => NotWhileWaiting`. `Selecting`
  says that what aIOLi selected keeps a request and that its file does not wait,
  until the turn: later lines of the scan only make other files wait less.
* `FifoHolds` (`WaitingProofs`): `Spec => []FifoBetweenFiles`. `FifoSoFar` is the
  property for the lines that the scan has passed. It holds under adds on those
  lines because a new first request has a factor of 0 (`FreshFactors`): it was not
  looked at, so it is not ready.
* `WaitingTyped` (`WaitingProofs`): `Spec => []TypeOK`. `OptionsCounted` bounds the
  files that aIOLi counts as waiting by those of the lines passed, the parts of
  `Typed` are inductive one after the other, and what a turn leaves in `info` is
  the loop of `PostProcess` over its requests (`PostProcessLoop`).

### RequestStore

The loops of the code (the members of the tail in a join, the requests and
queues of a migration, the members whose lengths a dispatch subtracts) are
`ForEach` of `Lists`, a function on `0..Len(s)`. For each of them a lemma says
that the values after each step exist and have a type (`IncludeLoop`,
`TimeInsertLoop`, `RehashLoop`, `PartsLoop`, `AllPartsLoop`, `SizeLoop`, all from
`Steps`), and what is true after every step follows by `Interval`, an induction
over a set of numbers.

* `Proper` says of a list that no entry occurs twice, no two entries share a
  member, no entry has a member twice, is too large or mixes queues. One lemma for
  each insertion (`HashtableInsertAdds`, `TimelineInsertAdds`, `TimeInsertAdds`)
  and one for a cancel (`WithoutRemoves`) say that the list stays proper and that
  its members are those it had and the new one, or all but the cancelled one;
  `JoinMembers` says it of a join, `PartsOf`, `AllPartsOf`, `Rehashes`,
  `TimeInserts` and `Singles` of the migrations.
* `TypeCorrect`, `RequestsConserved`, `SizesAreExact` and `EveryGroupFits`
  (`RequestStoreProofs`) prove `TypeOK`, `Conservation`, `SizesAgree` and
  `GroupsFit` together: `IInv` is their conjunction, arranged by what a step
  changes. None of them is inductive alone: a size stays a natural number because
  it is the number of bytes queued (`BytesLoop`, an argument about
  cardinalities), a join keeps members distinct because entries share none, the
  entry of a dispatch goes to one queue because it mixes none, and a migration
  loses nothing because the structure that is not in use is empty
  (`OtherListsEmpty`), which follows from `Conservation`.
* `QueuesImplementGroups`: `Spec => ImplementsGroups`, step by step. An add is a
  `Put`, or a `Pass` with NOOP, a cancel a `Drop` or nothing, a dispatch a `Take` of
  the members of its entry, a release a `Free`, a change of scheduler nothing.
* `MigrationOrdersByTime`: `Spec => TimeOrderAfterMigration`, because `TimeInsert`
  keeps a list in the order of time and the timeline is empty before.

### The order and the extents in RequestStore

`OffsetsInOrder`, `HullsAreExact`, `VirtualRequestsHaveNoHoles` and
`NothingLeftToAggregate` (`RequestOrderProofs`) prove `InOffsetOrder`,
`HullExact`, `NoHoles` and `MaximalAggregation`, and `CancelFindsIt` proves
`CancelFinds`, each as `Tidy /\ Spec => []P`. `Tidy` is about the client:

* requests of one queue do not overlap while both are queued, and none is empty.
  `include_in_aggregation` computes the length from the request it adds: of two
  that overlap it keeps the end of the wrong one;
* a request that is cancelled, or that a cancel may take for the one it was given,
  overlaps no other, also none that is added later. The run `refill` shows what
  happens without this part: the virtual request keeps the bytes of the cancelled
  member in its extent, a request added there begins inside it, and the extent
  becomes too short.

The constants of the run `row`, which checks the same properties, satisfy `Tidy`;
so does an instance in which requests that cannot be cancelled overlap, as long as
they are not queued together.

`OInv` is inductive with `IInv`. It says that every entry is `Neat`: its members
are in order, its offset and end are those of the first and the last (`Fine`), it
has no hole while nothing is cancelled (`Tight`), and whatever overlaps its extent
was cancelled or overlaps a member (`Guarded`). `Guarded` is what makes the rest
inductive: a request that is added overlaps nothing that is queued and is not
cancelled, so it lies outside every entry of its queue (`OutsideEntry`), also where
a cancel has left a hole. From there on each aggregation is a concatenation
(`IncludeAfter`, `IncludeBefore`, `JoinAfter`, all `Glue`), the place that
`hashtable_add_req` finds has all entries before it on the left of the request and
all others on its right (`Placed`), and a queue stays sorted (`Ranged`) and, until
a cancel, aggregated as far as possible (`Maximal`), because an insertion, a join
or a removal replaces a stretch of the queue by at most one entry (`Spliced`).
`NothingLeftToAggregate` has to exclude that an entry which refused its neighbour
because both were too large accepts it after a dispatch: entries that had another
one between them are not contiguous (`RemoveMaximal`).

### Where the invariants were checked first

Each strengthening was added to the INVARIANTS of the run of its module and
checked by TLC before its proof: those of `AgiosInductive` on `dynamic` and
`no_cancel` (`LockInv` and `Delivery` stay in `dynamic`), those of `Twins`,
`Bookkeeping` and `WaitingSchedulers` on `twins`, `books` and `waiting`,
`GroupsFit` on `pile`, and `OInv` on `row` and on an instance of it in which
requests that are never cancelled overlap.

### Only model-checked

* Liveness (`CallsReturn`, `EventuallyHanded`, `ExitEnds`, `AllServed`,
  `Progress`): out of the prover's reach, as is ENABLED.

## Plan

Done: the core (`Agios` and its parts), `RequestStore` with its migrations and its
abstraction, `WaitingSchedulers`, `Twins`, `Bookkeeping` and its parts,
`Lifecycle`; the theorems above.

1. In `WaitingSchedulers`: cancel, and a dynamic scheduler, with which step 2 may
   ask to stop (`waiting_common.c:92`).

## Not modelled

The migrations of TO-agg, SW and TWINS (the repository has no scheduler that
selects them, and `scheduling_algorithms.c` says that TWINS was not adapted); the
length of the thread's sleeps; memory exhaustion after init; the text of
configuration files, of the trace and of debug output (pure I/O); the hash
function beyond a mapping of files to lines; the test client, of which the models
allow every behaviour that follows the rules above.
