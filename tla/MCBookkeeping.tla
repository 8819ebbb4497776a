---------------------------- MODULE MCBookkeeping ----------------------------
(* Three requests, two of them of one queue; the queues are on two lines of  *)
(* the hashtable.  Two lines of the trace fit into the buffer.               *)
EXTENDS Bookkeeping

CONSTANTS r1, r2, r3, read, write

QueueOfMC == r1 :> read @@ r2 :> read @@ r3 :> write
LengthMC == r1 :> 2 @@ r2 :> 7 @@ r3 :> 4
LineSizeMC == r1 :> 2 @@ r2 :> 3 @@ r3 :> 2
LockOfMC == read :> 1 @@ write :> 2
=============================================================================
