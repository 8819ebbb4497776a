--------------------------- MODULE MCRequestStore ---------------------------
(* Small instances of RequestStore: offsets and lengths of a few requests of *)
(* file f, and of one request of another queue.                              *)
EXTENDS RequestStore

CONSTANTS r1, r2, r3, r4, r5, r6, read, write

QueueOfMC == [r \in Requests |-> IF r = r6 THEN write ELSE read]
QueueOrderMC == <<read, write>>

(* Requests are added in every order of the time at which they were made;   *)
(* two were made by racing threads and have the same.                       *)
StampMC == [r \in Requests |->
  (r1 :> 3 @@ r2 :> 1 @@ r3 :> 4 @@ r4 :> 2 @@ r5 :> 2 @@ r6 :> 3)[r]]

(* Four neighbours in a row, and one of the other queue at the place of r2.  *)
RowOffset == [r \in Requests |-> (r1 :> 0 @@ r2 :> 2 @@ r3 :> 4 @@ r4 :> 5 @@ r6 :> 2)[r]]
RowLength == [r \in Requests |-> (r1 :> 2 @@ r2 :> 2 @@ r3 :> 1 @@ r4 :> 3 @@ r6 :> 2)[r]]

(* r2 and r4 inside r1, r4 between r2 and r3, r3 over the end of r1, r5 a    *)
(* twin of r2, r6 of another queue with the extent of r4.                    *)
PileOffset == [r \in Requests |->
  (r1 :> 0 @@ r2 :> 1 @@ r3 :> 3 @@ r4 :> 2 @@ r5 :> 1 @@ r6 :> 2)[r]]
PileLength == [r \in Requests |->
  (r1 :> 4 @@ r2 :> 1 @@ r3 :> 3 @@ r4 :> 1 @@ r5 :> 1 @@ r6 :> 1)[r]]

(* r4 is what the client does at the place of r2 after it cancelled r2.      *)
RefillOffset == r1 :> 0 @@ r2 :> 2 @@ r3 :> 4 @@ r4 :> 2
RefillLength == r1 :> 2 @@ r2 :> 2 @@ r3 :> 2 @@ r4 :> 2
=============================================================================
