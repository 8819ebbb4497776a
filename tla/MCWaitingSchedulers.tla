------------------------ MODULE MCWaitingSchedulers ------------------------
(* Small instances of WaitingSchedulers: two files on two lines.  In the     *)
(* read queue of f, low then far gives the better aggregation a reason to    *)
(* wait, and far, low, far in that order a shift.  In the read queue of g    *)
(* huge, too long for any quantum, comes before other.                       *)
EXTENDS WaitingSchedulers

CONSTANTS low, far, farther, other, out, huge, f, g

FileOfMC == [r \in Requests |-> IF r \in {other, huge} THEN g ELSE f]
LineOfMC == f :> 1 @@ g :> 2
TypeOfMC == [r \in Requests |-> IF r = out THEN "write" ELSE "read"]
OffsetMC == [r \in Requests |->
  (low :> 0 @@ far :> 4 @@ farther :> 8 @@ other :> 4 @@ out :> 0
     @@ huge :> 0)[r]]
LengthMC == [r \in Requests |->
  (low :> 1 @@ far :> 2 @@ farther :> 1 @@ other :> 2 @@ out :> 2
     @@ huge :> 3)[r]]
TimestampMC == [r \in Requests |->
  (far :> 1 @@ other :> 2 @@ low :> 3 @@ farther :> 4 @@ out :> 5
     @@ huge :> 6)[r]]
ReqnbMC == [r \in Requests |-> IF r \in {low, far} THEN 2 ELSE 1]
WorkloadsMC == {Requests \ {huge}, {low, far, other, huge}}
=============================================================================
