------------------------------- MODULE MCAgios -------------------------------
(* Small instances of Agios: files f1 and f2 lie on different hashtable lines *)
(* unless the configuration has one line.                                     *)
EXTENDS AgiosInductive, TLC

CONSTANTS r1, r2, r3, f1, f2, f1read, f1write, f2read, e1, e2, e3

FileOfMC == f1read :> f1 @@ f1write :> f1 @@ f2read :> f2
LineOfMC == f1 :> 1 @@ f2 :> NLines

TwoFiles == r1 :> f1read @@ r2 :> f2read
OneFile == r1 :> f1read @@ r2 :> f1read @@ r3 :> f2read
OneQueue == r1 :> f1read @@ r2 :> f1read

DistinctTwo == r1 :> e1 @@ r2 :> e2
DistinctThree == r1 :> e1 @@ r2 :> e2 @@ r3 :> e3
SameExtents == r1 :> e1 @@ r2 :> e1
TwinAndOther == r1 :> e1 @@ r2 :> e1 @@ r3 :> e2
=============================================================================
