--------------------------- MODULE MCBlockingPool ---------------------------
(* Instances of BlockingPool for TLC.                                      *)
EXTENDS BlockingPool

CONSTANTS f1, f2, f3, t1, t2, t3, w1, w2, s1, s2

\* t1 makes two calls, one after the other or joined; t2 makes one.
TwoTasks == (f1 :> t1) @@ (f2 :> t1) @@ (f3 :> t2)

\* Each call is made by a task of its own.
ThreeTasks == (f1 :> t1) @@ (f2 :> t2) @@ (f3 :> t3)

WorkerSymmetry == Permutations(Workers)

Symmetry == WorkerSymmetry \cup Permutations(Slots)
=============================================================================
