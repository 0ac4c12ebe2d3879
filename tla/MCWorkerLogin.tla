--------------------------- MODULE MCWorkerLogin ---------------------------
(* Instances of WorkerLogin for TLC: the threads are tm, tn on worker wm   *)
(* and tx on worker wx, and both workers log in as one user.               *)
EXTENDS WorkerLogin, TLC

CONSTANTS wm, wx, tm, tn, tx, um

OneAccount == [w \in Workers |-> um]
MostOnOne == [t \in Threads |-> IF t = tx THEN wx ELSE wm]
=============================================================================
