---------------------------- MODULE MCWorkerTask ----------------------------
(* Model values and symmetry for the runs of WorkerTask.                   *)
EXTENDS WorkerTask, TLC

CONSTANTS t1, t2, h1, h2, k1, k2

HandlerSymmetry == Permutations(Handlers)
=============================================================================
