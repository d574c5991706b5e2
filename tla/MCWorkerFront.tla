--------------------------- MODULE MCWorkerFront ----------------------------
(***************************************************************************)
(* Three requests in two workers, over two windows of one tick each.       *)
(***************************************************************************)
EXTENDS WorkerFront, TLC

MCCounterKeys == Callers \X (0..(Horizon \div Window))
Symmetry == Permutations(Workers) \cup Permutations(Callers) \cup Permutations(Turns)
=============================================================================
