-------------------------- MODULE MCWorkerSession ---------------------------
(* Small instances of WorkerSession for TLC.                               *)
EXTENDS WorkerSession, TLC

CONSTANTS j1, j2

Apart == j1 :> 1 @@ j2 :> 2

Symmetry == Permutations(Conns) \union Permutations(Jobs)
=============================================================================
