---------------------------- MODULE MCRunsQueue -----------------------------
(* Small instances of RunsQueue for TLC.                                   *)
EXTENDS RunsQueue, TLC

CONSTANTS r1, r2, k1

PrioOne == r1 :> 0
PrioTwo == (r1 :> 0) @@ (r2 :> 1)

Send(k, d, e, now) == [key |-> k, durable |-> d, expires |-> e, due |-> now]

(* One kind of row, when the sends are not what is looked at.              *)
PlainSends == {Send(NoKey, FALSE, "later", TRUE)}

(* The same key sent plainly and durably, as enqueueMessage and            *)
(* enqueueDurableMessage do, with and without expiry, at once or delayed.  *)
KeyedSends == {Send(k1, FALSE, "later", TRUE), Send(k1, TRUE, "later", FALSE)}

(* Processes are interchangeable.                                          *)
Symmetry == Permutations(Procs)
=============================================================================
