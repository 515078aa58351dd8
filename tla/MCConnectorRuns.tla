--------------------------- MODULE MCConnectorRuns --------------------------
(* Small instances of ConnectorRuns for TLC.                               *)
EXTENDS ConnectorRuns, TLC

Symmetry == Permutations(Runs)
=============================================================================
