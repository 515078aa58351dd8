------------------------ MODULE MCEmbeddedDeployments ------------------------
(* Small instances of EmbeddedDeployments for TLC.                         *)
EXTENDS EmbeddedDeployments, TLC

Symmetry == Permutations(Pods) \union Permutations(Names)
            \union Permutations(Keys)
=============================================================================
