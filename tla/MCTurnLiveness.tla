--------------------------- MODULE MCTurnLiveness ---------------------------
(* Small instances of TurnLiveness for TLC.                                *)
EXTENDS TurnLiveness
=============================================================================
