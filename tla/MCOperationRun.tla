--------------------------- MODULE MCOperationRun ---------------------------
(* A small instance of OperationRun for TLC.                               *)
EXTENDS OperationRun
=============================================================================
