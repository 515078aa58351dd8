----------------------------- MODULE WorkerLink -----------------------------
(***************************************************************************)
(* What a worker process and the worker gateway share: the SSE             *)
(* connections of one deployment, from the gateway to the worker, and the  *)
(* delivery receipts, which the worker POSTs to /worker/response.          *)
(*                                                                         *)
(* A connection is a request to /worker/stream and is never reused. What   *)
(* is written to it is read in order or, when it breaks, not at all.       *)
(***************************************************************************)
EXTENDS Naturals, Sequences

CONSTANTS
    Jobs,      \* thread_message runs of one deployment
    Conns,     \* bound: the requests to /worker/stream
    NoJob, NoConn

ASSUME LinkAssumption ==
    /\ NoJob \notin Jobs
    /\ NoConn \notin Conns

VARIABLES
    wire,      \* wire[c]: job events written to c and not yet read
    ended,     \* connections whose writer the gateway has ended
    reading,   \* the connection the worker reads, or NoConn
    receipts   \* jobs whose delivery receipt is on its way

linkVars == <<wire, ended, reading, receipts>>

LinkTypeOK ==
    /\ wire \in [Conns -> Seq(Jobs)]
    /\ ended \subseteq Conns
    /\ reading \in Conns \union {NoConn}
    /\ receipts \subseteq Jobs

LinkInit ==
    /\ wire = [c \in Conns |-> <<>>]
    /\ ended = {}
    /\ reading = NoConn
    /\ receipts = {}
=============================================================================
