------------------------------ MODULE RunLedger ------------------------------
(***************************************************************************)
(* What the runs queue promises its producers and its handlers, without    *)
(* processes, claims or leases: a run is opened once, its handler is       *)
(* invoked any number of times, and it is closed for good either as        *)
(* completed, after an invocation that returned, or as failed, after       *)
(* MaxAttempts invocations that threw. A run that nobody finished may be   *)
(* dropped (its expires_at passed), a closed one is eventually forgotten.  *)
(***************************************************************************)
EXTENDS Naturals

CONSTANTS Runs,         \* ids of rows of public.runs
          MaxAttempts   \* runs.max_attempts, from QueueOptions.retryLimit

VARIABLES ledger,       \* ledger[r]: where the run stands
          ran,          \* runs some invocation of whose handler returned
          throws        \* throws[r]: invocations that threw, up to MaxAttempts

ledgerVars == <<ledger, ran, throws>>

States == {"absent", "open", "completed", "failed", "forgotten"}

LedgerInit ==
    /\ ledger = [r \in Runs |-> "absent"]
    /\ ran = {}
    /\ throws = [r \in Runs |-> 0]

Open(r) ==
    /\ ledger[r] = "absent"
    /\ ledger' = [ledger EXCEPT ![r] = "open"]
    /\ UNCHANGED <<ran, throws>>

(* An invocation may end after its run was closed, dropped or forgotten:   *)
(* delivery is at least once and a late handler is not called back.        *)
Return(r) ==
    /\ ledger[r] # "absent"
    /\ ran' = ran \union {r}
    /\ UNCHANGED <<ledger, throws>>

Throw(r) ==
    /\ ledger[r] # "absent"
    /\ throws[r] < MaxAttempts
    /\ throws' = [throws EXCEPT ![r] = @ + 1]
    /\ UNCHANGED <<ledger, ran>>

Complete(r) ==
    /\ ledger[r] = "open"
    /\ r \in ran
    /\ ledger' = [ledger EXCEPT ![r] = "completed"]
    /\ UNCHANGED <<ran, throws>>

(* The handler returned and the run was closed, but the answer of the      *)
(* database was lost: the invocation counts as one that threw as well.     *)
CompleteUnheard(r) ==
    /\ ledger[r] = "open"
    /\ r \in ran
    /\ ledger' = [ledger EXCEPT ![r] = "completed"]
    /\ throws' = [throws EXCEPT ![r] = IF @ < MaxAttempts THEN @ + 1 ELSE @]
    /\ UNCHANGED ran

Fail(r) ==
    /\ ledger[r] = "open"
    /\ throws[r] = MaxAttempts
    /\ ledger' = [ledger EXCEPT ![r] = "failed"]
    /\ UNCHANGED <<ran, throws>>

(* The last invocation threw and the run is closed as failed, seen as one  *)
(* step.                                                                   *)
ThrowLast(r) ==
    /\ ledger[r] = "open"
    /\ throws[r] + 1 = MaxAttempts
    /\ throws' = [throws EXCEPT ![r] = MaxAttempts]
    /\ ledger' = [ledger EXCEPT ![r] = "failed"]
    /\ UNCHANGED ran

(* The retention sweep removes any number of rows in one go.               *)
Forget(R) ==
    /\ \A r \in R : ledger[r] \in {"open", "completed", "failed"}
    /\ ledger' = [r \in Runs |-> IF r \in R THEN "forgotten" ELSE ledger[r]]
    /\ UNCHANGED <<ran, throws>>

LedgerNext ==
    \/ \E r \in Runs :
          \/ Open(r) \/ Return(r) \/ Throw(r)
          \/ Complete(r) \/ CompleteUnheard(r) \/ Fail(r) \/ ThrowLast(r)
    \/ \E R \in SUBSET Runs : Forget(R)

LedgerSpec == LedgerInit /\ [][LedgerNext]_ledgerVars
=============================================================================
