-------------------------- MODULE RunsQueueProofs ---------------------------
(***************************************************************************)
(* What holds of RunsQueue for any processes, rows, keys, priorities,      *)
(* retry budgets and numbers of workers and database errors.               *)
(***************************************************************************)
EXTENDS RunsQueue, FiniteInduction

-----------------------------------------------------------------------------
(* The inductive invariant behind every theorem of this module             *)

(* A row that can be claimed has attempts left; one that was not inserted  *)
(* yet was never claimed; attempts are backed by throws.                   *)
RowBudget(r) ==
    /\ status[r] \in Active => attempts[r] < MaxAttempts
    /\ status[r] = "absent" => attempts[r] = 0
    /\ status[r] = "failed" => throws[r] = MaxAttempts
    /\ attempts[r] <= throws[r]

(* A worker past its claim has a job that exists, claimed with attempts    *)
(* left, and what it took the job for is behind the history: a handler     *)
(* that threw has been counted, one that returned has been noted.          *)
SlotOK(w) ==
    phase[w] \in Executing =>
        /\ job[w] \in Runs
        /\ status[job[w]] # "absent"
        /\ snap[w] < MaxAttempts
        /\ snap[w] <= throws[job[w]]
        /\ phase[w] = "threw" => snap[w] < throws[job[w]]
        /\ phase[w] = "succeeded" => ran[job[w]]

CoreInv ==
    /\ TypeOK
    /\ \A r \in Runs : RowBudget(r)
    /\ \A w \in Workers : SlotOK(w)

LEMMA InitCoreInv == Init => CoreInv
<1> SUFFICES ASSUME Init PROVE CoreInv
  OBVIOUS
<1>1. RowsOK /\ HistoryOK
  <2>1. /\ due \in [Runs -> BOOLEAN]
        /\ ran \in [Runs -> BOOLEAN]
    BY Zenon DEF Init
  <2>2. QED
    BY <2>1, ConstantsAssumption DEF Init, RowsOK, HistoryOK, Statuses, ConstantsAssumption
<1>2. ReceiptsOK /\ ProcsOK /\ WorkersOK /\ LoopsOK
  BY ConstantsAssumption
     DEF Init, ReceiptsOK, ProcsOK, WorkersOK, LoopsOK, Phases, Executing,
         NoReceipt, NoTx, ConstantsAssumption
<1>3. ASSUME NEW r \in Runs PROVE RowBudget(r)
  BY ConstantsAssumption DEF Init, RowBudget, Active, ConstantsAssumption
<1>4. ASSUME NEW w \in Workers PROVE SlotOK(w)
  BY DEF Init, SlotOK, Executing
<1>5. QED
  BY <1>1, <1>2, <1>3, <1>4 DEF CoreInv, TypeOK

-----------------------------------------------------------------------------
(* What the statements do to the rows                                      *)

LEMMA RequeueType ==
    ASSUME RowsOK, NEW R, Requeue(R)
    PROVE  RowsOK'
<1>1. due' \in [Runs -> BOOLEAN]
  BY Zenon DEF RowsOK, Requeue
<1>2. status' \in [Runs -> Statuses] /\ age' \in [Runs -> 0..2]
  BY DEF RowsOK, Requeue, Statuses
<1>3. claimedBy' \in [Runs -> Procs \union {NoProc}]
  BY DEF RowsOK, Requeue
<1>4. QED
  BY <1>1, <1>2, <1>3 DEF RowsOK, Requeue

LEMMA ClaimRowType ==
    ASSUME RowsOK, NEW p \in Procs, NEW r \in Runs, ClaimRow(p, r)
    PROVE  RowsOK'
BY DEF RowsOK, ClaimRow, Statuses

LEMMA CompleteRowType ==
    ASSUME RowsOK, NEW w \in Workers, job[w] \in Runs, CompleteRow(w)
    PROVE  RowsOK'
<1>1. CASE Owned(w)
  BY <1>1 DEF RowsOK, CompleteRow, Statuses
<1>2. CASE ~Owned(w)
  BY <1>2 DEF RowsOK, CompleteRow, rowVars
<1>3. QED
  BY <1>1, <1>2

LEMMA FailRowType ==
    ASSUME RowsOK, NEW w \in Workers, job[w] \in Runs, RowBudget(job[w]),
           FailRow(w)
    PROVE  RowsOK'
<1>1. CASE Owned(w)
  BY <1>1, ConstantsAssumption
     DEF RowsOK, FailRow, Statuses, Owned, RowBudget, Active, ConstantsAssumption
<1>2. CASE ~Owned(w)
  BY <1>2 DEF RowsOK, FailRow, rowVars
<1>3. QED
  BY <1>1, <1>2

LEMMA RetryRowType ==
    ASSUME RowsOK, NEW w \in Workers, job[w] \in Runs,
           snap[w] \in 0..MaxAttempts, snap[w] < MaxAttempts, RetryRow(w)
    PROVE  RowsOK'
<1>1. CASE Owned(w)
  <2>1. attempts' \in [Runs -> 0..MaxAttempts]
    <3>1. snap[w] + 1 \in 0..MaxAttempts
      BY ConstantsAssumption DEF ConstantsAssumption
    <3>2. QED
      BY <1>1, <3>1 DEF RowsOK, RetryRow
  <2>2. due' \in [Runs -> BOOLEAN]
    BY <1>1, Zenon DEF RowsOK, RetryRow
  <2>3. QED
    BY <1>1, <2>1, <2>2 DEF RowsOK, RetryRow, Statuses
<1>2. CASE ~Owned(w)
  BY <1>2 DEF RowsOK, RetryRow, rowVars
<1>3. QED
  BY <1>1, <1>2

LEMMA LoopFreeType ==
    ASSUME LoopsOK, NEW w \in Workers, LoopFree(w)
    PROVE  LoopsOK'
BY ConstantsAssumption DEF LoopsOK, LoopFree, Phases, ConstantsAssumption

LEMMA OneMoreThrowType ==
    ASSUME HistoryOK, NEW r \in Runs, OneMoreThrow(r)
    PROVE  throws' \in [Runs -> 0..MaxAttempts]
BY ConstantsAssumption DEF HistoryOK, OneMoreThrow, ConstantsAssumption

-----------------------------------------------------------------------------
(* Type correctness, one step per action                                   *)

LEMMA ProcTypeOK ==
    ASSUME TypeOK, NEW p \in Procs, ProcNext(p)
    PROVE  TypeOK'
<1> USE ConstantsAssumption
    DEF TypeOK, ProcsOK, WorkersOK, Gens, Workers, procVars, workerVars,
        ConstantsAssumption
<1> DEFINE SameRows == UNCHANGED rowVars
<1>a. ASSUME SameRows PROVE RowsOK'
  BY <1>a DEF RowsOK, rowVars
<1>b. ASSUME UNCHANGED receipt PROVE ReceiptsOK'
  BY <1>b DEF ReceiptsOK
<1>c. ASSUME UNCHANGED loopVars PROVE LoopsOK'
  BY <1>c DEF LoopsOK, loopVars
<1>d. ASSUME UNCHANGED historyVars PROVE HistoryOK'
  BY <1>d DEF HistoryOK, historyVars
<1>1. CASE Start(p)
  BY <1>1, RequeueType, <1>b, <1>c, <1>d DEF Start
<1>2. CASE StartUnrecovered(p)
  BY <1>2, <1>a, <1>b, <1>c DEF StartUnrecovered, HistoryOK
<1>3. CASE StopBegin(p)
  BY <1>3, <1>a, <1>b, <1>c, <1>d DEF StopBegin
<1>4. CASE StopRelease(p)
  BY <1>4, RequeueType, <1>b, <1>c, <1>d DEF StopRelease
<1>5. CASE StopUnreleased(p)
  BY <1>5, <1>a, <1>b, <1>c DEF StopUnreleased, HistoryOK
<1>6. CASE Die(p)
  <2>1. LoopsOK'
    BY <1>6 DEF Die, LoopsOK, Phases
  <2>2. ProcsOK' /\ WorkersOK'
    BY <1>6 DEF Die, NoTx
  <2>3. QED
    BY <1>6, <1>a, <1>b, <1>d, <2>1, <2>2 DEF Die
<1>7. CASE PauseWorker(p) \/ ResumeWorker(p)
  BY <1>7, <1>a, <1>b, <1>c, <1>d DEF PauseWorker, ResumeWorker
<1>8. ASSUME NEW g \in Gens, WorkAgain(p, g) PROVE TypeOK'
  BY <1>8, <1>a, <1>b, <1>c, <1>d DEF WorkAgain
<1>9. ASSUME NEW g \in Gens, NEW begin \in {"live", "paused"},
             WorkFirst(p, g, begin)
      PROVE  TypeOK'
  BY <1>9, <1>a, <1>b, <1>c, <1>d DEF WorkFirst
<1>10. ASSUME NEW g \in Gens, NEW begin \in {"live", "paused"},
              WorkReplace(p, g, begin)
       PROVE  TypeOK'
  <2>1. WorkersOK' /\ ProcsOK'
    BY <1>10 DEF WorkReplace
  <2>2. QED
    BY <1>10, <1>a, <1>b, <1>c, <1>d, <2>1 DEF WorkReplace
<1>11. QED
  BY <1>1, <1>2, <1>3, <1>4, <1>5, <1>6, <1>7, <1>8, <1>9, <1>10
     DEF ProcNext, StopDrained, StopTimedOut

LEMMA SendTypeOK ==
    ASSUME TypeOK, NEW p \in Procs, SendNext(p)
    PROVE  TypeOK'
<1> USE ConstantsAssumption DEF TypeOK, ConstantsAssumption
<1>a. ASSUME UNCHANGED <<workerVars, loopVars, historyVars>>
      PROVE  WorkersOK' /\ LoopsOK' /\ HistoryOK'
  BY <1>a DEF WorkersOK, LoopsOK, HistoryOK, workerVars, loopVars, historyVars
<1>b. ASSUME UNCHANGED rowVars PROVE RowsOK'
  BY <1>b DEF RowsOK, rowVars
<1>1. ASSUME NEW m \in Sends, SendConflict(p, m) PROVE TypeOK'
  BY <1>1, <1>a, <1>b DEF SendConflict, ReceiptsOK, ProcsOK
<1>2. ASSUME NEW m \in Sends, NEW r \in Runs, SendInsert(p, r, m) PROVE TypeOK'
  <2>1. ProcsOK'
    BY <1>2 DEF SendInsert, ProcsOK, procVars
  <2>2. RowsOK'
    BY <1>2 DEF SendInsert, RowsOK, Statuses
  <2>3. ReceiptsOK'
    BY <1>2 DEF SendInsert, ReceiptsOK
  <2>4. QED
    BY <1>2, <1>a, <2>1, <2>2, <2>3 DEF SendInsert
<1>3. CASE SendLookup(p)
  <2>1. ProcsOK'
    BY <1>3 DEF SendLookup, ProcsOK, NoTx
  <2>2. ASSUME NEW r \in Runs \union {NoRun},
               receipt' = [receipt EXCEPT ![tx[p].key] =
                             [there |-> TRUE, run |-> r, old |-> FALSE]]
        PROVE  ReceiptsOK'
    BY <2>2 DEF ReceiptsOK
  <2>3. ASSUME receipt' = receipt PROVE ReceiptsOK'
    BY <2>3 DEF ReceiptsOK
  <2>4. ReceiptsOK'
    BY <1>3, <2>2, <2>3 DEF SendLookup, ActiveWithKey
  <2>5. QED
    BY <1>3, <1>a, <1>b, <2>1, <2>4 DEF SendLookup
<1>4. QED
  BY <1>1, <1>2, <1>3 DEF SendNext

LEMMA LoopTypeOK ==
    ASSUME CoreInv, NEW w \in Workers, LoopNext(w)
    PROVE  TypeOK'
<1> USE ConstantsAssumption DEF TypeOK, ConstantsAssumption
<1>0. TypeOK /\ SlotOK(w)
  BY DEF CoreInv
<1>1. ReceiptsOK' /\ ProcsOK' /\ WorkersOK'
  <2>1. UNCHANGED <<receipt, procVars, workerVars>>
    BY DEF LoopNext, LoopClaims, ClaimNone, StartHandler, ClaimOne,
       ClaimUnheard, HandlerReturns, HandlerThrows, HeartbeatClaim,
       MarkCompleted, MarkFailed, ScheduleRetry, MarkCompletedThrows, SettleThrows
  <2>2. QED
    BY <1>0, <2>1 DEF ReceiptsOK, ProcsOK, WorkersOK, procVars, workerVars
<1>a. ASSUME UNCHANGED rowVars PROVE RowsOK'
  BY <1>0, <1>a DEF RowsOK, rowVars
<1>b. ASSUME UNCHANGED loopVars PROVE LoopsOK'
  BY <1>0, <1>b DEF LoopsOK, loopVars
<1>c. ASSUME UNCHANGED historyVars PROVE HistoryOK'
  BY <1>0, <1>c DEF HistoryOK, historyVars
<1>d. ASSUME UNCHANGED <<job, snap>>, NEW f \in Phases,
             phase' = [phase EXCEPT ![w] = f]
      PROVE  LoopsOK'
  BY <1>0, <1>d DEF LoopsOK
<1> HIDE DEF TypeOK
<1>e. ASSUME RowsOK', LoopsOK', HistoryOK' PROVE TypeOK'
  BY <1>1, <1>e DEF TypeOK
<1>f. RowsOK /\ LoopsOK /\ HistoryOK
  BY <1>0 DEF TypeOK
<1>g. ASSUME phase[w] \in Executing
      PROVE  /\ job[w] \in Runs /\ RowBudget(job[w])
             /\ snap[w] \in 0..MaxAttempts /\ snap[w] < MaxAttempts
  BY <1>0, <1>f, <1>g DEF CoreInv, SlotOK, LoopsOK
<1> USE DEF Phases, Executing
<1>2. CASE LoopClaims(w) \/ ClaimNone(w) \/ StartHandler(w)
  BY <1>2, <1>a, <1>c, <1>d, <1>e DEF LoopClaims, ClaimNone, StartHandler
<1>3. ASSUME NEW r \in Runs, ClaimOne(w, r) PROVE TypeOK'
  <2>1. LoopsOK'
    BY <1>3, <1>f DEF ClaimOne, LoopsOK, RowsOK
  <2>2. QED
    BY <1>3, <1>f, <1>c, <1>e, <2>1, ClaimRowType DEF ClaimOne, Workers
<1>4. ASSUME NEW r \in Runs, ClaimUnheard(w, r) PROVE TypeOK'
  <2>1. HistoryOK'
    BY <1>4, <1>f DEF ClaimUnheard, HistoryOK
  <2>2. QED
    BY <1>4, <1>f, <1>d, <1>e, <2>1, ClaimRowType DEF ClaimUnheard, Workers
<1>5. CASE HandlerReturns(w)
  <2>1. HistoryOK'
    BY <1>5, <1>f, Zenon DEF HandlerReturns, HistoryOK
  <2>2. QED
    BY <1>5, <1>a, <1>d, <1>e, <2>1 DEF HandlerReturns
<1>6. CASE HandlerThrows(w)
  <2>1. HistoryOK'
    BY <1>6, <1>f, <1>g, OneMoreThrowType DEF HandlerThrows, HistoryOK
  <2>2. QED
    BY <1>6, <1>a, <1>d, <1>e, <2>1 DEF HandlerThrows
<1>7. CASE HeartbeatClaim(w)
  <2>1. RowsOK'
    <3>1. age' \in [Runs -> 0..2]
      <4>1. job[w] \in Runs
        BY <1>7, <1>g DEF HeartbeatClaim, Busy
      <4>2. QED
        BY <1>7, <1>f, <4>1 DEF HeartbeatClaim, RowsOK
    <3>2. QED
      BY <1>7, <1>f, <3>1 DEF HeartbeatClaim, RowsOK
  <2>2. QED
    BY <1>7, <1>b, <1>c, <1>e, <2>1 DEF HeartbeatClaim
<1>8. CASE MarkCompleted(w)
  BY <1>8, <1>f, <1>g, <1>c, <1>e, CompleteRowType, LoopFreeType DEF MarkCompleted
<1>9. CASE MarkFailed(w)
  BY <1>9, <1>f, <1>g, <1>c, <1>e, FailRowType, LoopFreeType DEF MarkFailed
<1>10. CASE ScheduleRetry(w)
  BY <1>10, <1>f, <1>g, <1>c, <1>e, RetryRowType, LoopFreeType DEF ScheduleRetry
<1>11. ASSUME NEW committed \in BOOLEAN, MarkCompletedThrows(w, committed)
       PROVE  TypeOK'
  <2>1. HistoryOK'
    BY <1>11, <1>f, <1>g, OneMoreThrowType DEF MarkCompletedThrows, HistoryOK
  <2>2. RowsOK'
    BY <1>11, <1>a, <1>f, <1>g, CompleteRowType DEF MarkCompletedThrows
  <2>3. QED
    BY <1>11, <1>d, <1>e, <2>1, <2>2 DEF MarkCompletedThrows
<1>12. CASE SettleThrows(w)
  <2>1. HistoryOK'
    BY <1>12, <1>f DEF SettleThrows, HistoryOK
  <2>2. QED
    BY <1>12, <1>f, <1>a, <1>e, <2>1, LoopFreeType DEF SettleThrows
<1>13. QED
  BY <1>2, <1>3, <1>4, <1>5, <1>6, <1>7, <1>8, <1>9, <1>10, <1>11, <1>12
     DEF LoopNext

LEMMA SweepTimeTypeOK ==
    ASSUME TypeOK, SweepNext \/ TimeNext
    PROVE  TypeOK'
<1> USE DEF TypeOK
<1>a. ASSUME UNCHANGED <<procVars, workerVars, loopVars, historyVars>>
      PROVE  ProcsOK' /\ WorkersOK' /\ LoopsOK' /\ HistoryOK'
  BY <1>a DEF ProcsOK, WorkersOK, LoopsOK, HistoryOK, procVars, workerVars,
     loopVars, historyVars
<1>b. ASSUME UNCHANGED receipt PROVE ReceiptsOK'
  BY <1>b DEF ReceiptsOK
<1>c. ASSUME UNCHANGED rowVars PROVE RowsOK'
  BY <1>c DEF RowsOK, rowVars
<1>1. CASE SweepStaleClaims
  BY <1>1, <1>a, <1>b, RequeueType DEF SweepStaleClaims
<1>2. CASE SweepReceipts
  BY <1>2, <1>a, <1>c DEF SweepReceipts, ReceiptsOK, NoReceipt
<1>3. ASSUME NEW n \in 1..3, SweepRuns(n) PROVE TypeOK'
  <2>1. RowsOK'
    BY <1>3 DEF SweepRuns, RowsOK, Statuses
  <2>2. QED
    BY <1>3, <1>a, <1>b, <2>1 DEF SweepRuns
<1>4. ASSUME NEW r \in Runs, AgeRow(r) PROVE TypeOK'
  <2>1. age' \in [Runs -> 0..2]
    BY <1>4 DEF AgeRow, RowsOK
  <2>2. QED
    BY <1>4, <1>a, <1>b, <2>1 DEF AgeRow, RowsOK
<1>5. ASSUME NEW r \in Runs, BecomeDue(r) PROVE TypeOK'
  <2>1. due' \in [Runs -> BOOLEAN]
    BY <1>5, Zenon DEF BecomeDue, RowsOK
  <2>2. QED
    BY <1>5, <1>a, <1>b, <2>1 DEF BecomeDue, RowsOK
<1>6. ASSUME NEW r \in Runs, Expire(r) PROVE TypeOK'
  BY <1>6, <1>a, <1>b DEF Expire, RowsOK
<1>7. ASSUME NEW k \in Keys, AgeReceipt(k) PROVE TypeOK'
  <2>1. receipt' = [receipt EXCEPT ![k] = [receipt[k] EXCEPT !.old = TRUE]]
    BY <1>7 DEF AgeReceipt
  <2>2. ReceiptsOK'
    BY <2>1 DEF ReceiptsOK
  <2>3. QED
    BY <1>7, <1>a, <1>c, <2>2 DEF AgeReceipt
<1>8. QED
  BY <1>1, <1>2, <1>3, <1>4, <1>5, <1>6, <1>7 DEF SweepNext, TimeNext

LEMMA StepTypeOK ==
    ASSUME CoreInv, [Next]_vars
    PROVE  TypeOK'
<1>0. TypeOK
  BY DEF CoreInv
<1>1. CASE UNCHANGED vars
  BY <1>0, <1>1 DEF vars, TypeOK, RowsOK, ReceiptsOK, ProcsOK, WorkersOK, LoopsOK,
     HistoryOK, rowVars, procVars, workerVars, loopVars, historyVars
<1>2. QED
  BY <1>0, <1>1, ProcTypeOK, SendTypeOK, LoopTypeOK, SweepTimeTypeOK DEF Next

-----------------------------------------------------------------------------
(* What a step can do to one row, to one worker and to the history         *)

Inserted(r) == \E p \in Procs, m \in Sends : SendInsert(p, r, m)

HandedOut(r) == /\ status[r] = "pending" /\ status'[r] = "claimed"
                /\ attempts'[r] = attempts[r]
                /\ \E w \in Workers : /\ claimedBy'[r] = w[1]
                                      /\ phase[w] = "claiming"

(* By recovery or the stale sweep, or by the stop() of its holder.         *)
TakenBack(r) == /\ status[r] = "claimed" /\ status'[r] = "pending"
                /\ attempts'[r] = attempts[r]
                /\ \/ age[r] # 0
                   \/ \E p \in Procs : /\ claimedBy[r] = p
                                       /\ mode[p] = "draining"
                                       /\ mode'[p] = "stopped"

SettledBy(w, r) ==
    /\ job[w] = r /\ Owned(w) /\ phase'[w] # phase[w]
    /\ \/ /\ phase[w] = "succeeded" /\ status'[r] = "completed"
          /\ attempts'[r] = attempts[r]
       \/ /\ phase[w] = "threw" /\ status'[r] = "failed"
          /\ snap[w] + 1 >= MaxAttempts /\ attempts'[r] = attempts[r] + 1
       \/ /\ phase[w] = "threw" /\ status'[r] = "pending"
          /\ snap[w] + 1 < MaxAttempts /\ attempts'[r] = snap[w] + 1

Dropped(r) == /\ status[r] \in {"pending", "completed", "failed"}
              /\ status'[r] = "deleted"
              /\ attempts'[r] = attempts[r]

Kept(r) == /\ status'[r] = status[r] /\ attempts'[r] = attempts[r]
           /\ claimedBy'[r] = claimedBy[r]

RowStep(r) ==
    \/ Inserted(r)
    \/ /\ key'[r] = key[r]
       /\ \/ Kept(r) \/ HandedOut(r) \/ TakenBack(r) \/ Dropped(r)
          \/ \E w \in Workers : SettledBy(w, r)

LEMMA RequeueStep ==
    ASSUME TypeOK, NEW R, Requeue(R), NEW r \in Runs,
           r \in R => /\ status[r] = "claimed"
                      /\ \/ age[r] # 0
                         \/ \E p \in Procs : /\ claimedBy[r] = p
                                             /\ mode[p] = "draining"
                                             /\ mode'[p] = "stopped"
    PROVE  RowStep(r)
BY DEF Requeue, RowStep, TakenBack, Kept, TypeOK, RowsOK

LEMMA StepRow ==
    ASSUME CoreInv, [Next]_vars, NEW r \in Runs
    PROVE  RowStep(r)
<1>0. TypeOK /\ RowsOK /\ \A w \in Workers : SlotOK(w)
  BY DEF CoreInv, TypeOK
<1>a. ASSUME UNCHANGED <<status, attempts, claimedBy, key>> PROVE RowStep(r)
  BY <1>a DEF RowStep, Kept
<1>b. ASSUME UNCHANGED rowVars PROVE RowStep(r)
  BY <1>a, <1>b DEF rowVars
<1>1. ASSUME NEW p \in Procs, ProcNext(p) PROVE RowStep(r)
  <2>1. CASE Start(p)
    BY <2>1, <1>0, RequeueStep DEF Start, RecoverableRows
  <2>2. CASE StopRelease(p)
    <3>1. mode'[p] = "stopped" /\ mode[p] = "draining"
      BY <2>2, <1>0 DEF StopRelease, TypeOK, ProcsOK
    <3>2. QED
      BY <2>2, <3>1, <1>0, RequeueStep DEF StopRelease, ReleasedRows
  <2>3. CASE StartUnrecovered(p) \/ StopBegin(p) \/ StopUnreleased(p) \/ Die(p)
    BY <2>3, <1>b DEF StartUnrecovered, StopBegin, StopUnreleased, Die
  <2>4. CASE PauseWorker(p) \/ ResumeWorker(p)
    BY <2>4, <1>b DEF PauseWorker, ResumeWorker
  <2>5. ASSUME NEW g \in Gens,
               \/ WorkAgain(p, g)
               \/ \E begin \in {"live", "paused"} :
                     WorkFirst(p, g, begin) \/ WorkReplace(p, g, begin)
        PROVE  RowStep(r)
    BY <2>5, <1>b DEF WorkAgain, WorkFirst, WorkReplace
  <2>6. QED
    BY <1>1, <2>1, <2>2, <2>3, <2>4, <2>5 DEF ProcNext, StopDrained, StopTimedOut
<1>2. ASSUME NEW p \in Procs, SendNext(p) PROVE RowStep(r)
  <2>1. ASSUME NEW m \in Sends, NEW i \in Runs, SendInsert(p, i, m) PROVE RowStep(r)
    <3>1. CASE i = r
      BY <2>1, <3>1 DEF RowStep, Inserted
    <3>2. CASE i # r
      BY <2>1, <3>2, <1>0 DEF RowStep, Kept, SendInsert, RowsOK
    <3>3. QED
      BY <3>1, <3>2
  <2>2. ASSUME SendLookup(p) \/ \E m \in Sends : SendConflict(p, m)
        PROVE  RowStep(r)
    BY <2>2, <1>b DEF SendLookup, SendConflict
  <2>3. QED
    BY <1>2, <2>1, <2>2 DEF SendNext
<1>3. ASSUME NEW w \in Workers, LoopNext(w) PROVE RowStep(r)
  <2>a. ASSUME phase[w] = "claiming", NEW i \in NextRun, ClaimRow(w[1], i)
        PROVE  RowStep(r)
    BY <2>a, <1>0 DEF ClaimRow, NextRun, Claimable, RowStep, HandedOut, Kept, RowsOK
  <2>b. ASSUME phase[w] = "succeeded", CompleteRow(w), phase'[w] # phase[w]
        PROVE  RowStep(r)
    <3>1. CASE Owned(w)
      BY <2>b, <3>1, <1>0 DEF CompleteRow, RowStep, SettledBy, Kept, RowsOK
    <3>2. QED
      BY <2>b, <3>1, <1>b DEF CompleteRow
  <2>1. CASE LoopClaims(w) \/ ClaimNone(w) \/ StartHandler(w) \/ HandlerReturns(w)
                \/ HandlerThrows(w) \/ SettleThrows(w)
    BY <2>1, <1>b DEF LoopClaims, ClaimNone, StartHandler, HandlerReturns,
       HandlerThrows, SettleThrows
  <2>2. ASSUME NEW i \in Runs, ClaimOne(w, i) \/ ClaimUnheard(w, i)
        PROVE  RowStep(r)
    BY <2>2, <2>a DEF ClaimOne, ClaimUnheard
  <2>3. CASE HeartbeatClaim(w)
    BY <2>3, <1>a DEF HeartbeatClaim
  <2>4. CASE MarkCompleted(w)
    <3>1. phase'[w] # phase[w] /\ phase[w] = "succeeded"
      BY <2>4, <1>0 DEF MarkCompleted, LoopFree, TypeOK, LoopsOK
    <3>2. QED
      BY <2>4, <3>1, <2>b DEF MarkCompleted
  <2>5. CASE MarkFailed(w)
    <3>1. CASE Owned(w)
      BY <2>5, <3>1, <1>0
         DEF MarkFailed, LoopFree, FailRow, RowStep, SettledBy, Kept, TypeOK, RowsOK, LoopsOK
    <3>2. QED
      BY <2>5, <3>1, <1>b DEF MarkFailed, FailRow
  <2>6. CASE ScheduleRetry(w)
    <3>1. CASE Owned(w)
      BY <2>6, <3>1, <1>0
         DEF ScheduleRetry, LoopFree, RetryRow, RowStep, SettledBy, Kept, TypeOK, RowsOK, LoopsOK
    <3>2. QED
      BY <2>6, <3>1, <1>b DEF ScheduleRetry, RetryRow
  <2>7. ASSUME NEW committed \in BOOLEAN, MarkCompletedThrows(w, committed)
        PROVE  RowStep(r)
    <3>1. phase'[w] # phase[w] /\ phase[w] = "succeeded"
      BY <2>7, <1>0 DEF MarkCompletedThrows, TypeOK, LoopsOK
    <3>2. QED
      BY <2>7, <3>1, <1>b, <2>b DEF MarkCompletedThrows
  <2>8. QED
    BY <1>3, <2>1, <2>2, <2>3, <2>4, <2>5, <2>6, <2>7 DEF LoopNext
<1>4. CASE SweepNext
  <2>1. CASE SweepStaleClaims
    BY <2>1, <1>0, RequeueStep DEF SweepStaleClaims, StaleRows, RowsOK
  <2>2. CASE SweepReceipts
    BY <2>2, <1>b DEF SweepReceipts
  <2>3. ASSUME NEW n \in 1..3, SweepRuns(n) PROVE RowStep(r)
    BY <2>3, <1>0 DEF SweepRuns, Sweepable, RowStep, Dropped, Kept, RowsOK
  <2>4. QED
    BY <1>4, <2>1, <2>2, <2>3 DEF SweepNext
<1>5. CASE TimeNext
  BY <1>5, <1>a, <1>b DEF TimeNext, AgeRow, BecomeDue, Expire, AgeReceipt
<1>6. CASE UNCHANGED vars
  BY <1>6, <1>b DEF vars
<1>7. QED
  BY <1>1, <1>2, <1>3, <1>4, <1>5, <1>6 DEF Next

-----------------------------------------------------------------------------
LEMMA StepHistory ==
    ASSUME CoreInv, [Next]_vars, NEW r \in Runs
    PROVE  throws[r] <= throws'[r] /\ (ran[r] => ran'[r])
<1>0. TypeOK /\ HistoryOK /\ LoopsOK /\ \A w \in Workers : SlotOK(w)
  BY DEF CoreInv, TypeOK
<1>a. ASSUME UNCHANGED <<ran, throws>> PROVE throws[r] <= throws'[r] /\ (ran[r] => ran'[r])
  BY <1>0, <1>a, ConstantsAssumption DEF HistoryOK, ConstantsAssumption
<1>b. ASSUME NEW i \in Runs, OneMoreThrow(i) PROVE throws[r] <= throws'[r]
  BY <1>0, <1>b, ConstantsAssumption DEF OneMoreThrow, HistoryOK, ConstantsAssumption
<1>1. ASSUME NEW p \in Procs, ProcNext(p) \/ SendNext(p) PROVE UNCHANGED <<ran, throws>>
  BY <1>1 DEF ProcNext, SendNext, Start, StartUnrecovered, StopBegin, StopDrained,
     StopTimedOut, StopRelease, StopUnreleased, Die, PauseWorker, ResumeWorker, WorkAgain,
     WorkFirst, WorkReplace, SendConflict, SendInsert, SendLookup, historyVars
<1>2. ASSUME NEW w \in Workers, LoopNext(w)
      PROVE  throws[r] <= throws'[r] /\ (ran[r] => ran'[r])
  <2>1. CASE HandlerReturns(w)
    <3>1. ran[r] => ran'[r]
      BY <2>1, <1>0, Zenon DEF HandlerReturns, HistoryOK
    <3>2. throws[r] <= throws'[r]
      BY <2>1, <1>0, ConstantsAssumption DEF HandlerReturns, HistoryOK, ConstantsAssumption
    <3>3. QED
      BY <3>1, <3>2
  <2>2. CASE HandlerThrows(w)
    <3>1. job[w] \in Runs
      BY <2>2, <1>0 DEF HandlerThrows, SlotOK, Executing
    <3>2. QED
      BY <2>2, <3>1, <1>b DEF HandlerThrows
  <2>3. ASSUME NEW committed \in BOOLEAN, MarkCompletedThrows(w, committed)
        PROVE  throws[r] <= throws'[r] /\ (ran[r] => ran'[r])
    <3>1. job[w] \in Runs
      BY <2>3, <1>0 DEF MarkCompletedThrows, SlotOK, Executing
    <3>2. QED
      BY <2>3, <3>1, <1>b DEF MarkCompletedThrows
  <2>4. CASE \/ LoopClaims(w) \/ ClaimNone(w) \/ StartHandler(w) \/ HeartbeatClaim(w)
             \/ MarkCompleted(w) \/ MarkFailed(w) \/ ScheduleRetry(w) \/ SettleThrows(w)
             \/ \E i \in Runs : ClaimOne(w, i) \/ ClaimUnheard(w, i)
    BY <2>4, <1>a DEF LoopClaims, ClaimNone, StartHandler, HeartbeatClaim, MarkCompleted,
       MarkFailed, ScheduleRetry, SettleThrows, ClaimOne, ClaimUnheard, historyVars
  <2>5. QED
    BY <1>2, <2>1, <2>2, <2>3, <2>4 DEF LoopNext
<1>3. CASE SweepNext \/ TimeNext
  BY <1>3, <1>a DEF SweepNext, TimeNext, SweepStaleClaims, SweepReceipts, SweepRuns, AgeRow,
     BecomeDue, Expire, AgeReceipt, historyVars
<1>4. QED
  BY <1>1, <1>2, <1>3, <1>a DEF Next, vars, historyVars

(* The worker x takes a job.                                               *)
Fetched(x) == /\ phase[x] = "claiming" /\ phase'[x] = "fetched"
              /\ job'[x] \in Runs /\ status[job'[x]] = "pending"
              /\ status'[job'[x]] = "claimed" /\ claimedBy'[job'[x]] = x[1]
              /\ snap'[x] = attempts[job'[x]]
              /\ \A y \in Workers \ {x} : phase'[y] = phase[y]

(* It goes on with the one it has.                                         *)
Proceeded(x) == /\ phase[x] \in Executing
                /\ job'[x] = job[x] /\ snap'[x] = snap[x]
                /\ \/ phase[x] = "fetched" /\ phase'[x] = "running"
                   \/ phase[x] = "running" /\ phase'[x] = "succeeded" /\ ran'[job[x]]
                   \/ /\ phase[x] \in {"running", "succeeded"} /\ phase'[x] = "threw"
                      /\ snap[x] < throws'[job[x]]

SlotStep(x) ==
    \/ phase'[x] \notin Executing
    \/ phase'[x] = phase[x] /\ job'[x] = job[x] /\ snap'[x] = snap[x]
    \/ Fetched(x) \/ Proceeded(x)

LEMMA StepSlot ==
    ASSUME CoreInv, [Next]_vars, NEW x \in Workers
    PROVE  SlotStep(x)
<1>0. TypeOK /\ RowsOK /\ HistoryOK /\ LoopsOK /\ \A w \in Workers : SlotOK(w)
  BY DEF CoreInv, TypeOK
<1>a. ASSUME UNCHANGED loopVars PROVE SlotStep(x)
  BY <1>a DEF loopVars, SlotStep
<1>b. ASSUME NEW w \in Workers, w # x, NEW f, NEW j, NEW n,
             phase' = [phase EXCEPT ![w] = f],
             job' = [job EXCEPT ![w] = j] \/ job' = job,
             snap' = [snap EXCEPT ![w] = n] \/ snap' = snap
      PROVE  SlotStep(x)
  BY <1>0, <1>b DEF SlotStep, LoopsOK
<1>1. ASSUME NEW p \in Procs, ProcNext(p) PROVE SlotStep(x)
  <2>1. CASE Die(p)
    BY <2>1, <1>0 DEF Die, SlotStep, Executing
  <2>2. CASE ~Die(p)
    BY <1>1, <2>2, <1>a DEF ProcNext, Start, StartUnrecovered, StopBegin, StopDrained,
       StopTimedOut, StopRelease, StopUnreleased, PauseWorker, ResumeWorker, WorkAgain,
       WorkFirst, WorkReplace
  <2>3. QED
    BY <2>1, <2>2
<1>2. ASSUME NEW p \in Procs, SendNext(p) PROVE SlotStep(x)
  BY <1>2, <1>a DEF SendNext, SendConflict, SendInsert, SendLookup
<1>3. CASE SweepNext \/ TimeNext
  BY <1>3, <1>a DEF SweepNext, TimeNext, SweepStaleClaims, SweepReceipts, SweepRuns, AgeRow,
     BecomeDue, Expire, AgeReceipt
<1>4. ASSUME NEW w \in Workers, LoopNext(w), w # x PROVE SlotStep(x)
  <2>1. UNCHANGED loopVars \/
          /\ \E f : phase' = [phase EXCEPT ![w] = f]
          /\ job' = job \/ \E j : job' = [job EXCEPT ![w] = j]
          /\ snap' = snap \/ \E n : snap' = [snap EXCEPT ![w] = n]
    BY <1>4 DEF LoopNext, LoopClaims, ClaimNone, StartHandler, HeartbeatClaim, MarkCompleted,
       MarkFailed, ScheduleRetry, SettleThrows, ClaimOne, ClaimUnheard, HandlerReturns,
       HandlerThrows, MarkCompletedThrows, LoopFree, loopVars
  <2>2. QED
    BY <2>1, <1>4, <1>0, <1>a DEF SlotStep, LoopsOK
<1>5. ASSUME LoopNext(x) PROVE SlotStep(x)
  <2>a. ASSUME OneMoreThrow(job[x]), phase[x] \in Executing
        PROVE  snap[x] < throws'[job[x]]
    BY <2>a, <1>0, ConstantsAssumption
       DEF OneMoreThrow, SlotOK, HistoryOK, LoopsOK, ConstantsAssumption
  <2>1. CASE LoopClaims(x) \/ ClaimNone(x) \/ HeartbeatClaim(x)
    BY <2>1, <1>0, <1>a DEF LoopClaims, ClaimNone, HeartbeatClaim, SlotStep, LoopsOK, Executing
  <2>2. CASE MarkCompleted(x) \/ MarkFailed(x) \/ ScheduleRetry(x) \/ SettleThrows(x)
    BY <2>2, <1>0 DEF MarkCompleted, MarkFailed, ScheduleRetry, SettleThrows, LoopFree,
       SlotStep, LoopsOK, Executing
  <2>3. ASSUME NEW i \in Runs, ClaimUnheard(x, i) PROVE SlotStep(x)
    BY <2>3, <1>0 DEF ClaimUnheard, SlotStep, LoopsOK, Executing
  <2>4. ASSUME NEW i \in Runs, ClaimOne(x, i) PROVE SlotStep(x)
    BY <2>4, <1>0 DEF ClaimOne, ClaimRow, NextRun, Claimable, SlotStep, Fetched, LoopsOK, RowsOK
  <2>5. CASE StartHandler(x)
    BY <2>5, <1>0 DEF StartHandler, SlotStep, Proceeded, LoopsOK, Executing
  <2>6. CASE HandlerReturns(x)
    <3>1. phase[x] \in Executing /\ phase'[x] = "succeeded"
      BY <2>6, <1>0 DEF HandlerReturns, LoopsOK, Executing
    <3>2. ran'[job[x]]
      <4>1. job[x] \in Runs
        BY <3>1, <1>0 DEF SlotOK
      <4>2. QED
        BY <2>6, <4>1, <1>0, Zenon DEF HandlerReturns, HistoryOK
    <3>3. QED
      BY <2>6, <3>1, <3>2 DEF HandlerReturns, SlotStep, Proceeded
  <2>7. CASE HandlerThrows(x)
    BY <2>7, <2>a, <1>0 DEF HandlerThrows, SlotStep, Proceeded, LoopsOK, Executing
  <2>8. ASSUME NEW committed \in BOOLEAN, MarkCompletedThrows(x, committed)
        PROVE  SlotStep(x)
    BY <2>8, <2>a, <1>0 DEF MarkCompletedThrows, SlotStep, Proceeded, LoopsOK, Executing
  <2>9. QED
    BY <1>5, <2>1, <2>2, <2>3, <2>4, <2>5, <2>6, <2>7, <2>8 DEF LoopNext
<1>6. QED
  BY <1>1, <1>2, <1>3, <1>4, <1>5, <1>a DEF Next, vars

-----------------------------------------------------------------------------
(* The invariant is inductive                                              *)

LEMMA InsertedRow ==
    ASSUME CoreInv, NEW r \in Runs, Inserted(r)
    PROVE  /\ status[r] = "absent" /\ status'[r] = "pending"
           /\ attempts'[r] = attempts[r] /\ UNCHANGED <<ran, throws>>
           /\ \A s \in Runs : s # r => status'[s] = status[s] /\ key'[s] = key[s]
           /\ key'[r] # NoKey => ActiveWithKey(key'[r]) = {}
BY DEF Inserted, SendInsert, CoreInv, TypeOK, RowsOK, historyVars

LEMMA StepBudget ==
    ASSUME CoreInv, [Next]_vars, NEW r \in Runs
    PROVE  RowBudget(r)'
<1> USE ConstantsAssumption DEF ConstantsAssumption
<1>0. /\ RowBudget(r) /\ \A w \in Workers : SlotOK(w)
      /\ attempts[r] \in 0..MaxAttempts /\ attempts'[r] \in 0..MaxAttempts
      /\ throws[r] \in 0..MaxAttempts /\ throws'[r] \in 0..MaxAttempts
      /\ snap \in [Workers -> 0..MaxAttempts]
      /\ throws[r] <= throws'[r]
  BY StepTypeOK, StepHistory DEF CoreInv, TypeOK, RowsOK, HistoryOK, LoopsOK
<1> USE DEF RowBudget, Active
<1>1. CASE Inserted(r)
  BY <1>0, <1>1, InsertedRow
<1>2. CASE Kept(r) \/ HandedOut(r) \/ TakenBack(r) \/ Dropped(r)
  BY <1>0, <1>2 DEF Kept, HandedOut, TakenBack, Dropped
<1>3. ASSUME NEW w \in Workers, SettledBy(w, r) PROVE RowBudget(r)'
  <2>1. /\ status[r] = "claimed" /\ phase[w] \in Executing
        /\ snap[w] < MaxAttempts /\ snap[w] \in 0..MaxAttempts
        /\ phase[w] = "threw" => snap[w] < throws[r]
    BY <1>0, <1>3 DEF SettledBy, Owned, SlotOK, Executing
  <2>2. QED
    BY <1>0, <1>3, <2>1 DEF SettledBy
<1>4. QED
  BY <1>1, <1>2, <1>3, StepRow DEF RowStep

LEMMA NeverAbsentAgain ==
    ASSUME CoreInv, [Next]_vars, NEW r \in Runs, status[r] # "absent"
    PROVE  status'[r] # "absent" /\ key'[r] = key[r]
BY StepRow, InsertedRow
   DEF RowStep, Kept, HandedOut, TakenBack, Dropped, SettledBy

LEMMA StepSlotOK ==
    ASSUME CoreInv, [Next]_vars, NEW w \in Workers
    PROVE  SlotOK(w)'
<1> USE ConstantsAssumption DEF ConstantsAssumption
<1>0. /\ SlotOK(w) /\ \A r \in Runs : RowBudget(r)
      /\ attempts \in [Runs -> 0..MaxAttempts]
      /\ throws \in [Runs -> 0..MaxAttempts] /\ throws' \in [Runs -> 0..MaxAttempts]
      /\ snap \in [Workers -> 0..MaxAttempts]
  BY StepTypeOK DEF CoreInv, TypeOK, RowsOK, HistoryOK, LoopsOK
<1>1. SUFFICES ASSUME phase'[w] \in Executing PROVE SlotOK(w)'
  BY DEF SlotOK
<1>2. CASE Fetched(w)
  <2>1. RowBudget(job'[w]) /\ throws[job'[w]] <= throws'[job'[w]]
    BY <1>0, <1>2, StepHistory DEF Fetched
  <2>2. QED
    BY <1>0, <1>2, <2>1 DEF Fetched, SlotOK, RowBudget, Active
<1>3. CASE \/ phase'[w] = phase[w] /\ job'[w] = job[w] /\ snap'[w] = snap[w]
           \/ Proceeded(w)
  <2>1. phase[w] \in Executing /\ job'[w] = job[w] /\ snap'[w] = snap[w]
    BY <1>1, <1>3 DEF Proceeded
  <2>2. /\ job[w] \in Runs /\ status[job[w]] # "absent"
        /\ snap[w] < MaxAttempts /\ snap[w] <= throws[job[w]]
        /\ phase[w] = "threw" => snap[w] < throws[job[w]]
        /\ phase[w] = "succeeded" => ran[job[w]]
    BY <1>0, <2>1 DEF SlotOK
  <2>3. /\ status'[job[w]] # "absent"
        /\ throws[job[w]] <= throws'[job[w]]
        /\ ran[job[w]] => ran'[job[w]]
    BY <2>2, NeverAbsentAgain, StepHistory
  <2>4. snap[w] <= throws'[job[w]] /\ (phase[w] = "threw" => snap[w] < throws'[job[w]])
    BY <1>0, <2>2, <2>3
  <2>5. QED
    BY <1>3, <2>1, <2>2, <2>3, <2>4 DEF Proceeded, SlotOK
<1>4. QED
  BY <1>1, <1>2, <1>3, StepSlot DEF SlotStep

LEMMA StepCoreInv == CoreInv /\ [Next]_vars => CoreInv'
BY StepTypeOK, StepBudget, StepSlotOK DEF CoreInv

LEMMA CoreInvHolds == Spec => []CoreInv
BY InitCoreInv, StepCoreInv, PTL DEF Spec

-----------------------------------------------------------------------------
(* The theorems                                                            *)

(* Every variable keeps its type: in particular no retry, failure or       *)
(* recovery ever takes attempts beyond max_attempts.                       *)
THEOREM TypeCorrect == Spec => []TypeOK
<1>1. CoreInv => TypeOK
  BY DEF CoreInv
<1>2. QED
  BY <1>1, CoreInvHolds, PTL

(* Attempts are spent by invocations that threw and by nothing else, for   *)
(* any number of processes and replaced workers: neither a crash nor a     *)
(* lost or stolen claim brings a run to its dead letter.                   *)
THEOREM BudgetHonest == Spec => []BudgetSpentByThrows
<1>1. CoreInv => BudgetSpentByThrows
  BY DEF CoreInv, RowBudget, BudgetSpentByThrows
<1>2. QED
  BY <1>1, CoreInvHolds, PTL

(* A run that is completed or failed is never handed out, retried or       *)
(* finished again, whoever still works on it.                              *)
THEOREM NoRevival == Spec => FinishedForGood
<1>1. ASSUME CoreInv, [Next]_vars, NEW r \in Runs, status[r] \in Finished
      PROVE  status'[r] \in {status[r], "deleted"}
  BY <1>1, StepRow, InsertedRow
     DEF RowStep, Kept, HandedOut, TakenBack, Dropped, SettledBy, Owned, Finished
<1>2. CoreInv /\ [Next]_vars =>
        [\A r \in Runs : status[r] \in Finished => status'[r] \in {status[r], "deleted"}]_vars
  BY <1>1
<1>3. QED
  BY <1>2, CoreInvHolds, PTL DEF Spec, FinishedForGood

(* Only its holder ends a claim that is not past the visibility timeout,   *)
(* by one of its workers or by its stop().                                 *)
THEOREM HolderEndsClaim == Spec => FreshClaimEndsByHolder
<1> DEFINE Ended(r, p) == /\ status[r] = "claimed" /\ claimedBy[r] = p /\ age[r] = 0
                          /\ status'[r] # "claimed" \/ claimedBy'[r] # p
           ByHolder(p) == \/ mode[p] = "draining" /\ mode'[p] = "stopped"
                          \/ \E g \in Gens : phase[<<p, g>>] # phase'[<<p, g>>]
<1>1. ASSUME CoreInv, [Next]_vars, NEW r \in Runs, NEW p \in Procs, Ended(r, p)
      PROVE  ByHolder(p)
  <2>1. CASE TakenBack(r)
    BY <1>1, <2>1 DEF TakenBack
  <2>2. ASSUME NEW w \in Workers, SettledBy(w, r) PROVE ByHolder(p)
    <3>1. PICK g \in Gens : w = <<p, g>>
      BY <1>1, <2>2 DEF SettledBy, Owned, Workers
    <3>2. QED
      BY <2>2, <3>1 DEF SettledBy
  <2>3. ~Inserted(r) /\ ~Kept(r) /\ ~HandedOut(r) /\ ~Dropped(r)
    BY <1>1, InsertedRow DEF Kept, HandedOut, Dropped
  <2>4. QED
    BY <1>1, <2>1, <2>2, <2>3, StepRow DEF RowStep
<1>2. CoreInv /\ [Next]_vars =>
        [\A r \in Runs, p \in Procs : Ended(r, p) => ByHolder(p)]_vars
  BY <1>1
<1>3. QED
  BY <1>2, CoreInvHolds, PTL DEF Spec, FreshClaimEndsByHolder

(* At most one pending or claimed row per idempotency key, whatever is     *)
(* requeued or retried while the key is sent again.                        *)
THEOREM KeysUnique == Spec => []ActiveKeysUnique
<1>1. Init => ActiveKeysUnique
  BY DEF Init, ActiveKeysUnique, Active
<1>2. ASSUME CoreInv, ActiveKeysUnique, [Next]_vars PROVE ActiveKeysUnique'
  <2>1. SUFFICES ASSUME NEW r \in Runs, NEW s \in Runs, r # s,
                        status'[r] \in Active, status'[s] \in Active,
                        key'[r] = key'[s], key'[r] # NoKey
                 PROVE  FALSE
    BY DEF ActiveKeysUnique
  <2>2. ASSUME NEW i \in Runs, status'[i] \in Active, ~Inserted(i)
        PROVE  status[i] \in Active /\ key'[i] = key[i]
    BY <1>2, <2>2, StepRow
       DEF RowStep, Kept, HandedOut, TakenBack, Dropped, SettledBy, Owned, Active
  <2>3. ASSUME NEW i \in Runs, NEW j \in Runs, i # j, Inserted(i),
               status'[j] \in Active, key'[i] = key'[j], key'[i] # NoKey
        PROVE  FALSE
    BY <1>2, <2>3, InsertedRow DEF ActiveWithKey
  <2>4. QED
    BY <1>2, <2>1, <2>2, <2>3 DEF ActiveKeysUnique
<1>3. QED
  BY <1>1, <1>2, CoreInvHolds, PTL DEF Spec

-----------------------------------------------------------------------------
(* Receipts                                                                *)

Stored(k) == \E r \in Runs : key[r] = k /\ status[r] # "absent"

TxStored(p) == tx[p] # NoTx => tx[p].key \in Keys /\ Stored(tx[p].key)

ReceiptStored(k) ==
    receipt[k].there =>
        /\ Stored(k)
        /\ receipt[k].run # NoRun =>
              status[receipt[k].run] # "absent" /\ key[receipt[k].run] = k

ReceiptInv == (\A p \in Procs : TxStored(p)) /\ (\A k \in Keys : ReceiptStored(k))

(* Stored(k)' for a k that depends on the state.                           *)
StoredNext(k) == \E r \in Runs : key'[r] = k /\ status'[r] # "absent"

LEMMA StepReceiptInv ==
    ASSUME CoreInv, ReceiptInv, [Next]_vars
    PROVE  ReceiptInv'
<1> USE DEF CoreInv, TypeOK, ReceiptsOK, ProcsOK
<1>s. \A k : Stored(k) => StoredNext(k)
  BY NeverAbsentAgain DEF Stored, StoredNext
<1>a. ASSUME NEW p \in Procs, tx'[p] \in {tx[p], NoTx} PROVE TxStored(p)'
  <2>1. SUFFICES ASSUME tx'[p] # NoTx PROVE TxStored(p)'
    BY DEF TxStored, NoTx
  <2>2. tx'[p] = tx[p] /\ tx[p].key \in Keys /\ Stored(tx[p].key)
    BY <1>a, <2>1 DEF ReceiptInv, TxStored, NoTx
  <2>3. StoredNext(tx[p].key)
    BY <1>s, <2>2
  <2>4. QED
    BY <2>2, <2>3 DEF TxStored, Stored, StoredNext
<1>b. ASSUME NEW k \in Keys, receipt'[k].there => receipt[k].there,
             receipt'[k].there => receipt'[k].run = receipt[k].run
      PROVE  ReceiptStored(k)'
  <2>1. SUFFICES ASSUME receipt'[k].there PROVE ReceiptStored(k)'
    BY DEF ReceiptStored
  <2>2. ReceiptStored(k) /\ receipt[k].there /\ receipt'[k].run = receipt[k].run
    BY <2>1, <1>b DEF ReceiptInv
  <2>3. Stored(k)'
    BY <2>2, <1>s DEF ReceiptStored, Stored, StoredNext
  <2>4. receipt[k].run # NoRun =>
          status'[receipt[k].run] # "absent" /\ key'[receipt[k].run] = k
    BY <2>2, NeverAbsentAgain DEF ReceiptStored
  <2>5. QED
    BY <2>2, <2>3, <2>4 DEF ReceiptStored
<1>c. ASSUME UNCHANGED <<tx, receipt>> PROVE ReceiptInv'
  BY <1>a, <1>b, <1>c DEF ReceiptInv
<1>1. ASSUME NEW p \in Procs, ProcNext(p) PROVE ReceiptInv'
  <2>1. CASE Die(p)
    <3>1. receipt' = receipt /\ \A q \in Procs : tx'[q] \in {tx[q], NoTx}
      BY <2>1 DEF Die
    <3>2. QED
      BY <3>1, <1>a, <1>b DEF ReceiptInv
  <2>2. CASE ~Die(p)
    BY <1>1, <2>2, <1>c DEF ProcNext, Start, StartUnrecovered, StopBegin, StopDrained,
       StopTimedOut, StopRelease, StopUnreleased, PauseWorker, ResumeWorker, WorkAgain,
       WorkFirst, WorkReplace, procVars
  <2>3. QED
    BY <2>1, <2>2
<1>2. ASSUME NEW p \in Procs, NEW m \in Sends, NEW r \in Runs, SendInsert(p, r, m)
      PROVE  ReceiptInv'
  <2>1. status'[r] # "absent" /\ key'[r] = m.key /\ tx' = tx
    BY <1>2 DEF SendInsert, RowsOK, procVars
  <2>2. ASSUME NEW k \in Keys PROVE ReceiptStored(k)'
    <3>1. CASE m.durable /\ k = m.key
      <4>1. receipt'[k].run = r
        BY <1>2, <3>1 DEF SendInsert
      <4>2. QED
        BY <2>1, <3>1, <4>1 DEF ReceiptStored, Stored
    <3>2. CASE ~(m.durable /\ k = m.key)
      <4>1. receipt'[k] = receipt[k]
        BY <1>2, <3>2 DEF SendInsert
      <4>2. QED
        BY <4>1, <1>b
    <3>3. QED
      BY <3>1, <3>2
  <2>3. QED
    BY <2>1, <2>2, <1>a DEF ReceiptInv
<1>3. ASSUME NEW p \in Procs, NEW m \in Sends, SendConflict(p, m)
      PROVE  ReceiptInv'
  <2>1. m.key \in Keys /\ Stored(m.key)
    BY <1>3, ConstantsAssumption
       DEF SendConflict, ActiveWithKey, Stored, Active, ConstantsAssumption
  <2>2. ASSUME NEW q \in Procs PROVE TxStored(q)'
    <3>1. CASE q = p
      <4>1. tx'[q].key = m.key
        BY <1>3, <3>1 DEF SendConflict
      <4>2. StoredNext(m.key)
        BY <2>1, <1>s
      <4>3. QED
        BY <2>1, <4>1, <4>2 DEF TxStored, Stored, StoredNext
    <3>2. CASE q # p
      BY <1>3, <3>2, <1>a DEF SendConflict
    <3>3. QED
      BY <3>1, <3>2
  <2>3. receipt' = receipt
    BY <1>3 DEF SendConflict
  <2>4. QED
    BY <2>2, <2>3, <1>b DEF ReceiptInv
<1>4. ASSUME NEW p \in Procs, SendLookup(p)
      PROVE  ReceiptInv'
  <2>1. TxStored(p) /\ tx[p] # NoTx
    BY <1>4 DEF SendLookup, ReceiptInv
  <2>2. tx[p].key \in Keys /\ StoredNext(tx[p].key)
    BY <2>1, <1>s DEF TxStored
  <2>3. \A q \in Procs : tx'[q] \in {tx[q], NoTx}
    BY <1>4 DEF SendLookup
  <2>4. ASSUME NEW k \in Keys PROVE ReceiptStored(k)'
    <3>1. CASE receipt'[k] = receipt[k]
      BY <3>1, <1>b
    <3>2. CASE receipt'[k] # receipt[k]
      <4>1. k = tx[p].key
        BY <1>4, <3>2 DEF SendLookup
      <4>2. \E r \in {NoRun} \union ActiveWithKey(k) :
              receipt' = [receipt EXCEPT ![k] =
                            [there |-> TRUE, run |-> r, old |-> FALSE]]
        BY <1>4, <4>1, <3>2 DEF SendLookup
      <4>3. receipt'[k].run # NoRun =>
              status'[receipt'[k].run] # "absent" /\ key'[receipt'[k].run] = k
        <5>1. receipt'[k].run = NoRun \/ receipt'[k].run \in ActiveWithKey(k)
          BY <4>2
        <5>2. QED
          BY <5>1, NeverAbsentAgain DEF ActiveWithKey, Active
      <4>4. QED
        BY <2>2, <4>1, <4>3 DEF ReceiptStored, Stored, StoredNext
    <3>3. QED
      BY <3>1, <3>2
  <2>5. QED
    BY <2>3, <2>4, <1>a DEF ReceiptInv
<1>5. ASSUME NEW w \in Workers, LoopNext(w) PROVE ReceiptInv'
  BY <1>5, <1>c DEF LoopNext, LoopClaims, ClaimNone, StartHandler, HeartbeatClaim,
     MarkCompleted, MarkFailed, ScheduleRetry, SettleThrows, ClaimOne, ClaimUnheard,
     HandlerReturns, HandlerThrows, MarkCompletedThrows, procVars
<1>6. CASE SweepReceipts
  <2>1. tx' = tx /\ \A k \in Keys : receipt'[k] \in {NoReceipt, receipt[k]}
    BY <1>6 DEF SweepReceipts, procVars
  <2>2. QED
    BY <2>1, <1>a, <1>b DEF ReceiptInv, NoReceipt
<1>7. ASSUME NEW k \in Keys, AgeReceipt(k) PROVE ReceiptInv'
  <2>1. tx' = tx /\ receipt' = [receipt EXCEPT ![k] = [receipt[k] EXCEPT !.old = TRUE]]
    BY <1>7 DEF AgeReceipt, procVars
  <2>2. \A i \in Keys : receipt'[i].there = receipt[i].there /\ receipt'[i].run = receipt[i].run
    BY <2>1
  <2>3. QED
    BY <2>1, <2>2, <1>a, <1>b DEF ReceiptInv
<1>8. CASE SweepStaleClaims \/ (\E n \in 1..3 : SweepRuns(n))
           \/ (\E r \in Runs : AgeRow(r) \/ BecomeDue(r) \/ Expire(r))
  BY <1>8, <1>c DEF SweepStaleClaims, SweepRuns, AgeRow, BecomeDue, Expire, procVars
<1>9. CASE UNCHANGED vars
  BY <1>9, <1>c DEF vars, procVars
<1>10. QED
  BY <1>1, <1>2, <1>3, <1>4, <1>5, <1>6, <1>7, <1>8, <1>9
     DEF Next, SendNext, SweepNext, TimeNext

(* A durable send is deduplicated only by the receipt of a row that was    *)
(* really inserted under its key, even when it lost the race for the key.  *)
THEOREM ReceiptsSound == Spec => []ReceiptStandsForRun
<1>1. Init => ReceiptInv
  BY DEF Init, ReceiptInv, TxStored, ReceiptStored, NoTx, NoReceipt
<1>2. ReceiptInv => ReceiptStandsForRun
  BY DEF ReceiptInv, ReceiptStored, ReceiptStandsForRun, Stored
<1>3. QED
  BY <1>1, <1>2, StepReceiptInv, CoreInvHolds, PTL DEF Spec

-----------------------------------------------------------------------------
(* The queue implements its ledger                                         *)

Mapped == [r \in Runs |-> LedgerOf(r)]
Returned == {r \in Runs : ran[r]}

(* A step that moves no row across the ledger's states.                    *)
LEMMA SameLedger ==
    ASSUME \A r \in Runs : \/ status'[r] = status[r]
                           \/ status[r] \in Active /\ status'[r] \in Active
    PROVE  Mapped' = Mapped
<1>1. ASSUME NEW r \in Runs PROVE LedgerOf(r)' = LedgerOf(r)
  BY <1>1 DEF LedgerOf, Active
<1>2. QED
  BY <1>1 DEF Mapped

(* A step that moves one row to the ledger's state new.                    *)
LEMMA OneEntry ==
    ASSUME NEW i \in Runs, NEW new, LedgerOf(i)' = new,
           \A r \in Runs \ {i} : status'[r] = status[r]
    PROVE  Mapped' = [Mapped EXCEPT ![i] = new]
<1>1. \A r \in Runs \ {i} : LedgerOf(r)' = LedgerOf(r)
  BY DEF LedgerOf, Active
<1>2. QED
  BY <1>1 DEF Mapped

LEMMA RequeueKeepsLedger ==
    ASSUME NEW R, Requeue(R), \A r \in R : status[r] = "claimed"
    PROVE  Mapped' = Mapped
<1>1. \A r \in Runs : \/ status'[r] = status[r]
                      \/ status[r] \in Active /\ status'[r] \in Active
  BY DEF Requeue, Active
<1>2. QED
  BY <1>1, SameLedger

LEMMA LedgerInitHolds == Init => Ledger!LedgerInit
BY DEF Init, Ledger!LedgerInit, LedgerOf, Active

LEMMA LedgerStep ==
    ASSUME CoreInv, [Next]_vars
    PROVE  [Ledger!LedgerNext]_(Ledger!ledgerVars)
<1> USE ConstantsAssumption DEF ConstantsAssumption
<1>0. /\ TypeOK /\ RowsOK /\ HistoryOK /\ LoopsOK
      /\ \A w \in Workers : SlotOK(w)
      /\ \A r \in Runs : RowBudget(r)
  BY DEF CoreInv, TypeOK
<1> DEFINE Goal == [Ledger!LedgerNext]_(Ledger!ledgerVars)
<1>a. ASSUME Mapped' = Mapped, UNCHANGED <<ran, throws>> PROVE Goal
  BY <1>a DEF Mapped, Ledger!ledgerVars
<1>b. ASSUME UNCHANGED <<status, ran, throws>> PROVE Goal
  BY <1>a, <1>b, SameLedger
<1>r. ASSUME NEW R, Requeue(R), \A r \in R : status[r] = "claimed", UNCHANGED <<ran, throws>>
      PROVE  Goal
  BY <1>a, <1>r, RequeueKeepsLedger
<1>t. ASSUME NEW i \in Runs, OneMoreThrow(i), status[i] # "absent", UNCHANGED <<status, ran>>
      PROVE  Goal
  <2>1. Mapped' = Mapped /\ Mapped[i] # "absent"
    BY <1>t, <1>0, SameLedger DEF Mapped, LedgerOf, Active
  <2>2. CASE throws[i] < MaxAttempts
    <3>1. throws' = [throws EXCEPT ![i] = @ + 1]
      BY <1>t, <2>2, <1>0 DEF OneMoreThrow, HistoryOK
    <3>2. Ledger!Throw(i)
      BY <1>t, <2>1, <2>2, <3>1 DEF Ledger!Throw, Mapped
    <3>3. QED
      BY <3>2 DEF Ledger!LedgerNext
  <2>3. CASE ~(throws[i] < MaxAttempts)
    <3>1. throws' = throws
      BY <1>t, <2>3, <1>0 DEF OneMoreThrow, HistoryOK
    <3>2. QED
      BY <1>a, <1>t, <2>1, <3>1
  <2>4. QED
    BY <2>2, <2>3
<1>1. ASSUME NEW p \in Procs, ProcNext(p) PROVE Goal
  <2>1. CASE Start(p)
    BY <2>1, <1>r DEF Start, RecoverableRows, historyVars
  <2>2. CASE StopRelease(p)
    BY <2>2, <1>r DEF StopRelease, ReleasedRows, historyVars
  <2>3. CASE ~Start(p) /\ ~StopRelease(p)
    BY <1>1, <2>3, <1>b DEF ProcNext, StartUnrecovered, StopBegin, StopDrained,
       StopTimedOut, StopUnreleased, Die, PauseWorker, ResumeWorker, WorkAgain,
       WorkFirst, WorkReplace, rowVars, historyVars
  <2>4. QED
    BY <2>1, <2>2, <2>3
<1>2. ASSUME NEW p \in Procs, SendNext(p) PROVE Goal
  <2>1. ASSUME NEW m \in Sends, NEW r \in Runs, SendInsert(p, r, m) PROVE Goal
    <3>1. /\ status[r] = "absent" /\ status'[r] = "pending"
          /\ \A i \in Runs \ {r} : status'[i] = status[i]
          /\ UNCHANGED <<ran, throws>>
      BY <2>1, <1>0 DEF SendInsert, RowsOK, historyVars
    <3>2. Mapped' = [Mapped EXCEPT ![r] = "open"] /\ Mapped[r] = "absent"
      <4>1. LedgerOf(r) = "absent" /\ LedgerOf(r)' = "open"
        BY <3>1 DEF LedgerOf, Active
      <4>2. QED
        BY <3>1, <4>1, OneEntry DEF Mapped
    <3>3. Ledger!Open(r)
      BY <3>1, <3>2 DEF Ledger!Open, Mapped
    <3>4. QED
      BY <3>3 DEF Ledger!LedgerNext
  <2>2. CASE SendLookup(p) \/ \E m \in Sends : SendConflict(p, m)
    BY <2>2, <1>b DEF SendLookup, SendConflict, rowVars, historyVars
  <2>3. QED
    BY <1>2, <2>1, <2>2 DEF SendNext
<1>3. ASSUME NEW w \in Workers, LoopNext(w) PROVE Goal
  <2>1. ASSUME NEW r \in Runs, ClaimOne(w, r) \/ ClaimUnheard(w, r) PROVE Goal
    <3>1. \A i \in Runs : \/ status'[i] = status[i]
                          \/ status[i] \in Active /\ status'[i] \in Active
      BY <2>1, <1>0 DEF ClaimOne, ClaimUnheard, ClaimRow, NextRun, Claimable, RowsOK, Active
    <3>2. UNCHANGED <<ran, throws>>
      BY <2>1 DEF ClaimOne, ClaimUnheard, historyVars
    <3>3. QED
      BY <3>1, <3>2, <1>a, SameLedger
  <2>2. CASE HandlerReturns(w)
    <3>1. /\ job[w] \in Runs /\ status[job[w]] # "absent"
          /\ UNCHANGED <<status, throws>> /\ ran' = [ran EXCEPT ![job[w]] = TRUE]
      BY <2>2, <1>0 DEF HandlerReturns, SlotOK, Executing, rowVars
    <3>2. Mapped' = Mapped /\ Mapped[job[w]] # "absent"
      BY <3>1, <1>0, SameLedger DEF Mapped, LedgerOf, Active
    <3>3. PICK r \in Runs : r = job[w]
      BY <3>1
    <3>4. Returned' = Returned \union {r}
      BY <3>1, <3>3, <1>0 DEF Returned, HistoryOK
    <3>5. Ledger!Return(r)
      BY <3>1, <3>2, <3>3, <3>4 DEF Ledger!Return, Mapped, Returned
    <3>6. QED
      BY <3>5 DEF Ledger!LedgerNext
  <2>3. CASE HandlerThrows(w)
    BY <2>3, <1>0, <1>t DEF HandlerThrows, SlotOK, Executing, rowVars
  <2>c. ASSUME phase[w] = "succeeded", Owned(w), CompleteRow(w)
        PROVE  /\ job[w] \in Runs /\ ran[job[w]] /\ Mapped[job[w]] = "open"
               /\ Mapped' = [Mapped EXCEPT ![job[w]] = "completed"]
    <3>1. job[w] \in Runs /\ ran[job[w]]
      BY <2>c, <1>0 DEF SlotOK, Executing
    <3>2. /\ status[job[w]] = "claimed" /\ status'[job[w]] = "completed"
          /\ \A i \in Runs \ {job[w]} : status'[i] = status[i]
      BY <2>c, <3>1, <1>0 DEF CompleteRow, Owned, RowsOK
    <3>3. LedgerOf(job[w]) = "open"
      BY <3>2 DEF LedgerOf, Active
    <3>4. PICK i \in Runs : i = job[w]
      BY <3>1
    <3>5. LedgerOf(i)' = "completed"
      BY <3>2, <3>4 DEF LedgerOf, Active
    <3>6. Mapped' = [Mapped EXCEPT ![i] = "completed"]
      BY <3>2, <3>4, <3>5, OneEntry
    <3>7. QED
      BY <3>1, <3>3, <3>4, <3>6 DEF Mapped
  <2>4. CASE MarkCompleted(w)
    <3>1. UNCHANGED <<ran, throws>>
      BY <2>4 DEF MarkCompleted, historyVars
    <3>2. CASE Owned(w)
      <4>1. Ledger!Complete(job[w]) /\ job[w] \in Runs
        BY <2>4, <3>1, <3>2, <2>c DEF MarkCompleted, Ledger!Complete, Mapped
      <4>2. QED
        BY <4>1 DEF Ledger!LedgerNext
    <3>3. CASE ~Owned(w)
      BY <2>4, <3>1, <3>3, <1>b DEF MarkCompleted, CompleteRow, rowVars
    <3>4. QED
      BY <3>2, <3>3
  <2>5. ASSUME NEW committed \in BOOLEAN, MarkCompletedThrows(w, committed) PROVE Goal
    <3>1. /\ phase[w] = "succeeded" /\ OneMoreThrow(job[w]) /\ ran' = ran
          /\ job[w] \in Runs /\ status[job[w]] # "absent"
      BY <2>5, <1>0 DEF MarkCompletedThrows, SlotOK, Executing
    <3>2. CASE committed /\ Owned(w)
      <4>1. Ledger!CompleteUnheard(job[w])
        BY <2>5, <3>1, <3>2, <2>c
           DEF MarkCompletedThrows, OneMoreThrow, Ledger!CompleteUnheard, Mapped
      <4>2. QED
        BY <3>1, <4>1 DEF Ledger!LedgerNext
    <3>3. CASE ~(committed /\ Owned(w))
      <4>1. status' = status
        BY <2>5, <3>3 DEF MarkCompletedThrows, CompleteRow, rowVars
      <4>2. QED
        BY <3>1, <4>1, <1>t
    <3>4. QED
      BY <3>2, <3>3
  <2>6. CASE MarkFailed(w)
    <3>1. UNCHANGED <<ran, throws>>
      BY <2>6 DEF MarkFailed, historyVars
    <3>2. CASE Owned(w)
      <4>1. job[w] \in Runs /\ throws[job[w]] = MaxAttempts
        BY <2>6, <1>0 DEF MarkFailed, SlotOK, Executing, HistoryOK, LoopsOK
      <4>2. /\ status[job[w]] = "claimed" /\ status'[job[w]] = "failed"
            /\ \A i \in Runs \ {job[w]} : status'[i] = status[i]
        BY <2>6, <3>2, <4>1, <1>0 DEF MarkFailed, FailRow, Owned, RowsOK
      <4>3. PICK i \in Runs : i = job[w]
        BY <4>1
      <4>4. LedgerOf(i) = "open" /\ LedgerOf(i)' = "failed"
        BY <4>2, <4>3 DEF LedgerOf, Active
      <4>5. Mapped' = [Mapped EXCEPT ![i] = "failed"]
        BY <4>2, <4>3, <4>4, OneEntry
      <4>6. Ledger!Fail(i)
        BY <3>1, <4>1, <4>3, <4>4, <4>5 DEF Ledger!Fail, Mapped
      <4>7. QED
        BY <4>6 DEF Ledger!LedgerNext
    <3>3. CASE ~Owned(w)
      BY <2>6, <3>1, <3>3, <1>b DEF MarkFailed, FailRow, rowVars
    <3>4. QED
      BY <3>2, <3>3
  <2>7. CASE ScheduleRetry(w)
    <3>1. \A i \in Runs : \/ status'[i] = status[i]
                          \/ status[i] \in Active /\ status'[i] \in Active
      BY <2>7, <1>0 DEF ScheduleRetry, RetryRow, Owned, RowsOK, Active, rowVars
    <3>2. UNCHANGED <<ran, throws>>
      BY <2>7 DEF ScheduleRetry, historyVars
    <3>3. QED
      BY <3>1, <3>2, <1>a, SameLedger
  <2>8. CASE \/ LoopClaims(w) \/ ClaimNone(w) \/ StartHandler(w) \/ HeartbeatClaim(w)
             \/ SettleThrows(w)
    BY <2>8, <1>b DEF LoopClaims, ClaimNone, StartHandler, HeartbeatClaim, SettleThrows,
       rowVars, historyVars
  <2>9. QED
    BY <1>3, <2>1, <2>2, <2>3, <2>4, <2>5, <2>6, <2>7, <2>8 DEF LoopNext
<1>4. CASE SweepNext
  <2>1. CASE SweepStaleClaims
    BY <2>1, <1>r DEF SweepStaleClaims, StaleRows, historyVars
  <2>2. CASE SweepReceipts
    BY <2>2, <1>b DEF SweepReceipts, rowVars, historyVars
  <2>3. ASSUME NEW n \in 1..3, SweepRuns(n) PROVE Goal
    <3> DEFINE R == Sweepable(n)
    <3>1. /\ R \subseteq Runs
          /\ \A r \in R : status[r] \in {"pending", "completed", "failed"}
      BY <2>3 DEF Sweepable
    <3>2. \A r \in R : LedgerOf(r) \in {"open", "completed", "failed"}
      BY <3>1 DEF LedgerOf, Active
    <3>3. ASSUME NEW r \in Runs
          PROVE  LedgerOf(r)' = IF r \in R THEN "forgotten" ELSE LedgerOf(r)
      BY <2>3 DEF SweepRuns, LedgerOf, Active
    <3> HIDE DEF R
    <3>4. Ledger!Forget(R)
      BY <2>3, <3>1, <3>2, <3>3 DEF SweepRuns, historyVars, Ledger!Forget
    <3>5. QED
      BY <3>1, <3>4 DEF Ledger!LedgerNext
  <2>4. QED
    BY <1>4, <2>1, <2>2, <2>3 DEF SweepNext
<1>5. CASE TimeNext
  BY <1>5, <1>b DEF TimeNext, AgeRow, BecomeDue, Expire, AgeReceipt, rowVars, historyVars
<1>6. CASE UNCHANGED vars
  BY <1>6, <1>b DEF vars, rowVars, historyVars
<1>7. QED
  BY <1>1, <1>2, <1>3, <1>4, <1>5, <1>6 DEF Next

(* Whatever its processes do, the queue keeps the ledger's promise: a run  *)
(* completes only after its handler returned, dies only after MaxAttempts  *)
(* throws, and never leaves either state but to be forgotten.              *)
THEOREM QueueKeepsLedger == Spec => ImplementsLedger
BY LedgerInitHolds, LedgerStep, CoreInvHolds, PTL DEF Spec, ImplementsLedger, Ledger!LedgerSpec

-----------------------------------------------------------------------------
(* Attempts                                                                *)

(* claimed_by names the process and not the claim. Where a process has one *)
(* worker only, this is enough: as long as the row bears its name, the     *)
(* attempts a worker read with its claim are those of the row.             *)
SnapInv ==
    \A w \in Workers : phase[w] \in Executing /\ Owned(w) => snap[w] = attempts[job[w]]

LEMMA StepSnapInv ==
    ASSUME MaxWork = 1, CoreInv, SnapInv, [Next]_vars
    PROVE  SnapInv'
<1> SUFFICES ASSUME NEW w \in Workers, phase'[w] \in Executing, Owned(w)'
             PROVE  snap'[w] = attempts'[job'[w]]
  BY DEF SnapInv
<1>1. CASE Fetched(w)
  <2>1. PICK r \in Runs : r = job'[w]
    BY <1>1 DEF Fetched
  <2>2. status[r] = "pending" /\ status'[r] = "claimed" /\ snap'[w] = attempts[r]
    BY <1>1, <2>1 DEF Fetched
  <2>3. attempts'[r] = attempts[r]
    BY <2>2, StepRow, InsertedRow
       DEF RowStep, Kept, HandedOut, TakenBack, Dropped, SettledBy, Owned
  <2>4. QED
    BY <2>1, <2>2, <2>3
<1>2. CASE \/ phase'[w] = phase[w] /\ job'[w] = job[w] /\ snap'[w] = snap[w]
           \/ Proceeded(w)
  <2>1. phase[w] \in Executing /\ job'[w] = job[w] /\ snap'[w] = snap[w]
    BY <1>2 DEF Proceeded
  <2>2. PICK r \in Runs : r = job[w] /\ status[r] # "absent"
    BY <2>1 DEF CoreInv, SlotOK
  <2>3. status'[r] = "claimed" /\ claimedBy'[r] = w[1]
    BY <2>1, <2>2 DEF Owned
  <2>4. ~HandedOut(r)
    <3>1. \A x \in Workers : x[1] = w[1] => x = w
      BY DEF Workers, Gens
    <3>2. phase[w] # "claiming"
      BY <2>1 DEF Executing
    <3>3. QED
      BY <2>3, <3>1, <3>2 DEF HandedOut
  <2>5. Kept(r)
    BY <2>2, <2>3, <2>4, StepRow, InsertedRow
       DEF RowStep, TakenBack, Dropped, SettledBy
  <2>6. QED
    BY <2>1, <2>2, <2>3, <2>5 DEF Kept, SnapInv, Owned
<1>3. QED
  BY <1>1, <1>2, StepSlot DEF SlotStep

LEMMA SnapInvHolds ==
    ASSUME MaxWork = 1
    PROVE  Spec => []SnapInv
<1>1. Init => SnapInv
  BY DEF Init, SnapInv, Executing
<1>2. CoreInv /\ SnapInv /\ [Next]_vars => SnapInv'
  BY StepSnapInv
<1>3. QED
  BY <1>1, <1>2, CoreInvHolds, PTL DEF Spec

LEMMA StepAttempts ==
    ASSUME CoreInv, SnapInv, [Next]_vars, NEW r \in Runs
    PROVE  attempts[r] <= attempts'[r]
<1>1. attempts[r] \in 0..MaxAttempts
  BY DEF CoreInv, TypeOK, RowsOK
<1>2. ASSUME NEW w \in Workers, SettledBy(w, r) PROVE attempts[r] <= attempts'[r]
  <2>1. phase[w] = "threw" => snap[w] = attempts[r]
    BY <1>2 DEF SettledBy, SnapInv, Executing
  <2>2. QED
    BY <1>1, <1>2, <2>1, ConstantsAssumption DEF SettledBy, ConstantsAssumption
<1>3. attempts'[r] = attempts[r] \/ \E w \in Workers : SettledBy(w, r)
  BY StepRow, InsertedRow DEF RowStep, Kept, HandedOut, TakenBack, Dropped
<1>4. QED
  BY <1>1, <1>2, <1>3, ConstantsAssumption DEF ConstantsAssumption

(* Where work() is called once per process, a retry never writes back a    *)
(* smaller attempts than the row already had, however late it comes.       *)
THEOREM AttemptsGrow ==
    ASSUME MaxWork = 1
    PROVE  Spec => AttemptsNeverDecrease
<1>1. CoreInv /\ SnapInv /\ [Next]_vars => [\A r \in Runs : attempts[r] <= attempts'[r]]_vars
  BY StepAttempts
<1>2. QED
  BY <1>1, SnapInvHolds, CoreInvHolds, PTL DEF Spec, AttemptsNeverDecrease

-----------------------------------------------------------------------------
(* Exclusive execution                                                     *)

LEMMA StepAge ==
    ASSUME CoreInv, [Next]_vars, NEW r \in Runs, status'[r] = "claimed"
    PROVE  \/ age'[r] = 0 /\ (status[r] = "claimed" => Tended(r))
           \/ age'[r] = age[r] /\ status[r] = "claimed"
           \/ AgeRow(r)
<1>0. RowsOK /\ LoopsOK /\ \A w \in Workers : SlotOK(w)
  BY DEF CoreInv, TypeOK
<1> DEFINE Goal == \/ age'[r] = 0 /\ (status[r] = "claimed" => Tended(r))
                   \/ age'[r] = age[r] /\ status[r] = "claimed"
                   \/ AgeRow(r)
<1>a. ASSUME UNCHANGED <<status, age>> PROVE Goal
  BY <1>a
<1>b. ASSUME NEW R, Requeue(R) PROVE Goal
  BY <1>b, <1>0 DEF Requeue, RowsOK
<1>1. ASSUME NEW p \in Procs, ProcNext(p) PROVE Goal
  BY <1>1, <1>a, <1>b DEF ProcNext, Start, StartUnrecovered, StopBegin, StopDrained,
     StopTimedOut, StopRelease, StopUnreleased, Die, PauseWorker, ResumeWorker, WorkAgain,
     WorkFirst, WorkReplace, rowVars
<1>2. ASSUME NEW p \in Procs, SendNext(p) PROVE Goal
  <2>1. ASSUME NEW m \in Sends, NEW i \in Runs, SendInsert(p, i, m) PROVE Goal
    BY <2>1, <1>0 DEF SendInsert, RowsOK
  <2>2. QED
    BY <1>2, <1>a, <2>1 DEF SendNext, SendConflict, SendLookup, rowVars
<1>3. ASSUME NEW w \in Workers, LoopNext(w) PROVE Goal
  <2>1. ASSUME NEW i \in NextRun, ClaimRow(w[1], i) PROVE Goal
    <3>1. i \in Runs /\ status[i] = "pending"
      BY DEF NextRun, Claimable
    <3>2. QED
      BY <2>1, <3>1, <1>0 DEF ClaimRow, RowsOK
  <2>2. CASE HeartbeatClaim(w)
    BY <2>2, <1>0 DEF HeartbeatClaim, RowsOK, Busy, Owned, Tended, Executing
  <2>3. ASSUME CompleteRow(w) PROVE Goal
    BY <2>3, <1>0, <1>a DEF CompleteRow, RowsOK, rowVars
  <2>4. ASSUME FailRow(w) \/ RetryRow(w) PROVE Goal
    BY <2>4, <1>0, <1>a DEF FailRow, RetryRow, RowsOK, rowVars
  <2>5. QED
    BY <1>3, <1>a, <2>1, <2>2, <2>3, <2>4
       DEF LoopNext, LoopClaims, ClaimNone, StartHandler, MarkCompleted, MarkFailed,
           ScheduleRetry, SettleThrows, ClaimOne, ClaimUnheard, HandlerReturns,
           HandlerThrows, MarkCompletedThrows, rowVars
<1>4. CASE SweepNext
  BY <1>4, <1>0, <1>a, <1>b DEF SweepNext, SweepStaleClaims, SweepReceipts, SweepRuns, RowsOK, rowVars
<1>5. CASE TimeNext
  <2>1. ASSUME NEW i \in Runs, AgeRow(i) PROVE Goal
    BY <2>1, <1>0 DEF AgeRow, RowsOK
  <2>2. QED
    BY <1>5, <1>a, <2>1 DEF TimeNext, BecomeDue, Expire, AgeReceipt, rowVars
<1>6. CASE UNCHANGED vars
  BY <1>6, <1>a DEF vars, rowVars
<1>7. QED
  BY <1>1, <1>2, <1>3, <1>4, <1>5, <1>6 DEF Next

(* A process whose stop() is over does not come back; its death ends its   *)
(* handlers.                                                               *)
LEMMA StepMode ==
    ASSUME CoreInv, [Next]_vars, NEW w \in Workers, phase'[w] \in Executing,
           mode'[w[1]] # "stopped"
    PROVE  mode[w[1]] # "stopped"
<1>0. ProcsOK /\ LoopsOK /\ w[1] \in Procs
  BY DEF CoreInv, TypeOK, Workers
<1>1. ASSUME NEW p \in Procs, ProcNext(p) PROVE mode[w[1]] # "stopped"
  <2>1. CASE Die(p)
    BY <2>1, <1>0 DEF Die, ProcsOK, LoopsOK, Executing
  <2>2. CASE ~Die(p)
    BY <1>1, <2>2, <1>0 DEF ProcNext, Start, StartUnrecovered, StopBegin, StopDrained,
       StopTimedOut, StopRelease, StopUnreleased, PauseWorker, ResumeWorker, WorkAgain,
       WorkFirst, WorkReplace, procVars, ProcsOK
  <2>3. QED
    BY <2>1, <2>2
<1>2. ASSUME NEW p \in Procs, SendNext(p) PROVE UNCHANGED mode
  BY <1>2 DEF SendNext, SendConflict, SendInsert, SendLookup, procVars
<1>3. ASSUME NEW x \in Workers, LoopNext(x) PROVE UNCHANGED mode
  BY <1>3 DEF LoopNext, LoopClaims, ClaimNone, StartHandler, HeartbeatClaim, MarkCompleted,
     MarkFailed, ScheduleRetry, SettleThrows, ClaimOne, ClaimUnheard, HandlerReturns,
     HandlerThrows, MarkCompletedThrows, procVars
<1>4. CASE SweepNext \/ TimeNext
  BY <1>4 DEF SweepNext, TimeNext, SweepStaleClaims, SweepReceipts, SweepRuns, AgeRow,
     BecomeDue, Expire, AgeReceipt, procVars
<1>5. QED
  BY <1>1, <1>2, <1>3, <1>4 DEF Next, vars, procVars

(* The claim of a run that is worked on is fresh.                          *)
TendedFresh == \A r \in Runs : status[r] = "claimed" /\ Tended(r) => age[r] = 0

(* What is left to a worker that has lost its row: its handler returned,   *)
(* the row was completed and the answer was lost.                          *)
ClosedBehind(w) ==
    phase[w] = "threw" /\ ran[job[w]] /\ status[job[w]] \in {"completed", "deleted"}

WorksOn(w, r) == phase[w] \in Executing /\ job[w] = r /\ mode[w[1]] # "stopped"

ClaimKept == \A w \in Workers : WorksOn(w, job[w]) => Owned(w) \/ ClosedBehind(w)

Exclusive == \A r \in Runs, w, x \in Workers : WorksOn(w, r) /\ WorksOn(x, r) => w = x

ExecInv == TendedFresh /\ ClaimKept /\ Exclusive

(* A worker goes on with its job, or has just claimed it.                  *)
LEMMA WorksOnStep ==
    ASSUME CoreInv, [Next]_vars, NEW w \in Workers, NEW r \in Runs, WorksOn(w, r)'
    PROVE  \/ Fetched(w) /\ job'[w] = r /\ status[r] = "pending"
           \/ WorksOn(w, r) /\ ~Fetched(w)
<1>1. CASE Fetched(w)
  BY <1>1 DEF Fetched, WorksOn
<1>2. CASE ~Fetched(w)
  BY <1>2, StepSlot, StepMode DEF SlotStep, Proceeded, WorksOn
<1>3. QED
  BY <1>1, <1>2

LEMMA StepTendedFresh ==
    ASSUME HeartbeatsTimely, CoreInv, TendedFresh, [Next]_vars
    PROVE  TendedFresh'
<1> SUFFICES ASSUME NEW r \in Runs, status'[r] = "claimed", Tended(r)'
             PROVE  age'[r] = 0
  BY DEF TendedFresh
<1>1. PICK w \in Workers : phase'[w] \in Executing /\ job'[w] = r /\ w[1] = claimedBy'[r]
  BY DEF Tended
<1>2. CASE status[r] = "claimed"
  <2>1. Kept(r)
    BY <1>2, StepRow, InsertedRow
       DEF RowStep, HandedOut, TakenBack, Dropped, SettledBy
  <2>2. phase[w] \in Executing /\ job[w] = r
    BY <1>1, <1>2, StepSlot DEF SlotStep, Fetched, Proceeded
  <2>3. Tended(r) /\ age[r] = 0
    BY <1>1, <1>2, <2>1, <2>2 DEF Kept, Tended, TendedFresh
  <2>4. QED
    BY <1>2, <2>3, StepAge DEF AgeRow
<1>3. CASE status[r] # "claimed"
  <2>1. ~AgeRow(r)
    BY <1>3 DEF AgeRow
  <2>2. QED
    BY <1>3, <2>1, StepAge
<1>4. QED
  BY <1>2, <1>3

LEMMA StepExclusive ==
    ASSUME CoreInv, ClaimKept, Exclusive, [Next]_vars
    PROVE  Exclusive'
<1> SUFFICES ASSUME NEW r \in Runs, NEW w \in Workers, NEW x \in Workers,
                    WorksOn(w, r)', WorksOn(x, r)'
             PROVE  w = x
  BY DEF Exclusive
<1>1. CASE WorksOn(w, r) /\ WorksOn(x, r)
  BY <1>1 DEF Exclusive
<1>2. \A y \in Workers : WorksOn(y, r) => status[r] # "pending"
  BY DEF ClaimKept, WorksOn, Owned, ClosedBehind
<1>3. CASE Fetched(w) /\ Fetched(x)
  BY <1>3 DEF Fetched
<1>4. QED
  BY <1>1, <1>2, <1>3, WorksOnStep

LEMMA StepClaimKept ==
    ASSUME CoreInv, ExecInv, [Next]_vars
    PROVE  ClaimKept'
<1> SUFFICES ASSUME NEW w \in Workers, WorksOn(w, job[w])'
             PROVE  Owned(w)' \/ ClosedBehind(w)'
  BY DEF ClaimKept
<1>1. PICK r \in Runs : r = job'[w]
  BY StepCoreInv DEF CoreInv, SlotOK, WorksOn
<1>2. WorksOn(w, r)'
  BY <1>1 DEF WorksOn
<1>3. CASE Fetched(w)
  BY <1>1, <1>3 DEF Fetched, Owned
<1>4. CASE WorksOn(w, r) /\ ~Fetched(w)
  <2>1. job[w] = r /\ (Owned(w) \/ ClosedBehind(w))
    BY <1>4 DEF ExecInv, ClaimKept, WorksOn
  <2>2. CASE Owned(w)
    <3>1. status[r] = "claimed" /\ claimedBy[r] = w[1] /\ w[1] \in Procs
      BY <2>1, <2>2 DEF Owned, Workers
    <3>2. CASE Kept(r)
      BY <1>1, <3>1, <3>2 DEF Kept, Owned
    <3>3. ~TakenBack(r)
      <4>1. age[r] = 0
        BY <2>1, <3>1, <1>4 DEF ExecInv, TendedFresh, Tended, WorksOn
      <4>2. mode'[w[1]] # "stopped"
        BY DEF WorksOn
      <4>3. QED
        BY <3>1, <4>1, <4>2 DEF TakenBack
    <3>4. ASSUME NEW x \in Workers, SettledBy(x, r)
          PROVE  ClosedBehind(w)'
      <4>1. WorksOn(x, r)
        BY <3>1, <3>4, <1>4 DEF SettledBy, Owned, WorksOn, Executing
      <4>2. x = w
        BY <4>1, <1>4 DEF ExecInv, Exclusive
      <4>3. phase[w] \in Executing /\ phase'[w] \in Executing /\ phase'[w] # phase[w]
        BY <3>4, <4>2, <1>4, <1>2 DEF SettledBy, WorksOn
      <4>4. phase[w] = "succeeded" /\ status'[r] = "completed" /\ phase'[w] = "threw"
        BY <3>4, <4>2, <4>3, <1>4, StepSlot DEF SettledBy, SlotStep, Proceeded
      <4>5. ran[r] /\ ran'[r]
        BY <2>1, <4>4, StepHistory DEF CoreInv, SlotOK, Executing
      <4>6. QED
        BY <1>1, <4>4, <4>5 DEF ClosedBehind
    <3>5. QED
      BY <3>1, <3>2, <3>3, <3>4, StepRow, InsertedRow DEF RowStep, HandedOut, Dropped
  <2>3. CASE ClosedBehind(w)
    <3>1. status[r] \in {"completed", "deleted"} /\ ran[r] /\ phase[w] = "threw"
      BY <2>1, <2>3 DEF ClosedBehind
    <3>2. status'[r] \in {"completed", "deleted"} /\ ran'[r]
      BY <3>1, StepRow, InsertedRow, StepHistory
         DEF RowStep, Kept, HandedOut, TakenBack, Dropped, SettledBy, Owned
    <3>3. phase'[w] = "threw"
      BY <3>1, <1>2, <1>4, StepSlot DEF WorksOn, SlotStep, Proceeded
    <3>4. QED
      BY <1>1, <3>2, <3>3 DEF ClosedBehind
  <2>4. QED
    BY <2>1, <2>2, <2>3
<1>5. QED
  BY <1>2, <1>3, <1>4, WorksOnStep

LEMMA ExecInvHolds ==
    ASSUME HeartbeatsTimely
    PROVE  Spec => []ExecInv
<1>1. Init => ExecInv
  BY DEF Init, ExecInv, TendedFresh, ClaimKept, Exclusive, WorksOn, Executing
<1>2. CoreInv /\ ExecInv /\ [Next]_vars => ExecInv'
  BY StepTendedFresh, StepExclusive, StepClaimKept DEF ExecInv
<1>3. QED
  BY <1>1, <1>2, CoreInvHolds, PTL DEF Spec

(* With heartbeats in time, the row of a run bears the name of the process *)
(* that works on it until that process settles it or ends its stop().      *)
THEOREM ClaimsKept == Spec => []ClaimKeptWhileExecuting
<1>1. CASE HeartbeatsTimely
  <2>1. ExecInv => ClaimKeptWhileExecuting
    BY DEF ExecInv, ClaimKept, WorksOn, ClosedBehind, ClaimKeptWhileExecuting
  <2>2. QED
    BY <1>1, <2>1, ExecInvHolds, PTL
<1>2. CASE ~HeartbeatsTimely
  <2>1. ClaimKeptWhileExecuting
    BY <1>2 DEF ClaimKeptWhileExecuting
  <2>2. QED
    BY <2>1, PTL
<1>3. QED
  BY <1>1, <1>2

(* And no two workers of any processes work on one run at a time, replaced *)
(* workers included, as long as neither has outlived its stop().           *)
THEOREM ExecutionExclusive == Spec => []ExclusiveExecution
<1>1. CASE HeartbeatsTimely
  <2>1. CoreInv /\ ExecInv => ExclusiveExecution
    BY DEF CoreInv, SlotOK, ExecInv, Exclusive, WorksOn, ExclusiveExecution
  <2>2. QED
    BY <1>1, <2>1, CoreInvHolds, ExecInvHolds, PTL
<1>2. CASE ~HeartbeatsTimely
  <2>1. ExclusiveExecution
    BY <1>2 DEF ExclusiveExecution
  <2>2. QED
    BY <2>1, PTL
<1>3. QED
  BY <1>1, <1>2

-----------------------------------------------------------------------------
(* Lost claims                                                             *)

Lost(r) == status[r] = "claimed" /\ ~Tended(r)
LostNow(r) == Lost(r) /\ age[r] = 0
LostLong(r) == Lost(r) /\ age[r] > 0
Free(r) == status[r] # "claimed"

(* A claim that nobody works on stays one until it ends, and grows older.  *)
LEMMA LostStays ==
    ASSUME CoreInv, [Next]_vars, NEW r \in Runs, Lost(r), status'[r] = "claimed"
    PROVE  Lost(r)' /\ age'[r] >= age[r]
<1>0. age[r] \in Nat /\ age'[r] \in Nat
  BY StepCoreInv DEF CoreInv, TypeOK, RowsOK
<1>1. Kept(r)
  BY StepRow, InsertedRow
     DEF Lost, RowStep, HandedOut, TakenBack, Dropped, SettledBy
<1>2. ~Tended(r)'
  <2> SUFFICES ASSUME NEW w \in Workers, phase'[w] \in Executing, job'[w] = r,
                      w[1] = claimedBy'[r]
               PROVE  FALSE
    BY DEF Tended
  <2>1. phase[w] \in Executing /\ job[w] = r
    BY StepSlot DEF Lost, SlotStep, Fetched, Proceeded
  <2>2. QED
    BY <1>1, <2>1 DEF Lost, Tended, Kept
<1>3. age'[r] >= age[r]
  <2>1. CASE AgeRow(r)
    BY <2>1, <1>0 DEF AgeRow, CoreInv, TypeOK, RowsOK
  <2>2. CASE age'[r] = age[r]
    BY <2>2, <1>0
  <2>3. QED
    BY <2>1, <2>2, StepAge DEF Lost
<1>4. QED
  BY <1>2, <1>3 DEF Lost

LEMMA FairSteps ==
    ASSUME NEW r \in Runs
    PROVE  FairSpec => []CoreInv /\ [][Next]_vars /\ RowFairness(r)
<1>1. FairSpec => RowFairness(r)
  BY DEF FairSpec
<1>2. FairSpec => Spec
  BY DEF FairSpec
<1>3. QED
  BY <1>1, <1>2, CoreInvHolds, PTL DEF Spec

(* A claim that nobody works on is over some day, as long as a process     *)
(* sweeps, such a claim can grow old and an old one can be swept           *)
(* (heartbeatClaim, sweepStaleClaims): whatever became of its process, of  *)
(* its answer or of its worker.                                            *)
THEOREM LostClaimsReturn ==
    FairSpec /\ []NothingIsStuck => LostClaimsEnd
<1> SUFFICES ASSUME NEW r \in Runs
             PROVE  FairSpec /\ []NothingIsStuck /\ <>[]Sweeping =>
                        (status[r] = "claimed" /\ ~Tended(r)
                            ~> status[r] # "claimed")
  BY DEF LostClaimsEnd
<1>1. CoreInv /\ [Next]_vars /\ LostNow(r) => LostNow(r)' \/ LostLong(r)' \/ Free(r)'
  <2> SUFFICES ASSUME CoreInv, [Next]_vars, LostNow(r), ~Free(r)'
               PROVE  LostNow(r)' \/ LostLong(r)'
    OBVIOUS
  <2>1. Lost(r)' /\ age'[r] \in Nat
    BY LostStays, StepCoreInv DEF LostNow, Free, CoreInv, TypeOK, RowsOK
  <2>2. QED
    BY <2>1 DEF LostNow, LostLong
<1>2. CoreInv /\ [Next]_vars /\ LostLong(r) => LostLong(r)' \/ Free(r)'
  <2> SUFFICES ASSUME CoreInv, [Next]_vars, LostLong(r), ~Free(r)'
               PROVE  LostLong(r)'
    OBVIOUS
  <2>1. Lost(r)' /\ age'[r] >= age[r] /\ age[r] \in Nat /\ age'[r] \in Nat
    BY LostStays, StepCoreInv DEF LostLong, Free, CoreInv, TypeOK, RowsOK
  <2>2. QED
    BY <2>1 DEF LostLong
<1>3. CoreInv /\ [Next]_vars /\ LostNow(r) /\ <<ClaimAges(r)>>_vars
          => LostLong(r)' \/ Free(r)'
  <2> SUFFICES ASSUME CoreInv, [Next]_vars, LostNow(r), ClaimAges(r)
               PROVE  LostLong(r)' \/ Free(r)'
    OBVIOUS
  <2>1. age'[r] = 1
    BY DEF LostNow, ClaimAges, AgeRow, CoreInv, TypeOK, RowsOK
  <2>2. QED
    BY <1>1, <2>1 DEF LostNow, LostLong
<1>4. CoreInv /\ LostLong(r) /\ <<SweepStaleClaims>>_vars => Free(r)'
  BY DEF CoreInv, TypeOK, RowsOK, LostLong, Lost, Free, SweepStaleClaims, StaleRows,
         Requeue
<1>5. CoreInv /\ Lost(r) => LostNow(r) \/ LostLong(r)
  BY DEF CoreInv, TypeOK, RowsOK, LostNow, LostLong
<1>6. NothingIsStuck =>
          /\ LostNow(r) => ENABLED <<ClaimAges(r)>>_vars
          /\ LostLong(r) /\ Sweeping => ENABLED <<SweepStaleClaims>>_vars
  BY DEF NothingIsStuck, LostNow, LostLong, Lost
<1>7. FairSpec /\ []NothingIsStuck /\ <>[]Sweeping => (LostLong(r) ~> Free(r))
  BY <1>2, <1>4, <1>6, FairSteps, PTL DEF RowFairness
<1>8. FairSpec /\ []NothingIsStuck /\ <>[]Sweeping => (LostNow(r) ~> Free(r))
  BY <1>1, <1>3, <1>6, <1>7, FairSteps, PTL DEF RowFairness
<1>9. FairSpec /\ []NothingIsStuck /\ <>[]Sweeping => (Lost(r) ~> Free(r))
  BY <1>5, <1>7, <1>8, FairSteps, PTL
<1>10. QED
  BY <1>9 DEF Lost, Free

-----------------------------------------------------------------------------
(* The way of a loop                                                       *)

At(w, ph) == phase[w] = ph

LEMMA LoopSteps ==
    ASSUME CoreInv, [Next]_vars, NEW w \in Workers, phase[w] \in Executing
    PROVE  \/ phase'[w] \in {phase[w], "poll"}
           \/ phase[w] = "fetched" /\ phase'[w] = "running"
           \/ phase[w] = "running" /\ phase'[w] \in {"succeeded", "threw"}
           \/ phase[w] = "succeeded" /\ phase'[w] = "threw"
<1>1. CASE phase'[w] \in Executing
  BY <1>1, StepSlot DEF SlotStep, Fetched, Proceeded, Executing
<1>2. CASE phase'[w] \notin Executing
  <2>1. phase'[w] \in {"poll", "claiming"}
    BY <1>2, StepCoreInv DEF CoreInv, TypeOK, LoopsOK, Phases
  <2>2. phase'[w] # "claiming"
    <3> USE DEF CoreInv, TypeOK, LoopsOK, Executing
    <3>1. ASSUME NEW p \in Procs, ProcNext(p) \/ SendNext(p)
          PROVE  phase'[w] # "claiming"
      BY <3>1 DEF ProcNext, Start, StartUnrecovered, StopBegin, StopDrained,
         StopTimedOut, StopRelease, StopUnreleased, Die, PauseWorker, ResumeWorker,
         WorkAgain, WorkFirst, WorkReplace, SendNext, SendInsert, SendConflict,
         SendLookup, loopVars
    <3>2. ASSUME NEW x \in Workers, LoopNext(x) PROVE phase'[w] # "claiming"
      BY <3>2 DEF LoopNext, LoopClaims, ClaimNone, StartHandler, MarkCompleted,
         MarkFailed, ScheduleRetry, SettleThrows, ClaimOne, ClaimUnheard,
         HandlerReturns, HandlerThrows, MarkCompletedThrows, HeartbeatClaim,
         LoopFree, loopVars
    <3>3. CASE SweepNext \/ TimeNext \/ UNCHANGED vars
      BY <3>3 DEF SweepNext, SweepStaleClaims, SweepRuns, SweepReceipts, TimeNext,
         AgeRow, BecomeDue, Expire, AgeReceipt, loopVars, vars
    <3>4. QED
      BY <3>1, <3>2, <3>3 DEF Next
  <2>3. QED
    BY <2>1, <2>2
<1>3. QED
  BY <1>1, <1>2

LEMMA FairLoop ==
    ASSUME NEW w \in Workers
    PROVE  FairSpec => []CoreInv /\ [][Next]_vars /\ LoopFairness(w)
<1>1. FairSpec => LoopFairness(w)
  BY DEF FairSpec
<1>2. FairSpec => Spec
  BY DEF FairSpec
<1>3. QED
  BY <1>1, <1>2, CoreInvHolds, PTL DEF Spec

(* No loop keeps a run for ever: it is started, ends and is settled, or    *)
(* dies with its process, as long as each of these steps can be taken      *)
(* (runHandler, markCompleted, markFailed, scheduleRetry).                 *)
THEOREM LoopsReturn ==
    FairSpec /\ []NothingIsStuck => LoopsComeBack
<1> SUFFICES ASSUME NEW w \in Workers
             PROVE  FairSpec /\ []NothingIsStuck =>
                        (phase[w] \in Executing ~> phase[w] = "poll")
  BY DEF LoopsComeBack
<1>1. CoreInv /\ [Next]_vars /\ At(w, "threw") =>
          At(w, "threw")' \/ At(w, "poll")'
  BY LoopSteps DEF At, Executing
<1>2. CoreInv /\ [Next]_vars /\ At(w, "succeeded") =>
          At(w, "succeeded")' \/ At(w, "threw")' \/ At(w, "poll")'
  BY LoopSteps DEF At, Executing
<1>3. CoreInv /\ [Next]_vars /\ At(w, "running") =>
          At(w, "running")' \/ At(w, "succeeded")' \/ At(w, "threw")' \/ At(w, "poll")'
  BY LoopSteps DEF At, Executing
<1>4. CoreInv /\ [Next]_vars /\ At(w, "fetched") =>
          At(w, "fetched")' \/ At(w, "running")' \/ At(w, "poll")'
  BY LoopSteps DEF At, Executing
<1>5. CoreInv /\ <<Settle(w)>>_vars => At(w, "poll")'
  BY DEF CoreInv, TypeOK, LoopsOK, Settle, MarkCompleted, MarkFailed, ScheduleRetry,
         LoopFree, At
<1>6. CoreInv /\ <<HandlerEnds(w)>>_vars => At(w, "succeeded")' \/ At(w, "threw")'
  BY DEF CoreInv, TypeOK, LoopsOK, HandlerEnds, HandlerReturns, HandlerThrows, At
<1>7. CoreInv /\ <<StartHandler(w)>>_vars => At(w, "running")'
  BY DEF CoreInv, TypeOK, LoopsOK, StartHandler, At
<1>8. NothingIsStuck =>
          /\ At(w, "fetched") => ENABLED <<StartHandler(w)>>_vars
          /\ At(w, "running") => ENABLED <<HandlerEnds(w)>>_vars
          /\ At(w, "succeeded") \/ At(w, "threw") => ENABLED <<Settle(w)>>_vars
  BY DEF NothingIsStuck, At
<1>9. phase[w] \in Executing =>
          At(w, "fetched") \/ At(w, "running") \/ At(w, "succeeded") \/ At(w, "threw")
  BY DEF Executing, At
<1>10. FairSpec /\ []NothingIsStuck => (At(w, "threw") ~> At(w, "poll"))
  BY <1>1, <1>5, <1>8, FairLoop, PTL DEF LoopFairness
<1>11. FairSpec /\ []NothingIsStuck => (At(w, "succeeded") ~> At(w, "poll"))
  BY <1>2, <1>5, <1>8, <1>10, FairLoop, PTL DEF LoopFairness
<1>12. FairSpec /\ []NothingIsStuck => (At(w, "running") ~> At(w, "poll"))
  BY <1>3, <1>6, <1>8, <1>10, <1>11, FairLoop, PTL DEF LoopFairness
<1>13. FairSpec /\ []NothingIsStuck => (At(w, "fetched") ~> At(w, "poll"))
  BY <1>4, <1>7, <1>8, <1>12, FairLoop, PTL DEF LoopFairness
<1>14. FairSpec /\ []NothingIsStuck =>
           (phase[w] \in Executing ~> At(w, "poll"))
  BY <1>9, <1>10, <1>11, <1>12, <1>13, FairLoop, PTL
<1>15. QED
  BY <1>14 DEF At

-----------------------------------------------------------------------------
(* What comes to rest: each process, the errors, the retries of a row      *)

InMode(p, m) == mode[p] = m

LEMMA StepInMode ==
    ASSUME CoreInv, [Next]_vars, NEW p \in Procs
    PROVE  \/ mode'[p] = mode[p]
           \/ InMode(p, "new") /\ InMode(p, "up")'
           \/ InMode(p, "up") /\ (InMode(p, "draining") \/ InMode(p, "dead"))'
           \/ InMode(p, "draining") /\ (InMode(p, "stopped") \/ InMode(p, "dead"))'
           \/ InMode(p, "stopped") /\ InMode(p, "dead")'
<1> DEFINE Goal == \/ mode'[p] = mode[p]
                   \/ mode[p] = "new" /\ mode'[p] = "up"
                   \/ mode[p] = "up" /\ mode'[p] \in {"draining", "dead"}
                   \/ mode[p] = "draining" /\ mode'[p] \in {"stopped", "dead"}
                   \/ mode[p] = "stopped" /\ mode'[p] = "dead"
<1>0. ProcsOK
  BY DEF CoreInv, TypeOK
<1>1. ASSUME NEW q \in Procs, ProcNext(q) PROVE Goal
  BY <1>0, <1>1 DEF ProcNext, Start, StartUnrecovered, StopBegin, StopDrained,
     StopTimedOut, StopRelease, StopUnreleased, Die, PauseWorker, ResumeWorker, WorkAgain,
     WorkFirst, WorkReplace, procVars, ProcsOK
<1>2. ASSUME NEW q \in Procs, SendNext(q) PROVE UNCHANGED mode
  BY <1>2 DEF SendNext, SendConflict, SendInsert, SendLookup, procVars
<1>3. ASSUME NEW x \in Workers, LoopNext(x) PROVE UNCHANGED mode
  BY <1>3 DEF LoopNext, LoopClaims, ClaimNone, StartHandler, HeartbeatClaim, MarkCompleted,
     MarkFailed, ScheduleRetry, SettleThrows, ClaimOne, ClaimUnheard, HandlerReturns,
     HandlerThrows, MarkCompletedThrows, procVars
<1>4. ASSUME SweepNext \/ TimeNext PROVE UNCHANGED mode
  BY <1>4 DEF SweepNext, TimeNext, SweepStaleClaims, SweepReceipts, SweepRuns, AgeRow,
     BecomeDue, Expire, AgeReceipt, procVars
<1>5. Goal
  BY <1>1, <1>2, <1>3, <1>4 DEF Next, vars, procVars
<1>6. QED
  BY <1>5 DEF InMode

LEMMA ModeSettles ==
    ASSUME NEW p \in Procs
    PROVE  Spec => <>[][mode'[p] = mode[p]]_vars
<1>1. CoreInv /\ [Next]_vars =>
           \/ mode'[p] = mode[p]
           \/ InMode(p, "new") /\ InMode(p, "up")'
           \/ InMode(p, "up") /\ (InMode(p, "draining")' \/ InMode(p, "dead")')
           \/ InMode(p, "draining") /\ (InMode(p, "stopped")' \/ InMode(p, "dead")')
           \/ InMode(p, "stopped") /\ InMode(p, "dead")'
  BY StepInMode
<1>2. mode'[p] = mode[p] =>
          /\ InMode(p, "new") <=> InMode(p, "new")'
          /\ InMode(p, "up") <=> InMode(p, "up")'
          /\ InMode(p, "draining") <=> InMode(p, "draining")'
          /\ InMode(p, "stopped") <=> InMode(p, "stopped")'
          /\ InMode(p, "dead") <=> InMode(p, "dead")'
  BY DEF InMode
<1>3. /\ ~(InMode(p, "new") /\ InMode(p, "up"))
      /\ ~(InMode(p, "new") /\ InMode(p, "draining"))
      /\ ~(InMode(p, "new") /\ InMode(p, "stopped"))
      /\ ~(InMode(p, "new") /\ InMode(p, "dead"))
      /\ ~(InMode(p, "up") /\ InMode(p, "draining"))
      /\ ~(InMode(p, "up") /\ InMode(p, "stopped"))
      /\ ~(InMode(p, "up") /\ InMode(p, "dead"))
      /\ ~(InMode(p, "draining") /\ InMode(p, "stopped"))
      /\ ~(InMode(p, "draining") /\ InMode(p, "dead"))
      /\ ~(InMode(p, "stopped") /\ InMode(p, "dead"))
  BY DEF InMode
<1>4. QED
  BY <1>1, <1>2, <1>3, CoreInvHolds, PTL DEF Spec

ModesRest(S) == \A p \in S : mode'[p] = mode[p]
ModesSettleIn(S) == Spec => <>[][ModesRest(S)]_vars

(* Finitely many processes are started, stopped and lost for some time     *)
(* only: a restarted gateway is another process.                           *)
LEMMA ModesSettle ==
    ASSUME IsFiniteSet(Procs)
    PROVE  ModesSettleIn(Procs)
<1>1. ModesSettleIn({})
  <2>1. ModesRest({})
    BY DEF ModesRest
  <2>2. QED
    BY <2>1, PTL DEF ModesSettleIn
<1>2. ASSUME NEW T \in SUBSET Procs, NEW p \in Procs
      PROVE  ModesSettleIn(T) => ModesSettleIn(T \union {p})
  <2>1. [ModesRest(T)]_vars /\ [mode'[p] = mode[p]]_vars => [ModesRest(T \union {p})]_vars
    BY DEF ModesRest
  <2>2. QED
    BY <2>1, ModeSettles, PTL DEF ModesSettleIn
<1>3. \E f : \A S \in SUBSET Procs : f[S] = 1 <=> ModesSettleIn(S)
  <2>1. Term([S \in SUBSET Procs |-> IF ModesSettleIn(S) THEN 1 ELSE 0])
    BY DEF Term
  <2>2. QED
    BY <2>1
<1>4. PICK f : \A S \in SUBSET Procs : f[S] = 1 <=> ModesSettleIn(S)
  BY <1>3
<1>5. f[{}] = 1
  BY <1>1, <1>4
<1>6. ASSUME NEW T \in SUBSET Procs, NEW p \in Procs
      PROVE  f[T] = 1 => f[T \union {p}] = 1
  BY <1>2, <1>4
<1>7. QED
  BY <1>4, <1>5, <1>6, InductionOnFiniteSet

LEMMA StepErrors ==
    ASSUME CoreInv, [Next]_vars
    PROVE  dbErrors' >= dbErrors
<1> DEFINE Goal == dbErrors' = dbErrors \/ dbErrors' = dbErrors + 1
<1>0. dbErrors \in Nat
  BY ConstantsAssumption DEF CoreInv, TypeOK, HistoryOK, ConstantsAssumption
<1>1. ASSUME NEW p \in Procs, ProcNext(p) \/ SendNext(p)
      PROVE  Goal
  BY <1>1 DEF ProcNext, SendNext, Start, StartUnrecovered, StopBegin, StopDrained,
     StopTimedOut, StopRelease, StopUnreleased, Die, PauseWorker, ResumeWorker, WorkAgain,
     WorkFirst, WorkReplace, SendConflict, SendInsert, SendLookup, historyVars
<1>2. ASSUME NEW w \in Workers, LoopNext(w) PROVE Goal
  BY <1>2 DEF LoopNext, LoopClaims, ClaimNone, StartHandler, HeartbeatClaim,
     MarkCompleted, MarkFailed, ScheduleRetry, SettleThrows, ClaimOne, ClaimUnheard,
     HandlerReturns, HandlerThrows, MarkCompletedThrows, historyVars
<1>3. ASSUME SweepNext \/ TimeNext \/ UNCHANGED vars PROVE Goal
  BY <1>3 DEF SweepNext, TimeNext, SweepStaleClaims, SweepReceipts, SweepRuns,
     AgeRow, BecomeDue, Expire, AgeReceipt, historyVars, vars
<1>4. Goal
  BY <1>1, <1>2, <1>3 DEF Next
<1>5. QED
  BY <1>0, <1>4

ErrorsRest == dbErrors' = dbErrors
ErrorsLeft(n) == dbErrors + n >= MaxDbErrors
ErrorsSettleWith(n) == Spec => [](ErrorsLeft(n) => <>[][ErrorsRest]_vars)

(* The errors that are handled are bounded, so the last one comes some day.*)
LEMMA ErrorsSettle == Spec => <>[][ErrorsRest]_vars
<1> DEFINE Count == dbErrors \in Nat /\ dbErrors <= MaxDbErrors /\ MaxDbErrors \in Nat
<1>0. CoreInv => Count
  BY ConstantsAssumption DEF CoreInv, TypeOK, HistoryOK, ConstantsAssumption
<1>1. ErrorsSettleWith(0)
  <2>1. CoreInv /\ CoreInv' /\ [Next]_vars /\ ErrorsLeft(0) =>
            ErrorsLeft(0)' /\ [ErrorsRest]_vars
    BY <1>0, StepErrors DEF ErrorsLeft, ErrorsRest, CoreInv, TypeOK, HistoryOK
  <2>2. QED
    BY <2>1, CoreInvHolds, PTL DEF Spec, ErrorsSettleWith
<1>2. ASSUME NEW n \in Nat
      PROVE  ErrorsSettleWith(n) => ErrorsSettleWith(n + 1)
  <2>1. CoreInv /\ CoreInv' /\ [Next]_vars /\ ErrorsLeft(n + 1) =>
            ErrorsLeft(n + 1)' /\ ([ErrorsRest]_vars \/ ErrorsLeft(n)')
    BY <1>0, StepErrors DEF ErrorsLeft, ErrorsRest, CoreInv, TypeOK, HistoryOK
  <2>2. QED
    BY <2>1, CoreInvHolds, PTL DEF Spec, ErrorsSettleWith
<1>3. \E f : \A n \in Nat : f[n] = 1 <=> ErrorsSettleWith(n)
  <2>1. Term([n \in Nat |-> IF ErrorsSettleWith(n) THEN 1 ELSE 0])
    BY DEF Term
  <2>2. QED
    BY <2>1
<1>4. PICK f : \A n \in Nat : f[n] = 1 <=> ErrorsSettleWith(n)
  BY <1>3
<1>5. f[0] = 1
  BY <1>1, <1>4
<1>6. ASSUME NEW n \in Nat PROVE f[n] = 1 => f[n + 1] = 1
  BY <1>2, <1>4
<1>7. MaxDbErrors \in Nat
  BY ConstantsAssumption DEF ConstantsAssumption
<1>8. ErrorsSettleWith(MaxDbErrors)
  BY <1>4, <1>5, <1>6, <1>7, InductionOnNat
<1>9. CoreInv => ErrorsLeft(MaxDbErrors)
  BY <1>0 DEF ErrorsLeft
<1>10. QED
  BY <1>8, <1>9, CoreInvHolds, PTL DEF ErrorsSettleWith

AtLeast(r, n) == attempts[r] >= n

(* A worker that has the run r took it for n attempts or more.             *)
SeenBy(w, r, n) == phase[w] \in Executing /\ job[w] = r => snap[w] >= n

AllSeen(S, r, n) == \A w \in S : SeenBy(w, r, n)

Retried(r) == \E w \in Workers : SettledBy(w, r) /\ status'[r] = "pending"

(* A worker reads the attempts of the row it takes.                        *)
LEMMA StepSeen ==
    ASSUME CoreInv, [Next]_vars, NEW r \in Runs, NEW n \in Nat, NEW w \in Workers,
           AtLeast(r, n), SeenBy(w, r, n)
    PROVE  SeenBy(w, r, n)'
BY StepSlot DEF SlotStep, Fetched, Proceeded, SeenBy, AtLeast

(* Whatever is written to attempts is more than what some worker took the  *)
(* row for: a retry by the n-th attempt at the earliest writes more than n.*)
LEMMA StepAtLeast ==
    ASSUME CoreInv, [Next]_vars, NEW r \in Runs, NEW n \in Nat, NEW m \in Nat,
           AtLeast(r, m), AllSeen(Workers, r, n), m <= n + 1
    PROVE  AtLeast(r, m)' /\ (Retried(r) => AtLeast(r, n + 1)')
<1>0. attempts[r] \in Nat /\ attempts'[r] \in Nat
  BY StepCoreInv, ConstantsAssumption
     DEF CoreInv, TypeOK, RowsOK, ConstantsAssumption
<1>1. ASSUME NEW w \in Workers, SettledBy(w, r)
      PROVE  \/ attempts'[r] >= attempts[r] /\ status'[r] # "pending"
             \/ attempts'[r] >= n + 1
  <2>1. snap[w] \in Nat /\ (phase[w] = "threw" => snap[w] >= n)
    BY <1>1, ConstantsAssumption
       DEF CoreInv, TypeOK, LoopsOK, ConstantsAssumption, SettledBy, AllSeen, SeenBy,
           Executing
  <2>2. QED
    BY <1>0, <1>1, <2>1 DEF SettledBy
<1>2. attempts'[r] = attempts[r] \/ \E w \in Workers : SettledBy(w, r)
  BY StepRow, InsertedRow DEF RowStep, Kept, HandedOut, TakenBack, Dropped
<1>3. AtLeast(r, m)'
  BY <1>0, <1>1, <1>2 DEF AtLeast
<1>4. Retried(r) => AtLeast(r, n + 1)'
  BY <1>0, <1>1 DEF Retried, AtLeast
<1>5. QED
  BY <1>3, <1>4

(* What liveness is proved from.                                           *)
Fair == FairSpec /\ []NothingIsStuck

LEMMA FairCore == Fair => []CoreInv /\ [][Next]_vars
<1>1. FairSpec => Spec
  BY DEF FairSpec
<1>2. QED
  BY <1>1, CoreInvHolds, PTL DEF Spec, Fair

LEMMA LoopReturns ==
    ASSUME NEW w \in Workers
    PROVE  Fair => (phase[w] \in Executing ~> phase[w] = "poll")
BY LoopsReturn DEF Fair, LoopsComeBack

LEMMA FiniteWorkers ==
    ASSUME IsFiniteSet(Procs)
    PROVE  IsFiniteSet(Gens) /\ IsFiniteSet(Workers)
<1>1. IsFiniteSet(Gens)
  BY FS_Interval, ConstantsAssumption DEF Gens, ConstantsAssumption
<1>2. QED
  BY <1>1, FS_Product DEF Workers

Raised(r, n) == AtLeast(r, n + 1) /\ AllSeen(Workers, r, n)
ForgottenBy(S, r, n) == Fair => [](Raised(r, n) => <>[]AllSeen(S, r, n + 1))

(* Once a row has more than n attempts, every worker that took it for n    *)
(* is through with it some day.                                            *)
LEMMA OldCountsForgotten ==
    ASSUME IsFiniteSet(Procs), NEW r \in Runs, NEW n \in Nat
    PROVE  ForgottenBy(Workers, r, n)
<1>1. CoreInv /\ [Next]_vars /\ Raised(r, n) => Raised(r, n)'
  <2> SUFFICES ASSUME CoreInv, [Next]_vars, Raised(r, n) PROVE Raised(r, n)'
    OBVIOUS
  <2>1. AtLeast(r, n) /\ AtLeast(r, n + 1)'
    BY StepAtLeast, ConstantsAssumption
       DEF Raised, AtLeast, CoreInv, TypeOK, RowsOK, ConstantsAssumption
  <2>2. ASSUME NEW w \in Workers PROVE SeenBy(w, r, n)'
    BY <2>1, StepSeen DEF Raised, AllSeen
  <2>3. QED
    BY <2>1, <2>2 DEF Raised, AllSeen
<1>2. ForgottenBy({}, r, n)
  <2>1. AllSeen({}, r, n + 1)
    BY DEF AllSeen
  <2>2. QED
    BY <2>1, PTL DEF ForgottenBy
<1>3. ASSUME NEW T \in SUBSET Workers, NEW w \in Workers
      PROVE  ForgottenBy(T, r, n) => ForgottenBy(T \union {w}, r, n)
  <2>1. CoreInv /\ [Next]_vars /\ Raised(r, n) /\ SeenBy(w, r, n + 1) => SeenBy(w, r, n + 1)'
    BY StepSeen DEF Raised
  <2>2. /\ ~SeenBy(w, r, n + 1) => phase[w] \in Executing
        /\ phase[w] = "poll" => SeenBy(w, r, n + 1)
    BY DEF SeenBy, Executing
  <2>3. AllSeen(T, r, n + 1) /\ SeenBy(w, r, n + 1) => AllSeen(T \union {w}, r, n + 1)
    BY DEF AllSeen
  <2>4. Fair => (phase[w] \in Executing ~> phase[w] = "poll")
    BY LoopReturns
  <2>5. QED
    BY <1>1, <2>1, <2>2, <2>3, <2>4, FairCore, PTL DEF ForgottenBy
<1>4. \E f : \A S \in SUBSET Workers : f[S] = 1 <=> ForgottenBy(S, r, n)
  <2>1. Term([S \in SUBSET Workers |-> IF ForgottenBy(S, r, n) THEN 1 ELSE 0])
    BY DEF Term
  <2>2. QED
    BY <2>1
<1>5. PICK f : \A S \in SUBSET Workers : f[S] = 1 <=> ForgottenBy(S, r, n)
  BY <1>4
<1>6. f[{}] = 1
  BY <1>2, <1>5
<1>7. ASSUME NEW T \in SUBSET Workers, NEW w \in Workers
      PROVE  f[T] = 1 => f[T \union {w}] = 1
  BY <1>3, <1>5
<1>8. IsFiniteSet(Workers)
  BY FiniteWorkers
<1>9. QED
  BY <1>5, <1>6, <1>7, <1>8, InductionOnFiniteSet

Counted(r, n) == AtLeast(r, n) /\ AllSeen(Workers, r, n)
RetriesRest(r) == <>[][~Retried(r)]_vars
CountedOrRest(r, n) == Fair => <>[]Counted(r, n) \/ RetriesRest(r)

(* The retries of a row come to an end, whoever makes them: each leaves a  *)
(* higher count behind, or a lower one that some worker had in view, and   *)
(* each worker has that in view once.                                      *)
LEMMA RetriesCease ==
    ASSUME IsFiniteSet(Procs), NEW r \in Runs
    PROVE  Fair => RetriesRest(r)
<1>1. CountedOrRest(r, 0)
  <2>1. CoreInv => Counted(r, 0)
    BY ConstantsAssumption DEF CoreInv, TypeOK, RowsOK, LoopsOK, ConstantsAssumption,
       Counted, AtLeast, AllSeen, SeenBy
  <2>2. QED
    BY <2>1, FairCore, PTL DEF CountedOrRest
<1>2. ASSUME NEW n \in Nat
      PROVE  CountedOrRest(r, n) => CountedOrRest(r, n + 1)
  <2>1. CoreInv /\ [Next]_vars /\ Counted(r, n) /\ Counted(r, n)' =>
            [~Retried(r)]_vars \/ Raised(r, n)'
    BY StepAtLeast DEF Counted, Raised
  <2>2. CoreInv /\ [Next]_vars /\ Counted(r, n)' /\ Raised(r, n) => Raised(r, n)'
    BY StepAtLeast DEF Counted, Raised
  <2>3. AllSeen(Workers, r, n + 1) /\ Raised(r, n) => Counted(r, n + 1)
    BY DEF Counted, Raised
  <2>4. Fair => [](Raised(r, n) => <>[]AllSeen(Workers, r, n + 1))
    BY OldCountsForgotten DEF ForgottenBy
  <2>5. QED
    BY <2>1, <2>2, <2>3, <2>4, FairCore, PTL DEF CountedOrRest, RetriesRest
<1>3. \E f : \A n \in Nat : f[n] = 1 <=> CountedOrRest(r, n)
  <2>1. Term([n \in Nat |-> IF CountedOrRest(r, n) THEN 1 ELSE 0])
    BY DEF Term
  <2>2. QED
    BY <2>1
<1>4. PICK f : \A n \in Nat : f[n] = 1 <=> CountedOrRest(r, n)
  BY <1>3
<1>5. f[0] = 1
  BY <1>1, <1>4
<1>6. ASSUME NEW n \in Nat PROVE f[n] = 1 => f[n + 1] = 1
  BY <1>2, <1>4
<1>7. MaxAttempts \in Nat
  BY ConstantsAssumption DEF ConstantsAssumption
<1>8. CountedOrRest(r, MaxAttempts)
  BY <1>4, <1>5, <1>6, <1>7, InductionOnNat
<1>9. CoreInv /\ Counted(r, MaxAttempts) => ~Retried(r)
  BY ConstantsAssumption DEF CoreInv, TypeOK, RowsOK, RowBudget, Active, Counted, AtLeast,
     Retried, SettledBy, Owned, ConstantsAssumption
<1>10. QED
  BY <1>8, <1>9, FairCore, PTL DEF CountedOrRest, RetriesRest

-----------------------------------------------------------------------------
(* Then every row comes to rest                                            *)

(* What a step is like when processes, errors and retries have come to an  *)
(* end.                                                                    *)
Calm(r) == ModesRest(Procs) /\ ErrorsRest /\ ~Retried(r)

(* A worker leaves a run that is still its own only in an error or with    *)
(* its process.                                                            *)
LEMMA LoopLeaves ==
    ASSUME CoreInv, [Next]_vars, ModesRest(Procs), ErrorsRest,
           NEW w \in Workers, phase[w] \in Executing, phase'[w] \notin Executing,
           Owned(w)
    PROVE  status'[job[w]] # "claimed"
<1>0. /\ RowsOK /\ LoopsOK /\ ProcsOK /\ dbErrors \in Nat /\ w[1] \in Procs
      /\ job[w] \in Runs
  BY ConstantsAssumption
     DEF CoreInv, TypeOK, HistoryOK, SlotOK, Workers, ConstantsAssumption
<1>1. phase' # phase
  OBVIOUS
<1>2. ASSUME NEW p \in Procs, ProcNext(p) PROVE FALSE
  <2>1. CASE Die(p)
    BY <1>0, <2>1 DEF Die, ModesRest, ProcsOK
  <2>2. CASE ~Die(p)
    BY <1>1, <1>2, <2>2 DEF ProcNext, Start, StartUnrecovered, StopBegin, StopDrained,
       StopTimedOut, StopRelease, StopUnreleased, PauseWorker, ResumeWorker, WorkAgain,
       WorkFirst, WorkReplace, loopVars
  <2>3. QED
    BY <2>1, <2>2
<1>3. ASSUME NEW p \in Procs, SendNext(p) PROVE FALSE
  BY <1>1, <1>3 DEF SendNext, SendConflict, SendInsert, SendLookup, loopVars
<1>4. ASSUME SweepNext \/ TimeNext \/ UNCHANGED vars PROVE FALSE
  BY <1>1, <1>4 DEF SweepNext, TimeNext, SweepStaleClaims, SweepReceipts, SweepRuns,
     AgeRow, BecomeDue, Expire, AgeReceipt, loopVars, vars
<1>5. ASSUME NEW x \in Workers, LoopNext(x), x # w PROVE FALSE
  <2>1. \E f : phase' = [phase EXCEPT ![x] = f]
    BY <1>1, <1>5 DEF LoopNext, LoopClaims, ClaimNone, StartHandler, HeartbeatClaim,
       MarkCompleted, MarkFailed, ScheduleRetry, SettleThrows, ClaimOne, ClaimUnheard,
       HandlerReturns, HandlerThrows, MarkCompletedThrows, LoopFree, loopVars
  <2>2. QED
    BY <1>0, <1>5, <2>1 DEF LoopsOK
<1>6. CASE LoopNext(w)
  <2>1. MarkCompleted(w) \/ MarkFailed(w) \/ ScheduleRetry(w)
    <3> USE <1>0, <1>1 DEF LoopsOK, Executing, ErrorsRest
    <3>1. ~(LoopClaims(w) \/ ClaimNone(w) \/ StartHandler(w) \/ HandlerReturns(w))
      BY DEF LoopClaims, ClaimNone, StartHandler, HandlerReturns
    <3>2. ~(HandlerThrows(w) \/ HeartbeatClaim(w) \/ SettleThrows(w))
      BY DEF HandlerThrows, HeartbeatClaim, SettleThrows, loopVars
    <3>3. ~\E committed \in BOOLEAN : MarkCompletedThrows(w, committed)
      BY DEF MarkCompletedThrows
    <3>4. ~\E r \in Runs : ClaimOne(w, r) \/ ClaimUnheard(w, r)
      BY DEF ClaimOne, ClaimUnheard
    <3>5. QED
      BY <1>6, <3>1, <3>2, <3>3, <3>4 DEF LoopNext
  <2>2. QED
    BY <1>0, <2>1 DEF MarkCompleted, MarkFailed, ScheduleRetry, CompleteRow, FailRow,
       RetryRow, RowsOK
<1>7. QED
  BY <1>2, <1>3, <1>4, <1>5, <1>6 DEF Next

(* A claim whose answer arrives is a claim that somebody works on.         *)
LEMMA HandedTended ==
    ASSUME CoreInv, [Next]_vars, ErrorsRest, NEW r \in Runs,
           status[r] # "claimed", status'[r] = "claimed"
    PROVE  Tended(r)'
<1>0. RowsOK /\ LoopsOK /\ dbErrors \in Nat
  BY ConstantsAssumption DEF CoreInv, TypeOK, HistoryOK, ConstantsAssumption
<1>1. ASSUME NEW R, Requeue(R) PROVE FALSE
  BY <1>0, <1>1 DEF Requeue, RowsOK
<1>2. ASSUME NEW p \in Procs, ProcNext(p) PROVE FALSE
  BY <1>1, <1>2 DEF ProcNext, Start, StartUnrecovered, StopBegin, StopDrained,
     StopTimedOut, StopRelease, StopUnreleased, Die, PauseWorker, ResumeWorker, WorkAgain,
     WorkFirst, WorkReplace, rowVars
<1>3. ASSUME NEW p \in Procs, SendNext(p) PROVE FALSE
  BY <1>0, <1>3 DEF SendNext, SendConflict, SendInsert, SendLookup, rowVars, RowsOK
<1>4. ASSUME SweepNext \/ TimeNext \/ UNCHANGED vars PROVE FALSE
  BY <1>0, <1>1, <1>4 DEF SweepNext, TimeNext, SweepStaleClaims, SweepReceipts, SweepRuns,
     AgeRow, BecomeDue, Expire, AgeReceipt, rowVars, RowsOK, vars
<1>5. ASSUME NEW w \in Workers, LoopNext(w)
      PROVE  \E i \in Runs : ClaimOne(w, i) \/ ClaimUnheard(w, i)
  BY <1>0, <1>5 DEF LoopNext, LoopClaims, ClaimNone, StartHandler, HeartbeatClaim,
     MarkCompleted, MarkFailed, ScheduleRetry, SettleThrows, HandlerReturns, HandlerThrows,
     MarkCompletedThrows, CompleteRow, FailRow, RetryRow, rowVars, RowsOK
<1>6. PICK w \in Workers, i \in Runs : ClaimOne(w, i) \/ ClaimUnheard(w, i)
  BY <1>2, <1>3, <1>4, <1>5 DEF Next
<1>7. ClaimOne(w, i)
  BY <1>0, <1>6 DEF ClaimUnheard, ErrorsRest
<1>8. i = r
  BY <1>0, <1>7 DEF ClaimOne, ClaimRow, RowsOK
<1>9. phase'[w] = "fetched" /\ job'[w] = r /\ claimedBy'[r] = w[1]
  BY <1>0, <1>7, <1>8 DEF ClaimOne, ClaimRow, RowsOK, LoopsOK
<1>10. QED
  BY <1>9 DEF Tended, Executing

(* Where nothing fails any more, no claim is lost anew ...                 *)
LEMMA LossesCease ==
    ASSUME CoreInv, [Next]_vars, NEW r \in Runs, Calm(r), ~Lost(r)
    PROVE  ~Lost(r)'
<1> SUFFICES ASSUME status'[r] = "claimed" PROVE Tended(r)'
  BY DEF Lost
<1>1. CASE status[r] = "claimed"
  <2>1. PICK w \in Workers : phase[w] \in Executing /\ job[w] = r /\ w[1] = claimedBy[r]
    BY <1>1 DEF Lost, Tended
  <2>2. Kept(r)
    BY <1>1, StepRow, InsertedRow DEF RowStep, HandedOut, TakenBack, Dropped, SettledBy
  <2>3. phase'[w] \in Executing
    BY <1>1, <2>1, LoopLeaves DEF Calm, Owned
  <2>4. job'[w] = r
    BY <2>1, <2>3, StepSlot DEF SlotStep, Proceeded, Fetched, Executing
  <2>5. QED
    BY <2>1, <2>2, <2>3, <2>4 DEF Kept, Tended
<1>2. CASE status[r] # "claimed"
  BY <1>2, HandedTended DEF Calm
<1>3. QED
  BY <1>1, <1>2

(* ... and no claim goes back to the queue: a tended one is not swept.     *)
LEMMA ReturnsCease ==
    ASSUME CoreInv, TendedFresh, [Next]_vars, NEW r \in Runs, Calm(r), ~Lost(r),
           status[r] = "claimed"
    PROVE  status'[r] # "pending"
<1>1. ~TakenBack(r)
  BY DEF TakenBack, Calm, ModesRest, Lost, TendedFresh
<1>2. QED
  BY <1>1, StepRow, InsertedRow DEF RowStep, Kept, HandedOut, Dropped, Calm, Retried

Is(r, s) == status[r] = s

(* From then on a row only goes forward.                                   *)
LEMMA StepForward ==
    ASSUME CoreInv, TendedFresh, [Next]_vars, NEW r \in Runs, Calm(r), ~Lost(r)
    PROVE  \/ status'[r] = status[r]
           \/ Is(r, "absent") /\ ~Is(r, "absent")'
           \/ Is(r, "pending") /\ ~Is(r, "absent")' /\ ~Is(r, "pending")'
           \/ Is(r, "claimed") /\ (Is(r, "completed") \/ Is(r, "failed"))'
           \/ (Is(r, "completed") \/ Is(r, "failed")) /\ Is(r, "deleted")'
<1>1. status[r] = "claimed" => status'[r] # "pending"
  BY ReturnsCease
<1>2. QED
  BY <1>1, StepRow, InsertedRow
     DEF RowStep, Kept, HandedOut, TakenBack, Dropped, SettledBy, Owned, Is

(* What the theorem is about: with heartbeats in time, one process that    *)
(* goes on serving.                                                        *)
Premise(p) == Fair /\ <>[]Serving(p)

LEMMA PremiseSteps ==
    ASSUME HeartbeatsTimely, IsFiniteSet(Procs), NEW p \in Procs, NEW r \in Runs
    PROVE  Premise(p) => /\ [](CoreInv /\ ExecInv)
                         /\ [][Next]_vars
                         /\ <>[][Calm(r)]_vars
                         /\ <>[]~Lost(r)
<1>1. Fair => Spec
  BY DEF Fair, FairSpec
<1>2. Fair => [](CoreInv /\ ExecInv) /\ [][Next]_vars
  BY <1>1, CoreInvHolds, ExecInvHolds, PTL DEF Spec
<1>3. Fair => <>[][Calm(r)]_vars
  <2>1. [ModesRest(Procs)]_vars /\ [ErrorsRest]_vars /\ [~Retried(r)]_vars
            => [Calm(r)]_vars
    BY DEF Calm
  <2>2. Spec => <>[][ModesRest(Procs)]_vars
    BY ModesSettle DEF ModesSettleIn
  <2>3. Fair => <>[][~Retried(r)]_vars
    BY RetriesCease DEF RetriesRest
  <2>4. QED
    BY <1>1, <2>1, <2>2, <2>3, ErrorsSettle, PTL
<1>4. Serving(p) => Sweeping
  BY DEF Serving, Sweeping
<1>5. Premise(p) => (Lost(r) ~> ~Lost(r))
  <2>1. LostClaimsEnd => (<>[]Sweeping => (status[r] = "claimed" /\ ~Tended(r) ~> status[r] # "claimed"))
    BY DEF LostClaimsEnd
  <2>2. (status[r] = "claimed" /\ ~Tended(r) <=> Lost(r)) /\ (status[r] # "claimed" => ~Lost(r))
    BY DEF Lost
  <2>3. QED
    BY <1>4, <2>1, <2>2, LostClaimsReturn, PTL DEF Premise, Fair
<1>6. CoreInv /\ [Next]_vars /\ [Calm(r)]_vars /\ ~Lost(r) => ~Lost(r)'
  BY LossesCease DEF vars, rowVars, loopVars, Lost, Tended
<1>7. QED
  BY <1>2, <1>3, <1>5, <1>6, PTL DEF Premise

RowRests(r) == status'[r] = status[r]

LEMMA RowSettles ==
    ASSUME HeartbeatsTimely, IsFiniteSet(Procs), NEW p \in Procs, NEW r \in Runs
    PROVE  Premise(p) => <>[][RowRests(r)]_vars
<1>1. CoreInv /\ ExecInv /\ [Next]_vars /\ [Calm(r)]_vars /\ ~Lost(r) =>
           \/ [RowRests(r)]_vars
           \/ Is(r, "absent") /\ ~Is(r, "absent")'
           \/ Is(r, "pending") /\ ~Is(r, "absent")' /\ ~Is(r, "pending")'
           \/ Is(r, "claimed") /\ (Is(r, "completed")' \/ Is(r, "failed")')
           \/ (Is(r, "completed") \/ Is(r, "failed")) /\ Is(r, "deleted")'
  BY StepForward DEF ExecInv, RowRests, Is
<1>2. [RowRests(r)]_vars =>
          /\ Is(r, "absent") <=> Is(r, "absent")'
          /\ Is(r, "pending") <=> Is(r, "pending")'
          /\ Is(r, "claimed") <=> Is(r, "claimed")'
          /\ Is(r, "completed") <=> Is(r, "completed")'
          /\ Is(r, "failed") <=> Is(r, "failed")'
          /\ Is(r, "deleted") <=> Is(r, "deleted")'
  BY DEF RowRests, Is, vars, rowVars
<1>3. CoreInv => Is(r, "absent") \/ Is(r, "pending") \/ Is(r, "claimed")
                 \/ Is(r, "completed") \/ Is(r, "failed") \/ Is(r, "deleted")
  BY DEF CoreInv, TypeOK, RowsOK, Statuses, Is
<1>4. /\ Is(r, "absent") => ~(Is(r, "pending") \/ Is(r, "claimed") \/ Is(r, "completed")
                              \/ Is(r, "failed") \/ Is(r, "deleted"))
      /\ Is(r, "pending") => ~(Is(r, "claimed") \/ Is(r, "completed") \/ Is(r, "failed")
                               \/ Is(r, "deleted"))
      /\ Is(r, "claimed") => ~(Is(r, "completed") \/ Is(r, "failed") \/ Is(r, "deleted"))
      /\ Is(r, "deleted") => ~(Is(r, "completed") \/ Is(r, "failed"))
  BY DEF Is
<1>5. QED
  BY <1>1, <1>2, <1>3, <1>4, PremiseSteps, PTL

RowsRest(S) == \A r \in S : RowRests(r)
RowsSettleIn(p, S) == Premise(p) => <>[][RowsRest(S)]_vars

(* The whole queue comes to rest when nothing more is sent to it, and a    *)
(* finite number of rows is all that is sent.                              *)
LEMMA RowsSettle ==
    ASSUME HeartbeatsTimely, IsFiniteSet(Procs), IsFiniteSet(Runs),
           NEW p \in Procs
    PROVE  RowsSettleIn(p, Runs)
<1>1. RowsSettleIn(p, {})
  <2>1. RowsRest({})
    BY DEF RowsRest
  <2>2. QED
    BY <2>1, PTL DEF RowsSettleIn
<1>2. ASSUME NEW T \in SUBSET Runs, NEW r \in Runs
      PROVE  RowsSettleIn(p, T) => RowsSettleIn(p, T \union {r})
  <2>1. [RowsRest(T)]_vars /\ [RowRests(r)]_vars => [RowsRest(T \union {r})]_vars
    BY DEF RowsRest
  <2>2. Premise(p) => <>[][RowRests(r)]_vars
    BY RowSettles
  <2>3. QED
    BY <2>1, <2>2, PTL DEF RowsSettleIn
<1>3. \E f : \A S \in SUBSET Runs : f[S] = 1 <=> RowsSettleIn(p, S)
  <2>1. Term([S \in SUBSET Runs |-> IF RowsSettleIn(p, S) THEN 1 ELSE 0])
    BY DEF Term
  <2>2. QED
    BY <2>1
<1>4. PICK f : \A S \in SUBSET Runs : f[S] = 1 <=> RowsSettleIn(p, S)
  BY <1>3
<1>5. f[{}] = 1
  BY <1>1, <1>4
<1>6. ASSUME NEW T \in SUBSET Runs, NEW r \in Runs
      PROVE  f[T] = 1 => f[T \union {r}] = 1
  BY <1>2, <1>4
<1>7. QED
  BY <1>4, <1>5, <1>6, InductionOnFiniteSet

-----------------------------------------------------------------------------
(* And the rest of a row that is still open is impossible                  *)

Tends(w, r) == /\ status[r] = "claimed" /\ claimedBy[r] = w[1]
               /\ phase[w] \in Executing /\ job[w] = r

(* Nobody tends a row for ever: the loop of the worker comes back.         *)
LEMMA WorkerLetsGo ==
    ASSUME HeartbeatsTimely, IsFiniteSet(Procs),
           NEW p \in Procs, NEW r \in Runs, NEW w \in Workers
    PROVE  Premise(p) => <>[]~Tends(w, r)
<1>1. CoreInv /\ [Next]_vars /\ [Calm(r)]_vars /\ [RowRests(r)]_vars /\ Tends(w, r) =>
          Tends(w, r)'
  <2> SUFFICES ASSUME CoreInv, [Next]_vars, Calm(r), RowRests(r), Tends(w, r)
               PROVE  Tends(w, r)'
    BY DEF Tends, vars, rowVars, loopVars
  <2>1. Kept(r)
    BY StepRow, InsertedRow
       DEF Tends, RowRests, RowStep, HandedOut, TakenBack, Dropped, SettledBy
  <2>2. phase'[w] \in Executing
    BY LoopLeaves DEF Calm, RowRests, Tends, Owned
  <2>3. job'[w] = r
    BY <2>2, StepSlot DEF Tends, SlotStep, Fetched, Proceeded, Executing
  <2>4. QED
    BY <2>1, <2>2, <2>3 DEF Tends, Kept
<1>2. Tends(w, r) => phase[w] \in Executing
  BY DEF Tends
<1>3. phase[w] = "poll" => ~(phase[w] \in Executing)
  BY DEF Executing
<1>4. Premise(p) => [](CoreInv /\ ExecInv) /\ [][Next]_vars /\ <>[][Calm(r)]_vars
  BY PremiseSteps, PTL
<1>5. Premise(p) => <>[][RowRests(r)]_vars
  BY RowSettles
<1>6. Fair => (phase[w] \in Executing ~> phase[w] = "poll")
  BY LoopReturns
<1>7. QED
  BY <1>1, <1>2, <1>3, <1>4, <1>5, <1>6, PTL DEF Premise

NoneTends(S, r) == \A w \in S : ~Tends(w, r)
AllLetGo(p, r, S) == Premise(p) => <>[]NoneTends(S, r)

LEMMA ClaimsEnd ==
    ASSUME HeartbeatsTimely, IsFiniteSet(Procs), NEW p \in Procs, NEW r \in Runs
    PROVE  Premise(p) => <>[](status[r] # "claimed")
<1>1. AllLetGo(p, r, {})
  <2>1. NoneTends({}, r)
    BY DEF NoneTends
  <2>2. QED
    BY <2>1, PTL DEF AllLetGo
<1>2. ASSUME NEW T \in SUBSET Workers, NEW w \in Workers
      PROVE  AllLetGo(p, r, T) => AllLetGo(p, r, T \union {w})
  <2>1. NoneTends(T, r) /\ ~Tends(w, r) => NoneTends(T \union {w}, r)
    BY DEF NoneTends
  <2>2. Premise(p) => <>[]~Tends(w, r)
    BY WorkerLetsGo
  <2>3. QED
    BY <2>1, <2>2, PTL DEF AllLetGo
<1>3. \E f : \A S \in SUBSET Workers : f[S] = 1 <=> AllLetGo(p, r, S)
  <2>1. Term([S \in SUBSET Workers |-> IF AllLetGo(p, r, S) THEN 1 ELSE 0])
    BY DEF Term
  <2>2. QED
    BY <2>1
<1>4. PICK f : \A S \in SUBSET Workers : f[S] = 1 <=> AllLetGo(p, r, S)
  BY <1>3
<1>5. f[{}] = 1
  BY <1>1, <1>4
<1>6. ASSUME NEW T \in SUBSET Workers, NEW w \in Workers
      PROVE  f[T] = 1 => f[T \union {w}] = 1
  BY <1>2, <1>4
<1>7. IsFiniteSet(Workers)
  BY FiniteWorkers
<1>8. AllLetGo(p, r, Workers)
  BY <1>4, <1>5, <1>6, <1>7, InductionOnFiniteSet
<1>9. NoneTends(Workers, r) /\ ~Lost(r) => status[r] # "claimed"
  BY DEF NoneTends, Tends, Lost, Tended
<1>10. Premise(p) => <>[]~Lost(r)
  BY PremiseSteps, PTL
<1>11. QED
  BY <1>8, <1>9, <1>10, PTL DEF AllLetGo

Waiting(r) == status[r] = "pending"
Due(r) == due[r]
Expired(r) == expires[r] = "passed"

LEMMA StepWaiting ==
    ASSUME CoreInv, [Next]_vars, NEW r \in Runs, Waiting(r), RowRests(r)
    PROVE  (Due(r) => Due(r)') /\ (Expired(r) => Expired(r)')
<1> DEFINE Goal == (due[r] => due'[r]) /\ (expires[r] = "passed" => expires'[r] = "passed")
<1>0. RowsOK /\ LoopsOK
  BY DEF CoreInv, TypeOK
<1>a. ASSUME UNCHANGED <<due, expires>> PROVE Goal
  BY <1>a
<1>b. ASSUME NEW R, Requeue(R) PROVE Goal
  BY <1>0, <1>b DEF Requeue, RowsOK
<1>1. ASSUME NEW p \in Procs, ProcNext(p) PROVE Goal
  BY <1>1, <1>a, <1>b DEF ProcNext, Start, StartUnrecovered, StopBegin, StopDrained,
     StopTimedOut, StopRelease, StopUnreleased, Die, PauseWorker, ResumeWorker, WorkAgain,
     WorkFirst, WorkReplace, rowVars
<1>2. ASSUME NEW p \in Procs, SendNext(p) PROVE Goal
  <2>1. ASSUME NEW m \in Sends, NEW i \in Runs, SendInsert(p, i, m) PROVE Goal
    BY <2>1, <1>0 DEF SendInsert, RowsOK, Waiting
  <2>2. QED
    BY <1>2, <1>a, <2>1 DEF SendNext, SendConflict, SendLookup, rowVars
<1>3. ASSUME NEW w \in Workers, LoopNext(w) PROVE Goal
  <2>1. ASSUME RetryRow(w) PROVE Goal
    BY <2>1, <1>0, <1>a DEF RetryRow, RowsOK, Waiting, Owned, rowVars
  <2>2. ASSUME ~ScheduleRetry(w) PROVE Goal
    BY <1>3, <2>2, <1>a DEF LoopNext, LoopClaims, ClaimNone, StartHandler, HeartbeatClaim,
       MarkCompleted, MarkFailed, SettleThrows, ClaimOne, ClaimUnheard, ClaimRow,
       HandlerReturns, HandlerThrows, MarkCompletedThrows, CompleteRow, FailRow, rowVars
  <2>3. QED
    BY <2>1, <2>2 DEF ScheduleRetry
<1>4. ASSUME SweepNext PROVE Goal
  BY <1>4, <1>a, <1>b DEF SweepNext, SweepStaleClaims, SweepReceipts, SweepRuns, rowVars
<1>5. ASSUME TimeNext PROVE Goal
  <2>1. ASSUME NEW i \in Runs, BecomeDue(i) \/ Expire(i) PROVE Goal
    BY <2>1, <1>0 DEF BecomeDue, Expire, RowsOK
  <2>2. QED
    BY <1>5, <1>a, <2>1 DEF TimeNext, AgeRow, AgeReceipt, rowVars
<1>6. ASSUME UNCHANGED vars PROVE Goal
  BY <1>6, <1>a DEF vars, rowVars
<1>7. Goal
  BY <1>1, <1>2, <1>3, <1>4, <1>5, <1>6 DEF Next
<1>8. QED
  BY <1>7 DEF Due, Expired

(* A row that waits for ever can be claimed from some point on: it is due, *)
(* and had it expired it would have been swept.                            *)
LEMMA WaitingTurnsClaimable ==
    ASSUME HeartbeatsTimely, IsFiniteSet(Procs),
           NEW p \in Procs, NEW r \in Runs
    PROVE  Premise(p) => <>[](~Waiting(r)) \/ <>[]Claimable(r)
<1>1. CoreInv /\ [Next]_vars /\ [RowRests(r)]_vars /\ Waiting(r) =>
          Waiting(r)' /\ (Due(r) => Due(r)') /\ (Expired(r) => Expired(r)')
  BY StepWaiting DEF Waiting, RowRests, Due, Expired, vars, rowVars
<1>2. NothingIsStuck /\ Waiting(r) =>
          /\ ~Due(r) => ENABLED <<BecomeDue(r)>>_vars
          /\ Expired(r) /\ Sweeping => ENABLED <<SweepRuns(1)>>_vars
  BY DEF NothingIsStuck, Waiting, Due, Expired
<1>3. CoreInv /\ <<BecomeDue(r)>>_vars => Due(r)'
  BY DEF CoreInv, TypeOK, RowsOK, BecomeDue, Due
<1>4. CoreInv /\ Waiting(r) /\ Expired(r) /\ <<SweepRuns(1)>>_vars => ~Waiting(r)'
  BY DEF CoreInv, TypeOK, RowsOK, SweepRuns, Sweepable, Waiting, Expired
<1>5. Claimable(r) <=> Waiting(r) /\ Due(r) /\ ~Expired(r)
  BY DEF Claimable, Waiting, Due, Expired
<1>6. Serving(p) => Sweeping
  BY DEF Serving, Sweeping
<1>7. Premise(p) => /\ [](CoreInv /\ ExecInv) /\ [][Next]_vars
  BY PremiseSteps, PTL
<1>8. Fair => RowFairness(r)
  BY DEF Fair, FairSpec
<1>9. Premise(p) => <>[][RowRests(r)]_vars
  BY RowSettles
<1>10. QED
  BY <1>1, <1>2, <1>3, <1>4, <1>5, <1>6, <1>7, <1>8, <1>9, PTL
     DEF Premise, Fair, RowFairness

LEMMA MostUrgent ==
    ASSUME NEW S \in SUBSET Runs, IsFiniteSet(S), S # {}
    PROVE  \E m \in S : \A s \in S : Prio[s] <= Prio[m]
<1> DEFINE Good(T) == T = {} \/ \E m \in T : \A s \in T : Prio[s] <= Prio[m]
           f == [T \in SUBSET S |-> IF Good(T) THEN 1 ELSE 0]
<1>0. \A s \in S : Prio[s] \in Nat
  BY ConstantsAssumption DEF ConstantsAssumption
<1>1. f[{}] = 1
  OBVIOUS
<1>2. ASSUME NEW T \in SUBSET S, NEW x \in S, f[T] = 1
      PROVE  f[T \union {x}] = 1
  <2>1. Good(T)
    BY <1>2
  <2>2. CASE T = {}
    BY <2>2, <1>0
  <2>3. ASSUME NEW m \in T, \A s \in T : Prio[s] <= Prio[m] PROVE Good(T \union {x})
    <3>1. CASE Prio[x] <= Prio[m]
      BY <2>3, <3>1
    <3>2. CASE Prio[m] < Prio[x]
      BY <2>3, <3>2, <1>0
    <3>3. QED
      BY <3>1, <3>2, <1>0
  <2>4. QED
    BY <2>1, <2>2, <2>3
<1> HIDE DEF f
<1>3. f[S] = 1
  BY <1>1, <1>2, InductionOnFiniteSet
<1>4. QED
  BY <1>3 DEF f

LEMMA SomeRunIsNext ==
    ASSUME IsFiniteSet(Runs), NEW r \in Runs, Claimable(r)
    PROVE  NextRun # {}
<1> DEFINE C == {s \in Runs : Claimable(s)}
<1>1. IsFiniteSet(C)
  BY FS_Subset
<1>2. PICK m \in C : \A s \in C : Prio[s] <= Prio[m]
  BY <1>1, MostUrgent
<1>3. QED
  BY <1>2 DEF NextRun

(* A loop that asked for a run gets one when there is one, or dies.        *)
LEMMA StepClaiming ==
    ASSUME CoreInv, [Next]_vars, NEW w \in Workers, phase[w] = "claiming",
           phase'[w] # "claiming", mode'[w[1]] # "dead", NextRun # {}
    PROVE  \E i \in Runs : status'[i] # status[i]
<1>0. RowsOK /\ LoopsOK /\ ProcsOK /\ w[1] \in Procs
  BY DEF CoreInv, TypeOK, Workers
<1>1. ASSUME NEW p \in Procs, ProcNext(p) PROVE FALSE
  <2>1. CASE Die(p)
    BY <1>0, <2>1 DEF Die, ProcsOK
  <2>2. CASE ~Die(p)
    BY <1>1, <2>2 DEF ProcNext, Start, StartUnrecovered, StopBegin, StopDrained,
       StopTimedOut, StopRelease, StopUnreleased, PauseWorker, ResumeWorker, WorkAgain,
       WorkFirst, WorkReplace, loopVars
  <2>3. QED
    BY <2>1, <2>2
<1>2. ASSUME NEW p \in Procs, SendNext(p) PROVE FALSE
  BY <1>2 DEF SendNext, SendConflict, SendInsert, SendLookup, loopVars
<1>3. ASSUME SweepNext \/ TimeNext \/ UNCHANGED vars PROVE FALSE
  BY <1>3 DEF SweepNext, TimeNext, SweepStaleClaims, SweepReceipts, SweepRuns,
     AgeRow, BecomeDue, Expire, AgeReceipt, loopVars, vars
<1>4. ASSUME NEW x \in Workers, LoopNext(x), x # w PROVE FALSE
  <2>1. phase' = phase \/ \E f : phase' = [phase EXCEPT ![x] = f]
    BY <1>4 DEF LoopNext, LoopClaims, ClaimNone, StartHandler, HeartbeatClaim,
       MarkCompleted, MarkFailed, ScheduleRetry, SettleThrows, ClaimOne, ClaimUnheard,
       HandlerReturns, HandlerThrows, MarkCompletedThrows, LoopFree, loopVars
  <2>2. QED
    BY <1>0, <1>4, <2>1 DEF LoopsOK
<1>5. ASSUME LoopNext(w) PROVE \E i \in NextRun : ClaimRow(w[1], i)
  BY <1>5 DEF LoopNext, LoopClaims, ClaimNone, StartHandler, HeartbeatClaim, Busy,
     MarkCompleted, MarkFailed, ScheduleRetry, SettleThrows, ClaimOne, ClaimUnheard,
     HandlerReturns, HandlerThrows, MarkCompletedThrows
<1>6. PICK i \in NextRun : ClaimRow(w[1], i)
  BY <1>1, <1>2, <1>3, <1>4, <1>5 DEF Next
<1>7. QED
  BY <1>0, <1>6 DEF ClaimRow, NextRun, Claimable, RowsOK

InMap(w) == cur[w[1]] = w[2]
NotYet(w) == worker[w] \in {"none", "replacing"}

(* A worker that was given the queue is not given it again.                *)
LEMMA StepInMap ==
    ASSUME CoreInv, [Next]_vars, NEW w \in Workers
    PROVE  /\ ~NotYet(w) => ~NotYet(w)'
           /\ ~InMap(w) /\ InMap(w)' /\ cur[w[1]] # 0 => NotYet(w) /\ ~NotYet(w)'
<1> DEFINE Stays == /\ ~NotYet(w) => ~NotYet(w)'
                    /\ ~InMap(w) /\ InMap(w)' /\ cur[w[1]] # 0 => NotYet(w) /\ ~NotYet(w)'
<1>0. /\ ProcsOK /\ WorkersOK /\ w \in Procs \X Gens /\ w = <<w[1], w[2]>>
      /\ w[1] \in Procs /\ w[2] \in Gens /\ w[2] # 0
  BY DEF CoreInv, TypeOK, Workers, Gens
<1>a. ASSUME UNCHANGED <<cur, worker>> PROVE Stays
  BY <1>a DEF InMap, NotYet
<1> USE <1>0 DEF ProcsOK, WorkersOK, InMap, NotYet
<1>1. ASSUME NEW p \in Procs, ProcNext(p) PROVE Stays
  <2>1. CASE Start(p) \/ StartUnrecovered(p)
    BY <2>1, <1>a DEF Start, StartUnrecovered, workerVars
  <2>2. CASE StopBegin(p)
    BY <2>2 DEF StopBegin
  <2>3. CASE StopDrained(p) \/ StopTimedOut(p) \/ StopUnreleased(p)
    BY <2>3 DEF StopDrained, StopTimedOut, StopRelease, StopUnreleased, workerVars
  <2>4. CASE Die(p)
    BY <2>4 DEF Die
  <2>5. CASE PauseWorker(p) \/ ResumeWorker(p)
    BY <2>5 DEF PauseWorker, ResumeWorker, procVars
  <2>6. ASSUME NEW g \in Gens, WorkAgain(p, g) PROVE Stays
    <3>1. <<p, g>> \in Workers /\ worker[<<p, g>>] = "none" /\ UNCHANGED cur
          /\ worker' = [worker EXCEPT ![<<p, g>>] = "replacing"]
      BY <2>6 DEF WorkAgain, NextGen, procVars, Workers
    <3>2. QED
      BY <3>1
  <2>7. ASSUME NEW g \in Gens, NEW begin \in {"live", "paused"}, WorkFirst(p, g, begin)
        PROVE  Stays
    <3>1. /\ <<p, g>> \in Workers /\ worker[<<p, g>>] = "none" /\ cur[p] = 0
          /\ worker' = [worker EXCEPT ![<<p, g>>] = begin]
          /\ cur' = [cur EXCEPT ![p] = g]
      BY <2>7 DEF WorkFirst, NextGen, Workers
    <3>2. QED
      BY <3>1
  <2>8. ASSUME NEW g \in Gens, NEW begin \in {"live", "paused"}, WorkReplace(p, g, begin)
        PROVE  Stays
    <3>1. /\ <<p, g>> \in Workers /\ worker[<<p, g>>] = "replacing"
          /\ cur' = [cur EXCEPT ![p] = g]
          /\ worker'[<<p, g>>] = begin
          /\ \A x \in Workers : x # <<p, g>> => worker'[x] \in {worker[x], "stopped"}
      BY <2>8 DEF WorkReplace, Workers
    <3>2. QED
      BY <3>1
  <2>9. QED
    BY <1>1, <2>1, <2>2, <2>3, <2>4, <2>5, <2>6, <2>7, <2>8 DEF ProcNext
<1>2. ASSUME NEW p \in Procs, SendNext(p) PROVE Stays
  BY <1>2, <1>a DEF SendNext, SendConflict, SendInsert, SendLookup, procVars, workerVars
<1>3. ASSUME NEW x \in Workers, LoopNext(x) PROVE Stays
  BY <1>3, <1>a DEF LoopNext, LoopClaims, ClaimNone, StartHandler, HeartbeatClaim,
     MarkCompleted, MarkFailed, ScheduleRetry, SettleThrows, ClaimOne, ClaimUnheard,
     HandlerReturns, HandlerThrows, MarkCompletedThrows, procVars, workerVars
<1>4. ASSUME SweepNext \/ TimeNext \/ UNCHANGED vars PROVE Stays
  BY <1>4, <1>a DEF SweepNext, TimeNext, SweepStaleClaims, SweepReceipts, SweepRuns, AgeRow,
     BecomeDue, Expire, AgeReceipt, procVars, workerVars, vars
<1>5. QED
  BY <1>1, <1>2, <1>3, <1>4 DEF Next

(* A row that can be claimed does not stay one while a worker polls; if it *)
(* does, then that worker is replaced ...                                  *)
LEMMA PollerIsReplaced ==
    ASSUME HeartbeatsTimely, IsFiniteSet(Procs), IsFiniteSet(Runs),
           NEW p \in Procs, NEW r \in Runs, NEW w \in Workers, w[1] = p
    PROVE  Premise(p) /\ <>[]Claimable(r) => <>[]~InMap(w)
<1>1. Serving(p) /\ InMap(w) => worker[w] = "live"
  BY DEF Workers, Serving, InMap
<1>2. /\ CoreInv /\ [Next]_vars /\ [RowsRest(Runs)]_vars /\ Claimable(r) /\ Serving(p)'
      /\ At(w, "claiming")
      => At(w, "claiming")'
  BY StepClaiming, SomeRunIsNext DEF At, Serving, RowsRest, RowRests, vars, loopVars
<1>3. CoreInv /\ [Next]_vars /\ At(w, "poll") => At(w, "poll")' \/ At(w, "claiming")'
  <2>1. CoreInv /\ [Next]_vars => phase'[w] \in Phases
    BY StepCoreInv DEF CoreInv, TypeOK, LoopsOK
  <2>2. QED
    BY <2>1, StepSlot DEF At, SlotStep, Fetched, Proceeded, Phases, Executing
<1>4. CoreInv /\ <<LoopClaims(w)>>_vars => At(w, "claiming")'
  BY DEF CoreInv, TypeOK, LoopsOK, LoopClaims, At
<1>5. CoreInv /\ [RowsRest(Runs)]_vars /\ Claimable(r) => ~<<Answered(w)>>_vars
  <2> SUFFICES ASSUME CoreInv, RowsRest(Runs), Claimable(r), Answered(w) PROVE FALSE
    OBVIOUS
  <2>1. PICK i \in NextRun : ClaimRow(w[1], i)
    BY SomeRunIsNext DEF Answered, ClaimNone, ClaimOne
  <2>2. QED
    BY <2>1 DEF ClaimRow, NextRun, Claimable, RowsRest, RowRests, CoreInv, TypeOK, RowsOK
<1>6. NothingIsStuck =>
          /\ At(w, "poll") /\ worker[w] = "live" => ENABLED <<LoopClaims(w)>>_vars
          /\ At(w, "claiming") => ENABLED <<Answered(w)>>_vars
  BY DEF NothingIsStuck, At
<1>7. CoreInv => At(w, "poll") \/ At(w, "claiming") \/ phase[w] \in Executing
  BY DEF CoreInv, TypeOK, LoopsOK, Phases, At
<1>8. Fair => (phase[w] \in Executing ~> At(w, "poll"))
  <2>1. phase[w] = "poll" <=> At(w, "poll")
    BY DEF At
  <2>2. Fair => (phase[w] \in Executing ~> phase[w] = "poll")
    BY LoopReturns
  <2>3. QED
    BY <2>1, <2>2, PTL
<1>9. Premise(p) => [](CoreInv /\ ExecInv) /\ [][Next]_vars
  BY PremiseSteps, PTL
<1>10. Premise(p) => <>[][RowsRest(Runs)]_vars
  BY RowsSettle DEF RowsSettleIn
<1>11. Fair => LoopFairness(w)
  BY DEF Fair, FairSpec
<1>12. CoreInv /\ [Next]_vars =>
          /\ ~NotYet(w) => ~NotYet(w)'
          /\ ~InMap(w) /\ InMap(w)' /\ Serving(p) => NotYet(w) /\ ~NotYet(w)'
  BY StepInMap DEF Serving
<1>13. Premise(p) => <>[]InMap(w) \/ <>[]~InMap(w)
  BY <1>9, <1>12, PTL DEF Premise
<1>14. QED
  BY <1>1, <1>2, <1>3, <1>4, <1>5, <1>6, <1>7, <1>8, <1>9, <1>10, <1>11, <1>13, PTL
     DEF Premise, Fair, LoopFairness

NoneInMap(p, S) == \A g \in S : cur[p] # g
AllReplaced(p, r, S) == Premise(p) /\ <>[]Claimable(r) => <>[]NoneInMap(p, S)

(* ... but the last of the workers is not.                                 *)
LEMMA ClaimableIsTaken ==
    ASSUME HeartbeatsTimely, IsFiniteSet(Procs), IsFiniteSet(Runs),
           NEW p \in Procs, NEW r \in Runs
    PROVE  Premise(p) => ~<>[]Claimable(r)
<1>1. AllReplaced(p, r, {})
  <2>1. NoneInMap(p, {})
    BY DEF NoneInMap
  <2>2. QED
    BY <2>1, PTL DEF AllReplaced
<1>2. ASSUME NEW T \in SUBSET Gens, NEW g \in Gens
      PROVE  AllReplaced(p, r, T) => AllReplaced(p, r, T \union {g})
  <2>1. PICK w \in Workers : w = <<p, g>>
    BY DEF Workers
  <2>2. NoneInMap(p, T) /\ ~InMap(w) => NoneInMap(p, T \union {g})
    BY <2>1 DEF NoneInMap, InMap
  <2>3. Premise(p) /\ <>[]Claimable(r) => <>[]~InMap(w)
    BY <2>1, PollerIsReplaced
  <2>4. QED
    BY <2>2, <2>3, PTL DEF AllReplaced
<1>3. \E f : \A S \in SUBSET Gens : f[S] = 1 <=> AllReplaced(p, r, S)
  <2>1. Term([S \in SUBSET Gens |-> IF AllReplaced(p, r, S) THEN 1 ELSE 0])
    BY DEF Term
  <2>2. QED
    BY <2>1
<1>4. PICK f : \A S \in SUBSET Gens : f[S] = 1 <=> AllReplaced(p, r, S)
  BY <1>3
<1>5. f[{}] = 1
  BY <1>1, <1>4
<1>6. ASSUME NEW T \in SUBSET Gens, NEW g \in Gens
      PROVE  f[T] = 1 => f[T \union {g}] = 1
  BY <1>2, <1>4
<1>7. IsFiniteSet(Gens)
  BY FiniteWorkers
<1>8. AllReplaced(p, r, Gens)
  BY <1>4, <1>5, <1>6, <1>7, InductionOnFiniteSet
<1>9. CoreInv /\ Serving(p) => ~NoneInMap(p, Gens)
  BY DEF CoreInv, TypeOK, ProcsOK, Serving, NoneInMap
<1>10. Premise(p) => [](CoreInv /\ ExecInv)
  BY PremiseSteps, PTL
<1>11. QED
  BY <1>8, <1>9, <1>10, PTL DEF AllReplaced, Premise

(* With heartbeats in time, one process that goes on serving is enough:    *)
(* every run of finitely many is settled or dropped at last, whatever      *)
(* became of the processes, claims, answers and replaced workers on its    *)
(* way (claimOne, runHandler, work, sweepStaleClaims,                      *)
(* recoverStaleClaimedRowsOnStartup, stop), as long as nothing is stuck.   *)
THEOREM RunsSettle ==
    ASSUME HeartbeatsTimely, IsFiniteSet(Procs), IsFiniteSet(Runs)
    PROVE  FairSpec /\ []NothingIsStuck => EveryRunSettles
<1>1. ASSUME NEW p \in Procs, NEW r \in Runs
      PROVE  Premise(p) => (status[r] \in Active ~> status[r] \notin Active)
  <2>1. Premise(p) => <>[](status[r] # "claimed")
    BY ClaimsEnd
  <2>2. Premise(p) => <>[](~Waiting(r)) \/ <>[]Claimable(r)
    BY WaitingTurnsClaimable
  <2>3. Premise(p) => ~<>[]Claimable(r)
    BY ClaimableIsTaken
  <2>4. ~Waiting(r) /\ status[r] # "claimed" => status[r] \notin Active
    BY DEF Waiting, Active
  <2>5. QED
    BY <2>1, <2>2, <2>3, <2>4, PTL
<1>2. QED
  BY <1>1 DEF EveryRunSettles, Premise, Fair
=============================================================================
