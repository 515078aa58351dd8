------------------------------ MODULE RunsQueue ------------------------------
(***************************************************************************)
(* The Postgres-backed runs queue of the gateway                           *)
(* (packages/server/src/gateway/infrastructure/queue/runs-queue.ts): one   *)
(* queue name of public.runs, its dispatch receipts, and the processes     *)
(* (one RunsQueue object each) that send to it, claim from it, sweep it    *)
(* and stop or crash while doing so.                                       *)
(*                                                                         *)
(* Every SQL statement is one atomic step; every await between two         *)
(* statements is a point where another process may step. Time is kept only *)
(* as far as the code compares it: whether run_at and expires_at have      *)
(* passed, and how old claimed_at (of a claimed row) or completed_at (of a *)
(* finished one) is.                                                       *)
(***************************************************************************)
EXTENDS Naturals

CONSTANTS
    Procs,            \* RunsQueue objects; a restarted gateway is a new one,
                      \* because claimedBy is a UUID made by the constructor
    Runs,             \* ids of rows of public.runs, never reused
    Keys,             \* idempotency keys
    NoKey, NoProc,    \* SQL NULL in idempotency_key and in claimed_by
    NoRun,            \* SQL NULL in queue_dispatch_receipts.run_id
    Prio,             \* runs.priority of each row
    Sends,            \* what is sent: [key, durable, expires, due]
    MaxAttempts,      \* runs.max_attempts
    MaxWork,          \* bound: calls of work() per process
    MaxDbErrors,      \* bound: statements whose error the code handles
    HeartbeatsTimely  \* TRUE: no claim goes stale under a live handler

ASSUME ConstantsAssumption ==
    /\ MaxAttempts \in Nat \ {0}
    /\ MaxWork \in Nat \ {0}
    /\ MaxDbErrors \in Nat
    /\ Prio \in [Runs -> Nat]
    /\ Sends \subseteq [key : Keys \union {NoKey}, durable : BOOLEAN,
                        expires : {"never", "later"}, due : BOOLEAN]
    /\ \A m \in Sends : m.durable => m.key # NoKey
    /\ NoKey \notin Keys
    /\ NoProc \notin Procs
    /\ NoRun \notin Runs
    /\ HeartbeatsTimely \in BOOLEAN

VARIABLES
    \* public.runs
    status, attempts, claimedBy, key,
    due,       \* run_at <= now()
    expires,   \* expires_at: "never" (NULL), "later" or "passed"
    age,       \* claimed: 1 past the visibility timeout, 2 past twice that;
               \* finished: 1 past retention, 2 past the one for failed runs
    \* public.queue_dispatch_receipts
    receipt,   \* receipt[k]: [there, run, old]
    \* a RunsQueue object
    mode,      \* "new", "up", "draining", "stopped", "dead"
    cur,       \* the worker in the workers map, 0 when there is none
    tx,        \* a send whose INSERT met a conflict, before its SELECT
    \* a QueueWorker of a process and its poll loop
    worker,    \* "none", "replacing", "paused", "live", "stopped"
    victim,    \* the worker that a work() call in progress will replace
    phase, job, snap,   \* the loop's step, the claimed run, its attempts
    \* history
    ran, throws, dbErrors

rowVars == <<status, attempts, claimedBy, key, due, expires, age>>
procVars == <<mode, cur, tx>>
workerVars == <<worker, victim>>
loopVars == <<phase, job, snap>>
historyVars == <<ran, throws, dbErrors>>
vars == <<rowVars, receipt, procVars, workerVars, loopVars, historyVars>>

-----------------------------------------------------------------------------
Gens == 1..MaxWork
Workers == Procs \X Gens

Statuses == {"absent", "pending", "claimed", "completed", "failed", "deleted"}
Active == {"pending", "claimed"}
Finished == {"completed", "failed"}
Executing == {"fetched", "running", "succeeded", "threw"}
Phases == {"poll", "claiming"} \union Executing

NoReceipt == [there |-> FALSE, run |-> NoRun, old |-> FALSE]
NoTx == [key |-> NoKey, durable |-> FALSE]

Init ==
    /\ status = [r \in Runs |-> "absent"]
    /\ attempts = [r \in Runs |-> 0]
    /\ claimedBy = [r \in Runs |-> NoProc]
    /\ key = [r \in Runs |-> NoKey]
    /\ due = [r \in Runs |-> FALSE]
    /\ expires = [r \in Runs |-> "never"]
    /\ age = [r \in Runs |-> 0]
    /\ receipt = [k \in Keys |-> NoReceipt]
    /\ mode = [p \in Procs |-> "new"]
    /\ cur = [p \in Procs |-> 0]
    /\ tx = [p \in Procs |-> NoTx]
    /\ worker = [w \in Workers |-> "none"]
    /\ victim = [w \in Workers |-> 0]
    /\ phase = [w \in Workers |-> "poll"]
    /\ job = [w \in Workers |-> NoRun]
    /\ snap = [w \in Workers |-> 0]
    /\ ran = [r \in Runs |-> FALSE]
    /\ throws = [r \in Runs |-> 0]
    /\ dbErrors = 0

(* Definitions whose comment begins with "Faulty:" are no part of Next;    *)
(* each stands in for the definition that follows it to show that the      *)
(* properties notice the fault.                                            *)

(* Faulty: taking a row back costs one attempt.                            *)
RequeueSpends(R) ==
    /\ status' = [r \in Runs |-> IF r \in R THEN "pending" ELSE status[r]]
    /\ claimedBy' = [r \in Runs |-> IF r \in R THEN NoProc ELSE claimedBy[r]]
    /\ due' = [r \in Runs |-> IF r \in R THEN TRUE ELSE due[r]]
    /\ age' = [r \in Runs |-> IF r \in R THEN 0 ELSE age[r]]
    /\ attempts' = [r \in Runs |-> IF r \in R THEN attempts[r] + 1
                                   ELSE attempts[r]]
    /\ UNCHANGED <<key, expires>>

(* An UPDATE that gives the rows of R back to the queue and makes them     *)
(* due, as recovery and the stale sweep do: attempts stays as it is.       *)
Requeue(R) ==
    /\ status' = [r \in Runs |-> IF r \in R THEN "pending" ELSE status[r]]
    /\ claimedBy' = [r \in Runs |-> IF r \in R THEN NoProc ELSE claimedBy[r]]
    /\ due' = [r \in Runs |-> IF r \in R THEN TRUE ELSE due[r]]
    /\ age' = [r \in Runs |-> IF r \in R THEN 0 ELSE age[r]]
    /\ UNCHANGED <<attempts, key, expires>>

-----------------------------------------------------------------------------
(* Lifecycle                                                               *)

(* Faulty: a starting process takes every claim for one of the crashed.    *)
RecoverableRowsAnyAge == {r \in Runs : status[r] = "claimed"}

(* Rows that startup recovery takes back: claimed longer ago than twice    *)
(* the visibility timeout.                                                 *)
RecoverableRows == {r \in Runs : status[r] = "claimed" /\ age[r] = 2}

(* start(): connected, then recoverStaleClaimedRowsOnStartup. The sweep    *)
(* timer it starts is SweepStaleClaims.                                    *)
Start(p) ==
    /\ mode[p] = "new"
    /\ mode' = [mode EXCEPT ![p] = "up"]
    /\ Requeue(RecoverableRows)
    /\ UNCHANGED <<receipt, cur, tx, workerVars, loopVars, historyVars>>

(* The recovery scan failed: logged, the queue starts all the same.        *)
StartUnrecovered(p) ==
    /\ mode[p] = "new"
    /\ mode' = [mode EXCEPT ![p] = "up"]
    /\ dbErrors < MaxDbErrors
    /\ dbErrors' = dbErrors + 1
    /\ UNCHANGED <<rowVars, receipt, cur, tx, workerVars, loopVars, ran, throws>>

(* stop() up to its first await: no send and no work() is accepted any     *)
(* more and the worker in the map is told to stop. A worker that a racing  *)
(* work() dropped from the map is not reached.                             *)
StopBegin(p) ==
    /\ mode[p] = "up"
    /\ mode' = [mode EXCEPT ![p] = "draining"]
    /\ worker' = [w \in Workers |-> IF w = <<p, cur[p]>> THEN "stopped"
                                    ELSE worker[w]]
    /\ UNCHANGED <<rowVars, receipt, cur, tx, victim, loopVars, historyVars>>

(* worker.active is 1 from the answer of claimOne to the end of runHandler *)
Busy(w) == phase[w] \in {"running", "succeeded", "threw"}

ReleasedRows(p) == {r \in Runs : status[r] = "claimed" /\ claimedBy[r] = p}

(* The rest of stop(): the drain ends, the process's claims are released   *)
(* (run_at stays as it was, and it had passed), the workers are forgotten. *)
StopRelease(p) ==
    /\ mode[p] = "draining"
    /\ Requeue(ReleasedRows(p))
    /\ mode' = [mode EXCEPT ![p] = "stopped"]
    /\ cur' = [cur EXCEPT ![p] = 0]
    /\ UNCHANGED <<receipt, tx, workerVars, loopVars, historyVars>>

StopDrained(p) ==
    /\ \A w \in Workers : w = <<p, cur[p]>> => ~Busy(w)
    /\ StopRelease(p)

(* SHUTDOWN_DRAIN_MS ran out with a handler still running.                 *)
StopTimedOut(p) ==
    /\ \E w \in Workers : w = <<p, cur[p]>> /\ Busy(w)
    /\ StopRelease(p)

(* The release UPDATE failed: logged, the rows wait for the stale sweep.   *)
StopUnreleased(p) ==
    /\ mode[p] = "draining"
    /\ dbErrors < MaxDbErrors
    /\ dbErrors' = dbErrors + 1
    /\ mode' = [mode EXCEPT ![p] = "stopped"]
    /\ cur' = [cur EXCEPT ![p] = 0]
    /\ UNCHANGED <<rowVars, receipt, tx, workerVars, loopVars, ran, throws>>

(* The process ends, orderly or not: its loops, handlers and open          *)
(* transactions are gone, its rows stay as they are.                       *)
Die(p) ==
    /\ mode[p] \in {"up", "draining", "stopped"}
    /\ mode' = [mode EXCEPT ![p] = "dead"]
    /\ cur' = [cur EXCEPT ![p] = 0]
    /\ tx' = [tx EXCEPT ![p] = NoTx]
    /\ worker' = [w \in Workers |-> IF w[1] = p THEN "stopped" ELSE worker[w]]
    /\ victim' = [w \in Workers |-> IF w[1] = p THEN 0 ELSE victim[w]]
    /\ phase' = [w \in Workers |-> IF w[1] = p THEN "poll" ELSE phase[w]]
    /\ job' = [w \in Workers |-> IF w[1] = p THEN NoRun ELSE job[w]]
    /\ snap' = [w \in Workers |-> IF w[1] = p THEN 0 ELSE snap[w]]
    /\ UNCHANGED <<rowVars, receipt, historyVars>>

-----------------------------------------------------------------------------
(* Producer: sendWithDisposition                                           *)

(* Faulty: a claimed row no longer holds its key.                          *)
PendingWithKey(k) == {r \in Runs : status[r] = "pending" /\ key[r] = k}

ActiveWithKey(k) == {r \in Runs : status[r] \in Active /\ key[r] = k}

(* The receipt row is new to this transaction: none is committed, and no   *)
(* other transaction holds an uncommitted one (the INSERT would wait).     *)
ReceiptFree(k) ==
    /\ ~receipt[k].there
    /\ \A q \in Procs : tx[q] # [key |-> k, durable |-> TRUE]

(* Faulty: the receipt is committed before the row is inserted.            *)
SendInsertNotAtomic(p, r, m) ==
    /\ mode[p] = "up"
    /\ tx[p] = NoTx
    /\ status[r] = "absent"
    /\ ActiveWithKey(m.key) = {}
    /\ m.durable /\ ReceiptFree(m.key)
    /\ receipt' = [receipt EXCEPT ![m.key] =
                      [there |-> TRUE, run |-> NoRun, old |-> FALSE]]
    /\ UNCHANGED <<rowVars, procVars, workerVars, loopVars, historyVars>>

(* Insert a row, with its receipt when the send is durable. A durable send *)
(* that finds a receipt changes nothing: it returns the receipt's run as   *)
(* deduplicated, or throws on a scope collision.                           *)
SendInsert(p, r, m) ==
    /\ mode[p] = "up"
    /\ tx[p] = NoTx
    /\ status[r] = "absent"
    /\ m.key # NoKey => ActiveWithKey(m.key) = {}
    /\ m.durable => ReceiptFree(m.key)
    /\ status' = [status EXCEPT ![r] = "pending"]
    /\ key' = [key EXCEPT ![r] = m.key]
    /\ due' = [due EXCEPT ![r] = m.due]
    /\ expires' = [expires EXCEPT ![r] = m.expires]
    /\ receipt' = IF m.durable
                  THEN [receipt EXCEPT ![m.key] =
                          [there |-> TRUE, run |-> r, old |-> FALSE]]
                  ELSE receipt
    /\ UNCHANGED <<attempts, claimedBy, age, procVars, workerVars, loopVars,
                   historyVars>>

(* The INSERT met the partial unique index on active keys.                 *)
SendConflict(p, m) ==
    /\ mode[p] = "up"
    /\ tx[p] = NoTx
    /\ m.key # NoKey
    /\ ActiveWithKey(m.key) # {}
    /\ m.durable => ReceiptFree(m.key)
    /\ tx' = [tx EXCEPT ![p] = [key |-> m.key, durable |-> m.durable]]
    /\ UNCHANGED <<rowVars, receipt, mode, cur, workerVars, loopVars,
                   historyVars>>

(* Then the SELECT, a statement of its own under READ COMMITTED: the row   *)
(* may have finished meanwhile, and then the receipt keeps run_id NULL and *)
(* the caller gets an empty job id.                                        *)
SendLookup(p) ==
    LET k == tx[p].key IN
    /\ mode[p] # "dead"
    /\ tx[p] # NoTx
    /\ tx' = [tx EXCEPT ![p] = NoTx]
    /\ IF ~tx[p].durable
       THEN receipt' = receipt
       ELSE IF ActiveWithKey(k) = {}
       THEN receipt' = [receipt EXCEPT ![k] =
                          [there |-> TRUE, run |-> NoRun, old |-> FALSE]]
       ELSE \E r \in ActiveWithKey(k) :
               receipt' = [receipt EXCEPT ![k] =
                             [there |-> TRUE, run |-> r, old |-> FALSE]]
    /\ UNCHANGED <<rowVars, mode, cur, workerVars, loopVars, historyVars>>

-----------------------------------------------------------------------------
(* Consumer: work, pauseWorker, resumeWorker                               *)

NextGen(p, g) ==
    /\ worker[<<p, g>>] = "none"
    /\ \A h \in Gens : h < g => worker[<<p, h>>] # "none"

(* work() when the map holds no worker of the queue; startPaused chooses   *)
(* the state the worker begins in.                                         *)
WorkFirst(p, g, begin) ==
    /\ mode[p] = "up"
    /\ NextGen(p, g)
    /\ cur[p] = 0
    /\ worker' = [worker EXCEPT ![<<p, g>>] = begin]
    /\ cur' = [cur EXCEPT ![p] = g]
    /\ UNCHANGED <<rowVars, receipt, mode, tx, victim, loopVars, historyVars>>

(* work() when there is one: it awaits the end of the lease first.         *)
WorkAgain(p, g) ==
    /\ mode[p] = "up"
    /\ NextGen(p, g)
    /\ cur[p] # 0
    /\ worker' = [worker EXCEPT ![<<p, g>>] = "replacing"]
    /\ victim' = [victim EXCEPT ![<<p, g>>] = cur[p]]
    /\ UNCHANGED <<rowVars, receipt, procVars, loopVars, historyVars>>

(* ... and then replaces the worker it saw, without looking again at       *)
(* shuttingDown or at the map: a handler of the old worker runs on.        *)
WorkReplace(p, g, begin) ==
    /\ worker[<<p, g>>] = "replacing"
    /\ worker' = [worker EXCEPT ![<<p, victim[<<p, g>>]>>] = "stopped",
                                ![<<p, g>>] = begin]
    /\ victim' = [victim EXCEPT ![<<p, g>>] = 0]
    /\ cur' = [cur EXCEPT ![p] = g]
    /\ UNCHANGED <<rowVars, receipt, mode, tx, loopVars, historyVars>>

PauseWorker(p) ==
    /\ cur[p] # 0
    /\ worker[<<p, cur[p]>>] = "live"
    /\ worker' = [worker EXCEPT ![<<p, cur[p]>>] = "paused"]
    /\ UNCHANGED <<rowVars, receipt, procVars, victim, loopVars, historyVars>>

ResumeWorker(p) ==
    /\ cur[p] # 0
    /\ worker[<<p, cur[p]>>] = "paused"
    /\ worker' = [worker EXCEPT ![<<p, cur[p]>>] = "live"]
    /\ UNCHANGED <<rowVars, receipt, procVars, victim, loopVars, historyVars>>

-----------------------------------------------------------------------------
(* The poll loop of a worker: claimOne, runHandler and what settles a run  *)

(* The loop saw neither stopped nor paused and no active handler, and      *)
(* issued the claim. What happens to the worker meanwhile is not looked at *)
(* again before the handler is started.                                    *)
LoopClaims(w) ==
    /\ worker[w] = "live"
    /\ phase[w] = "poll"
    /\ phase' = [phase EXCEPT ![w] = "claiming"]
    /\ UNCHANGED <<rowVars, receipt, procVars, workerVars, job, snap,
                   historyVars>>

Claimable(r) == status[r] = "pending" /\ due[r] /\ expires[r] # "passed"

(* ORDER BY priority DESC; among equals run_at and id decide, which the    *)
(* model leaves open.                                                      *)
NextRun == {r \in Runs : /\ Claimable(r)
                         /\ \A s \in Runs : Claimable(s) => Prio[s] <= Prio[r]}

ClaimRow(p, r) ==
    /\ status' = [status EXCEPT ![r] = "claimed"]
    /\ claimedBy' = [claimedBy EXCEPT ![r] = p]
    /\ age' = [age EXCEPT ![r] = 0]
    /\ UNCHANGED <<attempts, key, due, expires>>

ClaimOne(w, r) ==
    /\ phase[w] = "claiming"
    /\ r \in NextRun
    /\ ClaimRow(w[1], r)
    /\ phase' = [phase EXCEPT ![w] = "fetched"]
    /\ job' = [job EXCEPT ![w] = r]
    /\ snap' = [snap EXCEPT ![w] = attempts[r]]
    /\ UNCHANGED <<receipt, procVars, workerVars, historyVars>>

ClaimNone(w) ==
    /\ phase[w] = "claiming"
    /\ NextRun = {}
    /\ phase' = [phase EXCEPT ![w] = "poll"]
    /\ UNCHANGED <<rowVars, receipt, procVars, workerVars, job, snap,
                   historyVars>>

(* The claim committed and its answer was lost: the loop logs and goes on, *)
(* the row is claimed with nobody working on it.                           *)
ClaimUnheard(w, r) ==
    /\ phase[w] = "claiming"
    /\ r \in NextRun
    /\ dbErrors < MaxDbErrors
    /\ dbErrors' = dbErrors + 1
    /\ ClaimRow(w[1], r)
    /\ phase' = [phase EXCEPT ![w] = "poll"]
    /\ UNCHANGED <<receipt, procVars, workerVars, job, snap, ran, throws>>

StartHandler(w) ==
    /\ phase[w] = "fetched"
    /\ phase' = [phase EXCEPT ![w] = "running"]
    /\ UNCHANGED <<rowVars, receipt, procVars, workerVars, job, snap,
                   historyVars>>

HandlerReturns(w) ==
    /\ phase[w] = "running"
    /\ phase' = [phase EXCEPT ![w] = "succeeded"]
    /\ ran' = [ran EXCEPT ![job[w]] = TRUE]
    /\ UNCHANGED <<rowVars, receipt, procVars, workerVars, job, snap, throws,
                   dbErrors>>

OneMoreThrow(r) == throws' = [throws EXCEPT ![r] =
                                IF @ < MaxAttempts THEN @ + 1 ELSE @]

HandlerThrows(w) ==
    /\ phase[w] = "running"
    /\ phase' = [phase EXCEPT ![w] = "threw"]
    /\ OneMoreThrow(job[w])
    /\ UNCHANGED <<rowVars, receipt, procVars, workerVars, job, snap, ran,
                   dbErrors>>

(* Faulty: any claim will do.                                              *)
OwnedByAnyone(w) == status[job[w]] = "claimed"

(* WHERE id = r AND status = 'claimed' AND claimed_by = this.claimedBy: it *)
(* tells processes apart, not the claims of one process.                   *)
Owned(w) == status[job[w]] = "claimed" /\ claimedBy[job[w]] = w[1]

HeartbeatClaim(w) ==
    /\ Busy(w)
    /\ Owned(w)
    /\ age' = [age EXCEPT ![job[w]] = 0]
    /\ UNCHANGED <<status, attempts, claimedBy, key, due, expires, receipt,
                   procVars, workerVars, loopVars, historyVars>>

(* The columns of the claim stay on a finished row.                        *)
CompleteRow(w) ==
    IF Owned(w)
    THEN /\ status' = [status EXCEPT ![job[w]] = "completed"]
         /\ age' = [age EXCEPT ![job[w]] = 0]
         /\ UNCHANGED <<attempts, claimedBy, key, due, expires>>
    ELSE UNCHANGED rowVars

FailRow(w) ==
    IF Owned(w)
    THEN /\ status' = [status EXCEPT ![job[w]] = "failed"]
         /\ attempts' = [attempts EXCEPT ![job[w]] = @ + 1]
         /\ age' = [age EXCEPT ![job[w]] = 0]
         /\ UNCHANGED <<claimedBy, key, due, expires>>
    ELSE UNCHANGED rowVars

RetryRow(w) ==
    IF Owned(w)
    THEN /\ status' = [status EXCEPT ![job[w]] = "pending"]
         /\ attempts' = [attempts EXCEPT ![job[w]] = snap[w] + 1]
         /\ claimedBy' = [claimedBy EXCEPT ![job[w]] = NoProc]
         /\ due' = [due EXCEPT ![job[w]] = FALSE]
         /\ age' = [age EXCEPT ![job[w]] = 0]
         /\ UNCHANGED <<key, expires>>
    ELSE UNCHANGED rowVars

LoopFree(w) ==
    /\ phase' = [phase EXCEPT ![w] = "poll"]
    /\ job' = [job EXCEPT ![w] = NoRun]
    /\ snap' = [snap EXCEPT ![w] = 0]

MarkCompleted(w) ==
    /\ phase[w] = "succeeded"
    /\ CompleteRow(w)
    /\ LoopFree(w)
    /\ UNCHANGED <<receipt, procVars, workerVars, historyVars>>

(* markCompleted throws inside the try of runHandler: the invocation is    *)
(* treated as one that threw, whether or not the UPDATE had committed.     *)
MarkCompletedThrows(w, committed) ==
    /\ phase[w] = "succeeded"
    /\ dbErrors < MaxDbErrors
    /\ dbErrors' = dbErrors + 1
    /\ IF committed THEN CompleteRow(w) ELSE UNCHANGED rowVars
    /\ phase' = [phase EXCEPT ![w] = "threw"]
    /\ OneMoreThrow(job[w])
    /\ UNCHANGED <<receipt, procVars, workerVars, job, snap, ran>>

(* Faulty: the last attempt is not granted.                                *)
MarkFailedEarly(w) ==
    /\ phase[w] = "threw"
    /\ snap[w] + 2 >= MaxAttempts
    /\ FailRow(w)
    /\ LoopFree(w)
    /\ UNCHANGED <<receipt, procVars, workerVars, historyVars>>

MarkFailed(w) ==
    /\ phase[w] = "threw"
    /\ snap[w] + 1 >= MaxAttempts
    /\ FailRow(w)
    /\ LoopFree(w)
    /\ UNCHANGED <<receipt, procVars, workerVars, historyVars>>

ScheduleRetry(w) ==
    /\ phase[w] = "threw"
    /\ snap[w] + 1 < MaxAttempts
    /\ RetryRow(w)
    /\ LoopFree(w)
    /\ UNCHANGED <<receipt, procVars, workerVars, historyVars>>

(* Either of the two failed: runHandler rejects, nobody settles the run.   *)
SettleThrows(w) ==
    /\ phase[w] = "threw"
    /\ dbErrors < MaxDbErrors
    /\ dbErrors' = dbErrors + 1
    /\ LoopFree(w)
    /\ UNCHANGED <<rowVars, receipt, procVars, workerVars, ran, throws>>

-----------------------------------------------------------------------------
(* Sweeps                                                                  *)

(* Any process with a running sweep timer: until stop() has released.      *)
Sweeping == \E p \in Procs : mode[p] \in {"up", "draining"}

(* Faulty: only the claims of processes that are gone go stale.            *)
StaleRowsOfTheDead ==
    {r \in Runs : /\ status[r] = "claimed" /\ age[r] >= 1
                  /\ mode[claimedBy[r]] = "dead"}

(* Faulty: rows are requeued whether or not their lease was renewed.       *)
StaleRowsAnyAge == {r \in Runs : status[r] = "claimed"}

StaleRows == {r \in Runs : status[r] = "claimed" /\ age[r] >= 1}

SweepStaleClaims ==
    /\ Sweeping
    /\ StaleRows # {}
    /\ Requeue(StaleRows)
    /\ UNCHANGED <<receipt, procVars, workerVars, loopVars, historyVars>>

(* What the n-th DELETE on runs of sweepCompletedRuns removes.             *)
Sweepable(n) ==
    CASE n = 1 -> {r \in Runs : status[r] = "pending" /\ expires[r] = "passed"}
      [] n = 2 -> {r \in Runs : status[r] = "completed" /\ age[r] >= 1}
      [] n = 3 -> {r \in Runs : status[r] = "failed" /\ age[r] = 2}

(* Receipts past their retention whose run is missing or finished.         *)
AgedReceipts == {k \in Keys : /\ receipt[k].there
                              /\ receipt[k].old
                              /\ receipt[k].run # NoRun =>
                                    status[receipt[k].run] \notin Active}

(* The statements run one after the other outside a transaction; an error  *)
(* in one skips the rest, so each is a step of its own.                    *)
SweepRuns(n) ==
    /\ Sweeping
    /\ Sweepable(n) # {}
    /\ status' = [r \in Runs |-> IF r \in Sweepable(n) THEN "deleted"
                                 ELSE status[r]]
    /\ UNCHANGED <<attempts, claimedBy, key, due, expires, age, receipt,
                   procVars, workerVars, loopVars, historyVars>>

SweepReceipts ==
    /\ Sweeping
    /\ AgedReceipts # {}
    /\ receipt' = [k \in Keys |-> IF k \in AgedReceipts THEN NoReceipt
                                  ELSE receipt[k]]
    /\ UNCHANGED <<rowVars, procVars, workerVars, loopVars, historyVars>>

-----------------------------------------------------------------------------
(* Time                                                                    *)

(* A worker that still runs its handler and heartbeats.                    *)
Tended(r) == \E w \in Workers : /\ phase[w] \in Executing
                                /\ job[w] = r
                                /\ w[1] = claimedBy[r]

AgeRow(r) ==
    /\ status[r] \in Finished \union {"claimed"}
    /\ age[r] < 2
    /\ HeartbeatsTimely => (status[r] = "claimed" => ~Tended(r))
    /\ age' = [age EXCEPT ![r] = @ + 1]
    /\ UNCHANGED <<status, attempts, claimedBy, key, due, expires, receipt,
                   procVars, workerVars, loopVars, historyVars>>

BecomeDue(r) ==
    /\ status[r] = "pending"
    /\ ~due[r]
    /\ due' = [due EXCEPT ![r] = TRUE]
    /\ UNCHANGED <<status, attempts, claimedBy, key, expires, age, receipt,
                   procVars, workerVars, loopVars, historyVars>>

Expire(r) ==
    /\ status[r] \in Active
    /\ expires[r] = "later"
    /\ expires' = [expires EXCEPT ![r] = "passed"]
    /\ UNCHANGED <<status, attempts, claimedBy, key, due, age, receipt,
                   procVars, workerVars, loopVars, historyVars>>

AgeReceipt(k) ==
    /\ receipt[k].there
    /\ ~receipt[k].old
    /\ receipt' = [receipt EXCEPT ![k].old = TRUE]
    /\ UNCHANGED <<rowVars, procVars, workerVars, loopVars, historyVars>>

-----------------------------------------------------------------------------
ProcNext(p) ==
    \/ Start(p) \/ StartUnrecovered(p) \/ StopBegin(p) \/ StopDrained(p) \/ StopTimedOut(p)
    \/ StopUnreleased(p) \/ Die(p)
    \/ PauseWorker(p) \/ ResumeWorker(p)
    \/ \E g \in Gens :
          \/ WorkAgain(p, g)
          \/ \E begin \in {"live", "paused"} :
                WorkFirst(p, g, begin) \/ WorkReplace(p, g, begin)

SendNext(p) ==
    \/ \E m \in Sends : \/ SendConflict(p, m)
                       \/ \E r \in Runs : SendInsert(p, r, m)
    \/ SendLookup(p)

LoopNext(w) ==
    \/ LoopClaims(w) \/ ClaimNone(w) \/ StartHandler(w)
    \/ \E r \in Runs : ClaimOne(w, r) \/ ClaimUnheard(w, r)
    \/ HandlerReturns(w) \/ HandlerThrows(w) \/ HeartbeatClaim(w)
    \/ MarkCompleted(w) \/ MarkFailed(w) \/ ScheduleRetry(w)
    \/ \E committed \in BOOLEAN : MarkCompletedThrows(w, committed)
    \/ SettleThrows(w)

SweepNext == SweepStaleClaims \/ SweepReceipts \/ \E n \in 1..3 : SweepRuns(n)

TimeNext ==
    \/ \E r \in Runs : AgeRow(r) \/ BecomeDue(r) \/ Expire(r)
    \/ \E k \in Keys : AgeReceipt(k)

Next ==
    \/ \E p \in Procs : ProcNext(p) \/ SendNext(p)
    \/ \E w \in Workers : LoopNext(w)
    \/ SweepNext
    \/ TimeNext

Spec == Init /\ [][Next]_vars

-----------------------------------------------------------------------------
(* Fairness: the poll loop, the handlers and the settling of their runs go *)
(* on in every living process, the 30 s and retention sweeps keep running, *)
(* and time passes. Nothing is assumed of sends, stops, crashes, pauses,   *)
(* heartbeats or database errors.                                          *)
Answered(w) == ClaimNone(w) \/ \E r \in Runs : ClaimOne(w, r)

HandlerEnds(w) == HandlerReturns(w) \/ HandlerThrows(w)

Settle(w) == MarkCompleted(w) \/ MarkFailed(w) \/ ScheduleRetry(w)

LoopFairness(w) ==
    /\ WF_vars(LoopClaims(w))
    /\ WF_vars(Answered(w))
    /\ WF_vars(StartHandler(w))
    /\ WF_vars(HandlerEnds(w))
    /\ WF_vars(Settle(w))

ClaimAges(r) == status[r] = "claimed" /\ AgeRow(r)

RowFairness(r) ==
    /\ WF_vars(BecomeDue(r))
    /\ WF_vars(ClaimAges(r))
    /\ WF_vars(SweepStaleClaims)
    /\ WF_vars(SweepRuns(1))

FairSpec ==
    /\ Spec
    /\ \A w \in Workers : LoopFairness(w)
    /\ \A r \in Runs : RowFairness(r)

-----------------------------------------------------------------------------
(* Properties                                                              *)

RowsOK ==
    /\ status \in [Runs -> Statuses]
    /\ attempts \in [Runs -> 0..MaxAttempts]
    /\ claimedBy \in [Runs -> Procs \union {NoProc}]
    /\ key \in [Runs -> Keys \union {NoKey}]
    /\ due \in [Runs -> BOOLEAN]
    /\ expires \in [Runs -> {"never", "later", "passed"}]
    /\ age \in [Runs -> 0..2]

ReceiptsOK ==
    receipt \in [Keys -> [there : BOOLEAN, run : Runs \union {NoRun},
                          old : BOOLEAN]]

ProcsOK ==
    /\ mode \in [Procs -> {"new", "up", "draining", "stopped", "dead"}]
    /\ cur \in [Procs -> Gens \union {0}]
    /\ tx \in [Procs -> [key : Keys \union {NoKey}, durable : BOOLEAN]]

WorkersOK ==
    /\ worker \in [Workers -> {"none", "replacing", "paused", "live", "stopped"}]
    /\ victim \in [Workers -> Gens \union {0}]

LoopsOK ==
    /\ phase \in [Workers -> Phases]
    /\ job \in [Workers -> Runs \union {NoRun}]
    /\ snap \in [Workers -> 0..MaxAttempts]

HistoryOK ==
    /\ ran \in [Runs -> BOOLEAN]
    /\ throws \in [Runs -> 0..MaxAttempts]
    /\ dbErrors \in 0..MaxDbErrors

TypeOK ==
    RowsOK /\ ReceiptsOK /\ ProcsOK /\ WorkersOK /\ LoopsOK /\ HistoryOK

(* No two rows that are pending or claimed carry the same idempotency key, *)
(* whatever retries, sweeps, releases and concurrent sends did: a requeue  *)
(* of a row whose key was used again meanwhile would break the partial     *)
(* unique index and make the UPDATE of a sweep fail for every row.         *)
ActiveKeysUnique ==
    \A r, s \in Runs :
        /\ status[r] \in Active /\ status[s] \in Active
        /\ key[r] = key[s] /\ key[r] # NoKey
        => r = s

(* The retry budget is spent by invocations that threw and by nothing      *)
(* else: not by a crash, a lost claim, a sweep or a release; a run is      *)
(* dead-lettered only after as many throws as the budget grants, and a run *)
(* that can still be claimed has some left.                                *)
BudgetSpentByThrows ==
    \A r \in Runs :
        /\ attempts[r] <= throws[r]
        /\ status[r] = "failed" => throws[r] = MaxAttempts
        /\ status[r] \in Active => attempts[r] < MaxAttempts

(* A receipt is only ever left for a key that some row carried, and it     *)
(* names a row of that key: a durable send that is answered "deduplicated" *)
(* was not swallowed by a receipt of nothing.                              *)
ReceiptStandsForRun ==
    \A k \in Keys : receipt[k].there =>
        /\ \E r \in Runs : key[r] = k /\ status[r] # "absent"
        /\ receipt[k].run # NoRun => key[receipt[k].run] = k

(* With heartbeats in time, a process that has not finished stop() keeps   *)
(* the claim on every run its handlers work on until they settle it.       *)
ClaimKeptWhileExecuting ==
    HeartbeatsTimely =>
        \A w \in Workers :
            phase[w] \in Executing /\ mode[w[1]] # "stopped" =>
                Owned(w) \/ (phase[w] = "threw" /\ ran[job[w]])

(* So no run is worked on by two workers at a time, unless one of them     *)
(* belongs to a process whose stop() is over.                              *)
ExclusiveExecution ==
    HeartbeatsTimely =>
        \A w, x \in Workers :
            /\ phase[w] \in Executing /\ phase[x] \in Executing
            /\ job[w] = job[x] /\ w # x
            => mode[w[1]] = "stopped" \/ mode[x[1]] = "stopped"

(* A finished run is never handed out, retried or finished again.          *)
FinishedForGood ==
    [][\A r \in Runs : status[r] \in Finished =>
            status'[r] \in {status[r], "deleted"}]_vars

(* A claim that is not past the visibility timeout is ended by its holder  *)
(* only: by a step of one of its workers or by its stop(). A worker whose  *)
(* claim was swept while it stalled cannot take the run from the process   *)
(* that claimed it next.                                                   *)
FreshClaimEndsByHolder ==
    [][\A r \in Runs, p \in Procs :
          /\ status[r] = "claimed" /\ claimedBy[r] = p /\ age[r] = 0
          /\ status'[r] # "claimed" \/ claimedBy'[r] # p
          => \/ mode[p] = "draining" /\ mode'[p] = "stopped"
             \/ \E g \in Gens : phase[<<p, g>>] # phase'[<<p, g>>]]_vars

(* Where work() is called once per process, attempts never decreases, even *)
(* when claims go stale under live handlers: a late retry of a lost claim  *)
(* writes nothing.                                                         *)
AttemptsNeverDecrease ==
    [][\A r \in Runs : attempts[r] <= attempts'[r]]_vars

(* stop() "waits for in-flight handlers to finish (with a timeout)": when  *)
(* the drain ends without the timeout, no handler of the process runs.     *)
DrainWaitsForHandlers ==
    [][\A p \in Procs : StopDrained(p) =>
            \A w \in Workers : w[1] = p => ~Busy(w)]_vars

Serving(p) == /\ mode[p] = "up"
              /\ cur[p] # 0
              /\ worker[<<p, cur[p]>>] = "live"

(* As long as one process goes on serving the queue, every run is settled  *)
(* or dropped at last: no crash, lost answer, release or replaced worker   *)
(* leaves a row claimed by nobody for ever.                                *)
EveryRunSettles ==
    (\E p \in Procs : <>[]Serving(p)) =>
        \A r \in Runs : status[r] \in Active ~> status[r] \notin Active

(* A claim that nobody works on ends, while some process sweeps: whether   *)
(* its process died, its answer was lost, its release failed or its worker *)
(* was replaced, the row is free again at last (sweepStaleClaims,          *)
(* recoverStaleClaimedRowsOnStartup).                                      *)
LostClaimsEnd ==
    (<>[]Sweeping) =>
        \A r \in Runs :
            status[r] = "claimed" /\ ~Tended(r) ~> status[r] # "claimed"

(* A loop that took a run is free again some day: the handler is started,  *)
(* it ends, and its run is settled, with the row still claimed or not, or  *)
(* the process dies (runHandler).                                          *)
LoopsComeBack ==
    \A w \in Workers : phase[w] \in Executing ~> phase[w] = "poll"

(* A row can go on: a delayed one becomes due, an expired one is deleted,  *)
(* a claim that nobody works on grows old and an old one is swept, whoever *)
(* holds it and whatever became of the holder. So can a loop: a live one   *)
(* asks for a run and is answered, and one that has a run takes its next   *)
(* step, whatever became of its claim (claimOne, heartbeatClaim,           *)
(* sweepStaleClaims, runHandler).                                          *)
NothingIsStuck ==
    /\ \A r \in Runs :
          /\ status[r] = "pending" /\ ~due[r] => ENABLED <<BecomeDue(r)>>_vars
          /\ status[r] = "pending" /\ expires[r] = "passed" /\ Sweeping =>
                ENABLED <<SweepRuns(1)>>_vars
          /\ status[r] = "claimed" =>
                /\ age[r] = 0 /\ ~Tended(r) => ENABLED <<ClaimAges(r)>>_vars
                /\ age[r] > 0 /\ Sweeping => ENABLED <<SweepStaleClaims>>_vars
    /\ \A w \in Workers :
          /\ phase[w] = "poll" /\ worker[w] = "live" => ENABLED <<LoopClaims(w)>>_vars
          /\ phase[w] = "claiming" => ENABLED <<Answered(w)>>_vars
          /\ phase[w] = "fetched" => ENABLED <<StartHandler(w)>>_vars
          /\ phase[w] = "running" => ENABLED <<HandlerEnds(w)>>_vars
          /\ phase[w] \in {"succeeded", "threw"} => ENABLED <<Settle(w)>>_vars

-----------------------------------------------------------------------------
(* The queue implements the ledger of RunLedger.                           *)
LedgerOf(r) ==
    CASE status[r] \in Active -> "open"
      [] status[r] = "deleted" -> "forgotten"
      [] OTHER -> status[r]

Ledger == INSTANCE RunLedger WITH ledger <- [r \in Runs |-> LedgerOf(r)],
                                  ran <- {r \in Runs : ran[r]}

(* Every step of every process is a step of the ledger or leaves it alone. *)
ImplementsLedger == Ledger!LedgerSpec
=============================================================================
