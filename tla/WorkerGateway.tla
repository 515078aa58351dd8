---------------------------- MODULE WorkerGateway ---------------------------
(***************************************************************************)
(* The gateway's side of the link, for one deployment: the life of an SSE  *)
(* connection in handleStreamConnection                                    *)
(* (packages/server/src/gateway/gateway/index.ts), the connection manager, *)
(* the job router with its delivery receipts, and what these ask of the    *)
(* runs queue: the workers of the queue thread_message_<deployment> are    *)
(* made by work(), paused and resumed. RunsQueue has the queue itself; a   *)
(* row is here only queued, claimed or settled.                            *)
(*                                                                         *)
(* A step runs to the next await of the handler it belongs to. The queue   *)
(* worker that work() makes for a connection is named after it.            *)
(***************************************************************************)
EXTENDS WorkerLink

CONSTANT
    MaxAttempts   \* runs.max_attempts

ASSUME GatewayAssumption == MaxAttempts \in Nat \ {0}

VARIABLES
    conn,      \* the entry of the connections map, or NoConn
    stage,     \* where the handler of a connection is
    aborted,   \* connections whose abort the gateway has seen
    cur,       \* the entry of the queue's workers map, or NoConn
    victim,    \* the worker that a work() call in progress will replace
    worker,    \* "none", "paused", "live" or "stopped"
    busy,      \* busy[c]: the job that the loop of worker c handles
    row,       \* "absent", "queued", "claimed", "completed" or "failed"
    tries,     \* attempts that threw
    pending,   \* jobs in pendingJobs
    \* history
    late,      \* a handler resumed the worker when its connection was gone
    leaked,    \* workers out of the map that nobody stopped
    stale      \* the stale clean-up has removed a connection

gatewayVars ==
    <<conn, stage, aborted, cur, victim, worker, busy, row, tries, pending,
      late, leaked, stale>>

Stages == {"none", "pausing", "added", "replacing", "resuming", "open",
           "ended"}

GatewayTypeOK ==
    /\ conn \in Conns \union {NoConn}
    /\ stage \in [Conns -> Stages]
    /\ aborted \subseteq Conns
    /\ cur \in Conns \union {NoConn}
    /\ victim \in [Conns -> Conns \union {NoConn}]
    /\ worker \in [Conns -> {"none", "paused", "live", "stopped"}]
    /\ busy \in [Conns -> Jobs \union {NoJob}]
    /\ row \in [Jobs -> {"absent", "queued", "claimed", "completed", "failed"}]
    /\ tries \in [Jobs -> 0..MaxAttempts]
    /\ pending \subseteq Jobs
    /\ late \in BOOLEAN
    /\ leaked \subseteq Conns
    /\ stale \in BOOLEAN

GatewayInit ==
    /\ conn = NoConn
    /\ stage = [c \in Conns |-> "none"]
    /\ aborted = {}
    /\ cur = NoConn
    /\ victim = [c \in Conns |-> NoConn]
    /\ worker = [c \in Conns |-> "none"]
    /\ busy = [c \in Conns |-> NoJob]
    /\ row = [j \in Jobs |-> "absent"]
    /\ tries = [j \in Jobs |-> 0]
    /\ pending = {}
    /\ late = FALSE
    /\ leaked = {}
    /\ stale = FALSE

jobVars == <<busy, row, tries, pending>>

-----------------------------------------------------------------------------
(* The queue as the job router uses it                                     *)

(* pauseWorker, up to its first await.                                     *)
Paused(workers) ==
    IF cur = NoConn THEN workers ELSE [workers EXCEPT ![cur] = "paused"]

(* removeConnection: the writer of the entry is ended, the entry removed.  *)
EndsCurrent == IF conn = NoConn THEN ended ELSE ended \union {conn}

-----------------------------------------------------------------------------
(* A connection                                                            *)

(* The worker process requests the stream. The handler subscribes to its   *)
(* end and pauses the queue worker, and awaits that.                       *)
Connect(c) ==
    /\ stage[c] = "none" /\ reading = NoConn
    /\ reading' = c
    /\ stage' = [stage EXCEPT ![c] = "pausing"]
    /\ worker' = Paused(worker)
    /\ UNCHANGED <<wire, ended, receipts, conn, aborted, cur, victim, jobVars, late,
                   leaked, stale>>

(* Faulty: a second connection is added next to the first.                 *)
AddConnectionKeepsOld(c) ==
    /\ stage[c] = "pausing"
    /\ \/ /\ c \in aborted
          /\ stage' = [stage EXCEPT ![c] = "ended"]
          /\ UNCHANGED <<ended, conn>>
       \/ /\ c \notin aborted
          /\ stage' = [stage EXCEPT ![c] = "added"]
          /\ ended' = ended
          /\ conn' = IF conn = NoConn THEN c ELSE conn
    /\ UNCHANGED <<wire, reading, receipts, aborted, cur, victim, worker,
                   jobVars, late, leaked, stale>>

(* After the pause: an aborted request is given up; otherwise the old      *)
(* connection is evicted and the new one added.                            *)
AddConnection(c) ==
    /\ stage[c] = "pausing"
    /\ \/ /\ c \in aborted
          /\ stage' = [stage EXCEPT ![c] = "ended"]
          /\ UNCHANGED <<ended, conn>>
       \/ /\ c \notin aborted
          /\ stage' = [stage EXCEPT ![c] = "added"]
          /\ ended' = EndsCurrent
          /\ conn' = c
    /\ UNCHANGED <<wire, reading, receipts, aborted, cur, victim, worker,
                   jobVars, late, leaked, stale>>

(* The new, paused worker that work() makes for c takes its place in the   *)
(* map. Of the workers there were, work() stops the one it has seen; one   *)
(* that another call has put there in the meantime leaves the map without  *)
(* being stopped.                                                          *)
NewWorker(c, seen) ==
    /\ worker' = [w \in Conns |-> IF w = c THEN "paused"
                                  ELSE IF w = seen THEN "stopped"
                                  ELSE worker[w]]
    /\ leaked' = IF cur \in {NoConn, seen} THEN leaked
                 ELSE leaked \union {cur}
    /\ cur' = c
    /\ stage' = [stage EXCEPT ![c] = "resuming"]

(* registerWorker calls work(). When the map holds a worker, that worker's *)
(* lease is given up first, which is awaited.                              *)
RegisterWorker(c) ==
    /\ stage[c] = "added"
    /\ \/ /\ cur = NoConn
          /\ NewWorker(c, NoConn)
          /\ UNCHANGED victim
       \/ /\ cur # NoConn
          /\ stage' = [stage EXCEPT ![c] = "replacing"]
          /\ victim' = [victim EXCEPT ![c] = cur]
          /\ UNCHANGED <<cur, worker, leaked>>
    /\ UNCHANGED <<linkVars, conn, aborted, jobVars, late, stale>>

(* work() goes on after that await.                                        *)
ReplaceWorker(c) ==
    /\ stage[c] = "replacing"
    /\ NewWorker(c, victim[c])
    /\ UNCHANGED <<linkVars, conn, aborted, victim, jobVars, late, stale>>

(* resumeWorker, of whatever worker the map holds. The handler does not    *)
(* look whether its connection was aborted or evicted before it does so.   *)
ResumeWorker(c) ==
    /\ stage[c] = "resuming"
    /\ stage' = [stage EXCEPT ![c] = IF c \in aborted THEN "ended" ELSE "open"]
    /\ worker' = [worker EXCEPT ![cur] = "live"]
    /\ late' = (late \/ conn # c)
    /\ UNCHANGED <<linkVars, conn, aborted, cur, victim, jobVars, leaked,
                   stale>>

(* Faulty: the connection is removed, its queue worker goes on.            *)
AbortUnpaused(c) ==
    /\ stage[c] \notin {"none", "ended"} /\ c \notin aborted /\ reading # c
    /\ aborted' = aborted \union {c}
    /\ stage' = [stage EXCEPT ![c] = IF @ = "open" THEN "ended" ELSE @]
    /\ \/ /\ stage[c] = "pausing" \/ conn \notin {c, NoConn}
          /\ UNCHANGED <<ended, conn>>
       \/ /\ stage[c] # "pausing" /\ conn \in {c, NoConn}
          /\ ended' = EndsCurrent
          /\ conn' = NoConn
    /\ UNCHANGED <<wire, reading, receipts, cur, victim, worker, jobVars, late,
                   leaked, stale>>

(* The abort of a stream that the worker no longer reads reaches the       *)
(* gateway, and runCleanup runs: nothing before the connection was added,  *)
(* nothing when another one has taken its place; otherwise the queue       *)
(* worker is paused and the connection removed.                            *)
Abort(c) ==
    /\ stage[c] \notin {"none", "ended"} /\ c \notin aborted /\ reading # c
    /\ aborted' = aborted \union {c}
    /\ stage' = [stage EXCEPT ![c] = IF @ = "open" THEN "ended" ELSE @]
    /\ \/ /\ stage[c] = "pausing" \/ conn \notin {c, NoConn}
          /\ UNCHANGED <<worker, ended, conn>>
       \/ /\ stage[c] # "pausing" /\ conn \in {c, NoConn}
          /\ worker' = Paused(worker)
          /\ ended' = EndsCurrent
          /\ conn' = NoConn
    /\ UNCHANGED <<wire, reading, receipts, cur, victim, jobVars, late,
                   leaked, stale>>

(* cleanupStaleConnections: a connection that its worker has left without  *)
(* the gateway seeing it is removed; the queue worker is not paused.       *)
StaleCleanup ==
    /\ conn # NoConn /\ reading # conn
    /\ stale' = TRUE
    /\ ended' = EndsCurrent
    /\ conn' = NoConn
    /\ UNCHANGED <<wire, reading, receipts, stage, aborted, cur, victim,
                   worker, jobVars, late, leaked>>

-----------------------------------------------------------------------------
(* A job                                                                   *)

(* A run is sent to the queue.                                             *)
Enqueue(j) ==
    /\ row[j] = "absent"
    /\ row' = [row EXCEPT ![j] = "queued"]
    /\ UNCHANGED <<linkVars, conn, stage, aborted, cur, victim, worker, busy,
                   tries, pending, late, leaked, stale>>

(* The loop of a worker that is neither paused nor stopped claims a run.   *)
Claim(w, j) ==
    /\ worker[w] = "live" /\ busy[w] = NoJob /\ row[j] = "queued"
    /\ row' = [row EXCEPT ![j] = "claimed"]
    /\ busy' = [busy EXCEPT ![w] = j]
    /\ UNCHANGED <<linkVars, conn, stage, aborted, cur, victim, worker, tries,
                   pending, late, leaked, stale>>

(* The handler of w's job throws: markFailed or scheduleRetry.             *)
Throw(w) ==
    LET j == busy[w] IN
    /\ tries' = [tries EXCEPT ![j] = @ + 1]
    /\ row' = [row EXCEPT ![j] = IF tries[j] + 1 < MaxAttempts THEN "queued"
                                 ELSE "failed"]
    /\ busy' = [busy EXCEPT ![w] = NoJob]
    /\ pending' = pending \ {j}

(* Faulty: a job counts as delivered when it has been written.             *)
HandleJobTrusts(w) ==
    /\ busy[w] # NoJob /\ busy[w] \notin pending
    /\ \/ /\ Throw(w)
          /\ UNCHANGED wire
       \/ /\ conn # NoConn
          /\ LET j == busy[w] IN
             /\ wire' = IF conn \in ended \/ reading # conn THEN wire
                        ELSE [wire EXCEPT ![conn] = Append(@, j)]
             /\ row' = [row EXCEPT ![j] = "completed"]
             /\ busy' = [busy EXCEPT ![w] = NoJob]
          /\ UNCHANGED <<pending, tries>>
    /\ UNCHANGED <<ended, reading, receipts, conn, stage, aborted, cur, victim,
                   worker, late, leaked, stale>>

(* handleJob: without a connection, or when the run token is refused, it   *)
(* throws. Otherwise the job event is written, which succeeds even when    *)
(* nobody reads it, and the receipt is awaited.                            *)
HandleJob(w) ==
    /\ busy[w] # NoJob /\ busy[w] \notin pending
    /\ \/ /\ Throw(w)
          /\ UNCHANGED wire
       \/ /\ conn # NoConn
          /\ LET j == busy[w] IN
             /\ pending' = pending \union {j}
             /\ wire' = IF conn \in ended \/ reading # conn THEN wire
                        ELSE [wire EXCEPT ![conn] = Append(@, j)]
          /\ UNCHANGED <<busy, row, tries>>
    /\ UNCHANGED <<ended, reading, receipts, conn, stage, aborted, cur, victim,
                   worker, late, leaked, stale>>

(* A receipt arrives at /worker/response. acknowledgeJob looks the job up  *)
(* by its id: the handler that awaits it, of whichever attempt, returns    *)
(* and the run is completed; a receipt nobody awaits is ignored.           *)
ReceiptArrives(j) ==
    /\ j \in receipts
    /\ receipts' = receipts \ {j}
    /\ \/ /\ j \in pending
          /\ pending' = pending \ {j}
          /\ row' = [row EXCEPT ![j] = "completed"]
          /\ busy' = [w \in Conns |-> IF busy[w] = j THEN NoJob ELSE busy[w]]
       \/ /\ j \notin pending
          /\ UNCHANGED <<pending, row, busy>>
    /\ UNCHANGED <<wire, ended, reading, conn, stage, aborted, cur, victim,
                   worker, tries, late, leaked, stale>>

(* The receipt has not come within 5 seconds.                              *)
ReceiptTimeout(w) ==
    /\ busy[w] \in pending
    /\ Throw(w)
    /\ UNCHANGED <<linkVars, conn, stage, aborted, cur, victim, worker, late,
                   leaked, stale>>

GatewayNext ==
    \/ \E c \in Conns :
        \/ Connect(c) \/ AddConnection(c) \/ RegisterWorker(c)
        \/ ReplaceWorker(c) \/ ResumeWorker(c) \/ Abort(c)
        \/ HandleJob(c) \/ ReceiptTimeout(c)
        \/ \E j \in Jobs : Claim(c, j)
    \/ StaleCleanup
    \/ \E j \in Jobs : Enqueue(j) \/ ReceiptArrives(j)
=============================================================================
