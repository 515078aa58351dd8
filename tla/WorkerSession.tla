--------------------------- MODULE WorkerSession ----------------------------
(***************************************************************************)
(* A worker process and the worker gateway together: how the messages of   *)
(* one deployment get from the runs queue to turns of the agent while the  *)
(* SSE connection breaks, is replaced, goes stale, receipts are late or    *)
(* lost, turns throw and the process dies.                                 *)
(***************************************************************************)
EXTENDS WorkerGateway, WorkerClient

vars == <<linkVars, gatewayVars, clientVars>>

Init == LinkInit /\ GatewayInit /\ ClientInit

(* The POST of a receipt fails; the worker only logs it.                   *)
ReceiptLost(j) ==
    /\ j \in receipts
    /\ receipts' = receipts \ {j}
    /\ UNCHANGED <<wire, ended, reading, gatewayVars, clientVars>>

GatewaySteps ==
    /\ GatewayNext
    /\ reading' # reading => proc = "up"
    /\ UNCHANGED clientVars

ClientSteps == ClientNext /\ UNCHANGED gatewayVars

Next ==
    \/ GatewaySteps
    \/ ClientSteps
    \/ \E j \in Jobs : ReceiptLost(j)

Spec == Init /\ [][Next]_vars

-----------------------------------------------------------------------------
(* Every variable has its type.                                            *)
TypeOK == LinkTypeOK /\ GatewayTypeOK /\ ClientTypeOK

(* The handlers of connections have done all they will do by themselves.   *)
HandlersSettled == \A c \in Conns : stage[c] \in {"none", "open", "ended"}

(* A stream that the worker still reads is the one jobs are written to,    *)
(* and its queue worker runs: whatever the order in which the handlers of  *)
(* an old and a new connection pause, evict, register, resume and clean    *)
(* up, a connected worker is never left without jobs (index.ts             *)
(* handleStreamConnection, runCleanup). The stale clean-up may do that.    *)
OpenConnectionServed ==
    HandlersSettled /\ reading \notin ended \union {NoConn} /\ ~stale =>
        /\ conn = reading
        /\ cur # NoConn
        /\ worker[cur] = "live"

(* Without a connection no queue worker claims jobs, each of which would   *)
(* use up an attempt on "no active connection". It takes a handler that    *)
(* resumes the worker when its connection is gone already, a stale clean-  *)
(* up, which pauses nothing, or a worker that two calls of work() have     *)
(* lost to break it (index.ts runCleanup, job-router.ts pauseWorker).      *)
IdleQueueIsPaused ==
    conn = NoConn /\ ~late /\ ~stale =>
        \A w \in Conns \ leaked : worker[w] # "live"

(* A run is completed only when some worker process has read its message,  *)
(* although a write to a broken stream succeeds and a receipt is matched   *)
(* by job id with whichever attempt awaits one (job-router.ts handleJob,   *)
(* acknowledgeJob).                                                        *)
CompletedWasReceived == \A j \in Jobs : row[j] = "completed" => j \in received

(* A message that the process has read, and so has acknowledged, is        *)
(* queued, in the present batch, answered, or in a group that was dropped  *)
(* because an earlier turn of its batch threw (message-batcher.ts          *)
(* processBatch, sse-client.ts processBatchedMessages).                    *)
NothingHeldIsForgotten ==
    held \subseteq
        Elements(queue) \union Elements(batch) \union answered \union dropped

(* The turns of one process never overlap: while a batch is handed out, it *)
(* only gets shorter, whatever arrives and whatever timer fires; no second *)
(* batch takes its place (message-batcher.ts isProcessing, sse-client.ts   *)
(* processBatchedMessages).                                                *)
OneBatchAtATime ==
    [][batch # <<>> =>
          \E n \in 1..Len(batch) + 1 : batch' = SubSeq(batch, n, Len(batch))]_vars

(* Messages wait in the batcher and nothing will ever hand them out.       *)
Stranded == queue # <<>> /\ ~processing /\ ~timer

(* Only a turn that throws strands messages: processBatch then opens no    *)
(* window for what arrived during the batch (message-batcher.ts            *)
(* processBatch).                                                          *)
OnlyAThrowStrands == [][~Stranded /\ Stranded' => TurnThrows]_vars

-----------------------------------------------------------------------------
(* What the session does to its runs is what RunsQueue lets a producer and *)
(* a handler see of a queue: a handler has returned when some worker has   *)
(* read the message.                                                       *)
Standing(j) == IF row[j] \in {"queued", "claimed"} THEN "open" ELSE row[j]

Ledger == INSTANCE RunLedger
              WITH Runs <- Jobs,
                   ledger <- [j \in Jobs |-> Standing(j)],
                   ran <- received,
                   throws <- tries

(* Whatever connections, handlers and workers do, the runs of a deployment *)
(* live by the ledger of the queue: each is opened once, retried within    *)
(* its attempts, and closed for good, as completed only when its message   *)
(* was read (job-router.ts handleJob, acknowledgeJob).                     *)
ImplementsLedger == Ledger!LedgerSpec
=============================================================================
