---------------------------- MODULE ConnectorRuns ---------------------------
(***************************************************************************)
(* The sync lane of the connector runs: feeds that become due, the rows of *)
(* public.runs made for them, the worker API that hands a row out and      *)
(* takes its results (packages/server/src/worker-api), the connector       *)
(* worker that executes it (packages/connector-worker/src/daemon), the     *)
(* reaper of runs without heartbeats (scheduled/check-stalled-executions)  *)
(* and the user who pauses, resumes and deletes feeds.                     *)
(*                                                                         *)
(* A source is the items 1, 2, ... in the order a connector emits them. A  *)
(* checkpoint is the number of items it stands for, 0 for none. A run is   *)
(* handed out once, so its executor is named after it. A step is one       *)
(* statement or transaction, or the worker's code between two awaits.      *)
(***************************************************************************)
EXTENDS Naturals, FiniteSets

CONSTANTS
    Runs,        \* bound: ids of rows of public.runs
    Feeds,
    NoRun, NoFeed,
    BatchSize,   \* ExecutorConfig.batchSize
    MaxItems     \* bound: items of a source

ASSUME RunsAssumption ==
    /\ NoRun \notin Runs
    /\ NoFeed \notin Feeds
    /\ BatchSize \in Nat \ {0}
    /\ MaxItems \in Nat

VARIABLES
    \* public.feeds
    deleted,     \* feeds with a deleted_at
    checkpoint,
    stored,      \* stored[f]: items in public.events
    \* public.runs
    status,
    feed,        \* feed_id
    \* requests under way in the gateway
    picked,      \* feeds that createSyncRun has been called for
    deleting,    \* feeds whose runs handleDeleteFeed has yet to cancel
    stream,      \* stream[r]: what /stream has yet to do for r
    close,       \* close[r]: what /complete has yet to do for r
    \* the connector worker
    exec,        \* exec[r]: where executeSyncRun is
    emitted,     \* items the connector has emitted, and its checkpoint
    flushed,     \* items that were streamed; the rest is in the batch
    last,        \* lastCheckpoint
    \* history
    overtaken,   \* items in a batch when a later checkpoint was saved
    raced,       \* runs made for a feed already deleted, or their heirs
    overlapped   \* feeds that had two runs handed out at a time

feedVars == <<deleted, checkpoint, stored>>
runVars == <<status, feed>>
requestVars == <<picked, deleting, stream, close>>
workerVars == <<exec, emitted, flushed, last>>
historyVars == <<overtaken, raced, overlapped>>
vars == <<feedVars, runVars, requestVars, workerVars, historyVars>>

Items == 1..MaxItems
Terminal == {"completed", "failed", "timeout", "cancelled"}
Active == {"pending", "running"}

(* No row, no request and no worker has a value the code cannot give it,   *)
(* and a row always has a feed, also the retry that the reaper inserts     *)
(* (check-stalled-executions.ts reapStaleRuns).                            *)
TypeOK ==
    /\ deleted \subseteq Feeds
    /\ checkpoint \in [Feeds -> 0..MaxItems]
    /\ stored \in [Feeds -> SUBSET Items]
    /\ status \in [Runs -> {"absent"} \union Active \union Terminal]
    /\ feed \in [Runs -> Feeds \union {NoFeed}]
    /\ \A r \in Runs : status[r] = "absent" <=> feed[r] = NoFeed
    /\ picked \subseteq Feeds
    /\ deleting \subseteq Feeds
    /\ stream \in [Runs -> {"idle", "store", "advance", "save"}]
    /\ close \in [Runs -> {"idle", "success", "failed",
                           "book_success", "book_failed"}]
    /\ exec \in [Runs -> {"none", "given", "working", "finishing",
                          "reporting", "failing", "over"}]
    /\ emitted \in [Runs -> 0..MaxItems]
    /\ flushed \in [Runs -> 0..MaxItems]
    /\ last \in [Runs -> 0..MaxItems]
    /\ overtaken \in [Feeds -> SUBSET Items]
    /\ raced \subseteq Runs
    /\ overlapped \subseteq Feeds

Init ==
    /\ deleted = {}
    /\ checkpoint = [f \in Feeds |-> 0]
    /\ stored = [f \in Feeds |-> {}]
    /\ status = [r \in Runs |-> "absent"]
    /\ feed = [r \in Runs |-> NoFeed]
    /\ picked = {} /\ deleting = {}
    /\ stream = [r \in Runs |-> "idle"]
    /\ close = [r \in Runs |-> "idle"]
    /\ exec = [r \in Runs |-> "none"]
    /\ emitted = [r \in Runs |-> 0]
    /\ flushed = [r \in Runs |-> 0]
    /\ last = [r \in Runs |-> 0]
    /\ overtaken = [f \in Feeds |-> {}]
    /\ raced = {} /\ overlapped = {}

-----------------------------------------------------------------------------
ActiveRuns(f) == {r \in Runs : feed[r] = f /\ status[r] \in Active}
Absent == {r \in Runs : status[r] = "absent"}

-----------------------------------------------------------------------------
(* Feeds become due, and runs are made for them                            *)

(* handleTriggerFeed accepts a feed, or materializeDueFeeds selects it. A  *)
(* paused feed, or one that is not due, is not; what pauses and schedules  *)
(* feeds is left out, so that any feed that is not deleted may be.         *)
PickFeed(f) ==
    /\ f \notin deleted
    /\ picked' = picked \union {f}
    /\ UNCHANGED <<feedVars, runVars, deleting, stream, close, workerVars,
                   historyVars>>

(* Faulty: a feed may get a second run next to one under way.              *)
CreateSyncRunTwice(f) ==
    /\ f \in picked
    /\ picked' = picked \ {f}
    /\ \E r \in Absent :
        /\ status' = [status EXCEPT ![r] = "pending"]
        /\ feed' = [feed EXCEPT ![r] = f]
        /\ raced' = IF f \in deleted THEN raced \union {r} ELSE raced
        /\ UNCHANGED deleted
    /\ UNCHANGED <<checkpoint, stored, deleting, stream, close, workerVars,
                   overtaken, overlapped>>

(* createSyncRun: nothing when the feed has an active run (its own check   *)
(* or idx_runs_active_sync_per_feed); a feed whose connector is gone is    *)
(* deleted softly; otherwise a pending run is inserted. It does not look   *)
(* at the feed's status again.                                             *)
CreateSyncRun(f) ==
    /\ f \in picked
    /\ picked' = picked \ {f}
    /\ \/ /\ ActiveRuns(f) # {}
          /\ UNCHANGED <<status, feed, raced, deleted>>
       \/ /\ ActiveRuns(f) = {}
          /\ deleted' = deleted \union {f}
          /\ UNCHANGED <<status, feed, raced>>
       \/ /\ ActiveRuns(f) = {}
          /\ \E r \in Absent :
              /\ status' = [status EXCEPT ![r] = "pending"]
              /\ feed' = [feed EXCEPT ![r] = f]
              /\ raced' = IF f \in deleted THEN raced \union {r} ELSE raced
          /\ UNCHANGED deleted
    /\ UNCHANGED <<checkpoint, stored, deleting, stream, close, workerVars,
                   overtaken, overlapped>>

-----------------------------------------------------------------------------
(* The user                                                                *)

(* handleDeleteFeed: the feed, then in a second statement its runs.        *)
DeleteFeed(f) ==
    /\ f \notin deleted
    /\ deleted' = deleted \union {f}
    /\ deleting' = deleting \union {f}
    /\ UNCHANGED <<checkpoint, stored, runVars, picked, stream, close,
                   workerVars, historyVars>>

Cancelled(f) ==
    [r \in Runs |-> IF r \in ActiveRuns(f) THEN "cancelled" ELSE status[r]]

(* Faulty: only the runs that nobody has claimed yet are cancelled.        *)
CancelPendingRuns(f) ==
    /\ f \in deleting
    /\ deleting' = deleting \ {f}
    /\ status' = [r \in Runs |->
                    IF r \in ActiveRuns(f) /\ status[r] = "pending"
                    THEN "cancelled" ELSE status[r]]
    /\ UNCHANGED <<feedVars, feed, picked, stream, close, workerVars,
                   historyVars>>

CancelRuns(f) ==
    /\ f \in deleting
    /\ deleting' = deleting \ {f}
    /\ status' = Cancelled(f)
    /\ UNCHANGED <<feedVars, feed, picked, stream, close, workerVars,
                   historyVars>>

(* POST /connect/:token/cancel, which also pauses the feed: its runs are   *)
(* cancelled.                                                              *)
CancelConnect(f) ==
    /\ ActiveRuns(f) # {}
    /\ status' = Cancelled(f)
    /\ UNCHANGED <<feedVars, feed, requestVars, workerVars, historyVars>>

-----------------------------------------------------------------------------
(* The poll                                                                *)

(* The worker or a request of run r is not done.                           *)
Busy(r) ==
    \/ exec[r] \notin {"none", "over"}
    \/ stream[r] # "idle"
    \/ close[r] # "idle"

Handed(r, from) ==
    /\ status[r] = "pending"
    /\ status' = [status EXCEPT ![r] = "running"]
    /\ exec' = [exec EXCEPT ![r] = "given"]
    /\ emitted' = [emitted EXCEPT ![r] = from]
    /\ flushed' = [flushed EXCEPT ![r] = from]
    /\ last' = [last EXCEPT ![r] = from]
    /\ overlapped' = IF \E q \in Runs : feed[q] = feed[r] /\ Busy(q)
                     THEN overlapped \union {feed[r]} ELSE overlapped
    /\ UNCHANGED <<feedVars, feed, requestVars, overtaken, raced>>

(* Faulty: the run starts without the feed's checkpoint.                   *)
PollFromScratch(r) == Handed(r, 0)

(* pollWorkerJob claims a pending run for a worker of the fleet or for a   *)
(* device worker, and reads the feed's checkpoint in the same transaction. *)
Poll(r) == Handed(r, checkpoint[feed[r]])

(* The claimed run cannot be handed out: its connector is not allowed here *)
(* or its code not found. The row is updated by its id alone.              *)
PollRefuses(r) ==
    /\ exec[r] = "given"
    /\ status' = [status EXCEPT ![r] = "failed"]
    /\ exec' = [exec EXCEPT ![r] = "over"]
    /\ UNCHANGED <<feedVars, feed, requestVars, emitted, flushed, last,
                   historyVars>>

-----------------------------------------------------------------------------
(* The connector worker                                                    *)

(* The answer to the poll arrives: executeSyncRun starts its heartbeats    *)
(* and the connector.                                                      *)
Start(r) ==
    /\ exec[r] = "given"
    /\ exec' = [exec EXCEPT ![r] = "working"]
    /\ UNCHANGED <<feedVars, runVars, requestVars, emitted, flushed, last,
                   historyVars>>

(* The worker process is gone, or never saw the answer to its poll. What   *)
(* the gateway is doing for it goes on.                                    *)
WorkerGone(r) ==
    /\ exec[r] \notin {"none", "over"}
    /\ exec' = [exec EXCEPT ![r] = "over"]
    /\ UNCHANGED <<feedVars, runVars, requestVars, emitted, flushed, last,
                   historyVars>>

Batched(r) == emitted[r] - flushed[r]

(* onEventChunk: an item is added to the batch, which is not full.         *)
Emit(r) ==
    /\ exec[r] = "working" /\ stream[r] = "idle"
    /\ Batched(r) < BatchSize /\ emitted[r] < MaxItems
    /\ emitted' = [emitted EXCEPT ![r] = @ + 1]
    /\ UNCHANGED <<feedVars, runVars, requestVars, exec, flushed, last,
                   historyVars>>

(* flushBatch, of a full batch or of the last one.                         *)
FlushBatch(r) ==
    /\ stream[r] = "idle"
    /\ \/ exec[r] = "working" /\ Batched(r) = BatchSize
       \/ exec[r] = "finishing" /\ Batched(r) > 0
    /\ stream' = [stream EXCEPT ![r] = "store"]
    /\ UNCHANGED <<feedVars, runVars, picked, deleting, close, workerVars,
                   historyVars>>

(* onCheckpointUpdate: the connector's checkpoint is streamed by itself,   *)
(* whatever is in the batch.                                               *)
UpdateCheckpoint(r) ==
    /\ exec[r] = "working" /\ stream[r] = "idle"
    /\ Batched(r) < BatchSize /\ last[r] < emitted[r]
    /\ last' = [last EXCEPT ![r] = emitted[r]]
    /\ stream' = [stream EXCEPT ![r] = "save"]
    /\ UNCHANGED <<feedVars, runVars, picked, deleting, close, exec, emitted,
                   flushed, historyVars>>

(* The connector returns with its checkpoint.                              *)
SyncReturns(r) ==
    /\ exec[r] = "working" /\ stream[r] = "idle" /\ Batched(r) < BatchSize
    /\ exec' = [exec EXCEPT ![r] = "finishing"]
    /\ last' = [last EXCEPT ![r] = emitted[r]]
    /\ UNCHANGED <<feedVars, runVars, requestVars, emitted, flushed,
                   historyVars>>

(* Faulty: success is reported with the last batch still in memory.        *)
ReportUnflushed(r) ==
    /\ exec[r] = "finishing" /\ stream[r] = "idle"
    /\ exec' = [exec EXCEPT ![r] = "reporting"]
    /\ close' = [close EXCEPT ![r] = "success"]
    /\ UNCHANGED <<feedVars, runVars, picked, deleting, stream, emitted,
                   flushed, last, historyVars>>

(* All is flushed, the heartbeats end and success is reported.             *)
Report(r) ==
    /\ exec[r] = "finishing" /\ stream[r] = "idle" /\ Batched(r) = 0
    /\ exec' = [exec EXCEPT ![r] = "reporting"]
    /\ close' = [close EXCEPT ![r] = "success"]
    /\ UNCHANGED <<feedVars, runVars, picked, deleting, stream, emitted,
                   flushed, last, historyVars>>

(* The connector throws, times out or dies, be it during a stream request, *)
(* or the answer to a batch is an error or lost: failure is reported.      *)
SyncThrows(r) ==
    /\ \/ exec[r] = "working"
       \/ exec[r] = "finishing" /\ stream[r] # "idle"
    /\ exec' = [exec EXCEPT ![r] = "failing"]
    /\ close' = [close EXCEPT ![r] = "failed"]
    /\ UNCHANGED <<feedVars, runVars, picked, deleting, stream, emitted,
                   flushed, last, historyVars>>

(* The answer to /complete arrives; an error answer to a report of failure *)
(* ends the executor as well.                                              *)
ReportAnswered(r) ==
    /\ exec[r] \in {"reporting", "failing"} /\ close[r] = "idle"
    /\ exec' = [exec EXCEPT ![r] = "over"]
    /\ UNCHANGED <<feedVars, runVars, requestVars, emitted, flushed, last,
                   historyVars>>

(* The report of success got no answer, or an error: failure is reported.  *)
ReportUnanswered(r) ==
    /\ exec[r] = "reporting" /\ close[r] = "idle"
    /\ exec' = [exec EXCEPT ![r] = "failing"]
    /\ close' = [close EXCEPT ![r] = "failed"]
    /\ UNCHANGED <<feedVars, runVars, picked, deleting, stream, emitted,
                   flushed, last, historyVars>>

-----------------------------------------------------------------------------
(* The worker API                                                          *)

(* streamContent: the items of the batch are inserted, each once.          *)
StreamStores(r) ==
    /\ stream[r] = "store"
    /\ stored' = [stored EXCEPT ![feed[r]] =
                    @ \union (flushed[r] + 1 .. emitted[r])]
    /\ stream' = [stream EXCEPT ![r] = "advance"]
    /\ UNCHANGED <<deleted, checkpoint, runVars, picked, deleting, close,
                   workerVars, historyVars>>

(* Then the feed's checkpoint is set, if there is one, whatever the feed's *)
(* checkpoint and the status of the run are by now.                        *)
StreamSaves(r) ==
    /\ stream[r] \in {"advance", "save"}
    /\ stream' = [stream EXCEPT ![r] = "idle"]
    /\ checkpoint' = [checkpoint EXCEPT ![feed[r]] =
                        IF last[r] > 0 THEN last[r] ELSE @]
    /\ \/ /\ stream[r] = "advance"
          /\ flushed' = [flushed EXCEPT ![r] = emitted[r]]
          /\ UNCHANGED overtaken
       \/ /\ stream[r] = "save"
          /\ overtaken' = [overtaken EXCEPT ![feed[r]] =
                            @ \union (flushed[r] + 1 .. emitted[r])]
          /\ UNCHANGED flushed
    /\ UNCHANGED <<deleted, stored, runVars, picked, deleting, close, exec,
                   emitted, last, raced, overlapped>>

(* The handler of /stream ends before it is done, or refuses the request:  *)
(* that of a device worker whose run is not running any more. A batch that *)
(* is refused ends the connector; for a checkpoint it is only logged.      *)
StreamFails(r) ==
    /\ stream[r] # "idle"
    /\ stream' = [stream EXCEPT ![r] = "idle"]
    /\ IF stream[r] # "save" /\ exec[r] \in {"working", "finishing"}
       THEN /\ exec' = [exec EXCEPT ![r] = "failing"]
            /\ close' = [close EXCEPT ![r] = "failed"]
       ELSE UNCHANGED <<exec, close>>
    /\ UNCHANGED <<feedVars, runVars, picked, deleting, emitted, flushed,
                   last, historyVars>>

Outcome(r) == IF close[r] = "success" THEN "completed" ELSE "failed"
Booking(r) == IF close[r] = "success" THEN "book_success" ELSE "book_failed"

(* Faulty: a late report decides a run that was decided already.           *)
CompleteUnguarded(r) ==
    /\ close[r] \in {"success", "failed"}
    /\ status' = [status EXCEPT ![r] = Outcome(r)]
    /\ close' = [close EXCEPT ![r] = Booking(r)]
    /\ UNCHANGED <<feedVars, feed, picked, deleting, stream, workerVars,
                   historyVars>>

(* completeWorkerJob ends a run that is running, and only that: for any    *)
(* other the answer is already_finalized.                                  *)
Complete(r) ==
    /\ close[r] \in {"success", "failed"}
    /\ \/ /\ status[r] = "running"
          /\ status' = [status EXCEPT ![r] = Outcome(r)]
          /\ close' = [close EXCEPT ![r] = Booking(r)]
       \/ /\ status[r] # "running"
          /\ close' = [close EXCEPT ![r] = "idle"]
          /\ UNCHANGED status
    /\ UNCHANGED <<feedVars, feed, picked, deleting, stream, workerVars,
                   historyVars>>

(* Its further statement: the feed gets the checkpoint of a success (and   *)
(* its next_run_at).                                                       *)
BookOnFeed(r) ==
    /\ close[r] \in {"book_success", "book_failed"}
    /\ close' = [close EXCEPT ![r] = "idle"]
    /\ checkpoint' = [checkpoint EXCEPT ![feed[r]] =
                        IF close[r] = "book_success" /\ last[r] > 0
                        THEN last[r] ELSE @]
    /\ UNCHANGED <<deleted, stored, runVars, picked, deleting, stream,
                   workerVars, historyVars>>

(* The handler of /complete ends before it is done, or refuses a device    *)
(* worker.                                                                 *)
CompleteFails(r) ==
    /\ close[r] # "idle"
    /\ exec' = [exec EXCEPT ![r] = CASE @ = "reporting" -> "failing"
                                     [] OTHER -> "over"]
    /\ close' = [close EXCEPT ![r] = IF exec[r] = "reporting" THEN "failed"
                                     ELSE "idle"]
    /\ UNCHANGED <<feedVars, runVars, picked, deleting, stream, emitted,
                   flushed, last, historyVars>>

-----------------------------------------------------------------------------
(* The reaper                                                              *)

(* An heir for each run of S: a fresh id, as long as there is one.         *)
Heirs(S) ==
    {heir \in [S -> Absent \union {NoRun}] :
        /\ \A r, q \in S : heir[r] = heir[q] /\ heir[r] # NoRun => r = q
        /\ \A r \in S : heir[r] = NoRun => Absent \subseteq {heir[q] : q \in S}}

(* reapStaleRuns: in one statement the runs of S, those that are stale,    *)
(* time out, and each gets a pending retry unless its feed has another     *)
(* active run. A run is stale when its last heartbeat was 120 seconds ago. *)
(* Heartbeats may be late or lost, so that any running run may be.         *)
Reap(S) ==
    /\ S # {} /\ \A r \in S : status[r] = "running"
    /\ \E heir \in Heirs({r \in S : ActiveRuns(feed[r]) \subseteq S}) :
        LET Parent(n) == {r \in DOMAIN heir : heir[r] = n} IN
        /\ status' = [n \in Runs |-> IF n \in S THEN "timeout"
                                     ELSE IF Parent(n) # {} THEN "pending"
                                     ELSE status[n]]
        /\ feed' = [n \in Runs |-> IF Parent(n) # {}
                                   THEN feed[CHOOSE r \in Parent(n) : TRUE]
                                   ELSE feed[n]]
        /\ raced' = raced \union {n \in Runs : Parent(n) \intersect raced # {}}
    /\ UNCHANGED <<feedVars, requestVars, workerVars, overtaken, overlapped>>

-----------------------------------------------------------------------------
FeedSteps(f) ==
    \/ PickFeed(f) \/ CreateSyncRun(f)
    \/ DeleteFeed(f) \/ CancelRuns(f) \/ CancelConnect(f)

WorkerSteps(r) ==
    \/ Start(r) \/ WorkerGone(r) \/ Emit(r) \/ FlushBatch(r)
    \/ UpdateCheckpoint(r) \/ SyncReturns(r) \/ Report(r) \/ SyncThrows(r)
    \/ ReportAnswered(r) \/ ReportUnanswered(r)

GatewaySteps(r) ==
    \/ Poll(r) \/ PollRefuses(r)
    \/ StreamStores(r) \/ StreamSaves(r) \/ StreamFails(r)
    \/ Complete(r) \/ BookOnFeed(r) \/ CompleteFails(r)

Next ==
    \/ \E f \in Feeds : FeedSteps(f)
    \/ \E r \in Runs : WorkerSteps(r) \/ GatewaySteps(r)
    \/ \E S \in SUBSET Runs : Reap(S)

Spec == Init /\ [][Next]_vars

-----------------------------------------------------------------------------
(* A feed never has two runs under way, whatever the scheduler, the user   *)
(* and the reaper insert, and although the reaper's statement makes a      *)
(* retry next to a row that it sees as running (queue-helpers.ts           *)
(* createSyncRunWithClient, check-stalled-executions.ts reapStaleRuns).    *)
OneActiveRunPerFeed ==
    \A r, q \in Runs :
        r # q /\ status[r] \in Active /\ status[q] \in Active =>
            feed[r] # feed[q]

(* Every item that a feed's checkpoint stands for is stored: a run that    *)
(* starts there misses nothing. Only the items can be lost that were in a  *)
(* worker's batch when its connector saved a checkpoint with               *)
(* updateCheckpoint (executor.ts onCheckpointUpdate, run-lifecycle.ts      *)
(* streamContent, completeWorkerJob).                                      *)
NothingIsSkipped ==
    \A f \in Feeds : 1..checkpoint[f] \subseteq stored[f] \union overtaken[f]

(* A checkpoint goes back only after two runs of the feed overlapped: a    *)
(* worker whose run was written off or cancelled still streams, or the     *)
(* bookkeeping of a completion comes after the next run was handed out     *)
(* (run-lifecycle.ts streamContent, completeWorkerJob, poll.ts).           *)
OnlyOverlapsRewind ==
    [][\A f \in Feeds \ overlapped : checkpoint'[f] >= checkpoint[f]]_vars

(* A run that was decided, as completed, failed, timed out or cancelled,   *)
(* stays as it was decided, however late a worker reports; only the poll   *)
(* that claimed it may still fail it (run-lifecycle.ts completeWorkerJob). *)
DecidedRunsStay ==
    [][\A r \in Runs : status[r] \in Terminal /\ status'[r] # status[r] =>
          PollRefuses(r)]_vars

(* Once a feed is deleted and its runs are cancelled it has no active run, *)
(* unless createSyncRun was called before the deletion and inserted one    *)
(* after it (manage_feeds.ts handleDeleteFeed, handleTriggerFeed,          *)
(* check-due-feeds.ts materializeDueFeeds).                                *)
DeletedFeedIsQuiet ==
    \A f \in deleted \ deleting : ActiveRuns(f) \subseteq raced
=============================================================================
