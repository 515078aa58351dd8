---------------------------- MODULE WorkerClient ----------------------------
(***************************************************************************)
(* The worker's side of the link: the SSE client                           *)
(* (packages/agent-worker/src/gateway/sse-client.ts) and its message       *)
(* batcher (message-batcher.ts). A message that is read is acknowledged at *)
(* once and queued; a batch is cut into groups of compatible messages, and *)
(* each group is one turn of the agent.                                    *)
(*                                                                         *)
(* Each step below runs to its next await. A turn is awaited, so events    *)
(* are read while one is going on.                                         *)
(***************************************************************************)
EXTENDS WorkerLink

CONSTANT
    Identity     \* Identity[j]: what areBatchCompatible compares

ASSUME ClientAssumption == Jobs \subseteq DOMAIN Identity

VARIABLES
    proc,        \* "up", or "down" when there is no worker process
    queue,       \* messageQueue
    timer,       \* batchTimer is set
    processing,  \* isProcessing
    initial,     \* hasProcessedInitialBatch
    batch,       \* what is left of the batch handed to onBatchReady
    \* history
    received,    \* messages that some process has read
    held,        \* messages that the present process has read
    answered,    \* messages of turns that returned or signalled an error
    dropped      \* messages of a batch whose earlier turn threw

clientVars ==
    <<proc, queue, timer, processing, initial, batch,
      received, held, answered, dropped>>

ClientTypeOK ==
    /\ proc \in {"up", "down"}
    /\ queue \in Seq(Jobs)
    /\ batch \in Seq(Jobs)
    /\ timer \in BOOLEAN
    /\ processing \in BOOLEAN
    /\ initial \in BOOLEAN
    /\ received \subseteq Jobs
    /\ held \subseteq Jobs
    /\ answered \subseteq Jobs
    /\ dropped \subseteq Jobs

ClientInit ==
    /\ proc = "up"
    /\ queue = <<>>
    /\ timer = FALSE
    /\ processing = FALSE
    /\ initial = FALSE
    /\ batch = <<>>
    /\ received = {}
    /\ held = {}
    /\ answered = {}
    /\ dropped = {}

-----------------------------------------------------------------------------
Elements(s) == {s[i] : i \in DOMAIN s}

(* The first group of a batch: processBatchedMessages adds a message to    *)
(* the group as long as it is compatible with the group's first.           *)
GroupLength(b) ==
    CHOOSE n \in 1..Len(b) :
        /\ \A i \in 1..n : Identity[b[i]] = Identity[b[1]]
        /\ n < Len(b) => Identity[b[n + 1]] # Identity[b[1]]

Group(b) == SubSeq(b, 1, GroupLength(b))
AfterGroup(b) == SubSeq(b, GroupLength(b) + 1, Len(b))

(* processBatch up to the first turn: the timer is cleared, the queue is   *)
(* emptied into the batch.                                                 *)
ProcessBatch(messages) ==
    /\ timer' = FALSE
    /\ processing' = TRUE
    /\ queue' = <<>>
    /\ batch' = messages

(* Faulty: a message that arrives during a turn starts its own batch.      *)
AddMessageUnlatched(j) ==
    \/ /\ ~timer
       /\ ~initial
       /\ initial' = TRUE
       /\ ProcessBatch(Append(queue, j))
    \/ /\ timer \/ initial
       /\ queue' = Append(queue, j)
       /\ timer' = TRUE
       /\ UNCHANGED <<processing, initial, batch>>

(* Faulty: no batch window is opened for a later message.                  *)
AddMessageNoWindow(j) ==
    \/ /\ ~processing /\ ~timer /\ ~initial
       /\ initial' = TRUE
       /\ ProcessBatch(Append(queue, j))
    \/ /\ processing \/ timer \/ initial
       /\ queue' = Append(queue, j)
       /\ UNCHANGED <<timer, processing, initial, batch>>

(* addMessage: only queued during a batch or a batch window; the first     *)
(* message of the process is processed at once, a later one opens a window.*)
AddMessage(j) ==
    \/ /\ ~processing /\ ~timer /\ ~initial
       /\ initial' = TRUE
       /\ ProcessBatch(Append(queue, j))
    \/ /\ processing \/ timer \/ initial
       /\ queue' = Append(queue, j)
       /\ timer' = (timer \/ ~processing)
       /\ UNCHANGED <<processing, initial, batch>>

(* A job event is read: the receipt is sent without waiting for it, then   *)
(* the message is handed to the batcher.                                   *)
ReadJob(c) ==
    /\ proc = "up" /\ reading = c /\ wire[c] # <<>>
    /\ LET j == Head(wire[c]) IN
       /\ wire' = [wire EXCEPT ![c] = Tail(@)]
       /\ receipts' = receipts \union {j}
       /\ received' = received \union {j}
       /\ held' = held \union {j}
       /\ AddMessage(j)
    /\ UNCHANGED <<ended, reading, proc, answered, dropped>>

(* The batch window is over. processBatch would do nothing without         *)
(* messages, but there are some whenever the timer is set.                 *)
TimerFires ==
    /\ proc = "up" /\ timer /\ queue # <<>>
    /\ ProcessBatch(queue)
    /\ UNCHANGED <<linkVars, proc, initial, received, held, answered,
                   dropped>>

(* Faulty: the queue is emptied after the batch instead of before it.      *)
TurnEndsClearsQueue ==
    /\ proc = "up" /\ batch # <<>>
    /\ answered' = answered \union Elements(Group(batch))
    /\ batch' = AfterGroup(batch)
    /\ IF batch' # <<>>
       THEN UNCHANGED <<processing, queue>>
       ELSE processing' = FALSE /\ queue' = <<>>
    /\ UNCHANGED <<linkVars, proc, timer, initial, received, held,
                   dropped>>

(* A turn returns. The next group is next; after the last one a window is  *)
(* opened for the messages that arrived in the meantime.                   *)
TurnEnds ==
    /\ proc = "up" /\ batch # <<>>
    /\ answered' = answered \union Elements(Group(batch))
    /\ batch' = AfterGroup(batch)
    /\ IF batch' # <<>>
       THEN UNCHANGED <<processing, timer>>
       ELSE /\ processing' = FALSE
            /\ timer' = (queue # <<>>)
    /\ UNCHANGED <<linkVars, proc, queue, initial, received, held,
                   dropped>>

(* A turn throws, after signalError: the groups after it are dropped, and  *)
(* no window is opened for what is in the queue.                           *)
TurnThrows ==
    /\ proc = "up" /\ batch # <<>>
    /\ answered' = answered \union Elements(Group(batch))
    /\ dropped' = dropped \union Elements(AfterGroup(batch))
    /\ batch' = <<>>
    /\ processing' = FALSE
    /\ UNCHANGED <<linkVars, proc, queue, timer, initial, received, held>>

(* The stream ends, because the gateway ended it or because it broke. What *)
(* was written to it and not read is lost.                                 *)
StreamEnds(c) ==
    /\ reading = c
    /\ reading' = NoConn
    /\ wire' = [wire EXCEPT ![c] = <<>>]
    /\ UNCHANGED <<ended, receipts, clientVars>>

(* The worker process is gone, with all that it held.                      *)
ProcessDies ==
    /\ proc = "up"
    /\ proc' = "down"
    /\ queue' = <<>> /\ batch' = <<>> /\ held' = {}
    /\ timer' = FALSE /\ processing' = FALSE /\ initial' = FALSE
    /\ reading' = NoConn
    /\ wire' = [c \in Conns |-> IF c = reading THEN <<>> ELSE wire[c]]
    /\ UNCHANGED <<ended, receipts, received, answered, dropped>>

(* A new worker process of the deployment.                                 *)
ProcessStarts ==
    /\ proc = "down"
    /\ proc' = "up"
    /\ UNCHANGED <<linkVars, queue, timer, processing, initial, batch,
                   received, held, answered, dropped>>

ClientNext ==
    \/ \E c \in Conns : ReadJob(c) \/ StreamEnds(c)
    \/ TimerFires
    \/ TurnEnds
    \/ TurnThrows
    \/ ProcessDies
    \/ ProcessStarts
=============================================================================
