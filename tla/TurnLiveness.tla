---------------------------- MODULE TurnLiveness ----------------------------
(***************************************************************************)
(* The turns of one deployment, from the `messages` run that dispatches    *)
(* them to the terminal thread_response row their client is owed:          *)
(*   - message-consumer.ts arms a marker row, hands the message to the     *)
(*     deployment's own queue and makes sure a worker exists;              *)
(*   - the worker works on what it was handed, one turn at a time, and     *)
(*     replies through POST /worker/response, where the marker elects who  *)
(*     answers (messages of different ids are never combined to one turn:  *)
(*     areBatchCompatible wants equal response ids);                       *)
(*   - turn-liveness.ts answers with an error when nobody else does.       *)
(* The tables are shared by all replicas, so no replica is named: every    *)
(* statement or transaction on them is one step of whoever runs it.        *)
(* Deadlines are kept as far as the code compares them: a marker is fresh  *)
(* (run_at in the future) or lapsed.                                       *)
(***************************************************************************)
EXTENDS Naturals

CONSTANTS
    Msgs,        \* messageIds of one conversation
    Outcomes,    \* what guardrails and course gate may decide of a message:
                 \* subset of {"dispatch", "rejected"} \union Notices
    MaxRepeats,  \* bound: handler runs of a message that did not end well
    MaxLost      \* bound: receipts, replies and jobs that get lost

(* Answers that the course gate gives in place of a dispatch.              *)
Notices == {"clarification_required", "context_unavailable"}

ASSUME TurnAssumption ==
    /\ Outcomes \subseteq {"dispatch", "rejected"} \union Notices
    /\ MaxRepeats \in Nat
    /\ MaxLost \in Nat

VARIABLES
    marker,     \* the row on internal:turn_timeout: "none", "fresh", "lapsed"
    disp,       \* the `messages` run and its handler
    sentKey,    \* a durable dispatch receipt exists for thread_message
    courseKey,  \* ... and the notices of the course gate that have one
    job,        \* the thread_message run: "none", "queued", "done", "dead"
    ensuring,   \* ensureWorkerExists is running in the background
    worker,     \* the subprocess: "down", "beating" or "silent"
    inbox,      \* messages in the worker's batcher
    turn,       \* the message the worker works on, as a set of at most one
    notice,     \* a fast path is under way for a child that exited
    terminals,  \* history: terminal thread_response rows that name a message
    repeats,    \* history: handler runs that threw or were repeated
    lost

dispVars == <<disp, sentKey, courseKey>>
workVars == <<worker, inbox, turn, notice>>
faultVars == <<repeats, lost>>
vars == <<marker, dispVars, job, ensuring, workVars, terminals, faultVars>>

Init ==
    /\ marker = [m \in Msgs |-> "none"]
    /\ disp = [m \in Msgs |-> "idle"]
    /\ sentKey = [m \in Msgs |-> FALSE]
    /\ courseKey = [m \in Msgs |-> {}]
    /\ job = [m \in Msgs |-> "none"]
    /\ ensuring = [m \in Msgs |-> FALSE]
    /\ worker = "down"
    /\ inbox = {}
    /\ turn = {}
    /\ notice = FALSE
    /\ terminals = [m \in Msgs |-> 0]
    /\ repeats = [m \in Msgs |-> 0]
    /\ lost = 0

(* A terminal row was inserted that names the messages of S.               *)
Answer(S) == terminals' = [m \in Msgs |-> IF m \in S THEN terminals[m] + 1
                                          ELSE terminals[m]]

Discharge(S) == marker' = [m \in Msgs |-> IF m \in S THEN "none" ELSE marker[m]]

Armed == {m \in Msgs : marker[m] # "none"}

-----------------------------------------------------------------------------
(* Faulty variants, not part of Next: each stands in for the definition it *)
(* is named after to show that the properties notice.                      *)

(* Arming is not fail-closed: dispatch goes on when the marker is not      *)
(* persisted.                                                              *)
ArmFailOpen(m) ==
    /\ disp[m] = "ready"
    /\ "dispatch" \in Outcomes
    /\ marker' \in {marker, [marker EXCEPT ![m] = "fresh"]}
    /\ disp' = [disp EXCEPT ![m] = "armed"]
    /\ UNCHANGED <<sentKey, courseKey, job, ensuring, workVars, terminals,
                   faultVars>>

(* The markers are deleted, the error rows are lost with the process.      *)
FailTurnsNotAtomic ==
    /\ notice
    /\ notice' = FALSE
    /\ terminals' \in {terminals, [m \in Msgs |->
                          terminals[m] + (IF m \in Armed THEN 1 ELSE 0)]}
    /\ Discharge(Armed)
    /\ UNCHANGED <<dispVars, job, ensuring, worker, inbox, turn, faultVars>>

(* A late reply is inserted although somebody else has answered.           *)
CommitWithoutElection(m) == Answer({m}) /\ Discharge({m})

(* Only turns whose handler is over are swept.                             *)
SweepDispatched(S) ==
    /\ S # {}
    /\ \A m \in S : marker[m] = "lapsed" /\ disp[m] = "done"
    /\ Answer(S)
    /\ Discharge(S)
    /\ UNCHANGED <<dispVars, job, ensuring, workVars, faultVars>>

(* Only the end of the process ends its signals, not a hang.               *)
LapseWhenDown(m) ==
    /\ marker[m] = "fresh"
    /\ worker = "down"
    /\ marker' = [marker EXCEPT ![m] = "lapsed"]
    /\ UNCHANGED <<dispVars, job, ensuring, workVars, terminals, faultVars>>

-----------------------------------------------------------------------------
(* The `messages` run: handleMessage and dispatchCourseContextBoundary     *)

Submit(m) ==
    /\ disp[m] = "idle"
    /\ disp' = [disp EXCEPT ![m] = "ready"]
    /\ UNCHANGED <<marker, sentKey, courseKey, job, ensuring, workVars,
                   terminals, faultVars>>

(* An input guardrail tripped: the rejection is sent with no key, and the  *)
(* turn gets no marker.                                                    *)
Reject(m) ==
    /\ disp[m] = "ready"
    /\ "rejected" \in Outcomes
    /\ Answer({m})
    /\ disp' = [disp EXCEPT ![m] = "sent"]
    /\ UNCHANGED <<marker, sentKey, courseKey, job, ensuring, workVars, faultVars>>

(* deliverCourseContextTerminal: sent once per durable key, and the key    *)
(* holds the notice, so a repeated run may send another one.               *)
AnswerWithNotice(m, notified) ==
    /\ disp[m] = "ready"
    /\ notified \in Outcomes
    /\ Answer(IF notified \in courseKey[m] THEN {} ELSE {m})
    /\ courseKey' = [courseKey EXCEPT ![m] = @ \union {notified}]
    /\ disp' = [disp EXCEPT ![m] = "sent"]
    /\ UNCHANGED <<marker, sentKey, job, ensuring, workVars, faultVars>>

(* A repeated run whose course selection was noted as dispatched: nothing  *)
(* is armed, sent or ensured again.                                        *)
AlreadyDispatched(m) ==
    /\ disp[m] = "ready"
    /\ sentKey[m]
    /\ disp' = [disp EXCEPT ![m] = "sent"]
    /\ UNCHANGED <<marker, sentKey, courseKey, job, ensuring, workVars,
                   terminals, faultVars>>

(* armTurnTimeout: a plain singleton send, so an existing marker is left   *)
(* as it is, deadline included, and a discharged one is armed anew.        *)
Arm(m) ==
    /\ disp[m] = "ready"
    /\ "dispatch" \in Outcomes
    /\ marker' = [marker EXCEPT ![m] = IF @ = "none" THEN "fresh" ELSE @]
    /\ disp' = [disp EXCEPT ![m] = "armed"]
    /\ UNCHANGED <<sentKey, courseKey, job, ensuring, workVars, terminals,
                   faultVars>>

(* sendToWorkerQueue: durable, so a message is handed over only once; then *)
(* ensureWorkerExists starts in the background.                            *)
SendToWorkerQueue(m) ==
    /\ disp[m] = "armed"
    /\ disp' = [disp EXCEPT ![m] = "sent"]
    /\ sentKey' = [sentKey EXCEPT ![m] = TRUE]
    /\ job' = IF sentKey[m] THEN job ELSE [job EXCEPT ![m] = "queued"]
    /\ ensuring' = [ensuring EXCEPT ![m] = TRUE]
    /\ UNCHANGED <<marker, courseKey, workVars, terminals, faultVars>>

RunEndsBadly(m) ==
    /\ repeats[m] < MaxRepeats
    /\ repeats' = [repeats EXCEPT ![m] = @ + 1]

(* The arm, the send or the gate threw: the runs queue retries the handler *)
(* until the retry budget is spent.                                        *)
HandlerThrows(m) ==
    /\ disp[m] \in {"ready", "armed"}
    /\ RunEndsBadly(m)
    /\ \E next \in {"ready", "failed"} : disp' = [disp EXCEPT ![m] = next]
    /\ UNCHANGED <<marker, sentKey, courseKey, job, ensuring, workVars,
                   terminals, lost>>

HandlerDone(m) ==
    /\ disp[m] = "sent"
    /\ disp' = [disp EXCEPT ![m] = "done"]
    /\ UNCHANGED <<marker, sentKey, courseKey, job, ensuring, workVars,
                   terminals, faultVars>>

(* The gateway crashed, or completing the run failed, before the run was   *)
(* marked completed: it is claimed again later. A crash also ends the      *)
(* background work.                                                        *)
Rerun(m) ==
    /\ disp[m] \in {"armed", "sent"}
    /\ RunEndsBadly(m)
    /\ disp' = [disp EXCEPT ![m] = "ready"]
    /\ ensuring' \in {ensuring, [n \in Msgs |-> FALSE]}
    /\ UNCHANGED <<marker, sentKey, courseKey, job, workVars, terminals, lost>>

-----------------------------------------------------------------------------
(* The worker subprocess                                                   *)

(* ensureWorkerExists ended well: a worker was spawned or was there.       *)
WorkerEnsured(m) ==
    /\ ensuring[m]
    /\ ensuring' = [ensuring EXCEPT ![m] = FALSE]
    /\ worker' = IF worker = "down" THEN "beating" ELSE worker
    /\ UNCHANGED <<marker, dispVars, job, inbox, turn, notice, terminals,
                   faultVars>>

(* It failed for good: trackFailedDeployment, then failTurnIfPending.      *)
StartupFails(m) ==
    /\ ensuring[m]
    /\ ensuring' = [ensuring EXCEPT ![m] = FALSE]
    /\ Answer({m} \intersect Armed)
    /\ Discharge({m})
    /\ UNCHANGED <<dispVars, job, workVars, faultVars>>

(* The child is gone, with what its batcher held: deliberately or with its *)
(* pod (nobody is told), or observed by child.once("exit").                *)
WorkerGone(observed) ==
    /\ worker # "down"
    /\ worker' = "down"
    /\ inbox' = {}
    /\ turn' = {}
    /\ notice' = (notice \/ observed)
    /\ UNCHANGED <<marker, dispVars, job, ensuring, terminals, faultVars>>

(* failTurnsForDeployment, started by the exit handler and not awaited: a  *)
(* new worker and new turns may be there when it runs.                     *)
FailTurnsForDeployment ==
    /\ notice
    /\ notice' = FALSE
    /\ Answer(Armed)
    /\ Discharge(Armed)
    /\ UNCHANGED <<dispVars, job, ensuring, worker, inbox, turn, faultVars>>

(* Heartbeat and status signals stop moving the deadline: the event loop   *)
(* is blocked, the connection is lost or the UPDATE keeps failing.         *)
GoSilent ==
    /\ worker = "beating"
    /\ worker' = "silent"
    /\ UNCHANGED <<marker, dispVars, job, ensuring, inbox, turn, notice,
                   terminals, faultVars>>

Extended == [m \in Msgs |-> IF marker[m] = "lapsed" THEN "fresh" ELSE marker[m]]

(* extendTurnDeadlines moves the deadline of every marker of the           *)
(* deployment, a lapsed one that was not swept yet included.               *)
Beat ==
    /\ worker # "down"
    /\ worker' = "beating"
    /\ marker' = Extended
    /\ UNCHANGED <<dispVars, job, ensuring, inbox, turn, notice, terminals,
                   faultVars>>

(* The job went out on the SSE stream and the worker's receipt came back,  *)
(* a liveness signal like any other.                                       *)
Deliver(m) ==
    /\ job[m] = "queued"
    /\ worker # "down"
    /\ inbox' = inbox \union {m}
    /\ job' = [job EXCEPT ![m] = "done"]
    /\ marker' = Extended
    /\ UNCHANGED <<dispVars, ensuring, worker, turn, notice, terminals, faultVars>>

(* The receipt did not come within 5 s: the job will be delivered again.   *)
DeliverUnacked(m) ==
    /\ job[m] = "queued"
    /\ worker # "down"
    /\ lost < MaxLost
    /\ lost' = lost + 1
    /\ inbox' = inbox \union {m}
    /\ UNCHANGED <<marker, dispVars, job, ensuring, worker, turn, notice,
                   terminals, repeats>>

(* The thread_message run expired or spent its retries.                    *)
JobDies(m) ==
    /\ job[m] = "queued"
    /\ lost < MaxLost
    /\ lost' = lost + 1
    /\ job' = [job EXCEPT ![m] = "dead"]
    /\ UNCHANGED <<marker, dispVars, ensuring, workVars, terminals, repeats>>

StartTurn(m) ==
    /\ worker # "down"
    /\ turn = {}
    /\ m \in inbox
    /\ turn' = {m}
    /\ inbox' = inbox \ {m}
    /\ UNCHANGED <<marker, dispVars, job, ensuring, worker, notice, terminals,
                   faultVars>>

(* commitTerminalReply, of a completion or of an error: the reply is       *)
(* inserted only when the transaction deleted the marker of its message.   *)
CommitTerminalReply(m) ==
    /\ Answer({m} \intersect Armed)
    /\ Discharge({m})

Reply(m) ==
    /\ worker # "down"
    /\ m \in turn
    /\ CommitTerminalReply(m)
    /\ turn' = {}
    /\ UNCHANGED <<dispVars, job, ensuring, worker, inbox, notice, faultVars>>

(* All attempts of the POST failed, before or after its commit.            *)
ReplyLost(m) ==
    /\ worker # "down"
    /\ m \in turn
    /\ lost < MaxLost
    /\ lost' = lost + 1
    /\ \/ CommitTerminalReply(m)
       \/ UNCHANGED <<marker, terminals>>
    /\ turn' = {}
    /\ UNCHANGED <<dispVars, job, ensuring, worker, inbox, notice, repeats>>

-----------------------------------------------------------------------------
(* The deadline                                                            *)

(* A minute without any signal passed: a beating worker signals every 20 s *)
Lapse(m) ==
    /\ marker[m] = "fresh"
    /\ worker # "beating"
    /\ marker' = [marker EXCEPT ![m] = "lapsed"]
    /\ UNCHANGED <<dispVars, job, ensuring, workVars, terminals, faultVars>>

(* One transaction of one replica: SKIP LOCKED and LIMIT leave it a part   *)
(* of the lapsed markers.                                                  *)
SweepExpiredTurns(S) ==
    /\ S # {}
    /\ \A m \in S : marker[m] = "lapsed"
    /\ Answer(S)
    /\ Discharge(S)
    /\ UNCHANGED <<dispVars, job, ensuring, workVars, faultVars>>

-----------------------------------------------------------------------------
DispatchNext(m) ==
    \/ Submit(m) \/ Reject(m) \/ Arm(m) \/ AlreadyDispatched(m)
    \/ \E notified \in Notices : AnswerWithNotice(m, notified)
    \/ SendToWorkerQueue(m) \/ HandlerThrows(m) \/ HandlerDone(m) \/ Rerun(m)

WorkerNext ==
    \/ \E m \in Msgs : \/ WorkerEnsured(m) \/ StartupFails(m)
                       \/ Deliver(m) \/ DeliverUnacked(m) \/ JobDies(m)
                       \/ StartTurn(m) \/ Reply(m) \/ ReplyLost(m)
    \/ \E observed \in BOOLEAN : WorkerGone(observed)
    \/ FailTurnsForDeployment \/ GoSilent \/ Beat

DeadlineNext ==
    \/ \E m \in Msgs : Lapse(m)
    \/ \E S \in SUBSET Msgs : SweepExpiredTurns(S)

Next == (\E m \in Msgs : DispatchNext(m)) \/ WorkerNext \/ DeadlineNext

Spec == Init /\ [][Next]_vars

(* A tick of the sweep that finds no row locked and has no need of LIMIT.  *)
SweepLapsed == SweepExpiredTurns({m \in Msgs : marker[m] = "lapsed"})

(* Fairness of the deadline alone: the replicas sweep every 15 s and time  *)
(* passes. Nothing is assumed of dispatch, worker, replies or fast path.   *)
SweepFairness == WF_vars(SweepLapsed)

DeadlineFairness(m) == WF_vars(Lapse(m))

SweepSpec ==
    /\ Spec
    /\ SweepFairness
    /\ \A m \in Msgs : DeadlineFairness(m)

(* And of everything the gateway and a worker that stays up go on doing:   *)
(* only crashes, silence and the losses are left to chance.                *)
FairSpec ==
    /\ SweepSpec
    /\ WF_vars(FailTurnsForDeployment)
    /\ WF_vars(Beat)
    /\ \A m \in Msgs :
          /\ WF_vars(Arm(m)) /\ WF_vars(SendToWorkerQueue(m))
          /\ WF_vars(HandlerDone(m)) /\ WF_vars(WorkerEnsured(m))
          /\ WF_vars(Deliver(m)) /\ WF_vars(StartTurn(m)) /\ WF_vars(Reply(m))

-----------------------------------------------------------------------------
(* Properties                                                              *)

(* Rows, process and counters stay in what the code gives them.            *)
TypeOK ==
    /\ marker \in [Msgs -> {"none", "fresh", "lapsed"}]
    /\ disp \in [Msgs -> {"idle", "ready", "armed", "sent", "done", "failed"}]
    /\ sentKey \in [Msgs -> BOOLEAN]
    /\ courseKey \in [Msgs -> SUBSET Notices]
    /\ job \in [Msgs -> {"none", "queued", "done", "dead"}]
    /\ ensuring \in [Msgs -> BOOLEAN]
    /\ worker \in {"down", "beating", "silent"}
    /\ inbox \subseteq Msgs
    /\ turn \subseteq Msgs
    /\ notice \in BOOLEAN
    /\ terminals \in [Msgs -> Nat]
    /\ repeats \in [Msgs -> 0..MaxRepeats]
    /\ lost \in 0..MaxLost

(* A turn that was dispatched and has no marker any more was answered      *)
(* once, one that still has its marker was not answered yet: whichever of  *)
(* reply, sweep, fast path and startup failure won the marker.             *)
OneTerminal(m) ==
    /\ terminals[m] <= 1
    /\ disp[m] \in {"sent", "done"} => (terminals[m] = 1 <=> marker[m] = "none")

(* This holds of every message whose `messages` run was handled in one go, *)
(* whatever is lost, dies, lapses or is delivered twice after that.        *)
OneTerminalUnlessRepeated == \A m \in Msgs : repeats[m] = 0 => OneTerminal(m)

(* "Every dispatched turn owes the client exactly one terminal event for   *)
(* its messageId": never a second one.                                     *)
ExactlyOneTerminal == \A m \in Msgs : terminals[m] <= 1

(* The half of it that no retry, crash or loss can break: a marker only    *)
(* goes away together with a terminal row that names its message.          *)
NoTurnForgotten ==
    [][\A m \in Msgs : marker[m] # "none" /\ marker'[m] = "none" =>
            terminals'[m] > terminals[m]]_vars

(* Nothing is handed to the worker's queue without a marker or an answer:  *)
(* the marker is armed before the message is deliverable.                  *)
DeliverableIsCovered ==
    \A m \in Msgs :
        (job[m] # "none" \/ m \in inbox \/ m \in turn) =>
            marker[m] # "none" \/ terminals[m] > 0

(* A worker that hangs or is gone for good leaves no client hanging,       *)
(* whatever it was doing and whichever receipts still arrive from it.      *)
SilenceEndsTurns ==
    (<>[](worker # "beating")) =>
        \A m \in Msgs : marker[m] # "none" ~> marker[m] = "none"

(* Some day the last receipt has come: one is sent for every job.          *)
NoReceipt == \A m \in Msgs : ~Deliver(m)
ReceiptsCease == <>[][NoReceipt]_vars

(* A deadline that no signal moves can pass, and a row whose deadline has  *)
(* passed can be swept, whatever dispatch, workers and losses have come to *)
(* (extendTurnDeadlines, sweepExpiredTurns).                               *)
NothingIsStuck ==
    \A m \in Msgs :
        /\ marker[m] = "fresh" /\ worker # "beating" => ENABLED <<Lapse(m)>>_vars
        /\ marker[m] = "lapsed" => ENABLED <<SweepLapsed>>_vars

(* The deadline "covers [...] a worker-pod death (the marker outlives the  *)
(* pod and another replica sweeps it)": every armed turn ends.             *)
EveryTurnEnds ==
    \A m \in Msgs : marker[m] # "none" ~> marker[m] = "none"

=============================================================================
