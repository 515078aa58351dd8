---------------------------- MODULE OperationRun ----------------------------
(***************************************************************************)
(* The action and auth lanes of the connector runs: operations that an     *)
(* agent executes, that wait for a user's approval, that a device is       *)
(* waited on for, or that the gateway executes itself (tools/admin/        *)
(* manage_operations), and the interactive authentication of a profile     *)
(* (manage_connections handleReauthenticate), with the worker API that     *)
(* hands such a run to a connector worker and takes its report, the        *)
(* worker, and the reaper.                                                 *)
(*                                                                         *)
(* The kind of a run says how it was created and where it is executed:     *)
(*   device   pending at once, a worker executes it, its request waits     *)
(*   local    pending until approved, then a worker executes it            *)
(*   remote   pending until approved, then the approval executes it        *)
(*   inline   running at once, its request executes it                     *)
(*   auth     pending at once, a worker authenticates the profile          *)
(* A step is one statement, or the code between two awaits. Runs of        *)
(* operations do not touch each other; those of kind auth share a profile. *)
(***************************************************************************)
EXTENDS Naturals, FiniteSets

CONSTANTS
    Runs,           \* bound: ids of rows of public.runs
    NoRun,
    MaxOperations,  \* bound: runs of operations
    Mixed           \* bound: whether there are both operations and auth runs

ASSUME RunsAssumption ==
    /\ NoRun \notin Runs
    /\ MaxOperations \in Nat
    /\ Mixed \in BOOLEAN

VARIABLES
    \* public.runs
    kind, status,
    approval,    \* approval_status
    \* public.auth_profiles: the status of the one profile
    profile,
    \* requests under way in the gateway
    gateway,     \* gateway[r]: the request that executes r itself
    waiter,      \* waiter[r]: waitForDeviceActionRun, or its answer
    reports,     \* reports[r]: reports whose first statement is to come
    writes,      \* writes[r]: those whose statement on the profile is to come
    reauth,      \* handleReauthenticate: where such requests are
    \* the connector worker
    worker,      \* worker[r]: where executeActionRun or executeAuthRun is
    \* history
    executions,  \* how often the operation was started
    contested,   \* runs of kind remote that a worker was handed
    newest,      \* the newest run of kind auth
    crossed      \* requests on the profile crossed, or one died half way

rowVars == <<kind, status, approval>>
requestVars == <<gateway, waiter, reports, writes, reauth>>
historyVars == <<executions, contested, newest, crossed>>
vars == <<rowVars, profile, requestVars, worker, historyVars>>

Operations == {"device", "local", "remote", "inline"}
Active == {"pending", "running"}
Terminal == {"completed", "failed", "timeout", "cancelled"}
Answers == {"completed", "failed", "timeout"}

(* No row, no request and no worker has a value the code cannot give it: a *)
(* status is one of the table's, never a worker's own word for it          *)
(* (run-lifecycle.ts completeActionRun, completeAuthRun).                  *)
TypeOK ==
    /\ kind \in [Runs -> {"none", "auth"} \union Operations]
    /\ status \in [Runs -> {"absent"} \union Active \union Terminal]
    /\ approval \in [Runs -> {"auto", "pending", "approved", "rejected"}]
    /\ profile \in {"pending_auth", "active", "error"}
    /\ gateway \in [Runs -> {"none", "approved", "executing", "over"}]
    /\ waiter \in [Runs -> {"none", "waiting", "expired", "reread", "gone"}
                           \union Answers]
    /\ reports \in [Runs -> SUBSET {"success", "failed"}]
    /\ writes \in [Runs -> SUBSET {"success", "failed"}]
    /\ reauth \subseteq {"chosen", "reset"}
    /\ worker \in [Runs -> {"none", "given", "executing", "reporting",
                            "failing", "over"}]
    /\ executions \in [Runs -> 0..2]
    /\ contested \subseteq Runs
    /\ newest \in Runs \union {NoRun}
    /\ crossed \in BOOLEAN

Init ==
    /\ kind = [r \in Runs |-> "none"]
    /\ status = [r \in Runs |-> "absent"]
    /\ approval = [r \in Runs |-> "auto"]
    /\ profile = "pending_auth"
    /\ gateway = [r \in Runs |-> "none"]
    /\ waiter = [r \in Runs |-> "none"]
    /\ reports = [r \in Runs |-> {}]
    /\ writes = [r \in Runs |-> {}]
    /\ reauth = {}
    /\ worker = [r \in Runs |-> "none"]
    /\ executions = [r \in Runs |-> 0]
    /\ contested = {} /\ newest = NoRun /\ crossed = FALSE

Outcome(report) == IF report = "success" THEN "completed" ELSE "failed"

-----------------------------------------------------------------------------
(* Runs are created                                                        *)

(* handleExecute, for an operation in the mode k, and dispatchChromeAction *)
(* for a device: createConnectorOperationRun inserts the row.              *)
Execute(r, k) ==
    /\ status[r] = "absent"
    /\ Cardinality({q \in Runs : kind[q] \in Operations}) < MaxOperations
    /\ Mixed \/ (newest = NoRun /\ reauth = {})
    /\ kind' = [kind EXCEPT ![r] = k]
    /\ status' = [status EXCEPT ![r] =
                    IF k = "inline" THEN "running" ELSE "pending"]
    /\ approval' = [approval EXCEPT ![r] =
                    IF k \in {"local", "remote"} THEN "pending" ELSE "auto"]
    /\ gateway' = [gateway EXCEPT ![r] =
                    IF k = "inline" THEN "executing" ELSE "none"]
    /\ executions' = [executions EXCEPT ![r] = IF k = "inline" THEN 1 ELSE 0]
    /\ waiter' = [waiter EXCEPT ![r] =
                    IF k = "device" THEN "waiting" ELSE "none"]
    /\ UNCHANGED <<profile, reports, writes, reauth, worker, contested,
                   newest, crossed>>

ActiveAuthRuns == {r \in Runs : kind[r] = "auth" /\ status[r] \in Active}

(* handleReauthenticate finds no active run of the profile.                *)
Reauthenticate ==
    /\ ActiveAuthRuns = {}
    /\ Mixed \/ \A r \in Runs : kind[r] \notin Operations
    /\ reauth' = reauth \union {"chosen"}
    /\ UNCHANGED <<rowVars, profile, gateway, waiter, reports, writes,
                   worker, historyVars>>

(* It sets the profile back, unless it had read that already.              *)
ResetProfile ==
    /\ "chosen" \in reauth
    /\ reauth' = (reauth \ {"chosen"}) \union {"reset"}
    /\ profile' \in {profile, "pending_auth"}
    /\ profile' = profile => profile = "pending_auth"
    /\ UNCHANGED <<rowVars, gateway, waiter, reports, writes, worker,
                   historyVars>>

(* createAuthRun: a row, or the one that idx_runs_active_auth_per_profile  *)
(* stands for, or an error and no row.                                     *)
CreateAuthRun ==
    /\ "reset" \in reauth
    /\ reauth' = reauth \ {"reset"}
    /\ \/ UNCHANGED <<kind, status, newest, crossed>>
       \/ /\ ActiveAuthRuns = {}
          /\ \E r \in Runs :
              /\ status[r] = "absent"
              /\ kind' = [kind EXCEPT ![r] = "auth"]
              /\ status' = [status EXCEPT ![r] = "pending"]
              /\ newest' = r
              /\ crossed' = (crossed \/ profile # "pending_auth")
    /\ UNCHANGED <<approval, profile, gateway, waiter, reports, writes,
                   worker, executions, contested>>

-----------------------------------------------------------------------------
(* Approval, and execution in the gateway                                  *)

(* handleApprove: the first statement asks for the approval alone, not for *)
(* the status. When the operation is not available any more that is all,   *)
(* and so it is for one that a worker executes.                            *)
Approve(r) ==
    /\ approval[r] = "pending"
    /\ approval' = [approval EXCEPT ![r] = "approved"]
    /\ \/ UNCHANGED gateway
       \/ /\ kind[r] = "remote"
          /\ gateway' = [gateway EXCEPT ![r] = "approved"]
    /\ UNCHANGED <<kind, status, profile, waiter, reports, writes, reauth,
                   worker, historyVars>>

(* Its later statement: whatever has become of the row it is running now,  *)
(* and executeOperationInline begins.                                      *)
ApproveExecutes(r) ==
    /\ gateway[r] = "approved"
    /\ gateway' = [gateway EXCEPT ![r] = "executing"]
    /\ status' = [status EXCEPT ![r] = "running"]
    /\ executions' = [executions EXCEPT ![r] = @ + 1]
    /\ UNCHANGED <<kind, approval, profile, waiter, reports, writes, reauth,
                   worker, contested, newest, crossed>>

(* completeRunInline, failRunInline: the row is updated by its id.         *)
GatewayEnds(r) ==
    /\ gateway[r] = "executing"
    /\ gateway' = [gateway EXCEPT ![r] = "over"]
    /\ \E report \in {"success", "failed"} :
        status' = [status EXCEPT ![r] = Outcome(report)]
    /\ UNCHANGED <<kind, approval, profile, waiter, reports, writes, reauth,
                   worker, historyVars>>

(* The request ends and the row stays: there were no credentials, the MCP  *)
(* server could not be called, or the process is gone.                     *)
GatewayLeaves(r) ==
    /\ gateway[r] \in {"approved", "executing"}
    /\ gateway' = [gateway EXCEPT ![r] = "over"]
    /\ UNCHANGED <<rowVars, profile, waiter, reports, writes, reauth, worker,
                   historyVars>>

(* handleReject.                                                           *)
Reject(r) ==
    /\ approval[r] = "pending"
    /\ approval' = [approval EXCEPT ![r] = "rejected"]
    /\ status' = [status EXCEPT ![r] = "cancelled"]
    /\ UNCHANGED <<kind, profile, requestVars, worker, historyVars>>

(* POST /connect/:token/cancel: the profile of the token is set back, if it *)
(* has one, and the active runs of its connection are cancelled. Those of  *)
(* kind auth belong to no connection.                                      *)
CancelConnect ==
    /\ profile' \in {profile, "pending_auth"}
    /\ \E S \in SUBSET {r \in Runs : kind[r] \in Operations
                                      /\ status[r] \in Active} :
        status' = [r \in Runs |-> IF r \in S THEN "cancelled" ELSE status[r]]
    /\ UNCHANGED <<kind, approval, requestVars, worker, historyVars>>

-----------------------------------------------------------------------------
(* waitForDeviceActionRun                                                  *)

(* It reads the row and finds that it ended. A cancelled one has not.      *)
WaiterReads(r) ==
    /\ waiter[r] = "waiting" /\ status[r] \in Answers
    /\ waiter' = [waiter EXCEPT ![r] = status[r]]
    /\ UNCHANGED <<rowVars, profile, gateway, reports, writes, reauth, worker,
                   historyVars>>

(* It reads the row, which has not ended, and a deadline has passed: that  *)
(* for being claimed or that for being executed.                           *)
WaiterExpires(r) ==
    /\ waiter[r] = "waiting" /\ status[r] \notin Answers
    /\ waiter' = [waiter EXCEPT ![r] = "expired"]
    /\ UNCHANGED <<rowVars, profile, gateway, reports, writes, reauth, worker,
                   historyVars>>

(* Faulty: the waiter is not told when its update finds the run over.      *)
WaiterGivesUpOnce(r) ==
    /\ waiter[r] = "expired" /\ status[r] \in Active
    /\ status' = [status EXCEPT ![r] = "timeout"]
    /\ waiter' = [waiter EXCEPT ![r] = "timeout"]
    /\ UNCHANGED <<kind, approval, profile, gateway, reports, writes, reauth,
                   worker, historyVars>>

(* The UPDATE that times out an active run, and only that.                 *)
WaiterGivesUp(r) ==
    /\ waiter[r] = "expired"
    /\ \/ /\ status[r] \in Active
          /\ status' = [status EXCEPT ![r] = "timeout"]
          /\ waiter' = [waiter EXCEPT ![r] = "timeout"]
       \/ /\ status[r] \notin Active
          /\ waiter' = [waiter EXCEPT ![r] = "reread"]
          /\ UNCHANGED status
    /\ UNCHANGED <<kind, approval, profile, gateway, reports, writes, reauth,
                   worker, historyVars>>

(* It had updated nothing: the row is read again.                          *)
WaiterRereads(r) ==
    /\ waiter[r] = "reread"
    /\ waiter' = [waiter EXCEPT ![r] =
                    IF status[r] \in {"completed", "failed"} THEN status[r]
                    ELSE "timeout"]
    /\ UNCHANGED <<rowVars, profile, gateway, reports, writes, reauth, worker,
                   historyVars>>

(* The process that waited is gone.                                        *)
WaiterGone(r) ==
    /\ waiter[r] \in {"waiting", "expired", "reread"}
    /\ waiter' = [waiter EXCEPT ![r] = "gone"]
    /\ UNCHANGED <<rowVars, profile, gateway, reports, writes, reauth, worker,
                   historyVars>>

-----------------------------------------------------------------------------
(* The poll, and the worker                                                *)

Handed(r) ==
    /\ status' = [status EXCEPT ![r] = "running"]
    /\ worker' = [worker EXCEPT ![r] = "given"]
    /\ contested' = IF kind[r] = "remote" THEN contested \union {r}
                    ELSE contested
    /\ UNCHANGED <<kind, approval, profile, requestVars, executions, newest,
                   crossed>>

(* Faulty: a run is handed out that nobody has approved yet.               *)
PollUnapproved(r) == status[r] = "pending" /\ Handed(r)

(* pollWorkerJob claims a pending run that needs no approval or has it,    *)
(* whatever the backend of its operation.                                  *)
Poll(r) ==
    /\ status[r] = "pending"
    /\ approval[r] \in {"auto", "approved"}
    /\ Handed(r)

(* The claimed run cannot be handed out: its connector is not allowed here *)
(* or its code not found. The row is updated by its id.                    *)
PollRefuses(r) ==
    /\ worker[r] = "given"
    /\ worker' = [worker EXCEPT ![r] = "over"]
    /\ status' = [status EXCEPT ![r] = "failed"]
    /\ UNCHANGED <<kind, approval, profile, requestVars, historyVars>>

Start(r) ==
    /\ worker[r] = "given"
    /\ worker' = [worker EXCEPT ![r] = "executing"]
    /\ executions' = [executions EXCEPT ![r] = @ + 1]
    /\ UNCHANGED <<rowVars, profile, requestVars, contested, newest, crossed>>

WorkerGone(r) ==
    /\ worker[r] \notin {"none", "over"}
    /\ worker' = [worker EXCEPT ![r] = "over"]
    /\ UNCHANGED <<rowVars, profile, requestVars, historyVars>>

(* The worker has the stage of a report of the given word under way.       *)
Reporting(r, report) ==
    /\ worker' = [worker EXCEPT ![r] =
                    IF report = "success" THEN "reporting" ELSE "failing"]
    /\ reports' = [reports EXCEPT ![r] = @ \union {report}]
    /\ UNCHANGED <<rowVars, profile, gateway, waiter, writes, reauth,
                   historyVars>>

(* resolveJobCode finds no code.                                           *)
CodeMissing(r) == worker[r] = "given" /\ Reporting(r, "failed")

(* The connector returns, throws, is killed or times out.                  *)
ExecutionEnds(r) ==
    /\ worker[r] = "executing"
    /\ \E report \in {"success", "failed"} : Reporting(r, report)

(* The report of success has no answer: the catch block reports a failure, *)
(* while the first report may still be on its way.                         *)
AnswerLost(r) == worker[r] = "reporting" /\ Reporting(r, "failed")

(* The handler of the last report is done.                                 *)
Answered(r) ==
    /\ \/ worker[r] = "reporting" /\ "success" \notin reports[r] \union writes[r]
       \/ worker[r] = "failing" /\ "failed" \notin reports[r] \union writes[r]
    /\ worker' = [worker EXCEPT ![r] = "over"]
    /\ UNCHANGED <<rowVars, profile, requestVars, historyVars>>

-----------------------------------------------------------------------------
(* The worker API                                                          *)

(* Faulty: a late report decides a run that was decided already.           *)
CompleteActionUnguarded(r) ==
    /\ kind[r] # "auth"
    /\ \E report \in reports[r] :
        /\ reports' = [reports EXCEPT ![r] = @ \ {report}]
        /\ status' = [status EXCEPT ![r] = Outcome(report)]
    /\ UNCHANGED <<kind, approval, profile, gateway, waiter, writes, reauth,
                   worker, historyVars>>

(* completeActionRun ends a run that is running, and only that: for any    *)
(* other the answer is already_finalized.                                  *)
CompleteAction(r) ==
    /\ kind[r] # "auth"
    /\ \E report \in reports[r] :
        /\ reports' = [reports EXCEPT ![r] = @ \ {report}]
        /\ status' = [status EXCEPT ![r] =
                        IF @ = "running" THEN Outcome(report) ELSE @]
    /\ UNCHANGED <<kind, approval, profile, gateway, waiter, writes, reauth,
                   worker, historyVars>>

(* Faulty: the row is guarded as that of an action is, the profile is not. *)
CompleteAuthHalfGuarded(r) ==
    /\ kind[r] = "auth"
    /\ \E report \in reports[r] :
        /\ reports' = [reports EXCEPT ![r] = @ \ {report}]
        /\ writes' = [writes EXCEPT ![r] = @ \union {report}]
        /\ status' = [status EXCEPT ![r] =
                        IF @ = "running" THEN Outcome(report) ELSE @]
    /\ crossed' = (crossed \/ writes[r] # {})
    /\ UNCHANGED <<kind, approval, profile, gateway, waiter, reauth, worker,
                   executions, contested, newest>>

(* completeAuthRun: the row is updated by its id, whatever its status.     *)
CompleteAuth(r) ==
    /\ kind[r] = "auth"
    /\ \E report \in reports[r] :
        /\ reports' = [reports EXCEPT ![r] = @ \ {report}]
        /\ writes' = [writes EXCEPT ![r] = @ \union {report}]
        /\ status' = [status EXCEPT ![r] = Outcome(report)]
    /\ crossed' = (crossed \/ writes[r] # {})
    /\ UNCHANGED <<kind, approval, profile, gateway, waiter, reauth, worker,
                   executions, contested, newest>>

(* Then the profile, by its id.                                            *)
WriteProfile(r) ==
    /\ \E report \in writes[r] :
        /\ writes' = [writes EXCEPT ![r] = @ \ {report}]
        /\ profile' = IF report = "success" THEN "active" ELSE "error"
    /\ crossed' = (crossed \/ r # newest)
    /\ UNCHANGED <<rowVars, gateway, waiter, reports, reauth, worker,
                   executions, contested, newest>>

(* A report is refused, lost, or its handler ends before it is done; the   *)
(* worker that waits for its answer has an error.                          *)
ReportFails(r) ==
    /\ \E report \in reports[r] \union writes[r] :
        /\ writes' = [writes EXCEPT ![r] = @ \ {report}]
        /\ IF worker[r] = "reporting"
           THEN /\ worker' = [worker EXCEPT ![r] = "failing"]
                /\ reports' = [reports EXCEPT ![r] = {"failed"}]
           ELSE /\ worker' = [worker EXCEPT ![r] =
                                IF @ = "failing" /\ report = "failed"
                                THEN "over" ELSE @]
                /\ reports' = [reports EXCEPT ![r] = @ \ {report}]
        /\ crossed' = (crossed \/ report \in writes[r])
    /\ UNCHANGED <<rowVars, profile, gateway, waiter, reauth, executions,
                   contested, newest>>

-----------------------------------------------------------------------------
(* The reaper                                                              *)

(* Faulty: runs that never had a heartbeat are not looked at.              *)
ReapHeartbeats(r) ==
    /\ status[r] = "running" /\ worker[r] # "none"
    /\ status' = [status EXCEPT ![r] = "timeout"]
    /\ UNCHANGED <<kind, approval, profile, requestVars, worker, historyVars>>

(* reapStaleRuns: a run times out whose last heartbeat, or its claim or    *)
(* creation when it had none, was 120 seconds ago. Heartbeats may be late  *)
(* or lost, and the gateway sends none for the runs it executes itself.    *)
Reap(r) ==
    /\ status[r] = "running"
    /\ status' = [status EXCEPT ![r] = "timeout"]
    /\ UNCHANGED <<kind, approval, profile, requestVars, worker, historyVars>>

-----------------------------------------------------------------------------
RequestSteps(r) ==
    \/ \E k \in Operations : Execute(r, k)
    \/ Approve(r) \/ ApproveExecutes(r) \/ GatewayEnds(r) \/ GatewayLeaves(r)
    \/ Reject(r)
    \/ WaiterReads(r) \/ WaiterExpires(r) \/ WaiterGivesUp(r)
    \/ WaiterRereads(r) \/ WaiterGone(r)

WorkerSteps(r) ==
    \/ Poll(r) \/ PollRefuses(r) \/ Start(r) \/ WorkerGone(r)
    \/ CodeMissing(r) \/ ExecutionEnds(r) \/ AnswerLost(r) \/ Answered(r)
    \/ CompleteAction(r) \/ CompleteAuth(r) \/ WriteProfile(r)
    \/ ReportFails(r)

Next ==
    \/ Reauthenticate \/ ResetProfile \/ CreateAuthRun \/ CancelConnect
    \/ \E r \in Runs : RequestSteps(r) \/ WorkerSteps(r) \/ Reap(r)

Spec == Init /\ [][Next]_vars

(* A worker sends heartbeats from the start of an execution until the      *)
(* answer to its last report; for a run of kind auth, only until the       *)
(* execution ends, which makes the reaper no less certain.                 *)
Heartbeats(r) == worker[r] \in {"executing", "reporting", "failing"}

SilenceReaped(r) == ~Heartbeats(r) /\ Reap(r)
ActionEnds(r) == kind[r] # "auth" /\ ExecutionEnds(r)
ReportHandled(r) == CompleteAction(r) \/ ReportFails(r)
ReportOver(r) == Answered(r) \/ AnswerLost(r)
WaiterLooks(r) == WaiterReads(r) \/ WaiterExpires(r)

(* The reaper runs every 30 seconds; an action's subprocess has a timeout, *)
(* and a report is answered or fails; the waiter reads every 500 ms, until *)
(* a deadline. Nothing makes a worker poll, a user decide, an interactive  *)
(* authentication end or a request to another server return.               *)
FairTo(r) ==
    /\ WF_vars(SilenceReaped(r))
    /\ WF_vars(ActionEnds(r))
    /\ WF_vars(ReportHandled(r))
    /\ WF_vars(ReportOver(r))
    /\ WF_vars(WaiterLooks(r))
    /\ WF_vars(WaiterGivesUp(r))
    /\ WF_vars(WaiterRereads(r))

Fairness == \A r \in Runs : FairTo(r)

FairSpec == Spec /\ Fairness

-----------------------------------------------------------------------------
(* What needs an approval is executed only once it has it, and no          *)
(* operation is executed twice, with one exception: an approved operation  *)
(* that the gateway executes is pending for a moment, or for good when it  *)
(* was not available, and a worker may be handed it then                   *)
(* (manage_operations.ts handleApprove, handleReject, poll.ts).            *)
RunsOnceAndApproved ==
    \A r \in Runs :
        /\ kind[r] \in {"local", "remote"} /\ executions[r] > 0 =>
             approval[r] = "approved"
        /\ executions[r] > 1 => r \in contested

(* What the caller of an operation on a device was told stays true of the  *)
(* row: a slow worker does not complete what was reported as timed out,    *)
(* nor does a timeout hide what a worker had completed                     *)
(* (manage_operations.ts waitForDeviceActionRun, run-lifecycle.ts          *)
(* completeActionRun).                                                     *)
CallerHearsTheOutcome ==
    \A r \in Runs :
        /\ waiter[r] \in {"completed", "failed"} => status[r] = waiter[r]
        /\ waiter[r] = "timeout" =>
             status[r] \in {"timeout", "cancelled", "failed"}

(* Between requests, a profile is active only if its newest run completed, *)
(* and in error only if that failed, although rows and profile are written *)
(* by separate statements that ask for no status: unless two reports of a  *)
(* run cross or one dies half way, an older run reports late, or a second  *)
(* request to authenticate is overtaken by the first one's run             *)
(* (run-lifecycle.ts completeAuthRun, auth-actions.ts                      *)
(* handleReauthenticate).                                                  *)
ProfileFollowsItsRun ==
    newest # NoRun /\ ~crossed /\ writes[newest] = {} =>
        /\ profile = "active" => status[newest] = "completed"
        /\ profile = "error" => status[newest] = "failed"

(* A run of an operation that is running ends, also when its worker or the *)
(* request that executes it is gone, and whoever waits on a device has an  *)
(* answer (check-stalled-executions.ts reapStaleRuns, manage_operations.ts *)
(* waitForDeviceActionRun).                                                *)
RequestsSettle ==
    \A r \in Runs :
        /\ status[r] = "running" /\ kind[r] # "auth" ~>
             status[r] \in Terminal
        /\ waiter[r] = "waiting" ~> waiter[r] \in Answers \union {"gone"}

(* Nothing that has to happen waits for anything else: the reaper, the     *)
(* worker that executes or reports, the handler of a report and the waiter *)
(* can each take their next step whatever the others have done             *)
(* (check-stalled-executions.ts reapStaleRuns, run-lifecycle.ts            *)
(* completeActionRun, manage_operations.ts waitForDeviceActionRun).        *)
NothingIsStuck ==
    \A r \in Runs :
        /\ status[r] = "running" /\ ~Heartbeats(r) =>
             ENABLED <<SilenceReaped(r)>>_vars
        /\ worker[r] = "executing" /\ kind[r] # "auth" =>
             ENABLED <<ActionEnds(r)>>_vars
        /\ reports[r] # {} => ENABLED <<ReportHandled(r)>>_vars
        /\ \/ worker[r] = "reporting"
           \/ worker[r] = "failing" /\ "failed" \notin reports[r] \union writes[r]
           => ENABLED <<ReportOver(r)>>_vars
        /\ waiter[r] = "waiting" => ENABLED <<WaiterLooks(r)>>_vars
        /\ waiter[r] = "expired" => ENABLED <<WaiterGivesUp(r)>>_vars
        /\ waiter[r] = "reread" => ENABLED <<WaiterRereads(r)>>_vars
=============================================================================
