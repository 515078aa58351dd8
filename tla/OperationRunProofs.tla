------------------------- MODULE OperationRunProofs -------------------------
(***************************************************************************)
(* What holds of OperationRun for any number of runs, with operations and  *)
(* authentications mixed or not.                                           *)
(***************************************************************************)
EXTENDS OperationRun, TLAPS

-----------------------------------------------------------------------------
(* The inductive invariant                                                 *)

(* A row that was not inserted has nothing that refers to it.              *)
Untouched(r) ==
    /\ kind[r] = "none" <=> status[r] = "absent"
    /\ status[r] = "absent" =>
         /\ gateway[r] = "none" /\ waiter[r] = "none" /\ worker[r] = "none"
         /\ executions[r] = 0

(* Who may have to do with a run, by its kind and approval.                *)
Placed(r) ==
    /\ kind[r] \in {"local", "remote"} <=> approval[r] # "auto"
    /\ gateway[r] # "none" =>
         \/ kind[r] = "inline"
         \/ kind[r] = "remote" /\ approval[r] = "approved"
    /\ worker[r] # "none" => kind[r] # "inline" /\ status[r] # "pending"
    /\ status[r] = "pending" => kind[r] # "inline"
    /\ worker[r] # "none" /\ kind[r] \in {"local", "remote"} =>
         approval[r] = "approved"
    /\ worker[r] # "none" /\ kind[r] = "remote" => r \in contested
    /\ waiter[r] # "none" => kind[r] = "device"
    /\ writes[r] # {} => kind[r] = "auth"

(* The gateway has started the operation at most once, so has a worker.    *)
Counted(r) ==
    executions[r] <=
        (IF gateway[r] \in {"executing", "over"} THEN 1 ELSE 0)
        + (IF worker[r] \in {"none", "given"} THEN 0 ELSE 1)

(* A worker that was just handed a run has reported nothing, so no report  *)
(* has ended it.                                                           *)
Unreported(r) ==
    /\ worker[r] \in {"none", "given"} => reports[r] = {} /\ writes[r] = {}
    /\ worker[r] = "given" /\ kind[r] \in {"device", "auth"} =>
         status[r] \in {"running", "timeout", "cancelled"}
    /\ waiter[r] = "reread" => status[r] \in Terminal

Heard(r) ==
    /\ waiter[r] \in {"completed", "failed"} => status[r] = waiter[r]
    /\ waiter[r] = "timeout" => status[r] \in {"timeout", "cancelled", "failed"}

RunOK(r) ==
    Untouched(r) /\ Placed(r) /\ Counted(r) /\ Unreported(r) /\ Heard(r)

(* While the report of the newest run waits for its write on the profile,  *)
(* the row says what the profile will.                                     *)
ProfileOK ==
    newest # NoRun =>
        /\ kind[newest] = "auth"
        /\ ~crossed =>
             \/ /\ writes[newest] = {}
                /\ profile = "active" => status[newest] = "completed"
                /\ profile = "error" => status[newest] = "failed"
             \/ \E report \in {"success", "failed"} :
                  writes[newest] = {report} /\ status[newest] = Outcome(report)

IInv == TypeOK /\ (\A r \in Runs : RunOK(r)) /\ ProfileOK

-----------------------------------------------------------------------------
(* It is inductive                                                         *)

LEMMA InitIInv == Init => IInv
<1> SUFFICES ASSUME Init PROVE IInv
  OBVIOUS
<1>1. crossed \in BOOLEAN
  BY Zenon DEF Init
<1>2. QED
  BY <1>1, RunsAssumption
     DEF Init, IInv, TypeOK, RunOK, Untouched, Placed, Counted, Unreported,
         Heard, ProfileOK, Operations, Active, Terminal, Answers

LEMMA StepTypeOK == IInv /\ [Next]_vars => TypeOK'
<1> SUFFICES ASSUME IInv, [Next]_vars
             PROVE  TypeOK'
  OBVIOUS
<1> USE RunsAssumption DEF IInv, TypeOK, RunOK, Untouched, Placed, Counted, Unreported,
    Operations, Active, Terminal, Answers, Outcome,
    ActiveAuthRuns, rowVars, requestVars, historyVars
<1>1. ASSUME NEW r \in Runs, NEW k \in Operations, Execute(r, k)
     PROVE  TypeOK'
  BY <1>1 DEF Execute
<1>2. ASSUME NEW r \in Runs, Approve(r) PROVE TypeOK'
  BY <1>2 DEF Approve
<1>3. ASSUME NEW r \in Runs, ApproveExecutes(r) PROVE TypeOK'
  BY <1>3 DEF ApproveExecutes
<1>4. ASSUME NEW r \in Runs, GatewayEnds(r) PROVE TypeOK'
  BY <1>4 DEF GatewayEnds
<1>5. ASSUME NEW r \in Runs, GatewayLeaves(r) PROVE TypeOK'
  BY <1>5 DEF GatewayLeaves
<1>6. ASSUME NEW r \in Runs, Reject(r) PROVE TypeOK'
  BY <1>6 DEF Reject
<1>7. ASSUME NEW r \in Runs, WaiterReads(r) PROVE TypeOK'
  BY <1>7 DEF WaiterReads
<1>8. ASSUME NEW r \in Runs, WaiterExpires(r) PROVE TypeOK'
  BY <1>8 DEF WaiterExpires
<1>9. ASSUME NEW r \in Runs, WaiterGivesUp(r) PROVE TypeOK'
  BY <1>9 DEF WaiterGivesUp
<1>10. ASSUME NEW r \in Runs, WaiterRereads(r) PROVE TypeOK'
  BY <1>10 DEF WaiterRereads
<1>11. ASSUME NEW r \in Runs, WaiterGone(r) PROVE TypeOK'
  BY <1>11 DEF WaiterGone
<1>12. ASSUME NEW r \in Runs, Poll(r) PROVE TypeOK'
  BY <1>12 DEF Poll, Handed
<1>13. ASSUME NEW r \in Runs, PollRefuses(r) PROVE TypeOK'
  BY <1>13 DEF PollRefuses
<1>14. ASSUME NEW r \in Runs, Start(r) PROVE TypeOK'
  BY <1>14 DEF Start
<1>15. ASSUME NEW r \in Runs, WorkerGone(r) PROVE TypeOK'
  BY <1>15 DEF WorkerGone
<1>16. ASSUME NEW r \in Runs, CodeMissing(r) PROVE TypeOK'
  BY <1>16 DEF CodeMissing, Reporting
<1>17. ASSUME NEW r \in Runs, ExecutionEnds(r) PROVE TypeOK'
  BY <1>17 DEF ExecutionEnds, Reporting
<1>18. ASSUME NEW r \in Runs, AnswerLost(r) PROVE TypeOK'
  BY <1>18 DEF AnswerLost, Reporting
<1>19. ASSUME NEW r \in Runs, Answered(r) PROVE TypeOK'
  BY <1>19 DEF Answered
<1>20. ASSUME NEW r \in Runs, CompleteAction(r) PROVE TypeOK'
  BY <1>20 DEF CompleteAction
<1>21. ASSUME NEW r \in Runs, CompleteAuth(r) PROVE TypeOK'
  BY <1>21 DEF CompleteAuth
<1>22. ASSUME NEW r \in Runs, WriteProfile(r) PROVE TypeOK'
  BY <1>22 DEF WriteProfile
<1>23. ASSUME NEW r \in Runs, ReportFails(r) PROVE TypeOK'
  BY <1>23 DEF ReportFails
<1>24. ASSUME NEW r \in Runs, Reap(r) PROVE TypeOK'
  BY <1>24 DEF Reap
<1>25. CASE Reauthenticate
  BY <1>25 DEF Reauthenticate
<1>26. CASE ResetProfile
  BY <1>26 DEF ResetProfile
<1>27. CASE CreateAuthRun
  <2>1. CASE UNCHANGED <<kind, status, newest, crossed>>
    BY <1>27, <2>1 DEF CreateAuthRun
  <2>2. CASE ~ UNCHANGED <<kind, status, newest, crossed>>
    <3>1. crossed' \in BOOLEAN
      BY <1>27, <2>2, Zenon DEF CreateAuthRun
    <3>2. QED
      BY <1>27, <2>2, <3>1, SMTT(30) DEF CreateAuthRun
  <2>3. QED
    BY <2>1, <2>2
<1>28. CASE CancelConnect
  BY <1>28 DEF CancelConnect
<1>29. CASE UNCHANGED vars
  BY <1>29 DEF vars
<1>30. QED
  BY <1>1, <1>2, <1>3, <1>4, <1>5, <1>6, <1>7, <1>8, <1>9, <1>10, <1>11,
     <1>12, <1>13, <1>14, <1>15, <1>16, <1>17, <1>18, <1>19, <1>20, <1>21,
     <1>22, <1>23, <1>24, <1>25, <1>26, <1>27, <1>28, <1>29
     DEF Next, RequestSteps, WorkerSteps

LEMMA StepRuns == IInv /\ [Next]_vars => \A q \in Runs : RunOK(q)'
<1> SUFFICES ASSUME IInv, [Next]_vars
             PROVE  \A q \in Runs : RunOK(q)'
  OBVIOUS
<1> USE RunsAssumption DEF IInv, TypeOK, RunOK, Untouched, Placed, Counted, Unreported, Heard,
    Operations, Active, Terminal, Answers, Outcome,
    ActiveAuthRuns, rowVars, requestVars, historyVars
<1>1. ASSUME NEW r \in Runs, NEW k \in Operations, Execute(r, k)
     PROVE  \A q \in Runs : RunOK(q)'
  BY <1>1 DEF Execute
<1>2. ASSUME NEW r \in Runs, Approve(r) PROVE \A q \in Runs : RunOK(q)'
  BY <1>2 DEF Approve
<1>3. ASSUME NEW r \in Runs, ApproveExecutes(r) PROVE \A q \in Runs : RunOK(q)'
  BY <1>3 DEF ApproveExecutes
<1>4. ASSUME NEW r \in Runs, GatewayEnds(r) PROVE \A q \in Runs : RunOK(q)'
  BY <1>4 DEF GatewayEnds
<1>5. ASSUME NEW r \in Runs, GatewayLeaves(r) PROVE \A q \in Runs : RunOK(q)'
  BY <1>5 DEF GatewayLeaves
<1>6. ASSUME NEW r \in Runs, Reject(r) PROVE \A q \in Runs : RunOK(q)'
  BY <1>6 DEF Reject
<1>7. ASSUME NEW r \in Runs, WaiterReads(r) PROVE \A q \in Runs : RunOK(q)'
  BY <1>7 DEF WaiterReads
<1>8. ASSUME NEW r \in Runs, WaiterExpires(r) PROVE \A q \in Runs : RunOK(q)'
  BY <1>8 DEF WaiterExpires
<1>9. ASSUME NEW r \in Runs, WaiterGivesUp(r) PROVE \A q \in Runs : RunOK(q)'
  BY <1>9 DEF WaiterGivesUp
<1>10. ASSUME NEW r \in Runs, WaiterRereads(r) PROVE \A q \in Runs : RunOK(q)'
  BY <1>10 DEF WaiterRereads
<1>11. ASSUME NEW r \in Runs, WaiterGone(r) PROVE \A q \in Runs : RunOK(q)'
  BY <1>11 DEF WaiterGone
<1>12. ASSUME NEW r \in Runs, Poll(r) PROVE \A q \in Runs : RunOK(q)'
  BY <1>12 DEF Poll, Handed
<1>13. ASSUME NEW r \in Runs, PollRefuses(r) PROVE \A q \in Runs : RunOK(q)'
  BY <1>13 DEF PollRefuses
<1>14. ASSUME NEW r \in Runs, Start(r) PROVE \A q \in Runs : RunOK(q)'
  BY <1>14 DEF Start
<1>15. ASSUME NEW r \in Runs, WorkerGone(r) PROVE \A q \in Runs : RunOK(q)'
  BY <1>15 DEF WorkerGone
<1>16. ASSUME NEW r \in Runs, CodeMissing(r) PROVE \A q \in Runs : RunOK(q)'
  BY <1>16 DEF CodeMissing, Reporting
<1>17. ASSUME NEW r \in Runs, ExecutionEnds(r) PROVE \A q \in Runs : RunOK(q)'
  BY <1>17 DEF ExecutionEnds, Reporting
<1>18. ASSUME NEW r \in Runs, AnswerLost(r) PROVE \A q \in Runs : RunOK(q)'
  BY <1>18 DEF AnswerLost, Reporting
<1>19. ASSUME NEW r \in Runs, Answered(r) PROVE \A q \in Runs : RunOK(q)'
  BY <1>19 DEF Answered
<1>20. ASSUME NEW r \in Runs, CompleteAction(r) PROVE \A q \in Runs : RunOK(q)'
  BY <1>20 DEF CompleteAction
<1>21. ASSUME NEW r \in Runs, CompleteAuth(r) PROVE \A q \in Runs : RunOK(q)'
  BY <1>21 DEF CompleteAuth
<1>22. ASSUME NEW r \in Runs, WriteProfile(r) PROVE \A q \in Runs : RunOK(q)'
  BY <1>22 DEF WriteProfile
<1>23. ASSUME NEW r \in Runs, ReportFails(r) PROVE \A q \in Runs : RunOK(q)'
  BY <1>23 DEF ReportFails
<1>24. ASSUME NEW r \in Runs, Reap(r) PROVE \A q \in Runs : RunOK(q)'
  BY <1>24 DEF Reap
<1>25. CASE Reauthenticate
  BY <1>25 DEF Reauthenticate
<1>26. CASE ResetProfile
  BY <1>26 DEF ResetProfile
<1>27. CASE CreateAuthRun
  BY <1>27 DEF CreateAuthRun
<1>28. CASE CancelConnect
  BY <1>28 DEF CancelConnect
<1>29. CASE UNCHANGED vars
  BY <1>29 DEF vars
<1>30. QED
  BY <1>1, <1>2, <1>3, <1>4, <1>5, <1>6, <1>7, <1>8, <1>9, <1>10, <1>11,
     <1>12, <1>13, <1>14, <1>15, <1>16, <1>17, <1>18, <1>19, <1>20, <1>21,
     <1>22, <1>23, <1>24, <1>25, <1>26, <1>27, <1>28, <1>29
     DEF Next, RequestSteps, WorkerSteps

LEMMA StepProfile == IInv /\ [Next]_vars => ProfileOK'
<1> SUFFICES ASSUME IInv, [Next]_vars
             PROVE  ProfileOK'
  OBVIOUS
<1> USE RunsAssumption DEF IInv, TypeOK, RunOK, Untouched, Placed, Unreported, ProfileOK,
    Operations, Active, Terminal, Answers, Outcome,
    ActiveAuthRuns, rowVars, requestVars, historyVars
<1>1. ASSUME NEW r \in Runs, NEW k \in Operations, Execute(r, k)
     PROVE  ProfileOK'
  BY <1>1 DEF Execute
<1>2. ASSUME NEW r \in Runs, Approve(r) PROVE ProfileOK'
  BY <1>2 DEF Approve
<1>3. ASSUME NEW r \in Runs, ApproveExecutes(r) PROVE ProfileOK'
  BY <1>3 DEF ApproveExecutes
<1>4. ASSUME NEW r \in Runs, GatewayEnds(r) PROVE ProfileOK'
  BY <1>4 DEF GatewayEnds
<1>5. ASSUME NEW r \in Runs, GatewayLeaves(r) PROVE ProfileOK'
  BY <1>5 DEF GatewayLeaves
<1>6. ASSUME NEW r \in Runs, Reject(r) PROVE ProfileOK'
  BY <1>6 DEF Reject
<1>7. ASSUME NEW r \in Runs, WaiterReads(r) PROVE ProfileOK'
  BY <1>7 DEF WaiterReads
<1>8. ASSUME NEW r \in Runs, WaiterExpires(r) PROVE ProfileOK'
  BY <1>8 DEF WaiterExpires
<1>9. ASSUME NEW r \in Runs, WaiterGivesUp(r) PROVE ProfileOK'
  BY <1>9 DEF WaiterGivesUp
<1>10. ASSUME NEW r \in Runs, WaiterRereads(r) PROVE ProfileOK'
  BY <1>10 DEF WaiterRereads
<1>11. ASSUME NEW r \in Runs, WaiterGone(r) PROVE ProfileOK'
  BY <1>11 DEF WaiterGone
<1>12. ASSUME NEW r \in Runs, Poll(r) PROVE ProfileOK'
  BY <1>12 DEF Poll, Handed
<1>13. ASSUME NEW r \in Runs, PollRefuses(r) PROVE ProfileOK'
  BY <1>13 DEF PollRefuses
<1>14. ASSUME NEW r \in Runs, Start(r) PROVE ProfileOK'
  BY <1>14 DEF Start
<1>15. ASSUME NEW r \in Runs, WorkerGone(r) PROVE ProfileOK'
  BY <1>15 DEF WorkerGone
<1>16. ASSUME NEW r \in Runs, CodeMissing(r) PROVE ProfileOK'
  BY <1>16 DEF CodeMissing, Reporting
<1>17. ASSUME NEW r \in Runs, ExecutionEnds(r) PROVE ProfileOK'
  BY <1>17 DEF ExecutionEnds, Reporting
<1>18. ASSUME NEW r \in Runs, AnswerLost(r) PROVE ProfileOK'
  BY <1>18 DEF AnswerLost, Reporting
<1>19. ASSUME NEW r \in Runs, Answered(r) PROVE ProfileOK'
  BY <1>19 DEF Answered
<1>20. ASSUME NEW r \in Runs, CompleteAction(r) PROVE ProfileOK'
  BY <1>20 DEF CompleteAction
<1>21. ASSUME NEW r \in Runs, CompleteAuth(r) PROVE ProfileOK'
  <2>1. ~crossed' => ~crossed /\ writes[r] = {}
    BY <1>21, Zenon DEF CompleteAuth
  <2>2. PICK report \in reports[r] :
          /\ writes' = [writes EXCEPT ![r] = writes[r] \union {report}]
          /\ status' = [status EXCEPT ![r] = Outcome(report)]
    BY <1>21 DEF CompleteAuth
  <2>3. report \in {"success", "failed"}
    OBVIOUS
  <2>4. UNCHANGED <<kind, profile, newest>>
    BY <1>21 DEF CompleteAuth
  <2>5. QED
    BY <2>1, <2>2, <2>3, <2>4
<1>22. ASSUME NEW r \in Runs, WriteProfile(r) PROVE ProfileOK'
  <2>1. ~crossed' => ~crossed /\ r = newest
    BY <1>22, Zenon DEF WriteProfile
  <2>2. PICK report \in writes[r] :
          /\ writes' = [writes EXCEPT ![r] = writes[r] \ {report}]
          /\ profile' = IF report = "success" THEN "active" ELSE "error"
    BY <1>22 DEF WriteProfile
  <2>3. UNCHANGED <<kind, status, newest>>
    BY <1>22 DEF WriteProfile
  <2>4. QED
    BY <2>1, <2>2, <2>3
<1>23. ASSUME NEW r \in Runs, ReportFails(r) PROVE ProfileOK'
  <2>1. PICK report \in reports[r] \union writes[r] :
          /\ writes' = [writes EXCEPT ![r] = writes[r] \ {report}]
          /\ crossed' = (crossed \/ report \in writes[r])
    BY <1>23 DEF ReportFails
  <2>2. ~crossed' => ~crossed /\ report \notin writes[r]
    BY <2>1, Zenon
  <2>3. UNCHANGED <<kind, status, profile, newest>>
    BY <1>23 DEF ReportFails
  <2>4. QED
    BY <2>1, <2>2, <2>3
<1>24. ASSUME NEW r \in Runs, Reap(r) PROVE ProfileOK'
  BY <1>24 DEF Reap
<1>25. CASE Reauthenticate
  BY <1>25 DEF Reauthenticate
<1>26. CASE ResetProfile
  BY <1>26 DEF ResetProfile
<1>27. CASE CreateAuthRun
  <2>1. CASE UNCHANGED <<kind, status, newest, crossed>>
    BY <1>27, <2>1 DEF CreateAuthRun
  <2>2. CASE ~ UNCHANGED <<kind, status, newest, crossed>>
    <3>1. ~crossed' => profile = "pending_auth"
      BY <1>27, <2>2, Zenon DEF CreateAuthRun
    <3>2. QED
      BY <1>27, <2>2, <3>1 DEF CreateAuthRun
  <2>3. QED
    BY <2>1, <2>2
<1>28. CASE CancelConnect
  BY <1>28 DEF CancelConnect
<1>29. CASE UNCHANGED vars
  BY <1>29 DEF vars
<1>30. QED
  BY <1>1, <1>2, <1>3, <1>4, <1>5, <1>6, <1>7, <1>8, <1>9, <1>10, <1>11,
     <1>12, <1>13, <1>14, <1>15, <1>16, <1>17, <1>18, <1>19, <1>20, <1>21,
     <1>22, <1>23, <1>24, <1>25, <1>26, <1>27, <1>28, <1>29
     DEF Next, RequestSteps, WorkerSteps

LEMMA IInvHolds == Spec => []IInv
<1>1. IInv /\ [Next]_vars => IInv'
  BY StepTypeOK, StepRuns, StepProfile DEF IInv
<1>2. QED
  BY InitIInv, <1>1, PTL DEF Spec

-----------------------------------------------------------------------------
(* Liveness. The provers cannot show that a step is ENABLED, so the        *)
(* theorem assumes []NothingIsStuck, which TLC checks.                     *)

(* Where the worker of a running operation can go in one step.             *)
WorkerMoves(r) ==
    \/ /\ worker'[r] = worker[r] /\ reports'[r] \subseteq reports[r]
       /\ worker[r] = "failing" /\ "failed" \in reports[r] => "failed" \in reports'[r]
    \/ worker'[r] = "over"
    \/ worker[r] = "given" /\ worker'[r] = "executing"
    \/ worker[r] = "executing" /\ worker'[r] = "reporting"
    \/ /\ worker[r] \in {"given", "executing", "reporting"}
       /\ worker'[r] = "failing" /\ "failed" \in reports'[r]

LEMMA RunningMoves ==
    ASSUME IInv, [Next]_vars, NEW r \in Runs, status[r] = "running", kind[r] # "auth"
    PROVE  /\ kind'[r] = kind[r]
           /\ \/ status'[r] \in Terminal
              \/ status'[r] = "running" /\ WorkerMoves(r)
<1> DEFINE Good == /\ kind'[r] = kind[r]
                   /\ \/ status'[r] \in Terminal
                      \/ status'[r] = "running" /\ WorkerMoves(r)
<1>0. /\ kind \in [Runs -> {"none", "auth"} \union Operations]
      /\ status \in [Runs -> {"absent"} \union Active \union Terminal]
      /\ reports \in [Runs -> SUBSET {"success", "failed"}]
      /\ writes \in [Runs -> SUBSET {"success", "failed"}]
      /\ worker \in [Runs -> {"none", "given", "executing", "reporting",
                              "failing", "over"}]
      /\ writes[r] = {} /\ worker[r] \in {"none", "given"} => reports[r] = {}
  BY DEF IInv, TypeOK, RunOK, Placed, Unreported
<1>1. ASSUME kind'[r] = kind[r], UNCHANGED <<worker, reports>>,
             status'[r] \in {"running"} \union Terminal
      PROVE  Good
  BY <1>1 DEF WorkerMoves
<1>2. ASSUME NEW q \in Runs, RequestSteps(q) PROVE Good
  <2>1. UNCHANGED <<worker, reports>>
    BY <1>2 DEF RequestSteps, Execute, Approve, ApproveExecutes, GatewayEnds, GatewayLeaves,
       Reject, WaiterReads, WaiterExpires, WaiterGivesUp, WaiterRereads, WaiterGone,
       requestVars
  <2>2. kind'[r] = kind[r] /\ status'[r] \in {"running"} \union Terminal
    BY <1>0, <1>2 DEF RequestSteps, Execute, Approve, ApproveExecutes, GatewayEnds, GatewayLeaves,
       Reject, WaiterReads, WaiterExpires, WaiterGivesUp, WaiterRereads, WaiterGone,
       rowVars, Terminal, Outcome
  <2>3. QED
    BY <1>1, <2>1, <2>2
<1>3. ASSUME NEW q \in Runs, \/ CodeMissing(q) \/ ExecutionEnds(q) \/ AnswerLost(q)
      PROVE  Good
  <2>1. PICK report \in {"success", "failed"} :
            /\ worker[q] \in {"given", "executing", "reporting"}
            /\ worker[q] # "executing" => report = "failed"
            /\ Reporting(q, report)
    BY <1>3 DEF CodeMissing, ExecutionEnds, AnswerLost
  <2>2. QED
    BY <1>0, <2>1 DEF Reporting, rowVars, WorkerMoves
<1>4. ASSUME NEW q \in Runs, \/ Poll(q) \/ PollRefuses(q) \/ Start(q) \/ WorkerGone(q)
                             \/ Answered(q)
      PROVE  Good
  BY <1>0, <1>4 DEF Poll, Handed, PollRefuses, Start, WorkerGone, Answered, rowVars,
                    requestVars, WorkerMoves, Terminal
<1>5. ASSUME NEW q \in Runs, CompleteAction(q) PROVE Good
  BY <1>0, <1>5 DEF CompleteAction, WorkerMoves, Terminal, Outcome
<1>6. ASSUME NEW q \in Runs, CompleteAuth(q) \/ WriteProfile(q) PROVE Good
  BY <1>0, <1>6 DEF CompleteAuth, WriteProfile, rowVars, WorkerMoves
<1>7. ASSUME NEW q \in Runs, ReportFails(q) PROVE Good
  BY <1>0, <1>7 DEF ReportFails, rowVars, WorkerMoves
<1>8. ASSUME NEW q \in Runs, Reap(q) PROVE Good
  BY <1>0, <1>1, <1>8 DEF Reap, requestVars, Terminal
<1>9. CASE Reauthenticate \/ ResetProfile \/ CreateAuthRun \/ CancelConnect
  <2>1. UNCHANGED <<worker, reports>>
    BY <1>9 DEF Reauthenticate, ResetProfile, CreateAuthRun, CancelConnect, requestVars
  <2>2. kind'[r] = kind[r] /\ status'[r] \in {"running"} \union Terminal
    BY <1>0, <1>9 DEF Reauthenticate, ResetProfile, CreateAuthRun, CancelConnect,
                      rowVars, Terminal
  <2>3. QED
    BY <1>1, <2>1, <2>2
<1>10. CASE UNCHANGED vars
  BY <1>1, <1>10 DEF vars, rowVars, requestVars
<1>11. QED
  BY <1>2, <1>3, <1>4, <1>5, <1>6, <1>7, <1>8, <1>9, <1>10 DEF Next, WorkerSteps

(* A running operation, by where its worker is.                            *)
Running(r) == status[r] = "running" /\ kind[r] # "auth"
Idle(r) == Running(r) /\ worker[r] \in {"none", "over"}
Given(r) == Running(r) /\ worker[r] = "given"
Executed(r) == Running(r) /\ worker[r] = "executing"
Reported(r) == Running(r) /\ worker[r] = "reporting"
FailureSent(r) == Running(r) /\ worker[r] = "failing" /\ "failed" \in reports[r]
FailureHeard(r) == Running(r) /\ worker[r] = "failing" /\ "failed" \notin reports[r]
LastReport(r) == FailureSent(r) /\ "success" \notin reports[r]
Ended(r) == status[r] \in Terminal

(* What fairness asks for is done some time or other.                      *)
LEMMA FairSteps ==
    ASSUME NEW r \in Runs
    PROVE  FairSpec => []IInv /\ [][Next]_vars /\ FairTo(r)
<1>1. Fairness => FairTo(r)
  BY DEF Fairness
<1>2. QED
  BY <1>1, IInvHolds, PTL DEF FairSpec, Spec

(* The step out of each of these states is one that fairness is asked of;  *)
(* no step leads back.                                                     *)
LEMMA RunningSettles ==
    ASSUME NEW r \in Runs
    PROVE  FairSpec /\ []NothingIsStuck => (Running(r) ~> Ended(r))
<1>1. IInv /\ [Next]_vars /\ Idle(r) => Idle(r)' \/ Ended(r)'
  BY RunningMoves DEF Idle, Running, Ended, WorkerMoves
<1>2. IInv /\ [Next]_vars /\ FailureHeard(r) =>
          FailureHeard(r)' \/ Idle(r)' \/ Ended(r)'
  BY RunningMoves DEF FailureHeard, Idle, Running, Ended, WorkerMoves
<1>3. IInv /\ [Next]_vars /\ FailureSent(r) =>
          FailureSent(r)' \/ Idle(r)' \/ Ended(r)'
  BY RunningMoves DEF FailureSent, Idle, Running, Ended, WorkerMoves
<1>4. IInv /\ [Next]_vars /\ LastReport(r) =>
          LastReport(r)' \/ Idle(r)' \/ Ended(r)'
  BY RunningMoves DEF LastReport, FailureSent, Idle, Running, Ended, WorkerMoves
<1>5. IInv /\ [Next]_vars /\ Reported(r) =>
          Reported(r)' \/ FailureSent(r)' \/ Idle(r)' \/ Ended(r)'
  BY RunningMoves DEF Reported, FailureSent, Idle, Running, Ended, WorkerMoves
<1>6. IInv /\ [Next]_vars /\ Executed(r) =>
          Executed(r)' \/ Reported(r)' \/ FailureSent(r)' \/ Idle(r)' \/ Ended(r)'
  BY RunningMoves DEF Executed, Reported, FailureSent, Idle, Running, Ended, WorkerMoves
<1>7. IInv /\ [Next]_vars /\ Given(r) =>
          Given(r)' \/ Executed(r)' \/ FailureSent(r)' \/ Idle(r)' \/ Ended(r)'
  BY RunningMoves DEF Given, Executed, FailureSent, Idle, Running, Ended, WorkerMoves
<1>0. IInv /\ Running(r) =>
          /\ kind[r] # "auth" /\ writes[r] = {} /\ reports[r] \subseteq {"success", "failed"}
          /\ status \in [Runs -> {"absent"} \union Active \union Terminal]
          /\ reports \in [Runs -> SUBSET {"success", "failed"}]
          /\ worker \in [Runs -> {"none", "given", "executing", "reporting",
                                  "failing", "over"}]
  BY DEF IInv, TypeOK, RunOK, Placed, Running
<1>11. (Idle(r) \/ Given(r)) /\ IInv /\ <<SilenceReaped(r)>>_vars => Ended(r)'
  BY <1>0 DEF Idle, Given, Ended, SilenceReaped, Reap, Terminal
<1>12. FailureHeard(r) /\ IInv /\ <<ReportOver(r)>>_vars => Idle(r)'
  BY <1>0 DEF FailureHeard, Idle, Running, ReportOver, Answered, AnswerLost, rowVars
<1>13. FailureSent(r) /\ IInv /\ <<ReportHandled(r)>>_vars =>
           LastReport(r)' \/ Idle(r)' \/ Ended(r)'
  BY <1>0 DEF FailureSent, LastReport, Idle, Running, Ended, Terminal, Outcome,
              ReportHandled, CompleteAction, ReportFails, rowVars
<1>14. LastReport(r) /\ IInv /\ <<ReportHandled(r)>>_vars => Idle(r)' \/ Ended(r)'
  BY <1>0 DEF FailureSent, LastReport, Idle, Running, Ended, Terminal, Outcome,
              ReportHandled, CompleteAction, ReportFails, rowVars
<1>15. Reported(r) /\ IInv /\ <<ReportOver(r)>>_vars => FailureSent(r)' \/ Idle(r)'
  BY <1>0 DEF Reported, FailureSent, Idle, Running, ReportOver, Answered, AnswerLost,
              Reporting, rowVars
<1>16. Executed(r) /\ IInv /\ <<ActionEnds(r)>>_vars => Reported(r)' \/ FailureSent(r)'
  BY <1>0 DEF Executed, Reported, FailureSent, Running, ActionEnds, ExecutionEnds,
              Reporting, rowVars
<1>20. NothingIsStuck /\ IInv =>
           /\ Idle(r) \/ Given(r) => ENABLED <<SilenceReaped(r)>>_vars
           /\ Executed(r) => ENABLED <<ActionEnds(r)>>_vars
           /\ Reported(r) \/ FailureHeard(r) => ENABLED <<ReportOver(r)>>_vars
           /\ FailureSent(r) \/ LastReport(r) => ENABLED <<ReportHandled(r)>>_vars
  BY <1>0 DEF NothingIsStuck, Idle, Given, Executed, Reported, FailureHeard, FailureSent,
              LastReport, Running, Heartbeats
<1>21. IInv /\ Running(r) => \/ Idle(r) \/ Given(r) \/ Executed(r) \/ Reported(r)
                            \/ FailureSent(r) \/ FailureHeard(r)
  BY <1>0 DEF Idle, Given, Executed, Reported, FailureHeard, FailureSent, Running
<1>31. FairSpec /\ []NothingIsStuck => (Idle(r) ~> Ended(r))
  BY <1>1, <1>11, <1>20, FairSteps, PTL DEF FairTo
<1>32. FairSpec /\ []NothingIsStuck => (FailureHeard(r) ~> Ended(r))
  BY <1>2, <1>12, <1>20, <1>31, FairSteps, PTL DEF FairTo
<1>33. FairSpec /\ []NothingIsStuck => (LastReport(r) ~> Ended(r))
  BY <1>4, <1>14, <1>20, <1>31, FairSteps, PTL DEF FairTo
<1>34. FairSpec /\ []NothingIsStuck => (FailureSent(r) ~> Ended(r))
  BY <1>3, <1>13, <1>20, <1>31, <1>33, FairSteps, PTL DEF FairTo
<1>35. FairSpec /\ []NothingIsStuck => (Reported(r) ~> Ended(r))
  BY <1>5, <1>15, <1>20, <1>31, <1>34, FairSteps, PTL DEF FairTo
<1>36. FairSpec /\ []NothingIsStuck => (Executed(r) ~> Ended(r))
  BY <1>6, <1>16, <1>20, <1>31, <1>34, <1>35, FairSteps, PTL DEF FairTo
<1>37. FairSpec /\ []NothingIsStuck => (Given(r) ~> Ended(r))
  BY <1>7, <1>11, <1>20, <1>31, <1>34, <1>36, FairSteps, PTL DEF FairTo
<1>40. QED
  BY <1>21, <1>31, <1>32, <1>34, <1>35, <1>36, <1>37, FairSteps, PTL

(* Whoever waits reads an end, or gives the run up and is answered.        *)
LEMMA WaiterSettles ==
    ASSUME NEW r \in Runs
    PROVE  FairSpec /\ []NothingIsStuck =>
               (waiter[r] = "waiting" ~> waiter[r] \in Answers \union {"gone"})
<1> DEFINE At(w) == waiter[r] = w
           Over == waiter[r] \in Answers \union {"gone"}
<1>0. IInv => waiter \in [Runs -> {"none", "waiting", "expired", "reread", "gone"}
                                  \union Answers]
  BY DEF IInv, TypeOK
<1>1. IInv /\ [Next]_vars /\ waiter[r] \in {"waiting", "expired", "reread"} =>
          \/ waiter'[r] = waiter[r]
          \/ waiter'[r] \in Answers \union {"gone"}
          \/ waiter[r] = "waiting" /\ waiter'[r] = "expired"
          \/ waiter[r] = "expired" /\ waiter'[r] = "reread"
  <2> SUFFICES ASSUME IInv, [Next]_vars, waiter[r] \in {"waiting", "expired", "reread"},
                      waiter'[r] # waiter[r]
               PROVE  \/ waiter'[r] \in Answers \union {"gone"}
                      \/ waiter[r] = "waiting" /\ waiter'[r] = "expired"
                      \/ waiter[r] = "expired" /\ waiter'[r] = "reread"
    OBVIOUS
  <2>1. status[r] # "absent"
    BY DEF IInv, RunOK, Untouched
  <2>2. ASSUME NEW q \in Runs, RequestSteps(q)
        PROVE  \/ waiter'[r] \in Answers \union {"gone"}
               \/ waiter[r] = "waiting" /\ waiter'[r] = "expired"
               \/ waiter[r] = "expired" /\ waiter'[r] = "reread"
    BY <1>0, <2>1, <2>2
       DEF RequestSteps, Execute, Approve, ApproveExecutes, GatewayEnds, GatewayLeaves, Reject,
           WaiterReads, WaiterExpires, WaiterGivesUp, WaiterRereads, WaiterGone, requestVars,
           Answers
  <2>3. ASSUME NEW q \in Runs, WorkerSteps(q) \/ Reap(q) PROVE UNCHANGED waiter
    BY <2>3 DEF WorkerSteps, Poll, Handed, PollRefuses, Start, WorkerGone, CodeMissing,
       ExecutionEnds, AnswerLost, Reporting, Answered, CompleteAction, CompleteAuth,
       WriteProfile, ReportFails, Reap, requestVars
  <2>4. CASE Reauthenticate \/ ResetProfile \/ CreateAuthRun \/ CancelConnect
    BY <2>4 DEF Reauthenticate, ResetProfile, CreateAuthRun, CancelConnect, requestVars
  <2>5. QED
    BY <2>2, <2>3, <2>4 DEF Next, vars, requestVars
<1>2. IInv /\ At("waiting") /\ <<WaiterLooks(r)>>_vars => At("expired")' \/ Over'
  BY <1>0 DEF WaiterLooks, WaiterReads, WaiterExpires
<1>3. IInv /\ At("expired") /\ <<WaiterGivesUp(r)>>_vars => At("reread")' \/ Over'
  BY <1>0 DEF WaiterGivesUp, Answers
<1>4. IInv /\ At("reread") /\ <<WaiterRereads(r)>>_vars => Over'
  BY <1>0 DEF WaiterRereads, Answers
<1>5. NothingIsStuck => /\ At("waiting") => ENABLED <<WaiterLooks(r)>>_vars
                        /\ At("expired") => ENABLED <<WaiterGivesUp(r)>>_vars
                        /\ At("reread") => ENABLED <<WaiterRereads(r)>>_vars
  BY DEF NothingIsStuck
<1>6. /\ IInv /\ [Next]_vars /\ At("waiting") => At("waiting")' \/ At("expired")' \/ Over'
      /\ IInv /\ [Next]_vars /\ At("expired") => At("expired")' \/ At("reread")' \/ Over'
      /\ IInv /\ [Next]_vars /\ At("reread") => At("reread")' \/ Over'
  BY <1>1
<1> HIDE DEF At, Over
<1>7. FairSpec /\ []NothingIsStuck => (At("waiting") ~> Over)
  BY <1>2, <1>3, <1>4, <1>5, <1>6, FairSteps, PTL DEF FairTo
<1>8. QED
  BY <1>7 DEF At, Over

-----------------------------------------------------------------------------
(* Theorems                                                                *)

(* Every variable keeps its type: statuses are those of the table, and no  *)
(* operation is started more than once by its request and once by a worker *)
(* (manage_operations.ts handleApprove, run-lifecycle.ts).                 *)
THEOREM TypeCorrect == Spec => []TypeOK
<1>1. IInv => TypeOK
  BY DEF IInv
<1>2. QED
  BY IInvHolds, <1>1, PTL

(* An operation that needs an approval is executed only with it, and twice *)
(* only when a worker was handed a run that the gateway executes           *)
(* (manage_operations.ts handleApprove, poll.ts).                          *)
THEOREM ExecutedOnce == Spec => []RunsOnceAndApproved
<1>1. IInv => RunsOnceAndApproved
  BY DEF IInv, TypeOK, RunOK, Untouched, Placed, Counted, RunsOnceAndApproved,
         Operations
<1>2. QED
  BY IInvHolds, <1>1, PTL

(* Caller and row agree whatever the order of deadline, report, reaper and *)
(* cancellation (manage_operations.ts waitForDeviceActionRun,              *)
(* run-lifecycle.ts completeActionRun).                                    *)
THEOREM CallerAgrees == Spec => []CallerHearsTheOutcome
<1>1. IInv => CallerHearsTheOutcome
  BY DEF IInv, RunOK, Heard, CallerHearsTheOutcome
<1>2. QED
  BY IInvHolds, <1>1, PTL

(* Between requests the profile says what became of its newest run, unless *)
(* reports crossed (run-lifecycle.ts completeAuthRun).                     *)
THEOREM ProfileAgrees == Spec => []ProfileFollowsItsRun
<1>1. IInv => ProfileFollowsItsRun
  BY DEF IInv, ProfileOK, ProfileFollowsItsRun
<1>2. QED
  BY IInvHolds, <1>1, PTL

(* An operation that is running ends and a request that waits is answered, *)
(* whatever order deadlines, reports, the reaper and deaths come in        *)
(* (check-stalled-executions.ts reapStaleRuns, manage_operations.ts        *)
(* waitForDeviceActionRun).                                                *)
THEOREM OperationsSettle == FairSpec /\ []NothingIsStuck => RequestsSettle
<1> SUFFICES ASSUME NEW r \in Runs
             PROVE  FairSpec /\ []NothingIsStuck =>
                      /\ status[r] = "running" /\ kind[r] # "auth" ~>
                           status[r] \in Terminal
                      /\ waiter[r] = "waiting" ~> waiter[r] \in Answers \union {"gone"}
  BY DEF RequestsSettle
<1>1. FairSpec /\ []NothingIsStuck => (Running(r) ~> Ended(r))
  BY RunningSettles
<1>2. FairSpec /\ []NothingIsStuck =>
          (waiter[r] = "waiting" ~> waiter[r] \in Answers \union {"gone"})
  BY WaiterSettles
<1>3. QED
  BY <1>1, <1>2, PTL DEF Running, Ended
=============================================================================
