------------------------- MODULE TurnLivenessProofs -------------------------
(***************************************************************************)
(* What holds of TurnLiveness for any set of messages, any outcomes of the *)
(* gates and any number of repeated handler runs and lost messages.        *)
(***************************************************************************)
EXTENDS TurnLiveness, FiniteInduction

-----------------------------------------------------------------------------
(* Type correctness                                                        *)

LEMMA InitTypeOK == Init => TypeOK
<1> SUFFICES ASSUME Init PROVE TypeOK
  OBVIOUS
<1>1. lost \in 0..MaxLost /\ repeats \in [Msgs -> 0..MaxRepeats]
  BY TurnAssumption DEF Init, TurnAssumption
<1>2. /\ sentKey \in [Msgs -> BOOLEAN]
      /\ ensuring \in [Msgs -> BOOLEAN]
      /\ notice \in BOOLEAN
  BY Zenon DEF Init
<1>3. QED
  BY <1>1, <1>2 DEF Init, TypeOK

(* A terminal row more for some messages leaves the counts natural.        *)
LEMMA AnswerType ==
    ASSUME TypeOK, NEW S, Answer(S)
    PROVE  terminals' \in [Msgs -> Nat]
BY DEF Answer, TypeOK

LEMMA DischargeType ==
    ASSUME TypeOK, NEW S, Discharge(S)
    PROVE  marker' \in [Msgs -> {"none", "fresh", "lapsed"}]
BY DEF Discharge, TypeOK

LEMMA StepTypeOK == TypeOK /\ [Next]_vars => TypeOK'
<1> SUFFICES ASSUME TypeOK, [Next]_vars
             PROVE  TypeOK'
  OBVIOUS
<1> USE TurnAssumption DEF TypeOK, TurnAssumption, dispVars, workVars, faultVars
<1>1. ASSUME NEW m \in Msgs, Submit(m) PROVE TypeOK'
  BY <1>1 DEF Submit
<1>2. ASSUME NEW m \in Msgs, Reject(m) PROVE TypeOK'
  BY <1>2, AnswerType DEF Reject
<1>3. ASSUME NEW m \in Msgs, NEW notified \in Notices, AnswerWithNotice(m, notified)
      PROVE  TypeOK'
  BY <1>3, AnswerType DEF AnswerWithNotice
<1>3a. ASSUME NEW m \in Msgs, AlreadyDispatched(m) PROVE TypeOK'
  BY <1>3a DEF AlreadyDispatched
<1>4. ASSUME NEW m \in Msgs, Arm(m) PROVE TypeOK'
  BY <1>4 DEF Arm
<1>5. ASSUME NEW m \in Msgs, SendToWorkerQueue(m) PROVE TypeOK'
  BY <1>5 DEF SendToWorkerQueue
<1>6. ASSUME NEW m \in Msgs, HandlerThrows(m) PROVE TypeOK'
  BY <1>6 DEF HandlerThrows, RunEndsBadly
<1>7. ASSUME NEW m \in Msgs, HandlerDone(m) PROVE TypeOK'
  BY <1>7 DEF HandlerDone
<1>8. ASSUME NEW m \in Msgs, Rerun(m) PROVE TypeOK'
  <2>1. [n \in Msgs |-> FALSE] \in [Msgs -> BOOLEAN]
    BY Zenon
  <2>2. ensuring' \in [Msgs -> BOOLEAN]
    BY <1>8, <2>1, Zenon DEF Rerun
  <2>3. repeats' \in [Msgs -> 0..MaxRepeats]
    BY <1>8 DEF Rerun, RunEndsBadly
  <2>4. disp' \in [Msgs -> {"idle", "ready", "armed", "sent", "done", "failed"}]
    BY <1>8 DEF Rerun
  <2>5. QED
    BY <1>8, <2>2, <2>3, <2>4 DEF Rerun
<1>9. ASSUME NEW m \in Msgs, WorkerEnsured(m) PROVE TypeOK'
  BY <1>9 DEF WorkerEnsured
<1>10. ASSUME NEW m \in Msgs, StartupFails(m) PROVE TypeOK'
  BY <1>10, AnswerType, DischargeType DEF StartupFails
<1>11. ASSUME NEW m \in Msgs, Deliver(m) PROVE TypeOK'
  BY <1>11 DEF Deliver, Extended
<1>12. ASSUME NEW m \in Msgs, DeliverUnacked(m) PROVE TypeOK'
  BY <1>12 DEF DeliverUnacked
<1>13. ASSUME NEW m \in Msgs, JobDies(m) PROVE TypeOK'
  BY <1>13 DEF JobDies
<1>14. ASSUME NEW m \in Msgs, StartTurn(m) PROVE TypeOK'
  BY <1>14 DEF StartTurn
<1>15. ASSUME NEW m \in Msgs, Reply(m) PROVE TypeOK'
  BY <1>15, AnswerType, DischargeType DEF Reply, CommitTerminalReply
<1>16. ASSUME NEW m \in Msgs, ReplyLost(m) PROVE TypeOK'
  BY <1>16, AnswerType, DischargeType DEF ReplyLost, CommitTerminalReply
<1>17. ASSUME NEW observed \in BOOLEAN, WorkerGone(observed) PROVE TypeOK'
  BY <1>17 DEF WorkerGone
<1>18. CASE FailTurnsForDeployment
  BY <1>18, AnswerType, DischargeType DEF FailTurnsForDeployment
<1>19. CASE GoSilent
  BY <1>19 DEF GoSilent
<1>20. CASE Beat
  BY <1>20 DEF Beat, Extended
<1>21. ASSUME NEW m \in Msgs, Lapse(m) PROVE TypeOK'
  BY <1>21 DEF Lapse
<1>22. ASSUME NEW S \in SUBSET Msgs, SweepExpiredTurns(S) PROVE TypeOK'
  BY <1>22, AnswerType, DischargeType DEF SweepExpiredTurns
<1>23. CASE UNCHANGED vars
  BY <1>23 DEF vars
<1>24. QED
  BY <1>1, <1>2, <1>3, <1>3a, <1>4, <1>5, <1>6, <1>7, <1>8, <1>9, <1>10, <1>11,
     <1>12, <1>13, <1>14, <1>15, <1>16, <1>17, <1>18, <1>19, <1>20, <1>21,
     <1>22, <1>23
     DEF Next, DispatchNext, WorkerNext, DeadlineNext

(* Every variable keeps its type, the bounds of retries and losses         *)
(* included.                                                               *)
THEOREM TypeCorrect == Spec => []TypeOK
BY InitTypeOK, StepTypeOK, PTL DEF Spec

-----------------------------------------------------------------------------
(* The election                                                            *)

(* Of a message whose handler ran once only: before the arm nothing is     *)
(* owed and nothing was answered; from then on exactly one of the marker   *)
(* and the terminal row is there, unless a gate answered instead.          *)
Elected(m) ==
    repeats[m] = 0 =>
        /\ disp[m] # "failed"
        /\ disp[m] \in {"idle", "ready"} =>
              /\ marker[m] = "none" /\ terminals[m] = 0
              /\ courseKey[m] = {} /\ sentKey[m] = FALSE
        /\ disp[m] \in {"armed", "sent", "done"} =>
              \/ marker[m] = "none" /\ terminals[m] = 1
              \/ marker[m] # "none" /\ terminals[m] = 0

ElectionInv == \A m \in Msgs : Elected(m)

(* A step of the kind all emitters take: they answer some armed messages   *)
(* and discharge those.                                                    *)
LEMMA EmitterKeepsElected ==
    ASSUME TypeOK, NEW n \in Msgs, Elected(n), NEW S,
           Answer(S \intersect Armed), Discharge(S),
           UNCHANGED <<disp, sentKey, courseKey, repeats>>
    PROVE  Elected(n)'
BY DEF TypeOK, Elected, Answer, Discharge, Armed

LEMMA InitElectionInv == Init => ElectionInv
<1> SUFFICES ASSUME Init, NEW m \in Msgs PROVE Elected(m)
  BY DEF ElectionInv
<1>1. sentKey[m] = FALSE
  BY Zenon DEF Init
<1>2. QED
  BY <1>1 DEF Init, Elected

LEMMA StepElectionInv == TypeOK /\ ElectionInv /\ [Next]_vars => ElectionInv'
<1> SUFFICES ASSUME TypeOK, ElectionInv, [Next]_vars, NEW n \in Msgs
             PROVE  Elected(n)'
  BY DEF ElectionInv
<1>0. Elected(n)
  BY DEF ElectionInv
<1> USE <1>0 DEF TypeOK, dispVars, workVars, faultVars
<1>1. ASSUME NEW m \in Msgs, Submit(m) PROVE Elected(n)'
  BY <1>1 DEF Submit, Elected
<1>2. ASSUME NEW m \in Msgs, Reject(m) PROVE Elected(n)'
  BY <1>2 DEF Reject, Elected, Answer
<1>3. ASSUME NEW m \in Msgs, NEW notified \in Notices, AnswerWithNotice(m, notified)
      PROVE  Elected(n)'
  BY <1>3 DEF AnswerWithNotice, Elected, Answer
<1>3a. ASSUME NEW m \in Msgs, AlreadyDispatched(m) PROVE Elected(n)'
  BY <1>3a DEF AlreadyDispatched, Elected
<1>4. ASSUME NEW m \in Msgs, Arm(m) PROVE Elected(n)'
  BY <1>4 DEF Arm, Elected
<1>5. ASSUME NEW m \in Msgs, SendToWorkerQueue(m) PROVE Elected(n)'
  BY <1>5 DEF SendToWorkerQueue, Elected
<1>6. ASSUME NEW m \in Msgs, HandlerThrows(m) PROVE Elected(n)'
  BY <1>6, TurnAssumption DEF HandlerThrows, RunEndsBadly, Elected, TurnAssumption
<1>7. ASSUME NEW m \in Msgs, HandlerDone(m) PROVE Elected(n)'
  BY <1>7 DEF HandlerDone, Elected
<1>8. ASSUME NEW m \in Msgs, Rerun(m) PROVE Elected(n)'
  BY <1>8, TurnAssumption DEF Rerun, RunEndsBadly, Elected, TurnAssumption
<1>9. ASSUME NEW m \in Msgs, WorkerEnsured(m) PROVE Elected(n)'
  BY <1>9 DEF WorkerEnsured, Elected
<1>10. ASSUME NEW m \in Msgs, StartupFails(m) PROVE Elected(n)'
  BY <1>10, EmitterKeepsElected DEF StartupFails
<1>11. ASSUME NEW m \in Msgs, Deliver(m) PROVE Elected(n)'
  BY <1>11 DEF Deliver, Extended, Elected
<1>12. ASSUME NEW m \in Msgs, DeliverUnacked(m) PROVE Elected(n)'
  BY <1>12 DEF DeliverUnacked, Elected
<1>13. ASSUME NEW m \in Msgs, JobDies(m) PROVE Elected(n)'
  BY <1>13 DEF JobDies, Elected
<1>14. ASSUME NEW m \in Msgs, StartTurn(m) PROVE Elected(n)'
  BY <1>14 DEF StartTurn, Elected
<1>15. ASSUME NEW m \in Msgs, Reply(m) PROVE Elected(n)'
  BY <1>15, EmitterKeepsElected DEF Reply, CommitTerminalReply
<1>16. ASSUME NEW m \in Msgs, ReplyLost(m) PROVE Elected(n)'
  <2>1. CASE CommitTerminalReply(m)
    BY <1>16, <2>1, EmitterKeepsElected DEF ReplyLost, CommitTerminalReply
  <2>2. CASE UNCHANGED <<marker, terminals>>
    BY <1>16, <2>2 DEF ReplyLost, Elected
  <2>3. QED
    BY <1>16, <2>1, <2>2 DEF ReplyLost
<1>17. ASSUME NEW observed \in BOOLEAN, WorkerGone(observed) PROVE Elected(n)'
  BY <1>17 DEF WorkerGone, Elected
<1>18. CASE FailTurnsForDeployment
  <2>1. Answer(Armed \intersect Armed)
    BY <1>18 DEF FailTurnsForDeployment, Answer
  <2>2. QED
    BY <1>18, <2>1, EmitterKeepsElected DEF FailTurnsForDeployment
<1>19. CASE GoSilent
  BY <1>19 DEF GoSilent, Elected
<1>20. CASE Beat
  BY <1>20 DEF Beat, Extended, Elected
<1>21. ASSUME NEW m \in Msgs, Lapse(m) PROVE Elected(n)'
  BY <1>21 DEF Lapse, Elected
<1>22. ASSUME NEW S \in SUBSET Msgs, SweepExpiredTurns(S) PROVE Elected(n)'
  <2>1. Answer(S \intersect Armed)
    BY <1>22 DEF SweepExpiredTurns, Answer, Armed
  <2>2. QED
    BY <1>22, <2>1, EmitterKeepsElected DEF SweepExpiredTurns
<1>23. CASE UNCHANGED vars
  BY <1>23 DEF vars, Elected
<1>24. QED
  BY <1>1, <1>2, <1>3, <1>3a, <1>4, <1>5, <1>6, <1>7, <1>8, <1>9, <1>10, <1>11,
     <1>12, <1>13, <1>14, <1>15, <1>16, <1>17, <1>18, <1>19, <1>20, <1>21,
     <1>22, <1>23
     DEF Next, DispatchNext, WorkerNext, DeadlineNext

(* Whoever comes first, worker, sweep, fast path or startup failure: a     *)
(* message whose `messages` run was handled in one go has one answer.      *)
THEOREM OneAnswer == Spec => []OneTerminalUnlessRepeated
<1>1. TypeOK /\ ElectionInv => OneTerminalUnlessRepeated
  BY DEF TypeOK, ElectionInv, Elected, OneTerminalUnlessRepeated, OneTerminal
<1>2. QED
  BY <1>1, InitTypeOK, StepTypeOK, InitElectionInv, StepElectionInv, PTL
     DEF Spec
-----------------------------------------------------------------------------
(* Cover                                                                   *)

Covered(m) == marker[m] # "none" \/ terminals[m] > 0

(* The marker stands before the message is sent: from the arm on, a        *)
(* message is covered, and so is all that is on its way to the worker.     *)
CoverInv ==
    \A m \in Msgs :
        (disp[m] = "armed" \/ job[m] # "none" \/ m \in inbox \/ m \in turn) =>
            Covered(m)

(* No step uncovers a message: markers only go with an answer.             *)
LEMMA StepKeepsCovered ==
    ASSUME TypeOK, [Next]_vars, NEW n \in Msgs
    PROVE  /\ terminals'[n] \in Nat /\ terminals'[n] >= terminals[n]
           /\ marker[n] # "none" /\ marker'[n] = "none" =>
                  terminals'[n] > terminals[n]
<1> DEFINE Goal == /\ terminals'[n] \in Nat /\ terminals'[n] >= terminals[n]
                   /\ marker[n] # "none" /\ marker'[n] = "none" =>
                          terminals'[n] > terminals[n]
<1> SUFFICES Goal
  OBVIOUS
<1>0. terminals[n] \in Nat /\ terminals \in [Msgs -> Nat]
         /\ marker \in [Msgs -> {"none", "fresh", "lapsed"}]
  BY DEF TypeOK
<1>a. ASSUME UNCHANGED <<marker, terminals>> PROVE Goal
  BY <1>0, <1>a
<1>b. ASSUME NEW S, Answer(S), UNCHANGED marker PROVE Goal
  BY <1>0, <1>b DEF Answer
<1>c. ASSUME NEW S, Answer(S \intersect Armed), Discharge(S) PROVE Goal
  BY <1>0, <1>c DEF Answer, Discharge, Armed
<1> HIDE DEF Goal
<1>1. ASSUME NEW m \in Msgs, DispatchNext(m) PROVE Goal
  <2>1. CASE Reject(m) \/ \E notified \in Notices : AnswerWithNotice(m, notified)
    BY <2>1, <1>b DEF Reject, AnswerWithNotice
  <2>2. CASE Arm(m)
    BY <2>2, <1>0 DEF Arm, Goal
  <2>3. CASE Submit(m) \/ SendToWorkerQueue(m) \/ HandlerThrows(m)
                \/ HandlerDone(m) \/ Rerun(m) \/ AlreadyDispatched(m)
    BY <2>3, <1>a DEF Submit, SendToWorkerQueue, HandlerThrows, HandlerDone, Rerun,
       AlreadyDispatched
  <2>4. QED
    BY <1>1, <2>1, <2>2, <2>3 DEF DispatchNext
<1>2. CASE WorkerNext
  <2>1. ASSUME NEW m \in Msgs, StartupFails(m) \/ Reply(m) PROVE Goal
    BY <2>1, <1>c DEF StartupFails, Reply, CommitTerminalReply
  <2>2. ASSUME NEW m \in Msgs, ReplyLost(m) PROVE Goal
    BY <2>2, <1>a, <1>c DEF ReplyLost, CommitTerminalReply
  <2>3. ASSUME NEW m \in Msgs,
               WorkerEnsured(m) \/ DeliverUnacked(m) \/ JobDies(m) \/ StartTurn(m)
        PROVE  Goal
    BY <2>3, <1>a DEF WorkerEnsured, DeliverUnacked, JobDies, StartTurn
  <2>4. ASSUME marker' = Extended, UNCHANGED terminals PROVE Goal
    BY <2>4, <1>0 DEF Extended, Goal
  <2>5. ASSUME NEW m \in Msgs, Deliver(m) PROVE Goal
    BY <2>5, <2>4 DEF Deliver
  <2>6. CASE FailTurnsForDeployment
    <3>1. Answer(Armed \intersect Armed)
      BY <2>6 DEF FailTurnsForDeployment, Answer
    <3>2. QED
      BY <2>6, <3>1, <1>c DEF FailTurnsForDeployment
  <2>7. CASE Beat
    BY <2>7, <2>4 DEF Beat
  <2>8. CASE GoSilent \/ \E observed \in BOOLEAN : WorkerGone(observed)
    BY <2>8, <1>a DEF GoSilent, WorkerGone
  <2>9. QED
    BY <1>2, <2>1, <2>2, <2>3, <2>5, <2>6, <2>7, <2>8 DEF WorkerNext
<1>3. CASE DeadlineNext
  <2>1. ASSUME NEW m \in Msgs, Lapse(m) PROVE Goal
    BY <2>1, <1>0 DEF Lapse, Goal
  <2>2. ASSUME NEW S \in SUBSET Msgs, SweepExpiredTurns(S) PROVE Goal
    <3>1. Answer(S \intersect Armed)
      BY <2>2 DEF SweepExpiredTurns, Answer, Armed
    <3>2. QED
      BY <2>2, <3>1, <1>c DEF SweepExpiredTurns
  <2>3. QED
    BY <1>3, <2>1, <2>2 DEF DeadlineNext
<1>4. CASE UNCHANGED vars
  BY <1>4, <1>a DEF vars
<1>5. QED
  BY <1>1, <1>2, <1>3, <1>4 DEF Next

LEMMA StepCoverInv == TypeOK /\ CoverInv /\ [Next]_vars => CoverInv'
<1> SUFFICES ASSUME TypeOK, CoverInv, [Next]_vars, NEW n \in Msgs,
                    (disp[n] = "armed" \/ job[n] # "none" \/ n \in inbox
                        \/ n \in turn)'
             PROVE  Covered(n)'
  BY DEF CoverInv
<1>1. Covered(n) => Covered(n)'
  BY StepKeepsCovered DEF Covered, TypeOK
<1>2. CASE disp[n] = "armed" \/ job[n] # "none" \/ n \in inbox \/ n \in turn
  BY <1>1, <1>2 DEF CoverInv
<1>3. CASE ~(disp[n] = "armed" \/ job[n] # "none" \/ n \in inbox \/ n \in turn)
  <2>1. \E m \in Msgs : Arm(m)
    <3> USE <1>3 DEF TypeOK, dispVars, workVars
    <3>1. ASSUME NEW m \in Msgs, DispatchNext(m) PROVE Arm(m)
      BY <3>1 DEF DispatchNext, Submit, Reject, AnswerWithNotice, AlreadyDispatched,
         SendToWorkerQueue, HandlerThrows, HandlerDone, Rerun
    <3>2. ASSUME NEW m \in Msgs,
                 \/ WorkerEnsured(m) \/ StartupFails(m)
                 \/ Deliver(m) \/ DeliverUnacked(m) \/ JobDies(m)
                 \/ StartTurn(m) \/ Reply(m) \/ ReplyLost(m)
          PROVE  FALSE
      BY <3>2 DEF WorkerEnsured, StartupFails, Deliver, DeliverUnacked, JobDies,
         StartTurn, Reply, ReplyLost
    <3>3. CASE \/ FailTurnsForDeployment \/ GoSilent \/ Beat
               \/ \E observed \in BOOLEAN : WorkerGone(observed)
      BY <3>3 DEF FailTurnsForDeployment, GoSilent, Beat, WorkerGone
    <3>4. CASE DeadlineNext
      BY <3>4 DEF DeadlineNext, Lapse, SweepExpiredTurns
    <3>5. CASE UNCHANGED vars
      BY <3>5 DEF vars
    <3>6. QED
      BY <3>1, <3>2, <3>3, <3>4, <3>5 DEF Next, WorkerNext
  <2>2. QED
    BY <1>3, <2>1 DEF Arm, Covered, TypeOK, workVars
<1>4. QED
  BY <1>2, <1>3

(* No message is on its way to a worker without a marker or an answer.     *)
THEOREM CoverHolds == Spec => []DeliverableIsCovered
<1>1. Init => CoverInv
  BY DEF Init, CoverInv
<1>2. CoverInv => DeliverableIsCovered
  BY DEF CoverInv, Covered, DeliverableIsCovered
<1>3. QED
  BY <1>1, <1>2, InitTypeOK, StepTypeOK, StepCoverInv, PTL DEF Spec

(* A turn is never forgotten: whatever is retried, crashes or is lost, the *)
(* step that removes a marker adds a terminal row for its message.         *)
THEOREM NeverForgotten == Spec => NoTurnForgotten
<1>1. TypeOK /\ [Next]_vars =>
        [\A m \in Msgs : marker[m] # "none" /\ marker'[m] = "none" =>
            terminals'[m] > terminals[m]]_vars
  BY StepKeepsCovered
<1>2. QED
  BY <1>1, InitTypeOK, StepTypeOK, PTL DEF Spec, NoTurnForgotten

-----------------------------------------------------------------------------
(* Liveness                                                                *)

Fresh(m) == marker[m] = "fresh"
Lapsed(m) == marker[m] = "lapsed"
Ended(m) == marker[m] = "none"
Silent == worker # "beating"

(* Without a beat and a receipt no step gives a lapsed deadline back.      *)
LEMMA LapsedStays ==
    ASSUME TypeOK, [Next]_vars, [NoReceipt]_vars, Silent',
           NEW m \in Msgs, Lapsed(m)
    PROVE  Lapsed(m)' \/ Ended(m)'
<1> USE DEF TypeOK, Lapsed, Ended, Silent, Discharge
<1>1. ASSUME NEW n \in Msgs, DispatchNext(n) PROVE Lapsed(m)' \/ Ended(m)'
  BY <1>1 DEF DispatchNext, Submit, Reject, AnswerWithNotice, AlreadyDispatched,
     Arm, SendToWorkerQueue, HandlerThrows, HandlerDone, Rerun
<1>2. CASE WorkerNext
  <2>1. ASSUME NEW n \in Msgs,
               \/ WorkerEnsured(n) \/ StartupFails(n)
               \/ DeliverUnacked(n) \/ JobDies(n)
               \/ StartTurn(n) \/ Reply(n) \/ ReplyLost(n)
        PROVE  Lapsed(m)' \/ Ended(m)'
    BY <2>1 DEF WorkerEnsured, StartupFails, DeliverUnacked, JobDies, StartTurn,
       Reply, ReplyLost, CommitTerminalReply
  <2>2. ASSUME NEW n \in Msgs, Deliver(n) PROVE UNCHANGED vars
    BY <2>2 DEF NoReceipt
  <2>3. CASE \/ FailTurnsForDeployment \/ GoSilent \/ Beat
             \/ \E observed \in BOOLEAN : WorkerGone(observed)
    BY <2>3 DEF FailTurnsForDeployment, GoSilent, Beat, WorkerGone
  <2>4. QED
    BY <1>2, <2>1, <2>2, <2>3 DEF WorkerNext, vars
<1>3. CASE DeadlineNext
  BY <1>3 DEF DeadlineNext, Lapse, SweepExpiredTurns
<1>4. CASE UNCHANGED vars
  BY <1>4 DEF vars
<1>5. QED
  BY <1>1, <1>2, <1>3, <1>4 DEF Next

(* A job is put in the queue once, noted with the durable key of its send. *)
Handed(m) == job[m] \in {"done", "dead"}
JobOK(m) == job[m] # "none" => sentKey[m]

LEMMA StepHanded ==
    ASSUME TypeOK, [Next]_vars, NEW m \in Msgs, JobOK(m)
    PROVE  JobOK(m)' /\ (Handed(m) => Handed(m)')
<1> DEFINE Kept == JobOK(m)' /\ (Handed(m) => Handed(m)')
<1> USE DEF TypeOK, Handed, JobOK, dispVars, workVars, faultVars
<1>1. ASSUME NEW n \in Msgs, DispatchNext(n) PROVE Kept
  BY <1>1 DEF DispatchNext, Submit, Reject, AnswerWithNotice, AlreadyDispatched,
     Arm, SendToWorkerQueue, HandlerThrows, HandlerDone, Rerun
<1>2. ASSUME NEW n \in Msgs,
             \/ WorkerEnsured(n) \/ StartupFails(n)
             \/ Deliver(n) \/ DeliverUnacked(n) \/ JobDies(n)
             \/ StartTurn(n) \/ Reply(n) \/ ReplyLost(n)
      PROVE  Kept
  BY <1>2 DEF WorkerEnsured, StartupFails, Deliver, DeliverUnacked, JobDies,
     StartTurn, Reply, ReplyLost
<1>3. CASE \/ FailTurnsForDeployment \/ GoSilent \/ Beat
           \/ \E observed \in BOOLEAN : WorkerGone(observed)
  BY <1>3 DEF FailTurnsForDeployment, GoSilent, Beat, WorkerGone
<1>4. CASE DeadlineNext
  BY <1>4 DEF DeadlineNext, Lapse, SweepExpiredTurns
<1>5. CASE UNCHANGED vars
  BY <1>5 DEF vars
<1>6. QED
  BY <1>1, <1>2, <1>3, <1>4, <1>5 DEF Next, WorkerNext

(* Of each job one receipt comes at most, so the last receipt of each job  *)
(* has come some day.                                                      *)
LEMMA ReceiptsOfEachCease ==
    ASSUME NEW m \in Msgs
    PROVE  Spec => <>[][~Deliver(m)]_vars
<1>1. Init => JobOK(m)
  BY DEF Init, JobOK
<1>2. TypeOK /\ JobOK(m) /\ [Next]_vars => JobOK(m)' /\ (Handed(m) => Handed(m)')
  BY StepHanded
<1>3. TypeOK /\ Deliver(m) => Handed(m)'
  BY DEF TypeOK, Deliver, Handed
<1>4. Handed(m) => ~Deliver(m)
  BY DEF Handed, Deliver
<1>5. QED
  BY <1>1, <1>2, <1>3, <1>4, InitTypeOK, StepTypeOK, PTL DEF Spec

(* After some point no message of S has a receipt any more.                *)
NoneOf(S) == \A m \in S : ~Deliver(m)
CeaseFor(S) == Spec => <>[][NoneOf(S)]_vars

(* Of finitely many messages the very last receipt has come some day: a    *)
(* worker that hangs cannot move the deadlines by receipts for ever.       *)
THEOREM ReceiptsDoCease ==
    ASSUME IsFiniteSet(Msgs)
    PROVE  Spec => ReceiptsCease
<1>1. CeaseFor({})
  <2>1. NoneOf({})
    BY DEF NoneOf
  <2>2. QED
    BY <2>1, PTL DEF CeaseFor
<1>2. ASSUME NEW T \in SUBSET Msgs, NEW m \in Msgs
      PROVE  CeaseFor(T) => CeaseFor(T \union {m})
  <2>1. [NoneOf(T)]_vars /\ [~Deliver(m)]_vars => [NoneOf(T \union {m})]_vars
    BY DEF NoneOf
  <2>2. QED
    BY <2>1, ReceiptsOfEachCease, PTL DEF CeaseFor
<1>3. \E f : \A S \in SUBSET Msgs : f[S] = 1 <=> CeaseFor(S)
  <2>1. Term([S \in SUBSET Msgs |-> IF CeaseFor(S) THEN 1 ELSE 0])
    BY DEF Term
  <2>2. QED
    BY <2>1
<1>4. PICK f : \A S \in SUBSET Msgs : f[S] = 1 <=> CeaseFor(S)
  BY <1>3
<1>5. f[{}] = 1 /\ \A T \in SUBSET Msgs, m \in Msgs : f[T] = 1 => f[T \union {m}] = 1
  <2>1. f[{}] = 1
    BY <1>1, <1>4
  <2>2. ASSUME NEW T \in SUBSET Msgs, NEW m \in Msgs
        PROVE  f[T] = 1 => f[T \union {m}] = 1
    BY <1>2, <1>4
  <2>3. QED
    BY <2>1, <2>2
<1>6. CeaseFor(Msgs)
  BY <1>4, <1>5, InductionOnFiniteSet
<1>7. NoneOf(Msgs) <=> NoReceipt
  BY DEF NoneOf, NoReceipt
<1>8. QED
  BY <1>6, <1>7, PTL DEF CeaseFor, ReceiptsCease

LEMMA FairSteps ==
    ASSUME NEW m \in Msgs
    PROVE  SweepSpec => /\ []TypeOK /\ [][Next]_vars
                        /\ SweepFairness /\ DeadlineFairness(m)
<1>1. SweepSpec => DeadlineFairness(m)
  BY DEF SweepSpec
<1>2. SweepSpec => Spec /\ SweepFairness
  BY DEF SweepSpec
<1>3. QED
  BY <1>1, <1>2, InitTypeOK, StepTypeOK, PTL DEF Spec

(* A silent or absent worker leaves no turn open once its last receipt has *)
(* come, as long as a deadline can pass and a lapsed row can be swept      *)
(* (extendTurnDeadlines, sweepExpiredTurns). Nothing is asked of dispatch, *)
(* of the worker or of the fast path.                                      *)
THEOREM SilentTurnsEnd ==
    SweepSpec /\ []NothingIsStuck /\ ReceiptsCease => SilenceEndsTurns
<1> SUFFICES ASSUME NEW m \in Msgs
             PROVE  SweepSpec /\ []NothingIsStuck /\ ReceiptsCease
                        /\ <>[](worker # "beating") =>
                        (marker[m] # "none" ~> marker[m] = "none")
  BY DEF SilenceEndsTurns
<1>1. /\ TypeOK /\ [Next]_vars /\ [NoReceipt]_vars
      /\ Silent' /\ Lapsed(m)
      => Lapsed(m)' \/ Ended(m)'
  BY LapsedStays
<1>2. TypeOK => Fresh(m) \/ Lapsed(m) \/ Ended(m)
  BY DEF TypeOK, Fresh, Lapsed, Ended
<1>3. TypeOK /\ <<Lapse(m)>>_vars => Lapsed(m)'
  BY DEF TypeOK, Lapse, Lapsed
<1>4. Lapsed(m) /\ <<SweepLapsed>>_vars => Ended(m)'
  BY DEF SweepLapsed, SweepExpiredTurns, Discharge, Lapsed, Ended
<1>5. NothingIsStuck =>
          /\ Fresh(m) /\ Silent => ENABLED <<Lapse(m)>>_vars
          /\ Lapsed(m) => ENABLED <<SweepLapsed>>_vars
  BY DEF NothingIsStuck, Fresh, Lapsed, Silent
<1>6. (worker # "beating" <=> Silent) /\ (marker[m] = "none" <=> Ended(m))
  BY DEF Silent, Ended
<1>7. QED
  BY <1>1, <1>2, <1>3, <1>4, <1>5, <1>6, FairSteps, PTL
     DEF ReceiptsCease, SweepFairness, DeadlineFairness

(* So with finitely many messages a silent or absent worker leaves no turn *)
(* open at all.                                                            *)
THEOREM SilenceAnswered ==
    ASSUME IsFiniteSet(Msgs)
    PROVE  SweepSpec /\ []NothingIsStuck => SilenceEndsTurns
BY ReceiptsDoCease, SilentTurnsEnd DEF SweepSpec
=============================================================================
