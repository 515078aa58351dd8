------------------------ MODULE ConnectorRunsProofs -------------------------
(***************************************************************************)
(* What holds of ConnectorRuns for any number of feeds and runs, any       *)
(* length of a source and any batch size.                                  *)
(***************************************************************************)
EXTENDS ConnectorRuns, TLAPS

-----------------------------------------------------------------------------
(* The inductive invariant                                                 *)

(* Items that a run which starts behind them need not fetch again.         *)
Kept(f) == stored[f] \union overtaken[f]

(* Where a run's requests may be, by what its worker does, and what it has *)
(* flushed: the items up to there are kept, and success is reported only   *)
(* when nothing is left in the batch.                                      *)
RunOK(r) ==
    /\ status[r] \in {"absent", "pending"} => exec[r] = "none"
    /\ exec[r] \in {"none", "given"} => stream[r] = "idle" /\ close[r] = "idle"
    /\ close[r] # "idle" => exec[r] \in {"reporting", "failing", "over"}
    /\ flushed[r] <= emitted[r] /\ last[r] <= emitted[r]
    /\ close[r] \in {"success", "book_success"} => flushed[r] = emitted[r]
    /\ exec[r] # "none" => 1..flushed[r] \subseteq Kept(feed[r])
    /\ stream[r] = "advance" => 1..emitted[r] \subseteq Kept(feed[r])

(* As long as no runs of the feed overlapped, one run at most writes its   *)
(* checkpoint, and what it would write is not behind it.                   *)
Alone(f) ==
    f \notin overlapped =>
        \A r \in Runs : feed[r] = f /\ Busy(r) =>
            /\ checkpoint[f] <= last[r]
            /\ \A q \in Runs : feed[q] = f /\ Busy(q) => q = r

IInv ==
    /\ TypeOK
    /\ OneActiveRunPerFeed
    /\ DeletedFeedIsQuiet
    /\ \A r \in Runs : RunOK(r)
    /\ NothingIsSkipped
    /\ \A f \in Feeds : Alone(f)

LEMMA InitIInv == Init => IInv
BY RunsAssumption
   DEF Init, IInv, TypeOK, OneActiveRunPerFeed, DeletedFeedIsQuiet, RunOK,
       NothingIsSkipped, Alone, Busy, Kept, Active, Terminal, ActiveRuns, Items

-----------------------------------------------------------------------------
(* The reaper                                                              *)

(* What the reaper's statement does: parent says which run a row that it   *)
(* inserts is the retry of.                                                *)
Reaped(S, parent) ==
    \A n \in Runs :
        /\ n \in S => status[n] = "running" /\ parent[n] = NoRun
        /\ parent[n] # NoRun =>
             /\ n \in Absent /\ parent[n] \in S
             /\ ActiveRuns(feed[parent[n]]) \subseteq S
             /\ status'[n] = "pending" /\ feed'[n] = feed[parent[n]]
             /\ parent[n] \in raced => n \in raced'
             /\ \A m \in Runs : parent[m] = parent[n] => m = n
        /\ parent[n] = NoRun =>
             /\ feed'[n] = feed[n]
             /\ status'[n] = IF n \in S THEN "timeout" ELSE status[n]

LEMMA ReapEffect ==
    ASSUME TypeOK, NEW S \in SUBSET Runs, Reap(S)
    PROVE  \E parent \in [Runs -> Runs \union {NoRun}] : Reaped(S, parent)
<1> DEFINE T == {r \in S : ActiveRuns(feed[r]) \subseteq S}
<1>1. PICK heir \in Heirs(T) :
        /\ status' = [n \in Runs |-> IF n \in S THEN "timeout"
                        ELSE IF {r \in DOMAIN heir : heir[r] = n} # {} THEN "pending"
                        ELSE status[n]]
        /\ feed' = [n \in Runs |-> IF {r \in DOMAIN heir : heir[r] = n} # {}
                        THEN feed[CHOOSE r \in {r \in DOMAIN heir : heir[r] = n} : TRUE]
                        ELSE feed[n]]
        /\ raced' = raced \union
             {n \in Runs : {r \in DOMAIN heir : heir[r] = n} \intersect raced # {}}
  BY DEF Reap
<1> DEFINE Parent(n) == {r \in DOMAIN heir : heir[r] = n}
           parent == [n \in Runs |-> IF Parent(n) # {}
                                     THEN CHOOSE r \in Parent(n) : TRUE
                                     ELSE NoRun]
<1>2. /\ heir \in [T -> Absent \union {NoRun}]
      /\ \A r, q \in T : heir[r] = heir[q] /\ heir[r] # NoRun => r = q
      /\ \A r \in S : status[r] = "running"
  BY <1>1 DEF Heirs, Reap
<1>3. ASSUME NEW n \in Runs
      PROVE  /\ Parent(n) = {} => parent[n] = NoRun
             /\ Parent(n) # {} => /\ parent[n] \in T /\ heir[parent[n]] = n
                                  /\ n \in Absent
                                  /\ Parent(n) = {parent[n]}
  <2>1. CASE Parent(n) = {}
    BY <2>1
  <2>2. CASE Parent(n) # {}
    <3>1. parent[n] \in Parent(n)
      BY <2>2
    <3>2. n # NoRun
      BY RunsAssumption DEF RunsAssumption
    <3>3. parent[n] \in T /\ heir[parent[n]] = n
      BY <3>1, <1>2
    <3>4. n \in Absent
      BY <3>2, <3>3, <1>2
    <3>5. Parent(n) = {parent[n]}
      BY <3>1, <3>2, <3>3, <1>2
    <3>6. QED
      BY <2>2, <3>3, <3>4, <3>5
  <2>3. QED
    BY <2>1, <2>2
<1>4. T \subseteq S /\ T \subseteq Runs /\ NoRun \notin Runs
  BY RunsAssumption DEF RunsAssumption
<1>5. parent \in [Runs -> Runs \union {NoRun}]
  BY <1>3, <1>4
<1>6. ASSUME NEW n \in Runs
      PROVE  /\ status'[n] = IF n \in S THEN "timeout"
                             ELSE IF parent[n] # NoRun THEN "pending" ELSE status[n]
             /\ feed'[n] = IF parent[n] # NoRun THEN feed[parent[n]] ELSE feed[n]
             /\ parent[n] \in raced => n \in raced'
  <2> HIDE DEF parent
  <2>1. parent[n] = NoRun <=> Parent(n) = {}
    BY <1>3, <1>4
  <2>2. parent[n] # NoRun =>
          (CHOOSE r \in {r \in DOMAIN heir : heir[r] = n} : TRUE) = parent[n]
    BY <1>3, <2>1
  <2>3. parent[n] \in raced => n \in raced'
    <3>1. CASE parent[n] = NoRun
      BY <3>1, <1>4 DEF TypeOK
    <3>2. CASE parent[n] # NoRun
      BY <3>2, <1>1, <1>3, <2>1
    <3>3. QED
      BY <3>1, <3>2
  <2>4. QED
    <3>1. status'[n] = IF n \in S THEN "timeout"
                       ELSE IF Parent(n) # {} THEN "pending" ELSE status[n]
      BY <1>1
    <3>2. feed'[n] = IF Parent(n) # {}
                     THEN feed[CHOOSE r \in {r \in DOMAIN heir : heir[r] = n} : TRUE]
                     ELSE feed[n]
      BY <1>1
    <3> HIDE DEF Parent
    <3>3. QED
      BY <2>1, <2>2, <2>3, <3>1, <3>2
<1> HIDE DEF parent
<1>7. ASSUME NEW n \in Runs
      PROVE  /\ n \in S => status[n] = "running" /\ parent[n] = NoRun
             /\ parent[n] # NoRun =>
                  /\ n \in Absent /\ parent[n] \in S
                  /\ ActiveRuns(feed[parent[n]]) \subseteq S
                  /\ \A m \in Runs : parent[m] = parent[n] => m = n
  <2>1. parent[n] # NoRun => Parent(n) # {}
    BY <1>3
  <2>2. parent[n] # NoRun => parent[n] \in T /\ heir[parent[n]] = n /\ n \in Absent
    BY <1>3, <2>1
  <2>3. \A m \in Runs : parent[n] # NoRun /\ parent[m] = parent[n] => m = n
    BY <1>3, <2>2
  <2>4. n \in S => status[n] = "running" /\ parent[n] = NoRun
    BY <1>2, <2>2 DEF Absent
  <2>5. QED
    BY <2>2, <2>3, <2>4
<1>8. Reaped(S, parent)
  BY <1>6, <1>7, <1>4 DEF Reaped, Absent
<1>9. QED
  BY <1>5, <1>8

-----------------------------------------------------------------------------
(* It is inductive                                                         *)

LEMMA StepTypeOK == IInv /\ [Next]_vars => TypeOK'
<1> SUFFICES ASSUME IInv, [Next]_vars
             PROVE  TypeOK'
  OBVIOUS
<1> USE RunsAssumption DEF RunsAssumption, IInv, TypeOK, RunOK, Items, Batched,
    Active, Terminal, Absent, ActiveRuns,
    feedVars, runVars, requestVars, workerVars, historyVars
<1>1. ASSUME NEW f \in Feeds, PickFeed(f) PROVE TypeOK'
  BY <1>1 DEF PickFeed
<1>2. ASSUME NEW f \in Feeds, CreateSyncRun(f) PROVE TypeOK'
  <2>1. CASE UNCHANGED <<status, feed, raced>>
    BY <1>2, <2>1 DEF CreateSyncRun
  <2>2. ASSUME NEW r \in Absent,
               status' = [status EXCEPT ![r] = "pending"],
               feed' = [feed EXCEPT ![r] = f],
               raced' = IF f \in deleted THEN raced \union {r} ELSE raced
        PROVE  TypeOK'
    BY <1>2, <2>2 DEF CreateSyncRun
  <2>3. QED
    BY <1>2, <2>1, <2>2 DEF CreateSyncRun
<1>3. ASSUME NEW f \in Feeds, DeleteFeed(f) PROVE TypeOK'
  BY <1>3 DEF DeleteFeed
<1>4. ASSUME NEW f \in Feeds, CancelRuns(f) PROVE TypeOK'
  BY <1>4 DEF CancelRuns, Cancelled
<1>5. ASSUME NEW f \in Feeds, CancelConnect(f) PROVE TypeOK'
  BY <1>5 DEF CancelConnect, Cancelled
<1>6. ASSUME NEW r \in Runs, Start(r) PROVE TypeOK'
  BY <1>6 DEF Start
<1>7. ASSUME NEW r \in Runs, WorkerGone(r) PROVE TypeOK'
  BY <1>7 DEF WorkerGone
<1>8. ASSUME NEW r \in Runs, Emit(r) PROVE TypeOK'
  BY <1>8 DEF Emit
<1>9. ASSUME NEW r \in Runs, FlushBatch(r) PROVE TypeOK'
  BY <1>9 DEF FlushBatch
<1>10. ASSUME NEW r \in Runs, UpdateCheckpoint(r) PROVE TypeOK'
  BY <1>10 DEF UpdateCheckpoint
<1>11. ASSUME NEW r \in Runs, SyncReturns(r) PROVE TypeOK'
  BY <1>11 DEF SyncReturns
<1>12. ASSUME NEW r \in Runs, Report(r) PROVE TypeOK'
  BY <1>12 DEF Report
<1>13. ASSUME NEW r \in Runs, SyncThrows(r) PROVE TypeOK'
  BY <1>13 DEF SyncThrows
<1>14. ASSUME NEW r \in Runs, ReportAnswered(r) PROVE TypeOK'
  BY <1>14 DEF ReportAnswered
<1>15. ASSUME NEW r \in Runs, ReportUnanswered(r) PROVE TypeOK'
  BY <1>15 DEF ReportUnanswered
<1>16. ASSUME NEW r \in Runs, Poll(r) PROVE TypeOK'
  BY <1>16 DEF Poll, Handed
<1>17. ASSUME NEW r \in Runs, PollRefuses(r) PROVE TypeOK'
  BY <1>17 DEF PollRefuses
<1>18. ASSUME NEW r \in Runs, StreamStores(r) PROVE TypeOK'
  <2>1. (flushed[r] + 1 .. emitted[r]) \subseteq Items
    OBVIOUS
  <2>2. stored' \in [Feeds -> SUBSET Items]
    <3>1. stored' = [stored EXCEPT ![feed[r]] = @ \union (flushed[r] + 1 .. emitted[r])]
      BY <1>18 DEF StreamStores
    <3> HIDE DEF Items
    <3>2. QED
      BY <2>1, <3>1
  <2>3. stream' \in [Runs -> {"idle", "store", "advance", "save"}]
    BY <1>18 DEF StreamStores
  <2>4. UNCHANGED <<deleted, checkpoint, runVars, picked, deleting, close,
                    workerVars, historyVars>>
    BY <1>18 DEF StreamStores
  <2> HIDE DEF Items
  <2>5. QED
    BY <2>2, <2>3, <2>4
<1>19. ASSUME NEW r \in Runs, StreamSaves(r) PROVE TypeOK'
  <2>1. (flushed[r] + 1 .. emitted[r]) \subseteq Items
    OBVIOUS
  <2>2. overtaken' \in [Feeds -> SUBSET Items] /\ flushed' \in [Runs -> 0..MaxItems]
    <3>1. \/ /\ flushed' = [flushed EXCEPT ![r] = emitted[r]]
             /\ UNCHANGED overtaken
          \/ /\ overtaken' = [overtaken EXCEPT ![feed[r]] =
                               @ \union (flushed[r] + 1 .. emitted[r])]
             /\ UNCHANGED flushed
      BY <1>19 DEF StreamSaves
    <3> HIDE DEF Items
    <3>2. QED
      BY <2>1, <3>1
  <2>3. /\ stream' \in [Runs -> {"idle", "store", "advance", "save"}]
        /\ checkpoint' \in [Feeds -> 0..MaxItems]
    BY <1>19 DEF StreamSaves
  <2>4. UNCHANGED <<deleted, stored, runVars, picked, deleting, close, exec,
                    emitted, last, raced, overlapped>>
    BY <1>19 DEF StreamSaves
  <2> HIDE DEF Items
  <2>5. QED
    BY <2>2, <2>3, <2>4
<1>20. ASSUME NEW r \in Runs, StreamFails(r) PROVE TypeOK'
  BY <1>20 DEF StreamFails
<1>21. ASSUME NEW r \in Runs, Complete(r) PROVE TypeOK'
  BY <1>21 DEF Complete, Outcome, Booking
<1>22. ASSUME NEW r \in Runs, BookOnFeed(r) PROVE TypeOK'
  BY <1>22 DEF BookOnFeed
<1>23. ASSUME NEW r \in Runs, CompleteFails(r) PROVE TypeOK'
  BY <1>23 DEF CompleteFails
<1>24. ASSUME NEW S \in SUBSET Runs, Reap(S) PROVE TypeOK'
  <2>1. PICK parent \in [Runs -> Runs \union {NoRun}] : Reaped(S, parent)
    BY <1>24, ReapEffect
  <2>2. /\ DOMAIN status' = Runs /\ DOMAIN feed' = Runs
        /\ status' = [n \in Runs |-> status'[n]]
        /\ feed' = [n \in Runs |-> feed'[n]]
        /\ raced' \subseteq Runs
    BY <1>24 DEF Reap
  <2>3. \A n \in Runs : /\ status'[n] \in {"absent"} \union Active \union Terminal
                        /\ feed'[n] \in Feeds \union {NoFeed}
                        /\ status'[n] = "absent" <=> feed'[n] = NoFeed
    BY <2>1 DEF Reaped
  <2>4. UNCHANGED <<feedVars, requestVars, workerVars, overtaken, overlapped>>
    BY <1>24 DEF Reap
  <2>5. QED
    BY <2>2, <2>3, <2>4
<1>25. CASE UNCHANGED vars
  BY <1>25 DEF vars
<1>26. QED
  BY <1>1, <1>2, <1>3, <1>4, <1>5, <1>6, <1>7, <1>8, <1>9, <1>10, <1>11,
     <1>12, <1>13, <1>14, <1>15, <1>16, <1>17, <1>18, <1>19, <1>20, <1>21,
     <1>22, <1>23, <1>24, <1>25
     DEF Next, FeedSteps, WorkerSteps, GatewaySteps

LEMMA StepOneActive == IInv /\ [Next]_vars => OneActiveRunPerFeed'
<1> SUFFICES ASSUME IInv, [Next]_vars
             PROVE  OneActiveRunPerFeed'
  OBVIOUS
<1> USE RunsAssumption DEF RunsAssumption, IInv, TypeOK, OneActiveRunPerFeed,
    Active, Terminal, Absent, ActiveRuns,
    feedVars, runVars, requestVars, workerVars, historyVars
<1>1. ASSUME NEW f \in Feeds, PickFeed(f) PROVE OneActiveRunPerFeed'
  BY <1>1 DEF PickFeed
<1>2. ASSUME NEW f \in Feeds, CreateSyncRun(f) PROVE OneActiveRunPerFeed'
  BY <1>2 DEF CreateSyncRun
<1>3. ASSUME NEW f \in Feeds, DeleteFeed(f) PROVE OneActiveRunPerFeed'
  BY <1>3 DEF DeleteFeed
<1>4. ASSUME NEW f \in Feeds, CancelRuns(f) PROVE OneActiveRunPerFeed'
  BY <1>4 DEF CancelRuns, Cancelled
<1>5. ASSUME NEW f \in Feeds, CancelConnect(f) PROVE OneActiveRunPerFeed'
  BY <1>5 DEF CancelConnect, Cancelled
<1>6. ASSUME NEW r \in Runs, Start(r) PROVE OneActiveRunPerFeed'
  BY <1>6 DEF Start
<1>7. ASSUME NEW r \in Runs, WorkerGone(r) PROVE OneActiveRunPerFeed'
  BY <1>7 DEF WorkerGone
<1>8. ASSUME NEW r \in Runs, Emit(r) PROVE OneActiveRunPerFeed'
  BY <1>8 DEF Emit
<1>9. ASSUME NEW r \in Runs, FlushBatch(r) PROVE OneActiveRunPerFeed'
  BY <1>9 DEF FlushBatch
<1>10. ASSUME NEW r \in Runs, UpdateCheckpoint(r) PROVE OneActiveRunPerFeed'
  BY <1>10 DEF UpdateCheckpoint
<1>11. ASSUME NEW r \in Runs, SyncReturns(r) PROVE OneActiveRunPerFeed'
  BY <1>11 DEF SyncReturns
<1>12. ASSUME NEW r \in Runs, Report(r) PROVE OneActiveRunPerFeed'
  BY <1>12 DEF Report
<1>13. ASSUME NEW r \in Runs, SyncThrows(r) PROVE OneActiveRunPerFeed'
  BY <1>13 DEF SyncThrows
<1>14. ASSUME NEW r \in Runs, ReportAnswered(r) PROVE OneActiveRunPerFeed'
  BY <1>14 DEF ReportAnswered
<1>15. ASSUME NEW r \in Runs, ReportUnanswered(r) PROVE OneActiveRunPerFeed'
  BY <1>15 DEF ReportUnanswered
<1>16. ASSUME NEW r \in Runs, Poll(r) PROVE OneActiveRunPerFeed'
  BY <1>16 DEF Poll, Handed
<1>17. ASSUME NEW r \in Runs, PollRefuses(r) PROVE OneActiveRunPerFeed'
  BY <1>17 DEF PollRefuses
<1>18. ASSUME NEW r \in Runs, StreamStores(r) PROVE OneActiveRunPerFeed'
  BY <1>18 DEF StreamStores
<1>19. ASSUME NEW r \in Runs, StreamSaves(r) PROVE OneActiveRunPerFeed'
  BY <1>19 DEF StreamSaves
<1>20. ASSUME NEW r \in Runs, StreamFails(r) PROVE OneActiveRunPerFeed'
  BY <1>20 DEF StreamFails
<1>21. ASSUME NEW r \in Runs, Complete(r) PROVE OneActiveRunPerFeed'
  BY <1>21 DEF Complete, Outcome, Booking
<1>22. ASSUME NEW r \in Runs, BookOnFeed(r) PROVE OneActiveRunPerFeed'
  BY <1>22 DEF BookOnFeed
<1>23. ASSUME NEW r \in Runs, CompleteFails(r) PROVE OneActiveRunPerFeed'
  BY <1>23 DEF CompleteFails
<1>24. ASSUME NEW S \in SUBSET Runs, Reap(S) PROVE OneActiveRunPerFeed'
  <2>1. PICK parent \in [Runs -> Runs \union {NoRun}] : Reaped(S, parent)
    BY <1>24, ReapEffect
  <2>2. QED
    BY <2>1 DEF Reaped
<1>25. CASE UNCHANGED vars
  BY <1>25 DEF vars
<1>26. QED
  BY <1>1, <1>2, <1>3, <1>4, <1>5, <1>6, <1>7, <1>8, <1>9, <1>10, <1>11,
     <1>12, <1>13, <1>14, <1>15, <1>16, <1>17, <1>18, <1>19, <1>20, <1>21,
     <1>22, <1>23, <1>24, <1>25
     DEF Next, FeedSteps, WorkerSteps, GatewaySteps

LEMMA StepQuiet == IInv /\ [Next]_vars => DeletedFeedIsQuiet'
<1> SUFFICES ASSUME IInv, [Next]_vars
             PROVE  DeletedFeedIsQuiet'
  OBVIOUS
<1> USE RunsAssumption DEF RunsAssumption, IInv, TypeOK, RunOK, DeletedFeedIsQuiet,
    Active, Terminal, Absent, ActiveRuns,
    feedVars, runVars, requestVars, workerVars, historyVars
<1>1. ASSUME NEW f \in Feeds, PickFeed(f) PROVE DeletedFeedIsQuiet'
  BY <1>1 DEF PickFeed
<1>2. ASSUME NEW f \in Feeds, CreateSyncRun(f) PROVE DeletedFeedIsQuiet'
  BY <1>2 DEF CreateSyncRun
<1>3. ASSUME NEW f \in Feeds, DeleteFeed(f) PROVE DeletedFeedIsQuiet'
  BY <1>3 DEF DeleteFeed
<1>4. ASSUME NEW f \in Feeds, CancelRuns(f) PROVE DeletedFeedIsQuiet'
  BY <1>4 DEF CancelRuns, Cancelled
<1>5. ASSUME NEW f \in Feeds, CancelConnect(f) PROVE DeletedFeedIsQuiet'
  BY <1>5 DEF CancelConnect, Cancelled
<1>6. ASSUME NEW r \in Runs, Start(r) PROVE DeletedFeedIsQuiet'
  BY <1>6 DEF Start
<1>7. ASSUME NEW r \in Runs, WorkerGone(r) PROVE DeletedFeedIsQuiet'
  BY <1>7 DEF WorkerGone
<1>8. ASSUME NEW r \in Runs, Emit(r) PROVE DeletedFeedIsQuiet'
  BY <1>8 DEF Emit
<1>9. ASSUME NEW r \in Runs, FlushBatch(r) PROVE DeletedFeedIsQuiet'
  BY <1>9 DEF FlushBatch
<1>10. ASSUME NEW r \in Runs, UpdateCheckpoint(r) PROVE DeletedFeedIsQuiet'
  BY <1>10 DEF UpdateCheckpoint
<1>11. ASSUME NEW r \in Runs, SyncReturns(r) PROVE DeletedFeedIsQuiet'
  BY <1>11 DEF SyncReturns
<1>12. ASSUME NEW r \in Runs, Report(r) PROVE DeletedFeedIsQuiet'
  BY <1>12 DEF Report
<1>13. ASSUME NEW r \in Runs, SyncThrows(r) PROVE DeletedFeedIsQuiet'
  BY <1>13 DEF SyncThrows
<1>14. ASSUME NEW r \in Runs, ReportAnswered(r) PROVE DeletedFeedIsQuiet'
  BY <1>14 DEF ReportAnswered
<1>15. ASSUME NEW r \in Runs, ReportUnanswered(r) PROVE DeletedFeedIsQuiet'
  BY <1>15 DEF ReportUnanswered
<1>16. ASSUME NEW r \in Runs, Poll(r) PROVE DeletedFeedIsQuiet'
  BY <1>16 DEF Poll, Handed
<1>17. ASSUME NEW r \in Runs, PollRefuses(r) PROVE DeletedFeedIsQuiet'
  BY <1>17 DEF PollRefuses
<1>18. ASSUME NEW r \in Runs, StreamStores(r) PROVE DeletedFeedIsQuiet'
  BY <1>18 DEF StreamStores
<1>19. ASSUME NEW r \in Runs, StreamSaves(r) PROVE DeletedFeedIsQuiet'
  BY <1>19 DEF StreamSaves
<1>20. ASSUME NEW r \in Runs, StreamFails(r) PROVE DeletedFeedIsQuiet'
  BY <1>20 DEF StreamFails
<1>21. ASSUME NEW r \in Runs, Complete(r) PROVE DeletedFeedIsQuiet'
  BY <1>21 DEF Complete, Outcome, Booking
<1>22. ASSUME NEW r \in Runs, BookOnFeed(r) PROVE DeletedFeedIsQuiet'
  BY <1>22 DEF BookOnFeed
<1>23. ASSUME NEW r \in Runs, CompleteFails(r) PROVE DeletedFeedIsQuiet'
  BY <1>23 DEF CompleteFails
<1>24. ASSUME NEW S \in SUBSET Runs, Reap(S) PROVE DeletedFeedIsQuiet'
  <2>1. PICK parent \in [Runs -> Runs \union {NoRun}] : Reaped(S, parent)
    BY <1>24, ReapEffect
  <2>2. raced \subseteq raced' /\ UNCHANGED <<deleted, deleting>>
    BY <1>24 DEF Reap
  <2>3. QED
    BY <2>1, <2>2 DEF Reaped
<1>25. CASE UNCHANGED vars
  BY <1>25 DEF vars
<1>26. QED
  BY <1>1, <1>2, <1>3, <1>4, <1>5, <1>6, <1>7, <1>8, <1>9, <1>10, <1>11,
     <1>12, <1>13, <1>14, <1>15, <1>16, <1>17, <1>18, <1>19, <1>20, <1>21,
     <1>22, <1>23, <1>24, <1>25
     DEF Next, FeedSteps, WorkerSteps, GatewaySteps

LEMMA StepRuns == IInv /\ [Next]_vars => \A q \in Runs : RunOK(q)'
<1> SUFFICES ASSUME IInv, [Next]_vars
             PROVE  \A q \in Runs : RunOK(q)'
  OBVIOUS
<1> USE RunsAssumption DEF RunsAssumption, IInv, TypeOK, RunOK, NothingIsSkipped, Kept, Batched,
    Active, Terminal, Absent, ActiveRuns,
    feedVars, runVars, requestVars, workerVars, historyVars
<1>1. ASSUME NEW f \in Feeds, PickFeed(f) PROVE \A q \in Runs : RunOK(q)'
  BY <1>1 DEF PickFeed
<1>2. ASSUME NEW f \in Feeds, CreateSyncRun(f) PROVE \A q \in Runs : RunOK(q)'
  <2>1. UNCHANGED <<stored, stream, close, workerVars, overtaken>>
    BY <1>2 DEF CreateSyncRun
  <2>2. \/ UNCHANGED <<status, feed>>
        \/ \E r \in Absent : /\ status' = [status EXCEPT ![r] = "pending"]
                            /\ feed' = [feed EXCEPT ![r] = f]
    BY <1>2 DEF CreateSyncRun
  <2>3. CASE UNCHANGED <<status, feed>>
    BY <2>1, <2>3
  <2>4. ASSUME NEW r \in Absent,
               status' = [status EXCEPT ![r] = "pending"],
               feed' = [feed EXCEPT ![r] = f]
        PROVE  \A q \in Runs : RunOK(q)'
    BY <2>1, <2>4
  <2>5. QED
    BY <2>2, <2>3, <2>4
<1>3. ASSUME NEW f \in Feeds, DeleteFeed(f) PROVE \A q \in Runs : RunOK(q)'
  BY <1>3 DEF DeleteFeed
<1>4. ASSUME NEW f \in Feeds, CancelRuns(f) PROVE \A q \in Runs : RunOK(q)'
  BY <1>4 DEF CancelRuns, Cancelled
<1>5. ASSUME NEW f \in Feeds, CancelConnect(f) PROVE \A q \in Runs : RunOK(q)'
  BY <1>5 DEF CancelConnect, Cancelled
<1>6. ASSUME NEW r \in Runs, Start(r) PROVE \A q \in Runs : RunOK(q)'
  BY <1>6 DEF Start
<1>7. ASSUME NEW r \in Runs, WorkerGone(r) PROVE \A q \in Runs : RunOK(q)'
  BY <1>7 DEF WorkerGone
<1>8. ASSUME NEW r \in Runs, Emit(r) PROVE \A q \in Runs : RunOK(q)'
  BY <1>8 DEF Emit
<1>9. ASSUME NEW r \in Runs, FlushBatch(r) PROVE \A q \in Runs : RunOK(q)'
  BY <1>9 DEF FlushBatch
<1>10. ASSUME NEW r \in Runs, UpdateCheckpoint(r) PROVE \A q \in Runs : RunOK(q)'
  BY <1>10 DEF UpdateCheckpoint
<1>11. ASSUME NEW r \in Runs, SyncReturns(r) PROVE \A q \in Runs : RunOK(q)'
  BY <1>11 DEF SyncReturns
<1>12. ASSUME NEW r \in Runs, Report(r) PROVE \A q \in Runs : RunOK(q)'
  BY <1>12 DEF Report
<1>13. ASSUME NEW r \in Runs, SyncThrows(r) PROVE \A q \in Runs : RunOK(q)'
  BY <1>13 DEF SyncThrows
<1>14. ASSUME NEW r \in Runs, ReportAnswered(r) PROVE \A q \in Runs : RunOK(q)'
  BY <1>14 DEF ReportAnswered
<1>15. ASSUME NEW r \in Runs, ReportUnanswered(r) PROVE \A q \in Runs : RunOK(q)'
  BY <1>15 DEF ReportUnanswered
<1>16. ASSUME NEW r \in Runs, Poll(r) PROVE \A q \in Runs : RunOK(q)'
  BY <1>16 DEF Poll, Handed
<1>17. ASSUME NEW r \in Runs, PollRefuses(r) PROVE \A q \in Runs : RunOK(q)'
  BY <1>17 DEF PollRefuses
<1>18. ASSUME NEW r \in Runs, StreamStores(r) PROVE \A q \in Runs : RunOK(q)'
  BY <1>18 DEF StreamStores
<1>19. ASSUME NEW r \in Runs, StreamSaves(r) PROVE \A q \in Runs : RunOK(q)'
  BY <1>19 DEF StreamSaves
<1>20. ASSUME NEW r \in Runs, StreamFails(r) PROVE \A q \in Runs : RunOK(q)'
  BY <1>20 DEF StreamFails
<1>21. ASSUME NEW r \in Runs, Complete(r) PROVE \A q \in Runs : RunOK(q)'
  BY <1>21 DEF Complete, Outcome, Booking
<1>22. ASSUME NEW r \in Runs, BookOnFeed(r) PROVE \A q \in Runs : RunOK(q)'
  BY <1>22 DEF BookOnFeed
<1>23. ASSUME NEW r \in Runs, CompleteFails(r) PROVE \A q \in Runs : RunOK(q)'
  BY <1>23 DEF CompleteFails
<1>24. ASSUME NEW S \in SUBSET Runs, Reap(S) PROVE \A q \in Runs : RunOK(q)'
  <2>1. PICK parent \in [Runs -> Runs \union {NoRun}] : Reaped(S, parent)
    BY <1>24, ReapEffect
  <2>2. UNCHANGED <<stored, overtaken, exec, stream, close, emitted, flushed, last>>
    BY <1>24 DEF Reap
  <2>3. QED
    BY <2>1, <2>2 DEF Reaped
<1>25. CASE UNCHANGED vars
  BY <1>25 DEF vars
<1>26. QED
  BY <1>1, <1>2, <1>3, <1>4, <1>5, <1>6, <1>7, <1>8, <1>9, <1>10, <1>11,
     <1>12, <1>13, <1>14, <1>15, <1>16, <1>17, <1>18, <1>19, <1>20, <1>21,
     <1>22, <1>23, <1>24, <1>25
     DEF Next, FeedSteps, WorkerSteps, GatewaySteps

LEMMA StepNothingSkipped == IInv /\ [Next]_vars => NothingIsSkipped'
<1> SUFFICES ASSUME IInv, [Next]_vars
             PROVE  NothingIsSkipped'
  OBVIOUS
<1> USE RunsAssumption DEF RunsAssumption, IInv, TypeOK, RunOK, NothingIsSkipped, Kept, Batched,
    Active, Terminal, Absent, ActiveRuns,
    feedVars, runVars, requestVars, workerVars, historyVars
<1>1. ASSUME NEW f \in Feeds, PickFeed(f) PROVE NothingIsSkipped'
  BY <1>1 DEF PickFeed
<1>2. ASSUME NEW f \in Feeds, CreateSyncRun(f) PROVE NothingIsSkipped'
  BY <1>2 DEF CreateSyncRun
<1>3. ASSUME NEW f \in Feeds, DeleteFeed(f) PROVE NothingIsSkipped'
  BY <1>3 DEF DeleteFeed
<1>4. ASSUME NEW f \in Feeds, CancelRuns(f) PROVE NothingIsSkipped'
  BY <1>4 DEF CancelRuns, Cancelled
<1>5. ASSUME NEW f \in Feeds, CancelConnect(f) PROVE NothingIsSkipped'
  BY <1>5 DEF CancelConnect, Cancelled
<1>6. ASSUME NEW r \in Runs, Start(r) PROVE NothingIsSkipped'
  BY <1>6 DEF Start
<1>7. ASSUME NEW r \in Runs, WorkerGone(r) PROVE NothingIsSkipped'
  BY <1>7 DEF WorkerGone
<1>8. ASSUME NEW r \in Runs, Emit(r) PROVE NothingIsSkipped'
  BY <1>8 DEF Emit
<1>9. ASSUME NEW r \in Runs, FlushBatch(r) PROVE NothingIsSkipped'
  BY <1>9 DEF FlushBatch
<1>10. ASSUME NEW r \in Runs, UpdateCheckpoint(r) PROVE NothingIsSkipped'
  BY <1>10 DEF UpdateCheckpoint
<1>11. ASSUME NEW r \in Runs, SyncReturns(r) PROVE NothingIsSkipped'
  BY <1>11 DEF SyncReturns
<1>12. ASSUME NEW r \in Runs, Report(r) PROVE NothingIsSkipped'
  BY <1>12 DEF Report
<1>13. ASSUME NEW r \in Runs, SyncThrows(r) PROVE NothingIsSkipped'
  BY <1>13 DEF SyncThrows
<1>14. ASSUME NEW r \in Runs, ReportAnswered(r) PROVE NothingIsSkipped'
  BY <1>14 DEF ReportAnswered
<1>15. ASSUME NEW r \in Runs, ReportUnanswered(r) PROVE NothingIsSkipped'
  BY <1>15 DEF ReportUnanswered
<1>16. ASSUME NEW r \in Runs, Poll(r) PROVE NothingIsSkipped'
  BY <1>16 DEF Poll, Handed
<1>17. ASSUME NEW r \in Runs, PollRefuses(r) PROVE NothingIsSkipped'
  BY <1>17 DEF PollRefuses
<1>18. ASSUME NEW r \in Runs, StreamStores(r) PROVE NothingIsSkipped'
  BY <1>18 DEF StreamStores
<1>19. ASSUME NEW r \in Runs, StreamSaves(r) PROVE NothingIsSkipped'
  BY <1>19 DEF StreamSaves
<1>20. ASSUME NEW r \in Runs, StreamFails(r) PROVE NothingIsSkipped'
  BY <1>20 DEF StreamFails
<1>21. ASSUME NEW r \in Runs, Complete(r) PROVE NothingIsSkipped'
  BY <1>21 DEF Complete, Outcome, Booking
<1>22. ASSUME NEW r \in Runs, BookOnFeed(r) PROVE NothingIsSkipped'
  BY <1>22 DEF BookOnFeed
<1>23. ASSUME NEW r \in Runs, CompleteFails(r) PROVE NothingIsSkipped'
  BY <1>23 DEF CompleteFails
<1>24. ASSUME NEW S \in SUBSET Runs, Reap(S) PROVE NothingIsSkipped'
  BY <1>24 DEF Reap
<1>25. CASE UNCHANGED vars
  BY <1>25 DEF vars
<1>26. QED
  BY <1>1, <1>2, <1>3, <1>4, <1>5, <1>6, <1>7, <1>8, <1>9, <1>10, <1>11,
     <1>12, <1>13, <1>14, <1>15, <1>16, <1>17, <1>18, <1>19, <1>20, <1>21,
     <1>22, <1>23, <1>24, <1>25
     DEF Next, FeedSteps, WorkerSteps, GatewaySteps

LEMMA StepAlone == IInv /\ [Next]_vars => \A g \in Feeds : Alone(g)'
<1> SUFFICES ASSUME IInv, [Next]_vars
             PROVE  \A g \in Feeds : Alone(g)'
  OBVIOUS
<1> USE RunsAssumption DEF RunsAssumption, IInv, TypeOK, RunOK, Alone, Busy, Kept, Batched,
    Active, Terminal, Absent, ActiveRuns,
    feedVars, runVars, requestVars, workerVars, historyVars
<1>1. ASSUME NEW f \in Feeds, PickFeed(f) PROVE \A g \in Feeds : Alone(g)'
  BY <1>1 DEF PickFeed
<1>2. ASSUME NEW f \in Feeds, CreateSyncRun(f) PROVE \A g \in Feeds : Alone(g)'
  BY <1>2 DEF CreateSyncRun
<1>3. ASSUME NEW f \in Feeds, DeleteFeed(f) PROVE \A g \in Feeds : Alone(g)'
  BY <1>3 DEF DeleteFeed
<1>4. ASSUME NEW f \in Feeds, CancelRuns(f) PROVE \A g \in Feeds : Alone(g)'
  BY <1>4 DEF CancelRuns, Cancelled
<1>5. ASSUME NEW f \in Feeds, CancelConnect(f) PROVE \A g \in Feeds : Alone(g)'
  BY <1>5 DEF CancelConnect, Cancelled
<1>6. ASSUME NEW r \in Runs, Start(r) PROVE \A g \in Feeds : Alone(g)'
  BY <1>6 DEF Start
<1>7. ASSUME NEW r \in Runs, WorkerGone(r) PROVE \A g \in Feeds : Alone(g)'
  BY <1>7 DEF WorkerGone
<1>8. ASSUME NEW r \in Runs, Emit(r) PROVE \A g \in Feeds : Alone(g)'
  BY <1>8 DEF Emit
<1>9. ASSUME NEW r \in Runs, FlushBatch(r) PROVE \A g \in Feeds : Alone(g)'
  BY <1>9 DEF FlushBatch
<1>10. ASSUME NEW r \in Runs, UpdateCheckpoint(r) PROVE \A g \in Feeds : Alone(g)'
  BY <1>10 DEF UpdateCheckpoint
<1>11. ASSUME NEW r \in Runs, SyncReturns(r) PROVE \A g \in Feeds : Alone(g)'
  BY <1>11 DEF SyncReturns
<1>12. ASSUME NEW r \in Runs, Report(r) PROVE \A g \in Feeds : Alone(g)'
  BY <1>12 DEF Report
<1>13. ASSUME NEW r \in Runs, SyncThrows(r) PROVE \A g \in Feeds : Alone(g)'
  BY <1>13 DEF SyncThrows
<1>14. ASSUME NEW r \in Runs, ReportAnswered(r) PROVE \A g \in Feeds : Alone(g)'
  BY <1>14 DEF ReportAnswered
<1>15. ASSUME NEW r \in Runs, ReportUnanswered(r) PROVE \A g \in Feeds : Alone(g)'
  BY <1>15 DEF ReportUnanswered
<1>16. ASSUME NEW r \in Runs, Poll(r) PROVE \A g \in Feeds : Alone(g)'
  BY <1>16 DEF Poll, Handed
<1>17. ASSUME NEW r \in Runs, PollRefuses(r) PROVE \A g \in Feeds : Alone(g)'
  BY <1>17 DEF PollRefuses
<1>18. ASSUME NEW r \in Runs, StreamStores(r) PROVE \A g \in Feeds : Alone(g)'
  BY <1>18 DEF StreamStores
<1>19. ASSUME NEW r \in Runs, StreamSaves(r) PROVE \A g \in Feeds : Alone(g)'
  BY <1>19 DEF StreamSaves
<1>20. ASSUME NEW r \in Runs, StreamFails(r) PROVE \A g \in Feeds : Alone(g)'
  BY <1>20 DEF StreamFails
<1>21. ASSUME NEW r \in Runs, Complete(r) PROVE \A g \in Feeds : Alone(g)'
  BY <1>21 DEF Complete, Outcome, Booking
<1>22. ASSUME NEW r \in Runs, BookOnFeed(r) PROVE \A g \in Feeds : Alone(g)'
  BY <1>22 DEF BookOnFeed
<1>23. ASSUME NEW r \in Runs, CompleteFails(r) PROVE \A g \in Feeds : Alone(g)'
  BY <1>23 DEF CompleteFails
<1>24. ASSUME NEW S \in SUBSET Runs, Reap(S) PROVE \A g \in Feeds : Alone(g)'
  <2>1. PICK parent \in [Runs -> Runs \union {NoRun}] : Reaped(S, parent)
    BY <1>24, ReapEffect
  <2>2. UNCHANGED <<checkpoint, overlapped, exec, stream, close, last>>
    BY <1>24 DEF Reap
  <2>3. QED
    BY <2>1, <2>2 DEF Reaped
<1>25. CASE UNCHANGED vars
  BY <1>25 DEF vars
<1>26. QED
  BY <1>1, <1>2, <1>3, <1>4, <1>5, <1>6, <1>7, <1>8, <1>9, <1>10, <1>11,
     <1>12, <1>13, <1>14, <1>15, <1>16, <1>17, <1>18, <1>19, <1>20, <1>21,
     <1>22, <1>23, <1>24, <1>25
     DEF Next, FeedSteps, WorkerSteps, GatewaySteps

LEMMA StepDecided == IInv /\ [Next]_vars => \A q \in Runs : status[q] \in Terminal /\ status'[q] # status[q] =>
              PollRefuses(q)
<1> SUFFICES ASSUME IInv, [Next]_vars
             PROVE  \A q \in Runs : status[q] \in Terminal /\ status'[q] # status[q] =>
              PollRefuses(q)
  OBVIOUS
<1> USE RunsAssumption DEF RunsAssumption, IInv, TypeOK, RunOK,
    Active, Terminal, Absent, ActiveRuns,
    feedVars, runVars, requestVars, workerVars, historyVars
<1>1. ASSUME NEW f \in Feeds, PickFeed(f) PROVE \A q \in Runs : status[q] \in Terminal /\ status'[q] # status[q] =>
              PollRefuses(q)
  BY <1>1 DEF PickFeed
<1>2. ASSUME NEW f \in Feeds, CreateSyncRun(f) PROVE \A q \in Runs : status[q] \in Terminal /\ status'[q] # status[q] =>
              PollRefuses(q)
  BY <1>2 DEF CreateSyncRun
<1>3. ASSUME NEW f \in Feeds, DeleteFeed(f) PROVE \A q \in Runs : status[q] \in Terminal /\ status'[q] # status[q] =>
              PollRefuses(q)
  BY <1>3 DEF DeleteFeed
<1>4. ASSUME NEW f \in Feeds, CancelRuns(f) PROVE \A q \in Runs : status[q] \in Terminal /\ status'[q] # status[q] =>
              PollRefuses(q)
  BY <1>4 DEF CancelRuns, Cancelled
<1>5. ASSUME NEW f \in Feeds, CancelConnect(f) PROVE \A q \in Runs : status[q] \in Terminal /\ status'[q] # status[q] =>
              PollRefuses(q)
  BY <1>5 DEF CancelConnect, Cancelled
<1>6. ASSUME NEW r \in Runs, Start(r) PROVE \A q \in Runs : status[q] \in Terminal /\ status'[q] # status[q] =>
              PollRefuses(q)
  BY <1>6 DEF Start
<1>7. ASSUME NEW r \in Runs, WorkerGone(r) PROVE \A q \in Runs : status[q] \in Terminal /\ status'[q] # status[q] =>
              PollRefuses(q)
  BY <1>7 DEF WorkerGone
<1>8. ASSUME NEW r \in Runs, Emit(r) PROVE \A q \in Runs : status[q] \in Terminal /\ status'[q] # status[q] =>
              PollRefuses(q)
  BY <1>8 DEF Emit
<1>9. ASSUME NEW r \in Runs, FlushBatch(r) PROVE \A q \in Runs : status[q] \in Terminal /\ status'[q] # status[q] =>
              PollRefuses(q)
  BY <1>9 DEF FlushBatch
<1>10. ASSUME NEW r \in Runs, UpdateCheckpoint(r) PROVE \A q \in Runs : status[q] \in Terminal /\ status'[q] # status[q] =>
              PollRefuses(q)
  BY <1>10 DEF UpdateCheckpoint
<1>11. ASSUME NEW r \in Runs, SyncReturns(r) PROVE \A q \in Runs : status[q] \in Terminal /\ status'[q] # status[q] =>
              PollRefuses(q)
  BY <1>11 DEF SyncReturns
<1>12. ASSUME NEW r \in Runs, Report(r) PROVE \A q \in Runs : status[q] \in Terminal /\ status'[q] # status[q] =>
              PollRefuses(q)
  BY <1>12 DEF Report
<1>13. ASSUME NEW r \in Runs, SyncThrows(r) PROVE \A q \in Runs : status[q] \in Terminal /\ status'[q] # status[q] =>
              PollRefuses(q)
  BY <1>13 DEF SyncThrows
<1>14. ASSUME NEW r \in Runs, ReportAnswered(r) PROVE \A q \in Runs : status[q] \in Terminal /\ status'[q] # status[q] =>
              PollRefuses(q)
  BY <1>14 DEF ReportAnswered
<1>15. ASSUME NEW r \in Runs, ReportUnanswered(r) PROVE \A q \in Runs : status[q] \in Terminal /\ status'[q] # status[q] =>
              PollRefuses(q)
  BY <1>15 DEF ReportUnanswered
<1>16. ASSUME NEW r \in Runs, Poll(r) PROVE \A q \in Runs : status[q] \in Terminal /\ status'[q] # status[q] =>
              PollRefuses(q)
  BY <1>16 DEF Poll, Handed
<1>17. ASSUME NEW r \in Runs, PollRefuses(r) PROVE \A q \in Runs : status[q] \in Terminal /\ status'[q] # status[q] =>
              PollRefuses(q)
  BY <1>17 DEF PollRefuses
<1>18. ASSUME NEW r \in Runs, StreamStores(r) PROVE \A q \in Runs : status[q] \in Terminal /\ status'[q] # status[q] =>
              PollRefuses(q)
  BY <1>18 DEF StreamStores
<1>19. ASSUME NEW r \in Runs, StreamSaves(r) PROVE \A q \in Runs : status[q] \in Terminal /\ status'[q] # status[q] =>
              PollRefuses(q)
  BY <1>19 DEF StreamSaves
<1>20. ASSUME NEW r \in Runs, StreamFails(r) PROVE \A q \in Runs : status[q] \in Terminal /\ status'[q] # status[q] =>
              PollRefuses(q)
  BY <1>20 DEF StreamFails
<1>21. ASSUME NEW r \in Runs, Complete(r) PROVE \A q \in Runs : status[q] \in Terminal /\ status'[q] # status[q] =>
              PollRefuses(q)
  BY <1>21 DEF Complete, Outcome, Booking
<1>22. ASSUME NEW r \in Runs, BookOnFeed(r) PROVE \A q \in Runs : status[q] \in Terminal /\ status'[q] # status[q] =>
              PollRefuses(q)
  BY <1>22 DEF BookOnFeed
<1>23. ASSUME NEW r \in Runs, CompleteFails(r) PROVE \A q \in Runs : status[q] \in Terminal /\ status'[q] # status[q] =>
              PollRefuses(q)
  BY <1>23 DEF CompleteFails
<1>24. ASSUME NEW S \in SUBSET Runs, Reap(S) PROVE \A q \in Runs : status[q] \in Terminal /\ status'[q] # status[q] =>
              PollRefuses(q)
  <2>1. PICK parent \in [Runs -> Runs \union {NoRun}] : Reaped(S, parent)
    BY <1>24, ReapEffect
  <2>2. QED
    BY <2>1 DEF Reaped
<1>25. CASE UNCHANGED vars
  BY <1>25 DEF vars
<1>26. QED
  BY <1>1, <1>2, <1>3, <1>4, <1>5, <1>6, <1>7, <1>8, <1>9, <1>10, <1>11,
     <1>12, <1>13, <1>14, <1>15, <1>16, <1>17, <1>18, <1>19, <1>20, <1>21,
     <1>22, <1>23, <1>24, <1>25
     DEF Next, FeedSteps, WorkerSteps, GatewaySteps

LEMMA StepForward == IInv /\ [Next]_vars => \A g \in Feeds \ overlapped : checkpoint'[g] >= checkpoint[g]
<1> SUFFICES ASSUME IInv, [Next]_vars
             PROVE  \A g \in Feeds \ overlapped : checkpoint'[g] >= checkpoint[g]
  OBVIOUS
<1> USE RunsAssumption DEF RunsAssumption, IInv, TypeOK, RunOK, Alone, Busy,
    Active, Terminal, Absent, ActiveRuns,
    feedVars, runVars, requestVars, workerVars, historyVars
<1>1. ASSUME NEW f \in Feeds, PickFeed(f) PROVE \A g \in Feeds \ overlapped : checkpoint'[g] >= checkpoint[g]
  BY <1>1 DEF PickFeed
<1>2. ASSUME NEW f \in Feeds, CreateSyncRun(f) PROVE \A g \in Feeds \ overlapped : checkpoint'[g] >= checkpoint[g]
  BY <1>2 DEF CreateSyncRun
<1>3. ASSUME NEW f \in Feeds, DeleteFeed(f) PROVE \A g \in Feeds \ overlapped : checkpoint'[g] >= checkpoint[g]
  BY <1>3 DEF DeleteFeed
<1>4. ASSUME NEW f \in Feeds, CancelRuns(f) PROVE \A g \in Feeds \ overlapped : checkpoint'[g] >= checkpoint[g]
  BY <1>4 DEF CancelRuns, Cancelled
<1>5. ASSUME NEW f \in Feeds, CancelConnect(f) PROVE \A g \in Feeds \ overlapped : checkpoint'[g] >= checkpoint[g]
  BY <1>5 DEF CancelConnect, Cancelled
<1>6. ASSUME NEW r \in Runs, Start(r) PROVE \A g \in Feeds \ overlapped : checkpoint'[g] >= checkpoint[g]
  BY <1>6 DEF Start
<1>7. ASSUME NEW r \in Runs, WorkerGone(r) PROVE \A g \in Feeds \ overlapped : checkpoint'[g] >= checkpoint[g]
  BY <1>7 DEF WorkerGone
<1>8. ASSUME NEW r \in Runs, Emit(r) PROVE \A g \in Feeds \ overlapped : checkpoint'[g] >= checkpoint[g]
  BY <1>8 DEF Emit
<1>9. ASSUME NEW r \in Runs, FlushBatch(r) PROVE \A g \in Feeds \ overlapped : checkpoint'[g] >= checkpoint[g]
  BY <1>9 DEF FlushBatch
<1>10. ASSUME NEW r \in Runs, UpdateCheckpoint(r) PROVE \A g \in Feeds \ overlapped : checkpoint'[g] >= checkpoint[g]
  BY <1>10 DEF UpdateCheckpoint
<1>11. ASSUME NEW r \in Runs, SyncReturns(r) PROVE \A g \in Feeds \ overlapped : checkpoint'[g] >= checkpoint[g]
  BY <1>11 DEF SyncReturns
<1>12. ASSUME NEW r \in Runs, Report(r) PROVE \A g \in Feeds \ overlapped : checkpoint'[g] >= checkpoint[g]
  BY <1>12 DEF Report
<1>13. ASSUME NEW r \in Runs, SyncThrows(r) PROVE \A g \in Feeds \ overlapped : checkpoint'[g] >= checkpoint[g]
  BY <1>13 DEF SyncThrows
<1>14. ASSUME NEW r \in Runs, ReportAnswered(r) PROVE \A g \in Feeds \ overlapped : checkpoint'[g] >= checkpoint[g]
  BY <1>14 DEF ReportAnswered
<1>15. ASSUME NEW r \in Runs, ReportUnanswered(r) PROVE \A g \in Feeds \ overlapped : checkpoint'[g] >= checkpoint[g]
  BY <1>15 DEF ReportUnanswered
<1>16. ASSUME NEW r \in Runs, Poll(r) PROVE \A g \in Feeds \ overlapped : checkpoint'[g] >= checkpoint[g]
  BY <1>16 DEF Poll, Handed
<1>17. ASSUME NEW r \in Runs, PollRefuses(r) PROVE \A g \in Feeds \ overlapped : checkpoint'[g] >= checkpoint[g]
  BY <1>17 DEF PollRefuses
<1>18. ASSUME NEW r \in Runs, StreamStores(r) PROVE \A g \in Feeds \ overlapped : checkpoint'[g] >= checkpoint[g]
  BY <1>18 DEF StreamStores
<1>19. ASSUME NEW r \in Runs, StreamSaves(r) PROVE \A g \in Feeds \ overlapped : checkpoint'[g] >= checkpoint[g]
  BY <1>19 DEF StreamSaves
<1>20. ASSUME NEW r \in Runs, StreamFails(r) PROVE \A g \in Feeds \ overlapped : checkpoint'[g] >= checkpoint[g]
  BY <1>20 DEF StreamFails
<1>21. ASSUME NEW r \in Runs, Complete(r) PROVE \A g \in Feeds \ overlapped : checkpoint'[g] >= checkpoint[g]
  BY <1>21 DEF Complete, Outcome, Booking
<1>22. ASSUME NEW r \in Runs, BookOnFeed(r) PROVE \A g \in Feeds \ overlapped : checkpoint'[g] >= checkpoint[g]
  BY <1>22 DEF BookOnFeed
<1>23. ASSUME NEW r \in Runs, CompleteFails(r) PROVE \A g \in Feeds \ overlapped : checkpoint'[g] >= checkpoint[g]
  BY <1>23 DEF CompleteFails
<1>24. ASSUME NEW S \in SUBSET Runs, Reap(S) PROVE \A g \in Feeds \ overlapped : checkpoint'[g] >= checkpoint[g]
  BY <1>24 DEF Reap
<1>25. CASE UNCHANGED vars
  BY <1>25 DEF vars
<1>26. QED
  BY <1>1, <1>2, <1>3, <1>4, <1>5, <1>6, <1>7, <1>8, <1>9, <1>10, <1>11,
     <1>12, <1>13, <1>14, <1>15, <1>16, <1>17, <1>18, <1>19, <1>20, <1>21,
     <1>22, <1>23, <1>24, <1>25
     DEF Next, FeedSteps, WorkerSteps, GatewaySteps

LEMMA IInvHolds == Spec => []IInv
<1>1. IInv /\ [Next]_vars => IInv'
  BY StepTypeOK, StepOneActive, StepQuiet, StepRuns, StepNothingSkipped,
     StepAlone DEF IInv
<1>2. QED
  BY InitIInv, <1>1, PTL DEF Spec

-----------------------------------------------------------------------------
(* Theorems                                                                *)

(* Every variable keeps its type; a row has a feed exactly when it was     *)
(* inserted (queue-helpers.ts createSyncRunWithClient, reapStaleRuns).     *)
THEOREM TypeCorrect == Spec => []TypeOK
<1>1. IInv => TypeOK
  BY DEF IInv
<1>2. QED
  BY IInvHolds, <1>1, PTL

(* Scheduler, user and reaper never give a feed two active runs            *)
(* (queue-helpers.ts createSyncRunWithClient, reapStaleRuns).              *)
THEOREM OneActiveRun == Spec => []OneActiveRunPerFeed
<1>1. IInv => OneActiveRunPerFeed
  BY DEF IInv
<1>2. QED
  BY IInvHolds, <1>1, PTL

(* What is behind a feed's checkpoint is stored, or was in a batch that    *)
(* updateCheckpoint overtook (executor.ts, run-lifecycle.ts).              *)
THEOREM NoItemSkipped == Spec => []NothingIsSkipped
<1>1. IInv => NothingIsSkipped
  BY DEF IInv
<1>2. QED
  BY IInvHolds, <1>1, PTL

(* A deleted feed has no active runs but those that raced its deletion     *)
(* (manage_feeds.ts handleDeleteFeed).                                     *)
THEOREM DeletedStaysQuiet == Spec => []DeletedFeedIsQuiet
<1>1. IInv => DeletedFeedIsQuiet
  BY DEF IInv
<1>2. QED
  BY IInvHolds, <1>1, PTL

(* Once decided, a run is changed by the poll that refuses it alone        *)
(* (run-lifecycle.ts completeWorkerJob, poll.ts).                          *)
THEOREM DecisionsStay == Spec => DecidedRunsStay
<1>1. IInv /\ [Next]_vars =>
        [\A r \in Runs : status[r] \in Terminal /\ status'[r] # status[r] =>
           PollRefuses(r)]_vars
  BY StepDecided
<1>2. QED
  BY IInvHolds, <1>1, PTL DEF Spec, DecidedRunsStay

(* Without overlapping runs a checkpoint never goes back (run-lifecycle.ts *)
(* streamContent, completeWorkerJob).                                      *)
THEOREM CheckpointsGrow == Spec => OnlyOverlapsRewind
<1>1. IInv /\ [Next]_vars =>
        [\A f \in Feeds \ overlapped : checkpoint'[f] >= checkpoint[f]]_vars
  BY StepForward
<1>2. QED
  BY IInvHolds, <1>1, PTL DEF Spec, OnlyOverlapsRewind
=============================================================================
