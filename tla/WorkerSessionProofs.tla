------------------------- MODULE WorkerSessionProofs ------------------------
(***************************************************************************)
(* What holds of WorkerSession for any number of jobs, connections and     *)
(* attempts.                                                               *)
(***************************************************************************)
EXTENDS WorkerSession, TLAPS

LOCAL INSTANCE SequenceTheorems
LOCAL INSTANCE WellFoundedInduction

-----------------------------------------------------------------------------
(* The inductive invariant                                                 *)

(* A claimed job has one handler, and it has an attempt left as long as it *)
(* is not settled.                                                         *)
JobsOK ==
    /\ \A w \in Conns : busy[w] # NoJob => row[busy[w]] = "claimed"
    /\ \A w, x \in Conns : busy[w] = busy[x] /\ busy[w] # NoJob => w = x
    /\ \A j \in Jobs :
          row[j] \in {"absent", "queued", "claimed"} => tries[j] < MaxAttempts

(* A receipt is that of a message that was read.                           *)
ReceiptsOK == receipts \subseteq received /\ CompletedWasReceived

(* How far the handlers are. The stream that is read is never aborted, and *)
(* its entry is replaced by nothing that does not end it; when it is open, *)
(* the worker in the map runs, or a handler is about to resume it.         *)
HandlersOK ==
    /\ reading # NoConn => stage[reading] # "none" /\ reading \notin aborted
    /\ \A c \in Conns : stage[c] = "none" => c \notin aborted
    /\ \A c \in Conns : stage[c] = "ended" => c \in aborted
    /\ \A c \in Conns : stage[c] = "resuming" => cur # NoConn
    /\ reading \notin ended \union {NoConn} /\ ~stale /\ stage[reading] # "pausing"
          => conn = reading
    /\ reading \notin ended \union {NoConn} /\ ~stale /\ stage[reading] = "open"
          => /\ cur # NoConn
             /\ worker[cur] = "live" \/ \E c \in Conns : stage[c] = "resuming"

(* A worker that is neither in the map nor lost does not run, and the one  *)
(* in the map is paused when the connection goes.                          *)
WorkersOK ==
    /\ \A w \in Conns \ leaked : w # cur => worker[w] \in {"none", "stopped"}
    /\ conn = NoConn /\ ~late /\ ~stale /\ cur # NoConn => worker[cur] # "live"

(* A batch is handed out while isProcessing is set, and then no timer is.  *)
BatchOK ==
    /\ processing <=> batch # <<>>
    /\ timer => ~processing
    /\ NothingHeldIsForgotten

IInv ==
    /\ TypeOK
    /\ JobsOK
    /\ ReceiptsOK
    /\ HandlersOK
    /\ WorkersOK
    /\ BatchOK

LEMMA InitIInv == Init => IInv
<1> SUFFICES ASSUME Init PROVE IInv
  OBVIOUS
<1>1. TypeOK
  <2>1. LinkTypeOK
    BY DEF Init, LinkInit, LinkTypeOK
  <2>2. GatewayTypeOK
    <3>1. late \in BOOLEAN /\ stale \in BOOLEAN
      BY Zenon DEF Init, GatewayInit
    <3>2. tries \in [Jobs -> 0..MaxAttempts] /\ stage \in [Conns -> Stages]
      BY GatewayAssumption DEF Init, GatewayInit, Stages, GatewayAssumption
    <3>3. QED
      BY <3>1, <3>2 DEF Init, GatewayInit, GatewayTypeOK
  <2>3. ClientTypeOK
    <3>1. timer \in BOOLEAN /\ processing \in BOOLEAN /\ initial \in BOOLEAN
      BY Zenon DEF Init, ClientInit
    <3>2. QED
      BY <3>1 DEF Init, ClientInit, ClientTypeOK
  <2>4. QED
    BY <2>1, <2>2, <2>3 DEF TypeOK
<1>2. JobsOK /\ ReceiptsOK /\ HandlersOK /\ WorkersOK
  BY GatewayAssumption
     DEF Init, LinkInit, GatewayInit, ClientInit, JobsOK, ReceiptsOK,
         CompletedWasReceived, HandlersOK, WorkersOK, GatewayAssumption
<1>3. BatchOK
  BY DEF Init, ClientInit, BatchOK, NothingHeldIsForgotten
<1>4. QED
  BY <1>1, <1>2, <1>3 DEF IInv

-----------------------------------------------------------------------------
(* Sequences of messages                                                   *)

LEMMA ElementsAppend ==
    ASSUME NEW q \in Seq(Jobs), NEW j \in Jobs
    PROVE  /\ Append(q, j) \in Seq(Jobs) /\ Append(q, j) # <<>>
           /\ Elements(q) \union {j} \subseteq Elements(Append(q, j))
<1>1. /\ Append(q, j) \in Seq(Jobs) /\ Append(q, j) # <<>>
      /\ Len(Append(q, j)) = Len(q) + 1
      /\ \A i \in 1..Len(q) : Append(q, j)[i] = q[i]
      /\ Append(q, j)[Len(q) + 1] = j
  BY AppendProperties
<1>2. Len(q) \in Nat /\ DOMAIN q = 1..Len(q)
  OBVIOUS
<1>3. DOMAIN Append(q, j) = 1..(Len(q) + 1)
  BY <1>1
<1>4. ASSUME NEW i \in 1..Len(q) PROVE q[i] \in Elements(Append(q, j))
  <2>1. i \in DOMAIN Append(q, j) /\ Append(q, j)[i] = q[i]
    BY <1>1, <1>2, <1>3
  <2>2. QED
    BY <2>1 DEF Elements
<1>5. j \in Elements(Append(q, j))
  <2>1. Len(q) + 1 \in DOMAIN Append(q, j)
    BY <1>2, <1>3
  <2>2. QED
    BY <1>1, <2>1 DEF Elements
<1>6. QED
  BY <1>1, <1>2, <1>4, <1>5 DEF Elements

(* There is a first group: the messages before the first one that is not   *)
(* followed by one of the same identity as the batch's first.              *)
LEMMA GroupLengthExists ==
    ASSUME NEW b \in Seq(Jobs), b # <<>>
    PROVE  GroupLength(b) \in 1..Len(b)
<1> DEFINE Ends(n) == n < Len(b) => Identity[b[n + 1]] # Identity[b[1]]
           T == {n \in 1..Len(b) : Ends(n)}
<1>1. Len(b) \in Nat /\ Len(b) >= 1
  OBVIOUS
<1>2. T \subseteq Nat /\ T # {}
  <2>1. Len(b) \in T
    BY <1>1
  <2>2. QED
    BY <1>1, <2>1
<1>3. PICK n \in T : \A m \in T : ~(<<m, n>> \in OpToRel(<, Nat))
  <2> HIDE DEF T
  <2>1. QED
    BY <1>2, WFMin, NatLessThanWellFounded, Zenon
<1>4. \A m \in T : ~(m < n)
  BY <1>2, <1>3 DEF OpToRel
<1>5. n \in 1..Len(b) /\ Ends(n)
  OBVIOUS
<1>6. ASSUME NEW i \in 1..n PROVE Identity[b[i]] = Identity[b[1]]
  <2>1. CASE i = 1
    BY <2>1
  <2>2. CASE i # 1
    <3>1. i - 1 \in 1..Len(b) /\ i - 1 < n /\ (i - 1) + 1 = i
      BY <1>1, <1>5, <2>2
    <3>2. ~Ends(i - 1)
      BY <1>4, <3>1
    <3>3. QED
      BY <3>1, <3>2
  <2>3. QED
    BY <2>1, <2>2
<1>7. \E k \in 1..Len(b) :
          /\ \A i \in 1..k : Identity[b[i]] = Identity[b[1]]
          /\ k < Len(b) => Identity[b[k + 1]] # Identity[b[1]]
  BY <1>5, <1>6
<1>8. QED
  BY <1>7 DEF GroupLength

(* A batch is its first group and the rest.                                *)
LEMMA GroupSplit ==
    ASSUME NEW b \in Seq(Jobs), b # <<>>
    PROVE  /\ Group(b) \in Seq(Jobs) /\ AfterGroup(b) \in Seq(Jobs)
           /\ Elements(b) \subseteq Elements(Group(b)) \union Elements(AfterGroup(b))
           /\ Elements(Group(b)) \subseteq Jobs
           /\ Elements(AfterGroup(b)) \subseteq Jobs
<1> DEFINE n == GroupLength(b)
<1>1. n \in 1..Len(b) /\ Len(b) \in Nat
  BY GroupLengthExists
<1>2. \A i \in 1..Len(b) : b[i] \in Jobs
  OBVIOUS
<1> HIDE DEF n
<1>3. /\ SubSeq(b, 1, n) \in Seq(Jobs) /\ Len(SubSeq(b, 1, n)) = n
      /\ \A i \in 1..n : SubSeq(b, 1, n)[i] = b[i]
  <2>1. 1 \in Int /\ n \in Int /\ \A i \in 1..n : b[i] \in Jobs
    BY <1>1, <1>2
  <2>2. /\ SubSeq(b, 1, n) \in Seq(Jobs)
        /\ Len(SubSeq(b, 1, n)) = IF 1 <= n THEN n - 1 + 1 ELSE 0
        /\ \A i \in 1..n - 1 + 1 : SubSeq(b, 1, n)[i] = b[1 + i - 1]
    BY <2>1, SubSeqProperties
  <2>3. QED
    BY <1>1, <2>2
<1>4. /\ SubSeq(b, n + 1, Len(b)) \in Seq(Jobs)
      /\ Len(SubSeq(b, n + 1, Len(b))) = Len(b) - n
      /\ \A i \in 1..Len(b) - n : SubSeq(b, n + 1, Len(b))[i] = b[n + i]
  <2>1. n + 1 \in Int /\ Len(b) \in Int /\ \A i \in n + 1..Len(b) : b[i] \in Jobs
    BY <1>1, <1>2
  <2>2. /\ SubSeq(b, n + 1, Len(b)) \in Seq(Jobs)
        /\ Len(SubSeq(b, n + 1, Len(b))) =
               IF n + 1 <= Len(b) THEN Len(b) - (n + 1) + 1 ELSE 0
        /\ \A i \in 1..Len(b) - (n + 1) + 1 :
               SubSeq(b, n + 1, Len(b))[i] = b[n + 1 + i - 1]
    BY <2>1, SubSeqProperties
  <2>3. QED
    BY <1>1, <2>2
<1>5. ASSUME NEW i \in 1..Len(b)
      PROVE  \/ b[i] \in Elements(SubSeq(b, 1, n))
             \/ b[i] \in Elements(SubSeq(b, n + 1, Len(b)))
  <2>1. CASE i <= n
    <3>1. i \in DOMAIN SubSeq(b, 1, n) /\ SubSeq(b, 1, n)[i] = b[i]
      BY <1>1, <1>3, <2>1
    <3>2. QED
      BY <3>1 DEF Elements
  <2>2. CASE i > n
    <3>1. /\ i - n \in DOMAIN SubSeq(b, n + 1, Len(b))
          /\ SubSeq(b, n + 1, Len(b))[i - n] = b[i]
      <4>1. i - n \in 1..Len(b) - n /\ n + (i - n) = i
        BY <1>1, <2>2
      <4>2. DOMAIN SubSeq(b, n + 1, Len(b)) = 1..Len(b) - n
        BY <1>1, <1>4
      <4>3. QED
        BY <1>4, <4>1, <4>2
    <3>2. QED
      BY <3>1 DEF Elements
  <2>3. QED
    BY <1>1, <2>1, <2>2
<1>6. Group(b) = SubSeq(b, 1, n) /\ AfterGroup(b) = SubSeq(b, n + 1, Len(b))
  BY DEF Group, AfterGroup, n
<1>7. ASSUME NEW q \in Seq(Jobs) PROVE Elements(q) \subseteq Jobs
  BY DEF Elements
<1>8. Elements(b) \subseteq Elements(Group(b)) \union Elements(AfterGroup(b))
  <2> SUFFICES ASSUME NEW x \in Elements(b)
               PROVE  x \in Elements(Group(b)) \union Elements(AfterGroup(b))
    OBVIOUS
  <2>1. PICK i \in DOMAIN b : x = b[i]
    BY DEF Elements
  <2>2. i \in 1..Len(b)
    BY <2>1
  <2>3. QED
    BY <1>5, <1>6, <2>1, <2>2
<1>9. QED
  BY <1>3, <1>4, <1>6, <1>7, <1>8

-----------------------------------------------------------------------------
(* Jobs and receipts                                                       *)

(* An attempt that throws leaves its job with attempts, or settles it.     *)
LEMMA ThrowEffect ==
    ASSUME GatewayTypeOK, JobsOK, NEW w \in Conns, busy[w] # NoJob, Throw(w)
    PROVE  /\ row' \in [Jobs -> {"absent", "queued", "claimed", "completed", "failed"}]
           /\ tries' \in [Jobs -> 0..MaxAttempts]
           /\ busy' \in [Conns -> Jobs \union {NoJob}]
           /\ pending' \subseteq Jobs
           /\ JobsOK'
           /\ \A j \in Jobs : row'[j] = "completed" => row[j] = "completed"
<1> DEFINE j == busy[w]
<1>1. /\ j \in Jobs /\ row[j] = "claimed" /\ tries[j] < MaxAttempts
      /\ tries[j] \in Nat /\ MaxAttempts \in Nat
  BY GatewayAssumption DEF GatewayTypeOK, JobsOK, GatewayAssumption
<1>2. /\ tries' = [tries EXCEPT ![j] = tries[j] + 1]
      /\ row' = [row EXCEPT ![j] = IF tries[j] + 1 < MaxAttempts THEN "queued"
                                   ELSE "failed"]
      /\ busy' = [busy EXCEPT ![w] = NoJob]
      /\ pending' = pending \ {j}
  BY DEF Throw
<1>3. j # NoJob /\ \A x \in Conns : busy[x] = j => x = w
  BY DEF JobsOK
<1> HIDE DEF j
<1>4. /\ row' \in [Jobs -> {"absent", "queued", "claimed", "completed", "failed"}]
      /\ \A k \in Jobs : row'[k] = "completed" => row[k] = "completed"
  BY <1>1, <1>2 DEF GatewayTypeOK
<1>5. tries' \in [Jobs -> 0..MaxAttempts]
  BY <1>1, <1>2 DEF GatewayTypeOK
<1>6. busy' \in [Conns -> Jobs \union {NoJob}] /\ pending' \subseteq Jobs
  BY <1>1, <1>2 DEF GatewayTypeOK
<1>7. \A x \in Conns : busy'[x] # NoJob => /\ busy'[x] = busy[x] /\ x # w
                                           /\ busy[x] # j /\ row'[busy[x]] = row[busy[x]]
  BY <1>1, <1>2, <1>3 DEF GatewayTypeOK
<1>8. \A k \in Jobs :
          row'[k] \in {"absent", "queued", "claimed"} => tries'[k] < MaxAttempts
  <2> SUFFICES ASSUME NEW k \in Jobs, row'[k] \in {"absent", "queued", "claimed"}
               PROVE  tries'[k] < MaxAttempts
    OBVIOUS
  <2>1. CASE k = j
    BY <1>1, <1>2, <2>1 DEF GatewayTypeOK
  <2>2. CASE k # j
    BY <1>1, <1>2, <2>2 DEF GatewayTypeOK, JobsOK
  <2>3. QED
    BY <2>1, <2>2
<1>9. JobsOK'
  BY <1>7, <1>8 DEF JobsOK
<1>10. QED
  BY <1>4, <1>5, <1>6, <1>9

(* What the steps of the gateway do to its queue.                          *)
RowsOK ==
    /\ row \in [Jobs -> {"absent", "queued", "claimed", "completed", "failed"}]
    /\ tries \in [Jobs -> 0..MaxAttempts]
    /\ busy \in [Conns -> Jobs \union {NoJob}]
    /\ pending \subseteq Jobs

LEMMA StepJobs ==
    ASSUME TypeOK, JobsOK, ReceiptsOK, [Next]_vars
    PROVE  RowsOK' /\ JobsOK' /\ ReceiptsOK'
<1>0. RowsOK /\ GatewayTypeOK /\ LinkTypeOK /\ ClientTypeOK
  BY DEF TypeOK, GatewayTypeOK, RowsOK
<1>1. ASSUME UNCHANGED jobVars PROVE RowsOK' /\ JobsOK'
  BY <1>0, <1>1 DEF jobVars, RowsOK, JobsOK
<1>2. ASSUME UNCHANGED received, receipts' \subseteq receipts,
             \A j \in Jobs : row'[j] = "completed" => row[j] = "completed" \/ j \in receipts
      PROVE  ReceiptsOK'
  BY <1>2 DEF ReceiptsOK, CompletedWasReceived
<1>3. CASE UNCHANGED vars
  BY <1>1, <1>2, <1>3 DEF vars, linkVars, gatewayVars, clientVars, jobVars
<1>4. CASE ClientSteps
  <2>1. UNCHANGED jobVars
    BY <1>4 DEF ClientSteps, gatewayVars, jobVars
  <2>2. ASSUME NEW c \in Conns, ReadJob(c) PROVE ReceiptsOK'
    BY <2>1, <2>2 DEF ReadJob, ReceiptsOK, CompletedWasReceived, jobVars
  <2>3. ASSUME UNCHANGED <<receipts, received>> PROVE ReceiptsOK'
    BY <2>1, <2>3 DEF ReceiptsOK, CompletedWasReceived, jobVars
  <2>4. QED
    BY <1>1, <1>4, <2>1, <2>2, <2>3
       DEF ClientSteps, ClientNext, StreamEnds, TimerFires, TurnEnds, TurnThrows,
           ProcessDies, ProcessStarts, linkVars, clientVars
<1>5. ASSUME NEW j \in Jobs, ReceiptLost(j) PROVE RowsOK' /\ JobsOK' /\ ReceiptsOK'
  BY <1>1, <1>2, <1>5 DEF ReceiptLost, gatewayVars, clientVars, jobVars
<1>6. CASE GatewaySteps
  <2>1. UNCHANGED received
    BY <1>6 DEF GatewaySteps, clientVars
  <2>2. ASSUME NEW c \in Conns,
               \/ Connect(c) \/ AddConnection(c) \/ RegisterWorker(c)
               \/ ReplaceWorker(c) \/ ResumeWorker(c) \/ Abort(c) \/ StaleCleanup
        PROVE  RowsOK' /\ JobsOK' /\ ReceiptsOK'
    <3>1. UNCHANGED <<receipts, jobVars>>
      BY <2>2 DEF Connect, AddConnection, RegisterWorker, ReplaceWorker,
                  ResumeWorker, Abort, StaleCleanup, linkVars
    <3>2. QED
      BY <1>1, <1>2, <2>1, <3>1 DEF jobVars
  <2>3. CASE StaleCleanup
    <3>1. UNCHANGED <<receipts, jobVars>>
      BY <2>3 DEF StaleCleanup
    <3>2. QED
      BY <1>1, <1>2, <2>1, <3>1 DEF jobVars
  <2>4. ASSUME NEW c \in Conns, HandleJob(c) \/ ReceiptTimeout(c)
        PROVE  RowsOK' /\ JobsOK' /\ ReceiptsOK'
    <3>1. UNCHANGED receipts
      BY <2>4 DEF HandleJob, ReceiptTimeout, linkVars
    <3>2. busy[c] # NoJob
      BY <1>0, <2>4, LinkAssumption
         DEF HandleJob, ReceiptTimeout, RowsOK, LinkAssumption
    <3>3. CASE Throw(c)
      BY <1>0, <1>2, <2>1, <3>1, <3>2, <3>3, ThrowEffect DEF RowsOK
    <3>4. CASE pending' = pending \union {busy[c]} /\ UNCHANGED <<busy, row, tries>>
      <4>1. busy[c] \in Jobs
        BY <1>0, <3>2 DEF RowsOK
      <4>2. RowsOK' /\ JobsOK'
        BY <1>0, <3>4, <4>1 DEF RowsOK, JobsOK
      <4>3. QED
        BY <1>2, <2>1, <3>1, <3>4, <4>2
    <3>5. QED
      BY <2>4, <3>3, <3>4 DEF HandleJob, ReceiptTimeout
  <2>5. ASSUME NEW w \in Conns, NEW j \in Jobs, Claim(w, j)
        PROVE  RowsOK' /\ JobsOK' /\ ReceiptsOK'
    <3>1. /\ row' = [row EXCEPT ![j] = "claimed"]
          /\ busy' = [busy EXCEPT ![w] = j]
          /\ UNCHANGED <<tries, pending, receipts>>
          /\ row[j] = "queued" /\ busy[w] = NoJob
      BY <2>5 DEF Claim, linkVars
    <3>2. RowsOK'
      BY <1>0, <3>1 DEF RowsOK
    <3>3. \A x \in Conns : busy[x] # j
      BY <3>1, LinkAssumption DEF JobsOK, LinkAssumption
    <3>4. JobsOK'
      <4>1. \A x \in Conns : busy'[x] # NoJob => row'[busy'[x]] = "claimed"
        BY <1>0, <3>1, <3>3 DEF RowsOK, JobsOK
      <4>2. \A x, y \in Conns : busy'[x] = busy'[y] /\ busy'[x] # NoJob => x = y
        BY <1>0, <3>1, <3>3 DEF RowsOK, JobsOK
      <4>3. \A k \in Jobs :
               row'[k] \in {"absent", "queued", "claimed"} => tries'[k] < MaxAttempts
        BY <1>0, <3>1 DEF RowsOK, JobsOK
      <4>4. QED
        BY <4>1, <4>2, <4>3 DEF JobsOK
    <3>5. QED
      BY <1>0, <1>2, <2>1, <3>1, <3>2, <3>4 DEF RowsOK
  <2>6. ASSUME NEW j \in Jobs, Enqueue(j) PROVE RowsOK' /\ JobsOK' /\ ReceiptsOK'
    <3>1. /\ row' = [row EXCEPT ![j] = "queued"] /\ row[j] = "absent"
          /\ UNCHANGED <<busy, tries, pending, receipts>>
      BY <2>6 DEF Enqueue, linkVars
    <3>2. RowsOK'
      BY <1>0, <3>1 DEF RowsOK
    <3>3. JobsOK'
      <4>1. \A x \in Conns : busy'[x] # NoJob => row'[busy'[x]] = "claimed"
        BY <1>0, <3>1 DEF RowsOK, JobsOK
      <4>2. \A x, y \in Conns : busy'[x] = busy'[y] /\ busy'[x] # NoJob => x = y
        BY <1>0, <3>1 DEF RowsOK, JobsOK
      <4>3. \A k \in Jobs :
               row'[k] \in {"absent", "queued", "claimed"} => tries'[k] < MaxAttempts
        BY <1>0, <3>1 DEF RowsOK, JobsOK
      <4>4. QED
        BY <4>1, <4>2, <4>3 DEF JobsOK
    <3>4. QED
      BY <1>0, <1>2, <2>1, <3>1, <3>2, <3>3 DEF RowsOK
  <2>7. ASSUME NEW j \in Jobs, ReceiptArrives(j)
        PROVE  RowsOK' /\ JobsOK' /\ ReceiptsOK'
    <3>1. receipts' \subseteq receipts /\ j \in receipts /\ UNCHANGED tries
      BY <2>7 DEF ReceiptArrives
    <3>2. CASE UNCHANGED <<pending, row, busy>>
      <4>1. UNCHANGED jobVars
        BY <3>1, <3>2 DEF jobVars
      <4>2. QED
        BY <1>1, <1>2, <2>1, <3>1, <3>2, <4>1
    <3>3. CASE /\ pending' = pending \ {j}
               /\ row' = [row EXCEPT ![j] = "completed"]
               /\ busy' = [w \in Conns |-> IF busy[w] = j THEN NoJob ELSE busy[w]]
      <4>1. RowsOK'
        BY <1>0, <3>1, <3>3 DEF RowsOK
      <4>2. JobsOK'
        <5>1. \A x \in Conns : busy'[x] # NoJob =>
                  busy'[x] = busy[x] /\ busy[x] \in Jobs /\ busy[x] # j
          BY <1>0, <3>3 DEF RowsOK
        <5>2. \A k \in Jobs : /\ k # j => row'[k] = row[k]
                              /\ row'[j] = "completed"
          BY <1>0, <3>3 DEF RowsOK
        <5>3. \A x \in Conns : busy'[x] # NoJob => row'[busy'[x]] = "claimed"
          BY <5>1, <5>2 DEF JobsOK
        <5>4. \A x, y \in Conns : busy'[x] = busy'[y] /\ busy'[x] # NoJob => x = y
          BY <5>1 DEF JobsOK
        <5>5. \A k \in Jobs :
                 row'[k] \in {"absent", "queued", "claimed"} => tries'[k] < MaxAttempts
          BY <3>1, <5>2 DEF JobsOK
        <5>6. QED
          BY <5>3, <5>4, <5>5 DEF JobsOK
      <4>3. \A k \in Jobs : row'[k] = "completed" => row[k] = "completed" \/ k \in receipts
        BY <1>0, <3>1, <3>3 DEF RowsOK
      <4>4. QED
        BY <1>2, <2>1, <3>1, <4>1, <4>2, <4>3
    <3>4. QED
      BY <2>7, <3>2, <3>3 DEF ReceiptArrives
  <2>8. QED
    BY <1>6, <2>2, <2>3, <2>4, <2>5, <2>6, <2>7 DEF GatewaySteps, GatewayNext
<1>7. QED
  BY <1>3, <1>4, <1>5, <1>6 DEF Next

-----------------------------------------------------------------------------
(* Connections and queue workers                                           *)

(* The connections and the queue's workers are well formed.                *)
ConnectionsOK ==
    /\ conn \in Conns \union {NoConn}
    /\ stage \in [Conns -> Stages]
    /\ aborted \subseteq Conns
    /\ cur \in Conns \union {NoConn}
    /\ victim \in [Conns -> Conns \union {NoConn}]
    /\ worker \in [Conns -> {"none", "paused", "live", "stopped"}]
    /\ leaked \subseteq Conns
    /\ ended \subseteq Conns
    /\ reading \in Conns \union {NoConn}

(* The worker in the map, if there is one, is paused, all others are left  *)
(* alone.                                                                  *)
LEMMA PausedEffect ==
    ASSUME ConnectionsOK
    PROVE  /\ Paused(worker) \in [Conns -> {"none", "paused", "live", "stopped"}]
           /\ \A w \in Conns : w # cur => Paused(worker)[w] = worker[w]
           /\ cur # NoConn => Paused(worker)[cur] = "paused"
BY LinkAssumption DEF Paused, ConnectionsOK, LinkAssumption

(* The entry of the workers map changes, and what was there is stopped or  *)
(* lost.                                                                   *)
LEMMA NewWorkerEffect ==
    ASSUME ConnectionsOK, WorkersOK, NEW c \in Conns,
           NEW seen \in Conns \union {NoConn}, NewWorker(c, seen)
    PROVE  /\ worker' \in [Conns -> {"none", "paused", "live", "stopped"}]
           /\ leaked' \subseteq Conns
           /\ cur' = c /\ cur' # NoConn /\ worker'[c] = "paused"
           /\ stage' = [stage EXCEPT ![c] = "resuming"]
           /\ \A w \in Conns \ leaked' : w # cur' => worker'[w] \in {"none", "stopped"}
<1>1. /\ worker' = [w \in Conns |-> IF w = c THEN "paused"
                                    ELSE IF w = seen THEN "stopped"
                                    ELSE worker[w]]
      /\ leaked' = IF cur \in {NoConn, seen} THEN leaked ELSE leaked \union {cur}
      /\ cur' = c /\ stage' = [stage EXCEPT ![c] = "resuming"]
  BY DEF NewWorker
<1>2. c # NoConn
  BY LinkAssumption DEF LinkAssumption
<1>3. ASSUME NEW w \in Conns \ leaked', w # c
      PROVE  worker'[w] \in {"none", "stopped"}
  <2>1. CASE w = seen
    BY <1>1, <1>3, <2>1
  <2>2. CASE w # seen
    <3>1. w \notin leaked /\ w # cur
      BY <1>1, <1>3, <2>2, LinkAssumption DEF LinkAssumption
    <3>2. worker[w] \in {"none", "stopped"}
      BY <3>1 DEF WorkersOK
    <3>3. QED
      BY <1>1, <1>3, <2>2, <3>2
  <2>3. QED
    BY <2>1, <2>2
<1>4. QED
  BY <1>1, <1>2, <1>3 DEF ConnectionsOK

(* What a step has to leave in place.                                      *)
LinkedOK == ConnectionsOK /\ HandlersOK /\ WorkersOK

LEMMA StepLinked ==
    ASSUME TypeOK, HandlersOK, WorkersOK, [Next]_vars
    PROVE  LinkedOK'
<1>0. LinkedOK
  BY DEF TypeOK, GatewayTypeOK, LinkTypeOK, ConnectionsOK, LinkedOK
<1>1. CASE UNCHANGED <<reading, ended, conn, stage, aborted, cur, victim,
                       worker, late, leaked, stale>>
  BY <1>0, <1>1 DEF LinkedOK, ConnectionsOK, HandlersOK, WorkersOK
<1>2. ASSUME reading' \in {reading, NoConn}, UNCHANGED <<ended, gatewayVars>>
      PROVE  LinkedOK'
  BY <1>0, <1>2 DEF LinkedOK, ConnectionsOK, HandlersOK, WorkersOK, gatewayVars
<1>3. CASE ClientSteps
  <2>1. reading' \in {reading, NoConn} /\ UNCHANGED <<ended, gatewayVars>>
    BY <1>3 DEF ClientSteps, ClientNext, ReadJob, StreamEnds, TimerFires, TurnEnds,
                TurnThrows, ProcessDies, ProcessStarts, linkVars
  <2>2. QED
    BY <1>2, <2>1
<1>4. ASSUME NEW j \in Jobs, ReceiptLost(j) PROVE LinkedOK'
  BY <1>2, <1>4 DEF ReceiptLost
<1>5. ASSUME NEW c \in Conns, Connect(c) PROVE LinkedOK'
  <2>1. /\ stage[c] = "none" /\ reading' = c /\ c \notin aborted
        /\ stage' = [stage EXCEPT ![c] = "pausing"]
        /\ worker' = Paused(worker)
        /\ UNCHANGED <<ended, conn, aborted, cur, victim, late, leaked, stale>>
    BY <1>0, <1>5 DEF Connect, LinkedOK, HandlersOK
  <2>2. /\ stage'[c] = "pausing"
        /\ \A d \in Conns : d # c => stage'[d] = stage[d]
    BY <1>0, <2>1 DEF LinkedOK, ConnectionsOK
  <2>3. ConnectionsOK' /\ WorkersOK'
    <3>1. stage' \in [Conns -> Stages]
      BY <1>0, <2>1 DEF LinkedOK, ConnectionsOK, Stages
    <3>2. worker' \in [Conns -> {"none", "paused", "live", "stopped"}]
      BY <1>0, <2>1, PausedEffect DEF LinkedOK
    <3>3. ConnectionsOK'
      BY <1>0, <2>1, <3>1, <3>2 DEF LinkedOK, ConnectionsOK
    <3>4. WorkersOK'
      BY <1>0, <2>1, PausedEffect DEF LinkedOK, WorkersOK
    <3>5. QED
      BY <3>3, <3>4
  <2>4. HandlersOK'
    BY <1>0, <2>1, <2>2 DEF LinkedOK, HandlersOK
  <2>5. QED
    BY <2>3, <2>4 DEF LinkedOK
<1>6. ASSUME NEW c \in Conns, AddConnection(c) PROVE LinkedOK'
  <2>1. /\ stage[c] = "pausing"
        /\ UNCHANGED <<reading, aborted, cur, victim, worker, late, leaked, stale>>
    BY <1>6 DEF AddConnection
  <2>2. CASE /\ c \in aborted /\ stage' = [stage EXCEPT ![c] = "ended"]
             /\ UNCHANGED <<ended, conn>>
    <3>1. /\ stage'[c] = "ended" /\ stage' \in [Conns -> Stages]
          /\ \A d \in Conns : d # c => stage'[d] = stage[d]
      BY <1>0, <2>2 DEF LinkedOK, ConnectionsOK, Stages
    <3>2. reading # c
      BY <1>0, <2>2, LinkAssumption DEF LinkedOK, HandlersOK, LinkAssumption
    <3>3. HandlersOK'
      BY <1>0, <2>1, <2>2, <3>1, <3>2 DEF LinkedOK, HandlersOK, ConnectionsOK
    <3>4. ConnectionsOK' /\ WorkersOK'
      BY <1>0, <2>1, <2>2, <3>1 DEF LinkedOK, ConnectionsOK, WorkersOK
    <3>5. QED
      BY <3>3, <3>4 DEF LinkedOK
  <2>3. CASE /\ c \notin aborted /\ stage' = [stage EXCEPT ![c] = "added"]
             /\ ended' = EndsCurrent /\ conn' = c
    <3>1. /\ stage'[c] = "added" /\ stage' \in [Conns -> Stages]
          /\ \A d \in Conns : d # c => stage'[d] = stage[d]
      BY <1>0, <2>3 DEF LinkedOK, ConnectionsOK, Stages
    <3>2. /\ ended' \subseteq Conns /\ ended \subseteq ended'
          /\ conn # NoConn => conn \in ended'
      BY <1>0, <2>3 DEF LinkedOK, ConnectionsOK, EndsCurrent
    <3>3. c # NoConn
      BY LinkAssumption DEF LinkAssumption
    <3>4. HandlersOK'
      <4>1. reading \notin ended' \union {NoConn} /\ ~stale /\ stage'[reading] # "pausing"
                => conn' = reading
        BY <1>0, <2>1, <2>3, <3>1, <3>2 DEF LinkedOK, HandlersOK, ConnectionsOK
      <4>2. reading \notin ended' \union {NoConn} /\ ~stale => stage'[reading] # "open"
        BY <1>0, <2>1, <2>3, <3>1, <3>2 DEF LinkedOK, HandlersOK, ConnectionsOK
      <4>3. QED
        BY <1>0, <2>1, <2>3, <3>1, <4>1, <4>2 DEF LinkedOK, HandlersOK
    <3>5. ConnectionsOK' /\ WorkersOK'
      BY <1>0, <2>1, <2>3, <3>1, <3>2, <3>3 DEF LinkedOK, ConnectionsOK, WorkersOK
    <3>6. QED
      BY <3>4, <3>5 DEF LinkedOK
  <2>4. QED
    BY <1>6, <2>2, <2>3 DEF AddConnection
<1>7. ASSUME NEW c \in Conns, NEW seen \in Conns \union {NoConn},
             NewWorker(c, seen), stage[c] \in {"added", "replacing"},
             UNCHANGED <<reading, ended, conn, aborted, late, stale>>,
             victim' \in [Conns -> Conns \union {NoConn}]
      PROVE  LinkedOK'
  <2>1. /\ worker' \in [Conns -> {"none", "paused", "live", "stopped"}]
        /\ leaked' \subseteq Conns
        /\ cur' = c /\ cur' # NoConn /\ worker'[c] = "paused"
        /\ stage' = [stage EXCEPT ![c] = "resuming"]
        /\ \A w \in Conns \ leaked' : w # cur' => worker'[w] \in {"none", "stopped"}
    BY <1>0, <1>7, NewWorkerEffect DEF LinkedOK
  <2>2. /\ stage'[c] = "resuming" /\ stage' \in [Conns -> Stages]
        /\ \A d \in Conns : d # c => stage'[d] = stage[d]
    BY <1>0, <2>1 DEF LinkedOK, ConnectionsOK, Stages
  <2>3. HandlersOK'
    BY <1>0, <1>7, <2>1, <2>2 DEF LinkedOK, HandlersOK, ConnectionsOK
  <2>4. ConnectionsOK' /\ WorkersOK'
    BY <1>0, <1>7, <2>1, <2>2 DEF LinkedOK, ConnectionsOK, WorkersOK
  <2>5. QED
    BY <2>3, <2>4 DEF LinkedOK
<1>8. ASSUME NEW c \in Conns, RegisterWorker(c) PROVE LinkedOK'
  <2>1. /\ stage[c] = "added"
        /\ UNCHANGED <<reading, ended, conn, aborted, late, stale>>
    BY <1>8 DEF RegisterWorker, linkVars
  <2>2. CASE NewWorker(c, NoConn) /\ UNCHANGED victim
    BY <1>0, <1>7, <2>1, <2>2 DEF LinkedOK, ConnectionsOK
  <2>3. CASE /\ cur # NoConn /\ stage' = [stage EXCEPT ![c] = "replacing"]
             /\ victim' = [victim EXCEPT ![c] = cur]
             /\ UNCHANGED <<cur, worker, leaked>>
    <3>1. /\ stage'[c] = "replacing" /\ stage' \in [Conns -> Stages]
          /\ \A d \in Conns : d # c => stage'[d] = stage[d]
      BY <1>0, <2>3 DEF LinkedOK, ConnectionsOK, Stages
    <3>2. HandlersOK'
      BY <1>0, <2>1, <2>3, <3>1 DEF LinkedOK, HandlersOK, ConnectionsOK
    <3>3. ConnectionsOK' /\ WorkersOK'
      BY <1>0, <2>1, <2>3, <3>1 DEF LinkedOK, ConnectionsOK, WorkersOK
    <3>4. QED
      BY <3>2, <3>3 DEF LinkedOK
  <2>4. QED
    BY <1>8, <2>2, <2>3 DEF RegisterWorker
<1>9. ASSUME NEW c \in Conns, ReplaceWorker(c) PROVE LinkedOK'
  <2>1. /\ stage[c] = "replacing" /\ NewWorker(c, victim[c])
        /\ UNCHANGED <<reading, ended, conn, aborted, victim, late, stale>>
    BY <1>9 DEF ReplaceWorker, linkVars
  <2>2. /\ victim[c] \in Conns \union {NoConn}
        /\ victim' \in [Conns -> Conns \union {NoConn}]
    BY <1>0, <2>1 DEF LinkedOK, ConnectionsOK
  <2>3. QED
    BY <1>7, <2>1, <2>2
<1>10. ASSUME NEW c \in Conns, ResumeWorker(c) PROVE LinkedOK'
  <2>1. /\ stage[c] = "resuming"
        /\ stage' = [stage EXCEPT ![c] = IF c \in aborted THEN "ended" ELSE "open"]
        /\ worker' = [worker EXCEPT ![cur] = "live"]
        /\ late' = (late \/ conn # c)
        /\ UNCHANGED <<reading, ended, conn, aborted, cur, victim, leaked, stale>>
    BY <1>10 DEF ResumeWorker, linkVars
  <2>2. cur \in Conns /\ cur # NoConn /\ c # NoConn
    BY <1>0, <2>1, LinkAssumption DEF LinkedOK, HandlersOK, ConnectionsOK, LinkAssumption
  <2>3. /\ stage'[c] = IF c \in aborted THEN "ended" ELSE "open"
        /\ stage' \in [Conns -> Stages]
        /\ \A d \in Conns : d # c => stage'[d] = stage[d]
    BY <1>0, <2>1 DEF LinkedOK, ConnectionsOK, Stages
  <2>4. /\ worker'[cur] = "live"
        /\ worker' \in [Conns -> {"none", "paused", "live", "stopped"}]
        /\ \A w \in Conns : w # cur => worker'[w] = worker[w]
    BY <1>0, <2>1, <2>2 DEF LinkedOK, ConnectionsOK
  <2>5. HandlersOK'
    BY <1>0, <2>1, <2>2, <2>3, <2>4 DEF LinkedOK, HandlersOK, ConnectionsOK
  <2>6. WorkersOK'
    <3>1. conn = NoConn => late'
      BY <2>1, <2>2
    <3>2. QED
      BY <1>0, <2>1, <2>4, <3>1 DEF LinkedOK, WorkersOK
  <2>7. ConnectionsOK'
    <3>1. late' \in BOOLEAN
      BY <2>1, Zenon
    <3>2. QED
      BY <1>0, <2>1, <2>3, <2>4 DEF LinkedOK, ConnectionsOK
  <2>8. QED
    BY <2>5, <2>6, <2>7 DEF LinkedOK
<1>11. ASSUME NEW c \in Conns, Abort(c) PROVE LinkedOK'
  <2>1. /\ stage[c] \notin {"none", "ended"} /\ c \notin aborted /\ reading # c
        /\ aborted' = aborted \union {c}
        /\ stage' = [stage EXCEPT ![c] = IF stage[c] = "open" THEN "ended" ELSE stage[c]]
        /\ UNCHANGED <<reading, cur, victim, late, leaked, stale>>
    BY <1>11 DEF Abort
  <2>2. /\ stage'[c] = IF stage[c] = "open" THEN "ended" ELSE stage[c]
        /\ stage' \in [Conns -> Stages]
        /\ \A d \in Conns : d # c => stage'[d] = stage[d]
    BY <1>0, <2>1 DEF LinkedOK, ConnectionsOK, Stages
  <2>3. CASE UNCHANGED <<worker, ended, conn>>
    <3>1. HandlersOK'
      BY <1>0, <2>1, <2>2, <2>3 DEF LinkedOK, HandlersOK, ConnectionsOK
    <3>2. ConnectionsOK' /\ WorkersOK'
      BY <1>0, <2>1, <2>2, <2>3 DEF LinkedOK, ConnectionsOK, WorkersOK
    <3>3. QED
      BY <3>1, <3>2 DEF LinkedOK
  <2>4. CASE /\ stage[c] # "pausing" /\ conn \in {c, NoConn}
             /\ worker' = Paused(worker) /\ ended' = EndsCurrent /\ conn' = NoConn
    <3>1. /\ ended' \subseteq Conns /\ ended \subseteq ended'
      BY <1>0, <2>4 DEF LinkedOK, ConnectionsOK, EndsCurrent
    <3>2. reading \notin ended' \union {NoConn} /\ ~stale => stage[reading] = "pausing"
      BY <1>0, <2>1, <2>4, <3>1 DEF LinkedOK, HandlersOK, ConnectionsOK
    <3>3. HandlersOK'
      BY <1>0, <2>1, <2>2, <3>2 DEF LinkedOK, HandlersOK, ConnectionsOK
    <3>4. WorkersOK'
      BY <1>0, <2>1, <2>4, PausedEffect DEF LinkedOK, WorkersOK
    <3>5. worker' \in [Conns -> {"none", "paused", "live", "stopped"}]
      BY <1>0, <2>4, PausedEffect DEF LinkedOK
    <3>6. ConnectionsOK'
      BY <1>0, <2>1, <2>2, <2>4, <3>1, <3>5 DEF LinkedOK, ConnectionsOK
    <3>7. QED
      BY <3>3, <3>4, <3>6 DEF LinkedOK
  <2>5. QED
    BY <1>11, <2>3, <2>4 DEF Abort
<1>12. CASE StaleCleanup
  <2>1. /\ stale' = TRUE /\ ended' = EndsCurrent /\ conn' = NoConn
        /\ UNCHANGED <<reading, stage, aborted, cur, victim, worker, late, leaked>>
    BY <1>12 DEF StaleCleanup
  <2>2. ended' \subseteq Conns
    BY <1>0, <2>1 DEF LinkedOK, ConnectionsOK, EndsCurrent
  <2>3. HandlersOK' /\ WorkersOK'
    BY <1>0, <2>1 DEF LinkedOK, HandlersOK, WorkersOK
  <2>4. QED
    BY <1>0, <2>1, <2>2, <2>3 DEF LinkedOK, ConnectionsOK
<1>13. ASSUME NEW c \in Conns, NEW j \in Jobs, Claim(c, j) PROVE LinkedOK'
  BY <1>1, <1>13 DEF Claim, linkVars
<1>14. ASSUME NEW c \in Conns, HandleJob(c) \/ ReceiptTimeout(c) PROVE LinkedOK'
  BY <1>1, <1>14 DEF HandleJob, ReceiptTimeout, linkVars
<1>15. ASSUME NEW j \in Jobs, Enqueue(j) \/ ReceiptArrives(j) PROVE LinkedOK'
  BY <1>1, <1>15 DEF Enqueue, ReceiptArrives, linkVars
<1>16. CASE GatewaySteps
  BY <1>5, <1>6, <1>8, <1>9, <1>10, <1>11, <1>12, <1>13, <1>14, <1>15, <1>16
     DEF GatewaySteps, GatewayNext
<1>17. CASE UNCHANGED vars
  BY <1>1, <1>17 DEF vars, linkVars, gatewayVars
<1>18. QED
  BY <1>3, <1>4, <1>16, <1>17 DEF Next

-----------------------------------------------------------------------------
(* What is written to streams                                              *)

WiresOK ==
    /\ wire \in [Conns -> Seq(Jobs)]
    /\ receipts \subseteq Jobs
    /\ late \in BOOLEAN /\ stale \in BOOLEAN

LEMMA StepWires ==
    ASSUME TypeOK, [Next]_vars
    PROVE  WiresOK'
<1>0. WiresOK /\ conn \in Conns \union {NoConn} /\ busy \in [Conns -> Jobs \union {NoJob}]
  BY DEF TypeOK, LinkTypeOK, GatewayTypeOK, WiresOK
<1>1. CASE UNCHANGED <<wire, receipts, late, stale>>
  BY <1>0, <1>1 DEF WiresOK
<1>2. CASE UNCHANGED <<wire, receipts>> /\ late' \in BOOLEAN /\ stale' \in BOOLEAN
  BY <1>0, <1>2 DEF WiresOK
<1>3. CASE /\ wire' \in [Conns -> Seq(Jobs)] /\ receipts' \subseteq Jobs
           /\ UNCHANGED <<late, stale>>
  BY <1>0, <1>3 DEF WiresOK
<1>4. CASE ClientSteps
  <2>1. UNCHANGED <<late, stale>>
    BY <1>4 DEF ClientSteps, gatewayVars
  <2>2. ASSUME NEW c \in Conns, ReadJob(c) PROVE WiresOK'
    <3>1. /\ wire[c] \in Seq(Jobs) /\ wire[c] # <<>>
          /\ wire' = [wire EXCEPT ![c] = Tail(wire[c])]
          /\ receipts' = receipts \union {Head(wire[c])}
      BY <1>0, <2>2 DEF ReadJob, WiresOK
    <3>2. Head(wire[c]) \in Jobs /\ Tail(wire[c]) \in Seq(Jobs)
      BY <3>1
    <3>3. QED
      BY <1>0, <1>3, <2>1, <3>1, <3>2 DEF WiresOK
  <2>3. ASSUME NEW c \in Conns, StreamEnds(c) PROVE WiresOK'
    <3>1. wire' = [wire EXCEPT ![c] = <<>>] /\ UNCHANGED receipts
      BY <2>3 DEF StreamEnds
    <3>2. <<>> \in Seq(Jobs)
      OBVIOUS
    <3>3. wire' \in [Conns -> Seq(Jobs)]
      BY <1>0, <3>1, <3>2 DEF WiresOK
    <3>4. QED
      BY <1>0, <1>3, <2>1, <3>1, <3>3 DEF WiresOK
  <2>4. CASE ProcessDies
    <3>1. \A d \in Conns : wire[d] \in Seq(Jobs)
      BY <1>0 DEF WiresOK
    <3>2. wire' \in [Conns -> Seq(Jobs)] /\ UNCHANGED receipts
      BY <2>4, <3>1 DEF ProcessDies
    <3>3. QED
      BY <1>0, <1>3, <2>1, <3>2 DEF WiresOK
  <2>5. CASE UNCHANGED linkVars
    BY <1>1, <2>1, <2>5 DEF linkVars
  <2>6. QED
    BY <1>4, <2>2, <2>3, <2>4, <2>5
       DEF ClientSteps, ClientNext, TimerFires, TurnEnds, TurnThrows, ProcessStarts
<1>5. ASSUME NEW j \in Jobs, ReceiptLost(j) \/ Enqueue(j) \/ ReceiptArrives(j)
      PROVE  WiresOK'
  <2>1. /\ UNCHANGED <<wire, late, stale>> /\ receipts' \subseteq receipts
    BY <1>5 DEF ReceiptLost, Enqueue, ReceiptArrives, linkVars, gatewayVars
  <2>2. QED
    BY <1>0, <1>3, <2>1 DEF WiresOK
<1>6. ASSUME NEW c \in Conns, HandleJob(c) PROVE WiresOK'
  <2>1. /\ busy[c] \in Jobs /\ UNCHANGED <<receipts, late, stale>>
    BY <1>0, <1>6 DEF HandleJob
  <2>2. CASE UNCHANGED wire
    BY <1>1, <2>1, <2>2
  <2>3. CASE conn \in Conns /\ wire' = [wire EXCEPT ![conn] = Append(wire[conn], busy[c])]
    <3>1. Append(wire[conn], busy[c]) \in Seq(Jobs)
      BY <1>0, <2>1, <2>3, ElementsAppend DEF WiresOK
    <3>2. QED
      BY <1>0, <1>3, <2>1, <2>3, <3>1 DEF WiresOK
  <2>4. QED
    BY <1>0, <1>6, <2>2, <2>3 DEF HandleJob
<1>7. ASSUME NEW c \in Conns,
             \/ Connect(c) \/ AddConnection(c) \/ RegisterWorker(c)
             \/ ReplaceWorker(c) \/ Abort(c) \/ ReceiptTimeout(c)
             \/ \E j \in Jobs : Claim(c, j)
      PROVE  WiresOK'
  BY <1>1, <1>7 DEF Connect, AddConnection, RegisterWorker, ReplaceWorker, Abort,
                    ReceiptTimeout, Claim, linkVars
<1>8. ASSUME NEW c \in Conns, ResumeWorker(c) PROVE WiresOK'
  <2>1. late' = (late \/ conn # c) /\ UNCHANGED <<wire, receipts, stale>>
    BY <1>8 DEF ResumeWorker, linkVars
  <2>2. late' \in BOOLEAN
    BY <2>1, Zenon
  <2>3. QED
    BY <1>0, <1>2, <2>1, <2>2 DEF WiresOK
<1>9. CASE StaleCleanup
  <2>1. stale' \in BOOLEAN
    BY <1>9, Zenon DEF StaleCleanup
  <2>2. QED
    BY <1>0, <1>2, <1>9, <2>1 DEF StaleCleanup, WiresOK
<1>10. CASE GatewaySteps
  BY <1>5, <1>6, <1>7, <1>8, <1>9, <1>10 DEF GatewaySteps, GatewayNext
<1>11. CASE UNCHANGED vars
  BY <1>1, <1>11 DEF vars, linkVars, gatewayVars
<1>12. QED
  BY <1>4, <1>5, <1>10, <1>11 DEF Next

-----------------------------------------------------------------------------
(* The batcher                                                             *)

(* A message that arrives is queued, or starts the first batch.            *)
LEMMA AddEffect ==
    ASSUME ClientTypeOK, BatchOK, NEW j \in Jobs, AddMessage(j)
    PROVE  /\ queue' \in Seq(Jobs) /\ batch' \in Seq(Jobs)
           /\ timer' \in BOOLEAN /\ processing' \in BOOLEAN /\ initial' \in BOOLEAN
           /\ processing' <=> batch' # <<>>
           /\ timer' => ~processing'
           /\ Elements(queue) \union Elements(batch) \union {j}
                  \subseteq Elements(queue') \union Elements(batch')
           /\ batch # <<>> => batch' = batch
           /\ queue' # <<>> => processing' \/ timer'
<1>1. /\ Append(queue, j) \in Seq(Jobs) /\ Append(queue, j) # <<>>
      /\ Elements(queue) \union {j} \subseteq Elements(Append(queue, j))
  BY ElementsAppend DEF ClientTypeOK
<1>2. Elements(<<>>) = {} /\ <<>> \in Seq(Jobs)
  BY DEF Elements
<1>3. CASE ~processing /\ ~timer /\ ~initial /\ initial' = TRUE /\ ProcessBatch(Append(queue, j))
  <2>1. /\ queue' = <<>> /\ batch' = Append(queue, j) /\ batch = <<>>
    BY <1>3 DEF ProcessBatch, BatchOK
  <2>2. timer' \in BOOLEAN /\ processing' \in BOOLEAN /\ initial' \in BOOLEAN
    BY <1>3, Zenon DEF ProcessBatch
  <2>3. ~timer' /\ processing'
    BY <1>3 DEF ProcessBatch
  <2>4. Elements(queue) \union Elements(batch) \union {j}
            \subseteq Elements(queue') \union Elements(batch')
    BY <1>1, <1>2, <2>1
  <2>5. QED
    BY <1>1, <1>2, <2>1, <2>2, <2>3, <2>4
<1>4. CASE /\ queue' = Append(queue, j) /\ timer' = (timer \/ ~processing)
           /\ UNCHANGED <<processing, initial, batch>>
  <2>1. timer' \in BOOLEAN
    BY <1>4, Zenon
  <2>2. /\ timer' => ~processing'
        /\ processing' \/ timer'
    BY <1>4 DEF BatchOK
  <2>3. processing' <=> batch' # <<>>
    BY <1>4 DEF BatchOK
  <2>4. QED
    BY <1>1, <1>4, <2>1, <2>2, <2>3 DEF ClientTypeOK
<1>5. QED
  BY <1>3, <1>4 DEF AddMessage

(* A batch that gets shorter is what is left of it.                        *)
Shorter ==
    \E n \in 1..Len(batch) + 1 : batch' = SubSeq(batch, n, Len(batch))

LEMMA ShorterBatch ==
    ASSUME ClientTypeOK, batch # <<>>,
           \/ batch' = batch \/ batch' = <<>> \/ batch' = AfterGroup(batch)
    PROVE  Shorter
<1>1. batch \in Seq(Jobs) /\ Len(batch) \in Nat /\ Len(batch) >= 1
  BY DEF ClientTypeOK
<1>2. CASE batch' = batch
  <2>1. batch' = SubSeq(batch, 1, Len(batch))
    BY <1>1, <1>2, SubSeqFull
  <2>2. QED
    BY <1>1, <2>1 DEF Shorter
<1>3. CASE batch' = <<>>
  <2>1. batch' = SubSeq(batch, Len(batch) + 1, Len(batch))
    BY <1>1, <1>3, SubSeqEmpty
  <2>2. QED
    BY <1>1, <2>1 DEF Shorter
<1>4. CASE batch' = AfterGroup(batch)
  <2>1. GroupLength(batch) \in 1..Len(batch)
    BY <1>1, GroupLengthExists
  <2>2. GroupLength(batch) + 1 \in 1..Len(batch) + 1
    BY <1>1, <2>1
  <2>3. QED
    BY <1>4, <2>2 DEF Shorter, AfterGroup
<1>5. QED
  BY <1>2, <1>3, <1>4

(* What every step does to the batcher: no batch takes the place of        *)
(* another, and only a turn that throws strands messages.                  *)
LEMMA StepBatch ==
    ASSUME TypeOK, BatchOK, [Next]_vars
    PROVE  /\ ClientTypeOK' /\ BatchOK'
           /\ batch # <<>> => Shorter
           /\ ~Stranded /\ Stranded' => TurnThrows
<1>0. ClientTypeOK /\ LinkTypeOK
  BY DEF TypeOK
<1> DEFINE Good == /\ ClientTypeOK' /\ BatchOK'
                   /\ batch # <<>> => Shorter
                   /\ ~Stranded /\ Stranded' => TurnThrows
<1>1. CASE UNCHANGED clientVars
  <2>1. ClientTypeOK' /\ BatchOK'
    BY <1>0, <1>1 DEF clientVars, ClientTypeOK, BatchOK, NothingHeldIsForgotten
  <2>2. batch # <<>> => Shorter
    BY <1>0, <1>1, ShorterBatch DEF clientVars
  <2>3. Stranded' => Stranded
    BY <1>1 DEF clientVars, Stranded
  <2>4. QED
    BY <2>1, <2>2, <2>3
<1>2. ASSUME NEW c \in Conns, ReadJob(c) PROVE Good
  <2> DEFINE j == Head(wire[c])
  <2>1. j \in Jobs
    <3>1. wire[c] \in Seq(Jobs) /\ wire[c] # <<>>
      BY <1>0, <1>2 DEF ReadJob, LinkTypeOK
    <3>2. QED
      BY <3>1
  <2>2. /\ AddMessage(j) /\ UNCHANGED <<proc, answered, dropped>>
        /\ received' = received \union {j} /\ held' = held \union {j}
    BY <1>2 DEF ReadJob
  <2> HIDE DEF j
  <2>3. /\ queue' \in Seq(Jobs) /\ batch' \in Seq(Jobs)
        /\ timer' \in BOOLEAN /\ processing' \in BOOLEAN /\ initial' \in BOOLEAN
        /\ processing' <=> batch' # <<>>
        /\ timer' => ~processing'
        /\ Elements(queue) \union Elements(batch) \union {j}
               \subseteq Elements(queue') \union Elements(batch')
        /\ batch # <<>> => batch' = batch
        /\ queue' # <<>> => processing' \/ timer'
    BY <1>0, <2>1, <2>2, AddEffect
  <2>4. ClientTypeOK'
    BY <1>0, <2>1, <2>2, <2>3 DEF ClientTypeOK
  <2>5. NothingHeldIsForgotten'
    BY <2>2, <2>3 DEF BatchOK, NothingHeldIsForgotten
  <2>6. BatchOK'
    BY <2>3, <2>5 DEF BatchOK
  <2>7. batch # <<>> => Shorter
    BY <1>0, <2>3, ShorterBatch
  <2>8. ~Stranded'
    BY <2>3 DEF Stranded
  <2>9. QED
    BY <2>4, <2>6, <2>7, <2>8
<1>3. CASE TimerFires
  <2>1. /\ queue # <<>> /\ queue' = <<>> /\ batch' = queue /\ timer
        /\ UNCHANGED <<proc, initial, received, held, answered, dropped>>
    BY <1>3 DEF TimerFires, ProcessBatch
  <2>2. ~timer' /\ processing'
    BY <1>3 DEF TimerFires, ProcessBatch
  <2>3. timer' \in BOOLEAN /\ processing' \in BOOLEAN
    BY <1>3, Zenon DEF TimerFires, ProcessBatch
  <2>4. batch = <<>> /\ Elements(batch) = {}
    BY <2>1 DEF BatchOK, Elements
  <2>5. ClientTypeOK'
    BY <1>0, <2>1, <2>3 DEF ClientTypeOK
  <2>6. BatchOK'
    BY <2>1, <2>2, <2>4 DEF BatchOK, NothingHeldIsForgotten
  <2>7. QED
    BY <2>1, <2>4, <2>5, <2>6 DEF Stranded
<1>4. CASE TurnEnds
  <2>1. /\ batch # <<>> /\ batch' = AfterGroup(batch)
        /\ answered' = answered \union Elements(Group(batch))
        /\ UNCHANGED <<proc, queue, initial, received, held, dropped>>
    BY <1>4 DEF TurnEnds
  <2>2. /\ AfterGroup(batch) \in Seq(Jobs)
        /\ Elements(batch) \subseteq Elements(Group(batch)) \union Elements(AfterGroup(batch))
        /\ Elements(Group(batch)) \subseteq Jobs
    BY <1>0, <2>1, GroupSplit DEF ClientTypeOK
  <2>3. CASE batch' # <<>> /\ UNCHANGED <<processing, timer>>
    <3>1. ClientTypeOK'
      BY <1>0, <2>1, <2>2, <2>3 DEF ClientTypeOK
    <3>2. BatchOK'
      BY <2>1, <2>2, <2>3 DEF BatchOK, NothingHeldIsForgotten
    <3>3. ~Stranded'
      BY <2>3, <3>2 DEF BatchOK, Stranded
    <3>4. QED
      BY <1>0, <2>1, <3>1, <3>2, <3>3, ShorterBatch
  <2>4. CASE batch' = <<>> /\ processing' = FALSE /\ timer' = (queue # <<>>)
    <3>1. timer' \in BOOLEAN /\ processing' \in BOOLEAN
      BY <2>4, Zenon
    <3>2. ClientTypeOK'
      BY <1>0, <2>1, <2>2, <3>1 DEF ClientTypeOK
    <3>3. BatchOK'
      BY <2>1, <2>2, <2>4 DEF BatchOK, NothingHeldIsForgotten
    <3>4. ~Stranded'
      BY <2>1, <2>4 DEF Stranded
    <3>5. QED
      BY <1>0, <2>1, <3>2, <3>3, <3>4, ShorterBatch
  <2>5. QED
    BY <1>4, <2>3, <2>4 DEF TurnEnds
<1>5. CASE TurnThrows
  <2>1. /\ batch # <<>> /\ batch' = <<>> /\ processing' = FALSE
        /\ answered' = answered \union Elements(Group(batch))
        /\ dropped' = dropped \union Elements(AfterGroup(batch))
        /\ UNCHANGED <<proc, queue, timer, initial, received, held>>
    BY <1>5 DEF TurnThrows
  <2>2. /\ Elements(batch) \subseteq Elements(Group(batch)) \union Elements(AfterGroup(batch))
        /\ Elements(Group(batch)) \subseteq Jobs /\ Elements(AfterGroup(batch)) \subseteq Jobs
    BY <1>0, <2>1, GroupSplit DEF ClientTypeOK
  <2>3. processing' \in BOOLEAN
    BY <2>1, Zenon
  <2>4. ClientTypeOK'
    BY <1>0, <2>1, <2>2, <2>3 DEF ClientTypeOK
  <2>5. BatchOK'
    BY <2>1, <2>2 DEF BatchOK, NothingHeldIsForgotten
  <2>6. QED
    BY <1>0, <1>5, <2>1, <2>4, <2>5, ShorterBatch
<1>6. CASE ProcessDies
  <2>1. /\ proc' = "down" /\ queue' = <<>> /\ batch' = <<>> /\ held' = {}
        /\ ~timer' /\ ~processing'
        /\ UNCHANGED <<received, answered, dropped>>
    BY <1>6 DEF ProcessDies
  <2>2. timer' \in BOOLEAN /\ processing' \in BOOLEAN /\ initial' \in BOOLEAN
    BY <1>6, Zenon DEF ProcessDies
  <2>3. ClientTypeOK'
    BY <1>0, <2>1, <2>2 DEF ClientTypeOK
  <2>4. BatchOK'
    BY <2>1 DEF BatchOK, NothingHeldIsForgotten
  <2>5. QED
    BY <1>0, <2>1, <2>3, <2>4, ShorterBatch DEF Stranded
<1>7. CASE ProcessStarts
  <2>1. /\ proc' = "up"
        /\ UNCHANGED <<queue, timer, processing, initial, batch, received, held,
                       answered, dropped>>
    BY <1>7 DEF ProcessStarts
  <2>2. ClientTypeOK' /\ BatchOK'
    BY <1>0, <2>1 DEF ClientTypeOK, BatchOK, NothingHeldIsForgotten
  <2>3. QED
    BY <1>0, <2>1, <2>2, ShorterBatch DEF Stranded
<1>8. ASSUME NEW c \in Conns, StreamEnds(c) PROVE Good
  BY <1>1, <1>8 DEF StreamEnds
<1>9. CASE ClientSteps
  BY <1>2, <1>3, <1>4, <1>5, <1>6, <1>7, <1>8, <1>9 DEF ClientSteps, ClientNext
<1>10. CASE GatewaySteps \/ (\E j \in Jobs : ReceiptLost(j)) \/ UNCHANGED vars
  BY <1>1, <1>10 DEF GatewaySteps, ReceiptLost, vars
<1>11. QED
  BY <1>9, <1>10 DEF Next

-----------------------------------------------------------------------------
(* The ledger of the queue                                                 *)

(* A job that a handler awaits a receipt for is claimed, and what is on a  *)
(* stream was sent.                                                        *)
PendingOK == \A j \in pending : row[j] = "claimed"

SentOK ==
    \A c \in Conns : \A i \in 1..Len(wire[c]) : row[wire[c][i]] # "absent"

LedgerInv == IInv /\ PendingOK /\ SentOK

(* No job is taken back.                                                   *)
LEMMA RowsStay ==
    ASSUME TypeOK, JobsOK, [Next]_vars
    PROVE  \A j \in Jobs : row[j] # "absent" => row'[j] # "absent"
<1>0. RowsOK
  BY DEF TypeOK, GatewayTypeOK, RowsOK
<1>1. CASE row' = row
  BY <1>1
<1>2. ASSUME NEW w \in Conns, Throw(w)
      PROVE  \A j \in Jobs : row[j] # "absent" => row'[j] # "absent"
  BY <1>0, <1>2 DEF Throw, RowsOK
<1>3. ASSUME NEW w \in Conns, HandleJob(w) \/ ReceiptTimeout(w)
      PROVE  row' = row \/ Throw(w)
  BY <1>3 DEF HandleJob, ReceiptTimeout
<1>4. ASSUME NEW w \in Conns, NEW j \in Jobs,
             Claim(w, j) \/ Enqueue(j) \/ ReceiptArrives(j)
      PROVE  \A k \in Jobs : row[k] # "absent" => row'[k] # "absent"
  BY <1>0, <1>4 DEF Claim, Enqueue, ReceiptArrives, RowsOK
<1>5. ASSUME NEW j \in Jobs, Enqueue(j) \/ ReceiptArrives(j)
      PROVE  \A k \in Jobs : row[k] # "absent" => row'[k] # "absent"
  BY <1>0, <1>5 DEF Enqueue, ReceiptArrives, RowsOK
<1>6. ASSUME NEW c \in Conns,
             \/ Connect(c) \/ AddConnection(c) \/ RegisterWorker(c)
             \/ ReplaceWorker(c) \/ ResumeWorker(c) \/ Abort(c) \/ StaleCleanup
      PROVE  row' = row
  BY <1>6 DEF Connect, AddConnection, RegisterWorker, ReplaceWorker, ResumeWorker,
              Abort, StaleCleanup, jobVars
<1>7. CASE StaleCleanup
  BY <1>1, <1>7 DEF StaleCleanup, jobVars
<1>8. CASE GatewaySteps
  BY <1>1, <1>2, <1>3, <1>4, <1>5, <1>6, <1>7, <1>8 DEF GatewaySteps, GatewayNext
<1>9. CASE ClientSteps \/ (\E j \in Jobs : ReceiptLost(j)) \/ UNCHANGED vars
  BY <1>1, <1>9 DEF ClientSteps, ReceiptLost, vars, gatewayVars
<1>10. QED
  BY <1>8, <1>9 DEF Next

(* A receipt is awaited as long as the handler of the claimed job waits.   *)
LEMMA StepPending ==
    ASSUME TypeOK, JobsOK, PendingOK, [Next]_vars
    PROVE  PendingOK'
<1>0. RowsOK
  BY DEF TypeOK, GatewayTypeOK, RowsOK
<1>1. CASE UNCHANGED <<row, pending>>
  BY <1>1 DEF PendingOK
<1>2. ASSUME NEW w \in Conns, Throw(w) PROVE PendingOK'
  BY <1>0, <1>2 DEF Throw, RowsOK, PendingOK
<1>3. ASSUME NEW w \in Conns, HandleJob(w) \/ ReceiptTimeout(w) PROVE PendingOK'
  <2>1. CASE Throw(w)
    BY <1>2, <2>1
  <2>2. CASE /\ busy[w] # NoJob /\ pending' = pending \union {busy[w]} /\ row' = row
    BY <2>2 DEF JobsOK, PendingOK
  <2>3. QED
    BY <1>3, <2>1, <2>2 DEF HandleJob, ReceiptTimeout
<1>4. ASSUME NEW w \in Conns, NEW j \in Jobs, Claim(w, j) PROVE PendingOK'
  BY <1>0, <1>4 DEF Claim, RowsOK, PendingOK
<1>5. ASSUME NEW j \in Jobs, Enqueue(j) PROVE PendingOK'
  BY <1>0, <1>5 DEF Enqueue, RowsOK, PendingOK
<1>6. ASSUME NEW j \in Jobs, ReceiptArrives(j) PROVE PendingOK'
  BY <1>0, <1>6 DEF ReceiptArrives, RowsOK, PendingOK
<1>7. ASSUME NEW c \in Conns,
             \/ Connect(c) \/ AddConnection(c) \/ RegisterWorker(c)
             \/ ReplaceWorker(c) \/ ResumeWorker(c) \/ Abort(c)
      PROVE  PendingOK'
  BY <1>1, <1>7 DEF Connect, AddConnection, RegisterWorker, ReplaceWorker,
                    ResumeWorker, Abort, jobVars
<1>8. CASE StaleCleanup
  BY <1>1, <1>8 DEF StaleCleanup, jobVars
<1>9. CASE GatewaySteps
  BY <1>3, <1>4, <1>5, <1>6, <1>7, <1>8, <1>9 DEF GatewaySteps, GatewayNext
<1>10. CASE ClientSteps \/ (\E j \in Jobs : ReceiptLost(j)) \/ UNCHANGED vars
  BY <1>1, <1>10 DEF ClientSteps, ReceiptLost, vars, gatewayVars
<1>11. QED
  BY <1>9, <1>10 DEF Next

(* What is written to a stream is the claimed job of a handler.            *)
LEMMA StepSent ==
    ASSUME TypeOK, JobsOK, SentOK, [Next]_vars
    PROVE  SentOK'
<1>0. /\ wire \in [Conns -> Seq(Jobs)] /\ conn \in Conns \union {NoConn}
      /\ busy \in [Conns -> Jobs \union {NoJob}]
      /\ \A c \in Conns : \A i \in 1..Len(wire[c]) : wire[c][i] \in Jobs
  <2>1. /\ wire \in [Conns -> Seq(Jobs)] /\ conn \in Conns \union {NoConn}
        /\ busy \in [Conns -> Jobs \union {NoJob}]
    BY DEF TypeOK, LinkTypeOK, GatewayTypeOK
  <2>2. ASSUME NEW c \in Conns, NEW i \in 1..Len(wire[c]) PROVE wire[c][i] \in Jobs
    <3>1. wire[c] \in Seq(Jobs)
      BY <2>1
    <3>2. QED
      BY <3>1
  <2>3. QED
    BY <2>1, <2>2
<1> DEFINE Kept(c) == \A i \in 1..Len(wire'[c]) :
                         \/ \E k \in 1..Len(wire[c]) : wire'[c][i] = wire[c][k]
                         \/ wire'[c][i] \in Jobs /\ row[wire'[c][i]] # "absent"
<1>1. ASSUME \A c \in Conns : Kept(c) PROVE SentOK'
  <2> SUFFICES ASSUME NEW c \in Conns, NEW i \in 1..Len(wire'[c])
               PROVE  row'[wire'[c][i]] # "absent"
    BY DEF SentOK
  <2>1. wire'[c][i] \in Jobs /\ row[wire'[c][i]] # "absent"
    <3>1. CASE \E k \in 1..Len(wire[c]) : wire'[c][i] = wire[c][k]
      BY <1>0, <3>1 DEF SentOK
    <3>2. QED
      BY <1>1, <3>1
  <2>2. QED
    BY <2>1, RowsStay
<1>2. CASE wire' = wire
  BY <1>1, <1>2
<1>3. ASSUME NEW c \in Conns, ReadJob(c) PROVE SentOK'
  <2>1. wire[c] \in Seq(Jobs) /\ wire[c] # <<>> /\ wire' = [wire EXCEPT ![c] = Tail(wire[c])]
    BY <1>0, <1>3 DEF ReadJob
  <2>2. /\ wire'[c] = Tail(wire[c])
        /\ \A d \in Conns \ {c} : wire'[d] = wire[d]
    BY <1>0, <2>1
  <2>3. /\ Len(Tail(wire[c])) = Len(wire[c]) - 1 /\ Len(wire[c]) \in Nat
        /\ \A i \in 1..Len(wire[c]) - 1 : Tail(wire[c])[i] = wire[c][i + 1]
    BY <2>1
  <2>4. Kept(c)
    <3> SUFFICES ASSUME NEW i \in 1..Len(wire'[c])
                 PROVE  \E k \in 1..Len(wire[c]) : wire'[c][i] = wire[c][k]
      OBVIOUS
    <3>1. i + 1 \in 1..Len(wire[c]) /\ wire'[c][i] = wire[c][i + 1]
      BY <2>2, <2>3
    <3>2. QED
      BY <3>1
  <2>5. QED
    BY <1>1, <2>2, <2>4
<1>4. ASSUME NEW w \in Conns, HandleJob(w) PROVE SentOK'
  <2>1. CASE conn \in Conns /\ wire' = [wire EXCEPT ![conn] = Append(wire[conn], busy[w])]
    <3>1. busy[w] \in Jobs /\ row[busy[w]] # "absent"
      BY <1>0, <1>4 DEF HandleJob, JobsOK
    <3>2. /\ wire'[conn] = Append(wire[conn], busy[w])
          /\ \A d \in Conns \ {conn} : wire'[d] = wire[d]
      BY <1>0, <2>1
    <3>3. wire[conn] \in Seq(Jobs)
      BY <1>0, <2>1
    <3>4. /\ Len(wire'[conn]) = Len(wire[conn]) + 1 /\ Len(wire[conn]) \in Nat
          /\ \A i \in 1..Len(wire[conn]) : wire'[conn][i] = wire[conn][i]
          /\ wire'[conn][Len(wire[conn]) + 1] = busy[w]
      BY <3>1, <3>2, <3>3, AppendProperties
    <3>5. Kept(conn)
      <4> SUFFICES ASSUME NEW i \in 1..Len(wire'[conn]),
                          \A k \in 1..Len(wire[conn]) : wire'[conn][i] # wire[conn][k]
                   PROVE  wire'[conn][i] = busy[w]
        BY <3>1
      <4>1. i = Len(wire[conn]) + 1
        BY <3>4
      <4>2. QED
        BY <3>4, <4>1
    <3>6. QED
      BY <1>1, <2>1, <3>2, <3>5
  <2>2. QED
    BY <1>0, <1>2, <1>4, <2>1 DEF HandleJob
<1>5. ASSUME \A c \in Conns : wire'[c] \in {wire[c], <<>>} PROVE SentOK'
  <2>1. ASSUME NEW c \in Conns PROVE Kept(c)
    <3>1. CASE wire'[c] = <<>>
      BY <3>1
    <3>2. QED
      BY <1>5, <3>1
  <2>2. QED
    BY <1>1, <2>1
<1>6. ASSUME NEW c \in Conns, StreamEnds(c) PROVE SentOK'
  BY <1>0, <1>5, <1>6 DEF StreamEnds
<1>7. CASE ProcessDies
  BY <1>0, <1>5, <1>7 DEF ProcessDies
<1>8. CASE ClientSteps
  BY <1>2, <1>3, <1>6, <1>7, <1>8
     DEF ClientSteps, ClientNext, TimerFires, TurnEnds, TurnThrows, ProcessStarts, linkVars
<1>9. ASSUME NEW c \in Conns,
             \/ Connect(c) \/ AddConnection(c) \/ RegisterWorker(c)
             \/ ReplaceWorker(c) \/ ResumeWorker(c) \/ Abort(c) \/ ReceiptTimeout(c)
             \/ \E j \in Jobs : Claim(c, j)
      PROVE  wire' = wire
  BY <1>9 DEF Connect, AddConnection, RegisterWorker, ReplaceWorker, ResumeWorker,
              Abort, ReceiptTimeout, Claim, linkVars
<1>10. ASSUME StaleCleanup \/ \E j \in Jobs : Enqueue(j) \/ ReceiptArrives(j)
       PROVE  wire' = wire
  BY <1>10 DEF StaleCleanup, Enqueue, ReceiptArrives, linkVars
<1>11. CASE GatewaySteps
  BY <1>2, <1>4, <1>9, <1>10, <1>11 DEF GatewaySteps, GatewayNext
<1>12. CASE (\E j \in Jobs : ReceiptLost(j)) \/ UNCHANGED vars
  BY <1>2, <1>12 DEF ReceiptLost, vars, linkVars
<1>13. QED
  BY <1>8, <1>11, <1>12 DEF Next

Mapped == [j \in Jobs |-> Standing(j)]

LEMMA LedgerInitHolds == Init => Ledger!LedgerInit
<1> SUFFICES ASSUME Init PROVE Ledger!LedgerInit
  OBVIOUS
<1>1. /\ row = [j \in Jobs |-> "absent"] /\ tries = [j \in Jobs |-> 0]
      /\ received = {}
  BY DEF Init, GatewayInit, ClientInit
<1>2. ASSUME NEW j \in Jobs PROVE Standing(j) = "absent"
  BY <1>1 DEF Standing
<1>3. QED
  BY <1>1, <1>2 DEF Ledger!LedgerInit

(* Every step is one of the ledger, or none.                               *)
LEMMA LedgerStep ==
    ASSUME LedgerInv, [Next]_vars
    PROVE  [Ledger!LedgerNext]_(Ledger!ledgerVars)
<1>0. RowsOK /\ TypeOK /\ JobsOK /\ ReceiptsOK
  BY DEF LedgerInv, IInv, TypeOK, GatewayTypeOK, RowsOK
<1> DEFINE Goal == [Ledger!LedgerNext]_(Ledger!ledgerVars)
<1>1. ASSUME Mapped' = Mapped, UNCHANGED <<received, tries>> PROVE Goal
  BY <1>1 DEF Mapped, Ledger!ledgerVars
<1>2. ASSUME UNCHANGED <<row, received, tries>> PROVE Goal
  BY <1>1, <1>2 DEF Mapped, Standing
<1>3. ASSUME NEW w \in Conns, Throw(w), busy[w] # NoJob, UNCHANGED received PROVE Goal
  <2> DEFINE j == busy[w]
  <2>1. /\ j \in Jobs /\ row[j] = "claimed" /\ tries[j] < MaxAttempts
        /\ tries[j] \in Nat /\ MaxAttempts \in Nat
    BY <1>0, <1>3, GatewayAssumption DEF RowsOK, JobsOK, GatewayAssumption
  <2>2. /\ tries' = [tries EXCEPT ![j] = tries[j] + 1]
        /\ row' = [row EXCEPT ![j] = IF tries[j] + 1 < MaxAttempts THEN "queued"
                                     ELSE "failed"]
    BY <1>3 DEF Throw
  <2> HIDE DEF j
  <2>3. received' = received /\ Standing(j) = "open"
    BY <1>3, <2>1 DEF Standing
  <2>4. CASE tries[j] + 1 < MaxAttempts
    <3>1. \A k \in Jobs : Standing(k)' = Standing(k)
      BY <1>0, <2>1, <2>2, <2>4 DEF Standing, RowsOK
    <3>2. Mapped' = Mapped
      BY <3>1 DEF Mapped
    <3>3. Ledger!Throw(j)
      BY <2>1, <2>2, <2>3, <3>2 DEF Ledger!Throw, Mapped
    <3>4. QED
      BY <2>1, <3>3 DEF Ledger!LedgerNext
  <2>5. CASE ~(tries[j] + 1 < MaxAttempts)
    <3>1. tries[j] + 1 = MaxAttempts
      BY <2>1, <2>5
    <3>2. \A k \in Jobs : Standing(k)' = IF k = j THEN "failed" ELSE Standing(k)
      BY <1>0, <2>1, <2>2, <2>5 DEF Standing, RowsOK
    <3>3. Mapped' = [Mapped EXCEPT ![j] = "failed"]
      BY <2>1, <3>2 DEF Mapped
    <3>4. Ledger!ThrowLast(j)
      BY <2>1, <2>2, <2>3, <3>1, <3>3 DEF Ledger!ThrowLast, Mapped
    <3>5. QED
      BY <2>1, <3>4 DEF Ledger!LedgerNext
  <2>6. QED
    BY <2>4, <2>5
<1>4. ASSUME NEW c \in Conns, ReadJob(c), UNCHANGED <<row, tries>> PROVE Goal
  <2>1. /\ wire[c] \in Seq(Jobs) /\ wire[c] # <<>>
        /\ received' = received \union {Head(wire[c])}
    BY <1>0, <1>4 DEF ReadJob, TypeOK, LinkTypeOK
  <2>2. PICK j \in Jobs : j = Head(wire[c]) /\ j = wire[c][1] /\ 1 \in 1..Len(wire[c])
    BY <2>1
  <2>3. row[j] # "absent"
    BY <2>2 DEF LedgerInv, SentOK
  <2>4. Mapped' = Mapped /\ Mapped[j] # "absent"
    BY <1>4, <2>3 DEF Mapped, Standing
  <2>5. received' = received \union {j}
    BY <2>1, <2>2
  <2>6. Ledger!Return(j)
    BY <1>4, <2>4, <2>5 DEF Ledger!Return, Mapped
  <2>7. QED
    BY <2>6 DEF Ledger!LedgerNext
<1>5. CASE ClientSteps
  <2>1. UNCHANGED <<row, tries>>
    BY <1>5 DEF ClientSteps, gatewayVars
  <2>2. ASSUME UNCHANGED received PROVE Goal
    BY <1>2, <2>1, <2>2
  <2>3. QED
    BY <1>4, <1>5, <2>1, <2>2
       DEF ClientSteps, ClientNext, StreamEnds, TimerFires, TurnEnds, TurnThrows,
           ProcessDies, ProcessStarts, clientVars
<1>6. ASSUME NEW j \in Jobs, Enqueue(j), UNCHANGED received PROVE Goal
  <2>1. /\ row[j] = "absent" /\ row' = [row EXCEPT ![j] = "queued"] /\ tries' = tries
    BY <1>6 DEF Enqueue
  <2>2. \A k \in Jobs : Standing(k)' = IF k = j THEN "open" ELSE Standing(k)
    BY <1>0, <2>1 DEF Standing, RowsOK
  <2>3. /\ Mapped' = [Mapped EXCEPT ![j] = "open"] /\ Mapped[j] = "absent"
        /\ received' = received
    BY <1>6, <2>1, <2>2 DEF Mapped, Standing
  <2>4. Ledger!Open(j)
    BY <2>1, <2>3 DEF Ledger!Open, Mapped
  <2>5. QED
    BY <2>4 DEF Ledger!LedgerNext
<1>7. ASSUME NEW w \in Conns, NEW j \in Jobs, Claim(w, j), UNCHANGED received PROVE Goal
  <2>1. /\ row[j] = "queued" /\ row' = [row EXCEPT ![j] = "claimed"] /\ tries' = tries
    BY <1>7 DEF Claim
  <2>2. \A k \in Jobs : Standing(k)' = Standing(k)
    BY <1>0, <2>1 DEF Standing, RowsOK
  <2>3. QED
    BY <1>1, <1>7, <2>1, <2>2 DEF Mapped
<1>8. ASSUME NEW j \in Jobs, ReceiptArrives(j), UNCHANGED received PROVE Goal
  <2>1. CASE UNCHANGED row
    BY <1>2, <1>8, <2>1 DEF ReceiptArrives
  <2>2. CASE j \in pending /\ row' = [row EXCEPT ![j] = "completed"]
    <3>1. row[j] = "claimed" /\ j \in received /\ tries' = tries
      BY <1>0, <1>8, <2>2 DEF LedgerInv, PendingOK, ReceiptsOK, ReceiptArrives
    <3>2. \A k \in Jobs : Standing(k)' = IF k = j THEN "completed" ELSE Standing(k)
      BY <1>0, <2>2 DEF Standing, RowsOK
    <3>3. /\ Mapped' = [Mapped EXCEPT ![j] = "completed"] /\ Mapped[j] = "open"
          /\ received' = received /\ j \in received
      BY <1>8, <3>1, <3>2 DEF Mapped, Standing
    <3>4. Ledger!Complete(j)
      BY <3>1, <3>3 DEF Ledger!Complete, Mapped
    <3>5. QED
      BY <3>4 DEF Ledger!LedgerNext
  <2>3. QED
    BY <1>8, <2>1, <2>2 DEF ReceiptArrives
<1>9. ASSUME NEW w \in Conns, HandleJob(w) \/ ReceiptTimeout(w), UNCHANGED received
      PROVE  Goal
  <2>1. busy[w] # NoJob
    BY <1>0, <1>9, LinkAssumption DEF HandleJob, ReceiptTimeout, RowsOK, LinkAssumption
  <2>2. CASE Throw(w)
    BY <1>3, <1>9, <2>1, <2>2
  <2>3. CASE UNCHANGED <<row, tries>>
    BY <1>2, <1>9, <2>3
  <2>4. QED
    BY <1>9, <2>2, <2>3 DEF HandleJob, ReceiptTimeout
<1>10. ASSUME NEW c \in Conns,
              \/ Connect(c) \/ AddConnection(c) \/ RegisterWorker(c)
              \/ ReplaceWorker(c) \/ ResumeWorker(c) \/ Abort(c)
       PROVE  UNCHANGED <<row, tries>>
  BY <1>10 DEF Connect, AddConnection, RegisterWorker, ReplaceWorker, ResumeWorker,
               Abort, jobVars
<1>11. CASE GatewaySteps
  <2>1. UNCHANGED received
    BY <1>11 DEF GatewaySteps, clientVars
  <2>2. CASE StaleCleanup
    BY <1>2, <2>1, <2>2 DEF StaleCleanup, jobVars
  <2>3. QED
    BY <1>2, <1>6, <1>7, <1>8, <1>9, <1>10, <1>11, <2>1, <2>2
       DEF GatewaySteps, GatewayNext
<1>12. CASE (\E j \in Jobs : ReceiptLost(j)) \/ UNCHANGED vars
  BY <1>2, <1>12 DEF ReceiptLost, vars, gatewayVars, clientVars
<1>13. QED
  BY <1>5, <1>11, <1>12 DEF Next

-----------------------------------------------------------------------------
(* The theorems                                                            *)

LEMMA IInvHolds == Spec => []IInv
<1>1. IInv /\ [Next]_vars => IInv'
  <2> SUFFICES ASSUME IInv, [Next]_vars PROVE IInv'
    OBVIOUS
  <2>1. RowsOK' /\ JobsOK' /\ ReceiptsOK'
    BY StepJobs DEF IInv
  <2>2. ConnectionsOK' /\ HandlersOK' /\ WorkersOK'
    BY StepLinked DEF IInv, LinkedOK
  <2>3. WiresOK'
    BY StepWires DEF IInv
  <2>4. ClientTypeOK' /\ BatchOK'
    BY StepBatch DEF IInv
  <2>5. TypeOK'
    BY <2>1, <2>2, <2>3, <2>4
       DEF TypeOK, LinkTypeOK, GatewayTypeOK, RowsOK, ConnectionsOK, WiresOK
  <2>6. QED
    BY <2>1, <2>2, <2>4, <2>5 DEF IInv
<1>2. QED
  BY InitIInv, <1>1, PTL DEF Spec

(* Every variable of the gateway, the link and the worker keeps its type;  *)
(* in particular no job gets more attempts than it may have (index.ts,     *)
(* job-router.ts, sse-client.ts, message-batcher.ts).                      *)
THEOREM TypeCorrect == Spec => []TypeOK
<1>1. IInv => TypeOK
  BY DEF IInv
<1>2. QED
  BY IInvHolds, <1>1, PTL

(* However handlers of old and new connections interleave, a connected     *)
(* worker is served (index.ts handleStreamConnection, runCleanup).         *)
THEOREM ConnectedIsServed == Spec => []OpenConnectionServed
<1>1. IInv => OpenConnectionServed
  <2> SUFFICES ASSUME IInv, HandlersSettled, reading \notin ended \union {NoConn},
                      ~stale
               PROVE  conn = reading /\ cur # NoConn /\ worker[cur] = "live"
    BY DEF OpenConnectionServed
  <2>1. reading \in Conns /\ HandlersOK
    BY DEF IInv, TypeOK, LinkTypeOK
  <2>2. stage[reading] = "open"
    BY <2>1 DEF HandlersOK, HandlersSettled
  <2>3. \A c \in Conns : stage[c] # "resuming"
    BY DEF HandlersSettled
  <2>4. QED
    BY <2>1, <2>2, <2>3 DEF HandlersOK
<1>2. QED
  BY IInvHolds, <1>1, PTL

(* Without a connection no worker of the queue claims jobs, unless one was *)
(* resumed too late or lost (index.ts runCleanup, job-router.ts).          *)
THEOREM IdleIsPaused == Spec => []IdleQueueIsPaused
<1>1. IInv => IdleQueueIsPaused
  <2> SUFFICES ASSUME IInv, conn = NoConn, ~late, ~stale, NEW w \in Conns \ leaked
               PROVE  worker[w] # "live"
    BY DEF IdleQueueIsPaused
  <2>1. CASE w = cur
    BY <2>1, LinkAssumption DEF IInv, WorkersOK, LinkAssumption
  <2>2. CASE w # cur
    BY <2>2 DEF IInv, WorkersOK
  <2>3. QED
    BY <2>1, <2>2
<1>2. QED
  BY IInvHolds, <1>1, PTL

(* A completed run was read by a worker process (job-router.ts handleJob,  *)
(* acknowledgeJob).                                                        *)
THEOREM CompletedIsRead == Spec => []CompletedWasReceived
<1>1. IInv => CompletedWasReceived
  BY DEF IInv, ReceiptsOK
<1>2. QED
  BY IInvHolds, <1>1, PTL

(* The batcher loses no message that was acknowledged                      *)
(* (message-batcher.ts processBatch, sse-client.ts).                       *)
THEOREM NothingIsForgotten == Spec => []NothingHeldIsForgotten
<1>1. IInv => NothingHeldIsForgotten
  BY DEF IInv, BatchOK
<1>2. QED
  BY IInvHolds, <1>1, PTL

(* Batches never overlap (message-batcher.ts isProcessing).                *)
THEOREM BatchesApart == Spec => OneBatchAtATime
<1>1. IInv /\ [Next]_vars =>
          [batch # <<>> =>
              \E n \in 1..Len(batch) + 1 : batch' = SubSeq(batch, n, Len(batch))]_vars
  BY StepBatch DEF IInv, Shorter
<1>2. QED
  BY IInvHolds, <1>1, PTL DEF Spec, OneBatchAtATime

(* Nothing but a turn that throws leaves messages without a window         *)
(* (message-batcher.ts processBatch).                                      *)
THEOREM ThrowsStrand == Spec => OnlyAThrowStrands
<1>1. IInv /\ [Next]_vars => [~Stranded /\ Stranded' => TurnThrows]_vars
  BY StepBatch DEF IInv
<1>2. QED
  BY IInvHolds, <1>1, PTL DEF Spec, OnlyAThrowStrands

(* The runs of a deployment live by the ledger of the queue, whatever its  *)
(* connections and its worker do (job-router.ts handleJob, acknowledgeJob).*)
THEOREM SessionKeepsLedger == Spec => ImplementsLedger
<1>1. Init => LedgerInv
  <2>1. Init => PendingOK /\ SentOK
    BY DEF Init, LinkInit, GatewayInit, PendingOK, SentOK
  <2>2. QED
    BY <2>1, InitIInv DEF LedgerInv
<1>2. LedgerInv /\ IInv' /\ [Next]_vars => LedgerInv'
  BY StepPending, StepSent DEF LedgerInv, IInv
<1>3. Spec => []LedgerInv
  BY <1>1, <1>2, IInvHolds, PTL DEF Spec
<1>4. LedgerInv /\ [Next]_vars => [Ledger!LedgerNext]_(Ledger!ledgerVars)
  BY LedgerStep
<1>5. QED
  BY LedgerInitHolds, <1>3, <1>4, PTL DEF Spec, ImplementsLedger, Ledger!LedgerSpec
=============================================================================
