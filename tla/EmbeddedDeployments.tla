------------------------- MODULE EmbeddedDeployments -------------------------
(* The worker subprocesses of the gateway's replicas, and the advisory     *)
(* locks that keep two of them from working on one conversation            *)
(* (gateway/orchestration/impl/embedded-deployment.ts). A pod keeps its    *)
(* children by the name of their deployment, Postgres keeps the locks by   *)
(* (organization, agent, conversation); neither follows from the other. A  *)
(* step is what the code does between two awaits or in one event handler,  *)
(* or one statement of the database. A pod that is started again is        *)
(* another element of Pods.                                                *)
EXTENDS Integers, FiniteSets

CONSTANTS
    Pods,           \* the gateway processes
    Names,          \* deployment names
    Keys,           \* what the conversation locks are keyed by
    None,
    MaxChildren,    \* bound: calls of spawnDeployment that pass its guards
    MaxReserved,    \* getMaxReservedLocks()
    MaxLost         \* bound: reserved connections that break

Children == 1..MaxChildren

Turns == [pod : Pods, name : Names, key : Keys]

ASSUME ConstantsAssumption ==
    /\ MaxChildren \in Nat /\ MaxReserved \in Nat /\ MaxLost \in Nat
    /\ None \notin Children \union Pods \union Turns

VARIABLES
    running,        \* the pods that are up
    of,             \* the turn a child was made for
    phase,          \* where a child is, from the reservation to its exit
    conn,           \* its reserved connection: none, held, unlocking, done
    workers,        \* this.workers of a pod: deployment name to child
    creating,       \* inFlightCreates
    intentional,    \* intentionalExits
    reserved,       \* reservedLockCount
    holder,         \* pg_locks: the child whose connection has the lock
    stuck,          \* the pod in whose pool a connection still has it
    killed,         \* history: children that killWorker was called for
    reported,       \* history: children whose end failed their turns
    severed         \* history: children whose reserved connection broke

podVars == <<workers, creating, intentional, reserved>>
lockVars == <<holder, stuck>>
historyVars == <<killed, reported, severed>>
vars == <<running, of, phase, conn, podVars, lockVars, historyVars>>

Phases == {"unused", "locking", "refused", "preparing", "alive", "dead", "gone"}

TypeOK ==
    /\ running \subseteq Pods
    /\ of \in [Children -> Turns \union {None}]
    /\ phase \in [Children -> Phases]
    /\ conn \in [Children -> {"none", "held", "unlocking", "done"}]
    /\ workers \in [Pods -> [Names -> Children \union {None}]]
    /\ creating \in [Pods -> SUBSET Names]
    /\ intentional \in [Pods -> SUBSET Names]
    /\ reserved \in [Pods -> 0..MaxReserved]
    /\ holder \in [Keys -> Children \union {None}]
    /\ stuck \in [Keys -> Pods \union {None}]
    /\ killed \subseteq Children /\ reported \subseteq Children
    /\ severed \subseteq Children
    /\ \A c \in Children : phase[c] # "unused" => of[c] # None

Init ==
    /\ running = Pods
    /\ of = [c \in Children |-> None]
    /\ phase = [c \in Children |-> "unused"]
    /\ conn = [c \in Children |-> "none"]
    /\ workers = [p \in Pods |-> [n \in Names |-> None]]
    /\ creating = [p \in Pods |-> {}]
    /\ intentional = [p \in Pods |-> {}]
    /\ reserved = [p \in Pods |-> 0]
    /\ holder = [k \in Keys |-> None]
    /\ stuck = [k \in Keys |-> None]
    /\ killed = {} /\ reported = {} /\ severed = {}

-----------------------------------------------------------------------------
Up(c) == phase[c] # "unused" /\ of[c].pod \in running

Goes(c, ph) == phase' = [phase EXCEPT ![c] = ph]

(* ensureDeployment's promise settles.                                     *)
Settled(c) ==
    creating' = [creating EXCEPT ![of[c].pod] = @ \ {of[c].name}]

(* What is in the map under the child's name, whoever it is, is deleted.   *)
Forget(c) ==
    workers' = [workers EXCEPT ![of[c].pod][of[c].name] = None]

GiveBack(c) == reserved' = [reserved EXCEPT ![of[c].pod] = @ - 1]

Free(k, p) == holder[k] = None /\ stuck[k] \in {None, p}

Unlocked(c) ==
    holder' = [k \in Keys |-> IF holder[k] = c THEN None ELSE holder[k]]

-----------------------------------------------------------------------------
(* Faulty: the cap is compared with the locks that were granted.           *)
EnsureUncounted(c, p, n, k) ==
    /\ phase[c] = "unused" /\ \A d \in 1..(c - 1) : phase[d] # "unused"
    /\ p \in running
    /\ n \notin creating[p] /\ workers[p][n] = None
    /\ Cardinality({d \in Children : Up(d) /\ of[d].pod = p
                                     /\ conn[d] = "held"}) < MaxReserved
    /\ of' = [of EXCEPT ![c] = [pod |-> p, name |-> n, key |-> k]]
    /\ Goes(c, "locking")
    /\ creating' = [creating EXCEPT ![p] = @ \union {n}]
    /\ reserved' = [reserved EXCEPT ![p] = @ + 1]
    /\ UNCHANGED <<running, conn, workers, intentional, lockVars, historyVars>>

(* ensureDeployment and spawnDeployment up to the first await. A call for  *)
(* a name that is being created or is there, for a turn without a key, or  *)
(* above the cap changes nothing. (Turns without a run id, which need no   *)
(* lock, are not considered.)                                              *)
Ensure(c, p, n, k) ==
    /\ phase[c] = "unused" /\ \A d \in 1..(c - 1) : phase[d] # "unused"
    /\ p \in running
    /\ n \notin creating[p] /\ workers[p][n] = None
    /\ reserved[p] < MaxReserved
    /\ of' = [of EXCEPT ![c] = [pod |-> p, name |-> n, key |-> k]]
    /\ Goes(c, "locking")
    /\ creating' = [creating EXCEPT ![p] = @ \union {n}]
    /\ reserved' = [reserved EXCEPT ![p] = @ + 1]
    /\ UNCHANGED <<running, conn, workers, intentional, lockVars, historyVars>>

(* pg_try_advisory_lock is granted. A lock that is stuck is granted again  *)
(* to the connection that has it, if the pool hands out that one.          *)
LockTaken(c) ==
    /\ Up(c) /\ phase[c] = "locking"
    /\ Free(of[c].key, of[c].pod)
    /\ holder' = [holder EXCEPT ![of[c].key] = c]
    /\ conn' = [conn EXCEPT ![c] = "held"]
    /\ Goes(c, "preparing")
    /\ UNCHANGED <<running, of, podVars, stuck, historyVars>>

(* It is not, or reserve() or the query fail.                              *)
LockRefused(c) ==
    /\ Up(c) /\ phase[c] = "locking"
    /\ GiveBack(c) /\ Settled(c) /\ Goes(c, "refused")
    /\ UNCHANGED <<running, of, conn, workers, intentional, lockVars,
                   historyVars>>

(* generateEnvironmentVariables or spawn() throws.                         *)
PreparationFails(c) ==
    /\ Up(c) /\ phase[c] = "preparing"
    /\ conn' = [conn EXCEPT ![c] = "unlocking"]
    /\ Settled(c) /\ Goes(c, "refused")
    /\ UNCHANGED <<running, of, workers, intentional, reserved, lockVars,
                   historyVars>>

StartChild(c) ==
    /\ Up(c) /\ phase[c] = "preparing"
    /\ workers' = [workers EXCEPT ![of[c].pod][of[c].name] = c]
    /\ Settled(c) /\ Goes(c, "alive")
    /\ UNCHANGED <<running, of, conn, intentional, reserved, lockVars,
                   historyVars>>

(* The child's error event, which comes before anything else can see the   *)
(* entry: it is as if there had been none.                                 *)
ChildCannotStart(c) ==
    /\ Up(c) /\ phase[c] = "preparing"
    /\ Forget(c)
    /\ conn' = [conn EXCEPT ![c] = "unlocking"]
    /\ intentional' = [intentional EXCEPT ![of[c].pod] = @ \ {of[c].name}]
    /\ reported' = reported \union {c}
    /\ Settled(c) /\ Goes(c, "gone")
    /\ UNCHANGED <<running, of, reserved, lockVars, killed, severed>>

-----------------------------------------------------------------------------
(* Faulty: the lock is released before the child is asked to end.          *)
KillWorkerReleases(p, n) ==
    /\ p \in running /\ workers[p][n] # None
    /\ intentional' = [intentional EXCEPT ![p] = @ \union {n}]
    /\ workers' = [workers EXCEPT ![p][n] = None]
    /\ killed' = killed \union {workers[p][n]}
    /\ conn' = [conn EXCEPT ![workers[p][n]] = "unlocking"]
    /\ UNCHANGED <<running, of, phase, creating, reserved, lockVars,
                   reported, severed>>

(* killWorker up to its await, for an idle, an old or an excess deployment *)
(* or when the orchestrator stops.                                         *)
KillWorker(p, n) ==
    /\ p \in running /\ workers[p][n] # None
    /\ intentional' = [intentional EXCEPT ![p] = @ \union {n}]
    /\ workers' = [workers EXCEPT ![p][n] = None]
    /\ killed' = killed \union {workers[p][n]}
    /\ UNCHANGED <<running, of, phase, conn, creating, reserved, lockVars,
                   reported, severed>>

(* A child ends by itself, by a signal, or after its pod has gone.         *)
ChildEnds(c) ==
    /\ phase[c] = "alive"
    /\ Goes(c, "dead")
    /\ UNCHANGED <<running, of, conn, podVars, lockVars, historyVars>>

(* The timer of killWorker: who does not end on SIGTERM gets SIGKILL.      *)
KillTimer(c) == Up(c) /\ c \in killed /\ ChildEnds(c)

(* Faulty: the flag is looked at and stays.                                *)
ChildExitedKeepsFlag(c) ==
    /\ Up(c) /\ phase[c] = "dead"
    /\ Forget(c)
    /\ conn' = [conn EXCEPT ![c] = "unlocking"]
    /\ reported' = IF of[c].name \in intentional[of[c].pod]
                   THEN reported ELSE reported \union {c}
    /\ Goes(c, "gone")
    /\ UNCHANGED <<running, of, creating, intentional, reserved, lockVars,
                   killed, severed>>

(* The exit handler: it takes entry and flag away by name, starts the      *)
(* release, and fails the turns unless it found the flag.                  *)
ChildExited(c) ==
    /\ Up(c) /\ phase[c] = "dead"
    /\ Forget(c)
    /\ conn' = [conn EXCEPT ![c] = "unlocking"]
    /\ intentional' = [intentional EXCEPT ![of[c].pod] = @ \ {of[c].name}]
    /\ reported' = IF of[c].name \in intentional[of[c].pod]
                   THEN reported ELSE reported \union {c}
    /\ Goes(c, "gone")
    /\ UNCHANGED <<running, of, creating, reserved, lockVars, killed, severed>>

-----------------------------------------------------------------------------
(* Faulty: who has lost the lock does not give the connection back.        *)
UnlockOwned(c) ==
    /\ Up(c) /\ conn[c] = "unlocking" /\ \E k \in Keys : holder[k] = c
    /\ Unlocked(c)
    /\ conn' = [conn EXCEPT ![c] = "done"] /\ GiveBack(c)
    /\ UNCHANGED <<running, of, phase, workers, creating, intentional, stuck,
                   historyVars>>

(* pg_advisory_unlock, and the connection goes back to the pool.           *)
Unlock(c) ==
    /\ Up(c) /\ conn[c] = "unlocking"
    /\ Unlocked(c)
    /\ conn' = [conn EXCEPT ![c] = "done"] /\ GiveBack(c)
    /\ UNCHANGED <<running, of, phase, workers, creating, intentional, stuck,
                   historyVars>>

(* All attempts fail: the connection goes back with its lock, if it is     *)
(* still alive.                                                            *)
UnlockFails(c) ==
    /\ Up(c) /\ conn[c] = "unlocking" /\ c \notin severed
    /\ Unlocked(c)
    /\ stuck' = [stuck EXCEPT ![of[c].key] = of[c].pod]
    /\ conn' = [conn EXCEPT ![c] = "done"] /\ GiveBack(c)
    /\ UNCHANGED <<running, of, phase, workers, creating, intentional,
                   historyVars>>

(* The server ends the session of a reserved connection, and with it the   *)
(* lock. Nothing in the gateway notices.                                   *)
SessionLost(c) ==
    /\ Up(c) /\ conn[c] \in {"held", "unlocking"} /\ c \notin severed
    /\ Cardinality(severed) < MaxLost
    /\ severed' = severed \union {c}
    /\ Unlocked(c)
    /\ UNCHANGED <<running, of, phase, conn, podVars, stuck, killed, reported>>

(* The pool recycles the connection that has a stuck lock.                 *)
StuckConnectionCloses(k) ==
    /\ stuck[k] # None
    /\ stuck' = [stuck EXCEPT ![k] = None]
    /\ UNCHANGED <<running, of, phase, conn, podVars, holder, historyVars>>

(* A gateway process ends; its sessions end with it, its children may live *)
(* on for a while.                                                         *)
PodCrashes(p) ==
    /\ p \in running
    /\ running' = running \ {p}
    /\ LET mine == {c \in Children : phase[c] # "unused" /\ of[c].pod = p} IN
       /\ phase' = [c \in Children |->
                       IF c \in mine /\ phase[c] \in {"locking", "preparing"}
                       THEN "refused" ELSE phase[c]]
       /\ conn' = [c \in Children |->
                      IF c \in mine /\ conn[c] # "none" THEN "done" ELSE conn[c]]
       /\ holder' = [k \in Keys |->
                        IF holder[k] \in mine THEN None ELSE holder[k]]
    /\ stuck' = [k \in Keys |-> IF stuck[k] = p THEN None ELSE stuck[k]]
    /\ workers' = [workers EXCEPT ![p] = [n \in Names |-> None]]
    /\ creating' = [creating EXCEPT ![p] = {}]
    /\ intentional' = [intentional EXCEPT ![p] = {}]
    /\ reserved' = [reserved EXCEPT ![p] = 0]
    /\ UNCHANGED <<of, historyVars>>

-----------------------------------------------------------------------------
ChildStep(c) ==
    \/ \E p \in Pods, n \in Names, k \in Keys : Ensure(c, p, n, k)
    \/ LockTaken(c) \/ LockRefused(c)
    \/ PreparationFails(c) \/ StartChild(c) \/ ChildCannotStart(c)
    \/ ChildEnds(c) \/ KillTimer(c) \/ ChildExited(c)
    \/ Unlock(c) \/ UnlockFails(c) \/ SessionLost(c)

Next ==
    \/ \E c \in Children : ChildStep(c)
    \/ \E p \in Pods, n \in Names : KillWorker(p, n)
    \/ \E k \in Keys : StuckConnectionCloses(k)
    \/ \E p \in Pods : PodCrashes(p)

Spec == Init /\ [][Next]_vars

(* The release ends, with the lock or without it.                          *)
Released(c) == Unlock(c) \/ UnlockFails(c)

(* While its pod is up, a child that was told to end is killed when the    *)
(* timer rings, its exit event is handled, and each attempt to unlock ends.*)
FairTo(c) ==
    WF_vars(KillTimer(c)) /\ WF_vars(ChildExited(c)) /\ WF_vars(Released(c))

Fairness == \A c \in Children : FairTo(c)

FairSpec == Spec /\ Fairness

-----------------------------------------------------------------------------
(* A child's lock is there for sure only while its pod is up and its       *)
(* connection has not broken.                                              *)
Guarded(c) == of[c].pod \in running /\ c \notin severed

(* Two living workers never work on one conversation, unless the database  *)
(* session behind the lock of one of them was lost: they would start from  *)
(* the same snapshot, and one would overwrite the other's                  *)
(* (spawnDeployment, acquireConversationLock, killWorker).                 *)
OneWriterPerConversation ==
    \A c, d \in Children :
        /\ c # d /\ phase[c] = "alive" /\ phase[d] = "alive"
        /\ of[c].key = of[d].key
        => ~Guarded(c) \/ ~Guarded(d)

(* Another child of the name and pod, whose lock did not keep the two      *)
(* apart: it has another key, or a session was lost.                       *)
Rival(c, d) ==
    /\ d # c /\ of[d] # None
    /\ of[d].pod = of[c].pod /\ of[d].name = of[c].name
    /\ of[d].key = of[c].key => c \in severed \/ d \in severed

(* A worker that nobody stopped is in the map, where the idle clean-up and *)
(* the next dispatch find it; only the late exit of a rival may have taken *)
(* its entry away (the exit handler in spawnDeployment).                   *)
LivingWorkersAreKnown ==
    \A c \in Children :
        phase[c] = "alive" /\ Up(c) /\ c \notin killed =>
            \/ workers[of[c].pod][of[c].name] = c
            \/ \E d \in Children : Rival(c, d) /\ phase[d] = "gone"

(* The end of a worker fails its turns if nobody stopped it, unless it     *)
(* found the flag of a rival that was, and does not if somebody did,       *)
(* unless a rival took its flag (intentionalExits).                        *)
CrashesAreTold ==
    [][\A c \in Children : phase[c] = "dead" /\ phase'[c] = "gone" =>
          /\ c \notin killed =>
                \/ c \in reported'
                \/ \E d \in Children : Rival(c, d) /\ d \in killed
          /\ c \in killed =>
                \/ c \notin reported'
                \/ \E d \in Children : Rival(c, d) /\ phase[d] = "gone"]_vars

(* The counter says how many connections are in use, up to the awaits of   *)
(* reservation and release, and they never exceed the cap: the rest of the *)
(* pool stays for queries (acquireConversationLock).                       *)
ReservationsAreCounted ==
    \A p \in running :
        /\ reserved[p] <= MaxReserved
        /\ reserved[p] =
             Cardinality({c \in Children :
                 /\ Up(c) /\ of[c].pod = p
                 /\ phase[c] = "locking" \/ conn[c] \in {"held", "unlocking"}})

(* A worker that somebody stopped gives its connection back, with the lock *)
(* or without it, unless its pod ends first and its sessions with it: for  *)
(* no conversation does a stopped worker stand in the way of the next one  *)
(* (killWorker, the exit handler, releaseConversationLock).                *)
StoppedWorkersGiveBack == \A c \in Children : c \in killed ~> conn[c] = "done"

(* Every wait on that way has a step that ends it: the kill, the handler   *)
(* of the exit and the end of the release can each happen whatever the     *)
(* other children, the lost sessions and the locks have come to.           *)
NothingIsStuck ==
    \A c \in Children :
        /\ Up(c) /\ c \in killed /\ phase[c] = "alive" =>
             ENABLED <<KillTimer(c)>>_vars
        /\ Up(c) /\ phase[c] = "dead" => ENABLED <<ChildExited(c)>>_vars
        /\ Up(c) /\ conn[c] = "unlocking" => ENABLED <<Released(c)>>_vars
=============================================================================
