---------------------- MODULE EmbeddedDeploymentsProofs ----------------------
(***************************************************************************)
(* What holds of EmbeddedDeployments for any number of pods, deployments,  *)
(* conversations and children, and any cap.                                *)
(***************************************************************************)
EXTENDS EmbeddedDeployments, FiniteSetTheorems, TLAPS

-----------------------------------------------------------------------------
(* The inductive invariant                                                 *)

(* What the phase of a child says about its turn, connection and history.  *)
PhaseOK(c) ==
    /\ phase[c] = "unused" => of[c] = None
    /\ phase[c] \in {"unused", "locking"} => conn[c] = "none"
    /\ phase[c] \in {"preparing", "alive", "dead"} /\ Up(c) => conn[c] = "held"
    /\ c \in killed => phase[c] \in {"alive", "dead", "gone"}
    /\ c \in severed => conn[c] # "none"
    /\ phase[c] = "gone" => conn[c] \in {"unlocking", "done"}
    /\ phase[c] \in {"alive", "dead", "gone"} /\ ~Up(c) => conn[c] = "done"

(* A reserved connection that did not break has the lock it was made for.  *)
LockOK(c) ==
    Up(c) /\ conn[c] = "held" /\ c \notin severed => holder[of[c].key] = c

(* An entry of the map is a child of that name that nobody stopped.        *)
EntryOK(p, n) ==
    LET c == workers[p][n] IN
    c # None => /\ of[c] # None /\ of[c].pod = p /\ of[c].name = n
                /\ phase[c] \in {"alive", "dead"} /\ c \notin killed

(* A pod prepares one child of a name at a time, and has none then.        *)
Preparing(c) == Up(c) /\ phase[c] \in {"locking", "preparing"}

CreatingOK(c) ==
    Preparing(c) =>
        /\ of[c].name \in creating[of[c].pod]
        /\ workers[of[c].pod][of[c].name] = None
        /\ \A d \in Children :
              Preparing(d) /\ of[d].pod = of[c].pod /\ of[d].name = of[c].name
              => d = c

Running(c) == Up(c) /\ phase[c] \in {"alive", "dead"}

RivalGone(c) == \E d \in Children : Rival(c, d) /\ phase[d] = "gone"

KnownOK(c) ==
    Running(c) /\ c \notin killed =>
        workers[of[c].pod][of[c].name] = c \/ RivalGone(c)

(* A flag waits for the exit of a child that was stopped, and a child that *)
(* was stopped finds its flag.                                             *)
FlagOK(c) ==
    Running(c) /\ c \in killed =>
        of[c].name \in intentional[of[c].pod] \/ RivalGone(c)

FlagsMeant ==
    \A p \in Pods : \A n \in intentional[p] : \E d \in killed :
        of[d] # None /\ of[d].pod = p /\ of[d].name = n /\ Running(d)

(* The connections that a pod has in use.                                  *)
Slots(p) ==
    {c \in Children : /\ Up(c) /\ of[c].pod = p
                      /\ phase[c] = "locking" \/ conn[c] \in {"held", "unlocking"}}

Counted == \A p \in running : reserved[p] = Cardinality(Slots(p))

ChildOK == \A c \in Children : PhaseOK(c) /\ LockOK(c)

MapOK ==
    /\ \A p \in Pods, n \in Names : EntryOK(p, n)
    /\ \A c \in Children : CreatingOK(c) /\ KnownOK(c)

FlagsOK == FlagsMeant /\ \A c \in Children : FlagOK(c)

(* What has not ended was not reported.                                    *)
Untold == \A c \in reported : phase[c] = "gone"

IInv == TypeOK /\ Untold /\ Counted /\ ChildOK /\ MapOK /\ FlagsOK

-----------------------------------------------------------------------------
(* Helpers                                                                 *)

(* A turn's fields are what they should be.                                *)
LEMMA TurnFields ==
    ASSUME TypeOK, NEW c \in Children, phase[c] # "unused"
    PROVE  /\ of[c] \in Turns /\ of[c] # None
           /\ of[c].pod \in Pods /\ of[c].name \in Names /\ of[c].key \in Keys
BY DEF TypeOK, Turns

LEMMA SlotsFinite == \A p : IsFiniteSet(Slots(p))
<1>1. IsFiniteSet(Children)
  BY FS_Interval, ConstantsAssumption DEF Children
<1>2. QED
  BY <1>1, FS_Subset DEF Slots

(* One child more or less.                                                 *)
LEMMA SlotsChange ==
    ASSUME NEW p, NEW c, NEW T
    PROVE  /\ c \notin Slots(p) /\ T = Slots(p) \union {c} =>
                Cardinality(T) = Cardinality(Slots(p)) + 1
           /\ c \in Slots(p) /\ T = Slots(p) \ {c} =>
                Cardinality(T) = Cardinality(Slots(p)) - 1
<1>1. IsFiniteSet(Slots(p))
  BY SlotsFinite
<1>2. Cardinality(Slots(p) \union {c}) =
        IF c \in Slots(p) THEN Cardinality(Slots(p))
        ELSE Cardinality(Slots(p)) + 1
  BY <1>1, FS_AddElement
<1>3. Cardinality(Slots(p) \ {c}) =
        IF c \in Slots(p) THEN Cardinality(Slots(p)) - 1
        ELSE Cardinality(Slots(p))
  BY <1>1, FS_RemoveElement
<1>4. QED
  BY <1>2, <1>3

(* Who has a slot is counted.                                              *)
LEMMA SlotsCounted ==
    ASSUME TypeOK, Counted, NEW c \in Children, Up(c), c \in Slots(of[c].pod)
    PROVE  reserved[of[c].pod] \in 1..MaxReserved
<1>1. of[c].pod \in running /\ of[c].pod \in Pods
  BY TurnFields DEF Up
<1>2. Cardinality(Slots(of[c].pod)) \in Nat
  BY SlotsFinite, FS_CardinalityType
<1>3. Cardinality(Slots(of[c].pod)) # 0
  BY SlotsFinite, FS_EmptySet
<1>4. QED
  BY <1>1, <1>2, <1>3, ConstantsAssumption DEF TypeOK, Counted

(* Two children of one name and pod that both have their connections are   *)
(* rivals, for the lock has one holder.                                    *)
LEMMA TwoAreRivals ==
    ASSUME TypeOK, ChildOK, NEW c \in Children, NEW d \in Children, c # d,
           Up(c), conn[c] = "held", Up(d), conn[d] = "held",
           of[d].pod = of[c].pod, of[d].name = of[c].name
    PROVE  Rival(c, d)
<1>1. of[d] # None
  BY TurnFields DEF Up
<1>2. QED
  BY <1>1 DEF ChildOK, LockOK, Rival

(* A rival that is gone stays one.                                         *)
LEMMA RivalsStay ==
    ASSUME TypeOK, NEW c \in Children, of[c] # None, RivalGone(c),
           \A d \in Children : of[d] # None => of'[d] = of[d],
           \A d \in Children : phase[d] = "gone" => phase'[d] = "gone",
           severed \subseteq severed'
    PROVE  RivalGone(c)'
BY DEF RivalGone, Rival

-----------------------------------------------------------------------------
(* It is inductive                                                         *)

LEMMA InitIInv == Init => IInv
<1> SUFFICES ASSUME Init PROVE IInv
  OBVIOUS
<1>1. TypeOK
  BY ConstantsAssumption DEF Init, TypeOK, Phases
<1>2. \A p : Slots(p) = {}
  BY DEF Init, Slots, Up
<1>3. Counted
  BY <1>2, FS_EmptySet DEF Init, Counted
<1>4. QED
  BY <1>1, <1>3
     DEF Init, IInv, ChildOK, PhaseOK, LockOK, MapOK, EntryOK, CreatingOK,
         Preparing, KnownOK, Running, Up, FlagsOK, FlagsMeant, FlagOK, Untold

LEMMA StepTypeOK == ASSUME IInv, [Next]_vars PROVE TypeOK'
<1> USE ConstantsAssumption DEF IInv, TypeOK, Phases, 
    Up, Goes, Settled, Forget, GiveBack, Free, Unlocked, podVars, lockVars,
    historyVars
<1>1. ASSUME NEW c \in Children, NEW p \in Pods, NEW n \in Names, NEW k \in Keys,
             Ensure(c, p, n, k)
     PROVE  TypeOK'
  <2>1. [pod |-> p, name |-> n, key |-> k] \in Turns
    BY DEF Turns
  <2>2. QED
    BY <1>1, <2>1 DEF Ensure
<1>2. ASSUME NEW c \in Children, LockTaken(c)
     PROVE  TypeOK'
  <2>1. of[c].pod \in Pods /\ of[c].name \in Names /\ of[c].key \in Keys
    BY <1>2, TurnFields DEF LockTaken
  <2>2. QED
    BY <1>2, <2>1 DEF LockTaken
<1>3. ASSUME NEW c \in Children, LockRefused(c)
     PROVE  TypeOK'
  <2>1. reserved[of[c].pod] \in 1..MaxReserved
    BY <1>3, SlotsCounted DEF LockRefused, Slots
  <2>2. of[c].pod \in Pods
    BY <1>3, TurnFields DEF LockRefused
  <2>3. reserved' \in [Pods -> 0..MaxReserved]
    BY <1>3, <2>1, <2>2 DEF LockRefused
  <2>4. QED
    BY <1>3, <2>2, <2>3 DEF LockRefused
<1>4. ASSUME NEW c \in Children, PreparationFails(c)
     PROVE  TypeOK'
  <2>1. of[c].pod \in Pods /\ of[c].name \in Names /\ of[c].key \in Keys
    BY <1>4, TurnFields DEF PreparationFails
  <2>2. QED
    BY <1>4, <2>1 DEF PreparationFails
<1>5. ASSUME NEW c \in Children, StartChild(c)
     PROVE  TypeOK'
  <2>1. of[c].pod \in Pods /\ of[c].name \in Names /\ of[c].key \in Keys
    BY <1>5, TurnFields DEF StartChild
  <2>2. QED
    BY <1>5, <2>1 DEF StartChild
<1>6. ASSUME NEW c \in Children, ChildCannotStart(c)
     PROVE  TypeOK'
  <2>1. of[c].pod \in Pods /\ of[c].name \in Names /\ of[c].key \in Keys
    BY <1>6, TurnFields DEF ChildCannotStart
  <2>2. QED
    BY <1>6, <2>1 DEF ChildCannotStart
<1>7. ASSUME NEW c \in Children, ChildEnds(c)
     PROVE  TypeOK'
  <2>1. of[c].pod \in Pods /\ of[c].name \in Names /\ of[c].key \in Keys
    BY <1>7, TurnFields DEF ChildEnds
  <2>2. QED
    BY <1>7, <2>1 DEF ChildEnds
<1>8. ASSUME NEW c \in Children, KillTimer(c)
     PROVE  TypeOK'
  <2>1. of[c].pod \in Pods /\ of[c].name \in Names /\ of[c].key \in Keys
    BY <1>8, TurnFields DEF KillTimer, ChildEnds
  <2>2. QED
    BY <1>8, <2>1 DEF KillTimer, ChildEnds
<1>9. ASSUME NEW c \in Children, ChildExited(c)
     PROVE  TypeOK'
  <2>1. of[c].pod \in Pods /\ of[c].name \in Names /\ of[c].key \in Keys
    BY <1>9, TurnFields DEF ChildExited
  <2>2. QED
    BY <1>9, <2>1 DEF ChildExited
<1>10. ASSUME NEW c \in Children, Unlock(c)
     PROVE  TypeOK'
  <2>1. reserved[of[c].pod] \in 1..MaxReserved
    BY <1>10, SlotsCounted DEF Unlock, Slots
  <2>2. of[c].pod \in Pods
    BY <1>10, TurnFields DEF Unlock
  <2>3. reserved' \in [Pods -> 0..MaxReserved]
    BY <1>10, <2>1, <2>2 DEF Unlock
  <2>4. QED
    BY <1>10, <2>2, <2>3 DEF Unlock
<1>11. ASSUME NEW c \in Children, UnlockFails(c)
     PROVE  TypeOK'
  <2>1. reserved[of[c].pod] \in 1..MaxReserved
    BY <1>11, SlotsCounted DEF UnlockFails, Slots
  <2>2. of[c].pod \in Pods /\ of[c].key \in Keys
    BY <1>11, TurnFields DEF UnlockFails
  <2>3. reserved' \in [Pods -> 0..MaxReserved]
    BY <1>11, <2>1, <2>2 DEF UnlockFails
  <2>4. QED
    BY <1>11, <2>2, <2>3 DEF UnlockFails
<1>12. ASSUME NEW c \in Children, SessionLost(c)
     PROVE  TypeOK'
  <2>1. of[c].pod \in Pods /\ of[c].name \in Names /\ of[c].key \in Keys
    BY <1>12, TurnFields DEF SessionLost
  <2>2. QED
    BY <1>12, <2>1 DEF SessionLost
<1>13. ASSUME NEW p \in Pods, NEW n \in Names, KillWorker(p, n)
     PROVE  TypeOK'
  BY <1>13 DEF KillWorker
<1>14. ASSUME NEW k \in Keys, StuckConnectionCloses(k)
     PROVE  TypeOK'
  BY <1>14 DEF StuckConnectionCloses
<1>15. ASSUME NEW p \in Pods, PodCrashes(p)
     PROVE  TypeOK'
  BY <1>15 DEF PodCrashes
<1>16. CASE UNCHANGED vars
  BY <1>16 DEF vars
<1>17. QED
  BY <1>1, <1>2, <1>3, <1>4, <1>5, <1>6, <1>7, <1>8, <1>9, <1>10, <1>11, <1>12, <1>13, <1>14, <1>15, <1>16
     DEF Next, ChildStep

LEMMA StepUntold == ASSUME IInv, [Next]_vars PROVE Untold'
<1> USE DEF IInv, TypeOK, Untold,
    Up, Goes, Settled, Forget, GiveBack, Free, Unlocked, podVars, lockVars,
    historyVars
<1>1. ASSUME NEW c \in Children, NEW p \in Pods, NEW n \in Names, NEW k \in Keys,
             Ensure(c, p, n, k)
     PROVE  Untold'
  BY <1>1 DEF Ensure
<1>2. ASSUME NEW c \in Children, LockTaken(c)
     PROVE  Untold'
  BY <1>2 DEF LockTaken
<1>3. ASSUME NEW c \in Children, LockRefused(c)
     PROVE  Untold'
  BY <1>3 DEF LockRefused
<1>4. ASSUME NEW c \in Children, PreparationFails(c)
     PROVE  Untold'
  BY <1>4 DEF PreparationFails
<1>5. ASSUME NEW c \in Children, StartChild(c)
     PROVE  Untold'
  BY <1>5 DEF StartChild
<1>6. ASSUME NEW c \in Children, ChildCannotStart(c)
     PROVE  Untold'
  BY <1>6 DEF ChildCannotStart
<1>7. ASSUME NEW c \in Children, ChildEnds(c)
     PROVE  Untold'
  BY <1>7 DEF ChildEnds
<1>8. ASSUME NEW c \in Children, KillTimer(c)
     PROVE  Untold'
  BY <1>8 DEF KillTimer, ChildEnds
<1>9. ASSUME NEW c \in Children, ChildExited(c)
     PROVE  Untold'
  BY <1>9 DEF ChildExited
<1>10. ASSUME NEW c \in Children, Unlock(c)
     PROVE  Untold'
  BY <1>10 DEF Unlock
<1>11. ASSUME NEW c \in Children, UnlockFails(c)
     PROVE  Untold'
  BY <1>11 DEF UnlockFails
<1>12. ASSUME NEW c \in Children, SessionLost(c)
     PROVE  Untold'
  BY <1>12 DEF SessionLost
<1>13. ASSUME NEW p \in Pods, NEW n \in Names, KillWorker(p, n)
     PROVE  Untold'
  BY <1>13 DEF KillWorker
<1>14. ASSUME NEW k \in Keys, StuckConnectionCloses(k)
     PROVE  Untold'
  BY <1>14 DEF StuckConnectionCloses
<1>15. ASSUME NEW p \in Pods, PodCrashes(p)
     PROVE  Untold'
  BY <1>15 DEF PodCrashes
<1>16. CASE UNCHANGED vars
  BY <1>16 DEF vars
<1>17. QED
  BY <1>1, <1>2, <1>3, <1>4, <1>5, <1>6, <1>7, <1>8, <1>9, <1>10, <1>11, <1>12, <1>13, <1>14, <1>15, <1>16
     DEF Next, ChildStep

LEMMA StepChildOK == ASSUME IInv, [Next]_vars PROVE ChildOK'
<1> SUFFICES ASSUME NEW d \in Children PROVE PhaseOK(d)' /\ LockOK(d)'
  BY DEF ChildOK
<1>0. PhaseOK(d) /\ LockOK(d)
  BY DEF IInv, ChildOK
<1>d. phase[d] # "unused" =>
         of[d].pod \in Pods /\ of[d].name \in Names /\ of[d].key \in Keys
  BY TurnFields DEF IInv
<1> USE <1>0, ConstantsAssumption DEF IInv, TypeOK, PhaseOK, LockOK, Phases,
    Up, Goes, Settled, Forget, GiveBack, Free, Unlocked, podVars, lockVars,
    historyVars
<1>1. ASSUME NEW c \in Children, NEW p \in Pods, NEW n \in Names, NEW k \in Keys,
             Ensure(c, p, n, k)
     PROVE  PhaseOK(d)' /\ LockOK(d)'
  <2>1. of'[c].pod = p /\ \A e \in Children : e # c => of'[e] = of[e]
    BY <1>1 DEF Ensure
  <2>2. QED
    BY <1>1, <2>1 DEF Ensure
<1>2. ASSUME NEW c \in Children, LockTaken(c)
     PROVE  PhaseOK(d)' /\ LockOK(d)'
  <2>1. of[c].pod \in Pods /\ of[c].name \in Names /\ of[c].key \in Keys
    BY <1>2, TurnFields DEF LockTaken
  <2>2. c \notin severed
    BY <1>2 DEF ChildOK, LockTaken
  <2>3. QED
    BY <1>2, <2>1, <2>2 DEF LockTaken
<1>3. ASSUME NEW c \in Children, LockRefused(c)
     PROVE  PhaseOK(d)' /\ LockOK(d)'
  <2>1. of[c].pod \in Pods /\ of[c].name \in Names /\ of[c].key \in Keys
    BY <1>3, TurnFields DEF LockRefused
  <2>2. QED
    BY <1>3, <2>1 DEF LockRefused
<1>4. ASSUME NEW c \in Children, PreparationFails(c)
     PROVE  PhaseOK(d)' /\ LockOK(d)'
  <2>1. of[c].pod \in Pods /\ of[c].name \in Names /\ of[c].key \in Keys
    BY <1>4, TurnFields DEF PreparationFails
  <2>2. QED
    BY <1>4, <2>1 DEF PreparationFails
<1>5. ASSUME NEW c \in Children, StartChild(c)
     PROVE  PhaseOK(d)' /\ LockOK(d)'
  <2>1. of[c].pod \in Pods /\ of[c].name \in Names /\ of[c].key \in Keys
    BY <1>5, TurnFields DEF StartChild
  <2>2. QED
    BY <1>5, <2>1 DEF StartChild
<1>6. ASSUME NEW c \in Children, ChildCannotStart(c)
     PROVE  PhaseOK(d)' /\ LockOK(d)'
  <2>1. of[c].pod \in Pods /\ of[c].name \in Names /\ of[c].key \in Keys
    BY <1>6, TurnFields DEF ChildCannotStart
  <2>2. QED
    BY <1>6, <2>1 DEF ChildCannotStart
<1>7. ASSUME NEW c \in Children, ChildEnds(c)
     PROVE  PhaseOK(d)' /\ LockOK(d)'
  <2>1. of[c].pod \in Pods /\ of[c].name \in Names /\ of[c].key \in Keys
    BY <1>7, TurnFields DEF ChildEnds
  <2>2. QED
    BY <1>7, <2>1 DEF ChildEnds
<1>8. ASSUME NEW c \in Children, KillTimer(c)
     PROVE  PhaseOK(d)' /\ LockOK(d)'
  <2>1. of[c].pod \in Pods /\ of[c].name \in Names /\ of[c].key \in Keys
    BY <1>8, TurnFields DEF KillTimer, ChildEnds
  <2>2. QED
    BY <1>8, <2>1 DEF KillTimer, ChildEnds
<1>9. ASSUME NEW c \in Children, ChildExited(c)
     PROVE  PhaseOK(d)' /\ LockOK(d)'
  <2>1. of[c].pod \in Pods /\ of[c].name \in Names /\ of[c].key \in Keys
    BY <1>9, TurnFields DEF ChildExited
  <2>2. QED
    BY <1>9, <2>1 DEF ChildExited
<1>10. ASSUME NEW c \in Children, Unlock(c)
     PROVE  PhaseOK(d)' /\ LockOK(d)'
  <2>1. PhaseOK(d)'
    BY <1>10 DEF Unlock
  <2>2. CASE d = c
    BY <1>10, <2>2, <1>d DEF Unlock
  <2>3. CASE d # c
    BY <1>10, <2>3, <1>d DEF Unlock
  <2>4. QED
    BY <2>1, <2>2, <2>3
<1>11. ASSUME NEW c \in Children, UnlockFails(c)
     PROVE  PhaseOK(d)' /\ LockOK(d)'
  <2>1. PhaseOK(d)'
    BY <1>11 DEF UnlockFails
  <2>2. CASE d = c
    BY <1>11, <2>2, <1>d DEF UnlockFails
  <2>3. CASE d # c
    BY <1>11, <2>3, <1>d DEF UnlockFails
  <2>4. QED
    BY <2>1, <2>2, <2>3
<1>12. ASSUME NEW c \in Children, SessionLost(c)
     PROVE  PhaseOK(d)' /\ LockOK(d)'
  <2>1. PhaseOK(d)'
    BY <1>12 DEF SessionLost
  <2>2. CASE d = c
    BY <1>12, <2>2, <1>d DEF SessionLost
  <2>3. CASE d # c
    BY <1>12, <2>3, <1>d DEF SessionLost
  <2>4. QED
    BY <2>1, <2>2, <2>3
<1>13. ASSUME NEW p \in Pods, NEW n \in Names, KillWorker(p, n)
     PROVE  PhaseOK(d)' /\ LockOK(d)'
  <2>1. EntryOK(p, n)
    BY DEF MapOK
  <2>2. QED
    BY <1>13, <2>1 DEF KillWorker, EntryOK
<1>14. ASSUME NEW k \in Keys, StuckConnectionCloses(k)
     PROVE  PhaseOK(d)' /\ LockOK(d)'
  BY <1>14 DEF StuckConnectionCloses
<1>15. ASSUME NEW p \in Pods, PodCrashes(p)
     PROVE  PhaseOK(d)' /\ LockOK(d)'
  <2>1. PhaseOK(d)'
    BY <1>15 DEF PodCrashes
  <2>2. Up(d)' => of[d].pod # p /\ conn'[d] = conn[d] /\ phase'[d] = phase[d]
    BY <1>15 DEF PodCrashes
  <2>3. LockOK(d)'
    BY <1>15, <2>2, <1>d DEF PodCrashes
  <2>4. QED
    BY <2>1, <2>3
<1>16. CASE UNCHANGED vars
  BY <1>16 DEF vars
<1>17. QED
  BY <1>1, <1>2, <1>3, <1>4, <1>5, <1>6, <1>7, <1>8, <1>9, <1>10, <1>11, <1>12, <1>13, <1>14, <1>15, <1>16
     DEF Next, ChildStep

(* The count goes up with a reservation and down when it is over.          *)
LEMMA StepCounted == ASSUME IInv, [Next]_vars PROVE Counted'
<1> SUFFICES ASSUME NEW q \in running' PROVE reserved'[q] = Cardinality(Slots(q)')
  BY DEF Counted
<1> USE ConstantsAssumption DEF IInv, TypeOK, Phases, Counted, ChildOK, PhaseOK,
    Up, Goes, Settled, Forget, GiveBack, Free, Unlocked, podVars, lockVars,
    historyVars
<1>1. ASSUME NEW c \in Children, NEW p \in Pods, NEW n \in Names, NEW k \in Keys,
             Ensure(c, p, n, k)
     PROVE  reserved'[q] = Cardinality(Slots(q)')
  <2>1. of'[c].pod = p /\ \A e \in Children : e # c => of'[e] = of[e]
    BY <1>1 DEF Ensure
  <2>2. c \notin Slots(q)
    BY <1>1 DEF Ensure, Slots
  <2>3. CASE q = p
    <3>1. Slots(q)' = Slots(q) \union {c}
      BY <1>1, <2>1, <2>3 DEF Ensure, Slots
    <3>2. Cardinality(Slots(q)') = Cardinality(Slots(q)) + 1
      BY <2>2, <3>1, SlotsChange
    <3>3. QED
      BY <1>1, <2>3, <3>2 DEF Ensure
  <2>4. CASE q # p
    <3>1. Slots(q)' = Slots(q)
      BY <1>1, <2>1, <2>4 DEF Ensure, Slots
    <3>2. QED
      BY <1>1, <2>4, <3>1 DEF Ensure
  <2>5. QED
    BY <2>3, <2>4
<1>2. ASSUME NEW c \in Children, LockTaken(c)
     PROVE  reserved'[q] = Cardinality(Slots(q)')
  <2>0. phase[c] = "locking" /\ phase'[c] = "preparing" /\ conn'[c] = "held"
    BY <1>2 DEF LockTaken
  <2>1. Slots(q)' = Slots(q)
    BY <1>2, <2>0 DEF LockTaken, Slots
  <2>2. QED
    BY <1>2, <2>1 DEF LockTaken
<1>3. ASSUME NEW c \in Children, LockRefused(c)
     PROVE  reserved'[q] = Cardinality(Slots(q)')
  <2>1. of[c].pod \in Pods
    BY <1>3, TurnFields DEF LockRefused
  <2>2. c \in Slots(of[c].pod)
    BY <1>3 DEF LockRefused, Slots
  <2>3. CASE q = of[c].pod
    <3>1. Slots(q)' = Slots(q) \ {c}
      BY <1>3, <2>3 DEF LockRefused, Slots
    <3>2. Cardinality(Slots(q)') = Cardinality(Slots(q)) - 1
      BY <2>2, <2>3, <3>1, SlotsChange
    <3>3. QED
      BY <1>3, <2>1, <2>3, <3>2 DEF LockRefused
  <2>4. CASE q # of[c].pod
    <3>1. Slots(q)' = Slots(q)
      BY <1>3, <2>4 DEF LockRefused, Slots
    <3>2. QED
      BY <1>3, <2>1, <2>4, <3>1 DEF LockRefused
  <2>5. QED
    BY <2>3, <2>4
<1>4. ASSUME NEW c \in Children, PreparationFails(c)
     PROVE  reserved'[q] = Cardinality(Slots(q)')
  <2>1. Slots(q)' = Slots(q)
    BY <1>4 DEF PreparationFails, Slots
  <2>2. QED
    BY <1>4, <2>1 DEF PreparationFails
<1>5. ASSUME NEW c \in Children, StartChild(c)
     PROVE  reserved'[q] = Cardinality(Slots(q)')
  <2>1. Slots(q)' = Slots(q)
    BY <1>5 DEF StartChild, Slots
  <2>2. QED
    BY <1>5, <2>1 DEF StartChild
<1>6. ASSUME NEW c \in Children, ChildCannotStart(c)
     PROVE  reserved'[q] = Cardinality(Slots(q)')
  <2>1. Slots(q)' = Slots(q)
    BY <1>6 DEF ChildCannotStart, Slots
  <2>2. QED
    BY <1>6, <2>1 DEF ChildCannotStart
<1>7. ASSUME NEW c \in Children, ChildEnds(c)
     PROVE  reserved'[q] = Cardinality(Slots(q)')
  <2>1. Slots(q)' = Slots(q)
    BY <1>7 DEF ChildEnds, Slots
  <2>2. QED
    BY <1>7, <2>1 DEF ChildEnds
<1>8. ASSUME NEW c \in Children, KillTimer(c)
     PROVE  reserved'[q] = Cardinality(Slots(q)')
  <2>1. Slots(q)' = Slots(q)
    BY <1>8 DEF KillTimer, ChildEnds, Slots
  <2>2. QED
    BY <1>8, <2>1 DEF KillTimer, ChildEnds
<1>9. ASSUME NEW c \in Children, ChildExited(c)
     PROVE  reserved'[q] = Cardinality(Slots(q)')
  <2>1. Slots(q)' = Slots(q)
    BY <1>9 DEF ChildExited, Slots
  <2>2. QED
    BY <1>9, <2>1 DEF ChildExited
<1>10. ASSUME NEW c \in Children, Unlock(c)
     PROVE  reserved'[q] = Cardinality(Slots(q)')
  <2>1. of[c].pod \in Pods
    BY <1>10, TurnFields DEF Unlock
  <2>2. c \in Slots(of[c].pod)
    BY <1>10 DEF Unlock, Slots
  <2>3. CASE q = of[c].pod
    <3>1. Slots(q)' = Slots(q) \ {c}
      BY <1>10, <2>3 DEF Unlock, Slots
    <3>2. Cardinality(Slots(q)') = Cardinality(Slots(q)) - 1
      BY <2>2, <2>3, <3>1, SlotsChange
    <3>3. QED
      BY <1>10, <2>1, <2>3, <3>2 DEF Unlock
  <2>4. CASE q # of[c].pod
    <3>1. Slots(q)' = Slots(q)
      BY <1>10, <2>4 DEF Unlock, Slots
    <3>2. QED
      BY <1>10, <2>1, <2>4, <3>1 DEF Unlock
  <2>5. QED
    BY <2>3, <2>4
<1>11. ASSUME NEW c \in Children, UnlockFails(c)
     PROVE  reserved'[q] = Cardinality(Slots(q)')
  <2>1. of[c].pod \in Pods
    BY <1>11, TurnFields DEF UnlockFails
  <2>2. c \in Slots(of[c].pod)
    BY <1>11 DEF UnlockFails, Slots
  <2>3. CASE q = of[c].pod
    <3>1. Slots(q)' = Slots(q) \ {c}
      BY <1>11, <2>3 DEF UnlockFails, Slots
    <3>2. Cardinality(Slots(q)') = Cardinality(Slots(q)) - 1
      BY <2>2, <2>3, <3>1, SlotsChange
    <3>3. QED
      BY <1>11, <2>1, <2>3, <3>2 DEF UnlockFails
  <2>4. CASE q # of[c].pod
    <3>1. Slots(q)' = Slots(q)
      BY <1>11, <2>4 DEF UnlockFails, Slots
    <3>2. QED
      BY <1>11, <2>1, <2>4, <3>1 DEF UnlockFails
  <2>5. QED
    BY <2>3, <2>4
<1>12. ASSUME NEW c \in Children, SessionLost(c)
     PROVE  reserved'[q] = Cardinality(Slots(q)')
  <2>1. Slots(q)' = Slots(q)
    BY <1>12 DEF SessionLost, Slots
  <2>2. QED
    BY <1>12, <2>1 DEF SessionLost
<1>13. ASSUME NEW p \in Pods, NEW n \in Names, KillWorker(p, n)
     PROVE  reserved'[q] = Cardinality(Slots(q)')
  <2>1. Slots(q)' = Slots(q)
    BY <1>13 DEF KillWorker, Slots
  <2>2. QED
    BY <1>13, <2>1 DEF KillWorker
<1>14. ASSUME NEW k \in Keys, StuckConnectionCloses(k)
     PROVE  reserved'[q] = Cardinality(Slots(q)')
  <2>1. Slots(q)' = Slots(q)
    BY <1>14 DEF StuckConnectionCloses, Slots
  <2>2. QED
    BY <1>14, <2>1 DEF StuckConnectionCloses
<1>15. ASSUME NEW p \in Pods, PodCrashes(p)
     PROVE  reserved'[q] = Cardinality(Slots(q)')
  <2>0. q \in running /\ q # p
    BY <1>15 DEF PodCrashes
  <2>1. Slots(q)' = Slots(q)
    BY <1>15, <2>0 DEF PodCrashes, Slots
  <2>2. QED
    BY <1>15, <2>0, <2>1 DEF PodCrashes
<1>16. CASE UNCHANGED vars
  <2>1. Slots(q)' = Slots(q)
    BY <1>16 DEF vars, Slots
  <2>2. QED
    BY <1>16, <2>1 DEF vars
<1>17. QED
  BY <1>1, <1>2, <1>3, <1>4, <1>5, <1>6, <1>7, <1>8, <1>9, <1>10, <1>11, <1>12, <1>13, <1>14, <1>15, <1>16
     DEF Next, ChildStep

(* A child keeps its turn, an exit is for good, and so is a lost session.  *)
LEMMA StepMonotone ==
    ASSUME IInv, [Next]_vars, NEW d \in Children
    PROVE  /\ of[d] # None => of'[d] = of[d]
           /\ phase[d] = "gone" => phase'[d] = "gone"
           /\ severed \subseteq severed'
<1> DEFINE Kept == /\ of[d] # None => of'[d] = of[d]
                   /\ phase[d] = "gone" => phase'[d] = "gone"
                   /\ severed \subseteq severed'
<1> SUFFICES Kept
  OBVIOUS
<1> USE DEF IInv, TypeOK, ChildOK, PhaseOK,
    Up, Goes, Settled, Forget, GiveBack, Free, Unlocked, podVars, lockVars,
    historyVars
<1>1. ASSUME NEW c \in Children, NEW p \in Pods, NEW n \in Names, NEW k \in Keys,
             Ensure(c, p, n, k)
     PROVE  Kept
  BY <1>1 DEF Ensure
<1>2. ASSUME NEW c \in Children, LockTaken(c)
     PROVE  Kept
  BY <1>2 DEF LockTaken
<1>3. ASSUME NEW c \in Children, LockRefused(c)
     PROVE  Kept
  BY <1>3 DEF LockRefused
<1>4. ASSUME NEW c \in Children, PreparationFails(c)
     PROVE  Kept
  BY <1>4 DEF PreparationFails
<1>5. ASSUME NEW c \in Children, StartChild(c)
     PROVE  Kept
  BY <1>5 DEF StartChild
<1>6. ASSUME NEW c \in Children, ChildCannotStart(c)
     PROVE  Kept
  BY <1>6 DEF ChildCannotStart
<1>7. ASSUME NEW c \in Children, ChildEnds(c)
     PROVE  Kept
  BY <1>7 DEF ChildEnds
<1>8. ASSUME NEW c \in Children, KillTimer(c)
     PROVE  Kept
  BY <1>8 DEF KillTimer, ChildEnds
<1>9. ASSUME NEW c \in Children, ChildExited(c)
     PROVE  Kept
  BY <1>9 DEF ChildExited
<1>10. ASSUME NEW c \in Children, Unlock(c)
     PROVE  Kept
  BY <1>10 DEF Unlock
<1>11. ASSUME NEW c \in Children, UnlockFails(c)
     PROVE  Kept
  BY <1>11 DEF UnlockFails
<1>12. ASSUME NEW c \in Children, SessionLost(c)
     PROVE  Kept
  BY <1>12 DEF SessionLost
<1>13. ASSUME NEW p \in Pods, NEW n \in Names, KillWorker(p, n)
     PROVE  Kept
  BY <1>13 DEF KillWorker
<1>14. ASSUME NEW k \in Keys, StuckConnectionCloses(k)
     PROVE  Kept
  BY <1>14 DEF StuckConnectionCloses
<1>15. ASSUME NEW p \in Pods, PodCrashes(p)
     PROVE  Kept
  BY <1>15 DEF PodCrashes
<1>16. CASE UNCHANGED vars
  BY <1>16 DEF vars
<1>17. QED
  BY <1>1, <1>2, <1>3, <1>4, <1>5, <1>6, <1>7, <1>8, <1>9, <1>10, <1>11, <1>12, <1>13, <1>14, <1>15, <1>16
     DEF Next, ChildStep

LEMMA RivalGoneStays ==
    ASSUME IInv, [Next]_vars, NEW c \in Children, of[c] # None, RivalGone(c)
    PROVE  RivalGone(c)'
<1>1. /\ \A d \in Children : of[d] # None => of'[d] = of[d]
      /\ \A d \in Children : phase[d] = "gone" => phase'[d] = "gone"
      /\ severed \subseteq severed'
  BY StepMonotone
<1>2. QED
  BY <1>1, RivalsStay DEF IInv

LEMMA StepEntryOK ==
    ASSUME IInv, [Next]_vars, NEW q \in Pods, NEW m \in Names
    PROVE  EntryOK(q, m)'
<1>0. EntryOK(q, m) /\ workers[q][m] \in Children \union {None}
  BY DEF IInv, MapOK, TypeOK
<1> USE <1>0, ConstantsAssumption DEF IInv, TypeOK, ChildOK, PhaseOK, EntryOK,
    Up, Goes, Settled, Forget, GiveBack, Free, Unlocked, podVars, lockVars,
    historyVars
<1>1. ASSUME NEW c \in Children, NEW p \in Pods, NEW n \in Names, NEW k \in Keys,
             Ensure(c, p, n, k)
     PROVE  EntryOK(q, m)'
  BY <1>1 DEF Ensure
<1>2. ASSUME NEW c \in Children, LockTaken(c)
     PROVE  EntryOK(q, m)'
  BY <1>2 DEF LockTaken
<1>3. ASSUME NEW c \in Children, LockRefused(c)
     PROVE  EntryOK(q, m)'
  BY <1>3 DEF LockRefused
<1>4. ASSUME NEW c \in Children, PreparationFails(c)
     PROVE  EntryOK(q, m)'
  BY <1>4 DEF PreparationFails
<1>5. ASSUME NEW c \in Children, StartChild(c)
     PROVE  EntryOK(q, m)'
  <2>1. of[c].pod \in Pods /\ of[c].name \in Names /\ of[c].key \in Keys
    BY <1>5, TurnFields DEF StartChild
  <2>2. QED
    BY <1>5, <2>1 DEF StartChild
<1>6. ASSUME NEW c \in Children, ChildCannotStart(c)
     PROVE  EntryOK(q, m)'
  <2>1. of[c].pod \in Pods /\ of[c].name \in Names /\ of[c].key \in Keys
    BY <1>6, TurnFields DEF ChildCannotStart
  <2>2. QED
    BY <1>6, <2>1 DEF ChildCannotStart
<1>7. ASSUME NEW c \in Children, ChildEnds(c)
     PROVE  EntryOK(q, m)'
  BY <1>7 DEF ChildEnds
<1>8. ASSUME NEW c \in Children, KillTimer(c)
     PROVE  EntryOK(q, m)'
  BY <1>8 DEF KillTimer, ChildEnds
<1>9. ASSUME NEW c \in Children, ChildExited(c)
     PROVE  EntryOK(q, m)'
  <2>1. of[c].pod \in Pods /\ of[c].name \in Names /\ of[c].key \in Keys
    BY <1>9, TurnFields DEF ChildExited
  <2>2. QED
    BY <1>9, <2>1 DEF ChildExited
<1>10. ASSUME NEW c \in Children, Unlock(c)
     PROVE  EntryOK(q, m)'
  BY <1>10 DEF Unlock
<1>11. ASSUME NEW c \in Children, UnlockFails(c)
     PROVE  EntryOK(q, m)'
  BY <1>11 DEF UnlockFails
<1>12. ASSUME NEW c \in Children, SessionLost(c)
     PROVE  EntryOK(q, m)'
  BY <1>12 DEF SessionLost
<1>13. ASSUME NEW p \in Pods, NEW n \in Names, KillWorker(p, n)
     PROVE  EntryOK(q, m)'
  <2>1. EntryOK(p, n)
    BY DEF MapOK
  <2>2. QED
    BY <1>13, <2>1 DEF KillWorker
<1>14. ASSUME NEW k \in Keys, StuckConnectionCloses(k)
     PROVE  EntryOK(q, m)'
  BY <1>14 DEF StuckConnectionCloses
<1>15. ASSUME NEW p \in Pods, PodCrashes(p)
     PROVE  EntryOK(q, m)'
  BY <1>15 DEF PodCrashes
<1>16. CASE UNCHANGED vars
  BY <1>16 DEF vars
<1>17. QED
  BY <1>1, <1>2, <1>3, <1>4, <1>5, <1>6, <1>7, <1>8, <1>9, <1>10, <1>11, <1>12, <1>13, <1>14, <1>15, <1>16
     DEF Next, ChildStep

LEMMA StepCreatingOK ==
    ASSUME IInv, [Next]_vars, NEW d \in Children
    PROVE  CreatingOK(d)'
<1>0. \A e \in Children : CreatingOK(e)
  BY DEF IInv, MapOK
<1>d. phase[d] # "unused" =>
         of[d].pod \in Pods /\ of[d].name \in Names /\ of[d].key \in Keys
  BY TurnFields DEF IInv
<1> USE <1>0, <1>d, ConstantsAssumption DEF IInv, TypeOK, ChildOK, PhaseOK,
    CreatingOK, Preparing,
    Up, Goes, Settled, Forget, GiveBack, Free, Unlocked, podVars, lockVars,
    historyVars
<1>1. ASSUME NEW c \in Children, NEW p \in Pods, NEW n \in Names, NEW k \in Keys,
             Ensure(c, p, n, k)
     PROVE  CreatingOK(d)'
  <2>1. of'[c] = [pod |-> p, name |-> n, key |-> k]
        /\ \A e \in Children : e # c => of'[e] = of[e] /\ phase'[e] = phase[e]
    BY <1>1 DEF Ensure
  <2>2. \A e \in Children : Preparing(e) => ~(of[e].pod = p /\ of[e].name = n)
    BY <1>1 DEF Ensure
  <2>3. QED
    BY <1>1, <2>1, <2>2 DEF Ensure
<1>2. ASSUME NEW c \in Children, LockTaken(c)
     PROVE  CreatingOK(d)'
  BY <1>2 DEF LockTaken
<1>3. ASSUME NEW c \in Children, LockRefused(c)
     PROVE  CreatingOK(d)'
  <2>1. of[c].pod \in Pods /\ of[c].name \in Names /\ of[c].key \in Keys
    BY <1>3, TurnFields DEF LockRefused
  <2>2. QED
    BY <1>3, <2>1 DEF LockRefused
<1>4. ASSUME NEW c \in Children, PreparationFails(c)
     PROVE  CreatingOK(d)'
  <2>1. of[c].pod \in Pods /\ of[c].name \in Names /\ of[c].key \in Keys
    BY <1>4, TurnFields DEF PreparationFails
  <2>2. QED
    BY <1>4, <2>1 DEF PreparationFails
<1>5. ASSUME NEW c \in Children, StartChild(c)
     PROVE  CreatingOK(d)'
  <2>1. of[c].pod \in Pods /\ of[c].name \in Names /\ of[c].key \in Keys
    BY <1>5, TurnFields DEF StartChild
  <2>2. QED
    BY <1>5, <2>1 DEF StartChild
<1>6. ASSUME NEW c \in Children, ChildCannotStart(c)
     PROVE  CreatingOK(d)'
  <2>1. of[c].pod \in Pods /\ of[c].name \in Names /\ of[c].key \in Keys
    BY <1>6, TurnFields DEF ChildCannotStart
  <2>2. QED
    BY <1>6, <2>1 DEF ChildCannotStart
<1>7. ASSUME NEW c \in Children, ChildEnds(c)
     PROVE  CreatingOK(d)'
  BY <1>7 DEF ChildEnds
<1>8. ASSUME NEW c \in Children, KillTimer(c)
     PROVE  CreatingOK(d)'
  BY <1>8 DEF KillTimer, ChildEnds
<1>9. ASSUME NEW c \in Children, ChildExited(c)
     PROVE  CreatingOK(d)'
  <2>1. of[c].pod \in Pods /\ of[c].name \in Names /\ of[c].key \in Keys
    BY <1>9, TurnFields DEF ChildExited
  <2>2. QED
    BY <1>9, <2>1 DEF ChildExited
<1>10. ASSUME NEW c \in Children, Unlock(c)
     PROVE  CreatingOK(d)'
  BY <1>10 DEF Unlock
<1>11. ASSUME NEW c \in Children, UnlockFails(c)
     PROVE  CreatingOK(d)'
  BY <1>11 DEF UnlockFails
<1>12. ASSUME NEW c \in Children, SessionLost(c)
     PROVE  CreatingOK(d)'
  BY <1>12 DEF SessionLost
<1>13. ASSUME NEW p \in Pods, NEW n \in Names, KillWorker(p, n)
     PROVE  CreatingOK(d)'
  BY <1>13 DEF KillWorker
<1>14. ASSUME NEW k \in Keys, StuckConnectionCloses(k)
     PROVE  CreatingOK(d)'
  BY <1>14 DEF StuckConnectionCloses
<1>15. ASSUME NEW p \in Pods, PodCrashes(p)
     PROVE  CreatingOK(d)'
  BY <1>15 DEF PodCrashes
<1>16. CASE UNCHANGED vars
  BY <1>16 DEF vars
<1>17. QED
  BY <1>1, <1>2, <1>3, <1>4, <1>5, <1>6, <1>7, <1>8, <1>9, <1>10, <1>11, <1>12, <1>13, <1>14, <1>15, <1>16
     DEF Next, ChildStep

LEMMA StepKnownOK ==
    ASSUME IInv, [Next]_vars, NEW d \in Children
    PROVE  KnownOK(d)'
<1>0. KnownOK(d) /\ CreatingOK(d) /\ PhaseOK(d)
  BY DEF IInv, MapOK, ChildOK
<1>d. phase[d] # "unused" =>
         of[d].pod \in Pods /\ of[d].name \in Names /\ of[d].key \in Keys
  BY TurnFields DEF IInv
<1>r. of[d] # None /\ RivalGone(d) => RivalGone(d)'
  BY RivalGoneStays
<1> USE <1>0, <1>d, <1>r, ConstantsAssumption DEF IInv, TypeOK, PhaseOK, KnownOK,
    Running,
    Up, Goes, Settled, Forget, GiveBack, Free, Unlocked, podVars, lockVars,
    historyVars
<1>1. ASSUME NEW c \in Children, NEW p \in Pods, NEW n \in Names, NEW k \in Keys,
             Ensure(c, p, n, k)
     PROVE  KnownOK(d)'
  <2>1. \A e \in Children : e # c => of'[e] = of[e]
    BY <1>1 DEF Ensure
  <2>2. QED
    BY <1>1, <2>1 DEF Ensure
<1>2. ASSUME NEW c \in Children, LockTaken(c)
     PROVE  KnownOK(d)'
  BY <1>2 DEF LockTaken
<1>3. ASSUME NEW c \in Children, LockRefused(c)
     PROVE  KnownOK(d)'
  BY <1>3 DEF LockRefused
<1>4. ASSUME NEW c \in Children, PreparationFails(c)
     PROVE  KnownOK(d)'
  BY <1>4 DEF PreparationFails
<1>5. ASSUME NEW c \in Children, StartChild(c)
     PROVE  KnownOK(d)'
  <2>1. of[c].pod \in Pods /\ of[c].name \in Names /\ CreatingOK(c)
    BY <1>5, TurnFields DEF StartChild, MapOK
  <2>2. QED
    BY <1>5, <2>1 DEF StartChild, CreatingOK, Preparing
<1>6. ASSUME NEW c \in Children, ChildCannotStart(c)
     PROVE  KnownOK(d)'
  <2>1. of[c].pod \in Pods /\ of[c].name \in Names /\ CreatingOK(c)
    BY <1>6, TurnFields DEF ChildCannotStart, MapOK
  <2>2. QED
    BY <1>6, <2>1 DEF ChildCannotStart, CreatingOK, Preparing
<1>7. ASSUME NEW c \in Children, ChildEnds(c)
     PROVE  KnownOK(d)'
  BY <1>7 DEF ChildEnds
<1>8. ASSUME NEW c \in Children, KillTimer(c)
     PROVE  KnownOK(d)'
  BY <1>8 DEF KillTimer, ChildEnds
<1>9. ASSUME NEW c \in Children, ChildExited(c)
     PROVE  KnownOK(d)'
  <2> SUFFICES ASSUME Running(d)', d \notin killed', ~RivalGone(d)
               PROVE  workers'[of[d].pod][of[d].name] = d \/ RivalGone(d)'
    BY <1>9 DEF ChildExited
  <2>1. d # c /\ Running(d) /\ workers[of[d].pod][of[d].name] = d
    BY <1>9 DEF ChildExited
  <2>2. CASE of[c].pod = of[d].pod /\ of[c].name = of[d].name
    <3>1. conn[c] = "held" /\ conn[d] = "held"
      BY <1>9, <2>1 DEF ChildExited, ChildOK
    <3>2. Rival(d, c)
      BY <1>9, <2>1, <2>2, <3>1, TwoAreRivals DEF ChildExited
    <3>3. Rival(d, c)' /\ phase'[c] = "gone"
      BY <1>9, <3>2 DEF ChildExited, Rival
    <3>4. QED
      BY <3>3 DEF RivalGone
  <2>3. CASE ~(of[c].pod = of[d].pod /\ of[c].name = of[d].name)
    BY <1>9, <2>1, <2>3 DEF ChildExited
  <2>4. QED
    BY <2>2, <2>3
<1>10. ASSUME NEW c \in Children, Unlock(c)
     PROVE  KnownOK(d)'
  BY <1>10 DEF Unlock
<1>11. ASSUME NEW c \in Children, UnlockFails(c)
     PROVE  KnownOK(d)'
  BY <1>11 DEF UnlockFails
<1>12. ASSUME NEW c \in Children, SessionLost(c)
     PROVE  KnownOK(d)'
  BY <1>12 DEF SessionLost
<1>13. ASSUME NEW p \in Pods, NEW n \in Names, KillWorker(p, n)
     PROVE  KnownOK(d)'
  <2>1. workers[p][n] \in Children /\ EntryOK(p, n)
    BY <1>13 DEF KillWorker, MapOK
  <2>2. QED
    BY <1>13, <2>1 DEF KillWorker, EntryOK
<1>14. ASSUME NEW k \in Keys, StuckConnectionCloses(k)
     PROVE  KnownOK(d)'
  BY <1>14 DEF StuckConnectionCloses
<1>15. ASSUME NEW p \in Pods, PodCrashes(p)
     PROVE  KnownOK(d)'
  BY <1>15 DEF PodCrashes
<1>16. CASE UNCHANGED vars
  BY <1>16 DEF vars
<1>17. QED
  BY <1>1, <1>2, <1>3, <1>4, <1>5, <1>6, <1>7, <1>8, <1>9, <1>10, <1>11, <1>12, <1>13, <1>14, <1>15, <1>16
     DEF Next, ChildStep

LEMMA StepMapOK == ASSUME IInv, [Next]_vars PROVE MapOK'
BY StepEntryOK, StepCreatingOK, StepKnownOK DEF MapOK

LEMMA StepFlagsMeant == ASSUME IInv, [Next]_vars PROVE FlagsMeant'
<1> SUFFICES ASSUME NEW q \in Pods, NEW m \in intentional'[q]
             PROVE  \E d \in killed' :
                       /\ of'[d] # None /\ of'[d].pod = q /\ of'[d].name = m
                       /\ Running(d)'
  BY DEF FlagsMeant
<1> DEFINE Meant == \E d \in killed' :
                       /\ of'[d] # None /\ of'[d].pod = q /\ of'[d].name = m
                       /\ Running(d)'
<1>0. m \in intentional[q] =>
        \E d \in killed : /\ of[d] # None /\ of[d].pod = q /\ of[d].name = m
                          /\ Running(d)
  BY DEF IInv, FlagsOK, FlagsMeant
<1> USE <1>0, ConstantsAssumption DEF IInv, TypeOK, ChildOK, PhaseOK, Running,
    Up, Goes, Settled, Forget, GiveBack, Free, Unlocked, podVars, lockVars,
    historyVars
<1>1. ASSUME NEW c \in Children, NEW p \in Pods, NEW n \in Names, NEW k \in Keys,
             Ensure(c, p, n, k)
     PROVE  Meant
  <2>1. PICK d \in killed : /\ of[d] # None /\ of[d].pod = q /\ of[d].name = m
                           /\ Running(d)
    BY <1>1 DEF Ensure
  <2>2. d \in Children /\ d \in killed'
    BY <1>1 DEF Ensure
  <2>3. of'[d] = of[d] /\ Running(d)'
    BY <1>1, <2>1, <2>2 DEF Ensure
  <2>4. QED
    BY <2>1, <2>2, <2>3
<1>2. ASSUME NEW c \in Children, LockTaken(c)
     PROVE  Meant
  <2>1. PICK d \in killed : /\ of[d] # None /\ of[d].pod = q /\ of[d].name = m
                           /\ Running(d)
    BY <1>2 DEF LockTaken
  <2>2. d \in Children /\ d \in killed'
    BY <1>2 DEF LockTaken
  <2>3. of'[d] = of[d] /\ Running(d)'
    BY <1>2, <2>1, <2>2 DEF LockTaken
  <2>4. QED
    BY <2>1, <2>2, <2>3
<1>3. ASSUME NEW c \in Children, LockRefused(c)
     PROVE  Meant
  <2>1. PICK d \in killed : /\ of[d] # None /\ of[d].pod = q /\ of[d].name = m
                           /\ Running(d)
    BY <1>3 DEF LockRefused
  <2>2. d \in Children /\ d \in killed'
    BY <1>3 DEF LockRefused
  <2>3. of'[d] = of[d] /\ Running(d)'
    BY <1>3, <2>1, <2>2 DEF LockRefused
  <2>4. QED
    BY <2>1, <2>2, <2>3
<1>4. ASSUME NEW c \in Children, PreparationFails(c)
     PROVE  Meant
  <2>1. PICK d \in killed : /\ of[d] # None /\ of[d].pod = q /\ of[d].name = m
                           /\ Running(d)
    BY <1>4 DEF PreparationFails
  <2>2. d \in Children /\ d \in killed'
    BY <1>4 DEF PreparationFails
  <2>3. of'[d] = of[d] /\ Running(d)'
    BY <1>4, <2>1, <2>2 DEF PreparationFails
  <2>4. QED
    BY <2>1, <2>2, <2>3
<1>5. ASSUME NEW c \in Children, StartChild(c)
     PROVE  Meant
  <2>1. PICK d \in killed : /\ of[d] # None /\ of[d].pod = q /\ of[d].name = m
                           /\ Running(d)
    BY <1>5 DEF StartChild
  <2>2. d \in Children /\ d \in killed'
    BY <1>5 DEF StartChild
  <2>3. of'[d] = of[d] /\ Running(d)'
    BY <1>5, <2>1, <2>2 DEF StartChild
  <2>4. QED
    BY <2>1, <2>2, <2>3
<1>6. ASSUME NEW c \in Children, ChildCannotStart(c)
     PROVE  Meant
  <2>0. m \in intentional[q]
    <3>1. of[c].pod \in Pods /\ of[c].name \in Names
      BY <1>6, TurnFields DEF ChildCannotStart
    <3>2. QED
      BY <1>6, <3>1 DEF ChildCannotStart
  <2>1. PICK d \in killed : /\ of[d] # None /\ of[d].pod = q /\ of[d].name = m
                           /\ Running(d)
    BY <2>0
  <2>2. d \in Children /\ d \in killed'
    BY <1>6 DEF ChildCannotStart
  <2>3. of'[d] = of[d] /\ Running(d)'
    BY <1>6, <2>1, <2>2 DEF ChildCannotStart
  <2>4. QED
    BY <2>1, <2>2, <2>3
<1>7. ASSUME NEW c \in Children, ChildEnds(c)
     PROVE  Meant
  <2>1. PICK d \in killed : /\ of[d] # None /\ of[d].pod = q /\ of[d].name = m
                           /\ Running(d)
    BY <1>7 DEF ChildEnds
  <2>2. d \in Children /\ d \in killed'
    BY <1>7 DEF ChildEnds
  <2>3. of'[d] = of[d] /\ Running(d)'
    BY <1>7, <2>1, <2>2 DEF ChildEnds
  <2>4. QED
    BY <2>1, <2>2, <2>3
<1>8. ASSUME NEW c \in Children, KillTimer(c)
     PROVE  Meant
  <2>1. PICK d \in killed : /\ of[d] # None /\ of[d].pod = q /\ of[d].name = m
                           /\ Running(d)
    BY <1>8 DEF KillTimer, ChildEnds
  <2>2. d \in Children /\ d \in killed'
    BY <1>8 DEF KillTimer, ChildEnds
  <2>3. of'[d] = of[d] /\ Running(d)'
    BY <1>8, <2>1, <2>2 DEF KillTimer, ChildEnds
  <2>4. QED
    BY <2>1, <2>2, <2>3
<1>9. ASSUME NEW c \in Children, ChildExited(c)
     PROVE  Meant
  <2>0. of[c].pod \in Pods /\ of[c].name \in Names
    BY <1>9, TurnFields DEF ChildExited
  <2>1. m \in intentional[q] /\ ~(of[c].pod = q /\ of[c].name = m)
    BY <1>9, <2>0 DEF ChildExited
  <2>2. PICK d \in killed : /\ of[d] # None /\ of[d].pod = q /\ of[d].name = m
                           /\ Running(d)
    BY <2>1
  <2>3. d \in Children /\ d \in killed' /\ d # c
    BY <1>9, <2>1, <2>2 DEF ChildExited
  <2>4. of'[d] = of[d] /\ Running(d)'
    BY <1>9, <2>2, <2>3 DEF ChildExited
  <2>5. QED
    BY <2>2, <2>3, <2>4
<1>10. ASSUME NEW c \in Children, Unlock(c)
     PROVE  Meant
  <2>1. PICK d \in killed : /\ of[d] # None /\ of[d].pod = q /\ of[d].name = m
                           /\ Running(d)
    BY <1>10 DEF Unlock
  <2>2. d \in Children /\ d \in killed'
    BY <1>10 DEF Unlock
  <2>3. of'[d] = of[d] /\ Running(d)'
    BY <1>10, <2>1, <2>2 DEF Unlock
  <2>4. QED
    BY <2>1, <2>2, <2>3
<1>11. ASSUME NEW c \in Children, UnlockFails(c)
     PROVE  Meant
  <2>1. PICK d \in killed : /\ of[d] # None /\ of[d].pod = q /\ of[d].name = m
                           /\ Running(d)
    BY <1>11 DEF UnlockFails
  <2>2. d \in Children /\ d \in killed'
    BY <1>11 DEF UnlockFails
  <2>3. of'[d] = of[d] /\ Running(d)'
    BY <1>11, <2>1, <2>2 DEF UnlockFails
  <2>4. QED
    BY <2>1, <2>2, <2>3
<1>12. ASSUME NEW c \in Children, SessionLost(c)
     PROVE  Meant
  <2>1. PICK d \in killed : /\ of[d] # None /\ of[d].pod = q /\ of[d].name = m
                           /\ Running(d)
    BY <1>12 DEF SessionLost
  <2>2. d \in Children /\ d \in killed'
    BY <1>12 DEF SessionLost
  <2>3. of'[d] = of[d] /\ Running(d)'
    BY <1>12, <2>1, <2>2 DEF SessionLost
  <2>4. QED
    BY <2>1, <2>2, <2>3
<1>13. ASSUME NEW p \in Pods, NEW n \in Names, KillWorker(p, n)
     PROVE  Meant
  <2>1. CASE m \in intentional[q]
    <3>1. PICK d \in killed : /\ of[d] # None /\ of[d].pod = q /\ of[d].name = m
                             /\ Running(d)
      BY <2>1
    <3>2. QED
      BY <1>13, <3>1 DEF KillWorker
  <2>2. CASE m \notin intentional[q]
    <3>1. q = p /\ m = n
      BY <1>13, <2>2 DEF KillWorker
    <3>2. EntryOK(p, n)
      BY DEF MapOK
    <3>3. QED
      BY <1>13, <3>1, <3>2 DEF KillWorker, EntryOK
  <2>3. QED
    BY <2>1, <2>2
<1>14. ASSUME NEW k \in Keys, StuckConnectionCloses(k)
     PROVE  Meant
  <2>1. PICK d \in killed : /\ of[d] # None /\ of[d].pod = q /\ of[d].name = m
                           /\ Running(d)
    BY <1>14 DEF StuckConnectionCloses
  <2>2. d \in Children /\ d \in killed'
    BY <1>14 DEF StuckConnectionCloses
  <2>3. of'[d] = of[d] /\ Running(d)'
    BY <1>14, <2>1, <2>2 DEF StuckConnectionCloses
  <2>4. QED
    BY <2>1, <2>2, <2>3
<1>15. ASSUME NEW p \in Pods, PodCrashes(p)
     PROVE  Meant
  <2>0. q # p /\ m \in intentional[q]
    BY <1>15 DEF PodCrashes
  <2>1. PICK d \in killed : /\ of[d] # None /\ of[d].pod = q /\ of[d].name = m
                           /\ Running(d)
    BY <2>0
  <2>2. d \in Children /\ d \in killed'
    BY <1>15, <2>1 DEF PodCrashes
  <2>3. of'[d] = of[d] /\ Running(d)'
    BY <1>15, <2>0, <2>1, <2>2 DEF PodCrashes
  <2>4. QED
    BY <2>1, <2>2, <2>3
<1>16. CASE UNCHANGED vars
  <2>1. PICK d \in killed : /\ of[d] # None /\ of[d].pod = q /\ of[d].name = m
                           /\ Running(d)
    BY <1>16 DEF vars
  <2>2. d \in Children /\ d \in killed'
    BY <1>16 DEF vars
  <2>3. of'[d] = of[d] /\ Running(d)'
    BY <1>16, <2>1, <2>2 DEF vars
  <2>4. QED
    BY <2>1, <2>2, <2>3
<1>17. QED
  BY <1>1, <1>2, <1>3, <1>4, <1>5, <1>6, <1>7, <1>8, <1>9, <1>10, <1>11, <1>12, <1>13, <1>14, <1>15, <1>16
     DEF Next, ChildStep

LEMMA StepFlagOK ==
    ASSUME IInv, [Next]_vars, NEW d \in Children
    PROVE  FlagOK(d)'
<1>0. FlagOK(d) /\ PhaseOK(d)
  BY DEF IInv, FlagsOK, ChildOK
<1>d. phase[d] # "unused" =>
         of[d].pod \in Pods /\ of[d].name \in Names /\ of[d].key \in Keys
  BY TurnFields DEF IInv
<1>r. of[d] # None /\ RivalGone(d) => RivalGone(d)'
  BY RivalGoneStays
<1> USE <1>0, <1>d, <1>r, ConstantsAssumption DEF IInv, TypeOK, PhaseOK, FlagOK,
    Running,
    Up, Goes, Settled, Forget, GiveBack, Free, Unlocked, podVars, lockVars,
    historyVars
<1>1. ASSUME NEW c \in Children, NEW p \in Pods, NEW n \in Names, NEW k \in Keys,
             Ensure(c, p, n, k)
     PROVE  FlagOK(d)'
  <2>1. \A e \in Children : e # c => of'[e] = of[e]
    BY <1>1 DEF Ensure
  <2>2. QED
    BY <1>1, <2>1 DEF Ensure
<1>2. ASSUME NEW c \in Children, LockTaken(c)
     PROVE  FlagOK(d)'
  BY <1>2 DEF LockTaken
<1>3. ASSUME NEW c \in Children, LockRefused(c)
     PROVE  FlagOK(d)'
  BY <1>3 DEF LockRefused
<1>4. ASSUME NEW c \in Children, PreparationFails(c)
     PROVE  FlagOK(d)'
  BY <1>4 DEF PreparationFails
<1>5. ASSUME NEW c \in Children, StartChild(c)
     PROVE  FlagOK(d)'
  BY <1>5 DEF StartChild
<1>6. ASSUME NEW c \in Children, ChildCannotStart(c)
     PROVE  FlagOK(d)'
  <2> SUFFICES ASSUME Running(d)', d \in killed', ~RivalGone(d)
               PROVE  of[d].name \in intentional'[of[d].pod] \/ RivalGone(d)'
    BY <1>6 DEF ChildCannotStart
  <2>1. d # c /\ Running(d) /\ of[d].name \in intentional[of[d].pod]
    BY <1>6 DEF ChildCannotStart
  <2>2. CASE of[c].pod = of[d].pod /\ of[c].name = of[d].name
    <3>1. conn[c] = "held" /\ conn[d] = "held"
      BY <1>6, <2>1 DEF ChildCannotStart, ChildOK
    <3>2. Rival(d, c)
      BY <1>6, <2>1, <2>2, <3>1, TwoAreRivals DEF ChildCannotStart
    <3>3. Rival(d, c)' /\ phase'[c] = "gone"
      BY <1>6, <3>2 DEF ChildCannotStart, Rival
    <3>4. QED
      BY <3>3 DEF RivalGone
  <2>3. CASE ~(of[c].pod = of[d].pod /\ of[c].name = of[d].name)
    BY <1>6, <2>1, <2>3 DEF ChildCannotStart
  <2>4. QED
    BY <2>2, <2>3
<1>7. ASSUME NEW c \in Children, ChildEnds(c)
     PROVE  FlagOK(d)'
  BY <1>7 DEF ChildEnds
<1>8. ASSUME NEW c \in Children, KillTimer(c)
     PROVE  FlagOK(d)'
  BY <1>8 DEF KillTimer, ChildEnds
<1>9. ASSUME NEW c \in Children, ChildExited(c)
     PROVE  FlagOK(d)'
  <2> SUFFICES ASSUME Running(d)', d \in killed', ~RivalGone(d)
               PROVE  of[d].name \in intentional'[of[d].pod] \/ RivalGone(d)'
    BY <1>9 DEF ChildExited
  <2>1. d # c /\ Running(d) /\ of[d].name \in intentional[of[d].pod]
    BY <1>9 DEF ChildExited
  <2>2. CASE of[c].pod = of[d].pod /\ of[c].name = of[d].name
    <3>1. conn[c] = "held" /\ conn[d] = "held"
      BY <1>9, <2>1 DEF ChildExited, ChildOK
    <3>2. Rival(d, c)
      BY <1>9, <2>1, <2>2, <3>1, TwoAreRivals DEF ChildExited
    <3>3. Rival(d, c)' /\ phase'[c] = "gone"
      BY <1>9, <3>2 DEF ChildExited, Rival
    <3>4. QED
      BY <3>3 DEF RivalGone
  <2>3. CASE ~(of[c].pod = of[d].pod /\ of[c].name = of[d].name)
    BY <1>9, <2>1, <2>3 DEF ChildExited
  <2>4. QED
    BY <2>2, <2>3
<1>10. ASSUME NEW c \in Children, Unlock(c)
     PROVE  FlagOK(d)'
  BY <1>10 DEF Unlock
<1>11. ASSUME NEW c \in Children, UnlockFails(c)
     PROVE  FlagOK(d)'
  BY <1>11 DEF UnlockFails
<1>12. ASSUME NEW c \in Children, SessionLost(c)
     PROVE  FlagOK(d)'
  BY <1>12 DEF SessionLost
<1>13. ASSUME NEW p \in Pods, NEW n \in Names, KillWorker(p, n)
     PROVE  FlagOK(d)'
  <2>1. workers[p][n] \in Children /\ EntryOK(p, n)
    BY <1>13 DEF KillWorker, MapOK
  <2>2. QED
    BY <1>13, <2>1 DEF KillWorker, EntryOK
<1>14. ASSUME NEW k \in Keys, StuckConnectionCloses(k)
     PROVE  FlagOK(d)'
  BY <1>14 DEF StuckConnectionCloses
<1>15. ASSUME NEW p \in Pods, PodCrashes(p)
     PROVE  FlagOK(d)'
  BY <1>15 DEF PodCrashes
<1>16. CASE UNCHANGED vars
  BY <1>16 DEF vars
<1>17. QED
  BY <1>1, <1>2, <1>3, <1>4, <1>5, <1>6, <1>7, <1>8, <1>9, <1>10, <1>11, <1>12, <1>13, <1>14, <1>15, <1>16
     DEF Next, ChildStep

LEMMA StepIInv == IInv /\ [Next]_vars => IInv'
<1> SUFFICES ASSUME IInv, [Next]_vars PROVE IInv'
  OBVIOUS
<1>1. FlagsOK'
  BY StepFlagsMeant, StepFlagOK DEF FlagsOK
<1>2. QED
  BY <1>1, StepTypeOK, StepUntold, StepCounted, StepChildOK, StepMapOK DEF IInv

LEMMA AlwaysIInv == Spec => []IInv
BY InitIInv, StepIInv, PTL DEF Spec

-----------------------------------------------------------------------------
(* Liveness                                                                *)

(* The way of a child that was stopped: it lives, it has ended, its        *)
(* connection is being given back, it has been.                            *)
Stopped(c) == Up(c) /\ c \in killed
Living(c) == Stopped(c) /\ phase[c] = "alive"
Ending(c) == Stopped(c) /\ phase[c] = "dead"
Releasing(c) == Stopped(c) /\ conn[c] = "unlocking"
Back(c) == conn[c] = "done"

(* No step leads elsewhere, whosever step it is.                           *)
LEMMA StoppedMoves ==
    ASSUME IInv, [Next]_vars, NEW d \in Children
    PROVE  /\ Living(d) => Living(d)' \/ Ending(d)' \/ Back(d)'
           /\ Ending(d) => Ending(d)' \/ Releasing(d)' \/ Back(d)'
           /\ Releasing(d) => Releasing(d)' \/ Back(d)'
<1> DEFINE Moves == /\ Living(d) => Living(d)' \/ Ending(d)' \/ Back(d)'
                    /\ Ending(d) => Ending(d)' \/ Releasing(d)' \/ Back(d)'
                    /\ Releasing(d) => Releasing(d)' \/ Back(d)'
<1> SUFFICES Moves
  OBVIOUS
<1>0. PhaseOK(d)
  BY DEF IInv, ChildOK
<1> USE <1>0 DEF IInv, TypeOK, PhaseOK, Stopped, Living, Ending, Releasing, Back,
    Up, Goes, Settled, Forget, GiveBack, Free, Unlocked, podVars, lockVars,
    historyVars
<1>1. ASSUME NEW c \in Children, NEW p \in Pods, NEW n \in Names, NEW k \in Keys,
             Ensure(c, p, n, k)
     PROVE  Moves
  BY <1>1 DEF Ensure
<1>2. ASSUME NEW c \in Children, LockTaken(c)
     PROVE  Moves
  BY <1>2 DEF LockTaken
<1>3. ASSUME NEW c \in Children, LockRefused(c)
     PROVE  Moves
  BY <1>3 DEF LockRefused
<1>4. ASSUME NEW c \in Children, PreparationFails(c)
     PROVE  Moves
  BY <1>4 DEF PreparationFails
<1>5. ASSUME NEW c \in Children, StartChild(c)
     PROVE  Moves
  BY <1>5 DEF StartChild
<1>6. ASSUME NEW c \in Children, ChildCannotStart(c)
     PROVE  Moves
  BY <1>6 DEF ChildCannotStart
<1>7. ASSUME NEW c \in Children, ChildEnds(c)
     PROVE  Moves
  BY <1>7 DEF ChildEnds
<1>8. ASSUME NEW c \in Children, KillTimer(c)
     PROVE  Moves
  BY <1>8 DEF KillTimer, ChildEnds
<1>9. ASSUME NEW c \in Children, ChildExited(c)
     PROVE  Moves
  BY <1>9 DEF ChildExited
<1>10. ASSUME NEW c \in Children, Unlock(c)
     PROVE  Moves
  BY <1>10 DEF Unlock
<1>11. ASSUME NEW c \in Children, UnlockFails(c)
     PROVE  Moves
  BY <1>11 DEF UnlockFails
<1>12. ASSUME NEW c \in Children, SessionLost(c)
     PROVE  Moves
  BY <1>12 DEF SessionLost
<1>13. ASSUME NEW p \in Pods, NEW n \in Names, KillWorker(p, n)
     PROVE  Moves
  BY <1>13 DEF KillWorker
<1>14. ASSUME NEW k \in Keys, StuckConnectionCloses(k)
     PROVE  Moves
  BY <1>14 DEF StuckConnectionCloses
<1>15. ASSUME NEW p \in Pods, PodCrashes(p)
     PROVE  Moves
  BY <1>15 DEF PodCrashes
<1>16. CASE UNCHANGED vars
  BY <1>16 DEF vars
<1>17. QED
  BY <1>1, <1>2, <1>3, <1>4, <1>5, <1>6, <1>7, <1>8, <1>9, <1>10, <1>11, <1>12, <1>13, <1>14, <1>15, <1>16
     DEF Next, ChildStep

LEMMA FairSteps ==
    ASSUME NEW c \in Children
    PROVE  FairSpec => []IInv /\ [][Next]_vars /\ FairTo(c)
<1>1. Fairness => FairTo(c)
  BY DEF Fairness
<1>2. QED
  BY <1>1, AlwaysIInv, PTL DEF FairSpec, Spec

-----------------------------------------------------------------------------
(* The theorems                                                            *)

(* The variables keep their types (spawnDeployment, killWorker); that the  *)
(* count of reservations does not fall below zero takes Counted.           *)
THEOREM DeploymentsTyped == Spec => []TypeOK
<1>1. IInv => TypeOK
  BY DEF IInv
<1>2. QED
  BY <1>1, AlwaysIInv, PTL

(* Two workers of one conversation: the lock of one was lost               *)
(* (acquireConversationLock, and its release in the exit handler).         *)
THEOREM WritersExclusive == Spec => []OneWriterPerConversation
<1>1. IInv => OneWriterPerConversation
  <2> SUFFICES ASSUME IInv, NEW c \in Children, NEW d \in Children,
                      c # d, phase[c] = "alive", phase[d] = "alive",
                      of[c].key = of[d].key, Guarded(c), Guarded(d)
               PROVE  FALSE
    BY DEF OneWriterPerConversation
  <2>1. Up(c) /\ Up(d)
    BY DEF Up, Guarded
  <2>2. holder[of[c].key] = c /\ holder[of[d].key] = d
    BY <2>1 DEF IInv, ChildOK, PhaseOK, LockOK, Guarded
  <2>3. QED
    BY <2>2
<1>2. QED
  BY <1>1, AlwaysIInv, PTL

(* The map has every worker that nobody stopped, up to rivals (the exit    *)
(* handler deletes by name).                                               *)
THEOREM WorkersKnown == Spec => []LivingWorkersAreKnown
<1>1. IInv => LivingWorkersAreKnown
  BY DEF IInv, MapOK, KnownOK, Running, RivalGone, LivingWorkersAreKnown
<1>2. QED
  BY <1>1, AlwaysIInv, PTL

(* The count is that of the connections in use, and at most the cap        *)
(* (acquireConversationLock).                                              *)
THEOREM ReservationsCounted == Spec => []ReservationsAreCounted
<1>1. IInv => ReservationsAreCounted
  BY ConstantsAssumption
     DEF IInv, TypeOK, Counted, Slots, ReservationsAreCounted
<1>2. QED
  BY <1>1, AlwaysIInv, PTL

(* Turns are failed by the exits that nobody asked for, up to rivals       *)
(* (intentionalExits, failTurnsForDeployment).                             *)
THEOREM CrashesTold == Spec => CrashesAreTold
<1> DEFINE Told(c) ==
      phase[c] = "dead" /\ phase'[c] = "gone" =>
          /\ c \notin killed =>
                \/ c \in reported'
                \/ \E d \in Children : Rival(c, d) /\ d \in killed
          /\ c \in killed =>
                \/ c \notin reported'
                \/ \E d \in Children : Rival(c, d) /\ phase[d] = "gone"
<1>1. ASSUME IInv, [Next]_vars, NEW c \in Children, phase[c] = "dead",
             phase'[c] = "gone"
      PROVE  ChildExited(c)
  <2>1. Next
    BY <1>1 DEF vars
  <2> USE <1>1 DEF IInv, TypeOK, Goes
  <2>2. ASSUME NEW e \in Children, ChildStep(e)
        PROVE  e = c /\ ChildExited(c)
    BY <2>2 DEF ChildStep, Ensure, LockTaken, LockRefused, PreparationFails,
                StartChild, ChildCannotStart, ChildEnds, KillTimer,
                ChildExited, Unlock, UnlockFails, SessionLost
  <2>3. ASSUME NEW p \in Pods, PodCrashes(p) PROVE FALSE
    BY <2>3 DEF PodCrashes
  <2>4. QED
    BY <2>1, <2>2, <2>3 DEF Next, KillWorker, StuckConnectionCloses
<1>2. ASSUME IInv, [Next]_vars, NEW c \in Children PROVE Told(c)
  <2> SUFFICES ASSUME phase[c] = "dead", phase'[c] = "gone" PROVE Told(c)
    OBVIOUS
  <2>1. ChildExited(c)
    BY <1>1, <1>2
  <2>2. Up(c) /\ c \in Children /\ conn[c] = "held"
    BY <1>2, <2>1 DEF ChildExited, IInv, ChildOK, PhaseOK
  <2>3. ASSUME c \notin killed, c \notin reported'
        PROVE  \E d \in Children : Rival(c, d) /\ d \in killed
    <3>1. of[c].pod \in Pods /\ of[c].name \in intentional[of[c].pod]
      BY <1>2, <2>1, <2>3, TurnFields DEF ChildExited, IInv
    <3>2. PICK d \in killed : /\ of[d] # None /\ of[d].pod = of[c].pod
                              /\ of[d].name = of[c].name /\ Running(d)
      BY <1>2, <3>1 DEF IInv, FlagsOK, FlagsMeant
    <3>3. d \in Children /\ d # c /\ Up(d) /\ conn[d] = "held"
      BY <1>2, <2>3, <3>2 DEF IInv, TypeOK, ChildOK, PhaseOK, Running
    <3>4. Rival(c, d)
      BY <1>2, <2>2, <3>2, <3>3, TwoAreRivals DEF IInv
    <3>5. QED
      BY <3>2, <3>3, <3>4
  <2>4. ASSUME c \in killed, c \in reported'
        PROVE  \E d \in Children : Rival(c, d) /\ phase[d] = "gone"
    <3>1. c \notin reported
      BY <1>2, <2>1 DEF IInv, Untold, ChildExited
    <3>2. of[c].name \notin intentional[of[c].pod]
      BY <2>1, <2>4, <3>1 DEF ChildExited
    <3>3. QED
      BY <1>2, <2>1, <2>2, <2>4, <3>2
         DEF IInv, FlagsOK, FlagOK, Running, RivalGone
  <2>5. QED
    BY <2>3, <2>4
<1>3. IInv /\ [Next]_vars => \A c \in Children : Told(c)
  BY <1>2
<1>4. QED
  BY <1>3, AlwaysIInv, PTL DEF Spec, CrashesAreTold

(* A worker that was stopped gives its connection back, as long as each of *)
(* the waits on that way has a step that ends it (killWorker, the exit     *)
(* handler, releaseConversationLock): the timer's kill, the handler of the *)
(* exit and the end of the release follow one another, and a pod that ends *)
(* on the way ends its sessions.                                           *)
THEOREM StoppedGiveBack ==
    FairSpec /\ []NothingIsStuck => StoppedWorkersGiveBack
<1> SUFFICES ASSUME NEW c \in Children
             PROVE  FairSpec /\ []NothingIsStuck =>
                        (c \in killed ~> conn[c] = "done")
  BY DEF StoppedWorkersGiveBack
<1>1. IInv /\ [Next]_vars /\ Living(c) => Living(c)' \/ Ending(c)' \/ Back(c)'
  BY StoppedMoves
<1>2. IInv /\ [Next]_vars /\ Ending(c) => Ending(c)' \/ Releasing(c)' \/ Back(c)'
  BY StoppedMoves
<1>3. IInv /\ [Next]_vars /\ Releasing(c) => Releasing(c)' \/ Back(c)'
  BY StoppedMoves
<1>4. Living(c) /\ IInv /\ <<KillTimer(c)>>_vars => Ending(c)'
  BY DEF IInv, TypeOK, Living, Stopped, Ending, KillTimer, ChildEnds, Goes, Up,
         historyVars
<1>5. Ending(c) /\ IInv /\ <<ChildExited(c)>>_vars => Releasing(c)'
  BY DEF IInv, TypeOK, Ending, Stopped, Releasing, ChildExited, Goes, Up
<1>6. Releasing(c) /\ IInv /\ <<Released(c)>>_vars => Back(c)'
  BY DEF IInv, TypeOK, Releasing, Back, Released, Unlock, UnlockFails
<1>7. NothingIsStuck =>
          /\ Living(c) => ENABLED <<KillTimer(c)>>_vars
          /\ Ending(c) => ENABLED <<ChildExited(c)>>_vars
          /\ Releasing(c) => ENABLED <<Released(c)>>_vars
  BY DEF NothingIsStuck, Living, Ending, Releasing, Stopped
<1>8. IInv /\ c \in killed => Living(c) \/ Ending(c) \/ Releasing(c) \/ Back(c)
  BY DEF IInv, ChildOK, PhaseOK, Living, Ending, Releasing, Back, Stopped
<1>9. FairSpec /\ []NothingIsStuck => (Releasing(c) ~> Back(c))
  BY <1>3, <1>6, <1>7, FairSteps, PTL DEF FairTo
<1>10. FairSpec /\ []NothingIsStuck => (Ending(c) ~> Back(c))
  BY <1>2, <1>5, <1>7, <1>9, FairSteps, PTL DEF FairTo
<1>11. FairSpec /\ []NothingIsStuck => (Living(c) ~> Back(c))
  BY <1>1, <1>4, <1>7, <1>10, FairSteps, PTL DEF FairTo
<1>12. FairSpec /\ []NothingIsStuck => (c \in killed ~> Back(c))
  BY <1>8, <1>9, <1>10, <1>11, FairSteps, PTL
<1>13. QED
  BY <1>12 DEF Back
=============================================================================
