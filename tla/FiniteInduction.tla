--------------------------- MODULE FiniteInduction ---------------------------
(***************************************************************************)
(* Induction over the natural numbers and over a finite set, stated of a   *)
(* function that marks with 1 those for which the claim is true: it may    *)
(* then be used for any claim, also for a temporal one.                    *)
(***************************************************************************)
EXTENDS Naturals, FiniteSets, FiniteSetTheorems, WellFoundedInduction, TLAPS

(* Names a term. A function that marks with 1 what a temporal claim is     *)
(* true of is no witness that could be given, but one the provers find     *)
(* when it is named.                                                       *)
Term(f) == TRUE

(* What is true of 0 and passed on by each number is true of all.          *)
LEMMA InductionOnNat ==
    ASSUME NEW f, f[0] = 1, \A n \in Nat : f[n] = 1 => f[n + 1] = 1
    PROVE  \A n \in Nat : f[n] = 1
<1> DEFINE T == {n \in Nat : f[n] # 1}
<1> SUFFICES ASSUME T # {} PROVE FALSE
  OBVIOUS
<1>1. PICK n \in T : \A m \in T : ~(<<m, n>> \in OpToRel(<, Nat))
  <2>1. T \subseteq Nat
    OBVIOUS
  <2> HIDE DEF T
  <2>2. QED
    BY <2>1, WFMin, NatLessThanWellFounded, Zenon
<1>2. n \in Nat /\ n # 0 /\ n - 1 \in Nat /\ n - 1 < n
  OBVIOUS
<1>3. n - 1 \notin T
  <2>1. n - 1 \in T => <<n - 1, n>> \in OpToRel(<, Nat)
    BY <1>2 DEF OpToRel
  <2>2. QED
    BY <1>1, <2>1
<1>4. QED
  BY <1>2, <1>3

(* What is true of no element and passed on by each element that is added  *)
(* is true of the whole of a finite set.                                   *)
LEMMA InductionOnFiniteSet ==
    ASSUME NEW S, IsFiniteSet(S), NEW f, f[{}] = 1,
           \A T \in SUBSET S, x \in S : f[T] = 1 => f[T \union {x}] = 1
    PROVE  f[S] = 1
<1> DEFINE g == [n \in Nat |->
                   IF \A T \in SUBSET S : IsFiniteSet(T) /\ Cardinality(T) = n
                          => f[T] = 1
                   THEN 1 ELSE 0]
<1>1. g[0] = 1
  <2>1. \A T \in SUBSET S : IsFiniteSet(T) /\ Cardinality(T) = 0 => T = {}
    BY FS_EmptySet
  <2>2. QED
    BY <2>1
<1>2. ASSUME NEW n \in Nat, g[n] = 1, NEW T \in SUBSET S,
             IsFiniteSet(T), Cardinality(T) = n + 1
      PROVE  f[T] = 1
  <2>1. PICK x \in T : TRUE
    BY <1>2, FS_EmptySet
  <2>2. IsFiniteSet(T \ {x}) /\ Cardinality(T \ {x}) = n
    <3>1. IsFiniteSet(T \ {x}) /\ Cardinality(T \ {x}) = Cardinality(T) - 1
      BY <1>2, <2>1, FS_RemoveElement, Zenon
    <3>2. QED
      BY <1>2, <3>1
  <2>3. f[T \ {x}] = 1
    BY <1>2, <2>2
  <2>4. (T \ {x}) \union {x} = T
    OBVIOUS
  <2>5. QED
    BY <2>3, <2>4
<1>3. \A n \in Nat : g[n] = 1 => g[n + 1] = 1
  BY <1>2
<1> HIDE DEF g
<1>4. \A n \in Nat : g[n] = 1
  BY <1>1, <1>3, InductionOnNat
<1>5. Cardinality(S) \in Nat
  BY FS_CardinalityType
<1>6. QED
  BY <1>4, <1>5 DEF g
=============================================================================
