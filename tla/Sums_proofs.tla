------------------------------ MODULE Sums_proofs -------------------------------
(***************************************************************************)
(* What MapThenSumSet computes over a finite set, for the sums of Pairing. *)
(* The library's induction theorems have an operator as a parameter; here  *)
(* induction is over a set of naturals and a set of subsets, through the   *)
(* least element of what is left (WFMin).                                  *)
(***************************************************************************)
EXTENDS Integers, FiniteSets, FiniteSetsExt, FiniteSetTheorems, TLAPS

--------------------------------------------------------------------------------
(* Induction over sets.                                                    *)

\* A set of naturals with 0 that is closed under successor is Nat.
LEMMA InductionOverNat ==
    ASSUME NEW Q \in SUBSET Nat, 0 \in Q, \A n \in Q : n + 1 \in Q
    PROVE  Q = Nat
<1> SUFFICES ASSUME Q # Nat PROVE FALSE
    OBVIOUS
<1> DEFINE R == OpToRel(<, Nat)
           T == Nat \ Q
<1>1. IsWellFoundedOn(R, Nat)
    BY NatLessThanWellFounded
<1>2. T \subseteq Nat /\ T # {}
    OBVIOUS
<1>3. \A x, y \in Nat : x < y => <<x, y>> \in R
    BY DEF OpToRel
<1> HIDE DEF R, T
<1>4. PICK x \in T : \A y \in T : ~(<<y, x>> \in R)
    BY <1>1, <1>2, WFMin
<1>5. x \in Nat /\ x # 0 /\ x \notin Q
    BY <1>2, <1>4 DEF T
<1>6. x - 1 \in Nat /\ x - 1 < x /\ (x - 1) + 1 = x
    BY <1>5
<1>7. x - 1 \notin T
    BY <1>3, <1>4, <1>5, <1>6
<1> QED BY <1>5, <1>6, <1>7 DEF T

--------------------------------------------------------------------------------
(* The sum as a recursive function of the subsets.                         *)

Pick(s) == CHOOSE x \in s : TRUE

Added(it, h, s) == IF s = {} THEN 0 ELSE h[Pick(s)] + it[s \ {Pick(s)}]

\* it[s] is the sum of h over s, for every part s of S.
Sums(it, h, S) == it = [s \in SUBSET S |-> Added(it, h, s)]

LEMMA PickIn ==
    ASSUME NEW S, IsFiniteSet(S), NEW s \in SUBSET S, s # {}
    PROVE  /\ Pick(s) \in s /\ Pick(s) \in S
           /\ s \ {Pick(s)} \in SUBSET S
           /\ IsFiniteSet(s) /\ Cardinality(s) \in Nat
           /\ Cardinality(s \ {Pick(s)}) = Cardinality(s) - 1
           /\ Cardinality(s \ {Pick(s)}) \in Nat
<1>1. Pick(s) \in s
    BY DEF Pick
<1>2. IsFiniteSet(s)
    BY FS_Subset
<1>3. IsFiniteSet(s \ {Pick(s)}) /\ Cardinality(s \ {Pick(s)}) = Cardinality(s) - 1
    BY <1>1, <1>2, FS_RemoveElement
<1>4. Cardinality(s) \in Nat /\ Cardinality(s \ {Pick(s)}) \in Nat
    BY <1>2, <1>3, FS_CardinalityType
<1> QED BY <1>1, <1>2, <1>3, <1>4

\* A family of parts of a finite set that has the empty set, and every part whose
\* rest after one pick it has, has every part.
LEMMA InductionOverParts ==
    ASSUME NEW S, IsFiniteSet(S), NEW Q, {} \in Q,
           \A s \in SUBSET S : s # {} /\ s \ {Pick(s)} \in Q => s \in Q
    PROVE  \A s \in SUBSET S : s \in Q
<1> DEFINE N == {n \in Nat : \A s \in SUBSET S : Cardinality(s) = n => s \in Q}
<1>1. 0 \in N
    <2>1. \A s \in SUBSET S : Cardinality(s) = 0 => s = {}
        BY FS_Subset, FS_EmptySet
    <2> QED BY <2>1
<1>2. ASSUME NEW n \in N PROVE n + 1 \in N
    <2> SUFFICES ASSUME NEW s \in SUBSET S, Cardinality(s) = n + 1 PROVE s \in Q
        OBVIOUS
    <2>1. s # {}
        BY FS_EmptySet
    <2>2. s \ {Pick(s)} \in SUBSET S /\ Cardinality(s \ {Pick(s)}) = n
        BY <2>1, PickIn
    <2>3. s \ {Pick(s)} \in Q
        BY <2>2
    <2> QED BY <2>1, <2>3
<1>3. N = Nat
    <2> HIDE DEF N
    <2>1. N \in SUBSET Nat
        BY DEF N
    <2> QED BY <1>1, <1>2, <2>1, InductionOverNat
<1>4. \A s \in SUBSET S : Cardinality(s) \in Nat
    BY FS_Subset, FS_CardinalityType
<1> QED BY <1>3, <1>4

\* The recursion has a solution.
LEMMA SumsExist ==
    ASSUME NEW S, IsFiniteSet(S), NEW h \in [S -> Int]
    PROVE  \E it : Sums(it, h, S)
<1> DEFINE UpTo(it, n) == \A s \in SUBSET S : Cardinality(s) <= n => it[s] = Added(it, h, s)
           N == {n \in Nat : \E it : UpTo(it, n)}
<1>0. \A s \in SUBSET S : Cardinality(s) \in Nat
    BY FS_Subset, FS_CardinalityType
<1>1. 0 \in N
    <2> DEFINE it == [s \in SUBSET S |-> 0]
    <2>1. \A s \in SUBSET S : Cardinality(s) <= 0 => s = {}
        BY <1>0, FS_Subset, FS_EmptySet
    <2>2. UpTo(it, 0)
        BY <2>1 DEF Added
    <2> QED BY <2>2
<1>2. ASSUME NEW n \in N PROVE n + 1 \in N
    <2>1. PICK it : UpTo(it, n)
        OBVIOUS
    <2> DEFINE next == [s \in SUBSET S |-> IF Cardinality(s) <= n THEN it[s] ELSE Added(it, h, s)]
    <2>2. ASSUME NEW s \in SUBSET S, Cardinality(s) <= n + 1
          PROVE  next[s] = Added(next, h, s)
        <3>1. next[s] = Added(it, h, s)
            BY <2>1
        <3>2. CASE s = {}
            BY <3>1, <3>2 DEF Added
        <3>3. CASE s # {}
            <4>1. s \ {Pick(s)} \in SUBSET S /\ Cardinality(s \ {Pick(s)}) <= n
                BY <2>2, <3>3, PickIn
            <4>2. next[s \ {Pick(s)}] = it[s \ {Pick(s)}]
                BY <4>1
            <4> QED BY <3>1, <3>3, <4>2 DEF Added
        <3> QED BY <3>2, <3>3
    <2>3. UpTo(next, n + 1)
        BY <2>2
    <2> HIDE DEF next
    <2>4. n + 1 \in Nat /\ \E g : UpTo(g, n + 1)
        BY <2>3
    <2> QED BY <2>4
<1>3. N = Nat
    <2> HIDE DEF N
    <2>1. N \in SUBSET Nat
        BY DEF N
    <2> QED BY <1>1, <1>2, <2>1, InductionOverNat
<1>4. Cardinality(S) \in Nat /\ \A s \in SUBSET S : Cardinality(s) <= Cardinality(S)
    BY FS_Subset, FS_CardinalityType
<1>5. PICK it : UpTo(it, Cardinality(S))
    BY <1>3, <1>4
<1> DEFINE all == [s \in SUBSET S |-> it[s]]
<1>6. \A s \in SUBSET S : all[s] = Added(all, h, s)
    <2> TAKE s \in SUBSET S
    <2>1. all[s] = Added(it, h, s)
        BY <1>4, <1>5
    <2>2. s # {} => all[s \ {Pick(s)}] = it[s \ {Pick(s)}]
        OBVIOUS
    <2> QED BY <2>1, <2>2 DEF Added
<1>7. Sums(all, h, S)
    BY <1>6 DEF Sums
<1> QED BY <1>7

\* A sum of integers is an integer, and summing what is summed with the sign turned
\* turns the sign of the sum.
LEMMA SumsOfParts ==
    ASSUME NEW S, IsFiniteSet(S), NEW h \in [S -> Int], NEW k \in [S -> Int],
           NEW it, NEW jt, Sums(it, h, S), Sums(jt, k, S)
    PROVE  /\ \A s \in SUBSET S : it[s] \in Int
           /\ (\A x \in S : k[x] = h[x]) => jt[S] = it[S]
           /\ (\A x \in S : k[x] = -h[x]) => jt[S] = -it[S]
<1>0. \A s \in SUBSET S : it[s] = Added(it, h, s) /\ jt[s] = Added(jt, k, s)
    BY DEF Sums
<1> DEFINE I == {s \in SUBSET S : it[s] \in Int}
           E == {s \in SUBSET S : jt[s] = it[s]}
           O == {s \in SUBSET S : jt[s] = -it[s]}
<1>1. \A s \in SUBSET S : s \in I
    <2>1. {} \in I
        BY <1>0 DEF Added
    <2>2. ASSUME NEW s \in SUBSET S, s # {}, s \ {Pick(s)} \in I PROVE s \in I
        <3>1. Pick(s) \in S
            BY <2>2, PickIn
        <3>2. h[Pick(s)] \in Int /\ it[s \ {Pick(s)}] \in Int
            BY <2>2, <3>1
        <3>3. it[s] = h[Pick(s)] + it[s \ {Pick(s)}]
            BY <1>0, <2>2 DEF Added
        <3> QED BY <3>2, <3>3
    <2> HIDE DEF I
    <2> QED BY <2>1, <2>2, InductionOverParts
<1>2. ASSUME \A x \in S : k[x] = h[x] PROVE \A s \in SUBSET S : s \in E
    <2>1. {} \in E
        BY <1>0 DEF Added
    <2>2. ASSUME NEW s \in SUBSET S, s # {}, s \ {Pick(s)} \in E PROVE s \in E
        <3>1. Pick(s) \in S
            BY <2>2, PickIn
        <3>2. /\ it[s] = h[Pick(s)] + it[s \ {Pick(s)}]
              /\ jt[s] = k[Pick(s)] + jt[s \ {Pick(s)}]
            BY <1>0, <2>2 DEF Added
        <3> QED BY <1>2, <2>2, <3>1, <3>2
    <2> HIDE DEF E
    <2> QED BY <2>1, <2>2, InductionOverParts
<1>3. ASSUME \A x \in S : k[x] = -h[x] PROVE \A s \in SUBSET S : s \in O
    <2>1. {} \in O
        BY <1>0 DEF Added
    <2>2. ASSUME NEW s \in SUBSET S, s # {}, s \ {Pick(s)} \in O PROVE s \in O
        <3>1. Pick(s) \in S
            BY <2>2, PickIn
        <3>2. /\ it[s] = h[Pick(s)] + it[s \ {Pick(s)}]
              /\ jt[s] = k[Pick(s)] + jt[s \ {Pick(s)}]
            BY <1>0, <2>2 DEF Added
        <3>3. h[Pick(s)] \in Int /\ it[s \ {Pick(s)}] \in Int
            BY <1>1, <3>1
        <3>4. k[Pick(s)] = -h[Pick(s)] /\ jt[s \ {Pick(s)}] = -it[s \ {Pick(s)}]
            BY <1>3, <2>2, <3>1
        <3> QED BY <3>2, <3>3, <3>4
    <2> HIDE DEF O
    <2> QED BY <2>1, <2>2, InductionOverParts
<1> QED BY <1>1, <1>2, <1>3
================================================================================
