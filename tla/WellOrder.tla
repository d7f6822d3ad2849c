----------------------------- MODULE WellOrder -----------------------------
(***************************************************************************)
(* Least and greatest elements of sets of integers.  The proofs of other   *)
(* modules use them in place of induction: a property of all numbers holds *)
(* if the set of its counterexamples has no least element.  And a way to   *)
(* count: sets that a function pairs off have the same size.               *)
(***************************************************************************)
EXTENDS FiniteSetsExt, FiniteSetTheorems, FunctionTheorems, WellFoundedInduction, TLAPS

\* A nonempty set of natural numbers has a least element.
LEMMA LeastNat ==
  ASSUME NEW T \in SUBSET Nat, T # {}
  PROVE  \E x \in T : \A y \in T : x <= y
  <1> DEFINE R == OpToRel(<, Nat)
  <1>1. IsWellFoundedOn(R, Nat)
    BY NatLessThanWellFounded
  <1>2. \A x, y \in Nat : <<y, x>> \in R <=> y < x
    BY DEF OpToRel
  <1> HIDE DEF R
  <1>3. PICK x \in T : \A y \in T : ~(<<y, x>> \in R)
    BY <1>1, WFMin
  <1>4. \A y \in T : x <= y
    <2> TAKE y \in T
    <2>1. x \in Nat /\ y \in Nat
      OBVIOUS
    <2>2. ~(<<y, x>> \in R)
      BY <1>3
    <2>3. ~(y < x)
      BY <1>2, <2>1, <2>2, Zenon
    <2> QED
      BY <2>1, <2>3
  <1> QED
    BY <1>4

\* A nonempty set of integers with a lower bound has a least element.
LEMMA LeastInt ==
  ASSUME NEW T \in SUBSET Int, T # {}, NEW b \in Int, \A x \in T : b <= x
  PROVE  \E x \in T : \A y \in T : x <= y
  <1> DEFINE U == {n \in Nat : n + b \in T}
  <1>1. U \in SUBSET Nat /\ U # {}
    <2>1. PICK x \in T : TRUE
      OBVIOUS
    <2>2. x - b \in Nat /\ (x - b) + b = x
      BY <2>1
    <2>3. x - b \in U
      BY <2>2
    <2> QED
      BY <2>3
  <1>2. PICK u \in U : \A v \in U : u <= v
    BY <1>1, LeastNat
  <1>3. u + b \in T /\ u \in Nat
    OBVIOUS
  <1>4. ASSUME NEW y \in T PROVE u + b <= y
    <2>1. y - b \in Nat /\ (y - b) + b = y /\ y \in Int
      BY <1>4
    <2>2. y - b \in U
      BY <2>1
    <2>3. u <= y - b
      BY <1>2, <2>2
    <2> QED
      BY <1>3, <2>1, <2>3
  <1> QED
    BY <1>3, <1>4

\* Max is the greatest element of a nonempty set of integers with an upper bound.
LEMMA MaxInt ==
  ASSUME NEW T \in SUBSET Int, T # {}, NEW b \in Int, \A x \in T : x <= b
  PROVE  Max(T) \in T /\ \A y \in T : Max(T) >= y
  <1> DEFINE U == {n \in Int : -n \in T}
  <1>1. PICK x \in T : TRUE
    OBVIOUS
  <1>2. -x \in Int /\ -(-x) = x
    OBVIOUS
  <1>3. U \in SUBSET Int /\ U # {} /\ -b \in Int
    BY <1>2
  <1>4. \A n \in U : -b <= n
    OBVIOUS
  <1>5. PICK u \in U : \A v \in U : u <= v
    BY <1>3, <1>4, LeastInt
  <1>6. -u \in T /\ u \in Int
    OBVIOUS
  <1>7. ASSUME NEW y \in T PROVE -u >= y
    <2>1. -y \in Int /\ -(-y) = y /\ y \in Int
      BY <1>7
    <2>2. -y \in U
      BY <2>1
    <2>3. u <= -y
      BY <1>5, <2>2
    <2> QED
      BY <1>6, <2>1, <2>3
  <1>8. \E z \in T : \A y \in T : z >= y
    BY <1>6, <1>7
  <1> QED
    BY <1>8 DEF Max

\* Two sets have the same number of elements if a function pairs them off.
LEMMA SameSize ==
  ASSUME NEW S, NEW T, IsFiniteSet(S), NEW f \in [S -> T],
         \A a, b \in S : f[a] = f[b] => a = b,
         \A y \in T : \E a \in S : f[a] = y
  PROVE  IsFiniteSet(T) /\ Cardinality(T) = Cardinality(S)
  <1>1. f \in Bijection(S, T)
    BY Fun_IsBij
  <1>2. ExistsBijection(S, T)
    BY <1>1, Fun_ExistsBij
  <1> QED
    BY <1>2, FS_Bijection
=============================================================================
