----------------------------- MODULE SetLemmas -----------------------------
(***************************************************************************)
(* Facts about sets of numbers and small finite sets that the proofs about *)
(* several components need.                                                *)
(***************************************************************************)
EXTENDS Integers, FiniteSetsExt, FiniteSetTheorems, WellFoundedInduction, TLAPS

(* A nonempty set of naturals contains its Min: the place at which a scan  *)
(* of the code's tables ends is one of the places it may end at.           *)
LEMMA MinIsMember ==
    ASSUME NEW S \in SUBSET Nat, S # {}
    PROVE  Min(S) \in S /\ \A y \in S : Min(S) <= y
<1> DEFINE R == OpToRel(<, Nat)
<1>1. \E x \in S : \A y \in S : ~(<<y, x>> \in R)
  <2>1. IsWellFoundedOn(R, Nat)
    BY NatLessThanWellFounded
  <2> HIDE DEF R
  <2>2. QED
    BY <2>1, WFMin, Zenon
<1>2. PICK x \in S : \A y \in S : ~(<<y, x>> \in R)
  BY <1>1
<1>3. \A y \in S : ~(y < x)
  BY <1>2 DEF OpToRel
<1>4. \A y \in S : x <= y
  BY <1>3
<1>5. QED
  BY <1>4 DEF Min

(* One of finitely many numbers is the greatest, and it is their Max. *)
LEMMA MaxOfImage ==
    ASSUME NEW S, IsFiniteSet(S), S # {}, NEW f \in [S -> Int]
    PROVE  /\ \E x \in S : Max({f[y] : y \in S}) = f[x]
           /\ \A x \in S : f[x] <= Max({f[y] : y \in S})
<1> DEFINE Top(T) == \E x \in T : \A y \in T : f[y] <= f[x]
           Bad == {n \in Nat : \E T \in SUBSET S :
                      T # {} /\ Cardinality(T) = n /\ ~Top(T)}
<1>1. Bad = {}
  <2> SUFFICES ASSUME Bad # {} PROVE FALSE
    OBVIOUS
  <2>1. Bad \in SUBSET Nat
    OBVIOUS
  <2> HIDE DEF Bad
  <2>2. Min(Bad) \in Bad /\ \A n \in Bad : Min(Bad) <= n
    BY <2>1, MinIsMember
  <2>3. PICK m \in Bad : \A n \in Bad : m <= n
    BY <2>2
  <2>4. PICK T \in SUBSET S : T # {} /\ Cardinality(T) = m /\ ~Top(T)
    BY DEF Bad
  <2>5. IsFiniteSet(T)
    BY <2>4, FS_Subset
  <2>6. PICK x \in T : TRUE
    BY <2>4
  <2> DEFINE U == T \ {x}
  <2>7. U # {}
    BY <2>4
  <2>8. IsFiniteSet(U) /\ Cardinality(U) = m - 1 /\ U \in SUBSET S
    BY <2>4, <2>5, FS_RemoveElement
  <2>9. m - 1 \in Nat /\ m - 1 \notin Bad
    <3>1. Cardinality(U) \in Nat
      BY <2>8, FS_CardinalityType
    <3> QED
      BY <2>1, <2>3, <2>8, <3>1
  <2>10. Top(U)
    BY <2>7, <2>8, <2>9 DEF Bad
  <2>11. PICK z \in U : \A y \in U : f[y] <= f[z]
    BY <2>10
  <2>12. \A y \in T : f[y] \in Int
    OBVIOUS
  <2>13. CASE f[x] <= f[z]
    BY <2>4, <2>11, <2>12, <2>13
  <2>14. CASE f[z] <= f[x]
    BY <2>4, <2>11, <2>12, <2>14
  <2> QED
    BY <2>11, <2>12, <2>13, <2>14
<1>2. Top(S)
  <2>1. Cardinality(S) \in Nat
    BY FS_CardinalityType
  <2> QED
    BY <1>1, <2>1
<1>3. PICK x \in S : \A y \in S : f[y] <= f[x]
  BY <1>2
<1> DEFINE I == {f[y] : y \in S}
<1>4. f[x] \in I /\ \A v \in I : f[x] >= v
  BY <1>3
<1>5. Max(I) \in I /\ \A v \in I : Max(I) >= v
  BY <1>4 DEF Max
<1>6. \A v \in I : v \in Int
  OBVIOUS
<1> QED
  BY <1>5, <1>6

(* A set all of whose members are one of two things has two members at     *)
(* most.                                                                   *)
LEMMA AtMostTwo ==
    ASSUME NEW x, NEW y
    PROVE  IsFiniteSet({x, y}) /\ Cardinality({x, y}) <= 2
<1>1. IsFiniteSet({x}) /\ Cardinality({x}) = 1
  BY FS_Singleton
<1>2. {x, y} = {x} \cup {y}
  OBVIOUS
<1>3. /\ IsFiniteSet({x} \cup {y})
      /\ Cardinality({x} \cup {y}) = IF y \in {x} THEN 1 ELSE 2
  BY <1>1, FS_AddElement
<1> QED
  BY <1>2, <1>3

(* The size of a union is at most the sum of the sizes. *)
LEMMA UnionAtMost ==
    ASSUME NEW S, NEW T, IsFiniteSet(S), IsFiniteSet(T)
    PROVE  /\ IsFiniteSet(S \cup T)
           /\ Cardinality(S \cup T) <= Cardinality(S) + Cardinality(T)
           /\ Cardinality(S) \in Nat /\ Cardinality(T) \in Nat
<1>1. /\ IsFiniteSet(S \cup T)
      /\ Cardinality(S \cup T) = Cardinality(S) + Cardinality(T) - Cardinality(S \cap T)
  BY FS_Union
<1>2. Cardinality(S \cap T) \in Nat
  BY FS_Intersection, FS_CardinalityType
<1>3. Cardinality(S) \in Nat /\ Cardinality(T) \in Nat
  BY FS_CardinalityType
<1> QED
  BY <1>1, <1>2, <1>3

(* The same for two pairs of things. *)
LEMMA AtMostFour ==
    ASSUME NEW x, NEW y, NEW a, NEW b
    PROVE  /\ IsFiniteSet({x, y} \cup {a, b})
           /\ Cardinality({x, y} \cup {a, b}) <= 4
<1> DEFINE S == {x, y}
           T == {a, b}
<1>1. /\ IsFiniteSet(S) /\ Cardinality(S) <= 2
      /\ IsFiniteSet(T) /\ Cardinality(T) <= 2
  BY AtMostTwo
<1> HIDE DEF S, T
<1>2. /\ IsFiniteSet(S \cup T)
      /\ Cardinality(S \cup T) <= Cardinality(S) + Cardinality(T)
      /\ Cardinality(S) \in Nat /\ Cardinality(T) \in Nat
  BY <1>1, UnionAtMost
<1>3. Cardinality(S \cup T) \in Nat
  BY <1>2, FS_CardinalityType
<1>4. IsFiniteSet(S \cup T) /\ Cardinality(S \cup T) <= 4
  BY <1>1, <1>2, <1>3
<1> QED
  BY <1>4 DEF S, T

(* A set that has nothing beyond S but x is at most one larger than S. *)
LEMMA OneMore ==
    ASSUME NEW S, IsFiniteSet(S), NEW x, NEW T, T \subseteq S \cup {x}
    PROVE  /\ IsFiniteSet(T)
           /\ Cardinality(T) <= Cardinality(S) + 1
<1>1. IsFiniteSet({x}) /\ Cardinality({x}) = 1
  BY FS_Singleton
<1>2. /\ IsFiniteSet(S \cup {x})
      /\ Cardinality(S \cup {x}) <= Cardinality(S) + 1
      /\ Cardinality(S) \in Nat
  BY <1>1, UnionAtMost
<1>3. IsFiniteSet(T) /\ Cardinality(T) <= Cardinality(S \cup {x})
  BY <1>2, FS_Subset
<1>4. Cardinality(T) \in Nat /\ Cardinality(S \cup {x}) \in Nat
  BY <1>2, <1>3, FS_CardinalityType
<1> QED
  BY <1>2, <1>3, <1>4

(* Pairing a set with two things makes it twice as large. *)
LEMMA TwiceAsMany ==
    ASSUME NEW S, IsFiniteSet(S)
    PROVE  /\ IsFiniteSet(S \X {1, 2})
           /\ Cardinality(S \X {1, 2}) = Cardinality(S) * 2
<1>1. IsFiniteSet({1}) /\ Cardinality({1}) = 1
  BY FS_Singleton
<1>2. IsFiniteSet({1} \cup {2}) /\ Cardinality({1} \cup {2}) = 2
  BY <1>1, FS_AddElement
<1>3. {1} \cup {2} = {1, 2}
  OBVIOUS
<1>4. IsFiniteSet({1, 2}) /\ Cardinality({1, 2}) = 2
  BY <1>2, <1>3
<1> QED
  BY <1>4, FS_Product

(* An interval that begins at 1. *)
LEMMA FirstN ==
    ASSUME NEW n \in Nat
    PROVE  IsFiniteSet(1 .. n) /\ Cardinality(1 .. n) = n
<1>1. 1 \in Int /\ n \in Int
  OBVIOUS
<1>2. IsFiniteSet(1 .. n) /\ Cardinality(1 .. n) = IF 1 > n THEN 0 ELSE n - 1 + 1
  BY <1>1, FS_Interval
<1> QED
  BY <1>2

(* A one-to-one correspondence keeps the size. *)
LEMMA SameSize ==
    ASSUME NEW S, NEW T, IsFiniteSet(T), NEW f \in [S -> T],
           \A x, y \in S : f[x] = f[y] => x = y,
           \A z \in T : \E x \in S : f[x] = z
    PROVE  IsFiniteSet(S) /\ Cardinality(S) = Cardinality(T)
<1>1. f \in Injection(S, T)
  BY DEF Injection, IsInjective
<1>2. f \in Surjection(S, T)
  BY DEF Surjection
<1> QED
  BY <1>1, <1>2, FS_Injection
=============================================================================
