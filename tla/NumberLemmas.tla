---------------------------- MODULE NumberLemmas ----------------------------
(***************************************************************************)
(* What the proofs about memory and sectors keep needing of numbers: least  *)
(* and greatest elements, induction in the form of a set, quotients.        *)
(***************************************************************************)
EXTENDS Integers, FiniteSetsExt, FiniteSetTheorems, TLAPS

(* A set of naturals that is not empty has a least element.                *)
LEMMA LeastExists ==
    ASSUME NEW S \in SUBSET Nat, S # {}
    PROVE  \E x \in S : \A y \in S : x <= y
<1> DEFINE R == OpToRel(<, Nat)
<1>1. IsWellFoundedOn(R, Nat)
  BY NatLessThanWellFounded
<1>2. \A x, y \in Nat : y < x => <<y, x>> \in R
  BY DEF OpToRel
<1>3. \A x, y \in Nat : ~ (y < x) => x <= y
  OBVIOUS
<1> HIDE DEF R
<1>4. PICK x \in S : \A y \in S : ~ (<<y, x>> \in R)
  BY <1>1, WFMin
<1>5. \A y \in S : x <= y
  BY <1>2, <1>3, <1>4, Zenon
<1> QED BY <1>5

(* What is true of 0 and passes from each number to the next is true of all.*)
LEMMA SetInduction ==
    ASSUME NEW S \in SUBSET Nat, 0 \in S, \A n \in S : n + 1 \in S
    PROVE  S = Nat
<1> SUFFICES ASSUME Nat \ S # {} PROVE FALSE
  OBVIOUS
<1>1. PICK x \in Nat \ S : \A y \in Nat \ S : x <= y
  BY LeastExists
<1>2. x # 0 /\ x - 1 \in Nat
  BY <1>1
<1>3. x - 1 \in S
  BY <1>1, <1>2
<1> QED BY <1>1, <1>2, <1>3

LEMMA MinIsLeast ==
    ASSUME NEW S \in SUBSET Nat, S # {}
    PROVE  Min(S) \in S /\ \A y \in S : Min(S) <= y
BY LeastExists DEF Min

(* A finite set of naturals has a member with any number of others below it.*)
LEMMA Ranked ==
    ASSUME NEW S \in SUBSET Nat, IsFiniteSet(S), NEW k \in Nat, k < Cardinality(S)
    PROVE  \E f \in S : Cardinality({g \in S : g < f}) = k
<1> DEFINE Has(T, n) == \E f \in T : Cardinality({g \in T : g < f}) = n
           N == {n \in Nat : \A T \in SUBSET Nat : IsFiniteSet(T) /\ n < Cardinality(T) => Has(T, n)}
<1>1. ASSUME NEW T \in SUBSET Nat, IsFiniteSet(T), 0 < Cardinality(T) 
      PROVE  \E m \in T : (\A y \in T : m <= y) /\ {g \in T : g < m} = {}
  <2>1. T # {}
    BY <1>1, FS_EmptySet
  <2>2. PICK m \in T : \A y \in T : m <= y
    BY <2>1, LeastExists
  <2>3. \A y \in T : y \in Nat /\ m \in Nat /\ ~ (y < m)
    BY <2>2
  <2>4. {g \in T : g < m} = {}
    BY <2>3, Zenon
  <2> QED BY <2>2, <2>4
<1>2. 0 \in N
  <2> SUFFICES ASSUME NEW T \in SUBSET Nat, IsFiniteSet(T), 0 < Cardinality(T) PROVE Has(T, 0)
    OBVIOUS
  <2>1. PICK m \in T : {g \in T : g < m} = {}
    BY <1>1
  <2>2. Cardinality({g \in T : g < m}) = 0
    BY <2>1, FS_EmptySet
  <2> QED BY <2>2
<1>3. ASSUME NEW n \in N PROVE n + 1 \in N
  <2> SUFFICES ASSUME NEW T \in SUBSET Nat, IsFiniteSet(T), n + 1 < Cardinality(T) PROVE Has(T, n + 1)
    OBVIOUS
  <2> n \in Nat
    OBVIOUS
  <2>1. Cardinality(T) \in Nat
    BY FS_CardinalityType
  <2>2. PICK m \in T : \A y \in T : m <= y
    BY <1>1, <2>1
  <2> DEFINE U == T \ {m}
  <2>3. IsFiniteSet(U) /\ Cardinality(U) = Cardinality(T) - 1
    BY FS_RemoveElement
  <2>4. PICK f \in U : Cardinality({g \in U : g < f}) = n
    <3>1. U \in SUBSET Nat /\ n < Cardinality(U)
      BY <2>1, <2>3
    <3> HIDE DEF U
    <3> QED BY <2>3, <3>1
  <2> DEFINE B == {g \in U : g < f}
  <2>5. {g \in T : g < f} = B \cup {m} /\ m \notin B
    BY <2>2
  <2>6. IsFiniteSet(B)
    <3>1. B \subseteq U
      OBVIOUS
    <3> HIDE DEF B, U
    <3> QED BY <2>3, <3>1, FS_Subset
  <2>7. Cardinality(B \cup {m}) = Cardinality(B) + 1
    BY <2>5, <2>6, FS_AddElement
  <2> QED BY <2>4, <2>5, <2>7
<1>4. N = Nat
  <2>1. N \in SUBSET Nat
    OBVIOUS
  <2> HIDE DEF N
  <2> QED BY <1>2, <1>3, <2>1, SetInduction
<1> QED BY <1>4

(* The members of a finite set of naturals, from the lowest: each is one,   *)
(* and each another.                                                        *)
Nth(S, i) == CHOOSE f \in S : Cardinality({g \in S : g < f}) = i - 1

LEMMA NthIs ==
    ASSUME NEW S \in SUBSET Nat, IsFiniteSet(S)
    PROVE  /\ \A i \in 1 .. Cardinality(S) : Nth(S, i) \in S
           /\ \A i, j \in 1 .. Cardinality(S) : Nth(S, i) = Nth(S, j) => i = j
<1>1. ASSUME NEW i \in 1 .. Cardinality(S)
      PROVE  Nth(S, i) \in S /\ Cardinality({g \in S : g < Nth(S, i)}) = i - 1
  <2>1. Cardinality(S) \in Nat
    BY FS_CardinalityType
  <2>2. i - 1 \in Nat /\ i - 1 < Cardinality(S)
    BY <2>1
  <2>3. \E f \in S : Cardinality({g \in S : g < f}) = i - 1
    BY <2>2, Ranked
  <2> QED BY <2>3 DEF Nth
<1>2. ASSUME NEW i \in 1 .. Cardinality(S), NEW j \in 1 .. Cardinality(S), Nth(S, i) = Nth(S, j)
      PROVE  i = j
  <2>1. i - 1 = j - 1
    BY <1>1, <1>2
  <2> QED BY <2>1
<1> QED BY <1>1, <1>2


(* Which one a member is says how many are below it.                        *)
LEMMA NthUnique ==
    ASSUME NEW S \in SUBSET Nat, IsFiniteSet(S), NEW x \in S, NEW n \in Nat \ {0},
           Cardinality({g \in S : g < x}) = n - 1
    PROVE  Nth(S, n) = x
<1>1. ASSUME NEW a \in S, NEW b \in S, a < b
      PROVE  Cardinality({g \in S : g < a}) # Cardinality({g \in S : g < b})
  <2> DEFINE A == {g \in S : g < a}
             B == {g \in S : g < b}
  <2>0. /\ \A g \in S : g < a => g < b
        /\ a < b /\ ~ (a < a)
    BY <1>1
  <2>1. A \subseteq B /\ a \in B /\ a \notin A
    BY <2>0, Zenon
  <2>2. IsFiniteSet(B)
    <3>1. B \in SUBSET S
      OBVIOUS
    <3> QED BY <3>1, FS_Subset
  <2> HIDE DEF A, B
  <2>3. Cardinality(A) = Cardinality(B) => B = A
    BY <2>1, <2>2, FS_Subset
  <2> QED BY <2>1, <2>3 DEF A, B
<1>2. \A a, b \in S : Cardinality({g \in S : g < a}) = Cardinality({g \in S : g < b}) => a = b
  <2> SUFFICES ASSUME NEW a \in S, NEW b \in S, a # b
               PROVE  Cardinality({g \in S : g < a}) # Cardinality({g \in S : g < b})
    OBVIOUS
  <2>1. CASE a < b
    BY <1>1, <2>1
  <2>2. CASE b < a
    BY <1>1, <2>2
  <2> QED BY <2>1, <2>2
<1>3. \E f \in S : Cardinality({g \in S : g < f}) = n - 1
  OBVIOUS
<1>4. Nth(S, n) \in S /\ Cardinality({g \in S : g < Nth(S, n)}) = n - 1
  BY <1>3 DEF Nth
<1> QED BY <1>2, <1>4

(* A new greatest member comes last.                                       *)
LEMMA NthAdded ==
    ASSUME NEW S \in SUBSET Nat, IsFiniteSet(S), NEW x \in Nat, \A y \in S : y < x
    PROVE  /\ Cardinality(S \cup {x}) = Cardinality(S) + 1
           /\ Nth(S \cup {x}, Cardinality(S) + 1) = x
           /\ \A n \in 1 .. Cardinality(S) : Nth(S \cup {x}, n) = Nth(S, n)
<1> DEFINE T == S \cup {x}
<1>1. x \notin S /\ IsFiniteSet(T) /\ T \in SUBSET Nat /\ x \in T
  BY FS_AddElement
<1>2. Cardinality(T) = Cardinality(S) + 1 /\ Cardinality(S) \in Nat
  BY <1>1, FS_AddElement, FS_CardinalityType
<1>3. {g \in T : g < x} = S
  <2>1. ~ (x < x)
    OBVIOUS
  <2> QED BY <2>1, Zenon
<1>4. \A y \in S : {g \in T : g < y} = {g \in S : g < y}
  <2>1. \A y \in S : y \in Nat /\ y < x
    OBVIOUS
  <2>2. \A y \in Nat : y < x => ~ (x < y)
    OBVIOUS
  <2> QED BY <2>1, <2>2, Zenon
<1> HIDE DEF T
<1>5. Nth(T, Cardinality(S) + 1) = x
  BY <1>1, <1>2, <1>3, NthUnique
<1>6. ASSUME NEW n \in 1 .. Cardinality(S) PROVE Nth(T, n) = Nth(S, n)
  <2>1. n - 1 \in Nat /\ n - 1 < Cardinality(S) /\ n \in Nat \ {0}
    BY <1>2
  <2>2. PICK y \in S : Cardinality({g \in S : g < y}) = n - 1
    BY <2>1, Ranked
  <2>3. Nth(S, n) = y
    BY <2>1, <2>2, NthUnique
  <2>4. y \in T /\ Cardinality({g \in T : g < y}) = n - 1
    BY <1>4, <2>2 DEF T
  <2>5. Nth(T, n) = y
    BY <1>1, <2>1, <2>4, NthUnique
  <2> QED BY <2>3, <2>5
<1> QED BY <1>2, <1>5, <1>6 DEF T

(* The least comes first and the others follow it in their order.          *)
LEMMA NthFirst ==
    ASSUME NEW S \in SUBSET Nat, IsFiniteSet(S), NEW x \in Nat, \A y \in S : x < y
    PROVE  /\ Cardinality(S \cup {x}) = Cardinality(S) + 1
           /\ Nth(S \cup {x}, 1) = x
           /\ \A n \in 1 .. Cardinality(S) : Nth(S \cup {x}, n + 1) = Nth(S, n)
<1> DEFINE T == S \cup {x}
<1>1. x \notin S /\ IsFiniteSet(T) /\ T \in SUBSET Nat /\ x \in T
  BY FS_AddElement
<1>2. Cardinality(T) = Cardinality(S) + 1 /\ Cardinality(S) \in Nat
  BY <1>1, FS_AddElement, FS_CardinalityType
<1>3. {g \in T : g < x} = {}
  <2>1. ~ (x < x) /\ \A y \in S : ~ (y < x)
    OBVIOUS
  <2> QED BY <2>1, Zenon
<1>4. ASSUME NEW y \in S PROVE Cardinality({g \in T : g < y}) = Cardinality({g \in S : g < y}) + 1
  <2> DEFINE B == {g \in S : g < y}
  <2>1. x < y
    OBVIOUS
  <2>2. {g \in T : g < y} = B \cup {x}
    BY <2>1, Zenon
  <2>3. x \notin B /\ IsFiniteSet(B)
    BY <1>1, FS_Subset
  <2> HIDE DEF B
  <2>4. Cardinality(B \cup {x}) = Cardinality(B) + 1
    BY <2>3, FS_AddElement
  <2> QED BY <2>2, <2>4 DEF B
<1> HIDE DEF T
<1>5. Nth(T, 1) = x
  <2>1. Cardinality({g \in T : g < x}) = 1 - 1 /\ 1 \in Nat \ {0}
    BY <1>3, FS_EmptySet
  <2> QED BY <1>1, <2>1, NthUnique
<1>6. ASSUME NEW n \in 1 .. Cardinality(S) PROVE Nth(T, n + 1) = Nth(S, n)
  <2>1. n - 1 \in Nat /\ n - 1 < Cardinality(S) /\ n \in Nat \ {0} /\ n + 1 \in Nat \ {0} /\ (n - 1) + 1 = (n + 1) - 1
    BY <1>2
  <2>2. PICK y \in S : Cardinality({g \in S : g < y}) = n - 1
    BY <2>1, Ranked
  <2>3. Nth(S, n) = y
    BY <2>1, <2>2, NthUnique
  <2>4. y \in T /\ Cardinality({g \in T : g < y}) = (n + 1) - 1
    BY <1>4, <2>1, <2>2 DEF T
  <2>5. Nth(T, n + 1) = y
    BY <1>1, <2>1, <2>4, NthUnique
  <2> QED BY <2>3, <2>5
<1> QED BY <1>2, <1>5, <1>6 DEF T

(* Numbers that all move down by one keep their order.                     *)
LEMMA ShiftedCount ==
    ASSUME NEW S \in SUBSET Nat, IsFiniteSet(S), NEW T \in SUBSET Nat, \A i \in Nat : i \in T <=> i + 1 \in S, 0 \notin S
    PROVE  IsFiniteSet(T) /\ Cardinality(T) = Cardinality(S)
<1> DEFINE f == [x \in S |-> x - 1]
<1>1. f \in [S -> T]
  <2>1. \A x \in S : x - 1 \in Nat /\ (x - 1) + 1 = x
    OBVIOUS
  <2> QED BY <2>1
<1>2. \A x, y \in S : f[x] = f[y] => x = y
  OBVIOUS
<1>3. \A t \in T : \E x \in S : f[x] = t
  <2> SUFFICES ASSUME NEW t \in T PROVE \E x \in S : f[x] = t
    OBVIOUS
  <2>1. t + 1 \in S /\ (t + 1) - 1 = t
    OBVIOUS
  <2> QED BY <2>1
<1> HIDE DEF f
<1>4. f \in Bijection(S, T)
  BY <1>1, <1>2, <1>3 DEF Bijection, Injection, Surjection, IsInjective
<1> QED BY <1>4, FS_Bijection DEF ExistsBijection

LEMMA NthShifted ==
    ASSUME NEW S \in SUBSET Nat, IsFiniteSet(S), NEW T \in SUBSET Nat, \A i \in Nat : i \in T <=> i + 1 \in S, 0 \notin S
    PROVE  /\ IsFiniteSet(T) /\ Cardinality(T) = Cardinality(S)
           /\ \A n \in 1 .. Cardinality(S) : Nth(T, n) \in T /\ Nth(S, n) = Nth(T, n) + 1
<1>1. IsFiniteSet(T) /\ Cardinality(T) = Cardinality(S) /\ Cardinality(T) \in Nat
  BY ShiftedCount, FS_CardinalityType
<1>2. ASSUME NEW n \in 1 .. Cardinality(S) PROVE Nth(T, n) \in T /\ Nth(S, n) = Nth(T, n) + 1
  <2>1. n - 1 \in Nat /\ n - 1 < Cardinality(T) /\ n \in Nat \ {0}
    BY <1>1
  <2>2. PICK y \in T : Cardinality({g \in T : g < y}) = n - 1
    BY <1>1, <2>1, Ranked
  <2>3. Nth(T, n) = y
    BY <1>1, <2>1, <2>2, NthUnique
  <2> DEFINE A == {g \in S : g < y + 1}
             B == {g \in T : g < y}
  <2>4. /\ A \in SUBSET S /\ B \in SUBSET Nat /\ 0 \notin A 
        /\ \A i \in Nat : i \in B <=> i + 1 \in A
    <3>1. \A i \in Nat : i + 1 < y + 1 <=> i < y
      OBVIOUS
    <3>2. A \in SUBSET S /\ B \in SUBSET Nat /\ 0 \notin A 
      OBVIOUS
    <3>3. \A i \in Nat : i \in B <=> i + 1 \in A
      BY <3>1, Zenon
    <3> QED BY <3>2, <3>3
  <2>5. IsFiniteSet(A) /\ A \in SUBSET Nat
    BY <2>4, FS_Subset
  <2> HIDE DEF A, B
  <2>6. Cardinality(A) = Cardinality(B)
    BY <2>4, <2>5, ShiftedCount
  <2>7. y + 1 \in S /\ Cardinality({g \in S : g < y + 1}) = n - 1
    BY <2>2, <2>6 DEF A, B
  <2>8. Nth(S, n) = y + 1
    BY <2>1, <2>7, NthUnique
  <2> QED BY <2>3, <2>8
<1> QED BY <1>1, <1>2

(* A finite set of naturals has an upper bound, by induction on its size.   *)
LEMMA FiniteIsBounded ==
    \A S \in SUBSET Nat : IsFiniteSet(S) => \E b \in Nat : \A x \in S : x <= b
<1> DEFINE Bounded(S) == \E b \in Nat : \A x \in S : x <= b
           N == {n \in Nat : \A S \in SUBSET Nat : IsFiniteSet(S) /\ Cardinality(S) = n => Bounded(S)}
<1>1. 0 \in N
  <2>1. \A S : IsFiniteSet(S) /\ Cardinality(S) = 0 => S = {}
    BY FS_EmptySet, Zenon
  <2>2. Bounded({})
    OBVIOUS
  <2> QED BY <2>1, <2>2
<1>2. ASSUME NEW n \in N PROVE n + 1 \in N
  <2> SUFFICES ASSUME NEW S \in SUBSET Nat, IsFiniteSet(S), Cardinality(S) = n + 1
               PROVE  Bounded(S)
    OBVIOUS
  <2> n \in Nat
    OBVIOUS
  <2>1. PICK x \in S : TRUE
    <3>1. Cardinality({}) = 0
      BY FS_EmptySet, Zenon
    <3>2. n + 1 # 0
      OBVIOUS
    <3>3. S # {}
      BY <3>1, <3>2, Zenon
    <3> QED BY <3>3
  <2>2. IsFiniteSet(S \ {x}) /\ Cardinality(S \ {x}) = n
    <3>1. IsFiniteSet(S \ {x}) /\ Cardinality(S \ {x}) = Cardinality(S) - 1
      BY <2>1, FS_RemoveElement, Zenon
    <3> QED BY <3>1
  <2>3. PICK b \in Nat : \A y \in S \ {x} : y <= b
    BY <2>2
  <2>4. CASE x <= b
    BY <2>3, <2>4
  <2>5. CASE ~ (x <= b)
    <3>1. x \in Nat /\ \A y \in S : y <= x
      BY <2>1, <2>3, <2>5
    <3> QED BY <3>1
  <2> QED BY <2>4, <2>5
<1>3. N = Nat
  <2> HIDE DEF N
  <2>1. N \subseteq Nat
    BY DEF N
  <2> QED BY <1>1, <1>2, <2>1, SetInduction
<1> QED
  <2> TAKE S \in SUBSET Nat
  <2> HAVE IsFiniteSet(S)
  <2>1. Cardinality(S) \in N
    <3>1. Cardinality(S) \in Nat
      BY FS_CardinalityType, Zenon
    <3> HIDE DEF N
    <3> QED BY <1>3, <3>1
  <2> QED BY <2>1

LEMMA MaxIsGreatest ==
    ASSUME NEW S \in SUBSET Nat, S # {}, IsFiniteSet(S)
    PROVE  Max(S) \in S /\ \A y \in S : y <= Max(S)
<1> DEFINE U == {b \in Nat : \A y \in S : y <= b}
<1>1. U # {}
  BY FiniteIsBounded
<1>2. PICK b \in U : \A c \in U : b <= c
  BY <1>1, LeastExists
<1>3. b \in S
  <2> SUFFICES ASSUME b \notin S PROVE FALSE
    OBVIOUS
  <2>1. PICK s \in S : TRUE
    OBVIOUS
  <2>2. b - 1 \in Nat /\ \A y \in S : y <= b - 1
    BY <1>2, <2>1
  <2> QED BY <1>2, <2>2
<1>4. \A y \in S : y <= b
  BY <1>2
<1> QED BY <1>3, <1>4 DEF Max

LEMMA QuotientNat ==
    ASSUME NEW n \in Nat \ {0}, NEW a \in Nat
    PROVE  a \div n \in Nat
OBVIOUS

(* A greater number has no smaller quotient.                               *)
LEMMA QuotientMonotone ==
    ASSUME NEW n \in Nat \ {0}, NEW a \in Nat, NEW b \in Nat, a <= b
    PROVE  a \div n <= b \div n
OBVIOUS

(* What the provers need said of products of unknown numbers.              *)
LEMMA ProductLaws ==
    ASSUME NEW a \in Int, NEW b \in Int, NEW c \in Int
    PROVE  a * (b + c) = a * b + a * c /\ a * (b * c) = (a * b) * c /\ a * b = b * a /\ a * b \in Int
OBVIOUS

LEMMA ProductGrows ==
    ASSUME NEW d \in Nat, NEW a \in Int, NEW b \in Int, a < b
    PROVE  d * a + d <= d * b
OBVIOUS

(* Division with remainder, which is unique, and division twice.            *)
LEMMA Digit ==
    ASSUME NEW d \in Nat \ {0}, NEW a \in Nat
    PROVE  a = d * (a \div d) + (a % d) /\  a % d \in 0 .. d - 1 /\ a \div d \in Nat
OBVIOUS

LEMMA QuotientUnique ==
    ASSUME NEW d \in Nat \ {0}, NEW q \in Nat, NEW r \in 0 .. d - 1, NEW a \in Nat, a = d * q + r
    PROVE  a \div d = q /\ a % d = r
<1> DEFINE k == a \div d
<1>1. a = d * k + (a % d) /\  a % d \in 0 .. d - 1 /\ k \in Nat
  BY Digit
<1> HIDE DEF k
<1>2. k < q => d * k + d <= d * q
  BY <1>1, ProductGrows
<1>3. q < k => d * q + d <= d * k
  BY <1>1, ProductGrows
<1>4. d * k \in Int /\ d * q \in Int
  BY <1>1
<1>5. k = q
  BY <1>1, <1>2, <1>3, <1>4
<1>6. d * k = d * q
  BY <1>5
<1> QED BY <1>1, <1>4, <1>5, <1>6 DEF k

LEMMA QuotientTwice ==
    ASSUME NEW a \in Nat, NEW c \in Nat \ {0}, NEW d \in Nat \ {0}
    PROVE  (a \div c) \div d = a \div (c * d)
<1> DEFINE q == a \div c
           p == q \div d
           r == c * (q % d) + (a % c)
<1>1. q \in Nat /\ p \in Nat /\ a % c \in 0 .. c - 1 /\ q % d \in 0 .. d - 1
  BY Digit
<1>2. a = c * q + (a % c) /\ q = d * p + (q % d)
  BY <1>1, Digit
<1> HIDE DEF p, q
<1>3. c * q = (c * d) * p + c * (q % d)
  BY <1>1, <1>2
<1>4. c * (q % d) + c <= c * d /\ c * (q % d) \in Nat /\ c * d \in Nat \ {0}
  BY <1>1, ProductGrows
<1>5. r \in 0 .. c * d - 1 /\ a = (c * d) * p + r
  BY <1>1, <1>2, <1>3, <1>4
<1> HIDE DEF r
<1>6. a \div (c * d) = p
  BY <1>1, <1>4, <1>5, QuotientUnique
<1> QED BY <1>6 DEF p, q

(* A remainder of a number within one divisor of the right range.           *)
LEMMA RemainderNear ==
    ASSUME NEW d \in Nat \ {0}, NEW a \in Int, - d <= a, a < 2 * d
    PROVE  a % d = IF a < 0 THEN a + d ELSE IF a < d THEN a ELSE a - d
<1> DEFINE k == a \div d
<1>1. a = d * k + (a % d) /\ a % d \in 0 .. d - 1 /\ k \in Int
  OBVIOUS
<1> HIDE DEF k
<1>2. \A j \in Int : (k < j => d * k + d <= d * j) /\ (j < k => d * j + d <= d * k) /\ d * j \in Int
  BY <1>1, ProductGrows
<1>3. d * (-1) = - d /\ d * 0 = 0 /\ d * 1 = d /\ d * 2 = 2 * d /\ {-1, 0, 1, 2} \subseteq Int
  OBVIOUS
<1>4. k \in {-1, 0, 1}
  <2>1. ~ (k < -1)
    BY <1>1, <1>2, <1>3
  <2>2. ~ (1 < k)
    BY <1>1, <1>2, <1>3
  <2> QED BY <1>1, <2>1, <2>2
<1>5. CASE k = -1
  BY <1>1, <1>3, <1>5
<1>6. CASE k = 0
  BY <1>1, <1>3, <1>6
<1>7. CASE k = 1
  BY <1>1, <1>3, <1>7
<1> QED BY <1>4, <1>5, <1>6, <1>7
=============================================================================
